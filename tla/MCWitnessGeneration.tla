------------------------- MODULE MCWitnessGeneration -------------------------
(***************************************************************************)
(* Two programs on four setups.  Addresses are below 256, one word.        *)
(***************************************************************************)
EXTENDS WitnessGeneration

Text == [vaddr |-> 16, bytes |-> Zeros(16), mem_size |-> 16, exec |-> TRUE]

\* Statics with values, and a static without a value behind them.
WithBss ==
    [entry |-> 16, sheap |-> 112, data |-> 96, symbols |-> {96, 100, 104, 108},
     segments |-> <<Text, [vaddr |-> 96, mem_size |-> 16, exec |-> FALSE,
                           bytes |-> BytesOf(112) \o BytesOf(64) \o BytesOf(40)]>>]
\* Seven words of image, padded to eight; the data comes first in the file.
Padded ==
    [entry |-> 20, sheap |-> 116, data |-> 96, symbols |-> {96, 100, 104},
     segments |-> <<[vaddr |-> 96, mem_size |-> 12, exec |-> FALSE,
                     bytes |-> BytesOf(116) \o BytesOf(64) \o BytesOf(40)], Text>>]

MCHints == [start |-> 64, end |-> 96]

Plain == [stdin |-> <<<<1, 2, 3, 1, 2>>, <<3>>>>, public_io |-> <<<<2, 1>>>>, elf |-> WithBss,
          stack_size |-> 16, heap_size |-> 24, pub_io_size |-> 16,
          debug |-> FALSE, mock_proving |-> FALSE]

MCHosts ==
    {Plain,
     [Plain EXCEPT !.stdin = <<>>, !.elf = Padded, !.heap_size = 16, !.pub_io_size = 15],
     [Plain EXCEPT !.stdin = <<<<3, 3>>>>, !.elf = Padded, !.debug = TRUE, !.stack_size = 8],
     [Plain EXCEPT !.debug = TRUE, !.public_io = <<>>, !.mock_proving = TRUE]}

MCLayouts  == {[size |-> 3, align |-> 1], [size |-> 4, align |-> 8]}
MCMessages == {<<>>, <<1>>, <<1, 2, 3, 1, 2>>}
MCDepths   == {1, 3}
=============================================================================
