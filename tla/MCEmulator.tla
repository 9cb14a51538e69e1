------------------------------ MODULE MCEmulator ------------------------------
(***************************************************************************)
(* Programs for Emulator: a few instructions that set up the pointers, any *)
(* three instructions of a small set, and the call of HALT.  The address   *)
(* space has 128 bytes: one word of public input, two of hints of which    *)
(* one is given, four of static data, four of heap and three of stack.     *)
(***************************************************************************)
EXTENDS Emulator, TLC

MCRegs == {0, 5, 10, 11, 32}
MCPublicIO == [start |-> 44, end |-> 48]
MCHints    == [start |-> 48, end |-> 56]
MCHeap     == [start |-> 72, end |-> 88]
MCStack    == [start |-> 92, end |-> 104]
MCIoInit   == 44 :> 3
MCHintInit == 48 :> 2
MCImage    == [a \in {56, 60, 64, 68} |-> IF a = 56 THEN 1 ELSE 0]
MCResults  == {<<1, 3>>, <<0, 2>>}

Unary  == 8
Binary == 12
-----------------------------------------------------------------------------
Decoded(kind, rd, rs1, rs2, imm) ==
    [kind |-> kind, rd |-> rd, rs1 |-> rs1, rs2 |-> rs2, imm |-> imm]
ADDI(rd, rs1, imm) == Decoded("ADDI", rd, rs1, 0, imm)
ADD(rd, rs1, rs2)  == Decoded("ADD", rd, rs1, rs2, 0)
LW(rd, imm, rs1)   == Decoded("LW", rd, rs1, 0, imm)
SW(rs2, imm, rs1)  == Decoded("SW", 0, rs1, rs2, imm)
BEQ(rs1, rs2, imm) == Decoded("BEQ", 0, rs1, rs2, imm)
JAL(rd, imm)       == Decoded("JAL", rd, 0, 0, imm)
JALR(rd, imm, rs1) == Decoded("JALR", rd, rs1, 0, imm)
ECALL              == Decoded("ECALL", 0, 0, 0, 0)
INVALID            == Decoded("INVALID", 0, 0, 0, 0)

Halting == <<ADDI(5, 0, HaltCode), ECALL>>
Around(setup, body) == {setup \o b \o Halting : b \in [1 .. 3 -> body]}

\* A pointer in x10 walks over the heap; x11 carries data.
DataBody ==
    {ADDI(10, 10, 4), ADD(11, 11, 10), ADD(0, 10, 10), ADDI(0, 0, 5),
     LW(11, 0, 10), LW(0, 48, 0), LW(10, 44, 0), SW(11, 0, 10), SW(10, 4, 10), SW(10, 76, 0),
     SW(10, 96, 0), SW(0, 100, 0), SW(11, 92, 0), SW(11, 44, 0), SW(10, 48, 0), LW(11, 52, 0),
     SW(11, 46, 0)}
DataPrograms == Around(<<ADDI(10, 0, 72), ADDI(11, 0, 3)>>, DataBody)

\* Jumps and branches, forward, backward and to themselves.
JumpBody ==
    {ADDI(10, 10, 4), BEQ(10, 11, 8), BEQ(0, 0, 0), JAL(11, 8), JAL(0, -4), JALR(10, 3, 10),
     JALR(0, 0, 10), SW(11, 72, 0), INVALID}
JumpPrograms == Around(<<ADDI(10, 0, 12)>>, JumpBody)

\* Calls of both kinds on static data, the words behind the two pointers
\* disjoint, and calls on words of the heap.
CallBody ==
    {ECALL, ADDI(5, 0, Unary), ADDI(5, 0, 1), SW(5, 64, 0), SW(5, 92, 0), SW(5, 60, 0)}
HeapCallBody == {ECALL, SW(10, 72, 0), SW(0, 80, 0), LW(0, 76, 0), ADDI(10, 10, 4), LW(11, 84, 0)}
CallPrograms ==
    UNION {Around(<<ADDI(5, 0, Binary), ADDI(10, 0, 56), ADDI(11, 0, 64)>>, CallBody),
           Around(<<ADDI(5, 0, Unary), ADDI(10, 0, 56)>>, CallBody),
           Around(<<ADDI(5, 0, Unary), ADDI(10, 0, 72)>>, HeapCallBody)}

MCPrograms == DataPrograms \union JumpPrograms \union CallPrograms
-----------------------------------------------------------------------------
\* One call with one pointer, on words of the heap or of the stack that the
\* program may have stored to before or not.
FreshCallPrograms ==
    {<<ADDI(5, 0, Unary), ADDI(10, 0, p), store, ECALL>> \o Halting :
        p \in {72, 76, 92, 96}, store \in {SW(0, 76, 0), SW(0, 84, 0), SW(0, 92, 0)}}

\* One call with two pointers, which may be equal or overlap.
AliasedCallPrograms ==
    {<<ADDI(5, 0, Binary), ADDI(10, 0, p), ADDI(11, 0, q), ECALL>> \o Halting :
        p \in {56, 60}, q \in {56, 60, 64}}
=============================================================================
