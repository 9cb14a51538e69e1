---------------------------- MODULE GuestProgram ----------------------------
(***************************************************************************)
(* What a guest starts from: the host writes the hints and the public      *)
(* input as buffers of items (ceno_host), the loader turns an ELF file     *)
(* into a memory image (ceno_emul/src/elf.rs), and setup_platform_inner    *)
(* lays out the address space around it (ceno_zkvm/src/e2e.rs).            *)
(*                                                                         *)
(* A byte ranges over 0 .. Byte - 1 and a word is WORD_SIZE bytes.  An ELF *)
(* file is [entry, segments, symbols, sheap]: its loadable segments        *)
(* [vaddr, bytes, mem_size, exec] in file order, and the addresses of its  *)
(* symbols.                                                                *)
(***************************************************************************)
EXTENDS Integers, Sequences, FiniteSets, SequencesExt, FiniteSetsExt

CONSTANTS
    Byte,            \* the number of values of a byte
    RKYV_ALIGNMENT,  \* alignment of an item in a buffer
    StackEnd, PublicIoStart, Hints,   \* CENO_PLATFORM
    IoExtension      \* bytes reserved for messages behind a debug stack

WORD_SIZE == 4
-----------------------------------------------------------------------------
(***************************************************************************)
(* Arithmetic of sizes.                                                    *)
(***************************************************************************)
DivCeil(n, d)        == (n + d - 1) \div d
NextMultipleOf(n, d) == d * DivCeil(n, d)
Powers               == {2 ^ k : k \in 0 .. 16}
NextPowerOfTwo(n)    == Min({p \in Powers : n <= p})
PrevPowerOfTwo(n)    == Max({p \in Powers : p <= n})
IsPowerOfTwo(n)      == n \in Powers

Least(a, b) == IF a < b THEN a ELSE b
\* Faulty: the digits are not masked.
BytesUnmasked(word) == [j \in 1 .. WORD_SIZE |-> word \div Byte ^ (j - 1)]
WordOf(bytes)  == FoldRight(LAMBDA b, acc : b + Byte * acc, bytes, 0)
BytesOf(word)  == [j \in 1 .. WORD_SIZE |-> (word \div Byte ^ (j - 1)) % Byte]
WordsOf(bytes) ==
    [i \in 1 .. DivCeil(Len(bytes), WORD_SIZE) |->
        WordOf(SubSeq(bytes, WORD_SIZE * (i - 1) + 1, Least(WORD_SIZE * i, Len(bytes))))]
BytesIn(words) == FlattenSeq([i \in DOMAIN words |-> BytesOf(words[i])])
Zeros(n) == [i \in 1 .. n |-> 0]

\* The word addresses of a range of byte addresses (IterAddresses).
InRange(a, range) == range.start <= a /\ a < range.end
WordCount(range)  == DivCeil(range.end - range.start, WORD_SIZE)
WordAt(range, k)  == range.start + WORD_SIZE * k
-----------------------------------------------------------------------------
(***************************************************************************)
(* The buffer of CenoStdin: the ends of the items, counted from the start  *)
(* of the buffer, then the items, each padded to the alignment of rkyv.    *)
(***************************************************************************)
ItemData(item) == item \o Zeros(NextMultipleOf(Len(item), RKYV_ALIGNMENT) - Len(item))

\* Items: the data appended so far and the end of each item in it.
NoItems == [data |-> <<>>, ends |-> <<>>]
AppendItem(items, item) ==
    [data |-> items.data \o ItemData(item), ends |-> Append(items.ends, Len(items.data) + Len(item))]

\* Faulty: the ends are written as they were before the lengths were prepended.
FinaliseUnshifted(items) ==
    LET start == NextMultipleOf(WORD_SIZE * Len(items.ends), RKYV_ALIGNMENT)
        ends  == BytesIn(items.ends)
    IN  ends \o Zeros(start - Len(ends)) \o items.data

Finalise(items) ==
    LET start == NextMultipleOf(WORD_SIZE * Len(items.ends), RKYV_ALIGNMENT)
        ends  == BytesIn([i \in DOMAIN items.ends |-> items.ends[i] + start])
    IN  ends \o Zeros(start - Len(ends)) \o items.data

\* From<&CenoStdin> for Vec<u32>: whole words only.
StdinWords(stdin) ==
    LET bytes == Finalise(FoldLeft(AppendItem, NoItems, stdin))
    IN  WordsOf(SubSeq(bytes, 1, WORD_SIZE * (Len(bytes) \div WORD_SIZE)))
-----------------------------------------------------------------------------
(***************************************************************************)
(* Program::load_elf.                                                      *)
(***************************************************************************)
InitializedData(seg) ==
    [a \in {seg.vaddr + WORD_SIZE * i : i \in 0 .. DivCeil(Len(seg.bytes), WORD_SIZE) - 1} |->
        WordsOf(seg.bytes)[(a - seg.vaddr) \div WORD_SIZE + 1]]

\* The words from the end of the file data to the last symbol are zero.  The
\* first of them is where the file data ends, aligned or not.
UninitializedData(elf, seg) ==
    LET symbols == {s \in elf.symbols : seg.vaddr <= s /\ s < seg.vaddr + seg.mem_size}
        size    == Len(seg.bytes)
    IN  IF symbols = {} THEN <<>>
        ELSE [a \in {seg.vaddr + size + WORD_SIZE * k :
                        k \in 0 .. (Max(symbols) - seg.vaddr - size) \div WORD_SIZE} |-> 0]

SegmentImage(elf) ==
    FoldLeft(LAMBDA img, seg : UninitializedData(elf, seg) @@ InitializedData(seg) @@ img,
             <<>>, elf.segments)

\* The image, continued with zeros behind its last word to a power of two.
PaddedImage(img) ==
    LET size == Cardinality(DOMAIN img)
        pad  == NextPowerOfTwo(size) - size
    IN  img @@ [a \in {Max(DOMAIN img) + WORD_SIZE * k : k \in 1 .. pad} |-> 0]

Executable(elf) == SelectSeq(elf.segments, LAMBDA seg : seg.exec)

\* The errors of the loader.
Loadable(elf) ==
    /\ elf.entry % WORD_SIZE = 0
    /\ \A i \in DOMAIN elf.segments : elf.segments[i].vaddr % WORD_SIZE = 0
    /\ Len(Executable(elf)) = 1
    /\ LET text == Executable(elf)[1]
       IN  text.vaddr <= elf.entry /\ elf.entry <= text.vaddr + Len(text.bytes)
    /\ Max(DOMAIN PaddedImage(SegmentImage(elf))) < elf.sheap

LoadElf(elf) ==
    LET text == Executable(elf)[1]
    IN  [entry |-> elf.entry, base_address |-> text.vaddr,
         instructions |-> DivCeil(Len(text.bytes), WORD_SIZE),
         sheap |-> elf.sheap, image |-> PaddedImage(SegmentImage(elf))]

\* VMState::new writes the image by word address, in the order of the keys.
InitialWord(image, w) ==
    LET keys == {a \in DOMAIN image : a \div WORD_SIZE = w}
    IN  IF keys = {} THEN 0 ELSE image[Max(keys)]
-----------------------------------------------------------------------------
(***************************************************************************)
(* setup_platform_inner, with the debug preset or without.                 *)
(***************************************************************************)
\* Faulty: without the padding to a power of two.
HeapRangeUnpadded(program, heap_size) ==
    [start |-> program.sheap, end |-> program.sheap + heap_size]
HeapRange(program, heap_size) ==
    LET words == DivCeil(heap_size, WORD_SIZE)
    IN  [start |-> program.sheap,
         end   |-> program.sheap + heap_size + WORD_SIZE * (NextPowerOfTwo(words) - words)]

SetupPlatform(program, stack_size, heap_size, pub_io_size, debug) ==
    [rom       |-> [start |-> program.base_address,
                    end   |-> program.base_address + WORD_SIZE * program.instructions],
     stack     |-> [start |-> StackEnd - stack_size,
                    end   |-> StackEnd + (IF debug THEN IoExtension ELSE 0)],
     heap      |-> HeapRange(program, heap_size),
     public_io |-> [start |-> PublicIoStart, end |-> PublicIoStart + NextPowerOfTwo(pub_io_size)],
     hints     |-> Hints]

\* Platform::validate: no two ranges overlap.
Validate(platform) ==
    \A r, s \in DOMAIN platform :
        r # s => platform[r].end <= platform[s].start \/ platform[s].end <= platform[r].start

\* MemPadder::new_mem_records: the values at the start of the range, then zeros.
MemRecords(range, padded_len, values) ==
    [k \in 1 .. padded_len |->
        [addr |-> WordAt(range, k - 1), value |-> IF k <= Len(values) THEN values[k] ELSE 0]]
=============================================================================
