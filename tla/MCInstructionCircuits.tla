------------------------- MODULE MCInstructionCircuits -------------------------
(***************************************************************************)
(* InstructionCircuits with words of four bits: limbs of two bits, bytes   *)
(* of one, and the field of 241 = 2^8 - 2^4 + 1 elements, to them what     *)
(* Goldilocks, 2^64 - 2^32 + 1, is to words of 32 bits.  All words are     *)
(* operands.                                                               *)
(***************************************************************************)
EXTENDS InstructionCircuits

MCOperands == 0 .. 15
MCBases == 0 .. 15
MCPrevious == {0, 13}
MCImms == {-8, -4, -1, 0, 1, 3, 4}
MCPcs == {8}
MCLasts == {0, 11}
-----------------------------------------------------------------------------
(***************************************************************************)
(* Where the instructions come from: the transpiler, with upper immediates *)
(* of two bits.                                                            *)
(***************************************************************************)
UpperShift == 2
T == INSTANCE Transpiler

MCRegisters == {0, 1, 3}
MCMnemonics == T!RTypes \union T!ITypes \union T!ShamtTypes \union T!LoadTypes \union T!STypes
                 \union T!BTypes \union T!UTypes \union T!Unimplemented \union {"JAL", "JALR", "ECALL"}
MCEncodings ==
    {d \in T!Encodings(MCMnemonics, MCRegisters, MCImms) : d.op \in T!ShamtTypes => d.imm \in 0 .. 3}

\* LUI and AUIPC load what they mean wherever they stand.
ASSUME UpperImmediates == T!UpperImmediatesKeepMeaning(MCRegisters, {0, 4, 8, 12})

\* What an instruction has no field for never shows in it.
ASSUME OtherBits == T!OtherBitsIgnored(MCMnemonics, {0, 3}, {-4, 0, 3}, 8)

\* The circuits and the table of the program speak of the same instruction:
\* the row of a transpiled instruction, made from its format, is the one the
\* circuits are checked against, and every kind of step comes from some word.
ASSUME RowsOfTranspiled ==
    \A d \in MCEncodings :
        LET insn == T!Process(d, 8)
        IN  insn.kind # "INVALID" =>
              ProgramRow(insn, 8) =
                <<"Instruction", 8, insn.kind, T!RdInternal(insn), T!Rs1OrZero(insn), T!Rs2OrZero(insn),
                  Field(ImmInternal(insn))>>
ASSUME AllKindsTranspiled ==
    {T!Process(d, 8).kind : d \in MCEncodings} = T!InsnKind

\* What the dummy circuits have follows from format and category.
ASSUME DummiesFollowFormat ==
    \A kind \in T!InsnKind \ {"INVALID"} :
        LET format == T!InsnFormat(kind)
            category == T!InsnCategory(kind)
            ecall == kind = "ECALL"
        IN  /\ WithRs1(kind) <=> ecall \/ format \in {"R", "I", "S", "B"}
            /\ WithRs2(kind) <=> ecall \/ format \in {"R", "S", "B"}
            /\ WithRd(kind)  <=> ecall \/ format \in {"R", "I", "U", "J"}
            /\ WithMemRead(kind)  <=> category = "Load"
            /\ WithMemWrite(kind) <=> category = "Store" \/ ecall
            /\ Branching(kind) <=> category = "Branch" \/ kind \in {"JAL", "JALR"} \/ ecall
-----------------------------------------------------------------------------
(***************************************************************************)
(* The arithmetic of limbs: words in two limbs as in the circuits, words   *)
(* in four bytes, three limbs that are more than a word, and integers of   *)
(* twice the size of a word, which do not fit the field.                   *)
(***************************************************************************)
Halves  == INSTANCE UIntLimbs WITH M <- 4, C <- 2
Bytes   == INSTANCE UIntLimbs WITH M <- 4, C <- 1
Thirds  == INSTANCE UIntLimbs WITH M <- 5, C <- 2
Doubles == INSTANCE UIntLimbs WITH M <- 8, C <- 2

Words4 == 0 .. 15
Words5 == 0 .. 31

\* Sums.
ASSUME Sums ==
    /\ Halves!AddSound(Words4) /\ Halves!AddComplete(Words4)
    /\ Bytes!AddSound(Words4) /\ Bytes!AddComplete(Words4)
    /\ Thirds!AddComplete(Words5)

\* Products, of one width and of two.
ASSUME ProductsRight ==
    /\ Halves!MulSound(Words4, 2) /\ Halves!MulSound({0, 1, 7, 14, 15}, 4)
    /\ Bytes!MulSound({0, 1, 6, 7, 13, 15}, 4)
    /\ Halves!MulComplete(Words4, 2) /\ Halves!MulComplete(Words4, 4)
    /\ Bytes!MulComplete(Words4, 4) /\ Thirds!MulComplete(Words5, 3)
ASSUME Overflows ==
    Halves!OverflowUnnoticed(Words4, 2) /\ ~Halves!OverflowUnnoticed(Words4, 4)

\* Equality by value is that of integers for words, and no longer for more.
ASSUME Equality ==
    /\ Halves!EqualByValue(Words4) /\ Halves!FlagForced(0 .. 3)
    /\ Doubles!EqualByValue({0, 1, 240, 241, 242, 255})

\* Limbs and bytes, and counting.
ASSUME Splitting ==
    Halves!SplitsBack(Words4) /\ Halves!CountersCount(2 .. 16) /\ Bytes!CountersCount(2 .. 16)

\* The divide gadget.
ASSUME Dividing == Halves!DivComplete(Words4) /\ Halves!DivNeedsDivisor(Words4)
===============================================================================
