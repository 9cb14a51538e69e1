------------------------------ MODULE Transpiler ------------------------------
(***************************************************************************)
(* From the encoded words of the text segment to the instructions of the   *)
(* machine (ceno_emul/src/disassemble/mod.rs), and what the emulator, the  *)
(* program table and the circuits ask of an instruction (rv32im.rs).       *)
(*                                                                         *)
(* A word is what the decoder of rrs_lib takes it for, [op, rd, rs1, rs2,  *)
(* imm]: op is a mnemonic, or "unknown"; a field the encoding of op has    *)
(* not holds the bits that stand in its place.  A word has WordBits bits,  *)
(* the upper immediates start at bit UpperShift (32 and 12).               *)
(***************************************************************************)
EXTENDS Integers, Sequences

CONSTANTS
    WordBits,    \* bits of a word, positive
    UpperShift   \* bits below an upper immediate, at most WordBits

INSN_SIZE == 4
RD_NULL == 32

RTypes == {"ADD", "SUB", "XOR", "OR", "AND", "SLL", "SRL", "SRA", "SLT", "SLTU",
           "MUL", "MULH", "MULHSU", "MULHU", "DIV", "DIVU", "REM", "REMU"}
ITypes == {"ADDI", "XORI", "ORI", "ANDI", "SLTI", "SLTIU"}
ShamtTypes == {"SLLI", "SRLI", "SRAI"}
LoadTypes  == {"LB", "LH", "LW", "LBU", "LHU"}
STypes == {"SB", "SH", "SW"}
BTypes == {"BEQ", "BNE", "BLT", "BGE", "BLTU", "BGEU"}
UTypes == {"LUI", "AUIPC"}
Unimplemented == {"EBREAK", "CSRRC", "CSRRCI", "CSRRS", "CSRRSI", "CSRRW", "CSRRWI",
                  "FENCE", "MRET", "WFI", "unknown"}

InsnKind == RTypes \union ITypes \union ShamtTypes \union LoadTypes \union STypes \union BTypes
              \union {"JAL", "JALR", "ECALL", "INVALID"}

Instruction(kind, rd, rs1, rs2, imm) ==
    [kind |-> kind, rd |-> rd, rs1 |-> rs1, rs2 |-> rs2, imm |-> imm]
-----------------------------------------------------------------------------
(***************************************************************************)
(* InstructionTranspiler.                                                  *)
(***************************************************************************)
\* wrapping_add of i32.
WrappingAdd(x, y) ==
    LET half == 2 ^ (WordBits - 1) IN ((x + y + half) % 2 ^ WordBits) - half

FromRType(d)      == Instruction(d.op, d.rd, d.rs1, d.rs2, 0)
FromIType(d)      == Instruction(d.op, d.rd, d.rs1, 0, d.imm)
FromITypeShamt(d) == Instruction(d.op, d.rd, d.rs1, 0, d.imm)
FromSType(d)      == Instruction(d.op, 0, d.rs1, d.rs2, d.imm)
FromBType(d)      == Instruction(d.op, 0, d.rs1, d.rs2, d.imm)
Unimp             == Instruction("INVALID", 0, 0, 0, 0)
ProcessJal(d)     == Instruction("JAL", d.rd, 0, 0, d.imm)
ProcessJalr(d)    == Instruction("JALR", d.rd, d.rs1, 0, d.imm)
ProcessEcall      == Instruction("ECALL", 0, 0, 0, 0)

\* There are no LUI and AUIPC in the machine: both become ADDI to x0, the
\* immediate shifted already and the program counter added now.
ProcessLui(d)       == Instruction("ADDI", d.rd, 0, 0, d.imm)
ProcessAuipc(d, pc) == Instruction("ADDI", d.rd, 0, 0, WrappingAdd(d.imm, pc))

Process(d, pc) ==
    CASE d.op \in RTypes        -> FromRType(d)
      [] d.op \in ITypes        -> FromIType(d)
      [] d.op \in ShamtTypes    -> FromITypeShamt(d)
      [] d.op \in LoadTypes     -> FromIType(d)
      [] d.op \in STypes        -> FromSType(d)
      [] d.op \in BTypes        -> FromBType(d)
      [] d.op = "JAL"           -> ProcessJal(d)
      [] d.op = "JALR"          -> ProcessJalr(d)
      [] d.op = "LUI"           -> ProcessLui(d)
      [] d.op = "AUIPC"         -> ProcessAuipc(d, pc)
      [] d.op = "ECALL"         -> ProcessEcall
      [] d.op \in Unimplemented -> Unimp

Transpile(base, words) ==
    [i \in DOMAIN words |-> Process(words[i], base + INSN_SIZE * (i - 1))]
-----------------------------------------------------------------------------
(***************************************************************************)
(* InsnCategory, InsnFormat and the registers of an instruction.           *)
(***************************************************************************)
InsnCategory(kind) ==
    CASE kind = "INVALID"      -> "Invalid"
      [] kind \in BTypes       -> "Branch"
      [] kind \in LoadTypes    -> "Load"
      [] kind \in STypes       -> "Store"
      [] kind = "ECALL"        -> "System"
      [] OTHER                 -> "Compute"

InsnFormat(kind) ==
    CASE kind \in RTypes -> "R"
      [] kind \in BTypes -> "B"
      [] kind \in STypes -> "S"
      [] kind = "JAL"    -> "J"
      [] OTHER           -> "I"

RdInternal(insn) ==
    IF InsnFormat(insn.kind) \in {"R", "I", "U", "J"} /\ insn.rd # 0 THEN insn.rd ELSE RD_NULL
Rs1OrZero(insn) == IF InsnFormat(insn.kind) \in {"R", "I", "S", "B"} THEN insn.rs1 ELSE 0
Rs2OrZero(insn) == IF InsnFormat(insn.kind) \in {"R", "S", "B"} THEN insn.rs2 ELSE 0
-----------------------------------------------------------------------------
(***************************************************************************)
(* What an encoded word means, whatever it becomes: the value an upper     *)
(* immediate gives its register, and the registers an operation has.       *)
(***************************************************************************)
UpperValue(d, pc) == (IF d.op = "AUIPC" THEN pc + d.imm ELSE d.imm) % 2 ^ WordBits

Encodings(ops, registers, imms) ==
    [op : ops, rd : registers, rs1 : registers, rs2 : registers, imm : imms]
UpperImms == {2 ^ UpperShift * k : k \in -(2 ^ (WordBits - UpperShift - 1)) .. 2 ^ (WordBits - UpperShift - 1) - 1}

\* An upper immediate leaves what it means in its register, for ADDI to x0 does.
UpperImmediatesKeepMeaning(registers, pcs) ==
    \A d \in Encodings(UTypes, registers, UpperImms), pc \in pcs :
        LET insn == Process(d, pc)
        IN  /\ insn.kind = "ADDI" /\ insn.rs1 = 0 /\ insn.rd = d.rd
            /\ insn.imm \in -(2 ^ (WordBits - 1)) .. 2 ^ (WordBits - 1) - 1
            /\ insn.imm % 2 ^ WordBits = UpperValue(d, pc)

\* Bits that are no register never pass for one: two words that differ only in
\* fields their encoding has not become the same instruction.
HasNo(op) ==
    CASE op \in RTypes                       -> {"imm"}
      [] op \in STypes \union BTypes         -> {"rd"}
      [] op \in UTypes \union {"JAL"}        -> {"rs1", "rs2"}
      [] op \in Unimplemented \union {"ECALL"} -> {"rd", "rs1", "rs2", "imm"}
      [] OTHER                               -> {"rs2"}
OtherBitsIgnored(ops, registers, imms, pc) ==
    \A op \in ops : \A d, e \in Encodings({op}, registers, imms) :
        (\A f \in {"rd", "rs1", "rs2", "imm"} \ HasNo(op) : d[f] = e[f]) => Process(d, pc) = Process(e, pc)
===============================================================================
