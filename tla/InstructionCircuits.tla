-------------------------- MODULE InstructionCircuits --------------------------
(***************************************************************************)
(* The instruction circuits (ceno_zkvm/src/instructions/riscv): a step the *)
(* emulator completed is assigned to a row of the circuit of its opcode,   *)
(* the lookups of the row are counted, and the circuit, built beforehand   *)
(* without a look at the step, states constraints, lookups and records     *)
(* over the cells of the row.  The three must fit together: nobody checks  *)
(* them before the proof is verified but the mock prover of the tests      *)
(* (scheme/mock_prover.rs), on the operands the tests happen to name.      *)
(*                                                                         *)
(* Words are WordBits wide.  The steps are those of the default build      *)
(* (forbid_overflow): addresses of loads, stores and jumps do not wrap     *)
(* around.  The operands are any words; a register may be named twice.     *)
(***************************************************************************)
EXTENDS CircuitGadgets, SequencesExt

CONSTANTS
    Operands,    \* words considered for registers and memory
    Bases,       \* words considered where they are the base of an address
    Previous,    \* values considered where they matter little: rd and memory before
    Imms,        \* signed immediates
    Pcs,         \* program counters: multiples of 4
    Cycle,       \* cycle of the step
    Lasts,       \* cycles considered for the previous access: below Cycle
    SyscallCode, \* the function code of a system call
    UnknownCode  \* a function code without a handler

ASSUME StepAssumption ==
    /\ \A S \in {Operands, Bases, Previous} : S \subseteq Words
    /\ Imms \subseteq -(WordRange \div 2) .. WordRange \div 2 - 1
    /\ \A pc \in Pcs : pc \in Nat /\ pc % 4 = 0 /\ pc + 4 \in Words
    /\ Cycle \in Nat /\ \A t \in Lasts : t \in 0 .. Cycle - 1
    /\ Cycle + 4 <= WordRange
    /\ {SyscallCode, UnknownCode} \subseteq Words /\ Cardinality({0, SyscallCode, UnknownCode}) = 3

PC_STEP_SIZE == 4
EXIT_PC == 0
HaltCode == 0
RD_NULL == 32
RegEcall == 5
RegArg0 == 10

Sub == [rs1 |-> 0, rs2 |-> 1, rd |-> 2, mem |-> 3, reg1 |-> 2, reg2 |-> 2, mem1 |-> 3, mem2 |-> 3]
MemoryOps == {"mem", "mem1", "mem2"}
SUBCYCLES_PER_INSN == 4

ArithKinds    == {"ADD", "SUB"}
ArithImmKinds == {"ADDI"}
MulKinds      == {"MUL", "MULH", "MULHU", "MULHSU"}
DivKinds      == {"DIV", "DIVU", "REM", "REMU"}
ShiftKinds    == {"SLL", "SRL", "SRA"}
ShiftImmKinds == {"SLLI", "SRLI", "SRAI"}
SltKinds      == {"SLT", "SLTU"}
SltImmKinds   == {"SLTI", "SLTIU"}
LogicKinds    == {"AND", "OR", "XOR"}
LogicImmKinds == {"ANDI", "ORI", "XORI"}
BranchKinds   == {"BEQ", "BNE", "BLT", "BGE", "BLTU", "BGEU"}
LoadKinds     == {"LW", "LH", "LHU", "LB", "LBU"}
StoreKinds    == {"SW", "SH", "SB"}

RKinds == ArithKinds \union MulKinds \union DivKinds \union ShiftKinds \union SltKinds
            \union LogicKinds
IKinds == ArithImmKinds \union ShiftImmKinds \union SltImmKinds \union LogicImmKinds

VARIABLES
    step,   \* StepRecord of the emulator
    row     \* the cells assigned for it, by gadget

vars == <<step, row>>
NoStep == [kind |-> "none"]
NoRow == <<>>
-----------------------------------------------------------------------------
(***************************************************************************)
(* The emulator's side: what an instruction computes (ceno_emul/rv32im.rs) *)
(***************************************************************************)
Magnitude(x) == IF x < 0 THEN -x ELSE x
Quotient(x, y) == (IF (x < 0) = (y < 0) THEN 1 ELSE -1) * (Magnitude(x) \div Magnitude(y))
BoolWord(b) == IF b THEN 1 ELSE 0

\* The word whose bits are op of the bits of a and b.
Bit(v, i) == (v \div 2 ^ i) % 2
BitAnd == [p \in {0, 1} \X {0, 1} |-> p[1] * p[2]]
BitOr  == [p \in {0, 1} \X {0, 1} |-> p[1] + p[2] - p[1] * p[2]]
BitXor == [p \in {0, 1} \X {0, 1} |-> (p[1] + p[2]) % 2]
Bitwise(op, a, b) ==
    CHOOSE c \in Words : \A i \in 0 .. WordBits - 1 : Bit(c, i) = op[<<Bit(a, i), Bit(b, i)>>]

Compute(kind, a, b) ==
    CASE kind \in {"ADD", "ADDI"}   -> Wrapped(a + b)
      [] kind = "SUB"               -> Wrapped(a - b)
      [] kind \in {"AND", "ANDI"}   -> Bitwise(BitAnd, a, b)
      [] kind \in {"OR", "ORI"}     -> Bitwise(BitOr, a, b)
      [] kind \in {"XOR", "XORI"}   -> Bitwise(BitXor, a, b)
      [] kind \in {"SLL", "SLLI"}   -> Wrapped(a * 2 ^ (b % WordBits))
      [] kind \in {"SRL", "SRLI"}   -> a \div 2 ^ (b % WordBits)
      [] kind \in {"SRA", "SRAI"}   -> Wrapped(SignedOf(a) \div 2 ^ (b % WordBits))
      [] kind \in {"SLT", "SLTI"}   -> BoolWord(SignedOf(a) < SignedOf(b))
      [] kind \in {"SLTU", "SLTIU"} -> BoolWord(a < b)
      [] kind = "MUL"               -> Wrapped(a * b)
      [] kind = "MULH"              -> Wrapped((SignedOf(a) * SignedOf(b)) \div WordRange)
      [] kind = "MULHSU"            -> Wrapped((SignedOf(a) * b) \div WordRange)
      [] kind = "MULHU"             -> (a * b) \div WordRange
      [] kind = "DIV"  -> IF b = 0 THEN WordMax ELSE Wrapped(Quotient(SignedOf(a), SignedOf(b)))
      [] kind = "DIVU" -> IF b = 0 THEN WordMax ELSE a \div b
      [] kind = "REM"  -> IF b = 0 THEN a
                          ELSE Wrapped(SignedOf(a) - SignedOf(b) * Quotient(SignedOf(a), SignedOf(b)))
      [] kind = "REMU" -> IF b = 0 THEN a ELSE a % b

Taken(kind, a, b) ==
    CASE kind = "BEQ"  -> a = b
      [] kind = "BNE"  -> a # b
      [] kind = "BLT"  -> SignedOf(a) < SignedOf(b)
      [] kind = "BGE"  -> SignedOf(a) >= SignedOf(b)
      [] kind = "BLTU" -> a < b
      [] kind = "BGEU" -> a >= b

\* The bytes of a word an address selects: `bits' bits at its offset.
Width(kind) == CASE kind \in {"LW", "SW"}        -> WordBits
                 [] kind \in {"LH", "LHU", "SH"} -> LimbBits
                 [] kind \in {"LB", "LBU", "SB"} -> ByteBits
Offset(addr) == 2 ^ (ByteBits * (addr % 4))
AlignedFor(kind, addr) == addr % (Width(kind) \div ByteBits) = 0
Selected(kind, addr, word) == (word \div Offset(addr)) % 2 ^ Width(kind)

Loaded(kind, addr, word) ==
    LET out == Selected(kind, addr, word)
    IN  IF kind \in {"LH", "LB"} /\ out >= 2 ^ (Width(kind) - 1)
        THEN Wrapped(out - 2 ^ Width(kind)) ELSE out
Stored(kind, addr, word, v) ==
    word + Offset(addr) * ((v % 2 ^ Width(kind)) - Selected(kind, addr, word))

RdInternal(rd) == IF rd = 0 THEN RD_NULL ELSE rd
-----------------------------------------------------------------------------
(***************************************************************************)
(* A step: an instruction, the operations on registers and memory in the   *)
(* order of their subcycles, and the program counters.                     *)
(***************************************************************************)
Op(id, before, after) == [id |-> id, before |-> before, after |-> after]
ReadOp(id, v) == Op(id, v, v)

\* track_access: a register met earlier in the step was last accessed then.
PreviousCycle(ops, o, last) ==
    LET earlier == {Sub[p] : p \in {q \in DOMAIN ops :
                       q \notin MemoryOps /\ o \notin MemoryOps /\ Sub[q] < Sub[o] /\ ops[q].id = ops[o].id}}
    IN  IF earlier = {} THEN last ELSE Cycle + (CHOOSE s \in earlier : \A t \in earlier : t <= s)

Insn(kind, rd, rs1, rs2, imm) == [kind |-> kind, rd |-> rd, rs1 |-> rs1, rs2 |-> rs2, imm |-> imm]

StepOf(insn, pc, next, ops, last) ==
    [kind |-> insn.kind, insn |-> insn, pc |-> pc, next |-> next,
     op |-> [o \in DOMAIN ops |-> [id |-> ops[o].id, before |-> ops[o].before, after |-> ops[o].after,
                                  prev |-> PreviousCycle(ops, o, last)]]]

Execute(insn, pc, next, ops) ==
    /\ \E last \in Lasts : step' = StepOf(insn, pc, next, ops, last)
    /\ UNCHANGED row

\* Registers rs1, rs2 and rd, some of them the same.
RegisterTriples == {<<1, 2, 3>>, <<1, 2, 0>>, <<1, 2, 1>>, <<2, 2, 2>>}

ExecuteR ==
    /\ step = NoStep
    /\ \E kind \in RKinds, regs \in RegisterTriples, a, b \in Operands, old \in Previous, pc \in Pcs :
         /\ regs[1] = regs[2] => a = b
         /\ Execute(Insn(kind, regs[3], regs[1], regs[2], 0), pc, pc + PC_STEP_SIZE,
                    [rs1 |-> ReadOp(regs[1], a), rs2 |-> ReadOp(regs[2], b),
                     rd |-> Op(RdInternal(regs[3]), IF regs[3] = regs[1] THEN a ELSE old,
                               Compute(kind, a, b))])

ExecuteI ==
    /\ step = NoStep
    /\ \E kind \in IKinds, rd \in {0, 1, 3}, a \in Operands, imm \in Imms, old \in Previous, pc \in Pcs :
         /\ kind \in ShiftImmKinds => imm \in 0 .. WordBits - 1
         /\ Execute(Insn(kind, rd, 1, 0, imm), pc, pc + PC_STEP_SIZE,
                    [rs1 |-> ReadOp(1, a),
                     rd |-> Op(RdInternal(rd), IF rd = 1 THEN a ELSE old, Compute(kind, a, Wrapped(imm)))])

ExecuteBranch ==
    /\ step = NoStep
    /\ \E kind \in BranchKinds, rs2 \in {1, 2}, a, b \in Operands, imm \in Imms, pc \in Pcs :
         LET next == pc + IF Taken(kind, a, b) THEN imm ELSE PC_STEP_SIZE
         IN  /\ rs2 = 1 => a = b
             /\ imm % 4 = 0 /\ next \in Words /\ next # pc
             /\ Execute(Insn(kind, 0, 1, rs2, imm), pc, next,
                        [rs1 |-> ReadOp(1, a), rs2 |-> ReadOp(rs2, b)])

ExecuteJal ==
    /\ step = NoStep
    /\ \E rd \in {0, 3}, old \in Previous, imm \in Imms, pc \in Pcs :
         /\ imm % 4 = 0 /\ pc + imm \in Words /\ imm # 0
         /\ Execute(Insn("JAL", rd, 0, 0, imm), pc, pc + imm,
                    [rd |-> Op(RdInternal(rd), old, pc + PC_STEP_SIZE)])

ExecuteJalr ==
    /\ step = NoStep
    /\ \E rd \in {0, 1, 3}, a \in Operands, old \in Previous, imm \in Imms, pc \in Pcs :
         LET next == a + imm - ((a + imm) % 2)
         IN  /\ a + imm \in Words /\ next % 4 = 0 /\ next # pc
             /\ Execute(Insn("JALR", rd, 1, 0, imm), pc, next,
                        [rs1 |-> ReadOp(1, a),
                         rd |-> Op(RdInternal(rd), IF rd = 1 THEN a ELSE old, pc + PC_STEP_SIZE)])

ExecuteLoad ==
    /\ step = NoStep
    /\ \E kind \in LoadKinds, rd \in {0, 1, 3}, base \in Bases, word \in Operands, old \in Previous,
          imm \in Imms, pc \in Pcs :
         LET addr == base + imm
         IN  /\ addr \in Words /\ AlignedFor(kind, addr)
             /\ Execute(Insn(kind, rd, 1, 0, imm), pc, pc + PC_STEP_SIZE,
                        [rs1 |-> ReadOp(1, base), mem |-> ReadOp(addr \div 4, word),
                         rd |-> Op(RdInternal(rd), IF rd = 1 THEN base ELSE old, Loaded(kind, addr, word))])

ExecuteStore ==
    /\ step = NoStep
    /\ \E kind \in StoreKinds, rs2 \in {1, 2}, base \in Bases, word, v \in Operands, imm \in Imms,
          pc \in Pcs :
         LET addr == base + imm
         IN  /\ rs2 = 1 => base = v
             /\ addr \in Words /\ AlignedFor(kind, addr)
             /\ Execute(Insn(kind, 0, 1, rs2, imm), pc, pc + PC_STEP_SIZE,
                        [rs1 |-> ReadOp(1, base), rs2 |-> ReadOp(rs2, v),
                         mem |-> Op(addr \div 4, word, Stored(kind, addr, word, v))])

Ecall == Insn("ECALL", 0, 0, 0, 0)

ExecuteHalt ==
    /\ step = NoStep
    /\ \E exit \in Operands, pc \in Pcs :
         Execute(Ecall, pc, EXIT_PC,
                 [rs1 |-> ReadOp(RegEcall, HaltCode), rs2 |-> ReadOp(RegArg0, exit)])

\* A call takes its arguments from two registers and writes words of memory,
\* all at one subcycle.
ExecuteSyscall ==
    /\ step = NoStep
    /\ \E args, before, after \in Previous \X Previous, addr \in {0, 2}, pc \in Pcs :
         Execute(Ecall, pc, pc + PC_STEP_SIZE,
                 [rs1 |-> ReadOp(RegEcall, SyscallCode),
                  reg1 |-> ReadOp(RegArg0, args[1]), reg2 |-> ReadOp(RegArg0 + 1, args[2]),
                  mem1 |-> Op(addr, before[1], after[1]), mem2 |-> Op(addr + 1, before[2], after[2])])

\* An unknown call under unsafe_ecall_nop touches one of everything.
ExecuteUnknownEcall ==
    /\ step = NoStep
    /\ \E arg \in Operands, word \in Previous, addr \in {0, 3}, pc \in Pcs :
         Execute(Ecall, pc, pc + PC_STEP_SIZE,
                 [rs1 |-> ReadOp(RegEcall, UnknownCode), rs2 |-> ReadOp(RegArg0, arg),
                  rd |-> Op(RD_NULL, 0, 0), mem |-> ReadOp(addr, word)])
-----------------------------------------------------------------------------
(***************************************************************************)
(* A row: the cells of the instruction's frame - state, accesses and fetch *)
(* - and those of its gadgets.                                             *)
(***************************************************************************)
Cell(x) == [value |-> Field(x), lk |-> <<>>]

\* ReadRS1, ReadRS2, WriteRD, ReadMEM and WriteMEM: assign_instance.
AssignAccess(s, o) ==
    LET lt == AssignLt(s.op[o].prev, Cycle + Sub[o])
    IN  [id |-> s.op[o].id, prev |-> s.op[o].prev, lt |-> lt,
         prev_value |-> ValueUnchecked(s.op[o].before), lk |-> lt.lk]

AssignRow(s, cells) ==
    [circuit |-> s.kind, pc |-> s.pc, ts |-> Cycle, next |-> s.next,
     access |-> [o \in DOMAIN s.op |-> AssignAccess(s, o)],
     fetch |-> [lk |-> <<<<"Instruction", s.pc>>>>],
     cells |-> cells]
-----------------------------------------------------------------------------
(***************************************************************************)
(* The frames: global state, registers, memory and the fetch.              *)
(***************************************************************************)
StateTo(r, next) ==
    ReadRecord(<<"state", r.pc, r.ts>>)
      \o WriteRecord(<<"state", Field(next), r.ts + SUBCYCLES_PER_INSN>>)
StateInOut(r) == StateTo(r, r.pc + PC_STEP_SIZE)

Access(r, o, space, id, before, after) ==
    LET a == r.access[o]
    IN  AssertLt(a.prev, r.ts + Sub[o], a.lt)
          \o ReadRecord(<<space, id, before, a.prev>>)
          \o WriteRecord(<<space, id, after, r.ts + Sub[o]>>)
RegisterRead(r, o, value) == Access(r, o, "reg", r.access[o].id, value.limb, value.limb)
WriteRD(r, value) ==
    Access(r, "rd", "reg", r.access["rd"].id, r.access["rd"].prev_value.limb, value.limb)
MemoryWrite(r, addr, before, after) == Access(r, "mem", "mem", Field(addr), before, Field(after))

LkFetch(r, kind, rd, rs1, rs2, imm) == Lookup(<<"Instruction", r.pc, kind, rd, rs1, rs2, Field(imm)>>)
Id(r, o) == r.access[o].id

RInsn(r, kind, rs1, rs2, rd) ==
    StateInOut(r) \o RegisterRead(r, "rs1", rs1) \o RegisterRead(r, "rs2", rs2) \o WriteRD(r, rd)
      \o LkFetch(r, kind, Id(r, "rd"), Id(r, "rs1"), Id(r, "rs2"), 0)
IInsn(r, kind, imm, rs1, rd, next) ==
    StateTo(r, next) \o RegisterRead(r, "rs1", rs1) \o WriteRD(r, rd)
      \o LkFetch(r, kind, Id(r, "rd"), Id(r, "rs1"), 0, imm)
IMInsn(r, kind, imm, rs1, word, addr, rd) ==
    StateInOut(r) \o RegisterRead(r, "rs1", rs1) \o MemoryWrite(r, addr, word, word) \o WriteRD(r, rd)
      \o LkFetch(r, kind, Id(r, "rd"), Id(r, "rs1"), 0, imm)
SInsn(r, kind, imm, rs1, rs2, addr, before, after) ==
    StateInOut(r) \o RegisterRead(r, "rs1", rs1) \o RegisterRead(r, "rs2", rs2)
      \o MemoryWrite(r, addr, before, after)
      \o LkFetch(r, kind, RD_NULL, Id(r, "rs1"), Id(r, "rs2"), imm)
BInsn(r, kind, imm, rs1, rs2, taken) ==
    StateTo(r, r.next) \o RegisterRead(r, "rs1", rs1) \o RegisterRead(r, "rs2", rs2)
      \o LkFetch(r, kind, RD_NULL, Id(r, "rs1"), Id(r, "rs2"), imm)
      \o RequireEqual(r.next, r.pc + taken * imm - taken * PC_STEP_SIZE + PC_STEP_SIZE)
JInsn(r, kind, rd) ==
    StateTo(r, r.next) \o WriteRD(r, rd) \o LkFetch(r, kind, Id(r, "rd"), 0, 0, r.next - r.pc)
EcallInsn(r, id, next) ==
    StateTo(r, next) \o LkFetch(r, "ECALL", RD_NULL, 0, 0, 0)
      \o Access(r, "rs1", "reg", RegEcall, id.limb, id.limb)

\* imm_internal: the immediate as the program table holds it.
ImmInternal(insn) ==
    CASE insn.kind \in ShiftImmKinds -> 2 ^ insn.imm
      [] insn.kind \in {"ADDI", "SLTIU"} \union LogicImmKinds -> Wrapped(insn.imm)
      [] OTHER -> insn.imm
ProgramRow(insn, pc) ==
    <<"Instruction", pc, insn.kind,
      IF insn.kind \in BranchKinds \union StoreKinds \union {"ECALL"} THEN RD_NULL ELSE RdInternal(insn.rd),
      insn.rs1, insn.rs2, Field(ImmInternal(insn))>>
-----------------------------------------------------------------------------
(***************************************************************************)
(* arith.rs, arith_imm.rs                                                  *)
(***************************************************************************)
ArithCircuit(kind, r) ==
    LET c == r.cells
    IN  IF kind = "ADD"
        THEN Add(c.rs1_read, c.rs2_read, c.carries)
               \o RInsn(r, kind, c.rs1_read, c.rs2_read, SumOf(c.rs1_read, c.rs2_read, c.carries))
        ELSE UInt(c.rd_written) \o Add(c.rs2_read, c.rd_written, c.carries)
               \o RInsn(r, kind, SumOf(c.rs2_read, c.rd_written, c.carries), c.rs2_read, c.rd_written)
ArithRow(s) ==
    LET rs2 == ValueUnchecked(s.op.rs2.after)
        other == IF s.kind = "ADD" THEN ValueUnchecked(s.op.rs1.after) ELSE ValueNew(s.op.rd.after)
    IN  AssignRow(s, IF s.kind = "ADD"
                     THEN [rs1_read |-> other, rs2_read |-> rs2, carries |-> AssignAdd(other, rs2)]
                     ELSE [rd_written |-> other, rs2_read |-> rs2, carries |-> AssignAdd(rs2, other)])

ArithImmCircuit(kind, r) ==
    LET c == r.cells
    IN  UInt(c.imm) \o Add(c.rs1_read, c.imm, c.carries)
          \o IInsn(r, kind, ValueOf(c.imm), c.rs1_read, SumOf(c.rs1_read, c.imm, c.carries),
                   r.pc + PC_STEP_SIZE)
ArithImmRow(s) ==
    LET rs1 == ValueUnchecked(s.op.rs1.after)
        imm == ValueNew(ImmInternal(s.insn))
    IN  AssignRow(s, [rs1_read |-> rs1, imm |-> imm, carries |-> AssignAdd(rs1, imm)])
-----------------------------------------------------------------------------
(***************************************************************************)
(* mul.rs: the product is a high and a low word, of which one goes to rd;  *)
(* a value of the other that would be ambiguous in the field is excluded.  *)
(***************************************************************************)
\* The words, as signed numbers where the kind takes them so.
MulValues(kind, c) ==
    [rs1 |-> IF kind \in {"MULH", "MULHSU"} THEN ToField(c.rs1_read, c.rs1_signed) ELSE ValueOf(c.rs1_read),
     rs2 |-> IF kind = "MULH" THEN ToField(c.rs2_read, c.rs2_signed) ELSE ValueOf(c.rs2_read),
     rd  |-> IF kind \in {"MULH", "MULHSU"} THEN ToField(c.rd_written, c.rd_signed) ELSE ValueOf(c.rd_written)]

MulSigns(kind, c) ==
    LET rd == MulValues(kind, c).rd
    IN  CASE kind = "MULH"   -> IsNegative(c.rs1_read, c.rs1_signed) \o IsNegative(c.rs2_read, c.rs2_signed)
                                  \o IsNegative(c.rd_written, c.rd_signed)
          [] kind = "MULHSU" -> IsNegative(c.rs1_read, c.rs1_signed) \o IsNegative(c.rd_written, c.rd_signed)
                                  \o NonZero(rd - (WordRange \div 2 - 1), c.constrain_rd)
          [] kind = "MULHU"  -> NonZero(rd - WordMax, c.constrain_rd)
          [] kind = "MUL"    -> NonZero(ValueOf(c.prod_lo_hi) - WordMax, c.constrain_rd)

MulEquation(kind, c) ==
    LET v == MulValues(kind, c)
    IN  IF kind = "MUL" THEN RequireEqual(v.rs1 * v.rs2, ValueOf(c.prod_lo_hi) * WordRange + v.rd)
        ELSE RequireEqual(v.rs1 * v.rs2, v.rd * WordRange + ValueOf(c.prod_lo_hi))

MulCircuit(kind, r) ==
    LET c == r.cells
    IN  UInt(c.rd_written) \o UInt(c.prod_lo_hi) \o MulSigns(kind, c) \o MulEquation(kind, c)
          \o RInsn(r, kind, c.rs1_read, c.rs2_read, c.rd_written)

MulRow(s) ==
    LET a == s.op.rs1.after
        b == s.op.rs2.after
        d == s.op.rd.after
        cells == [rs1_read |-> ValueUnchecked(a), rs2_read |-> ValueUnchecked(b), rd_written |-> ValueNew(d),
                  rs1_signed |-> AssignIsNegative(a), rs2_signed |-> AssignIsNegative(b),
                  rd_signed |-> AssignIsNegative(d),
                  constrain_rd |-> AssignIsZero(CASE s.kind = "MULHSU" -> SignedOf(d) - (WordRange \div 2 - 1)
                                                  [] s.kind = "MUL"    -> (a * b) \div WordRange - WordMax
                                                  [] OTHER             -> d - WordMax),
                  prod_lo_hi |-> ValueNew(CASE s.kind = "MULH"   -> Wrapped(SignedOf(a) * SignedOf(b))
                                            [] s.kind = "MULHSU" -> Wrapped(b * Wrapped(SignedOf(a)))
                                            [] s.kind = "MULHU"  -> Wrapped(a * b)
                                            [] s.kind = "MUL"    -> (a * b) \div WordRange)]
        used == {"rs1_read", "rs2_read", "rd_written", "prod_lo_hi"} \union
                CASE s.kind = "MULH"   -> {"rs1_signed", "rs2_signed", "rd_signed"}
                  [] s.kind = "MULHSU" -> {"rs1_signed", "rd_signed", "constrain_rd"}
                  [] OTHER             -> {"constrain_rd"}
    IN  AssignRow(s, [g \in used |-> cells[g]])
-----------------------------------------------------------------------------
(***************************************************************************)
(* div.rs: dividend = divisor * quotient + remainder, both signs turned so *)
(* that 0 <= remainder < divisor, with division by zero and the overflow   *)
(* of the smallest dividend by -1 apart.                                   *)
(***************************************************************************)
SignedDiv(kind) == kind \in {"DIV", "REM"}
SignedMin == WordRange \div 2

DivValues(c) ==
    [dividend  |-> ToField(c.dividend, c.dividend_signed),
     divisor   |-> ToField(c.divisor, c.divisor_signed),
     quotient  |-> ToField(c.quotient, c.quotient_signed),
     remainder |-> ToField(c.remainder, c.remainder_signed)]
RemainderPos(c) == (1 - 2 * c.dividend_signed.msb) * DivValues(c).remainder
DivisorPos(c)   == (1 - 2 * c.divisor_signed.msb) * DivValues(c).divisor

DivSigns(c) ==
    IsNegative(c.dividend, c.dividend_signed) \o IsNegative(c.divisor, c.divisor_signed)
      \o IsNegative(c.quotient, c.quotient_signed) \o IsNegative(c.remainder, c.remainder_signed)
DivOverflow(c) ==
    IsZero(ValueOf(c.dividend) - SignedMin, c.is_dividend_signed_min)
      \o IsZero(ValueOf(c.divisor) - WordMax, c.is_divisor_neg_one)
      \o RequireEqual(c.is_signed_overflow.value,
                      c.is_dividend_signed_min.is_zero * c.is_divisor_neg_one.is_zero)
DivEquation(kind, c) ==
    LET v == DivValues(c)
    IN  IF SignedDiv(kind)
        THEN DivSigns(c) \o DivOverflow(c)
               \o ConditionRequireEqual(c.is_signed_overflow.value, v.quotient * v.divisor + v.remainder,
                                        SignedMin, v.dividend)
               \o AssertLt(-1, RemainderPos(c), c.remainder_nonnegative)
        ELSE RequireEqual(ValueOf(c.dividend), ValueOf(c.divisor) * ValueOf(c.quotient) + ValueOf(c.remainder))
RemainderLess(kind, c) ==
    IF SignedDiv(kind) THEN IsLt(RemainderPos(c), DivisorPos(c), c.is_remainder_lt_divisor)
    ELSE IsLt(ValueOf(c.remainder), ValueOf(c.divisor), c.is_remainder_lt_divisor)

DivCircuit(kind, r) ==
    LET c == r.cells
    IN  UInt(c.quotient) \o UInt(c.remainder) \o DivEquation(kind, c)
          \o IsZero(ValueOf(c.divisor), c.is_divisor_zero)
          \o ConditionRequireEqual(c.is_divisor_zero.is_zero, ValueOf(c.quotient), WordMax, ValueOf(c.quotient))
          \o RemainderLess(kind, c)
          \o RequireEqual(c.is_divisor_zero.is_zero + c.is_remainder_lt_divisor.is_lt, 1)
          \o RInsn(r, kind, c.dividend, c.divisor,
                   IF kind \in {"DIV", "DIVU"} THEN c.quotient ELSE c.remainder)

DivRow(s) ==
    LET a == s.op.rs1.after
        b == s.op.rs2.after
        q == Compute(IF SignedDiv(s.kind) THEN "DIV" ELSE "DIVU", a, b)
        m == Compute(IF SignedDiv(s.kind) THEN "REM" ELSE "REMU", a, b)
        remainderPos == IF ~SignedDiv(s.kind) THEN m
                        ELSE IF SignedOf(a) < 0 THEN -SignedOf(m) ELSE SignedOf(m)
        divisorPos == IF SignedDiv(s.kind) /\ SignedOf(b) < 0 THEN -SignedOf(b) ELSE b
        cells == [dividend |-> ValueUnchecked(a), divisor |-> ValueUnchecked(b),
                  quotient |-> ValueNew(q), remainder |-> ValueNew(m),
                  is_divisor_zero |-> AssignIsZero(b),
                  is_remainder_lt_divisor |-> AssignLt(remainderPos, divisorPos),
                  dividend_signed |-> AssignIsNegative(a), divisor_signed |-> AssignIsNegative(b),
                  quotient_signed |-> AssignIsNegative(q), remainder_signed |-> AssignIsNegative(m),
                  is_dividend_signed_min |-> AssignIsZero(a - SignedMin),
                  is_divisor_neg_one |-> AssignIsZero(b - WordMax),
                  is_signed_overflow |-> Cell(BoolWord(SignedOf(a) = -SignedMin /\ SignedOf(b) = -1)),
                  remainder_nonnegative |-> AssignLt(-1, remainderPos)]
        used == IF SignedDiv(s.kind) THEN DOMAIN cells
                ELSE {"dividend", "divisor", "quotient", "remainder", "is_divisor_zero",
                      "is_remainder_lt_divisor"}
    IN  AssignRow(s, [g \in used |-> cells[g]])
-----------------------------------------------------------------------------
(***************************************************************************)
(* shift.rs, shift_imm.rs: bits flow in at one end and out at the other.   *)
(***************************************************************************)
ShiftEquation(left, rs1, pow, outflow, inflow, rd) ==
    IF left THEN RequireEqual(ValueOf(rs1) * pow, outflow * WordRange + ValueOf(rd))
    ELSE RequireEqual(ValueOf(rd) * pow + outflow, inflow * WordRange + ValueOf(rs1))
Outflow(left, a, pow) == IF left THEN (a * pow) \div WordRange ELSE a % pow

ShiftCircuit(kind, r) ==
    LET c == r.cells
        arithmetic == kind = "SRA"
        inflow == IF arithmetic THEN c.is_neg.msb * (c.pow2_rs2_low5.value - 1) ELSE 0
    IN  UInt(c.rd_written) \o UInt(c.rs2_high)
          \o AssertLt(c.outflow.value, c.pow2_rs2_low5.value, c.lt)
          \o (IF arithmetic THEN IsNegative(c.rs1_read, c.is_neg) ELSE Nothing)
          \o ShiftEquation(kind = "SLL", c.rs1_read, c.pow2_rs2_low5.value, c.outflow.value, inflow, c.rd_written)
          \o Lookup(<<"Pow", c.rs2_low5.value, c.pow2_rs2_low5.value>>)
          \o AssertUx(ShiftBits, c.rs2_low5.value)
          \o RequireEqual(ValueOf(c.rs2_read), ValueOf(c.rs2_high) * WordBits + c.rs2_low5.value)
          \o RInsn(r, kind, c.rs1_read, c.rs2_read, c.rd_written)

ShiftRow(s) ==
    LET a == s.op.rs1.after
        b == s.op.rs2.after
        low5 == b % WordBits
        outflow == Outflow(s.kind = "SLL", a, 2 ^ low5)
        cells == [rs1_read |-> ValueUnchecked(a), rs2_read |-> ValueUnchecked(b),
                  rd_written |-> ValueNew(s.op.rd.after), rs2_high |-> ValueNew((b - low5) \div WordBits),
                  rs2_low5 |-> [value |-> low5, lk |-> CountUx(ShiftBits, low5)],
                  pow2_rs2_low5 |-> [value |-> 2 ^ low5, lk |-> <<<<"Pow", low5>>>>],
                  outflow |-> Cell(outflow), lt |-> AssignLt(outflow, 2 ^ low5),
                  is_neg |-> AssignIsNegative(a)]
    IN  AssignRow(s, [g \in DOMAIN cells \ (IF s.kind = "SRA" THEN {} ELSE {"is_neg"}) |-> cells[g]])

ShiftImmCircuit(kind, r) ==
    LET c == r.cells
        arithmetic == kind = "SRAI"
        inflow == IF arithmetic THEN c.is_neg.msb * (c.imm.value - 1) ELSE 0
    IN  UInt(c.rd_written) \o AssertLt(c.outflow.value, c.imm.value, c.lt)
          \o (IF arithmetic THEN IsNegative(c.rs1_read, c.is_neg) ELSE Nothing)
          \o ShiftEquation(kind = "SLLI", c.rs1_read, c.imm.value, c.outflow.value, inflow, c.rd_written)
          \o IInsn(r, kind, c.imm.value, c.rs1_read, c.rd_written, r.pc + PC_STEP_SIZE)

ShiftImmRow(s) ==
    LET a == s.op.rs1.after
        imm == ImmInternal(s.insn)
        outflow == Outflow(s.kind = "SLLI", a, imm)
        cells == [rs1_read |-> ValueUnchecked(a), rd_written |-> ValueNew(s.op.rd.after), imm |-> Cell(imm),
                  outflow |-> Cell(outflow), lt |-> AssignLt(outflow, imm), is_neg |-> AssignIsNegative(a)]
    IN  AssignRow(s, [g \in DOMAIN cells \ (IF s.kind = "SRAI" THEN {} ELSE {"is_neg"}) |-> cells[g]])
-----------------------------------------------------------------------------
(***************************************************************************)
(* slt.rs, slti.rs, the logic circuits.                                    *)
(***************************************************************************)
Flag(x) == [limb |-> <<x, 0>>]

SltCircuit(kind, r) ==
    LET c == r.cells
    IN  (IF kind = "SLT" THEN SignedLt(c.rs1_read, c.rs2_read, c.deps)
         ELSE IsLt(ValueOf(c.rs1_read), ValueOf(c.rs2_read), c.deps))
          \o RInsn(r, kind, c.rs1_read, c.rs2_read,
                   Flag(IF kind = "SLT" THEN c.deps.lt.is_lt ELSE c.deps.is_lt))
SltRow(s) ==
    LET a == s.op.rs1.after
        b == s.op.rs2.after
    IN  AssignRow(s, [rs1_read |-> ValueUnchecked(a), rs2_read |-> ValueUnchecked(b),
                      deps |-> IF s.kind = "SLT" THEN AssignSignedLt(a, b) ELSE AssignLt(a, b)])

SltImmCircuit(kind, r) ==
    LET c == r.cells
        value == IF kind = "SLTI" THEN ToField(c.rs1_read, c.is_rs1_neg) ELSE ValueOf(c.rs1_read)
    IN  (IF kind = "SLTI" THEN IsNegative(c.rs1_read, c.is_rs1_neg) ELSE Nothing)
          \o IsLt(value, c.imm.value, c.lt)
          \o IInsn(r, kind, c.imm.value, c.rs1_read, Flag(c.lt.is_lt), r.pc + PC_STEP_SIZE)
SltImmRow(s) ==
    LET a == s.op.rs1.after
        imm == ImmInternal(s.insn)
        common == [rs1_read |-> ValueUnchecked(a), imm |-> Cell(imm),
                   lt |-> IF s.kind = "SLTI" THEN AssignLt(SignedOf(a), imm) ELSE AssignLt(a, imm),
                   is_rs1_neg |-> AssignIsNegative(a)]
    IN  AssignRow(s, [g \in DOMAIN common \ (IF s.kind = "SLTI" THEN {} ELSE {"is_rs1_neg"}) |-> common[g]])

LogicTable(kind) ==
    CASE kind \in {"AND", "ANDI"} -> "And" [] kind \in {"OR", "ORI"} -> "Or" [] OTHER -> "Xor"
Logic(kind, a, b, c) ==
    LET look(i) == Lookup(<<LogicTable(kind), a.byte[i], b.byte[i], c.byte[i]>>)
    IN  look(1) \o look(2) \o look(3) \o look(4)
LogicAssign(kind, v, w) ==
    [lk |-> [i \in 1 .. 4 |-> <<LogicTable(kind), BytesOf(v).byte[i], BytesOf(w).byte[i]>>]]

LogicCircuit(kind, r) ==
    LET c == r.cells
    IN  Logic(kind, c.rs1_read, c.rs2_read, c.rd_written)
          \o RInsn(r, kind, ByteLimbs(c.rs1_read), ByteLimbs(c.rs2_read), ByteLimbs(c.rd_written))
LogicRow(s) ==
    AssignRow(s, [rs1_read |-> BytesOf(s.op.rs1.after), rs2_read |-> BytesOf(s.op.rs2.after),
                  rd_written |-> BytesOf(s.op.rd.after),
                  logic |-> LogicAssign(s.kind, s.op.rs1.after, s.op.rs2.after)])
LogicImmCircuit(kind, r) ==
    LET c == r.cells
    IN  Logic(kind, c.rs1_read, c.imm, c.rd_written)
          \o IInsn(r, kind, ByteValue(c.imm), ByteLimbs(c.rs1_read), ByteLimbs(c.rd_written),
                   r.pc + PC_STEP_SIZE)
LogicImmRow(s) ==
    AssignRow(s, [rs1_read |-> BytesOf(s.op.rs1.after), imm |-> BytesOf(ImmInternal(s.insn)),
                  rd_written |-> BytesOf(s.op.rd.after),
                  logic |-> LogicAssign(s.kind, s.op.rs1.after, ImmInternal(s.insn))])
-----------------------------------------------------------------------------
(***************************************************************************)
(* branch, jal, jalr, halt.                                                *)
(***************************************************************************)
BranchCircuit(kind, r) ==
    LET c == r.cells
        holds == CASE kind \in {"BEQ", "BNE"}   -> c.compare.is_zero
                   [] kind \in {"BLT", "BGE"}   -> c.compare.lt.is_lt
                   [] kind \in {"BLTU", "BGEU"} -> c.compare.is_lt
    IN  (CASE kind \in {"BEQ", "BNE"}   -> IsZero(ValueOf(c.rs2_read) - ValueOf(c.rs1_read), c.compare)
           [] kind \in {"BLT", "BGE"}   -> SignedLt(c.rs1_read, c.rs2_read, c.compare)
           [] kind \in {"BLTU", "BGEU"} -> IsLt(ValueOf(c.rs1_read), ValueOf(c.rs2_read), c.compare))
          \o BInsn(r, kind, c.imm.value, c.rs1_read, c.rs2_read,
                   IF kind \in {"BNE", "BGE", "BGEU"} THEN 1 - holds ELSE holds)
BranchRow(s) ==
    LET a == s.op.rs1.after
        b == s.op.rs2.after
    IN  AssignRow(s, [rs1_read |-> ValueUnchecked(a), rs2_read |-> ValueUnchecked(b),
                      imm |-> Cell(ImmInternal(s.insn)),
                      compare |-> CASE s.kind \in {"BEQ", "BNE"}   -> AssignIsZero(b - a)
                                    [] s.kind \in {"BLT", "BGE"}   -> AssignSignedLt(a, b)
                                    [] s.kind \in {"BLTU", "BGEU"} -> AssignLt(a, b)])

JalCircuit(kind, r) ==
    LET rd == r.cells.rd_written
    IN  UInt(rd) \o JInsn(r, kind, rd) \o RequireEqual(ValueOf(rd), r.pc + PC_STEP_SIZE)
JalRow(s) == AssignRow(s, [rd_written |-> ValueNew(s.op.rd.after)])

JalrCircuit(kind, r) ==
    LET c == r.cells
    IN  UInt(c.rd_written) \o IInsn(r, kind, c.imm.value, c.rs1_read, c.rd_written, r.next)
          \o MemAddr(c.next_pc_addr, 0)
          \o RequireEqual(ValueOf(c.rs1_read) + c.imm.value, ValueOf(c.next_pc_addr))
          \o RequireEqual(Align2(c.next_pc_addr, 0), r.next)
          \o RequireEqual(ValueOf(c.rd_written), r.pc + PC_STEP_SIZE)
JalrRow(s) ==
    AssignRow(s, [rs1_read |-> ValueUnchecked(s.op.rs1.after), rd_written |-> ValueNew(s.op.rd.after),
                  imm |-> Cell(ImmInternal(s.insn)),
                  next_pc_addr |-> AssignMemAddr(s.op.rs1.after + ImmInternal(s.insn))])

\* Faulty: the step after HALT is the next instruction.
HaltCircuitGoesOn(kind, r) ==
    EcallInsn(r, ValueUnchecked(HaltCode), r.pc + PC_STEP_SIZE)
      \o Access(r, "rs2", "reg", RegArg0, r.cells.exit_code.limb, r.cells.exit_code.limb)

\* The exit code is a public input: the verifier's, not a cell.
HaltCircuit(kind, r) ==
    EcallInsn(r, ValueUnchecked(HaltCode), EXIT_PC)
      \o Access(r, "rs2", "reg", RegArg0, r.cells.exit_code.limb, r.cells.exit_code.limb)
HaltRow(s) == AssignRow(s, [exit_code |-> ValueUnchecked(s.op.rs2.after)])
-----------------------------------------------------------------------------
(***************************************************************************)
(* load.rs, store.rs, memory/gadget.rs.                                    *)
(***************************************************************************)
Zeros(kind) == CASE kind \in {"LW", "SW"}        -> 2
                 [] kind \in {"LH", "LHU", "SH"} -> 1
                 [] kind \in {"LB", "LBU", "SB"} -> 0

\* The limb and the byte the address selects, and their sign.
LoadTarget(kind, c) ==
    LET low(i) == LowBit(c.memory_addr, Zeros(kind), i)
        byte == c.target_limb_bytes.byte
        limb == ConditionRequireEqual(low(1), c.target_limb.value, c.memory_read.limb[2], c.memory_read.limb[1])
        bytes == AssertUx(ByteBits, byte[1]) \o AssertUx(ByteBits, byte[2])
                   \o ConditionRequireEqual(low(0), c.target_limb.value,
                                            byte[1] * ByteRange + byte[2], byte[2] * ByteRange + byte[1])
    IN  CASE kind = "LW"  -> Nothing
          [] kind = "LH"  -> limb \o SignedExtend(LimbBits, c.target_limb.value, c.signed_extend)
          [] kind = "LHU" -> limb
          [] kind = "LB"  -> limb \o bytes \o SignedExtend(ByteBits, byte[1], c.signed_extend)
          [] kind = "LBU" -> limb \o bytes
LoadResult(kind, c) ==
    CASE kind = "LW"  -> c.memory_read
      [] kind = "LH"  -> SignedExtendedLimb(c.target_limb.value, c.signed_extend)
      [] kind = "LHU" -> Flag(c.target_limb.value)
      [] kind = "LB"  -> SignedExtendedByte(c.target_limb_bytes.byte[1], c.signed_extend)
      [] kind = "LBU" -> Flag(c.target_limb_bytes.byte[1])

LoadCircuit(kind, r) ==
    LET c == r.cells
    IN  UInt(c.memory_read) \o MemAddr(c.memory_addr, Zeros(kind))
          \o RequireEqual(ValueOf(c.memory_addr), ValueOf(c.rs1_read) + c.imm.value)
          \o LoadTarget(kind, c)
          \o IMInsn(r, kind, c.imm.value, c.rs1_read, ValueOf(c.memory_read),
                    Align4(c.memory_addr, Zeros(kind)), LoadResult(kind, c))

\* Faulty: the bytes stay in memory order.
BytesInOrder(addr, limb) == Digits(limb, ByteBits, 2)

\* The byte the address selects comes first.
TargetBytes(addr, limb) ==
    LET bytes == Digits(limb, ByteBits, 2)
    IN  IF addr % 2 = 1 THEN <<bytes[2], bytes[1]>> ELSE bytes

LoadRow(s) ==
    LET addr == s.op.rs1.after + ImmInternal(s.insn)
        limb == Digits(s.op.mem.before, LimbBits, 2)[1 + ((addr \div 2) % 2)]
        bytes == TargetBytes(addr, limb)
        cells == [rs1_read |-> ValueUnchecked(s.op.rs1.after), imm |-> Cell(ImmInternal(s.insn)),
                  memory_read |-> ValueNew(s.op.mem.before), memory_addr |-> AssignMemAddr(addr),
                  target_limb |-> Cell(limb),
                  target_limb_bytes |-> [byte |-> bytes,
                                         lk |-> CountUx(ByteBits, bytes[1]) \o CountUx(ByteBits, bytes[2])],
                  signed_extend |-> IF s.kind = "LB" THEN AssignSignedExtend(ByteBits, bytes[1])
                                    ELSE AssignSignedExtend(LimbBits, limb)]
        unused == CASE s.kind = "LW"  -> {"target_limb", "target_limb_bytes", "signed_extend"}
                    [] s.kind = "LH"  -> {"target_limb_bytes"}
                    [] s.kind = "LHU" -> {"target_limb_bytes", "signed_extend"}
                    [] s.kind = "LB"  -> {}
                    [] s.kind = "LBU" -> {"signed_extend"}
    IN  AssignRow(s, [g \in DOMAIN cells \ unused |-> cells[g]])

\* MemWordChange: what a store of a byte or half word adds to the word.
MemWordChange(kind, c) ==
    LET low(i) == LowBit(c.memory_addr, Zeros(kind), i)
        prev == c.prev_memory_value.limb
        rs2 == c.rs2_read.limb
        byte == c.word_change.rs2_byte
        bytes == c.word_change.prev_bytes
        limbChange == c.word_change.limb_change
        change == c.word_change.change
    IN  IF kind = "SH"
        THEN ConditionRequireEqual(low(1), change, (rs2[1] - prev[2]) * LimbRange, rs2[1] - prev[1])
        ELSE AssertUx(ByteBits, bytes[1]) \o AssertUx(ByteBits, bytes[2])
               \o RequireEqual(low(1) * prev[2] + (1 - low(1)) * prev[1], bytes[1] + bytes[2] * ByteRange)
               \o AssertUx(ByteBits, byte) \o AssertUx(ByteBits, InverseOf[ByteRange] * (rs2[1] - byte))
               \o ConditionRequireEqual(low(0), limbChange, (byte - bytes[2]) * ByteRange, byte - bytes[1])
               \o ConditionRequireEqual(low(1), change, limbChange * LimbRange, limbChange)

AssignMemWordChange(kind, addr, before, v) ==
    LET half == (addr \div 2) % 2
        prevLimb == Digits(before, LimbBits, 2)[1 + half]
        rs2Limb == v % LimbRange
        bytes == Digits(prevLimb, ByteBits, 2)
        byte == rs2Limb % ByteRange
        limbChange == IF addr % 2 = 0 THEN byte - bytes[1] ELSE (byte - bytes[2]) * ByteRange
        change == (IF kind = "SH" THEN rs2Limb - prevLimb ELSE limbChange) * (IF half = 1 THEN LimbRange ELSE 1)
    IN  [prev_bytes |-> bytes, rs2_byte |-> byte, limb_change |-> Field(limbChange), change |-> Field(change),
         lk |-> IF kind = "SH" THEN <<>>
                ELSE CountUx(ByteBits, bytes[1]) \o CountUx(ByteBits, bytes[2]) \o CountUx(ByteBits, byte)
                       \o CountUx(ByteBits, rs2Limb \div ByteRange)]

StoreCircuit(kind, r) ==
    LET c == r.cells
        before == ValueOf(c.prev_memory_value)
    IN  UInt(c.prev_memory_value) \o MemAddr(c.memory_addr, Zeros(kind))
          \o RequireEqual(ValueOf(c.memory_addr), ValueOf(c.rs1_read) + c.imm.value)
          \o (IF kind = "SW" THEN Nothing ELSE MemWordChange(kind, c))
          \o SInsn(r, kind, c.imm.value, c.rs1_read, c.rs2_read, Align4(c.memory_addr, Zeros(kind)), before,
                   IF kind = "SW" THEN ValueOf(c.rs2_read) ELSE before + c.word_change.change)
StoreRow(s) ==
    LET addr == s.op.rs1.after + ImmInternal(s.insn)
        cells == [rs1_read |-> ValueUnchecked(s.op.rs1.after), rs2_read |-> ValueUnchecked(s.op.rs2.after),
                  imm |-> Cell(ImmInternal(s.insn)), prev_memory_value |-> ValueNew(s.op.mem.before),
                  memory_addr |-> AssignMemAddr(addr),
                  word_change |-> AssignMemWordChange(s.kind, addr, s.op.mem.before, s.op.rs2.after)]
    IN  AssignRow(s, [g \in DOMAIN cells \ (IF s.kind = "SW" THEN {"word_change"} ELSE {}) |-> cells[g]])
-----------------------------------------------------------------------------
(***************************************************************************)
(* dummy/dummy_circuit.rs: DummyInstruction connects the state, registers  *)
(* and memory of any instruction and constrains no value.  What it asks    *)
(* for follows from the format and category of the instruction; a call     *)
(* without a handler has everything.                                       *)
(***************************************************************************)
WithRs1(kind) == kind # "JAL"
WithRs2(kind) == kind \in RKinds \union StoreKinds \union BranchKinds \union {"ECALL"}
WithRd(kind) == kind \notin StoreKinds \union BranchKinds
WithMemRead(kind) == kind \in LoadKinds
WithMemWrite(kind) == kind \in StoreKinds \union {"ECALL"}
Branching(kind) == kind \in BranchKinds \union {"JAL", "JALR", "ECALL"}

\* The registers of a call are fixed, not encoded.
Encoded(r, kind, with, o, otherwise) == IF with /\ kind # "ECALL" THEN Id(r, o) ELSE otherwise

DummyCircuit(kind, r) ==
    LET c == r.cells
    IN  StateTo(r, IF Branching(kind) THEN r.next ELSE r.pc + PC_STEP_SIZE)
          \o (IF WithRs1(kind) THEN RegisterRead(r, "rs1", c.rs1_read) ELSE Nothing)
          \o (IF WithRs2(kind) THEN RegisterRead(r, "rs2", c.rs2_read) ELSE Nothing)
          \o (IF WithRd(kind) THEN WriteRD(r, c.rd_written) ELSE Nothing)
          \o (IF WithMemRead(kind) THEN MemoryWrite(r, c.mem_addr.value, c.mem_before.value, c.mem_before.value)
              ELSE Nothing)
          \o (IF WithMemWrite(kind) THEN MemoryWrite(r, c.mem_addr.value, c.mem_before.value, c.mem_after.value)
              ELSE Nothing)
          \o LkFetch(r, kind, Encoded(r, kind, WithRd(kind), "rd", RD_NULL),
                     Encoded(r, kind, WithRs1(kind), "rs1", 0), Encoded(r, kind, WithRs2(kind), "rs2", 0),
                     c.imm.value)

DummyCells(s) ==
    LET used == {"imm"} \union (IF WithRs1(s.kind) THEN {"rs1_read"} ELSE {})
                  \union (IF WithRs2(s.kind) THEN {"rs2_read"} ELSE {})
                  \union (IF WithRd(s.kind) THEN {"rd_written"} ELSE {})
                  \union (IF WithMemRead(s.kind) \/ WithMemWrite(s.kind)
                          THEN {"mem_addr", "mem_before", "mem_after"} ELSE {})
    IN  [g \in used |->
           CASE g = "imm"        -> Cell(ImmInternal(s.insn))
             [] g = "rs1_read"   -> ValueUnchecked(s.op.rs1.after)
             [] g = "rs2_read"   -> ValueUnchecked(s.op.rs2.after)
             [] g = "rd_written" -> ValueUnchecked(s.op.rd.after)
             [] g = "mem_addr"   -> Cell(4 * s.op.mem.id)
             [] g = "mem_before" -> Cell(s.op.mem.before)
             [] g = "mem_after"  -> Cell(s.op.mem.after)]

DummyRow(s) == [AssignRow(s, DummyCells(s)) EXCEPT !.circuit = "DUMMY"]
-----------------------------------------------------------------------------
(***************************************************************************)
(* dummy/dummy_ecall.rs: LargeEcallDummy is the row of a system call; its  *)
(* registers and words are those the emulator handed over with the step.   *)
(***************************************************************************)
LargeEcallCircuit(r) ==
    LET c == r.cells
        RegWrite(o) == Access(r, o, "reg", Id(r, o), r.access[o].prev_value.limb, c[o].limb)
        MemWrite(o) == Access(r, o, "mem", c[o].addr, c[o].before, c[o].after)
    IN  StateInOut(r) \o RegisterRead(r, "rs1", c.rs1_read)
          \o LkFetch(r, "ECALL", RD_NULL, 0, 0, c.imm.value)
          \o RegWrite("reg1") \o RegWrite("reg2") \o MemWrite("mem1") \o MemWrite("mem2")

LargeEcallRow(s) ==
    LET word(o) == [addr |-> 4 * s.op[o].id, before |-> s.op[o].before, after |-> s.op[o].after, lk |-> <<>>]
        cells == [rs1_read |-> ValueUnchecked(s.op.rs1.after), imm |-> Cell(ImmInternal(s.insn)),
                  start_addr |-> Cell(4 * s.op.mem1.id),
                  reg1 |-> ValueUnchecked(s.op.reg1.after), reg2 |-> ValueUnchecked(s.op.reg2.after),
                  mem1 |-> word("mem1"), mem2 |-> word("mem2")]
    IN  [AssignRow(s, cells) EXCEPT !.circuit = "LARGE"]
-----------------------------------------------------------------------------
(***************************************************************************)
(* The state machine: the emulator completes a step, the prover assigns it *)
(* to the circuit of its opcode and goes on to the next.                   *)
(***************************************************************************)
Init == step = NoStep /\ row = NoRow

Assign(kinds, Row(_)) ==
    /\ step.kind \in kinds /\ row = NoRow
    /\ row' = Row(step)
    /\ UNCHANGED step

AssignArith    == Assign(ArithKinds, ArithRow)
AssignArithImm == Assign(ArithImmKinds, ArithImmRow)
AssignMul      == Assign(MulKinds, MulRow)
AssignDiv      == Assign(DivKinds, DivRow)
AssignShift    == Assign(ShiftKinds, ShiftRow)
AssignShiftImm == Assign(ShiftImmKinds, ShiftImmRow)
AssignSlt      == Assign(SltKinds, SltRow)
AssignSltImm   == Assign(SltImmKinds, SltImmRow)
AssignLogic    == Assign(LogicKinds, LogicRow)
AssignLogicImm == Assign(LogicImmKinds, LogicImmRow)
AssignBranch   == Assign(BranchKinds, BranchRow)
AssignJal      == Assign({"JAL"}, JalRow)
AssignJalr     == Assign({"JALR"}, JalrRow)
AssignLoad     == Assign(LoadKinds, LoadRow)
AssignStore    == Assign(StoreKinds, StoreRow)

\* Calls are told apart by their function code: halt first, the system calls,
\* what is left.
IsCall(code) == step.kind = "ECALL" /\ step.op.rs1.after = code
AssignHalt       == IsCall(HaltCode) /\ Assign({"ECALL"}, HaltRow)
AssignLargeEcall == IsCall(SyscallCode) /\ Assign({"ECALL"}, LargeEcallRow)
AssignEcallDummy == IsCall(UnknownCode) /\ Assign({"ECALL"}, DummyRow)

\* DummyInstruction in the place of the circuit of the instruction.
AssignDummy ==
    Assign(RKinds \union IKinds \union BranchKinds \union LoadKinds \union StoreKinds \union {"JAL", "JALR"},
           DummyRow)

NextStep == row # NoRow /\ step' = NoStep /\ row' = NoRow

Next ==
    \/ ExecuteR \/ ExecuteI \/ ExecuteBranch \/ ExecuteJal \/ ExecuteJalr \/ ExecuteLoad \/ ExecuteStore
    \/ ExecuteHalt \/ ExecuteSyscall \/ ExecuteUnknownEcall
    \/ AssignArith \/ AssignArithImm \/ AssignMul \/ AssignDiv \/ AssignShift \/ AssignShiftImm
    \/ AssignSlt \/ AssignSltImm \/ AssignLogic \/ AssignLogicImm \/ AssignBranch \/ AssignJal
    \/ AssignJalr \/ AssignLoad \/ AssignStore \/ AssignHalt
    \/ AssignLargeEcall \/ AssignEcallDummy \/ AssignDummy
    \/ NextStep

Spec == Init /\ [][Next]_vars
-----------------------------------------------------------------------------
Circuit(kind, r) ==
    CASE kind \in ArithKinds    -> ArithCircuit(kind, r)
      [] kind \in ArithImmKinds -> ArithImmCircuit(kind, r)
      [] kind \in MulKinds      -> MulCircuit(kind, r)
      [] kind \in DivKinds      -> DivCircuit(kind, r)
      [] kind \in ShiftKinds    -> ShiftCircuit(kind, r)
      [] kind \in ShiftImmKinds -> ShiftImmCircuit(kind, r)
      [] kind \in SltKinds      -> SltCircuit(kind, r)
      [] kind \in SltImmKinds   -> SltImmCircuit(kind, r)
      [] kind \in LogicKinds    -> LogicCircuit(kind, r)
      [] kind \in LogicImmKinds -> LogicImmCircuit(kind, r)
      [] kind \in BranchKinds   -> BranchCircuit(kind, r)
      [] kind \in LoadKinds     -> LoadCircuit(kind, r)
      [] kind \in StoreKinds    -> StoreCircuit(kind, r)
      [] kind = "JAL"           -> JalCircuit(kind, r)
      [] kind = "JALR"          -> JalrCircuit(kind, r)
      [] kind = "ECALL"         -> HaltCircuit(kind, r)

\* The circuit the row was assigned to.
CircuitOf(kind, r) ==
    CASE r.circuit = "DUMMY" -> DummyCircuit(kind, r)
      [] r.circuit = "LARGE" -> LargeEcallCircuit(r)
      [] OTHER               -> Circuit(kind, r)

\* The lookup tables: a range, the operations on bytes, powers of two, the
\* program (here the instruction of the step).
InTable(l) ==
    CASE l[1] = "U"   -> l[3] < 2 ^ l[2]
      [] l[1] = "And" -> l[2] \in 0 .. ByteRange - 1 /\ l[3] \in 0 .. ByteRange - 1 /\ l[4] = Bitwise(BitAnd, l[2], l[3])
      [] l[1] = "Or"  -> l[2] \in 0 .. ByteRange - 1 /\ l[3] \in 0 .. ByteRange - 1 /\ l[4] = Bitwise(BitOr, l[2], l[3])
      [] l[1] = "Xor" -> l[2] \in 0 .. ByteRange - 1 /\ l[3] \in 0 .. ByteRange - 1 /\ l[4] = Bitwise(BitXor, l[2], l[3])
      [] l[1] = "Pow" -> l[2] \in 0 .. WordBits - 1 /\ l[3] = 2 ^ l[2]
      [] l[1] = "Instruction" -> l = ProgramRow(step.insn, step.pc)

\* A multiplicity is kept for a line of a table, found by the inputs alone.
Line(l) ==
    CASE l[1] \in {"And", "Or", "Xor"} -> <<l[1], l[2], l[3]>>
      [] l[1] \in {"Pow", "Instruction"} -> <<l[1], l[2]>>
      [] OTHER -> l

Lookups(f) == SelectSeq(f, LAMBDA asked : asked.ask = "lookup")
LinesLookedUp(f) == LET lks == Lookups(f) IN [i \in DOMAIN lks |-> Line(lks[i].of)]

\* The lines whose multiplicity the assignment of the row increments.
Counts(r) ==
    [g \in {"cells"} \X DOMAIN r.cells |-> r.cells[g[2]].lk]
      @@ [o \in {"access"} \X DOMAIN r.access |-> r.access[o[2]].lk]
      @@ (<<"fetch", "pc">> :> r.fetch.lk)
LinesCounted(r) ==
    LET lks == FoldFunction(LAMBDA lk, rest : lk \o rest, <<>>, Counts(r))
    IN  [i \in DOMAIN lks |-> Line(lks[i])]

\* The operations the emulator put on record, as the memory argument has them.
\* Registers are kept as two limbs, memory as one word at its byte address.
Records(s, field, ts(_)) ==
    {IF o \in MemoryOps THEN <<"mem", 4 * s.op[o].id, s.op[o][field], ts(o)>>
     ELSE <<"reg", s.op[o].id, Digits(s.op[o][field], LimbBits, 2), ts(o)>> : o \in DOMAIN s.op}
RecordsRead(s) ==
    LET prev(o) == s.op[o].prev IN {<<"state", s.pc, Cycle>>} \union Records(s, "before", prev)
RecordsWritten(s) ==
    LET ts(o) == Cycle + Sub[o]
    IN  {<<"state", s.next, Cycle + SUBCYCLES_PER_INSN>>} \union Records(s, "after", ts)
-----------------------------------------------------------------------------
\* A step the emulator completed gives a row that satisfies every constraint
\* of its circuit and looks up only what is in the tables: assign_instance
\* finds the signs, carries, inverses and differences the circuit asks for.
RowSatisfiesCircuit ==
    row # NoRow =>
      LET f == CircuitOf(step.kind, row)
      IN  /\ Asked(f, "zero") \subseteq {0}
          /\ \A l \in Asked(f, "lookup") : InTable(l)

\* The lookups assign_instance counts are, line by line, those the circuit
\* makes on the row: otherwise the sum over the tables' multiplicities is not
\* the sum over the lookups and no proof of the run verifies.
LookupsCounted ==
    row # NoRow =>
      ToBag(LinesCounted(row)) = ToBag(LinesLookedUp(CircuitOf(step.kind, row)))

\* The circuit takes and puts exactly the records of the step: the state
\* before and after, and for every operation the value and cycle found and the
\* value left, each at the subcycle the tracer gave it.
RecordsMatchStep ==
    row # NoRow =>
      LET f == CircuitOf(step.kind, row)
      IN  /\ Asked(f, "read") = RecordsRead(step)
          /\ Asked(f, "write") = RecordsWritten(step)
===============================================================================
