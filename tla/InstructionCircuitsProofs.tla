----------------------- MODULE InstructionCircuitsProofs -----------------------
(***************************************************************************)
(* For words of any width, any field and any operands: the circuit of an   *)
(* instruction takes and puts exactly the records of the step it was       *)
(* assigned to.  A circuit is put together from gadgets, which constrain   *)
(* and look up but touch no record, and from the frames of the state, the  *)
(* registers and the memory; what remains is that the expressions a        *)
(* circuit writes are the values the emulator left.                        *)
(***************************************************************************)
EXTENDS InstructionCircuits, CircuitGadgetsProofs, FiniteSetTheorems, WellFoundedInduction

\* The sets of kinds are told apart by their members.
USE DEF ArithKinds, ArithImmKinds, MulKinds, DivKinds, ShiftKinds, ShiftImmKinds, SltKinds,
        SltImmKinds, LogicKinds, LogicImmKinds, BranchKinds, LoadKinds, StoreKinds
-----------------------------------------------------------------------------
(***************************************************************************)
(* What a circuit reads and writes.                                        *)
(***************************************************************************)
Says(f, reads, writes) ==
    IsCircuit(f) /\ Asked(f, "read") = reads /\ Asked(f, "write") = writes
Silent(f) == Says(f, {}, {})

\* A circuit of two parts asks what the parts ask.
LEMMA Join ==
    ASSUME NEW f, NEW g, NEW R, NEW W, NEW S, NEW X, Says(f, R, W), Says(g, S, X)
    PROVE  Says(f \o g, R \union S, W \union X)
<1>1. IsCircuit(f) /\ IsCircuit(g) BY DEF Says
<1>2. PICK U : f \in Seq(U) BY <1>1 DEF IsCircuit
<1>3. PICK V : g \in Seq(V) BY <1>1 DEF IsCircuit
<1> DEFINE T == U \cup V  h == f \o g
<1>4. f \in Seq(T) /\ g \in Seq(T)
  <2>1. /\ Len(f) \in Nat /\ DOMAIN f = 1 .. Len(f) /\ f \in [1 .. Len(f) -> U]
        /\ Len(g) \in Nat /\ DOMAIN g = 1 .. Len(g) /\ g \in [1 .. Len(g) -> V]
    BY <1>2, <1>3, LenProperties
  <2>2. f \in [1 .. Len(f) -> T] /\ g \in [1 .. Len(g) -> T] BY <2>1
  <2> QED BY <2>1, <2>2, SeqDef
<1> HIDE DEF T
<1>5. /\ h \in Seq(T) /\ Len(h) = Len(f) + Len(g)
      /\ \A i \in 1 .. Len(f) + Len(g) : h[i] = IF i <= Len(f) THEN f[i] ELSE g[i - Len(f)]
  BY <1>4, ConcatProperties
<1>6. Len(f) \in Nat /\ DOMAIN f = 1 .. Len(f) /\ Len(g) \in Nat /\ DOMAIN g = 1 .. Len(g)
      /\ DOMAIN h = 1 .. Len(f) + Len(g)
  BY <1>4, <1>5, LenProperties
<1> HIDE DEF h
<1>7. ASSUME NEW i \in DOMAIN f PROVE i \in DOMAIN h /\ h[i] = f[i] BY <1>5, <1>6
<1>8. ASSUME NEW i \in DOMAIN g PROVE Len(f) + i \in DOMAIN h /\ h[Len(f) + i] = g[i] BY <1>5, <1>6
<1>9. ASSUME NEW i \in DOMAIN h
      PROVE  \/ i \in DOMAIN f /\ h[i] = f[i]
             \/ i - Len(f) \in DOMAIN g /\ h[i] = g[i - Len(f)]
  BY <1>5, <1>6
<1>10. ASSUME NEW what PROVE Asked(h, what) = Asked(f, what) \union Asked(g, what)
  <2>1. ASSUME NEW x \in Asked(h, what) PROVE x \in Asked(f, what) \union Asked(g, what)
    <3>1. PICK i \in DOMAIN h : h[i].ask = what /\ x = h[i].of BY DEF Asked
    <3> QED BY <1>9, <3>1 DEF Asked
  <2>2. ASSUME NEW x \in Asked(f, what) PROVE x \in Asked(h, what)
    <3>1. PICK i \in DOMAIN f : f[i].ask = what /\ x = f[i].of BY DEF Asked
    <3> QED BY <1>7, <3>1 DEF Asked
  <2>3. ASSUME NEW x \in Asked(g, what) PROVE x \in Asked(h, what)
    <3>1. PICK i \in DOMAIN g : g[i].ask = what /\ x = g[i].of BY DEF Asked
    <3>2. Len(f) + i \in DOMAIN h /\ h[Len(f) + i] = g[i] BY <1>8
    <3> QED BY <3>1, <3>2 DEF Asked
  <2> QED BY <2>1, <2>2, <2>3
<1>11. IsCircuit(h) BY <1>5 DEF IsCircuit
<1> QED BY <1>10, <1>11 DEF Says, h

\* A circuit that asks one thing.
LEMMA AskOne ==
    ASSUME NEW what, NEW x
    PROVE  Says(<<[ask |-> what, of |-> x]>>, IF what = "read" THEN {x} ELSE {},
                IF what = "write" THEN {x} ELSE {})
<1> DEFINE r == [ask |-> what, of |-> x]  f == <<r>>
<1>1. r.ask = what /\ r.of = x OBVIOUS
<1> HIDE DEF r
<1>2. f \in Seq({r}) /\ DOMAIN f = {1} /\ f[1] = r OBVIOUS
<1> HIDE DEF f
<1>3. ASSUME NEW w PROVE Asked(f, w) = IF what = w THEN {x} ELSE {}
  <2>1. CASE what = w
    <3>1. {j \in DOMAIN f : f[j].ask = w} = {1} BY <1>1, <1>2, <2>1
    <3> QED BY <1>1, <1>2, <2>1, <3>1 DEF Asked
  <2>2. CASE what # w
    <3>1. {j \in DOMAIN f : f[j].ask = w} = {} BY <1>1, <1>2, <2>2
    <3> QED BY <2>2, <3>1 DEF Asked
  <2> QED BY <2>1, <2>2
<1>4. IsCircuit(f) BY <1>2 DEF IsCircuit
<1> QED BY <1>3, <1>4 DEF Says, f, r

\* The parts circuits are built from.
LEMMA AskZero == ASSUME NEW x PROVE Silent(RequireZero(x)) BY AskOne DEF RequireZero, Silent
LEMMA AskLookup == ASSUME NEW l PROVE Silent(Lookup(l)) BY AskOne DEF Lookup, Silent
LEMMA AskRead == ASSUME NEW q PROVE Says(ReadRecord(q), {q}, {}) BY AskOne DEF ReadRecord
LEMMA AskWrite == ASSUME NEW q PROVE Says(WriteRecord(q), {}, {q}) BY AskOne DEF WriteRecord
LEMMA AskNothing == Silent(Nothing)
<1>1. <<>> \in Seq({}) /\ DOMAIN <<>> = {} OBVIOUS
<1>2. IsCircuit(Nothing) BY <1>1 DEF IsCircuit, Nothing
<1>3. \A w : Asked(Nothing, w) = {} BY <1>1 DEF Asked, Nothing
<1> QED BY <1>2, <1>3 DEF Silent, Says

\* Silent parts before and after change nothing.
LEMMA SilentJoin ==
    ASSUME NEW f, NEW g, Silent(f)
    PROVE  /\ Silent(g) => Silent(f \o g)
           /\ \A R, W : Says(g, R, W) => Says(f \o g, R, W) /\ Says(g \o f, R, W)
<1>1. Says(f, {}, {}) BY DEF Silent
<1>2. ASSUME NEW R, NEW W, Says(g, R, W) PROVE Says(f \o g, R, W) /\ Says(g \o f, R, W)
  <2>1. Says(f \o g, {} \union R, {} \union W) BY <1>1, <1>2, Join
  <2>2. Says(g \o f, R \union {}, W \union {}) BY <1>1, <1>2, Join
  <2>3. {} \union R = R /\ R \union {} = R /\ {} \union W = W /\ W \union {} = W OBVIOUS
  <2> QED BY <2>1, <2>2, <2>3
<1> QED BY <1>2 DEF Silent

-----------------------------------------------------------------------------
(***************************************************************************)
(* Gadgets touch no record.                                                *)
(***************************************************************************)
LEMMA SilentEqual == ASSUME NEW x, NEW y PROVE Silent(RequireEqual(x, y)) BY AskZero DEF RequireEqual
LEMMA SilentCondition ==
    ASSUME NEW c, NEW x, NEW y, NEW z PROVE Silent(ConditionRequireEqual(c, x, y, z))
  BY SilentEqual DEF ConditionRequireEqual
LEMMA SilentBit == ASSUME NEW x PROVE Silent(AssertBit(x)) BY AskZero DEF AssertBit
LEMMA SilentUx == ASSUME NEW bits, NEW x PROVE Silent(AssertUx(bits, x)) BY AskLookup DEF AssertUx
LEMMA SilentUInt == ASSUME NEW u PROVE Silent(UInt(u)) BY SilentUx, SilentJoin DEF UInt

LEMMA SilentAdd == ASSUME NEW a, NEW b, NEW c PROVE Silent(Add(a, b, c))
<1>1. Silent(AssertBit(c.carry[1]) \o AssertBit(c.carry[2])) BY SilentBit, SilentJoin
<1> QED BY <1>1, SilentUInt, SilentJoin DEF Add

LEMMA SilentExtend == ASSUME NEW bits, NEW x, NEW s PROVE Silent(SignedExtend(bits, x, s))
  BY SilentBit, SilentUx, SilentJoin DEF SignedExtend
LEMMA SilentNegative == ASSUME NEW u, NEW s PROVE Silent(IsNegative(u, s))
  BY SilentExtend DEF IsNegative
LEMMA SilentIsZero == ASSUME NEW x, NEW z PROVE Silent(IsZero(x, z))
  BY AskZero, SilentEqual, SilentJoin DEF IsZero
LEMMA SilentNonZero == ASSUME NEW x, NEW z PROVE Silent(NonZero(x, z))
  BY SilentEqual DEF NonZero
LEMMA SilentInnerLt == ASSUME NEW x, NEW y, NEW lt, NEW d PROVE Silent(InnerLt(x, y, lt, d))
  BY SilentUInt, SilentEqual, SilentJoin DEF InnerLt
LEMMA SilentAssertLt == ASSUME NEW x, NEW y, NEW d PROVE Silent(AssertLt(x, y, d))
  BY SilentInnerLt DEF AssertLt
LEMMA SilentIsLt == ASSUME NEW x, NEW y, NEW d PROVE Silent(IsLt(x, y, d))
  BY SilentBit, SilentInnerLt, SilentJoin DEF IsLt

LEMMA SilentSignedLt == ASSUME NEW a, NEW b, NEW d PROVE Silent(SignedLt(a, b, d))
<1> DEFINE f == IsNegative(a, d.lhs) \o IsNegative(b, d.rhs)
           g == f \o AssertBit(d.lt.is_lt)
<1>1. Silent(f) BY SilentNegative, SilentJoin
<1>2. Silent(g) BY <1>1, SilentBit, SilentJoin
<1> HIDE DEF g
<1>3. Silent(g \o InnerLt(ToField(a, d.lhs), ToField(b, d.rhs), d.lt.is_lt, d.lt))
  BY <1>2, SilentInnerLt, SilentJoin
<1> QED BY <1>3 DEF SignedLt, g

LEMMA SilentMemAddr == ASSUME NEW m, NEW zeros PROVE Silent(MemAddr(m, zeros))
<1> DEFINE x == (m.limb[1] - (LowBit(m, zeros, 0) + 2 * LowBit(m, zeros, 1))) * InverseOf[4]
           f == AssertBit(LowBit(m, zeros, 0)) \o AssertBit(LowBit(m, zeros, 1))
           g == f \o AssertUx(LimbBits - 2, x)
<1>1. Silent(f) BY SilentBit, SilentJoin
<1>2. Silent(g)
  <2> HIDE DEF f, x
  <2> QED BY <1>1, SilentUx, SilentJoin
<1>3. Silent(g \o AssertUx(LimbBits, m.limb[2]))
  <2> HIDE DEF g
  <2> QED BY <1>2, SilentUx, SilentJoin
<1> QED BY <1>3 DEF MemAddr

LEMMA SilentLogic == ASSUME NEW kind, NEW a, NEW b, NEW c PROVE Silent(Logic(kind, a, b, c))
<1> DEFINE look(i) == Lookup(<<LogicTable(kind), a.byte[i], b.byte[i], c.byte[i]>>)
<1>1. Silent(look(1)) /\ Silent(look(2)) /\ Silent(look(3)) /\ Silent(look(4)) BY AskLookup
<1> HIDE DEF look
<1>2. Silent(look(1) \o look(2)) BY <1>1, SilentJoin
<1>3. Silent(look(1) \o look(2) \o look(3)) BY <1>1, <1>2, SilentJoin
<1>4. Silent(look(1) \o look(2) \o look(3) \o look(4)) BY <1>1, <1>3, SilentJoin
<1> QED BY <1>4 DEF Logic, look

LEMMA SilentShift ==
    ASSUME NEW left, NEW rs1, NEW pow, NEW outflow, NEW inflow, NEW rd
    PROVE  Silent(ShiftEquation(left, rs1, pow, outflow, inflow, rd))
  BY SilentEqual DEF ShiftEquation
-----------------------------------------------------------------------------
(***************************************************************************)
(* The frames.                                                             *)
(***************************************************************************)
StateRead(r) == <<"state", r.pc, r.ts>>
StateWrite(r, next) == <<"state", Field(next), r.ts + SUBCYCLES_PER_INSN>>
Took(r, o, space, id, v) == <<space, id, v, r.access[o].prev>>
Left(r, o, space, id, v) == <<space, id, v, r.ts + Sub[o]>>

LEMMA StateAsks ==
    ASSUME NEW r, NEW next
    PROVE  Says(StateTo(r, next), {StateRead(r)}, {StateWrite(r, next)})
<1>1. Says(StateTo(r, next), {StateRead(r)} \union {}, {} \union {StateWrite(r, next)})
  BY AskRead, AskWrite, Join DEF StateTo, StateRead, StateWrite
<1> QED BY <1>1

LEMMA AccessAsks ==
    ASSUME NEW r, NEW o, NEW space, NEW id, NEW before, NEW after
    PROVE  Says(Access(r, o, space, id, before, after),
                {Took(r, o, space, id, before)}, {Left(r, o, space, id, after)})
<1> DEFINE a == r.access[o]
           f == AssertLt(a.prev, r.ts + Sub[o], a.lt)
           q == Took(r, o, space, id, before)
           w == Left(r, o, space, id, after)
<1>1. Silent(f) BY SilentAssertLt
<1>2. Access(r, o, space, id, before, after) = (f \o ReadRecord(q)) \o WriteRecord(w)
  BY DEF Access, Took, Left
<1> HIDE DEF f, q, w
<1>3. Says(f \o ReadRecord(q), {q}, {}) BY <1>1, AskRead, SilentJoin
<1>4. Says((f \o ReadRecord(q)) \o WriteRecord(w), {q} \union {}, {} \union {w})
  BY <1>3, AskWrite, Join
<1>5. {q} \union {} = {q} /\ {} \union {w} = {w} OBVIOUS
<1> QED BY <1>2, <1>4, <1>5 DEF q, w

TookReg(r, o, v) == Took(r, o, "reg", r.access[o].id, v)
LeftReg(r, o, v) == Left(r, o, "reg", r.access[o].id, v)
FoundRd(r) == TookReg(r, "rd", r.access["rd"].prev_value.limb)
TookMem(r, addr, v) == Took(r, "mem", "mem", Field(addr), v)
LeftMem(r, addr, v) == Left(r, "mem", "mem", Field(addr), Field(v))

LEMMA RegisterReadAsks ==
    ASSUME NEW r, NEW o, NEW u
    PROVE  Says(RegisterRead(r, o, u), {TookReg(r, o, u.limb)}, {LeftReg(r, o, u.limb)})
  BY AccessAsks DEF RegisterRead, TookReg, LeftReg
LEMMA WriteRDAsks ==
    ASSUME NEW r, NEW u PROVE Says(WriteRD(r, u), {FoundRd(r)}, {LeftReg(r, "rd", u.limb)})
  BY AccessAsks DEF WriteRD, TookReg, LeftReg, FoundRd
LEMMA MemoryWriteAsks ==
    ASSUME NEW r, NEW addr, NEW before, NEW after
    PROVE  Says(MemoryWrite(r, addr, before, after), {TookMem(r, addr, before)}, {LeftMem(r, addr, after)})
  BY AccessAsks DEF MemoryWrite, TookMem, LeftMem
LEMMA FetchSilent ==
    ASSUME NEW r, NEW kind, NEW rd, NEW rs1, NEW rs2, NEW imm
    PROVE  Silent(LkFetch(r, kind, rd, rs1, rs2, imm))
  BY AskLookup DEF LkFetch

\* Records added to what is asked already.
LEMMA JoinOne ==
    ASSUME NEW f, NEW g, NEW R, NEW W, NEW q, NEW w, Says(f, R, W), Says(g, {q}, {w})
    PROVE  Says(f \o g, R \union {q}, W \union {w})
  BY Join

\* Frames one after the other, with the fetch at the end.
LEMMA JoinTwo ==
    ASSUME NEW f, NEW g, NEW q1, NEW w1, NEW q2, NEW w2, Says(f, {q1}, {w1}), Says(g, {q2}, {w2})
    PROVE  Says(f \o g, {q1, q2}, {w1, w2})
<1>1. Says(f \o g, {q1} \union {q2}, {w1} \union {w2}) BY JoinOne
<1>2. {q1} \union {q2} = {q1, q2} /\ {w1} \union {w2} = {w1, w2} OBVIOUS
<1> QED BY <1>1, <1>2

LEMMA JoinThree ==
    ASSUME NEW f, NEW g, NEW q1, NEW w1, NEW q2, NEW w2, NEW q3, NEW w3,
           Says(f, {q1, q2}, {w1, w2}), Says(g, {q3}, {w3})
    PROVE  Says(f \o g, {q1, q2, q3}, {w1, w2, w3})
<1>1. Says(f \o g, {q1, q2} \union {q3}, {w1, w2} \union {w3}) BY JoinOne
<1>2. {q1, q2} \union {q3} = {q1, q2, q3} /\ {w1, w2} \union {w3} = {w1, w2, w3} OBVIOUS
<1> QED BY <1>1, <1>2

LEMMA JoinFour ==
    ASSUME NEW f, NEW g, NEW q1, NEW w1, NEW q2, NEW w2, NEW q3, NEW w3, NEW q4, NEW w4,
           Says(f, {q1, q2, q3}, {w1, w2, w3}), Says(g, {q4}, {w4})
    PROVE  Says(f \o g, {q1, q2, q3, q4}, {w1, w2, w3, w4})
<1>1. Says(f \o g, {q1, q2, q3} \union {q4}, {w1, w2, w3} \union {w4}) BY JoinOne
<1>2. {q1, q2, q3} \union {q4} = {q1, q2, q3, q4} /\ {w1, w2, w3} \union {w4} = {w1, w2, w3, w4}
  OBVIOUS
<1> QED BY <1>1, <1>2

LEMMA RInsnAsks ==
    ASSUME NEW r, NEW kind, NEW rs1, NEW rs2, NEW rd
    PROVE  Says(RInsn(r, kind, rs1, rs2, rd),
                {StateRead(r), TookReg(r, "rs1", rs1.limb), TookReg(r, "rs2", rs2.limb), FoundRd(r)},
                {StateWrite(r, r.pc + PC_STEP_SIZE), LeftReg(r, "rs1", rs1.limb),
                 LeftReg(r, "rs2", rs2.limb), LeftReg(r, "rd", rd.limb)})
<1> DEFINE f == StateInOut(r) \o RegisterRead(r, "rs1", rs1)
           g == f \o RegisterRead(r, "rs2", rs2)
           h == g \o WriteRD(r, rd)
<1>1. Says(f, {StateRead(r), TookReg(r, "rs1", rs1.limb)},
              {StateWrite(r, r.pc + PC_STEP_SIZE), LeftReg(r, "rs1", rs1.limb)})
  BY StateAsks, RegisterReadAsks, JoinTwo DEF StateInOut
<1> HIDE DEF f
<1>2. Says(g, {StateRead(r), TookReg(r, "rs1", rs1.limb), TookReg(r, "rs2", rs2.limb)},
              {StateWrite(r, r.pc + PC_STEP_SIZE), LeftReg(r, "rs1", rs1.limb),
               LeftReg(r, "rs2", rs2.limb)})
  BY <1>1, RegisterReadAsks, JoinThree
<1> HIDE DEF g
<1>3. Says(h, {StateRead(r), TookReg(r, "rs1", rs1.limb), TookReg(r, "rs2", rs2.limb), FoundRd(r)},
              {StateWrite(r, r.pc + PC_STEP_SIZE), LeftReg(r, "rs1", rs1.limb),
               LeftReg(r, "rs2", rs2.limb), LeftReg(r, "rd", rd.limb)})
  BY <1>2, WriteRDAsks, JoinFour
<1>4. RInsn(r, kind, rs1, rs2, rd) = h \o LkFetch(r, kind, Id(r, "rd"), Id(r, "rs1"), Id(r, "rs2"), 0)
  BY DEF RInsn, f, g
<1> HIDE DEF h
<1> QED BY <1>3, <1>4, FetchSilent, SilentJoin

LEMMA IInsnAsks ==
    ASSUME NEW r, NEW kind, NEW imm, NEW rs1, NEW rd, NEW next
    PROVE  Says(IInsn(r, kind, imm, rs1, rd, next),
                {StateRead(r), TookReg(r, "rs1", rs1.limb), FoundRd(r)},
                {StateWrite(r, next), LeftReg(r, "rs1", rs1.limb), LeftReg(r, "rd", rd.limb)})
<1> DEFINE f == StateTo(r, next) \o RegisterRead(r, "rs1", rs1)
           g == f \o WriteRD(r, rd)
<1>1. Says(f, {StateRead(r), TookReg(r, "rs1", rs1.limb)},
              {StateWrite(r, next), LeftReg(r, "rs1", rs1.limb)})
  BY StateAsks, RegisterReadAsks, JoinTwo
<1> HIDE DEF f
<1>2. Says(g, {StateRead(r), TookReg(r, "rs1", rs1.limb), FoundRd(r)},
              {StateWrite(r, next), LeftReg(r, "rs1", rs1.limb), LeftReg(r, "rd", rd.limb)})
  BY <1>1, WriteRDAsks, JoinThree
<1>3. IInsn(r, kind, imm, rs1, rd, next) = g \o LkFetch(r, kind, Id(r, "rd"), Id(r, "rs1"), 0, imm)
  BY DEF IInsn, f
<1> HIDE DEF g
<1> QED BY <1>2, <1>3, FetchSilent, SilentJoin

LEMMA IMInsnAsks ==
    ASSUME NEW r, NEW kind, NEW imm, NEW rs1, NEW word, NEW addr, NEW rd
    PROVE  Says(IMInsn(r, kind, imm, rs1, word, addr, rd),
                {StateRead(r), TookReg(r, "rs1", rs1.limb), TookMem(r, addr, word), FoundRd(r)},
                {StateWrite(r, r.pc + PC_STEP_SIZE), LeftReg(r, "rs1", rs1.limb),
                 LeftMem(r, addr, word), LeftReg(r, "rd", rd.limb)})
<1> DEFINE f == StateInOut(r) \o RegisterRead(r, "rs1", rs1)
           g == f \o MemoryWrite(r, addr, word, word)
           h == g \o WriteRD(r, rd)
<1>1. Says(f, {StateRead(r), TookReg(r, "rs1", rs1.limb)},
              {StateWrite(r, r.pc + PC_STEP_SIZE), LeftReg(r, "rs1", rs1.limb)})
  BY StateAsks, RegisterReadAsks, JoinTwo DEF StateInOut
<1> HIDE DEF f
<1>2. Says(g, {StateRead(r), TookReg(r, "rs1", rs1.limb), TookMem(r, addr, word)},
              {StateWrite(r, r.pc + PC_STEP_SIZE), LeftReg(r, "rs1", rs1.limb),
               LeftMem(r, addr, word)})
  BY <1>1, MemoryWriteAsks, JoinThree
<1> HIDE DEF g
<1>3. Says(h, {StateRead(r), TookReg(r, "rs1", rs1.limb), TookMem(r, addr, word), FoundRd(r)},
              {StateWrite(r, r.pc + PC_STEP_SIZE), LeftReg(r, "rs1", rs1.limb),
               LeftMem(r, addr, word), LeftReg(r, "rd", rd.limb)})
  BY <1>2, WriteRDAsks, JoinFour
<1>4. IMInsn(r, kind, imm, rs1, word, addr, rd) =
        h \o LkFetch(r, kind, Id(r, "rd"), Id(r, "rs1"), 0, imm)
  BY DEF IMInsn, f, g
<1> HIDE DEF h
<1> QED BY <1>3, <1>4, FetchSilent, SilentJoin

LEMMA SInsnAsks ==
    ASSUME NEW r, NEW kind, NEW imm, NEW rs1, NEW rs2, NEW addr, NEW before, NEW after
    PROVE  Says(SInsn(r, kind, imm, rs1, rs2, addr, before, after),
                {StateRead(r), TookReg(r, "rs1", rs1.limb), TookReg(r, "rs2", rs2.limb),
                 TookMem(r, addr, before)},
                {StateWrite(r, r.pc + PC_STEP_SIZE), LeftReg(r, "rs1", rs1.limb),
                 LeftReg(r, "rs2", rs2.limb), LeftMem(r, addr, after)})
<1> DEFINE f == StateInOut(r) \o RegisterRead(r, "rs1", rs1)
           g == f \o RegisterRead(r, "rs2", rs2)
           h == g \o MemoryWrite(r, addr, before, after)
<1>1. Says(f, {StateRead(r), TookReg(r, "rs1", rs1.limb)},
              {StateWrite(r, r.pc + PC_STEP_SIZE), LeftReg(r, "rs1", rs1.limb)})
  BY StateAsks, RegisterReadAsks, JoinTwo DEF StateInOut
<1> HIDE DEF f
<1>2. Says(g, {StateRead(r), TookReg(r, "rs1", rs1.limb), TookReg(r, "rs2", rs2.limb)},
              {StateWrite(r, r.pc + PC_STEP_SIZE), LeftReg(r, "rs1", rs1.limb),
               LeftReg(r, "rs2", rs2.limb)})
  BY <1>1, RegisterReadAsks, JoinThree
<1> HIDE DEF g
<1>3. Says(h, {StateRead(r), TookReg(r, "rs1", rs1.limb), TookReg(r, "rs2", rs2.limb),
               TookMem(r, addr, before)},
              {StateWrite(r, r.pc + PC_STEP_SIZE), LeftReg(r, "rs1", rs1.limb),
               LeftReg(r, "rs2", rs2.limb), LeftMem(r, addr, after)})
  BY <1>2, MemoryWriteAsks, JoinFour
<1>4. SInsn(r, kind, imm, rs1, rs2, addr, before, after) =
        h \o LkFetch(r, kind, RD_NULL, Id(r, "rs1"), Id(r, "rs2"), imm)
  BY DEF SInsn, f, g
<1> HIDE DEF h
<1> QED BY <1>3, <1>4, FetchSilent, SilentJoin

LEMMA BInsnAsks ==
    ASSUME NEW r, NEW kind, NEW imm, NEW rs1, NEW rs2, NEW taken
    PROVE  Says(BInsn(r, kind, imm, rs1, rs2, taken),
                {StateRead(r), TookReg(r, "rs1", rs1.limb), TookReg(r, "rs2", rs2.limb)},
                {StateWrite(r, r.next), LeftReg(r, "rs1", rs1.limb), LeftReg(r, "rs2", rs2.limb)})
<1> DEFINE f == StateTo(r, r.next) \o RegisterRead(r, "rs1", rs1)
           g == f \o RegisterRead(r, "rs2", rs2)
           h == g \o LkFetch(r, kind, RD_NULL, Id(r, "rs1"), Id(r, "rs2"), imm)
<1>1. Says(f, {StateRead(r), TookReg(r, "rs1", rs1.limb)},
              {StateWrite(r, r.next), LeftReg(r, "rs1", rs1.limb)})
  BY StateAsks, RegisterReadAsks, JoinTwo
<1> HIDE DEF f
<1>2. Says(g, {StateRead(r), TookReg(r, "rs1", rs1.limb), TookReg(r, "rs2", rs2.limb)},
              {StateWrite(r, r.next), LeftReg(r, "rs1", rs1.limb), LeftReg(r, "rs2", rs2.limb)})
  BY <1>1, RegisterReadAsks, JoinThree
<1> HIDE DEF g
<1>3. Says(h, {StateRead(r), TookReg(r, "rs1", rs1.limb), TookReg(r, "rs2", rs2.limb)},
              {StateWrite(r, r.next), LeftReg(r, "rs1", rs1.limb), LeftReg(r, "rs2", rs2.limb)})
  BY <1>2, FetchSilent, SilentJoin
<1>4. BInsn(r, kind, imm, rs1, rs2, taken) =
        h \o RequireEqual(r.next, r.pc + taken * imm - taken * PC_STEP_SIZE + PC_STEP_SIZE)
  BY DEF BInsn, f, g
<1> HIDE DEF h
<1> QED BY <1>3, <1>4, SilentEqual, SilentJoin

LEMMA JInsnAsks ==
    ASSUME NEW r, NEW kind, NEW rd
    PROVE  Says(JInsn(r, kind, rd), {StateRead(r), FoundRd(r)},
                {StateWrite(r, r.next), LeftReg(r, "rd", rd.limb)})
<1> DEFINE f == StateTo(r, r.next) \o WriteRD(r, rd)
<1>1. Says(f, {StateRead(r), FoundRd(r)}, {StateWrite(r, r.next), LeftReg(r, "rd", rd.limb)})
  BY StateAsks, WriteRDAsks, JoinTwo
<1>2. JInsn(r, kind, rd) = f \o LkFetch(r, kind, Id(r, "rd"), 0, 0, r.next - r.pc) BY DEF JInsn
<1> HIDE DEF f
<1> QED BY <1>1, <1>2, FetchSilent, SilentJoin

LEMMA EcallInsnAsks ==
    ASSUME NEW r, NEW id, NEW next
    PROVE  Says(EcallInsn(r, id, next),
                {StateRead(r), Took(r, "rs1", "reg", RegEcall, id.limb)},
                {StateWrite(r, next), Left(r, "rs1", "reg", RegEcall, id.limb)})
<1> DEFINE f == StateTo(r, next) \o LkFetch(r, "ECALL", RD_NULL, 0, 0, 0)
           g == Access(r, "rs1", "reg", RegEcall, id.limb, id.limb)
           q == Took(r, "rs1", "reg", RegEcall, id.limb)
           w == Left(r, "rs1", "reg", RegEcall, id.limb)
<1>1. Says(f, {StateRead(r)}, {StateWrite(r, next)}) BY StateAsks, FetchSilent, SilentJoin
<1>2. EcallInsn(r, id, next) = f \o g BY DEF EcallInsn
<1>3. Says(g, {q}, {w}) BY AccessAsks
<1> HIDE DEF f, g, q, w
<1>4. Says(f \o g, {StateRead(r), q}, {StateWrite(r, next), w}) BY <1>1, <1>3, JoinTwo
<1> QED BY <1>2, <1>4 DEF q, w
-----------------------------------------------------------------------------
(***************************************************************************)
(* The steps the emulator completes, and the rows they are assigned to.    *)
(***************************************************************************)
ReadsWord(s, o) == s.op[o].before = s.op[o].after /\ s.op[o].after \in Words

Completes(s, kinds, ops) ==
    s.kind \in kinds /\ s.insn.kind = s.kind /\ s.pc \in Pcs /\ DOMAIN s.op = ops
NextInsn(s) == s.next = s.pc + PC_STEP_SIZE

IsR(s) ==
    /\ Completes(s, RKinds, {"rs1", "rs2", "rd"}) /\ NextInsn(s)
    /\ ReadsWord(s, "rs1") /\ ReadsWord(s, "rs2")
    /\ s.op["rd"].after = Compute(s.kind, s.op["rs1"].after, s.op["rs2"].after)
IsI(s) ==
    /\ Completes(s, IKinds, {"rs1", "rd"}) /\ NextInsn(s)
    /\ ReadsWord(s, "rs1") /\ s.insn.imm \in Imms
    /\ s.kind \in ShiftImmKinds => s.insn.imm \in 0 .. WordBits - 1
    /\ s.op["rd"].after = Compute(s.kind, s.op["rs1"].after, Wrapped(s.insn.imm))
IsBranch(s) ==
    /\ Completes(s, BranchKinds, {"rs1", "rs2"}) /\ s.next \in Words
    /\ ReadsWord(s, "rs1") /\ ReadsWord(s, "rs2") /\ s.insn.imm \in Imms
    /\ s.next = s.pc + IF Taken(s.kind, s.op["rs1"].after, s.op["rs2"].after) THEN s.insn.imm ELSE PC_STEP_SIZE
IsJal(s) ==
    /\ Completes(s, {"JAL"}, {"rd"}) /\ s.next \in Words
    /\ s.insn.imm \in Imms /\ s.next = s.pc + s.insn.imm
    /\ s.op["rd"].after = s.pc + PC_STEP_SIZE
IsJalr(s) ==
    LET a == s.op["rs1"].after
    IN  /\ Completes(s, {"JALR"}, {"rs1", "rd"}) /\ s.next \in Words
        /\ ReadsWord(s, "rs1") /\ s.insn.imm \in Imms /\ a + s.insn.imm \in Words
        /\ s.next = a + s.insn.imm - ((a + s.insn.imm) % 2)
        /\ s.op["rd"].after = s.pc + PC_STEP_SIZE
IsLoad(s) ==
    LET addr == s.op["rs1"].after + s.insn.imm
    IN  /\ Completes(s, LoadKinds, {"rs1", "mem", "rd"}) /\ NextInsn(s)
        /\ ReadsWord(s, "rs1") /\ ReadsWord(s, "mem") /\ s.insn.imm \in Imms
        /\ addr \in Words /\ AlignedFor(s.kind, addr)
        /\ s.op["mem"].id = addr \div 4
        /\ s.op["rd"].after = Loaded(s.kind, addr, s.op["mem"].before)
IsStore(s) ==
    LET addr == s.op["rs1"].after + s.insn.imm
    IN  /\ Completes(s, StoreKinds, {"rs1", "rs2", "mem"}) /\ NextInsn(s)
        /\ ReadsWord(s, "rs1") /\ ReadsWord(s, "rs2") /\ s.insn.imm \in Imms
        /\ addr \in Words /\ AlignedFor(s.kind, addr)
        /\ s.op["mem"].id = addr \div 4 /\ s.op["mem"].before \in Words
        /\ s.op["mem"].after = Stored(s.kind, addr, s.op["mem"].before, s.op["rs2"].after)
CallsWith(s, code) == s.op["rs1"].id = RegEcall /\ s.op["rs1"].after = code /\ ReadsWord(s, "rs1")
IsHalt(s) ==
    /\ Completes(s, {"ECALL"}, {"rs1", "rs2"}) /\ s.next = EXIT_PC
    /\ CallsWith(s, HaltCode) /\ ReadsWord(s, "rs2") /\ s.op["rs2"].id = RegArg0
IsSyscall(s) ==
    /\ Completes(s, {"ECALL"}, {"rs1", "reg1", "reg2", "mem1", "mem2"}) /\ NextInsn(s)
    /\ CallsWith(s, SyscallCode) /\ ReadsWord(s, "reg1") /\ ReadsWord(s, "reg2")
    /\ \A o \in {"mem1", "mem2"} :
         s.op[o].id \in 0 .. 3 /\ s.op[o].before \in Words /\ s.op[o].after \in Words
IsUnknownEcall(s) ==
    /\ Completes(s, {"ECALL"}, {"rs1", "rs2", "rd", "mem"}) /\ NextInsn(s)
    /\ CallsWith(s, UnknownCode) /\ ReadsWord(s, "rs2") /\ ReadsWord(s, "mem")
    /\ s.op["rd"].before = 0 /\ s.op["rd"].after = 0
    /\ s.op["mem"].id \in 0 .. 3

Completed(s) ==
    \/ IsR(s) \/ IsI(s) \/ IsBranch(s) \/ IsJal(s) \/ IsJalr(s) \/ IsLoad(s) \/ IsStore(s)
    \/ IsHalt(s) \/ IsSyscall(s) \/ IsUnknownEcall(s)

\* Words and program counters are elements of the field that stand for themselves.
LEMMA WordIsField == ASSUME NEW v \in Words PROVE v \in Nat /\ v < WordRange /\ Field(v) = v
<1>1. v \in Nat /\ v < WordRange /\ WordRange \in Nat /\ P \in Nat /\ P > 8 * WordRange BY Sizes
<1> QED BY <1>1, SmallField

LEMMA NextIsField ==
    ASSUME NEW s, s.pc \in Pcs, NextInsn(s)
    PROVE  Field(s.pc + PC_STEP_SIZE) = s.next /\ s.next \in Words
<1>1. s.pc + 4 \in Words BY StepAssumption
<1> QED BY <1>1, WordIsField DEF NextInsn, PC_STEP_SIZE
\* Immediates are signed and fit a word.
LEMMA ImmRange ==
    ASSUME NEW imm \in Imms
    PROVE  imm \in Int /\ 2 * imm >= -WordRange /\ 2 * imm < WordRange
<1>1. WordRange \in Nat BY Sizes
<1>2. imm \in -(WordRange \div 2) .. WordRange \div 2 - 1 BY StepAssumption
<1>3. WordRange \div 2 \in Nat /\ 2 * (WordRange \div 2) <= WordRange BY <1>1
<1> QED BY <1>1, <1>2, <1>3
-----------------------------------------------------------------------------
\* The frame of a row is that of its step.
RowFor(r, s) ==
    /\ r.pc = s.pc /\ r.ts = Cycle /\ r.next = s.next
    /\ \A o \in DOMAIN s.op :
         /\ r.access[o].id = s.op[o].id /\ r.access[o].prev = s.op[o].prev
         /\ r.access[o].prev_value.limb = Digits(s.op[o].before, LimbBits, 2)

LEMMA RowOfStep == ASSUME NEW s, NEW cells PROVE RowFor(AssignRow(s, cells), s)
<1> DEFINE r == AssignRow(s, cells)
<1>1. /\ r.pc = s.pc /\ r.ts = Cycle /\ r.next = s.next
      /\ r.access = [o \in DOMAIN s.op |-> AssignAccess(s, o)]
  BY DEF AssignRow
<1>2. ASSUME NEW o \in DOMAIN s.op
      PROVE  /\ AssignAccess(s, o).id = s.op[o].id /\ AssignAccess(s, o).prev = s.op[o].prev
             /\ AssignAccess(s, o).prev_value.limb = Digits(s.op[o].before, LimbBits, 2)
  BY DEF AssignAccess, ValueUnchecked
<1> HIDE DEF r
<1> QED BY <1>1, <1>2 DEF RowFor, r

\* The records of a step, and those a row takes and puts.
StepTook(s, o) ==
    IF o \in MemoryOps THEN <<"mem", 4 * s.op[o].id, s.op[o].before, s.op[o].prev>>
    ELSE <<"reg", s.op[o].id, Digits(s.op[o].before, LimbBits, 2), s.op[o].prev>>
StepLeft(s, o) ==
    IF o \in MemoryOps THEN <<"mem", 4 * s.op[o].id, s.op[o].after, Cycle + Sub[o]>>
    ELSE <<"reg", s.op[o].id, Digits(s.op[o].after, LimbBits, 2), Cycle + Sub[o]>>

LEMMA RecordsOf ==
    ASSUME NEW s
    PROVE  /\ RecordsRead(s) = {<<"state", s.pc, Cycle>>} \union {StepTook(s, o) : o \in DOMAIN s.op}
           /\ RecordsWritten(s) = {<<"state", s.next, Cycle + SUBCYCLES_PER_INSN>>}
                                    \union {StepLeft(s, o) : o \in DOMAIN s.op}
  BY DEF RecordsRead, RecordsWritten, Records, StepTook, StepLeft

\* With the operations named.
LEMMA RecordsOfOne ==
    ASSUME NEW s, NEW a, DOMAIN s.op = {a}
    PROVE  /\ RecordsRead(s) = {<<"state", s.pc, Cycle>>, StepTook(s, a)}
           /\ RecordsWritten(s) = {<<"state", s.next, Cycle + SUBCYCLES_PER_INSN>>, StepLeft(s, a)}
<1>1. /\ {StepTook(s, o) : o \in DOMAIN s.op} = {StepTook(s, a)}
      /\ {StepLeft(s, o) : o \in DOMAIN s.op} = {StepLeft(s, a)}
  OBVIOUS
<1> QED BY <1>1, RecordsOf

LEMMA RecordsOfTwo ==
    ASSUME NEW s, NEW a, NEW b, DOMAIN s.op = {a, b}
    PROVE  /\ RecordsRead(s) = {<<"state", s.pc, Cycle>>, StepTook(s, a), StepTook(s, b)}
           /\ RecordsWritten(s) = {<<"state", s.next, Cycle + SUBCYCLES_PER_INSN>>, StepLeft(s, a), StepLeft(s, b)}
<1>1. /\ {StepTook(s, o) : o \in DOMAIN s.op} = {StepTook(s, a), StepTook(s, b)}
      /\ {StepLeft(s, o) : o \in DOMAIN s.op} = {StepLeft(s, a), StepLeft(s, b)}
  OBVIOUS
<1> QED BY <1>1, RecordsOf

LEMMA RecordsOfThree ==
    ASSUME NEW s, NEW a, NEW b, NEW c, DOMAIN s.op = {a, b, c}
    PROVE  /\ RecordsRead(s) = {<<"state", s.pc, Cycle>>, StepTook(s, a), StepTook(s, b), StepTook(s, c)}
           /\ RecordsWritten(s) = {<<"state", s.next, Cycle + SUBCYCLES_PER_INSN>>, StepLeft(s, a), StepLeft(s, b), StepLeft(s, c)}
<1>1. /\ {StepTook(s, o) : o \in DOMAIN s.op} = {StepTook(s, a), StepTook(s, b), StepTook(s, c)}
      /\ {StepLeft(s, o) : o \in DOMAIN s.op} = {StepLeft(s, a), StepLeft(s, b), StepLeft(s, c)}
  OBVIOUS
<1> QED BY <1>1, RecordsOf

LEMMA RecordsOfFour ==
    ASSUME NEW s, NEW a, NEW b, NEW c, NEW d, DOMAIN s.op = {a, b, c, d}
    PROVE  /\ RecordsRead(s) = {<<"state", s.pc, Cycle>>, StepTook(s, a), StepTook(s, b), StepTook(s, c), StepTook(s, d)}
           /\ RecordsWritten(s) = {<<"state", s.next, Cycle + SUBCYCLES_PER_INSN>>, StepLeft(s, a), StepLeft(s, b), StepLeft(s, c), StepLeft(s, d)}
<1>1. /\ {StepTook(s, o) : o \in DOMAIN s.op} = {StepTook(s, a), StepTook(s, b), StepTook(s, c), StepTook(s, d)}
      /\ {StepLeft(s, o) : o \in DOMAIN s.op} = {StepLeft(s, a), StepLeft(s, b), StepLeft(s, c), StepLeft(s, d)}
  OBVIOUS
<1> QED BY <1>1, RecordsOf

LEMMA RecordsOfFive ==
    ASSUME NEW s, NEW a, NEW b, NEW c, NEW d, NEW e, DOMAIN s.op = {a, b, c, d, e}
    PROVE  /\ RecordsRead(s) = {<<"state", s.pc, Cycle>>, StepTook(s, a), StepTook(s, b), StepTook(s, c), StepTook(s, d), StepTook(s, e)}
           /\ RecordsWritten(s) = {<<"state", s.next, Cycle + SUBCYCLES_PER_INSN>>, StepLeft(s, a), StepLeft(s, b), StepLeft(s, c), StepLeft(s, d), StepLeft(s, e)}
<1>1. /\ {StepTook(s, o) : o \in DOMAIN s.op} = {StepTook(s, a), StepTook(s, b), StepTook(s, c), StepTook(s, d), StepTook(s, e)}
      /\ {StepLeft(s, o) : o \in DOMAIN s.op} = {StepLeft(s, a), StepLeft(s, b), StepLeft(s, c), StepLeft(s, d), StepLeft(s, e)}
  OBVIOUS
<1> QED BY <1>1, RecordsOf

LEMMA RowRecords ==
    ASSUME NEW r, NEW s, RowFor(r, s)
    PROVE  /\ StateRead(r) = <<"state", s.pc, Cycle>>
           /\ \A next : StateWrite(r, next) = <<"state", Field(next), Cycle + SUBCYCLES_PER_INSN>>
           /\ \A o \in DOMAIN s.op \ MemoryOps :
                /\ TookReg(r, o, Digits(s.op[o].before, LimbBits, 2)) = StepTook(s, o)
                /\ LeftReg(r, o, Digits(s.op[o].after, LimbBits, 2)) = StepLeft(s, o)
           /\ "rd" \in DOMAIN s.op => FoundRd(r) = StepTook(s, "rd")
<1>1. "rd" \notin MemoryOps BY DEF MemoryOps
<1> QED BY <1>1 DEF RowFor, StateRead, StateWrite, TookReg, LeftReg, Took, Left, FoundRd, StepTook, StepLeft

LEMMA RowMemory ==
    ASSUME NEW r, NEW s, RowFor(r, s), "mem" \in DOMAIN s.op, NEW addr, NEW before, NEW after,
           Field(addr) = 4 * s.op["mem"].id
    PROVE  /\ before = s.op["mem"].before => TookMem(r, addr, before) = StepTook(s, "mem")
           /\ Field(after) = s.op["mem"].after => LeftMem(r, addr, after) = StepLeft(s, "mem")
<1>1. "mem" \in MemoryOps BY DEF MemoryOps
<1> QED BY <1>1 DEF RowFor, TookMem, LeftMem, Took, Left, StepTook, StepLeft

\* A value kept in a register is there as its two limbs.
LimbsOf(u, v) == u.limb = Digits(v, LimbBits, 2)

\* The frames of a step take and put its records.
LEMMA FrameR ==
    ASSUME NEW s, NEW r, IsR(s), RowFor(r, s), NEW rs1, NEW rs2, NEW rd,
           LimbsOf(rs1, s.op["rs1"].after), LimbsOf(rs2, s.op["rs2"].after), LimbsOf(rd, s.op["rd"].after)
    PROVE  Says(RInsn(r, s.kind, rs1, rs2, rd), RecordsRead(s), RecordsWritten(s))
<1>1. /\ DOMAIN s.op = {"rs1", "rs2", "rd"} /\ s.pc \in Pcs /\ NextInsn(s)
      /\ s.op["rs1"].before = s.op["rs1"].after /\ s.op["rs2"].before = s.op["rs2"].after
  BY DEF IsR, Completes, ReadsWord
<1>2. {"rs1", "rs2", "rd"} \cap MemoryOps = {} BY DEF MemoryOps
<1>3. /\ TookReg(r, "rs1", rs1.limb) = StepTook(s, "rs1") /\ LeftReg(r, "rs1", rs1.limb) = StepLeft(s, "rs1")
      /\ TookReg(r, "rs2", rs2.limb) = StepTook(s, "rs2") /\ LeftReg(r, "rs2", rs2.limb) = StepLeft(s, "rs2")
      /\ FoundRd(r) = StepTook(s, "rd") /\ LeftReg(r, "rd", rd.limb) = StepLeft(s, "rd")
  BY <1>1, <1>2, RowRecords DEF LimbsOf
<1>4. /\ StateRead(r) = <<"state", s.pc, Cycle>>
      /\ StateWrite(r, r.pc + PC_STEP_SIZE) = <<"state", s.next, Cycle + SUBCYCLES_PER_INSN>>
  BY <1>1, RowRecords, NextIsField DEF RowFor
<1>5. /\ RecordsRead(s) = {StateRead(r), TookReg(r, "rs1", rs1.limb), TookReg(r, "rs2", rs2.limb), FoundRd(r)}
      /\ RecordsWritten(s) = {StateWrite(r, r.pc + PC_STEP_SIZE), LeftReg(r, "rs1", rs1.limb),
                              LeftReg(r, "rs2", rs2.limb), LeftReg(r, "rd", rd.limb)}
  BY <1>1, <1>3, <1>4, RecordsOfThree
<1> QED BY <1>5, RInsnAsks

\* A step on a register and an immediate.
LEMMA FrameI ==
    ASSUME NEW s, NEW r, NEW next, DOMAIN s.op = {"rs1", "rd"}, ReadsWord(s, "rs1"), Field(next) = s.next,
           RowFor(r, s), NEW imm, NEW rs1, NEW rd,
           LimbsOf(rs1, s.op["rs1"].after), LimbsOf(rd, s.op["rd"].after)
    PROVE  Says(IInsn(r, s.kind, imm, rs1, rd, next), RecordsRead(s), RecordsWritten(s))
<1>1. {"rs1", "rd"} \cap MemoryOps = {} BY DEF MemoryOps
<1>2. /\ TookReg(r, "rs1", rs1.limb) = StepTook(s, "rs1") /\ LeftReg(r, "rs1", rs1.limb) = StepLeft(s, "rs1")
      /\ FoundRd(r) = StepTook(s, "rd") /\ LeftReg(r, "rd", rd.limb) = StepLeft(s, "rd")
  BY <1>1, RowRecords DEF LimbsOf, ReadsWord
<1>3. /\ StateRead(r) = <<"state", s.pc, Cycle>>
      /\ StateWrite(r, next) = <<"state", s.next, Cycle + SUBCYCLES_PER_INSN>>
  BY RowRecords
<1>4. /\ RecordsRead(s) = {StateRead(r), TookReg(r, "rs1", rs1.limb), FoundRd(r)}
      /\ RecordsWritten(s) = {StateWrite(r, next), LeftReg(r, "rs1", rs1.limb), LeftReg(r, "rd", rd.limb)}
  BY <1>2, <1>3, RecordsOfTwo
<1> QED BY <1>4, IInsnAsks

LEMMA FrameB ==
    ASSUME NEW s, NEW r, IsBranch(s), RowFor(r, s), NEW imm, NEW rs1, NEW rs2, NEW taken,
           LimbsOf(rs1, s.op["rs1"].after), LimbsOf(rs2, s.op["rs2"].after)
    PROVE  Says(BInsn(r, s.kind, imm, rs1, rs2, taken), RecordsRead(s), RecordsWritten(s))
<1>1. /\ DOMAIN s.op = {"rs1", "rs2"} /\ s.next \in Words
      /\ s.op["rs1"].before = s.op["rs1"].after /\ s.op["rs2"].before = s.op["rs2"].after
  BY DEF IsBranch, Completes, ReadsWord
<1>2. {"rs1", "rs2"} \cap MemoryOps = {} BY DEF MemoryOps
<1>3. /\ TookReg(r, "rs1", rs1.limb) = StepTook(s, "rs1") /\ LeftReg(r, "rs1", rs1.limb) = StepLeft(s, "rs1")
      /\ TookReg(r, "rs2", rs2.limb) = StepTook(s, "rs2") /\ LeftReg(r, "rs2", rs2.limb) = StepLeft(s, "rs2")
  BY <1>1, <1>2, RowRecords DEF LimbsOf
<1>4. /\ StateRead(r) = <<"state", s.pc, Cycle>>
      /\ StateWrite(r, r.next) = <<"state", s.next, Cycle + SUBCYCLES_PER_INSN>>
  BY <1>1, RowRecords, WordIsField DEF RowFor
<1>5. /\ RecordsRead(s) = {StateRead(r), TookReg(r, "rs1", rs1.limb), TookReg(r, "rs2", rs2.limb)}
      /\ RecordsWritten(s) = {StateWrite(r, r.next), LeftReg(r, "rs1", rs1.limb), LeftReg(r, "rs2", rs2.limb)}
  BY <1>1, <1>3, <1>4, RecordsOfTwo
<1> QED BY <1>5, BInsnAsks

LEMMA FrameJ ==
    ASSUME NEW s, NEW r, IsJal(s), RowFor(r, s), NEW rd, LimbsOf(rd, s.op["rd"].after)
    PROVE  Says(JInsn(r, s.kind, rd), RecordsRead(s), RecordsWritten(s))
<1>1. DOMAIN s.op = {"rd"} /\ s.next \in Words /\ "rd" \notin MemoryOps
  BY DEF IsJal, Completes, MemoryOps
<1>2. FoundRd(r) = StepTook(s, "rd") /\ LeftReg(r, "rd", rd.limb) = StepLeft(s, "rd")
  BY <1>1, RowRecords DEF LimbsOf
<1>3. /\ StateRead(r) = <<"state", s.pc, Cycle>>
      /\ StateWrite(r, r.next) = <<"state", s.next, Cycle + SUBCYCLES_PER_INSN>>
  BY <1>1, RowRecords, WordIsField DEF RowFor
<1>4. /\ RecordsRead(s) = {StateRead(r), FoundRd(r)}
      /\ RecordsWritten(s) = {StateWrite(r, r.next), LeftReg(r, "rd", rd.limb)}
  BY <1>1, <1>2, <1>3, RecordsOfOne
<1> QED BY <1>4, JInsnAsks

LEMMA FrameIM ==
    ASSUME NEW s, NEW r, IsLoad(s), RowFor(r, s), NEW imm, NEW rs1, NEW addr, NEW word, NEW rd,
           LimbsOf(rs1, s.op["rs1"].after), LimbsOf(rd, s.op["rd"].after),
           Field(addr) = 4 * s.op["mem"].id, word = s.op["mem"].before
    PROVE  Says(IMInsn(r, s.kind, imm, rs1, word, addr, rd), RecordsRead(s), RecordsWritten(s))
<1>1. /\ DOMAIN s.op = {"rs1", "mem", "rd"} /\ s.pc \in Pcs /\ NextInsn(s)
      /\ s.op["rs1"].before = s.op["rs1"].after /\ s.op["mem"].before = s.op["mem"].after
      /\ s.op["mem"].after \in Words
  BY DEF IsLoad, Completes, ReadsWord
<1>2. {"rs1", "rd"} \cap MemoryOps = {} BY DEF MemoryOps
<1>3. /\ TookReg(r, "rs1", rs1.limb) = StepTook(s, "rs1") /\ LeftReg(r, "rs1", rs1.limb) = StepLeft(s, "rs1")
      /\ FoundRd(r) = StepTook(s, "rd") /\ LeftReg(r, "rd", rd.limb) = StepLeft(s, "rd")
  BY <1>1, <1>2, RowRecords DEF LimbsOf
<1>4. TookMem(r, addr, word) = StepTook(s, "mem") /\ LeftMem(r, addr, word) = StepLeft(s, "mem")
  <2>1. Field(word) = s.op["mem"].after BY <1>1, WordIsField
  <2> QED BY <1>1, <2>1, RowMemory
<1>5. /\ StateRead(r) = <<"state", s.pc, Cycle>>
      /\ StateWrite(r, r.pc + PC_STEP_SIZE) = <<"state", s.next, Cycle + SUBCYCLES_PER_INSN>>
  BY <1>1, RowRecords, NextIsField DEF RowFor
<1>6. /\ RecordsRead(s) = {StateRead(r), TookReg(r, "rs1", rs1.limb), TookMem(r, addr, word), FoundRd(r)}
      /\ RecordsWritten(s) = {StateWrite(r, r.pc + PC_STEP_SIZE), LeftReg(r, "rs1", rs1.limb),
                              LeftMem(r, addr, word), LeftReg(r, "rd", rd.limb)}
  BY <1>1, <1>3, <1>4, <1>5, RecordsOfThree
<1> QED BY <1>6, IMInsnAsks

LEMMA FrameS ==
    ASSUME NEW s, NEW r, IsStore(s), RowFor(r, s), NEW imm, NEW rs1, NEW rs2, NEW addr, NEW before, NEW after,
           LimbsOf(rs1, s.op["rs1"].after), LimbsOf(rs2, s.op["rs2"].after),
           Field(addr) = 4 * s.op["mem"].id, before = s.op["mem"].before, Field(after) = s.op["mem"].after
    PROVE  Says(SInsn(r, s.kind, imm, rs1, rs2, addr, before, after), RecordsRead(s), RecordsWritten(s))
<1>1. /\ DOMAIN s.op = {"rs1", "rs2", "mem"} /\ s.pc \in Pcs /\ NextInsn(s)
      /\ s.op["rs1"].before = s.op["rs1"].after /\ s.op["rs2"].before = s.op["rs2"].after
  BY DEF IsStore, Completes, ReadsWord
<1>2. {"rs1", "rs2"} \cap MemoryOps = {} BY DEF MemoryOps
<1>3. /\ TookReg(r, "rs1", rs1.limb) = StepTook(s, "rs1") /\ LeftReg(r, "rs1", rs1.limb) = StepLeft(s, "rs1")
      /\ TookReg(r, "rs2", rs2.limb) = StepTook(s, "rs2") /\ LeftReg(r, "rs2", rs2.limb) = StepLeft(s, "rs2")
  BY <1>1, <1>2, RowRecords DEF LimbsOf
<1>4. TookMem(r, addr, before) = StepTook(s, "mem") /\ LeftMem(r, addr, after) = StepLeft(s, "mem")
  BY <1>1, RowMemory
<1>5. /\ StateRead(r) = <<"state", s.pc, Cycle>>
      /\ StateWrite(r, r.pc + PC_STEP_SIZE) = <<"state", s.next, Cycle + SUBCYCLES_PER_INSN>>
  BY <1>1, RowRecords, NextIsField DEF RowFor
<1>6. /\ RecordsRead(s) = {StateRead(r), TookReg(r, "rs1", rs1.limb), TookReg(r, "rs2", rs2.limb),
                           TookMem(r, addr, before)}
      /\ RecordsWritten(s) = {StateWrite(r, r.pc + PC_STEP_SIZE), LeftReg(r, "rs1", rs1.limb),
                              LeftReg(r, "rs2", rs2.limb), LeftMem(r, addr, after)}
  BY <1>1, <1>3, <1>4, <1>5, RecordsOfThree
<1> QED BY <1>6, SInsnAsks

-----------------------------------------------------------------------------
(***************************************************************************)
(* The limbs of a word, and sums of limbs.                                 *)
(***************************************************************************)
LEMMA DivisionUnique ==
    ASSUME NEW d \in Nat, d > 0, NEW q \in Int, NEW m \in 0 .. d - 1
    PROVE  (q * d + m) \div d = q /\ (q * d + m) % d = m
<1> DEFINE x == q * d + m  y == x \div d  z == x % d
<1>1. x \in Int /\ y \in Int /\ z \in 0 .. d - 1 /\ x = y * d + z OBVIOUS
<1>2. (y - q) * d = m - z
  <2>1. (y - q) * d = y * d - q * d BY <1>1
  <2>2. y * d - q * d = m - z
    <3>1. q * d + m = y * d + z BY <1>1
    <3>2. q * d \in Int /\ y * d \in Int BY <1>1
    <3> HIDE DEF x, y, z
    <3> QED BY <1>1, <3>1, <3>2
  <2> QED BY <2>1, <2>2
<1> HIDE DEF x, y, z
<1>3. y - q >= 1 => (y - q) * d >= d BY <1>1
<1>4. y - q <= -1 => (y - q) * d <= -d BY <1>1
<1>5. y = q BY <1>1, <1>2, <1>3, <1>4
<1>6. z = m
  <2>1. (y - q) * d = 0 BY <1>1, <1>5
  <2> QED BY <1>1, <1>2, <2>1
<1> QED BY <1>5, <1>6 DEF x, y, z

LEMMA DigitsAre ==
    ASSUME NEW v \in Int
    PROVE  Digits(v, LimbBits, 2) = <<v % LimbRange, (v \div LimbRange) % LimbRange>>
<1> DEFINE pow == [i \in 1 .. 2 |-> 2 ^ (LimbBits * (i - 1))]
<1>1. LimbBits \in Int BY WidthAssumption DEF LimbBits
<1>2. pow[1] = 1
  <2>1. LimbBits * (1 - 1) = 0 BY <1>1
  <2>2. pow[1] = 2 ^ (LimbBits * (1 - 1)) OBVIOUS
  <2>3. 2 ^ 0 = 1 OBVIOUS
  <2> QED BY <2>1, <2>2, <2>3
<1>3. pow[2] = LimbRange
  <2>1. LimbBits * (2 - 1) = LimbBits BY <1>1
  <2>2. pow[2] = 2 ^ (LimbBits * (2 - 1)) OBVIOUS
  <2> QED BY <2>1, <2>2 DEF LimbRange
<1>4. Digits(v, LimbBits, 2) = [i \in 1 .. 2 |-> (v \div pow[i]) % LimbRange]
  BY DEF Digits, LimbRange
<1> HIDE DEF pow
<1>5. v \div 1 = v OBVIOUS
<1> QED BY <1>2, <1>3, <1>4, <1>5

\* The digits of low + high * L are those of a word and what is above it.
LEMMA DigitsOfSum ==
    ASSUME NEW low \in LimbWords, NEW high \in Nat
    PROVE  Digits(Wrapped(low + high * LimbRange), LimbBits, 2) = <<low, high % LimbRange>>
<1> DEFINE L == LimbRange  v == low + high * L  h == high % L  q == high \div L
           w == low + h * L
<1>1. L \in Nat /\ L >= 4 /\ WordRange = L * L BY Sizes
<1>2. low \in 0 .. L - 1 BY DEF LimbWords
<1>3. h \in 0 .. L - 1 /\ q \in Nat /\ high = q * L + h BY <1>1
<1> HIDE DEF h, q, L
<1>4. high * L = q * (L * L) + h * L
  <2>1. high * L = (q * L + h) * L BY <1>3
  <2>2. (q * L + h) * L = q * (L * L) + h * L BY <1>1, <1>3
  <2> QED BY <2>1, <2>2
<1>5. w \in 0 .. L * L - 1
  <2>1. h * L <= (L - 1) * L /\ h * L \in Nat BY <1>1, <1>3
  <2>2. (L - 1) * L = L * L - L BY <1>1
  <2> QED BY <1>1, <1>2, <2>1, <2>2
<1>6. v = q * (L * L) + w
  <2>1. q * (L * L) \in Int /\ h * L \in Int /\ high * L \in Int BY <1>1, <1>3
  <2> QED BY <1>2, <1>4, <2>1
<1> HIDE DEF v
<1>7. Wrapped(v) = w
  <2>1. L * L \in Nat /\ L * L > 0 BY <1>1
  <2>2. (q * (L * L) + w) % (L * L) = w BY <1>3, <1>5, <2>1, DivisionUnique
  <2> QED BY <1>1, <1>6, <2>2 DEF Wrapped
<1>8. w \div L = h /\ w % L = low
  <2>1. w = h * L + low BY <1>1, <1>2, <1>3
  <2>2. (h * L + low) \div L = h /\ (h * L + low) % L = low BY <1>1, <1>2, <1>3, DivisionUnique
  <2> QED BY <2>1, <2>2
<1>9. h % L = h BY <1>1, <1>3
<1>10. w \in Int BY <1>5
<1> HIDE DEF w
<1>11. Digits(w, LimbBits, 2) = <<w % L, (w \div L) % L>> BY <1>10, DigitsAre DEF L
<1> QED BY <1>7, <1>8, <1>9, <1>11 DEF v, h, L

\* The limbs of a word.
LEMMA LimbsOfWord ==
    ASSUME NEW v \in Words
    PROVE  /\ v % LimbRange \in LimbWords /\ v \div LimbRange \in LimbWords
           /\ v = (v % LimbRange) + (v \div LimbRange) * LimbRange
           /\ Digits(v, LimbBits, 2) = <<v % LimbRange, v \div LimbRange>>
           /\ Wrapped(v) = v
<1> DEFINE L == LimbRange
<1>1. L \in Nat /\ L >= 4 /\ WordRange = L * L /\ v \in 0 .. L * L - 1 BY Sizes
<1>2. v % L \in 0 .. L - 1 /\ v \div L \in Nat /\ v = (v % L) + (v \div L) * L BY <1>1
<1>3. v \div L <= L - 1
  <2> DEFINE h == v \div L
  <2>1. h \in Nat /\ h * L <= v BY <1>1, <1>2
  <2> HIDE DEF h
  <2>2. h >= L => h * L >= L * L BY <1>1, <2>1
  <2>3. h * L \in Int /\ L * L \in Int BY <1>1, <2>1
  <2> QED BY <1>1, <2>1, <2>2, <2>3 DEF h
<1>4. (v \div L) % L = v \div L BY <1>1, <1>2, <1>3
<1>5. Wrapped(v) = v
  <2>1. WordRange \in Nat /\ v \in 0 .. WordRange - 1 BY <1>1, Sizes
  <2> QED BY <2>1 DEF Wrapped
<1>6. Digits(v, LimbBits, 2) = <<v % LimbRange, (v \div LimbRange) % LimbRange>>
  BY <1>1, DigitsAre
<1> QED BY <1>1, <1>2, <1>3, <1>4, <1>5, <1>6 DEF LimbWords

LEMMA SumOfIs ==
    ASSUME NEW a, NEW b, NEW c, NEW a1, NEW a2, NEW b1, NEW b2, NEW c1, NEW c2,
           a.limb = <<a1, a2>>, b.limb = <<b1, b2>>, c.carry = <<c1, c2>>
    PROVE  SumOf(a, b, c).limb =
             <<Field(a1 + b1 - c1 * LimbRange), Field(a2 + b2 + c1 - c2 * LimbRange)>>
<1>1. /\ a.limb[1] = a1 /\ a.limb[2] = a2 /\ b.limb[1] = b1 /\ b.limb[2] = b2
      /\ c.carry[1] = c1 /\ c.carry[2] = c2
  OBVIOUS
<1> QED BY <1>1 DEF SumOf

\* UInt::add on assigned limbs and carries gives the limbs of the wrapped sum.
LEMMA SumLimbs ==
    ASSUME NEW v \in Words, NEW w \in Words, NEW a, NEW b, LimbsOf(a, v), LimbsOf(b, w),
           NEW c, c.carry = AssignAdd(a, b).carry
    PROVE  LimbsOf(SumOf(a, b, c), Wrapped(v + w))
<1> DEFINE L == LimbRange  a1 == v % L  a2 == v \div L  b1 == w % L  b2 == w \div L
           low == a1 + b1  lowc == low \div L  lowr == low % L
           high == a2 + b2 + lowc  highc == high \div L  highr == high % L
<1>1. L \in Nat /\ L >= 4 /\ WordRange = L * L /\ P \in Nat /\ P > 8 * L BY Sizes
<1>2. /\ a1 \in 0 .. L - 1 /\ a2 \in 0 .. L - 1 /\ b1 \in 0 .. L - 1 /\ b2 \in 0 .. L - 1
      /\ v = a1 + a2 * L /\ w = b1 + b2 * L
  BY LimbsOfWord DEF LimbWords
<1>3. a.limb = <<a1, a2>> /\ b.limb = <<b1, b2>> BY LimbsOfWord DEF LimbsOf
<1>4. a.limb[1] = a1 /\ a.limb[2] = a2 /\ b.limb[1] = b1 /\ b.limb[2] = b2 BY <1>3
<1>5. c.carry = <<lowc, highc>> BY <1>4 DEF AssignAdd
<1>6. c.carry[1] = lowc /\ c.carry[2] = highc BY <1>5
<1> HIDE DEF a1, a2, b1, b2, lowc, highc
<1>7. SumOf(a, b, c).limb =
        <<Field(a1 + b1 - lowc * LimbRange), Field(a2 + b2 + lowc - highc * LimbRange)>>
  BY <1>3, <1>5, SumOfIs
<1> USE DEF lowc, highc
<1>8. low \in Nat /\ lowc \in Nat /\ lowr \in 0 .. L - 1 /\ low = lowc * L + lowr BY <1>1, <1>2
<1> HIDE DEF lowc, lowr
<1>9. high \in Nat /\ highc \in Nat /\ highr \in 0 .. L - 1 /\ high = highc * L + highr
  BY <1>1, <1>2, <1>8
<1> HIDE DEF highc, highr
<1>10. low - lowc * L = lowr /\ high - highc * L = highr
  <2>1. lowc * L \in Int /\ highc * L \in Int BY <1>1, <1>8, <1>9
  <2> HIDE DEF low, high
  <2> QED BY <1>8, <1>9, <2>1
<1>11. a1 + b1 - lowc * L = low - lowc * L /\ a2 + b2 + lowc - highc * L = high - highc * L
  <2>1. lowc * L \in Int /\ highc * L \in Int BY <1>1, <1>8, <1>9
  <2> QED BY <1>2, <1>8, <1>9, <2>1
<1>12. Field(lowr) = lowr /\ Field(highr) = highr BY <1>1, <1>8, <1>9, SmallField
<1>13. v + w = lowr + high * L
  <2>1. high * L = a2 * L + b2 * L + lowc * L BY <1>1, <1>2, <1>8
  <2>2. a2 * L \in Int /\ b2 * L \in Int /\ lowc * L \in Int BY <1>1, <1>2, <1>8
  <2> QED BY <1>2, <1>8, <2>1, <2>2
<1>14. Digits(Wrapped(lowr + high * L), LimbBits, 2) = <<lowr, high % L>>
  BY <1>8, <1>9, DigitsOfSum DEF LimbWords
<1>15. SumOf(a, b, c).limb = <<lowr, highr>> BY <1>7, <1>10, <1>12, <1>11
<1>16. high % L = highr BY DEF highr
<1> QED BY <1>13, <1>14, <1>15, <1>16 DEF LimbsOf
-----------------------------------------------------------------------------
(***************************************************************************)
(* The circuits, one after the other.                                      *)
(***************************************************************************)
Matches(circuit, s) == Says(circuit, RecordsRead(s), RecordsWritten(s))

\* What constrains only, before what takes and puts the records.
LEMMA SilentMatches ==
    ASSUME NEW f, NEW g, NEW s, Silent(f)
    PROVE  Matches(g, s) => Matches(f \o g, s) /\ Matches(g \o f, s)
  BY SilentJoin DEF Matches

LEMMA Difference ==
    ASSUME NEW v \in Words, NEW w \in Words
    PROVE  Wrapped(v - w) \in Words /\ Wrapped(w + Wrapped(v - w)) = v
<1> DEFINE W == WordRange  d == v - w  q == d \div W  m == d % W
<1>1. W \in Nat /\ W > 0 /\ v \in 0 .. W - 1 /\ w \in 0 .. W - 1 /\ Words = 0 .. W - 1 BY Sizes
<1> HIDE DEF W
<1>2. CASE v >= w
  <2>1. Wrapped(d) = d /\ (w + d) % W = v BY <1>1, <1>2 DEF Wrapped, W
  <2> QED BY <1>1, <1>2, <2>1 DEF Wrapped, W
<1>3. CASE v < w
  <2>1. (-1 * W + (d + W)) % W = d + W BY <1>1, <1>3, DivisionUnique
  <2>2. d = -1 * W + (d + W) BY <1>1
  <2>3. Wrapped(d) = d + W BY <2>1, <2>2 DEF Wrapped, W
  <2>4. (1 * W + v) % W = v BY <1>1, DivisionUnique
  <2>5. w + (d + W) = 1 * W + v BY <1>1
  <2> QED BY <1>1, <1>3, <2>3, <2>4, <2>5 DEF Wrapped, W
<1> QED BY <1>1, <1>2, <1>3

LEMMA ArithMatches ==
    ASSUME NEW s, IsR(s), s.kind \in ArithKinds
    PROVE  Matches(ArithCircuit(s.kind, ArithRow(s)), s)
<1> DEFINE a == s.op["rs1"].after  b == s.op["rs2"].after  d == s.op["rd"].after
           r == ArithRow(s)  c == r.cells
<1>1. a \in Words /\ b \in Words /\ d = Compute(s.kind, a, b) BY DEF IsR, ReadsWord
<1>2. RowFor(r, s) BY RowOfStep DEF ArithRow
<1>3. CASE s.kind = "ADD"
  <2>1. /\ LimbsOf(c.rs1_read, a) /\ LimbsOf(c.rs2_read, b)
        /\ c.carries.carry = AssignAdd(c.rs1_read, c.rs2_read).carry
    BY <1>3 DEF ArithRow, AssignRow, ValueUnchecked, LimbsOf
  <2>2. d = Wrapped(a + b) BY <1>1, <1>3 DEF Compute
  <2> DEFINE sum == SumOf(c.rs1_read, c.rs2_read, c.carries)
  <2>3. LimbsOf(sum, d) BY <1>1, <2>1, <2>2, SumLimbs
  <2>4. ArithCircuit(s.kind, r) = Add(c.rs1_read, c.rs2_read, c.carries)
                                    \o RInsn(r, s.kind, c.rs1_read, c.rs2_read, sum)
    BY <1>3 DEF ArithCircuit
  <2> HIDE DEF r, sum
  <2>5. Matches(RInsn(r, s.kind, c.rs1_read, c.rs2_read, sum), s)
    BY <1>2, <2>1, <2>3, FrameR DEF Matches
  <2> QED BY <2>4, <2>5, SilentAdd, SilentMatches DEF r
<1>4. CASE s.kind = "SUB"
  <2>1. /\ LimbsOf(c.rd_written, d) /\ LimbsOf(c.rs2_read, b)
        /\ c.carries.carry = AssignAdd(c.rs2_read, c.rd_written).carry
    BY <1>4 DEF ArithRow, AssignRow, ValueUnchecked, ValueNew, LimbsOf
  <2>2. d = Wrapped(a - b) BY <1>1, <1>4 DEF Compute
  <2>3. d \in Words /\ Wrapped(b + d) = a BY <1>1, <2>2, Difference
  <2> DEFINE sum == SumOf(c.rs2_read, c.rd_written, c.carries)
             f == UInt(c.rd_written) \o Add(c.rs2_read, c.rd_written, c.carries)
             g == RInsn(r, s.kind, sum, c.rs2_read, c.rd_written)
  <2>4. LimbsOf(sum, a) BY <1>1, <2>1, <2>3, SumLimbs
  <2>5. ArithCircuit(s.kind, r) = f \o g BY <1>4 DEF ArithCircuit
  <2>6. Silent(f) BY SilentUInt, SilentAdd, SilentJoin
  <2> HIDE DEF r, sum
  <2>7. Matches(g, s) BY <1>2, <2>1, <2>4, FrameR DEF Matches
  <2> HIDE DEF f, g
  <2> QED BY <2>5, <2>6, <2>7, SilentMatches DEF r
<1> QED BY <1>3, <1>4

LEMMA ArithImmMatches ==
    ASSUME NEW s, IsI(s), s.kind \in ArithImmKinds
    PROVE  Matches(ArithImmCircuit(s.kind, ArithImmRow(s)), s)
<1> DEFINE a == s.op["rs1"].after  imm == Wrapped(s.insn.imm)  d == s.op["rd"].after
           r == ArithImmRow(s)  c == r.cells
           sum == SumOf(c.rs1_read, c.imm, c.carries)
           next == r.pc + PC_STEP_SIZE
           f == UInt(c.imm) \o Add(c.rs1_read, c.imm, c.carries)
           g == IInsn(r, s.kind, ValueOf(c.imm), c.rs1_read, sum, next)
<1>1. /\ a \in Words /\ s.kind = "ADDI" /\ s.insn.kind = "ADDI" /\ d = Compute(s.kind, a, imm)
      /\ DOMAIN s.op = {"rs1", "rd"} /\ ReadsWord(s, "rs1") /\ s.pc \in Pcs /\ NextInsn(s)
  BY DEF IsI, ReadsWord, Completes
<1>2. RowFor(r, s) BY RowOfStep DEF ArithImmRow
<1>3. d = Wrapped(a + imm) BY <1>1 DEF Compute
<1>4. imm \in Words
  <2>1. s.insn.imm \in Int BY ImmRange DEF IsI
  <2> QED BY <2>1, Sizes DEF Wrapped
<1>5. ImmInternal(s.insn) = imm BY <1>1 DEF ImmInternal
<1>6. /\ LimbsOf(c.rs1_read, a) /\ LimbsOf(c.imm, imm)
      /\ c.carries.carry = AssignAdd(c.rs1_read, c.imm).carry
  BY <1>5 DEF ArithImmRow, AssignRow, ValueUnchecked, ValueNew, LimbsOf
<1>7. LimbsOf(sum, d) BY <1>1, <1>3, <1>4, <1>6, SumLimbs
<1>8. ArithImmCircuit(s.kind, r) = f \o g BY DEF ArithImmCircuit
<1>9. Silent(f) BY SilentUInt, SilentAdd, SilentJoin
<1> HIDE DEF r, sum
<1>10. Field(next) = s.next BY <1>1, <1>2, NextIsField DEF RowFor
<1>11. Matches(g, s) BY <1>1, <1>2, <1>6, <1>7, <1>10, FrameI DEF Matches
<1> HIDE DEF f, g
<1> QED BY <1>8, <1>9, <1>11, SilentMatches DEF r

LEMMA MulMatches ==
    ASSUME NEW s, IsR(s), s.kind \in MulKinds
    PROVE  Matches(MulCircuit(s.kind, MulRow(s)), s)
<1> DEFINE a == s.op["rs1"].after  b == s.op["rs2"].after  d == s.op["rd"].after
           r == MulRow(s)  c == r.cells
           f == UInt(c.rd_written) \o UInt(c.prod_lo_hi) \o MulSigns(s.kind, c) \o MulEquation(s.kind, c)
           g == RInsn(r, s.kind, c.rs1_read, c.rs2_read, c.rd_written)
<1>1. RowFor(r, s) BY RowOfStep DEF MulRow
<1>2. LimbsOf(c.rs1_read, a) /\ LimbsOf(c.rs2_read, b) /\ LimbsOf(c.rd_written, d)
  BY DEF MulRow, AssignRow, ValueUnchecked, ValueNew, LimbsOf
<1>3. MulCircuit(s.kind, r) = f \o g BY DEF MulCircuit
<1> HIDE DEF r
<1>4. Silent(f)
  <2> DEFINE f1 == UInt(c.rd_written) \o UInt(c.prod_lo_hi)
             f2 == IsNegative(c.rs1_read, c.rs1_signed) \o IsNegative(c.rs2_read, c.rs2_signed)
  <2>1. Silent(f1) BY SilentUInt, SilentJoin
  <2>2. Silent(MulEquation(s.kind, c)) BY SilentEqual DEF MulEquation
  <2>3. Silent(MulSigns(s.kind, c))
    <3>1. CASE s.kind = "MULH"
      <4>1. MulSigns(s.kind, c) = f2 \o IsNegative(c.rd_written, c.rd_signed) BY <3>1 DEF MulSigns
      <4>2. Silent(f2) BY SilentNegative, SilentJoin
      <4> HIDE DEF f2
      <4> QED BY <4>1, <4>2, SilentNegative, SilentJoin
    <3>2. CASE s.kind = "MULHSU"
      <4> DEFINE f3 == IsNegative(c.rs1_read, c.rs1_signed) \o IsNegative(c.rd_written, c.rd_signed)
                 x == MulValues(s.kind, c).rd - (WordRange \div 2 - 1)
      <4>1. MulSigns(s.kind, c) = f3 \o NonZero(x, c.constrain_rd) BY <3>2 DEF MulSigns
      <4>2. Silent(f3) BY SilentNegative, SilentJoin
      <4> HIDE DEF f3, x
      <4> QED BY <4>1, <4>2, SilentNonZero, SilentJoin
    <3>3. CASE s.kind = "MULHU" BY <3>3, SilentNonZero DEF MulSigns
    <3>4. CASE s.kind = "MUL" BY <3>4, SilentNonZero DEF MulSigns
    <3> QED BY <3>1, <3>2, <3>3, <3>4
  <2>4. Silent(f1 \o MulSigns(s.kind, c)) 
    <3> HIDE DEF f1, c
    <3> QED BY <2>1, <2>3, SilentJoin
  <2>5. f = (f1 \o MulSigns(s.kind, c)) \o MulEquation(s.kind, c) OBVIOUS
  <2> HIDE DEF f, f1, c
  <2> QED BY <2>2, <2>4, <2>5, SilentJoin
<1>5. Matches(g, s) BY <1>1, <1>2, FrameR DEF Matches
<1> HIDE DEF f, g
<1> QED BY <1>3, <1>4, <1>5, SilentMatches DEF r

LEMMA SilentDivEquation == ASSUME NEW kind, NEW c PROVE Silent(DivEquation(kind, c))
<1> DEFINE v == DivValues(c)
           h1 == DivSigns(c) \o DivOverflow(c)
           x == v.quotient * v.divisor + v.remainder
           h2 == ConditionRequireEqual(c.is_signed_overflow.value, x, SignedMin, v.dividend)
           h3 == AssertLt(-1, RemainderPos(c), c.remainder_nonnegative)
           n1 == IsNegative(c.dividend, c.dividend_signed) \o IsNegative(c.divisor, c.divisor_signed)
           n2 == n1 \o IsNegative(c.quotient, c.quotient_signed)
           z == c.is_dividend_signed_min.is_zero * c.is_divisor_neg_one.is_zero
           o1 == IsZero(ValueOf(c.dividend) - SignedMin, c.is_dividend_signed_min)
           o2 == IsZero(ValueOf(c.divisor) - WordMax, c.is_divisor_neg_one)
           o3 == o1 \o o2
<1>1. Silent(DivSigns(c))
  <2>1. DivSigns(c) = n2 \o IsNegative(c.remainder, c.remainder_signed) BY DEF DivSigns
  <2>2. Silent(n1) BY SilentNegative, SilentJoin
  <2> HIDE DEF n1
  <2>3. Silent(n2) BY <2>2, SilentNegative, SilentJoin
  <2> HIDE DEF n2
  <2> QED BY <2>1, <2>3, SilentNegative, SilentJoin
<1>2. Silent(DivOverflow(c))
  <2>1. DivOverflow(c) = o3 \o RequireEqual(c.is_signed_overflow.value, z) BY DEF DivOverflow
  <2>2. Silent(o1) /\ Silent(o2) BY SilentIsZero
  <2> HIDE DEF o1, o2
  <2>3. Silent(o3) BY <2>2, SilentJoin
  <2> HIDE DEF o3, z
  <2> QED BY <2>1, <2>3, SilentEqual, SilentJoin
<1>3. Silent(h1) BY <1>1, <1>2, SilentJoin
<1>4. Silent(h2) /\ Silent(h3) BY SilentCondition, SilentAssertLt
<1>5. DivEquation(kind, c) =
        IF SignedDiv(kind) THEN (h1 \o h2) \o h3
        ELSE RequireEqual(ValueOf(c.dividend), ValueOf(c.divisor) * ValueOf(c.quotient) + ValueOf(c.remainder))
  BY DEF DivEquation
<1> HIDE DEF h1, h2, h3
<1>6. Silent(h1 \o h2) BY <1>3, <1>4, SilentJoin
<1>7. Silent((h1 \o h2) \o h3) BY <1>4, <1>6, SilentJoin
<1> QED BY <1>5, <1>7, SilentEqual

LEMMA DivMatches ==
    ASSUME NEW s, IsR(s), s.kind \in DivKinds
    PROVE  Matches(DivCircuit(s.kind, DivRow(s)), s)
<1> DEFINE a == s.op["rs1"].after  b == s.op["rs2"].after  d == s.op["rd"].after
           r == DivRow(s)  c == r.cells
           rd == IF s.kind \in {"DIV", "DIVU"} THEN c.quotient ELSE c.remainder
           cond == ConditionRequireEqual(c.is_divisor_zero.is_zero, ValueOf(c.quotient), WordMax,
                                         ValueOf(c.quotient))
           one == RequireEqual(c.is_divisor_zero.is_zero + c.is_remainder_lt_divisor.is_lt, 1)
           f1 == UInt(c.quotient) \o UInt(c.remainder)
           f2 == f1 \o DivEquation(s.kind, c)
           f3 == f2 \o IsZero(ValueOf(c.divisor), c.is_divisor_zero)
           f4 == f3 \o cond
           f5 == f4 \o RemainderLess(s.kind, c)
           f == f5 \o one
           g == RInsn(r, s.kind, c.dividend, c.divisor, rd)
<1>1. RowFor(r, s) BY RowOfStep DEF DivRow
<1>2. d = Compute(s.kind, a, b) BY DEF IsR
<1>3. LimbsOf(c.dividend, a) /\ LimbsOf(c.divisor, b)
  BY DEF DivRow, AssignRow, ValueUnchecked, LimbsOf
<1>4. LimbsOf(rd, d)
  <2>1. CASE s.kind = "DIV"
    BY <1>2, <2>1 DEF DivRow, AssignRow, ValueNew, LimbsOf, SignedDiv
  <2>2. CASE s.kind = "DIVU"
    BY <1>2, <2>2 DEF DivRow, AssignRow, ValueNew, LimbsOf, SignedDiv
  <2>3. CASE s.kind = "REM"
    BY <1>2, <2>3 DEF DivRow, AssignRow, ValueNew, LimbsOf, SignedDiv
  <2>4. CASE s.kind = "REMU"
    BY <1>2, <2>4 DEF DivRow, AssignRow, ValueNew, LimbsOf, SignedDiv
  <2> QED BY <2>1, <2>2, <2>3, <2>4
<1>5. DivCircuit(s.kind, r) = f \o g BY DEF DivCircuit
<1> HIDE DEF r, c, rd
<1>6. Silent(DivEquation(s.kind, c)) BY SilentDivEquation
<1>7. Silent(f2)
  <2>1. Silent(f1) BY SilentUInt, SilentJoin
  <2> HIDE DEF f1
  <2> QED BY <1>6, <2>1, SilentJoin
<1>8. Silent(f4)
  <2> HIDE DEF f2
  <2>1. Silent(f3) BY <1>7, SilentIsZero, SilentJoin
  <2>2. Silent(cond) BY SilentCondition
  <2> HIDE DEF f3, cond
  <2> QED BY <2>1, <2>2, SilentJoin
<1>9. Silent(f)
  <2> HIDE DEF f4
  <2>1. Silent(RemainderLess(s.kind, c)) BY SilentIsLt DEF RemainderLess
  <2>2. Silent(f5) BY <1>8, <2>1, SilentJoin
  <2>3. Silent(one) BY SilentEqual
  <2> HIDE DEF f5, one
  <2> QED BY <2>2, <2>3, SilentJoin
<1>10. Matches(g, s) BY <1>1, <1>3, <1>4, FrameR DEF Matches
<1> HIDE DEF f, g
<1> QED BY <1>5, <1>9, <1>10, SilentMatches DEF r

LEMMA ShiftMatches ==
    ASSUME NEW s, IsR(s), s.kind \in ShiftKinds
    PROVE  Matches(ShiftCircuit(s.kind, ShiftRow(s)), s)
<1> DEFINE a == s.op["rs1"].after  b == s.op["rs2"].after  d == s.op["rd"].after
           r == ShiftRow(s)  c == r.cells
           arithmetic == s.kind = "SRA"
           inflow == IF arithmetic THEN c.is_neg.msb * (c.pow2_rs2_low5.value - 1) ELSE 0
           sign == IF arithmetic THEN IsNegative(c.rs1_read, c.is_neg) ELSE Nothing
           equation == ShiftEquation(s.kind = "SLL", c.rs1_read, c.pow2_rs2_low5.value, c.outflow.value,
                                     inflow, c.rd_written)
           low == ValueOf(c.rs2_high) * WordBits + c.rs2_low5.value
           f1 == UInt(c.rd_written) \o UInt(c.rs2_high)
           f2 == f1 \o AssertLt(c.outflow.value, c.pow2_rs2_low5.value, c.lt)
           f3 == f2 \o sign
           f4 == f3 \o equation
           f5 == f4 \o Lookup(<<"Pow", c.rs2_low5.value, c.pow2_rs2_low5.value>>)
           f6 == f5 \o AssertUx(ShiftBits, c.rs2_low5.value)
           f == f6 \o RequireEqual(ValueOf(c.rs2_read), low)
           g == RInsn(r, s.kind, c.rs1_read, c.rs2_read, c.rd_written)
<1>1. RowFor(r, s) BY RowOfStep DEF ShiftRow
<1>2. LimbsOf(c.rs1_read, a) /\ LimbsOf(c.rs2_read, b) /\ LimbsOf(c.rd_written, d)
  BY DEF ShiftRow, AssignRow, ValueUnchecked, ValueNew, LimbsOf
<1>3. ShiftCircuit(s.kind, r) = f \o g BY DEF ShiftCircuit
<1> HIDE DEF r, c
<1>4. Silent(f2)
  <2>1. Silent(f1) BY SilentUInt, SilentJoin
  <2> HIDE DEF f1
  <2> QED BY <2>1, SilentAssertLt, SilentJoin
<1>5. Silent(f4)
  <2>1. Silent(sign) /\ Silent(equation) BY SilentNegative, AskNothing, SilentShift
  <2> HIDE DEF f2, sign, equation
  <2>2. Silent(f3) BY <1>4, <2>1, SilentJoin
  <2> HIDE DEF f3
  <2> QED BY <2>1, <2>2, SilentJoin
<1>6. Silent(f)
  <2> HIDE DEF f4, low
  <2>1. Silent(f5) BY <1>5, AskLookup, SilentJoin
  <2> HIDE DEF f5
  <2>2. Silent(f6) BY <2>1, SilentUx, SilentJoin
  <2> HIDE DEF f6
  <2> QED BY <2>2, SilentEqual, SilentJoin
<1>7. Matches(g, s) BY <1>1, <1>2, FrameR DEF Matches
<1> HIDE DEF f, g
<1> QED BY <1>3, <1>6, <1>7, SilentMatches DEF r

\* What the steps on an immediate have in common.
LEMMA ImmediateStep ==
    ASSUME NEW s, IsI(s), NEW r, RowFor(r, s)
    PROVE  /\ DOMAIN s.op = {"rs1", "rd"} /\ ReadsWord(s, "rs1") /\ s.insn.kind = s.kind
           /\ Field(r.pc + PC_STEP_SIZE) = s.next
<1>1. DOMAIN s.op = {"rs1", "rd"} /\ ReadsWord(s, "rs1") /\ s.insn.kind = s.kind /\ s.pc \in Pcs /\ NextInsn(s)
  BY DEF IsI, Completes
<1>2. Field(r.pc + PC_STEP_SIZE) = s.next BY <1>1, NextIsField DEF RowFor
<1> QED BY <1>1, <1>2

LEMMA ShiftImmMatches ==
    ASSUME NEW s, IsI(s), s.kind \in ShiftImmKinds
    PROVE  Matches(ShiftImmCircuit(s.kind, ShiftImmRow(s)), s)
<1> DEFINE a == s.op["rs1"].after  d == s.op["rd"].after
           r == ShiftImmRow(s)  c == r.cells
           next == r.pc + PC_STEP_SIZE
           arithmetic == s.kind = "SRAI"
           inflow == IF arithmetic THEN c.is_neg.msb * (c.imm.value - 1) ELSE 0
           sign == IF arithmetic THEN IsNegative(c.rs1_read, c.is_neg) ELSE Nothing
           equation == ShiftEquation(s.kind = "SLLI", c.rs1_read, c.imm.value, c.outflow.value, inflow, c.rd_written)
           f1 == UInt(c.rd_written) \o AssertLt(c.outflow.value, c.imm.value, c.lt)
           f2 == f1 \o sign
           f == f2 \o equation
           g == IInsn(r, s.kind, c.imm.value, c.rs1_read, c.rd_written, next)
<1>1. RowFor(r, s) BY RowOfStep DEF ShiftImmRow
<1>2. LimbsOf(c.rs1_read, a) /\ LimbsOf(c.rd_written, d)
  BY DEF ShiftImmRow, AssignRow, ValueUnchecked, ValueNew, LimbsOf
<1>3. ShiftImmCircuit(s.kind, r) = f \o g BY DEF ShiftImmCircuit
<1> HIDE DEF r, c
<1>4. Silent(f)
  <2>1. Silent(f1) BY SilentUInt, SilentAssertLt, SilentJoin
  <2>2. Silent(sign) /\ Silent(equation) BY SilentNegative, AskNothing, SilentShift
  <2> HIDE DEF f1, sign, equation
  <2>3. Silent(f2) BY <2>1, <2>2, SilentJoin
  <2> HIDE DEF f2
  <2> QED BY <2>2, <2>3, SilentJoin
<1>5. Matches(g, s) BY <1>1, <1>2, ImmediateStep, FrameI DEF Matches
<1> HIDE DEF f, g
<1> QED BY <1>3, <1>4, <1>5, SilentMatches DEF r

\* A flag is the word 0 or 1.
LEMMA FlagLimbs == ASSUME NEW b PROVE LimbsOf(Flag(IF b THEN 1 ELSE 0), BoolWord(b))
<1> DEFINE x == IF b THEN 1 ELSE 0
<1>1. LimbRange \in Nat /\ LimbRange >= 4 /\ x \in 0 .. 1 BY Sizes
<1> HIDE DEF x
<1>2. x % LimbRange = x /\ x \div LimbRange = 0 /\ 0 % LimbRange = 0
  <2>1. (0 * LimbRange + x) \div LimbRange = 0 /\ (0 * LimbRange + x) % LimbRange = x
    BY <1>1, DivisionUnique
  <2> QED BY <1>1, <2>1
<1>3. Digits(x, LimbBits, 2) = <<x, 0>>
  <2>1. x \in Int BY <1>1
  <2>2. Digits(x, LimbBits, 2) = <<x % LimbRange, (x \div LimbRange) % LimbRange>> BY <2>1, DigitsAre
  <2> QED BY <1>2, <2>2
<1>4. Flag(x).limb = <<x, 0>> BY DEF Flag
<1> QED BY <1>3, <1>4 DEF LimbsOf, BoolWord, x

\* The comparison assign_instance writes down.
LEMMA AssignedLess ==
    ASSUME NEW x \in Int, NEW y \in Int
    PROVE  AssignLt(x, y).is_lt = IF x < y THEN 1 ELSE 0
  BY DEF AssignLt

LEMMA SignedIsInt == ASSUME NEW v \in Words PROVE v \in Int /\ SignedOf(v) \in Int
  BY Sizes DEF SignedOf

LEMMA SltMatches ==
    ASSUME NEW s, IsR(s), s.kind \in SltKinds
    PROVE  Matches(SltCircuit(s.kind, SltRow(s)), s)
<1> DEFINE a == s.op["rs1"].after  b == s.op["rs2"].after  d == s.op["rd"].after
           r == SltRow(s)  c == r.cells
           less == IF s.kind = "SLT" THEN SignedOf(a) < SignedOf(b) ELSE a < b
           rd == Flag(IF s.kind = "SLT" THEN c.deps.lt.is_lt ELSE c.deps.is_lt)
           f == IF s.kind = "SLT" THEN SignedLt(c.rs1_read, c.rs2_read, c.deps)
                ELSE IsLt(ValueOf(c.rs1_read), ValueOf(c.rs2_read), c.deps)
           g == RInsn(r, s.kind, c.rs1_read, c.rs2_read, rd)
<1>1. a \in Words /\ b \in Words /\ d = Compute(s.kind, a, b) BY DEF IsR, ReadsWord
<1>2. RowFor(r, s) BY RowOfStep DEF SltRow
<1>3. LimbsOf(c.rs1_read, a) /\ LimbsOf(c.rs2_read, b)
  BY DEF SltRow, AssignRow, ValueUnchecked, LimbsOf
<1>4. c.deps = IF s.kind = "SLT" THEN AssignSignedLt(a, b) ELSE AssignLt(a, b) BY DEF SltRow, AssignRow
<1>5. d = BoolWord(less) BY <1>1 DEF Compute
<1>6. rd = Flag(IF less THEN 1 ELSE 0)
  <2>1. CASE s.kind = "SLT"
    <3>1. c.deps.lt = AssignLt(SignedOf(a), SignedOf(b)) BY <1>4, <2>1 DEF AssignSignedLt
    <3>2. c.deps.lt.is_lt = IF less THEN 1 ELSE 0 BY <1>1, <2>1, <3>1, SignedIsInt, AssignedLess
    <3> QED BY <2>1, <3>2
  <2>2. CASE s.kind # "SLT"
    <3>1. c.deps.is_lt = IF less THEN 1 ELSE 0 BY <1>1, <1>4, <2>2, SignedIsInt, AssignedLess
    <3> QED BY <2>2, <3>1
  <2> QED BY <2>1, <2>2
<1>7. SltCircuit(s.kind, r) = f \o g BY DEF SltCircuit
<1> HIDE DEF r, c, rd, less
<1>8. LimbsOf(rd, d) BY <1>5, <1>6, FlagLimbs
<1>9. Silent(f) BY SilentSignedLt, SilentIsLt
<1>10. Matches(g, s) BY <1>2, <1>3, <1>8, FrameR DEF Matches
<1> HIDE DEF f, g
<1> QED BY <1>7, <1>9, <1>10, SilentMatches DEF r

\* An immediate is its word, read as a signed number.
LEMMA SignedImm == ASSUME NEW imm \in Imms PROVE SignedOf(Wrapped(imm)) = imm
<1> DEFINE W == WordRange
<1>1. imm \in Int /\ 2 * imm >= -W /\ 2 * imm < W BY ImmRange
<1>2. W \in Nat /\ W > 0 /\ 2 * (W \div 2) = W
  <2>1. LimbRange \in Nat /\ LimbRange >= 4 /\ LimbRange % 2 = 0 /\ W = LimbRange * LimbRange BY Sizes, PowerAssumption
  <2> DEFINE h == LimbRange \div 2
  <2>2. h \in Nat /\ LimbRange = 2 * h BY <2>1
  <2>3. W = 2 * (h * LimbRange) /\ h * LimbRange \in Nat BY <2>1, <2>2
  <2>4. W > 0 BY <2>1
  <2> QED BY <2>3, <2>4
<1> HIDE DEF W
<1>3. CASE imm >= 0
  <2>1. imm % W = imm /\ ~(imm >= W \div 2) BY <1>1, <1>2, <1>3
  <2> QED BY <2>1 DEF SignedOf, Wrapped, W
<1>4. CASE imm < 0
  <2>1. (-1 * W + (imm + W)) % W = imm + W BY <1>1, <1>2, <1>4, DivisionUnique
  <2>2. imm = -1 * W + (imm + W) BY <1>1, <1>2
  <2>3. imm % W = imm + W /\ imm + W >= W \div 2 BY <1>1, <1>2, <2>1, <2>2
  <2>4. (imm + W) - W = imm BY <1>1, <1>2
  <2> QED BY <2>3, <2>4 DEF SignedOf, Wrapped, W
<1> QED BY <1>1, <1>3, <1>4

LEMMA SltImmMatches ==
    ASSUME NEW s, IsI(s), s.kind \in SltImmKinds
    PROVE  Matches(SltImmCircuit(s.kind, SltImmRow(s)), s)
<1> DEFINE a == s.op["rs1"].after  d == s.op["rd"].after  w == Wrapped(s.insn.imm)
           r == SltImmRow(s)  c == r.cells
           less == IF s.kind = "SLTI" THEN SignedOf(a) < s.insn.imm ELSE a < w
           rd == Flag(c.lt.is_lt)
           next == r.pc + PC_STEP_SIZE
           value == IF s.kind = "SLTI" THEN ToField(c.rs1_read, c.is_rs1_neg) ELSE ValueOf(c.rs1_read)
           sign == IF s.kind = "SLTI" THEN IsNegative(c.rs1_read, c.is_rs1_neg) ELSE Nothing
           f == sign \o IsLt(value, c.imm.value, c.lt)
           g == IInsn(r, s.kind, c.imm.value, c.rs1_read, rd, next)
<1>1. /\ a \in Words /\ s.insn.imm \in Imms /\ d = Compute(s.kind, a, w) /\ s.insn.kind = s.kind
  BY DEF IsI, ReadsWord, Completes
<1>2. RowFor(r, s) BY RowOfStep DEF SltImmRow
<1>3. LimbsOf(c.rs1_read, a) BY DEF SltImmRow, AssignRow, ValueUnchecked, LimbsOf
<1>4. s.insn.imm \in Int /\ w \in Int /\ SignedOf(w) = s.insn.imm
  BY <1>1, ImmRange, SignedImm, Sizes DEF Wrapped
<1>5. ImmInternal(s.insn) = IF s.kind = "SLTI" THEN s.insn.imm ELSE w BY <1>1 DEF ImmInternal
<1>6. c.lt = IF s.kind = "SLTI" THEN AssignLt(SignedOf(a), s.insn.imm) ELSE AssignLt(a, w)
  BY <1>5 DEF SltImmRow, AssignRow
<1>7. d = BoolWord(less) BY <1>1, <1>4 DEF Compute
<1>8. rd = Flag(IF less THEN 1 ELSE 0) BY <1>1, <1>4, <1>6, SignedIsInt, AssignedLess
<1>9. SltImmCircuit(s.kind, r) = f \o g BY DEF SltImmCircuit
<1> HIDE DEF r, c, rd, less, value
<1>10. LimbsOf(rd, d) BY <1>7, <1>8, FlagLimbs
<1>11. Silent(f)
  <2>1. Silent(sign) BY SilentNegative, AskNothing
  <2> HIDE DEF sign
  <2> QED BY <2>1, SilentIsLt, SilentJoin
<1>12. Matches(g, s) BY <1>2, <1>3, <1>10, ImmediateStep, FrameI DEF Matches
<1> HIDE DEF f, g
<1> QED BY <1>9, <1>11, <1>12, SilentMatches DEF r

LEMMA BranchMatches ==
    ASSUME NEW s, IsBranch(s)
    PROVE  Matches(BranchCircuit(s.kind, BranchRow(s)), s)
<1> DEFINE r == BranchRow(s)  c == r.cells
           holds == CASE s.kind \in {"BEQ", "BNE"}   -> c.compare.is_zero
                      [] s.kind \in {"BLT", "BGE"}   -> c.compare.lt.is_lt
                      [] s.kind \in {"BLTU", "BGEU"} -> c.compare.is_lt
           taken == IF s.kind \in {"BNE", "BGE", "BGEU"} THEN 1 - holds ELSE holds
           f == CASE s.kind \in {"BEQ", "BNE"}   -> IsZero(ValueOf(c.rs2_read) - ValueOf(c.rs1_read), c.compare)
                  [] s.kind \in {"BLT", "BGE"}   -> SignedLt(c.rs1_read, c.rs2_read, c.compare)
                  [] s.kind \in {"BLTU", "BGEU"} -> IsLt(ValueOf(c.rs1_read), ValueOf(c.rs2_read), c.compare)
           g == BInsn(r, s.kind, c.imm.value, c.rs1_read, c.rs2_read, taken)
<1>1. s.kind \in BranchKinds BY DEF IsBranch, Completes
<1>2. RowFor(r, s) BY RowOfStep DEF BranchRow
<1>3. LimbsOf(c.rs1_read, s.op["rs1"].after) /\ LimbsOf(c.rs2_read, s.op["rs2"].after)
  BY DEF BranchRow, AssignRow, ValueUnchecked, LimbsOf
<1>4. BranchCircuit(s.kind, r) = f \o g BY DEF BranchCircuit
<1> HIDE DEF r, c, taken
<1>5. Silent(f) BY <1>1, SilentIsZero, SilentSignedLt, SilentIsLt
<1>6. Matches(g, s) BY <1>2, <1>3, FrameB DEF Matches
<1> HIDE DEF f, g
<1> QED BY <1>4, <1>5, <1>6, SilentMatches DEF r

LEMMA JalMatches ==
    ASSUME NEW s, IsJal(s)
    PROVE  Matches(JalCircuit(s.kind, JalRow(s)), s)
<1> DEFINE r == JalRow(s)  rd == r.cells.rd_written
           g == JInsn(r, s.kind, rd)
           h == RequireEqual(ValueOf(rd), r.pc + PC_STEP_SIZE)
<1>1. RowFor(r, s) BY RowOfStep DEF JalRow
<1>2. LimbsOf(rd, s.op["rd"].after) BY DEF JalRow, AssignRow, ValueNew, LimbsOf
<1>3. JalCircuit(s.kind, r) = (UInt(rd) \o g) \o h BY DEF JalCircuit
<1> HIDE DEF r, rd
<1>4. Matches(g, s) BY <1>1, <1>2, FrameJ DEF Matches
<1>5. Silent(UInt(rd)) /\ Silent(h) BY SilentUInt, SilentEqual
<1> HIDE DEF g, h
<1>6. Matches(UInt(rd) \o g, s) BY <1>4, <1>5, SilentMatches
<1> QED BY <1>3, <1>5, <1>6, SilentMatches DEF r

LEMMA JalrMatches ==
    ASSUME NEW s, IsJalr(s)
    PROVE  Matches(JalrCircuit(s.kind, JalrRow(s)), s)
<1> DEFINE r == JalrRow(s)  c == r.cells
           g == IInsn(r, s.kind, c.imm.value, c.rs1_read, c.rd_written, r.next)
           h1 == MemAddr(c.next_pc_addr, 0)
           h2 == RequireEqual(ValueOf(c.rs1_read) + c.imm.value, ValueOf(c.next_pc_addr))
           h3 == RequireEqual(Align2(c.next_pc_addr, 0), r.next)
           h4 == RequireEqual(ValueOf(c.rd_written), r.pc + PC_STEP_SIZE)
<1>1. RowFor(r, s) BY RowOfStep DEF JalrRow
<1>2. LimbsOf(c.rs1_read, s.op["rs1"].after) /\ LimbsOf(c.rd_written, s.op["rd"].after)
  BY DEF JalrRow, AssignRow, ValueUnchecked, ValueNew, LimbsOf
<1>3. JalrCircuit(s.kind, r) = ((((UInt(c.rd_written) \o g) \o h1) \o h2) \o h3) \o h4 BY DEF JalrCircuit
<1> HIDE DEF r, c
<1>4. DOMAIN s.op = {"rs1", "rd"} /\ ReadsWord(s, "rs1") /\ s.next \in Words
  BY DEF IsJalr, Completes
<1>5. Field(r.next) = s.next BY <1>1, <1>4, WordIsField DEF RowFor
<1>6. Matches(g, s) BY <1>1, <1>2, <1>4, <1>5, FrameI DEF Matches
<1>7. Silent(UInt(c.rd_written)) /\ Silent(h1) /\ Silent(h2) /\ Silent(h3) /\ Silent(h4)
  BY SilentUInt, SilentMemAddr, SilentEqual
<1> DEFINE m0 == UInt(c.rd_written) \o g
<1>8. Matches(m0, s)
  <2> HIDE DEF g
  <2> QED BY <1>6, <1>7, SilentMatches
<1> HIDE DEF g, h1, h2, h3, h4, m0
<1>9. Matches(m0 \o h1, s) BY <1>7, <1>8, SilentMatches
<1>10. Matches((m0 \o h1) \o h2, s) BY <1>7, <1>9, SilentMatches
<1>11. Matches(((m0 \o h1) \o h2) \o h3, s) BY <1>7, <1>10, SilentMatches
<1>12. Matches((((m0 \o h1) \o h2) \o h3) \o h4, s) BY <1>7, <1>11, SilentMatches
<1> QED BY <1>3, <1>12 DEF r, m0

LEMMA HaltMatches ==
    ASSUME NEW s, IsHalt(s)
    PROVE  Matches(HaltCircuit(s.kind, HaltRow(s)), s)
<1> DEFINE r == HaltRow(s)  exit == r.cells.exit_code.limb
           id == ValueUnchecked(HaltCode)
           f == EcallInsn(r, id, EXIT_PC)
           g == Access(r, "rs2", "reg", RegArg0, exit, exit)
           q1 == Took(r, "rs1", "reg", RegEcall, id.limb)  w1 == Left(r, "rs1", "reg", RegEcall, id.limb)
           q2 == Took(r, "rs2", "reg", RegArg0, exit)      w2 == Left(r, "rs2", "reg", RegArg0, exit)
<1>1. RowFor(r, s) BY RowOfStep DEF HaltRow
<1>2. exit = Digits(s.op["rs2"].after, LimbBits, 2) BY DEF HaltRow, AssignRow, ValueUnchecked
<1>3. HaltCircuit(s.kind, r) = f \o g BY DEF HaltCircuit
<1> HIDE DEF r, exit
<1>4. /\ DOMAIN s.op = {"rs1", "rs2"} /\ s.next = EXIT_PC
      /\ s.op["rs1"].id = RegEcall /\ s.op["rs1"].after = HaltCode /\ s.op["rs1"].before = HaltCode
      /\ s.op["rs2"].id = RegArg0 /\ s.op["rs2"].before = s.op["rs2"].after
  BY DEF IsHalt, Completes, CallsWith, ReadsWord
<1>5. {"rs1", "rs2"} \cap MemoryOps = {} BY DEF MemoryOps
<1>6. id.limb = Digits(HaltCode, LimbBits, 2) BY DEF ValueUnchecked
<1> HIDE DEF id
<1>7. q1 = StepTook(s, "rs1") /\ w1 = StepLeft(s, "rs1") /\ q2 = StepTook(s, "rs2") /\ w2 = StepLeft(s, "rs2")
  BY <1>1, <1>2, <1>4, <1>5, <1>6 DEF RowFor, Took, Left, StepTook, StepLeft
<1>8. /\ StateRead(r) = <<"state", s.pc, Cycle>>
      /\ StateWrite(r, EXIT_PC) = <<"state", s.next, Cycle + SUBCYCLES_PER_INSN>>
  <2>1. 0 \in Words BY Sizes
  <2>2. Field(EXIT_PC) = EXIT_PC BY <2>1, WordIsField DEF EXIT_PC
  <2> QED BY <1>1, <1>4, <2>2, RowRecords
<1>9. RecordsRead(s) = {StateRead(r), q1, q2} /\ RecordsWritten(s) = {StateWrite(r, EXIT_PC), w1, w2}
  BY <1>4, <1>7, <1>8, RecordsOfTwo
<1>10. Says(f, {StateRead(r), q1}, {StateWrite(r, EXIT_PC), w1}) BY EcallInsnAsks
<1>11. Says(g, {q2}, {w2}) BY AccessAsks
<1> HIDE DEF f, g, q1, q2, w1, w2
<1>12. Says(f \o g, {StateRead(r), q1, q2}, {StateWrite(r, EXIT_PC), w1, w2}) BY <1>10, <1>11, JoinThree
<1> QED BY <1>3, <1>9, <1>12 DEF Matches, r

LEMMA JoinFive ==
    ASSUME NEW f, NEW g, NEW q1, NEW w1, NEW q2, NEW w2, NEW q3, NEW w3, NEW q4, NEW w4, NEW q5, NEW w5,
           Says(f, {q1, q2, q3, q4}, {w1, w2, w3, w4}), Says(g, {q5}, {w5})
    PROVE  Says(f \o g, {q1, q2, q3, q4, q5}, {w1, w2, w3, w4, w5})
<1>1. Says(f \o g, {q1, q2, q3, q4} \union {q5}, {w1, w2, w3, w4} \union {w5}) BY JoinOne
<1>2. /\ {q1, q2, q3, q4} \union {q5} = {q1, q2, q3, q4, q5}
      /\ {w1, w2, w3, w4} \union {w5} = {w1, w2, w3, w4, w5}
  OBVIOUS
<1> QED BY <1>1, <1>2

LEMMA JoinSix ==
    ASSUME NEW f, NEW g, NEW q1, NEW w1, NEW q2, NEW w2, NEW q3, NEW w3, NEW q4, NEW w4, NEW q5, NEW w5,
           NEW q6, NEW w6, Says(f, {q1, q2, q3, q4, q5}, {w1, w2, w3, w4, w5}), Says(g, {q6}, {w6})
    PROVE  Says(f \o g, {q1, q2, q3, q4, q5, q6}, {w1, w2, w3, w4, w5, w6})
<1>1. Says(f \o g, {q1, q2, q3, q4, q5} \union {q6}, {w1, w2, w3, w4, w5} \union {w6}) BY JoinOne
<1>2. /\ {q1, q2, q3, q4, q5} \union {q6} = {q1, q2, q3, q4, q5, q6}
      /\ {w1, w2, w3, w4, w5} \union {w6} = {w1, w2, w3, w4, w5, w6}
  OBVIOUS
<1> QED BY <1>1, <1>2

\* A row assigned to another circuit has the same frame and cells.
Elsewhere(s, cells, circuit) == [AssignRow(s, cells) EXCEPT !.circuit = circuit]
LEMMA RowElsewhere ==
    ASSUME NEW s, NEW cells, NEW circuit, NEW r, r = Elsewhere(s, cells, circuit)
    PROVE  RowFor(r, s) /\ r.circuit = circuit /\ r.cells = cells
<1> DEFINE t == AssignRow(s, cells)
<1>1. /\ r.pc = t.pc /\ r.ts = t.ts /\ r.next = t.next /\ r.access = t.access /\ r.cells = t.cells
      /\ r.circuit = circuit /\ t.cells = cells
  BY DEF AssignRow, Elsewhere
<1>2. RowFor(t, s) BY RowOfStep
<1> HIDE DEF t
<1> QED BY <1>1, <1>2 DEF RowFor

LEMMA LargeEcallMatches ==
    ASSUME NEW s, IsSyscall(s)
    PROVE  Matches(LargeEcallCircuit(LargeEcallRow(s)), s)
<1> DEFINE r == LargeEcallRow(s)  c == r.cells
           word(o) == [addr |-> 4 * s.op[o].id, before |-> s.op[o].before, after |-> s.op[o].after, lk |-> <<>>]
           cells == [rs1_read |-> ValueUnchecked(s.op.rs1.after), imm |-> Cell(ImmInternal(s.insn)),
                     start_addr |-> Cell(4 * s.op.mem1.id),
                     reg1 |-> ValueUnchecked(s.op.reg1.after), reg2 |-> ValueUnchecked(s.op.reg2.after),
                     mem1 |-> word("mem1"), mem2 |-> word("mem2")]
           RegWrite(o) == Access(r, o, "reg", Id(r, o), r.access[o].prev_value.limb, c[o].limb)
           MemWrite(o) == Access(r, o, "mem", c[o].addr, c[o].before, c[o].after)
           qr(o) == Took(r, o, "reg", Id(r, o), r.access[o].prev_value.limb)
           wr(o) == Left(r, o, "reg", Id(r, o), c[o].limb)
           qm(o) == Took(r, o, "mem", c[o].addr, c[o].before)
           wm(o) == Left(r, o, "mem", c[o].addr, c[o].after)
           q1 == StateRead(r)                     w1 == StateWrite(r, r.pc + PC_STEP_SIZE)
           q2 == TookReg(r, "rs1", c.rs1_read.limb) w2 == LeftReg(r, "rs1", c.rs1_read.limb)
<1>1. RowFor(r, s) /\ c = cells
  <2>1. r = Elsewhere(s, cells, "LARGE") BY DEF LargeEcallRow, Elsewhere
  <2> HIDE DEF cells, r
  <2> QED BY <2>1, RowElsewhere
<1>2. /\ c.rs1_read.limb = Digits(s.op["rs1"].after, LimbBits, 2)
      /\ \A o \in {"reg1", "reg2"} : c[o].limb = Digits(s.op[o].after, LimbBits, 2)
      /\ \A o \in {"mem1", "mem2"} :
           c[o].addr = 4 * s.op[o].id /\ c[o].before = s.op[o].before /\ c[o].after = s.op[o].after
  BY <1>1 DEF ValueUnchecked
<1>3. /\ DOMAIN s.op = {"rs1", "reg1", "reg2", "mem1", "mem2"} /\ s.pc \in Pcs /\ NextInsn(s)
      /\ s.op["rs1"].before = s.op["rs1"].after
  BY DEF IsSyscall, Completes, CallsWith, ReadsWord
<1>4. LargeEcallCircuit(r) =
        ((((((StateInOut(r) \o RegisterRead(r, "rs1", c.rs1_read)) \o LkFetch(r, "ECALL", RD_NULL, 0, 0, c.imm.value))
           \o RegWrite("reg1")) \o RegWrite("reg2")) \o MemWrite("mem1")) \o MemWrite("mem2"))
  BY DEF LargeEcallCircuit
<1> HIDE DEF r, c, cells
<1>5. /\ \A o \in {"reg1", "reg2"} : qr(o) = StepTook(s, o) /\ wr(o) = StepLeft(s, o)
      /\ \A o \in {"mem1", "mem2"} : qm(o) = StepTook(s, o) /\ wm(o) = StepLeft(s, o)
  <2>1. {"reg1", "reg2"} \cap MemoryOps = {} /\ {"mem1", "mem2"} \subseteq MemoryOps BY DEF MemoryOps
  <2>2. ASSUME NEW o \in {"reg1", "reg2"} PROVE qr(o) = StepTook(s, o) /\ wr(o) = StepLeft(s, o)
    BY <1>1, <1>2, <1>3, <2>1 DEF RowFor, Took, Left, StepTook, StepLeft, Id
  <2>3. ASSUME NEW o \in {"mem1", "mem2"} PROVE qm(o) = StepTook(s, o) /\ wm(o) = StepLeft(s, o)
    BY <1>1, <1>2, <1>3, <2>1 DEF RowFor, Took, Left, StepTook, StepLeft
  <2> QED BY <2>2, <2>3
<1>6. q2 = StepTook(s, "rs1") /\ w2 = StepLeft(s, "rs1")
  <2>1. "rs1" \in DOMAIN s.op \ MemoryOps BY <1>3 DEF MemoryOps
  <2> QED BY <1>1, <1>2, <1>3, <2>1, RowRecords
<1>7. q1 = <<"state", s.pc, Cycle>> /\ w1 = <<"state", s.next, Cycle + SUBCYCLES_PER_INSN>>
  BY <1>1, <1>3, RowRecords, NextIsField DEF RowFor
<1>8. /\ RecordsRead(s) = {q1, q2, qr("reg1"), qr("reg2"), qm("mem1"), qm("mem2")}
      /\ RecordsWritten(s) = {w1, w2, wr("reg1"), wr("reg2"), wm("mem1"), wm("mem2")}
  <2> HIDE DEF qr, wr, qm, wm, q1, q2, w1, w2
  <2> QED BY <1>3, <1>5, <1>6, <1>7, RecordsOfFive
<1>9. \A o : Says(RegWrite(o), {qr(o)}, {wr(o)}) /\ Says(MemWrite(o), {qm(o)}, {wm(o)}) BY AccessAsks
<1>10. Says(StateInOut(r), {q1}, {w1}) /\ Says(RegisterRead(r, "rs1", c.rs1_read), {q2}, {w2})
  BY StateAsks, RegisterReadAsks DEF StateInOut
<1> HIDE DEF qr, wr, qm, wm, q1, q2, w1, w2, RegWrite, MemWrite
<1> DEFINE f2 == StateInOut(r) \o RegisterRead(r, "rs1", c.rs1_read)
           f3 == f2 \o LkFetch(r, "ECALL", RD_NULL, 0, 0, c.imm.value)
           f4 == f3 \o RegWrite("reg1")
           f5 == f4 \o RegWrite("reg2")
           f6 == f5 \o MemWrite("mem1")
<1>11. Says(f2, {q1, q2}, {w1, w2}) BY <1>10, JoinTwo
<1>12. Says(f3, {q1, q2}, {w1, w2})
  <2> HIDE DEF f2
  <2> QED BY <1>11, FetchSilent, SilentJoin
<1> HIDE DEF f3
<1>13. Says(f4, {q1, q2, qr("reg1")}, {w1, w2, wr("reg1")}) BY <1>9, <1>12, JoinThree
<1> HIDE DEF f4
<1>14. Says(f5, {q1, q2, qr("reg1"), qr("reg2")}, {w1, w2, wr("reg1"), wr("reg2")}) BY <1>9, <1>13, JoinFour
<1> HIDE DEF f5
<1>15. Says(f6, {q1, q2, qr("reg1"), qr("reg2"), qm("mem1")}, {w1, w2, wr("reg1"), wr("reg2"), wm("mem1")})
  BY <1>9, <1>14, JoinFive
<1> HIDE DEF f6
<1>16. Says(f6 \o MemWrite("mem2"), {q1, q2, qr("reg1"), qr("reg2"), qm("mem1"), qm("mem2")},
            {w1, w2, wr("reg1"), wr("reg2"), wm("mem1"), wm("mem2")})
  BY <1>9, <1>15, JoinSix
<1>17. LargeEcallCircuit(r) = f6 \o MemWrite("mem2") BY <1>4 DEF f6, f5, f4, f3
<1> QED BY <1>8, <1>16, <1>17 DEF Matches, r

-----------------------------------------------------------------------------
(***************************************************************************)
(* The bytes of a word.                                                    *)
(***************************************************************************)
ByteWords == 0 .. ByteRange - 1

LEMMA Bits ==
    /\ ByteBits \in Nat /\ ByteBits >= 1 /\ WordBits = 4 * ByteBits /\ LimbBits = 2 * ByteBits
    /\ ByteRange \in Nat /\ ByteRange >= 2 /\ LimbRange = ByteRange * ByteRange
<1>1. WordBits \in Nat /\ WordBits % 4 = 0 /\ WordBits >= 4 BY WidthAssumption
<1>2. WordBits \div 4 \in Nat /\ WordBits \div 4 >= 1 /\ WordBits = 4 * (WordBits \div 4) BY <1>1
<1>3. WordBits \div 2 = 2 * (WordBits \div 4) BY <1>1, <1>2
<1> QED BY <1>2, <1>3, ByteAssumption DEF ByteBits, LimbBits

\* The powers of two an offset or a width selects.
LEMMA Shifts ==
    /\ 2 ^ (ByteBits * 0) = 1 /\ 2 ^ (ByteBits * 1) = ByteRange
    /\ 2 ^ (ByteBits * 2) = LimbRange /\ 2 ^ (ByteBits * 3) = LimbRange * ByteRange
<1>1. ByteBits \in Nat /\ LimbBits = 2 * ByteBits BY Bits
<1>2. ByteBits * 0 = 0 /\ ByteBits * 1 = ByteBits /\ ByteBits * 2 = LimbBits /\ ByteBits * 3 = 3 * ByteBits
  BY <1>1
<1>3. 2 ^ 0 = 1 OBVIOUS
<1> QED BY <1>2, <1>3, ByteAssumption DEF ByteRange, LimbRange

LEMMA HalfPowers ==
    2 * 2 ^ (LimbBits - 1) = LimbRange /\ 2 * 2 ^ (ByteBits - 1) = ByteRange
    /\ 2 ^ (LimbBits - 1) \in Nat \ {0} /\ 2 ^ (ByteBits - 1) \in Nat \ {0}
<1>1. LimbBits - 1 \in 0 .. WordBits - 1 /\ ByteBits - 1 \in 0 .. WordBits - 1
      /\ (LimbBits - 1) + 1 = LimbBits /\ (ByteBits - 1) + 1 = ByteBits
  BY Bits
<1>2. ASSUME NEW n \in 0 .. WordBits - 1 PROVE 2 ^ n \in Nat \ {0} /\ 2 ^ (n + 1) = 2 * 2 ^ n
  BY BitAssumption
<1>3. 2 ^ (LimbBits - 1) \in Nat \ {0} /\ 2 ^ ((LimbBits - 1) + 1) = 2 * 2 ^ (LimbBits - 1) BY <1>1, <1>2
<1>4. 2 ^ (ByteBits - 1) \in Nat \ {0} /\ 2 ^ ((ByteBits - 1) + 1) = 2 * 2 ^ (ByteBits - 1) BY <1>1, <1>2
<1> QED BY <1>1, <1>3, <1>4 DEF LimbRange, ByteRange

LEMMA Remains ==
    ASSUME NEW d \in Nat, NEW x \in 0 .. d - 1 PROVE x % d = x /\ x \div d = 0
<1>1. (0 * d + x) \div d = 0 /\ (0 * d + x) % d = x BY DivisionUnique
<1>2. 0 * d + x = x OBVIOUS
<1> QED BY <1>1, <1>2

\* A limb is two bytes.
LEMMA BytesOfLimb ==
    ASSUME NEW x \in LimbWords
    PROVE  /\ x % ByteRange \in ByteWords /\ x \div ByteRange \in ByteWords
           /\ x = (x % ByteRange) + (x \div ByteRange) * ByteRange
           /\ (x \div ByteRange) % ByteRange = x \div ByteRange
<1> DEFINE B == ByteRange
<1>1. B \in Nat /\ B >= 2 /\ LimbRange = B * B BY Bits
<1>2. x \in 0 .. B * B - 1 BY <1>1 DEF LimbWords
<1> HIDE DEF B
<1>3. x % B \in 0 .. B - 1 /\ x \div B \in Nat /\ x = (x % B) + (x \div B) * B BY <1>1, <1>2
<1>4. x \div B <= B - 1
  <2> DEFINE h == x \div B
  <2>1. h \in Nat /\ h * B <= x BY <1>1, <1>2, <1>3
  <2> HIDE DEF h
  <2>2. h >= B => h * B >= B * B BY <1>1, <2>1
  <2>3. h * B \in Int /\ B * B \in Int BY <1>1, <2>1
  <2> QED BY <1>1, <1>2, <2>1, <2>2, <2>3 DEF h
<1>5. (x \div B) % B = x \div B
  <2>1. x \div B \in 0 .. B - 1 BY <1>1, <1>3, <1>4
  <2> QED BY <1>1, <2>1, Remains
<1> QED BY <1>1, <1>3, <1>4, <1>5 DEF ByteWords, B

LEMMA ByteDigitsAre ==
    ASSUME NEW x \in LimbWords
    PROVE  Digits(x, ByteBits, 2) = <<x % ByteRange, x \div ByteRange>>
<1> DEFINE pow == [i \in 1 .. 2 |-> 2 ^ (ByteBits * (i - 1))]
<1>1. pow[1] = 1 /\ pow[2] = ByteRange
  <2>1. pow[1] = 2 ^ (ByteBits * (1 - 1)) /\ pow[2] = 2 ^ (ByteBits * (2 - 1)) OBVIOUS
  <2>2. ByteBits \in Nat BY Bits
  <2>3. ByteBits * (1 - 1) = ByteBits * 0 /\ ByteBits * (2 - 1) = ByteBits * 1 BY <2>2
  <2> QED BY <2>1, <2>3, Shifts
<1>2. Digits(x, ByteBits, 2) = [i \in 1 .. 2 |-> (x \div pow[i]) % ByteRange] BY DEF Digits, ByteRange
<1> HIDE DEF pow
<1>3. x \in Int /\ x \div 1 = x BY Sizes DEF LimbWords
<1>4. (x \div ByteRange) % ByteRange = x \div ByteRange BY BytesOfLimb
<1> QED BY <1>1, <1>2, <1>3, <1>4

\* A word is four bytes, two in each limb.
Byte1(v) == (v % LimbRange) % ByteRange
Byte2(v) == (v % LimbRange) \div ByteRange
Byte3(v) == (v \div LimbRange) % ByteRange
Byte4(v) == (v \div LimbRange) \div ByteRange

LEMMA BytesOfWord ==
    ASSUME NEW v \in Words
    PROVE  /\ Byte1(v) \in ByteWords /\ Byte2(v) \in ByteWords /\ Byte3(v) \in ByteWords /\ Byte4(v) \in ByteWords
           /\ v % LimbRange = Byte1(v) + Byte2(v) * ByteRange
           /\ v \div LimbRange = Byte3(v) + Byte4(v) * ByteRange
<1>1. v % LimbRange \in LimbWords /\ v \div LimbRange \in LimbWords BY LimbsOfWord
<1> QED BY <1>1, BytesOfLimb DEF Byte1, Byte2, Byte3, Byte4

\* The digits of a word in bytes: what is left of an offset of 0 to 3 bytes.
LEMMA ShiftedWord ==
    ASSUME NEW v \in Words
    PROVE  /\ (v \div 2 ^ (ByteBits * 0)) % ByteRange = Byte1(v)
           /\ (v \div 2 ^ (ByteBits * 1)) % ByteRange = Byte2(v)
           /\ (v \div 2 ^ (ByteBits * 2)) % ByteRange = Byte3(v)
           /\ (v \div 2 ^ (ByteBits * 3)) % ByteRange = Byte4(v)
<1> DEFINE B == ByteRange  L == LimbRange  b1 == Byte1(v)  b2 == Byte2(v)  b3 == Byte3(v)  b4 == Byte4(v)
           low == v % L  high == v \div L
<1>1. B \in Nat /\ B >= 2 /\ L = B * B BY Bits
<1>2. b1 \in 0 .. B - 1 /\ b2 \in 0 .. B - 1 /\ b3 \in 0 .. B - 1 /\ b4 \in 0 .. B - 1 BY BytesOfWord DEF ByteWords
<1>3. low = b1 + b2 * B /\ high = b3 + b4 * B BY BytesOfWord
<1>4. v = low + high * L BY LimbsOfWord
<1> HIDE DEF B, L, b1, b2, b3, b4, low, high
<1>5. v = (b2 + high * B) * B + b1
  <2>1. high * L = (high * B) * B BY <1>1, <1>2, <1>3
  <2>2. high \in Int /\ high * B \in Int /\ b2 * B \in Int /\ (high * B) * B \in Int BY <1>1, <1>2, <1>3
  <2>3. (b2 + high * B) * B = b2 * B + (high * B) * B BY <1>1, <1>2, <2>2
  <2> HIDE DEF B, L
  <2> QED BY <1>2, <1>3, <1>4, <2>1, <2>2, <2>3
<1>6. high \in Int /\ (b2 + high * B) \in Int /\ b2 * B \in Int /\ low \in Int BY <1>1, <1>2, <1>3
<1>7. v % B = b1 /\ v \div B = b2 + high * B BY <1>1, <1>2, <1>5, <1>6, DivisionUnique
<1>8. (v \div B) % B = b2
  <2>1. (high * B + b2) % B = b2 BY <1>1, <1>2, <1>6, DivisionUnique
  <2>2. high * B + b2 = b2 + high * B BY <1>1, <1>2, <1>6
  <2> QED BY <1>7, <2>1, <2>2
<1>9. high % B = b3 BY DEF b3, high, B, L, Byte3
<1>10. low \in 0 .. L - 1 /\ high = v \div L BY LimbsOfWord DEF LimbWords, low, high, L
<1>11. v \div (L * B) = b4
  <2> DEFINE rest == b3 * L + low
  <2>1. L \in Nat /\ L >= 4 BY Sizes DEF L
  <2>2. v = b4 * (L * B) + rest
    <3>1. high * L = b3 * L + b4 * (L * B)
      <4>1. high * L = (b3 + b4 * B) * L BY <1>3
      <4>2. (b3 + b4 * B) * L = b3 * L + b4 * (L * B) BY <1>1, <1>2, <2>1
      <4> QED BY <4>1, <4>2
    <3>2. b3 * L \in Int /\ b4 * (L * B) \in Int /\ high * L \in Int BY <1>1, <1>2, <1>6, <2>1
    <3> HIDE DEF B, L
    <3> QED BY <1>4, <1>6, <3>1, <3>2
  <2>3. rest \in 0 .. L * B - 1
    <3>1. b3 * L <= (B - 1) * L /\ b3 * L \in Nat BY <1>1, <1>2, <2>1
    <3>2. (B - 1) * L = L * B - L /\ L * B \in Int BY <1>1, <2>1
    <3> QED BY <1>10, <2>1, <3>1, <3>2
  <2>4. L * B \in Nat /\ L * B > 0 BY <1>1, <2>1
  <2> HIDE DEF rest
  <2> QED BY <1>1, <1>2, <2>2, <2>3, <2>4, DivisionUnique
<1>12. b4 % B = b4 BY <1>1, <1>2, Remains
<1>13. v \div 1 = v
  <2>1. v \in Int BY Sizes
  <2> QED BY <2>1
<1> QED BY <1>7, <1>8, <1>9, <1>10, <1>11, <1>12, <1>13, Shifts DEF B, L, b1, b2, b3, b4

-----------------------------------------------------------------------------
(***************************************************************************)
(* Loads and stores: the word the address is in, and what of it is meant.  *)
(***************************************************************************)
MemKinds == LoadKinds \union StoreKinds

LEMMA WidthsAre ==
    /\ WordBits \div ByteBits = 4 /\ LimbBits \div ByteBits = 2 /\ ByteBits \div ByteBits = 1
    /\ 2 ^ WordBits = WordRange /\ 2 ^ LimbBits = LimbRange /\ 2 ^ ByteBits = ByteRange
<1>1. ByteBits \in Nat /\ ByteBits >= 1 /\ WordBits = 4 * ByteBits /\ LimbBits = 2 * ByteBits BY Bits
<1>2. /\ (4 * ByteBits + 0) \div ByteBits = 4 /\ (2 * ByteBits + 0) \div ByteBits = 2
      /\ (1 * ByteBits + 0) \div ByteBits = 1
  BY <1>1, DivisionUnique
<1>3. 4 * ByteBits + 0 = WordBits /\ 2 * ByteBits + 0 = LimbBits /\ 1 * ByteBits + 0 = ByteBits BY <1>1
<1> QED BY <1>2, <1>3 DEF WordRange, LimbRange, ByteRange

LEMMA ValueOfLimbs == ASSUME NEW u, NEW v \in Words, LimbsOf(u, v) PROVE ValueOf(u) = v
<1>1. u.limb = <<v % LimbRange, v \div LimbRange>> BY LimbsOfWord DEF LimbsOf
<1>2. u.limb[1] = v % LimbRange /\ u.limb[2] = v \div LimbRange BY <1>1
<1>3. v = (v % LimbRange) + (v \div LimbRange) * LimbRange BY LimbsOfWord
<1> QED BY <1>2, <1>3, WordIsField DEF ValueOf

\* An address is its word, and the half and the byte in it.
LEMMA AddressParts ==
    ASSUME NEW addr \in Words
    PROVE  /\ addr \in Nat /\ addr % 2 \in {0, 1} /\ (addr \div 2) % 2 \in {0, 1}
           /\ addr % 4 = (addr % 2) + 2 * ((addr \div 2) % 2)
           /\ 4 * (addr \div 4) = addr - (addr % 4) /\ 4 * (addr \div 4) \in Words
<1>1. addr \in Nat /\ WordRange \in Nat /\ addr < WordRange /\ Words = 0 .. WordRange - 1 BY Sizes
<1>2. PICK x \in Int, lo \in {0, 1}, hi \in {0, 1} : addr = 4 * x + 2 * hi + lo
  <2> DEFINE h == addr \div 2
  <2>1. h \in Int /\ addr % 2 \in {0, 1} /\ addr = 2 * h + (addr % 2) BY <1>1
  <2> HIDE DEF h
  <2>2. h \div 2 \in Int /\ h % 2 \in {0, 1} /\ h = 2 * (h \div 2) + (h % 2) BY <2>1
  <2>3. addr = 4 * (h \div 2) + 2 * (h % 2) + (addr % 2) BY <1>1, <2>1, <2>2
  <2> QED BY <2>1, <2>2, <2>3
<1>3. addr % 2 = lo /\ addr \div 2 = 2 * x + hi BY <1>1, <1>2
<1>4. (addr \div 2) % 2 = hi /\ addr % 4 = 2 * hi + lo /\ addr \div 4 = x BY <1>1, <1>2, <1>3
<1> QED BY <1>1, <1>2, <1>3, <1>4

Aligned(kind, addr) ==
    /\ kind \in {"LW", "SW"} => addr % 2 = 0 /\ (addr \div 2) % 2 = 0
    /\ kind \in {"LH", "LHU", "SH"} => addr % 2 = 0

LEMMA AlignedMeans ==
    ASSUME NEW kind \in MemKinds, NEW addr \in Words, AlignedFor(kind, addr)
    PROVE  Aligned(kind, addr)
<1>1. kind \in {"LW", "SW"} => addr % 4 = 0 BY WidthsAre DEF AlignedFor, Width
<1>2. kind \in {"LH", "LHU", "SH"} => addr % 2 = 0 BY WidthsAre DEF AlignedFor, Width
<1> QED BY <1>1, <1>2, AddressParts DEF Aligned

LEMMA AlignAddress ==
    ASSUME NEW kind \in MemKinds, NEW addr \in Words, AlignedFor(kind, addr),
           NEW m, LimbsOf(m, addr), m.low = <<addr % 2, (addr \div 2) % 2>>
    PROVE  Field(Align4(m, Zeros(kind))) = 4 * (addr \div 4)
<1> DEFINE lo == addr % 2  hi == (addr \div 2) % 2
<1>1. Aligned(kind, addr) BY AlignedMeans
<1>2. ValueOf(m) = addr BY ValueOfLimbs
<1>3. m.low[1] = lo /\ m.low[2] = hi OBVIOUS
<1>4. LowBit(m, Zeros(kind), 0) = lo /\ LowBit(m, Zeros(kind), 1) = hi
  <2>1. CASE kind \in {"LW", "SW"}
    <3>1. Zeros(kind) = 2 BY <2>1 DEF Zeros
    <3> QED BY <1>1, <2>1, <3>1 DEF LowBit, Aligned
  <2>2. CASE kind \in {"LH", "LHU", "SH"}
    <3>1. Zeros(kind) = 1 BY <2>2 DEF Zeros
    <3> QED BY <1>1, <1>3, <2>2, <3>1 DEF LowBit, Aligned
  <2>3. CASE kind \in {"LB", "LBU", "SB"}
    <3>1. Zeros(kind) = 0 BY <2>3 DEF Zeros
    <3> QED BY <1>3, <3>1 DEF LowBit
  <2> QED BY <2>1, <2>2, <2>3 DEF MemKinds
<1>5. Align4(m, Zeros(kind)) = addr - lo - 2 * hi BY <1>2, <1>4 DEF Align4, Align2
<1> HIDE DEF lo, hi
<1>6. addr - lo - 2 * hi = 4 * (addr \div 4) /\ 4 * (addr \div 4) \in Words BY AddressParts DEF lo, hi
<1> QED BY <1>5, <1>6, WordIsField

\* The offset of the address, by its half and its byte.
LEMMA OffsetIs ==
    ASSUME NEW addr \in Words
    PROVE  /\ addr % 2 = 0 /\ (addr \div 2) % 2 = 0 => Offset(addr) = 2 ^ (ByteBits * 0) /\ Offset(addr) = 1
           /\ addr % 2 = 1 /\ (addr \div 2) % 2 = 0 => Offset(addr) = 2 ^ (ByteBits * 1) /\ Offset(addr) = ByteRange
           /\ addr % 2 = 0 /\ (addr \div 2) % 2 = 1 => Offset(addr) = 2 ^ (ByteBits * 2) /\ Offset(addr) = LimbRange
           /\ addr % 2 = 1 /\ (addr \div 2) % 2 = 1 =>
                Offset(addr) = 2 ^ (ByteBits * 3) /\ Offset(addr) = LimbRange * ByteRange
<1>1. addr % 4 = (addr % 2) + 2 * ((addr \div 2) % 2) BY AddressParts
<1>2. Offset(addr) = 2 ^ (ByteBits * (addr % 4)) BY DEF Offset
<1>3. addr % 2 = 0 /\ (addr \div 2) % 2 = 0 => addr % 4 = 0 BY <1>1
<1>4. addr % 2 = 1 /\ (addr \div 2) % 2 = 0 => addr % 4 = 1 BY <1>1
<1>5. addr % 2 = 0 /\ (addr \div 2) % 2 = 1 => addr % 4 = 2 BY <1>1
<1>6. addr % 2 = 1 /\ (addr \div 2) % 2 = 1 => addr % 4 = 3 BY <1>1
<1> QED BY <1>2, <1>3, <1>4, <1>5, <1>6, Shifts

\* What an address selects: the word, one of its limbs, one of its bytes.
LimbAt(addr, v) == IF (addr \div 2) % 2 = 0 THEN v % LimbRange ELSE v \div LimbRange
ByteAt(addr, v) == IF addr % 2 = 0 THEN LimbAt(addr, v) % ByteRange ELSE LimbAt(addr, v) \div ByteRange

LEMMA SelectedIs ==
    ASSUME NEW kind \in MemKinds, NEW addr \in Words, AlignedFor(kind, addr), NEW v \in Words
    PROVE  /\ kind \in {"LW", "SW"} => Selected(kind, addr, v) = v
           /\ kind \in {"LH", "LHU", "SH"} => Selected(kind, addr, v) = LimbAt(addr, v)
           /\ kind \in {"LB", "LBU", "SB"} => Selected(kind, addr, v) = ByteAt(addr, v)
<1>1. Aligned(kind, addr) BY AlignedMeans
<1>2. addr % 2 \in {0, 1} /\ (addr \div 2) % 2 \in {0, 1} BY AddressParts
<1>3. v \in Int /\ v \div 1 = v
  <2>1. v \in Int BY Sizes
  <2> QED BY <2>1
<1>4. ASSUME kind \in {"LW", "SW"} PROVE Selected(kind, addr, v) = v
  <2>1. Selected(kind, addr, v) = (v \div Offset(addr)) % WordRange BY <1>4, WidthsAre DEF Selected, Width
  <2>2. Offset(addr) = 1 BY <1>1, <1>4, OffsetIs DEF Aligned
  <2>3. v % WordRange = v BY LimbsOfWord DEF Wrapped
  <2> QED BY <1>3, <2>1, <2>2, <2>3
<1>5. ASSUME kind \in {"LH", "LHU", "SH"} PROVE Selected(kind, addr, v) = LimbAt(addr, v)
  <2>1. Selected(kind, addr, v) = (v \div Offset(addr)) % LimbRange BY <1>5, WidthsAre DEF Selected, Width
  <2>2. addr % 2 = 0 BY <1>1, <1>5 DEF Aligned
  <2>3. v \div LimbRange \in 0 .. LimbRange - 1 /\ LimbRange \in Nat BY LimbsOfWord, Sizes DEF LimbWords
  <2>4. (v \div LimbRange) % LimbRange = v \div LimbRange BY <2>3, Remains
  <2> QED BY <1>2, <1>3, <2>1, <2>2, <2>4, OffsetIs DEF LimbAt
<1>6. ASSUME kind \in {"LB", "LBU", "SB"} PROVE Selected(kind, addr, v) = ByteAt(addr, v)
  <2>1. Selected(kind, addr, v) = (v \div Offset(addr)) % ByteRange BY <1>6, WidthsAre DEF Selected, Width
  <2> QED BY <1>2, <2>1, OffsetIs, ShiftedWord DEF LimbAt, ByteAt, Byte1, Byte2, Byte3, Byte4
<1> QED BY <1>4, <1>5, <1>6

\* The limbs of small and of small negative numbers.
LEMMA SmallDigits == ASSUME NEW x \in LimbWords PROVE Digits(x, LimbBits, 2) = <<x, 0>>
<1>1. LimbRange \in Nat /\ LimbRange >= 4 /\ x \in 0 .. LimbRange - 1 BY Sizes DEF LimbWords
<1>2. x % LimbRange = x /\ x \div LimbRange = 0 /\ 0 % LimbRange = 0
  <2>1. 0 \in 0 .. LimbRange - 1 BY <1>1
  <2> QED BY <1>1, <2>1, Remains
<1>3. x \in Int BY <1>1
<1>4. Digits(x, LimbBits, 2) = <<x % LimbRange, (x \div LimbRange) % LimbRange>> BY <1>3, DigitsAre
<1> QED BY <1>2, <1>4

LEMMA NegativeDigits ==
    ASSUME NEW x \in LimbWords PROVE Digits(Wrapped(x - LimbRange), LimbBits, 2) = <<x, LimbRange - 1>>
<1> DEFINE L == LimbRange  w == x + (L - 1) * L
<1>1. L \in Nat /\ L >= 4 /\ WordRange = L * L /\ x \in 0 .. L - 1 BY Sizes DEF LimbWords
<1>2. L - 1 \in 0 .. L - 1 /\ L - 1 \in Nat BY <1>1
<1>3. (L - 1) * L = L * L - L /\ L * L \in Nat /\ L * L >= 4 * L BY <1>1
<1>4. w \in 0 .. L * L - 1 BY <1>1, <1>3
<1>5. x - L = -1 * (L * L) + w BY <1>1, <1>3
<1>6. (x - L) % (L * L) = w
  <2> HIDE DEF w
  <2>1. L * L > 0 BY <1>1, <1>3
  <2>2. (-1 * (L * L) + w) % (L * L) = w BY <1>3, <1>4, <2>1, DivisionUnique
  <2> QED BY <1>5, <2>2
<1>7. w % (L * L) = w
  <2> HIDE DEF w
  <2> QED BY <1>3, <1>4, Remains
<1>8. Wrapped(x - L) = w /\ Wrapped(w) = w BY <1>1, <1>6, <1>7 DEF Wrapped
<1>9. Digits(Wrapped(w), LimbBits, 2) = <<x, (L - 1) % L>> BY <1>2, DigitsOfSum
<1>10. (L - 1) % L = L - 1 BY <1>1, <1>2, Remains
<1> QED BY <1>8, <1>9, <1>10

\* The top bit of a limb or byte of which `half' is half the range.
LEMMA TopBit ==
    ASSUME NEW half \in Nat \ {0}, NEW x \in 0 .. 2 * half - 1
    PROVE  x \div half = IF x >= half THEN 1 ELSE 0
<1>1. CASE x >= half
  <2>1. (1 * half + (x - half)) \div half = 1 BY <1>1, DivisionUnique
  <2>2. 1 * half + (x - half) = x OBVIOUS
  <2> QED BY <1>1, <2>1, <2>2
<1>2. CASE x < half
  <2>1. x \in 0 .. half - 1 BY <1>2
  <2> QED BY <1>2, <2>1, Remains
<1> QED BY <1>1, <1>2

\* A limb or byte extended by its sign is the word the emulator loads.
LEMMA ExtendedLimb ==
    ASSUME NEW x \in LimbWords, NEW s, s.msb = x \div 2 ^ (LimbBits - 1)
    PROVE  LimbsOf(SignedExtendedLimb(x, s),
                   IF x >= 2 ^ (LimbBits - 1) THEN Wrapped(x - LimbRange) ELSE x)
<1> DEFINE H == 2 ^ (LimbBits - 1)  L == LimbRange  m == s.msb
<1>1. H \in Nat \ {0} /\ L = 2 * H /\ L \in Nat /\ L >= 4 /\ x \in 0 .. 2 * H - 1 /\ P > 8 * L
  BY HalfPowers, Sizes DEF LimbWords
<1>2. m = IF x >= H THEN 1 ELSE 0 BY <1>1, TopBit
<1>3. SignedExtendedLimb(x, s).limb = <<x, Field(m * (L - 1))>> BY DEF SignedExtendedLimb
<1>4. Field(m * (L - 1)) = IF x >= H THEN L - 1 ELSE 0
  <2>1. m * (L - 1) = IF x >= H THEN L - 1 ELSE 0 BY <1>1, <1>2
  <2>2. L - 1 \in Words /\ 0 \in Words
    <3>1. WordRange \in Nat /\ WordRange >= 4 * L /\ Words = 0 .. WordRange - 1 BY Sizes
    <3> HIDE DEF L
    <3> QED BY <1>1, <3>1
  <2> QED BY <2>1, <2>2, WordIsField
<1> HIDE DEF H, L, m
<1> QED BY <1>3, <1>4, SmallDigits, NegativeDigits DEF LimbsOf, H, L

LEMMA ExtendedByte ==
    ASSUME NEW x \in ByteWords, NEW s, s.msb = x \div 2 ^ (ByteBits - 1)
    PROVE  LimbsOf(SignedExtendedByte(x, s),
                   IF x >= 2 ^ (ByteBits - 1) THEN Wrapped(x - ByteRange) ELSE x)
<1> DEFINE H == 2 ^ (ByteBits - 1)  B == ByteRange  L == LimbRange  m == s.msb  y == L - B + x
<1>1. H \in Nat \ {0} /\ B = 2 * H /\ x \in 0 .. 2 * H - 1 BY HalfPowers, Bits DEF ByteWords
<1>2. L \in Nat /\ L >= 4 /\ P > 8 * L /\ B \in Nat /\ B <= L
  <2>1. B \in Nat /\ B >= 2 /\ L = B * B BY Bits
  <2>2. B * B >= B BY <2>1
  <2> QED BY <2>1, <2>2, Sizes
<1>3. m = IF x >= H THEN 1 ELSE 0 BY <1>1, TopBit
<1>4. SignedExtendedByte(x, s).limb = <<Field(m * (L - B) + x), Field(m * (L - 1))>>
  BY DEF SignedExtendedByte
<1>5. y \in 0 .. L - 1 /\ x \in 0 .. L - 1 BY <1>1, <1>2
<1>6. m * (L - B) + x = (IF x >= H THEN y ELSE x) /\ m * (L - 1) = (IF x >= H THEN L - 1 ELSE 0)
  BY <1>1, <1>2, <1>3
<1>7. {x, y, L - 1, 0} \subseteq Words BY <1>1, <1>2, <1>5, Sizes
<1>8. Field(m * (L - B) + x) = (IF x >= H THEN y ELSE x) /\ Field(m * (L - 1)) = (IF x >= H THEN L - 1 ELSE 0)
  BY <1>6, <1>7, WordIsField
<1>9. y - L = x - B BY <1>1, <1>2
<1>10. y \in LimbWords /\ x \in LimbWords BY <1>5 DEF LimbWords
<1> HIDE DEF H, B, L, m, y
<1>11. Digits(Wrapped(y - L), LimbBits, 2) = <<y, L - 1>> BY <1>10, NegativeDigits DEF L
<1>12. Digits(x, LimbBits, 2) = <<x, 0>> BY <1>10, SmallDigits
<1> QED BY <1>4, <1>8, <1>9, <1>11, <1>12 DEF LimbsOf, H, B

\* The limb and the byte of a word are words.
LEMMA PartsOfWord ==
    ASSUME NEW addr \in Words, NEW v \in Words
    PROVE  /\ LimbAt(addr, v) \in LimbWords /\ ByteAt(addr, v) \in ByteWords
           /\ Digits(v, LimbBits, 2)[1 + ((addr \div 2) % 2)] = LimbAt(addr, v)
           /\ Digits(LimbAt(addr, v), ByteBits, 2) =
                <<LimbAt(addr, v) % ByteRange, LimbAt(addr, v) \div ByteRange>>
<1>1. addr % 2 \in {0, 1} /\ (addr \div 2) % 2 \in {0, 1} BY AddressParts
<1>2. v % LimbRange \in LimbWords /\ v \div LimbRange \in LimbWords
      /\ Digits(v, LimbBits, 2) = <<v % LimbRange, v \div LimbRange>>
  BY LimbsOfWord
<1>3. LimbAt(addr, v) \in LimbWords BY <1>1, <1>2 DEF LimbAt
<1>4. ByteAt(addr, v) \in ByteWords BY <1>1, <1>3, BytesOfLimb DEF ByteAt
<1>5. Digits(v, LimbBits, 2)[1 + ((addr \div 2) % 2)] = LimbAt(addr, v)
  <2>1. CASE (addr \div 2) % 2 = 0 BY <1>2, <2>1 DEF LimbAt
  <2>2. CASE (addr \div 2) % 2 = 1 BY <1>2, <2>2 DEF LimbAt
  <2> QED BY <1>1, <2>1, <2>2
<1> QED BY <1>3, <1>4, <1>5, ByteDigitsAre

LEMMA LimbIsWord ==
    ASSUME NEW x, x \in LimbWords \/ x \in ByteWords PROVE x \in LimbWords /\ x \in Words /\ Field(x) = x
<1>1. LimbRange \in Nat /\ WordRange \in Nat /\ WordRange >= 4 * LimbRange /\ Words = 0 .. WordRange - 1
      /\ ByteRange \in Nat /\ ByteRange <= LimbRange
  <2>1. ByteRange \in Nat /\ ByteRange >= 2 /\ LimbRange = ByteRange * ByteRange BY Bits
  <2>2. ByteRange * ByteRange >= ByteRange BY <2>1
  <2> QED BY <2>1, <2>2, Sizes
<1>2. x \in LimbWords /\ x \in Words BY <1>1 DEF LimbWords, ByteWords
<1> QED BY <1>2, WordIsField

LEMMA SilentLoadTarget == ASSUME NEW kind \in LoadKinds, NEW c PROVE Silent(LoadTarget(kind, c))
<1> DEFINE low(i) == LowBit(c.memory_addr, Zeros(kind), i)
           byte == c.target_limb_bytes.byte
           limb == ConditionRequireEqual(low(1), c.target_limb.value, c.memory_read.limb[2], c.memory_read.limb[1])
           order == ConditionRequireEqual(low(0), c.target_limb.value,
                                          byte[1] * ByteRange + byte[2], byte[2] * ByteRange + byte[1])
           two == AssertUx(ByteBits, byte[1]) \o AssertUx(ByteBits, byte[2])
           bytes == two \o order
           half == SignedExtend(LimbBits, c.target_limb.value, c.signed_extend)
           sign == SignedExtend(ByteBits, byte[1], c.signed_extend)
<1>1. LoadTarget(kind, c) = CASE kind = "LW"  -> Nothing
                              [] kind = "LH"  -> limb \o half
                              [] kind = "LHU" -> limb
                              [] kind = "LB"  -> (limb \o bytes) \o sign
                              [] kind = "LBU" -> limb \o bytes
  BY DEF LoadTarget
<1>2. Silent(two) BY SilentUx, SilentJoin
<1>3. Silent(order) /\ Silent(limb) BY SilentCondition
<1>4. Silent(half) /\ Silent(sign) BY SilentExtend
<1> HIDE DEF two, order, limb, half, sign
<1>5. Silent(bytes) BY <1>2, <1>3, SilentJoin
<1> HIDE DEF bytes
<1>6. Silent(limb \o half) /\ Silent(limb \o bytes) BY <1>3, <1>4, <1>5, SilentJoin
<1>7. Silent((limb \o bytes) \o sign) BY <1>4, <1>6, SilentJoin
<1> QED BY <1>1, <1>3, <1>6, <1>7, AskNothing

LEMMA LoadMatches ==
    ASSUME NEW s, IsLoad(s)
    PROVE  Matches(LoadCircuit(s.kind, LoadRow(s)), s)
<1> DEFINE a == s.op["rs1"].after  addr == a + s.insn.imm  word == s.op["mem"].before
           d == s.op["rd"].after
           r == LoadRow(s)  c == r.cells
           limb == LimbAt(addr, word)  byte == ByteAt(addr, word)
           at == Align4(c.memory_addr, Zeros(s.kind))
           rd == LoadResult(s.kind, c)
           f1 == UInt(c.memory_read) \o MemAddr(c.memory_addr, Zeros(s.kind))
           f2 == f1 \o RequireEqual(ValueOf(c.memory_addr), ValueOf(c.rs1_read) + c.imm.value)
           f == f2 \o LoadTarget(s.kind, c)
           g == IMInsn(r, s.kind, c.imm.value, c.rs1_read, ValueOf(c.memory_read), at, rd)
<1>1. /\ s.kind \in LoadKinds /\ s.insn.kind = s.kind /\ addr \in Words /\ word \in Words
      /\ AlignedFor(s.kind, addr) /\ d = Loaded(s.kind, addr, word) /\ s.op["mem"].id = addr \div 4
  BY DEF IsLoad, Completes, ReadsWord
<1>2. s.kind \in MemKinds BY <1>1 DEF MemKinds
<1>3. RowFor(r, s) BY RowOfStep DEF LoadRow
<1>4. ImmInternal(s.insn) = s.insn.imm BY <1>1 DEF ImmInternal
<1>5. /\ LimbsOf(c.rs1_read, a) /\ LimbsOf(c.memory_read, word)
      /\ c.memory_addr = AssignMemAddr(addr)
  <2>1. c.rs1_read = ValueUnchecked(a) /\ c.memory_read = ValueNew(word) BY <1>1 DEF LoadRow, AssignRow
  <2>2. c.memory_addr = AssignMemAddr(s.op.rs1.after + ImmInternal(s.insn)) BY <1>1 DEF LoadRow, AssignRow
  <2> HIDE DEF c
  <2> QED BY <1>4, <2>1, <2>2 DEF ValueUnchecked, ValueNew, LimbsOf
<1>6. limb \in LimbWords /\ byte \in ByteWords /\ Field(limb) = limb
      /\ Digits(word, LimbBits, 2)[1 + ((addr \div 2) % 2)] = limb
  BY <1>1, PartsOfWord, LimbIsWord
<1>7. TargetBytes(addr, limb)[1] = byte
  <2>1. Digits(limb, ByteBits, 2) = <<limb % ByteRange, limb \div ByteRange>> BY <1>1, PartsOfWord
  <2>2. addr % 2 \in {0, 1} BY <1>1, AddressParts
  <2>3. CASE addr % 2 = 0 BY <2>1, <2>3 DEF TargetBytes, ByteAt
  <2>4. CASE addr % 2 = 1 BY <2>1, <2>4 DEF TargetBytes, ByteAt
  <2> QED BY <2>2, <2>3, <2>4
<1>8. /\ s.kind # "LW" => c.target_limb.value = limb
      /\ s.kind = "LH" => c.signed_extend.msb = limb \div 2 ^ (LimbBits - 1)
      /\ s.kind \in {"LB", "LBU"} => c.target_limb_bytes.byte[1] = byte
      /\ s.kind = "LB" => c.signed_extend.msb = byte \div 2 ^ (ByteBits - 1)
  <2> DEFINE limbAt == Digits(s.op.mem.before, LimbBits, 2)[1 + ((addr \div 2) % 2)]
             bytes == TargetBytes(addr, limbAt)
  <2>1. limbAt = limb /\ bytes[1] = byte BY <1>6, <1>7
  <2> HIDE DEF limbAt, bytes
  <2>2. CASE s.kind = "LW" BY <2>2
  <2>3. CASE s.kind = "LH"
    <3>1. c.target_limb = Cell(limbAt) /\ c.signed_extend = AssignSignedExtend(LimbBits, limbAt)
      BY <1>4, <2>3 DEF LoadRow, AssignRow, limbAt
    <3> QED BY <1>6, <2>1, <2>3, <3>1 DEF Cell, AssignSignedExtend
  <2>4. CASE s.kind = "LHU"
    <3>1. c.target_limb = Cell(limbAt) BY <1>4, <2>4 DEF LoadRow, AssignRow, limbAt
    <3> QED BY <1>6, <2>1, <2>4, <3>1 DEF Cell
  <2>5. CASE s.kind = "LB"
    <3>1. /\ c.target_limb = Cell(limbAt) /\ c.target_limb_bytes.byte = bytes
          /\ c.signed_extend = AssignSignedExtend(ByteBits, bytes[1])
      BY <1>4, <2>5 DEF LoadRow, AssignRow, limbAt, bytes
    <3> QED BY <1>6, <2>1, <2>5, <3>1 DEF Cell, AssignSignedExtend
  <2>6. CASE s.kind = "LBU"
    <3>1. c.target_limb = Cell(limbAt) /\ c.target_limb_bytes.byte = bytes
      BY <1>4, <2>6 DEF LoadRow, AssignRow, limbAt, bytes
    <3> QED BY <1>6, <2>1, <2>6, <3>1 DEF Cell
  <2> QED BY <1>1, <2>2, <2>3, <2>4, <2>5, <2>6
<1>9. LoadCircuit(s.kind, r) = f \o g BY DEF LoadCircuit
<1>10. Field(at) = 4 * s.op["mem"].id
  <2>1. LimbsOf(c.memory_addr, addr) /\ c.memory_addr.low = <<addr % 2, (addr \div 2) % 2>>
    BY <1>5 DEF AssignMemAddr, LimbsOf
  <2> HIDE DEF c, addr
  <2> QED BY <1>1, <1>2, <2>1, AlignAddress
<1> HIDE DEF r, c, addr, word, limb, byte, at
<1>11. LimbsOf(rd, d)
  <2>1. d = LET out == Selected(s.kind, addr, word)
            IN  IF s.kind \in {"LH", "LB"} /\ out >= 2 ^ (Width(s.kind) - 1)
                THEN Wrapped(out - 2 ^ Width(s.kind)) ELSE out
    BY <1>1 DEF Loaded
  <2>2. CASE s.kind = "LW" BY <1>1, <1>2, <1>5, <2>1, <2>2, SelectedIs DEF LoadResult
  <2>3. CASE s.kind = "LH"
    <3>1. Selected(s.kind, addr, word) = limb BY <1>1, <1>2, <2>3, SelectedIs DEF limb
    <3>2. Width(s.kind) = LimbBits BY <2>3 DEF Width
    <3>3. d = IF limb >= 2 ^ (LimbBits - 1) THEN Wrapped(limb - LimbRange) ELSE limb
      BY <2>1, <2>3, <3>1, <3>2 DEF LimbRange
    <3>4. rd = SignedExtendedLimb(limb, c.signed_extend) BY <1>8, <2>3 DEF LoadResult
    <3> HIDE DEF rd, d
    <3> QED BY <1>6, <1>8, <2>3, <3>3, <3>4, ExtendedLimb
  <2>4. CASE s.kind = "LHU"
    <3>1. d = limb BY <1>1, <1>2, <2>1, <2>4, SelectedIs DEF limb
    <3>2. rd = Flag(limb) BY <1>8, <2>4 DEF LoadResult
    <3> HIDE DEF rd, d
    <3> QED BY <1>6, <3>1, <3>2, SmallDigits DEF Flag, LimbsOf
  <2>5. CASE s.kind = "LB"
    <3>1. Selected(s.kind, addr, word) = byte BY <1>1, <1>2, <2>5, SelectedIs DEF byte
    <3>2. Width(s.kind) = ByteBits BY <2>5 DEF Width
    <3>3. d = IF byte >= 2 ^ (ByteBits - 1) THEN Wrapped(byte - ByteRange) ELSE byte
      BY <2>1, <2>5, <3>1, <3>2 DEF ByteRange
    <3>4. rd = SignedExtendedByte(byte, c.signed_extend) BY <1>8, <2>5 DEF LoadResult
    <3> HIDE DEF rd, d
    <3> QED BY <1>6, <1>8, <2>5, <3>3, <3>4, ExtendedByte
  <2>6. CASE s.kind = "LBU"
    <3>1. d = byte BY <1>1, <1>2, <2>1, <2>6, SelectedIs DEF byte
    <3>2. rd = Flag(byte) BY <1>8, <2>6 DEF LoadResult
    <3>3. byte \in LimbWords BY <1>6, LimbIsWord
    <3> HIDE DEF rd, d
    <3> QED BY <3>1, <3>2, <3>3, SmallDigits DEF Flag, LimbsOf
  <2> QED BY <1>1, <2>2, <2>3, <2>4, <2>5, <2>6
<1> HIDE DEF rd
<1>12. ValueOf(c.memory_read) = word BY <1>1, <1>5, ValueOfLimbs
<1>13. Matches(g, s) BY <1>3, <1>5, <1>10, <1>11, <1>12, FrameIM DEF Matches, word
<1>14. Silent(f)
  <2>1. Silent(f1) BY SilentUInt, SilentMemAddr, SilentJoin
  <2> HIDE DEF f1
  <2>2. Silent(f2) BY <2>1, SilentEqual, SilentJoin
  <2>3. Silent(LoadTarget(s.kind, c)) BY <1>1, SilentLoadTarget
  <2> HIDE DEF f2
  <2> QED BY <2>2, <2>3, SilentJoin
<1> HIDE DEF f, g
<1> QED BY <1>9, <1>13, <1>14, SilentMatches DEF r

\* A reduced summand does not matter.
LEMMA FieldOfSum == ASSUME NEW x \in Int, NEW y \in Int PROVE Field(x + Field(y)) = Field(x + y)
<1> DEFINE q == y \div P  m == y % P  k == (x + m) \div P  n == (x + m) % P
<1>1. P \in Nat /\ P > 0
  <2>1. P \in Nat /\ P > 8 * WordRange /\ WordRange \in Nat BY Sizes
  <2> QED BY <2>1
<1>2. q \in Int /\ m \in Int /\ y = q * P + m BY <1>1
<1> HIDE DEF q, m
<1>3. k \in Int /\ n \in 0 .. P - 1 /\ x + m = k * P + n BY <1>1, <1>2
<1> HIDE DEF k, n
<1>4. x + y = (q + k) * P + n
  <2>1. (q + k) * P = q * P + k * P /\ q * P \in Int /\ k * P \in Int BY <1>1, <1>2, <1>3
  <2> QED BY <1>2, <1>3, <2>1
<1>5. ((q + k) * P + n) % P = n BY <1>1, <1>2, <1>3, DivisionUnique
<1> QED BY <1>4, <1>5 DEF Field, m, n

\* Where in its word a limb is, and where in its limb a byte.
HalfAt(addr) == IF (addr \div 2) % 2 = 1 THEN LimbRange ELSE 1
OddAt(addr) == IF addr % 2 = 1 THEN ByteRange ELSE 1

LEMMA ReplacedByte ==
    ASSUME NEW addr \in Words, NEW v \in Words, NEW x \in ByteWords
    PROVE  LimbAt(addr, v) + (x - ByteAt(addr, v)) * OddAt(addr) \in LimbWords
<1> DEFINE B == ByteRange  l == LimbAt(addr, v)  b1 == l % B  b2 == l \div B
<1>1. B \in Nat /\ B >= 2 /\ LimbRange = B * B BY Bits
<1>2. l \in LimbWords BY PartsOfWord
<1>3. b1 \in 0 .. B - 1 /\ b2 \in 0 .. B - 1 /\ l = b1 + b2 * B /\ x \in 0 .. B - 1
  BY <1>2, BytesOfLimb DEF ByteWords
<1>4. addr % 2 \in {0, 1} BY AddressParts
<1>5. ByteAt(addr, v) = IF addr % 2 = 0 THEN b1 ELSE b2 BY DEF ByteAt
<1> HIDE DEF B, l, b1, b2
<1>6. CASE addr % 2 = 0
  <2>1. l + (x - ByteAt(addr, v)) * OddAt(addr) = x + b2 * B
    <3>1. b2 * B \in Int /\ l \in Int BY <1>1, <1>3
    <3>2. OddAt(addr) = 1 /\ ByteAt(addr, v) = b1 BY <1>5, <1>6 DEF OddAt
    <3>3. l + (x - b1) * 1 = x + b2 * B BY <1>1, <1>3, <3>1
    <3> QED BY <3>2, <3>3
  <2>2. x + b2 * B \in 0 .. B * B - 1
    <3>1. b2 * B <= (B - 1) * B /\ b2 * B \in Nat BY <1>1, <1>3
    <3>2. (B - 1) * B = B * B - B /\ B * B \in Int BY <1>1
    <3> QED BY <1>1, <1>3, <3>1, <3>2
  <2> QED BY <1>1, <2>1, <2>2 DEF LimbWords, l
<1>7. CASE addr % 2 = 1
  <2>1. l + (x - ByteAt(addr, v)) * OddAt(addr) = b1 + x * B
    <3>1. (x - b2) * B = x * B - b2 * B /\ x * B \in Int /\ b2 * B \in Int BY <1>1, <1>3
    <3>2. OddAt(addr) = B /\ ByteAt(addr, v) = b2 BY <1>5, <1>7 DEF OddAt, B
    <3>3. l + (x * B - b2 * B) = b1 + x * B BY <1>3, <3>1
    <3> QED BY <3>1, <3>2, <3>3
  <2>2. b1 + x * B \in 0 .. B * B - 1
    <3>1. x * B <= (B - 1) * B /\ x * B \in Nat BY <1>1, <1>3
    <3>2. (B - 1) * B = B * B - B /\ B * B \in Int BY <1>1
    <3> QED BY <1>1, <1>3, <3>1, <3>2
  <2> QED BY <1>1, <2>1, <2>2 DEF LimbWords, l
<1> QED BY <1>4, <1>6, <1>7

LEMMA ReplacedLimb ==
    ASSUME NEW addr \in Words, NEW v \in Words, NEW x \in LimbWords
    PROVE  v + (x - LimbAt(addr, v)) * HalfAt(addr) \in Words
<1> DEFINE L == LimbRange  b1 == v % L  b2 == v \div L
<1>1. L \in Nat /\ L >= 2 /\ WordRange = L * L /\ Words = 0 .. WordRange - 1 BY Sizes
<1>2. b1 \in 0 .. L - 1 /\ b2 \in 0 .. L - 1 /\ v = b1 + b2 * L /\ x \in 0 .. L - 1
  BY LimbsOfWord DEF LimbWords
<1>3. (addr \div 2) % 2 \in {0, 1} BY AddressParts
<1>4. LimbAt(addr, v) = IF (addr \div 2) % 2 = 0 THEN b1 ELSE b2 BY DEF LimbAt
<1> HIDE DEF L, b1, b2
<1>5. CASE (addr \div 2) % 2 = 0
  <2>1. v + (x - LimbAt(addr, v)) * HalfAt(addr) = x + b2 * L
    <3>1. b2 * L \in Int /\ v \in Int BY <1>1, <1>2
    <3>2. HalfAt(addr) = 1 /\ LimbAt(addr, v) = b1 BY <1>4, <1>5 DEF HalfAt
    <3>3. v + (x - b1) * 1 = x + b2 * L BY <1>1, <1>2, <3>1
    <3> QED BY <3>2, <3>3
  <2>2. x + b2 * L \in 0 .. L * L - 1
    <3>1. b2 * L <= (L - 1) * L /\ b2 * L \in Nat BY <1>1, <1>2
    <3>2. (L - 1) * L = L * L - L /\ L * L \in Int BY <1>1
    <3> QED BY <1>1, <1>2, <3>1, <3>2
  <2> QED BY <1>1, <2>1, <2>2
<1>6. CASE (addr \div 2) % 2 = 1
  <2>1. v + (x - LimbAt(addr, v)) * HalfAt(addr) = b1 + x * L
    <3>1. (x - b2) * L = x * L - b2 * L /\ x * L \in Int /\ b2 * L \in Int BY <1>1, <1>2
    <3>2. HalfAt(addr) = L /\ LimbAt(addr, v) = b2 BY <1>4, <1>6 DEF HalfAt, L
    <3>3. v + (x * L - b2 * L) = b1 + x * L BY <1>2, <3>1
    <3> QED BY <3>1, <3>2, <3>3
  <2>2. b1 + x * L \in 0 .. L * L - 1
    <3>1. x * L <= (L - 1) * L /\ x * L \in Nat BY <1>1, <1>2
    <3>2. (L - 1) * L = L * L - L /\ L * L \in Int BY <1>1
    <3> QED BY <1>1, <1>2, <3>1, <3>2
  <2> QED BY <1>1, <2>1, <2>2
<1> QED BY <1>3, <1>5, <1>6

LEMMA ByteOfWord == ASSUME NEW v \in Words PROVE (v % LimbRange) % ByteRange = v % ByteRange /\ v % ByteRange \in ByteWords
<1>1. v \in Int /\ v \div 1 = v
  <2>1. v \in Int BY Sizes
  <2> QED BY <2>1
<1>2. (v \div 1) % ByteRange = Byte1(v) BY ShiftedWord, Shifts
<1> QED BY <1>1, <1>2, BytesOfWord DEF Byte1

\* What a store leaves: a word with one of its limbs or bytes replaced.
LEMMA StoredIs ==
    ASSUME NEW kind \in StoreKinds, NEW addr \in Words, AlignedFor(kind, addr), NEW word \in Words, NEW v \in Words
    PROVE  /\ kind = "SW" => Stored(kind, addr, word, v) = v
           /\ kind = "SH" => Stored(kind, addr, word, v) = word + ((v % LimbRange) - LimbAt(addr, word)) * HalfAt(addr)
           /\ kind = "SB" => Stored(kind, addr, word, v) =
                               word + (((v % ByteRange) - ByteAt(addr, word)) * OddAt(addr)) * HalfAt(addr)
           /\ Stored(kind, addr, word, v) \in Words
<1> DEFINE w == Stored(kind, addr, word, v)  o == Offset(addr)  out == Selected(kind, addr, word)
           limb == LimbAt(addr, word)  byte == ByteAt(addr, word)  lo == addr % 2  hi == (addr \div 2) % 2
<1>1. kind \in MemKinds BY DEF MemKinds
<1>2. Aligned(kind, addr) BY <1>1, AlignedMeans
<1>3. lo \in {0, 1} /\ hi \in {0, 1} BY AddressParts
<1>4. word \in Int /\ v \in Int BY Sizes
<1>5. w = word + o * ((v % 2 ^ Width(kind)) - out) BY DEF Stored
<1>6. o = IF lo = 0 THEN (IF hi = 0 THEN 1 ELSE LimbRange) ELSE (IF hi = 0 THEN ByteRange ELSE LimbRange * ByteRange)
  BY <1>3, OffsetIs
<1>7. ByteRange \in Nat /\ LimbRange \in Nat /\ OddAt(addr) = (IF lo = 1 THEN ByteRange ELSE 1)
      /\ HalfAt(addr) = (IF hi = 1 THEN LimbRange ELSE 1)
  BY Bits, Sizes DEF OddAt, HalfAt
<1>8. limb \in LimbWords /\ byte \in ByteWords BY PartsOfWord
<1>9. limb \in Int /\ byte \in Int BY <1>7, <1>8 DEF LimbWords, ByteWords
<1> HIDE DEF w, o, out, limb, byte, lo, hi
<1>10. ASSUME kind = "SW" PROVE w = v
  <2>1. out = word /\ o = 1 BY <1>1, <1>2, <1>6, <1>10, SelectedIs DEF Aligned, lo, hi, out
  <2>2. v % 2 ^ Width(kind) = v BY <1>10, WidthsAre, LimbsOfWord DEF Width, Wrapped
  <2>3. w = word + 1 * (v - word) BY <1>5, <2>1, <2>2
  <2>4. word + 1 * (v - word) = v BY <1>4
  <2> QED BY <2>3, <2>4
<1>11. ASSUME kind = "SH" PROVE w = word + ((v % LimbRange) - limb) * HalfAt(addr)
  <2>1. out = limb /\ lo = 0 BY <1>1, <1>2, <1>11, SelectedIs DEF Aligned, lo, out, limb
  <2>2. o = HalfAt(addr) BY <1>3, <1>6, <1>7, <2>1
  <2>3. 2 ^ Width(kind) = LimbRange BY <1>11, WidthsAre DEF Width
  <2>4. v % LimbRange \in Int BY LimbsOfWord, <1>7 DEF LimbWords
  <2> DEFINE x == (v % LimbRange) - limb
  <2>5. x \in Int /\ o \in Int BY <1>3, <1>7, <1>9, <2>2, <2>4
  <2>6. w = word + o * x BY <1>5, <2>1, <2>3
  <2> HIDE DEF x
  <2>7. o * x = x * o BY <2>5
  <2> QED BY <2>2, <2>6, <2>7 DEF x
<1>12. ASSUME kind = "SB" PROVE w = word + (((v % ByteRange) - byte) * OddAt(addr)) * HalfAt(addr)
  <2>1. out = byte BY <1>1, <1>12, SelectedIs DEF out, byte
  <2>2. 2 ^ Width(kind) = ByteRange BY <1>12, WidthsAre DEF Width
  <2>3. v % ByteRange \in Int BY ByteOfWord, <1>7 DEF ByteWords
  <2> DEFINE x == (v % ByteRange) - byte
  <2>4. x \in Int BY <1>9, <2>3
  <2>5. w = word + o * x BY <1>5, <2>1, <2>2
  <2> HIDE DEF x
  <2>6. o * x = (x * OddAt(addr)) * HalfAt(addr)
    <3>1. CASE lo = 0 /\ hi = 0
      <4>1. o = 1 /\ OddAt(addr) = 1 /\ HalfAt(addr) = 1 BY <1>6, <1>7, <3>1
      <4> QED BY <2>4, <4>1
    <3>2. CASE lo = 1 /\ hi = 0
      <4>1. o = ByteRange /\ OddAt(addr) = ByteRange /\ HalfAt(addr) = 1 BY <1>6, <1>7, <3>2
      <4>2. ByteRange * x = (x * ByteRange) * 1 BY <1>7, <2>4
      <4> QED BY <4>1, <4>2
    <3>3. CASE lo = 0 /\ hi = 1
      <4>1. o = LimbRange /\ OddAt(addr) = 1 /\ HalfAt(addr) = LimbRange BY <1>6, <1>7, <3>3
      <4>2. LimbRange * x = (x * 1) * LimbRange BY <1>7, <2>4
      <4> QED BY <4>1, <4>2
    <3>4. CASE lo = 1 /\ hi = 1
      <4>1. o = LimbRange * ByteRange /\ OddAt(addr) = ByteRange /\ HalfAt(addr) = LimbRange BY <1>6, <1>7, <3>4
      <4>2. (LimbRange * ByteRange) * x = (x * ByteRange) * LimbRange BY <1>7, <2>4
      <4> QED BY <4>1, <4>2
    <3> QED BY <1>3, <3>1, <3>2, <3>3, <3>4
  <2> QED BY <2>5, <2>6 DEF x
<1>13. w \in Words
  <2>1. CASE kind = "SW" BY <1>10, <2>1
  <2>2. CASE kind = "SH"
    <3>1. v % LimbRange \in LimbWords BY LimbsOfWord
    <3> QED BY <1>11, <2>2, <3>1, ReplacedLimb DEF limb
  <2>3. CASE kind = "SB"
    <3> DEFINE d == ((v % ByteRange) - byte) * OddAt(addr)  x == limb + d
    <3>1. v % ByteRange \in ByteWords BY ByteOfWord
    <3>2. x \in LimbWords BY <3>1, ReplacedByte DEF limb, byte
    <3>3. d \in Int
      <4>1. v % ByteRange \in Int /\ OddAt(addr) \in Int BY <1>3, <1>7, <3>1 DEF ByteWords
      <4> QED BY <1>9, <4>1
    <3> HIDE DEF d
    <3>4. x - limb = d BY <1>9, <3>3
    <3>5. word + (x - limb) * HalfAt(addr) \in Words
      <4> HIDE DEF x
      <4> QED BY <3>2, ReplacedLimb DEF limb
    <3> QED BY <1>12, <2>3, <3>4, <3>5 DEF d
  <2> QED BY <2>1, <2>2, <2>3
<1> QED BY <1>10, <1>11, <1>12, <1>13 DEF w, limb, byte

LEMMA SilentWordChange == ASSUME NEW kind, NEW c PROVE Silent(MemWordChange(kind, c))
<1> DEFINE low(i) == LowBit(c.memory_addr, Zeros(kind), i)
           prev == c.prev_memory_value.limb
           rs2 == c.rs2_read.limb
           byte == c.word_change.rs2_byte
           bytes == c.word_change.prev_bytes
           limbChange == c.word_change.limb_change
           change == c.word_change.change
           f0 == ConditionRequireEqual(low(1), change, (rs2[1] - prev[2]) * LimbRange, rs2[1] - prev[1])
           f1 == AssertUx(ByteBits, bytes[1]) \o AssertUx(ByteBits, bytes[2])
           e == RequireEqual(low(1) * prev[2] + (1 - low(1)) * prev[1], bytes[1] + bytes[2] * ByteRange)
           f2 == f1 \o e
           f3 == f2 \o AssertUx(ByteBits, byte)
           f4 == f3 \o AssertUx(ByteBits, InverseOf[ByteRange] * (rs2[1] - byte))
           c1 == ConditionRequireEqual(low(0), limbChange, (byte - bytes[2]) * ByteRange, byte - bytes[1])
           c2 == ConditionRequireEqual(low(1), change, limbChange * LimbRange, limbChange)
           f5 == f4 \o c1
<1>1. MemWordChange(kind, c) = IF kind = "SH" THEN f0 ELSE f5 \o c2 BY DEF MemWordChange
<1>2. Silent(f0) /\ Silent(e) /\ Silent(c1) /\ Silent(c2) BY SilentCondition, SilentEqual
<1>3. Silent(f1) BY SilentUx, SilentJoin
<1> HIDE DEF f0, e, c1, c2, f1
<1>4. Silent(f2) BY <1>2, <1>3, SilentJoin
<1> HIDE DEF f2
<1>5. Silent(f3) BY <1>4, SilentUx, SilentJoin
<1> HIDE DEF f3
<1>6. Silent(f4) BY <1>5, SilentUx, SilentJoin
<1> HIDE DEF f4
<1>7. Silent(f5) BY <1>2, <1>6, SilentJoin
<1> HIDE DEF f5
<1>8. Silent(f5 \o c2) BY <1>2, <1>7, SilentJoin
<1> QED BY <1>1, <1>2, <1>8

\* What assign_instance adds to the word is what the store changes.
LEMMA ChangeIs ==
    ASSUME NEW kind \in {"SH", "SB"}, NEW addr \in Words, AlignedFor(kind, addr), NEW word \in Words, NEW v \in Words
    PROVE  Field(word + AssignMemWordChange(kind, addr, word, v).change) = Stored(kind, addr, word, v)
<1> DEFINE limb == LimbAt(addr, word)  byte == ByteAt(addr, word)  half == (addr \div 2) % 2
           prevLimb == Digits(word, LimbBits, 2)[1 + half]
           bytes == Digits(prevLimb, ByteBits, 2)
           x == (v % LimbRange) % ByteRange
           limbChange == IF addr % 2 = 0 THEN x - bytes[1] ELSE (x - bytes[2]) * ByteRange
           change == (IF kind = "SH" THEN (v % LimbRange) - prevLimb ELSE limbChange)
                       * (IF half = 1 THEN LimbRange ELSE 1)
<1>1. AssignMemWordChange(kind, addr, word, v).change = Field(change) BY DEF AssignMemWordChange
<1>2. prevLimb = limb /\ bytes = <<limb % ByteRange, limb \div ByteRange>> BY PartsOfWord
<1>3. addr % 2 \in {0, 1} /\ half \in {0, 1} BY AddressParts
<1>4. x = v % ByteRange /\ x \in ByteWords /\ (v % LimbRange) \in LimbWords BY ByteOfWord, LimbsOfWord
<1>5. limb \in LimbWords /\ byte \in ByteWords BY PartsOfWord
<1>6. ByteRange \in Nat /\ LimbRange \in Nat /\ word \in Int BY Bits, Sizes
<1>7. x \in Int /\ (v % LimbRange) \in Int /\ limb \in Int /\ byte \in Int
  BY <1>4, <1>5, <1>6 DEF ByteWords, LimbWords
<1>8. HalfAt(addr) = (IF half = 1 THEN LimbRange ELSE 1) /\ OddAt(addr) = (IF addr % 2 = 1 THEN ByteRange ELSE 1)
  BY DEF HalfAt, OddAt
<1>9. limbChange = (x - byte) * OddAt(addr)
  <2>1. CASE addr % 2 = 0
    <3>1. bytes[1] = byte /\ OddAt(addr) = 1 BY <1>2, <1>8, <2>1 DEF ByteAt
    <3>2. limbChange = x - bytes[1] BY <2>1
    <3> HIDE DEF x, bytes, byte, limbChange
    <3> QED BY <1>7, <3>1, <3>2
  <2>2. CASE addr % 2 = 1
    <3>1. bytes[2] = byte /\ OddAt(addr) = ByteRange BY <1>2, <1>8, <2>2 DEF ByteAt
    <3> QED BY <2>2, <3>1
  <2> QED BY <1>3, <2>1, <2>2
<1> HIDE DEF limb, byte, half, prevLimb, x, limbChange
<1>10. change = IF kind = "SH" THEN ((v % LimbRange) - limb) * HalfAt(addr)
               ELSE ((x - byte) * OddAt(addr)) * HalfAt(addr)
  BY <1>2, <1>8, <1>9
<1>11. change \in Int
  <2>1. HalfAt(addr) \in Int /\ OddAt(addr) \in Int BY <1>6, <1>8
  <2>2. (x - byte) * OddAt(addr) \in Int BY <1>7, <2>1
  <2>3. ((v % LimbRange) - limb) * HalfAt(addr) \in Int BY <1>7, <2>1
  <2>4. ((x - byte) * OddAt(addr)) * HalfAt(addr) \in Int BY <2>1, <2>2
  <2> HIDE DEF change
  <2> QED BY <1>10, <2>3, <2>4
<1> HIDE DEF change
<1>12. kind \in StoreKinds OBVIOUS
<1>13. Stored(kind, addr, word, v) = word + change /\ Stored(kind, addr, word, v) \in Words
  <2>1. CASE kind = "SH" BY <1>10, <1>12, <2>1, StoredIs DEF limb
  <2>2. CASE kind = "SB" BY <1>4, <1>10, <1>12, <2>2, StoredIs DEF byte
  <2> QED BY <2>1, <2>2
<1>14. Field(word + Field(change)) = Field(word + change) BY <1>6, <1>11, FieldOfSum
<1> QED BY <1>1, <1>13, <1>14, WordIsField

LEMMA StoreMatches ==
    ASSUME NEW s, IsStore(s)
    PROVE  Matches(StoreCircuit(s.kind, StoreRow(s)), s)
<1> DEFINE a == s.op["rs1"].after  v == s.op["rs2"].after  addr == a + s.insn.imm  word == s.op["mem"].before
           r == StoreRow(s)  c == r.cells
           at == Align4(c.memory_addr, Zeros(s.kind))
           before == ValueOf(c.prev_memory_value)
           after == IF s.kind = "SW" THEN ValueOf(c.rs2_read) ELSE before + c.word_change.change
           change == IF s.kind = "SW" THEN Nothing ELSE MemWordChange(s.kind, c)
           f1 == UInt(c.prev_memory_value) \o MemAddr(c.memory_addr, Zeros(s.kind))
           f2 == f1 \o RequireEqual(ValueOf(c.memory_addr), ValueOf(c.rs1_read) + c.imm.value)
           f == f2 \o change
           g == SInsn(r, s.kind, c.imm.value, c.rs1_read, c.rs2_read, at, before, after)
<1>1. /\ s.kind \in StoreKinds /\ s.insn.kind = s.kind /\ addr \in Words /\ word \in Words /\ v \in Words
      /\ AlignedFor(s.kind, addr) /\ s.op["mem"].after = Stored(s.kind, addr, word, v)
      /\ s.op["mem"].id = addr \div 4
  BY DEF IsStore, Completes, ReadsWord
<1>2. s.kind \in MemKinds BY <1>1 DEF MemKinds
<1>3. RowFor(r, s) BY RowOfStep DEF StoreRow
<1>4. ImmInternal(s.insn) = s.insn.imm BY <1>1 DEF ImmInternal
<1>5. /\ LimbsOf(c.rs1_read, a) /\ LimbsOf(c.rs2_read, v) /\ LimbsOf(c.prev_memory_value, word)
      /\ c.memory_addr = AssignMemAddr(addr)
      /\ s.kind # "SW" => c.word_change = AssignMemWordChange(s.kind, addr, word, v)
  <2> DEFINE address == s.op.rs1.after + ImmInternal(s.insn)
  <2>1. /\ c.rs1_read = ValueUnchecked(a) /\ c.rs2_read = ValueUnchecked(v) /\ c.prev_memory_value = ValueNew(word)
        /\ c.memory_addr = AssignMemAddr(address)
    BY DEF StoreRow, AssignRow
  <2>2. s.kind # "SW" => c.word_change = AssignMemWordChange(s.kind, address, word, v)
    BY DEF StoreRow, AssignRow
  <2>3. address = addr BY <1>4
  <2> HIDE DEF c, address
  <2> QED BY <2>1, <2>2, <2>3 DEF ValueUnchecked, ValueNew, LimbsOf
<1>6. StoreCircuit(s.kind, r) = f \o g BY DEF StoreCircuit
<1> HIDE DEF r, c, addr
<1>7. Field(at) = 4 * s.op["mem"].id
  <2>1. LimbsOf(c.memory_addr, addr) /\ c.memory_addr.low = <<addr % 2, (addr \div 2) % 2>>
    BY <1>5 DEF AssignMemAddr, LimbsOf
  <2> QED BY <1>1, <1>2, <2>1, AlignAddress
<1>8. before = word BY <1>1, <1>5, ValueOfLimbs
<1>9. Field(after) = s.op["mem"].after
  <2>1. CASE s.kind = "SW"
    <3>1. after = v BY <1>1, <1>5, <2>1, ValueOfLimbs
    <3>2. Stored(s.kind, addr, word, v) = v BY <1>1, <2>1, StoredIs
    <3> QED BY <1>1, <3>1, <3>2, WordIsField
  <2>2. CASE s.kind # "SW"
    <3>1. after = word + AssignMemWordChange(s.kind, addr, word, v).change BY <1>5, <1>8, <2>2
    <3>2. s.kind \in {"SH", "SB"} BY <1>1, <2>2
    <3> HIDE DEF after, word, v
    <3> QED BY <1>1, <3>1, <3>2, ChangeIs
  <2> QED BY <2>1, <2>2
<1> HIDE DEF at, before, after
<1>10. Matches(g, s) BY <1>3, <1>5, <1>7, <1>8, <1>9, FrameS DEF Matches, word
<1>11. Silent(f)
  <2>1. Silent(f1) BY SilentUInt, SilentMemAddr, SilentJoin
  <2> HIDE DEF f1
  <2>2. Silent(f2) BY <2>1, SilentEqual, SilentJoin
  <2>3. Silent(change) BY SilentWordChange, AskNothing
  <2> HIDE DEF f2, change
  <2> QED BY <2>2, <2>3, SilentJoin
<1> HIDE DEF f, g
<1> QED BY <1>6, <1>10, <1>11, SilentMatches DEF r

-----------------------------------------------------------------------------
(***************************************************************************)
(* Words by their bits and bytes.                                          *)
(***************************************************************************)
\* The bits of 2 * c + b are b and those of c.
LEMMA BitsDoubled ==
    ASSUME NEW c \in Nat, NEW b \in {0, 1}, NEW i \in 0 .. WordBits - 1
    PROVE  /\ Bit(2 * c + b, 0) = b
           /\ i > 0 => Bit(2 * c + b, i) = Bit(c, i - 1)
<1>1. Bit(2 * c + b, 0) = b
  <2>1. (2 * c + b) \div 1 = 2 * c + b /\ (2 * c + b) % 2 = b OBVIOUS
  <2>2. 2 ^ 0 = 1 OBVIOUS
  <2> QED BY <2>1, <2>2 DEF Bit
<1>2. ASSUME i > 0 PROVE Bit(2 * c + b, i) = Bit(c, i - 1)
  <2> DEFINE p == 2 ^ (i - 1)  q == c \div p  m == c % p
  <2>1. WordBits \in Nat BY WidthAssumption
  <2>2. i - 1 \in 0 .. WordBits - 1 /\ (i - 1) + 1 = i BY <1>2, <2>1
  <2>3. p \in Nat \ {0} /\ 2 ^ ((i - 1) + 1) = 2 * p BY <2>2, BitAssumption
  <2>4. 2 ^ i = 2 * p BY <2>2, <2>3
  <2> HIDE DEF p
  <2>5. q \in Nat /\ m \in 0 .. p - 1 /\ c = q * p + m BY <2>3
  <2> HIDE DEF q, m
  <2>6. 2 * c + b = q * (2 * p) + (2 * m + b)
    <3>1. q * (2 * p) = 2 * (q * p) /\ q * p \in Int BY <2>3, <2>5
    <3> QED BY <2>5, <3>1
  <2>7. 2 * m + b \in 0 .. 2 * p - 1 /\ 2 * p \in Nat /\ 2 * p > 0 BY <2>3, <2>5
  <2>8. (2 * c + b) \div (2 * p) = q
    <3> DEFINE d == 2 * p  e == 2 * m + b
    <3>1. d \in Nat /\ d > 0 /\ e \in 0 .. d - 1 /\ 2 * c + b = q * d + e BY <2>6, <2>7
    <3> HIDE DEF d, e
    <3>2. (q * d + e) \div d = q BY <2>5, <3>1, DivisionUnique
    <3> QED BY <3>1, <3>2 DEF d
  <2> QED BY <2>4, <2>8 DEF Bit, p, q
<1> QED BY <1>1, <1>2

\* There is a word with any bits.
LEMMA WordOfBits ==
    ASSUME NEW f \in [0 .. WordBits - 1 -> {0, 1}]
    PROVE  \E c \in Words : \A i \in 0 .. WordBits - 1 : Bit(c, i) = f[i]
<1> DEFINE N == WordBits
           Has(c, n) == \A i \in 0 .. n - 1 : Bit(c, i) = f[N - n + i]
           T == {n \in 0 .. N : ~ \E c \in 0 .. 2 ^ n - 1 : Has(c, n)}
           R == OpToRel(<, Nat)
<1>1. N \in Nat /\ N >= 4 BY WidthAssumption
<1> HIDE DEF N
<1>2. T = {}
  <2> SUFFICES ASSUME T # {} PROVE FALSE OBVIOUS
  <2>1. T \subseteq Nat BY <1>1
  <2>2. PICK m \in T : \A y \in T : ~ (<<y, m>> \in R) BY <2>1, NatLessThanWellFounded, WFMin
  <2>3. \A y \in T : ~(y < m) BY <2>1, <2>2 DEF OpToRel
  <2>4. m \in 0 .. N /\ ~ \E c \in 0 .. 2 ^ m - 1 : Has(c, m) OBVIOUS
  <2>5. m # 0
    <3>1. 2 ^ 0 = 1 OBVIOUS
    <3>2. 0 \in 0 .. 2 ^ 0 - 1 /\ Has(0, 0) BY <3>1
    <3> QED BY <2>4, <3>2
  <2>6. m - 1 \in 0 .. N - 1 /\ m - 1 < m /\ (m - 1) + 1 = m BY <1>1, <2>4, <2>5
  <2>7. m - 1 \notin T BY <2>3, <2>6
  <2>8. PICK c \in 0 .. 2 ^ (m - 1) - 1 : Has(c, m - 1) BY <1>1, <2>6, <2>7
  <2> DEFINE b == f[N - m]  d == 2 * c + b
  <2>9. N - m \in 0 .. N - 1 /\ b \in {0, 1} BY <1>1, <2>4, <2>5 DEF N
  <2>10. 2 ^ (m - 1) \in Nat \ {0} /\ 2 ^ m = 2 * 2 ^ (m - 1)
    <3>1. 2 ^ (m - 1) \in Nat \ {0} /\ 2 ^ ((m - 1) + 1) = 2 * 2 ^ (m - 1) BY <2>6, BitAssumption DEF N
    <3> QED BY <2>6, <3>1
  <2>11. c \in Nat /\ d \in 0 .. 2 ^ m - 1
    <3> DEFINE p == 2 ^ (m - 1)
    <3>1. p \in Nat /\ 2 ^ m = 2 * p /\ c \in 0 .. p - 1 BY <2>8, <2>10
    <3> HIDE DEF p
    <3> QED BY <2>9, <3>1
  <2>12. Has(d, m)
    <3> SUFFICES ASSUME NEW i \in 0 .. m - 1 PROVE Bit(d, i) = f[N - m + i] OBVIOUS
    <3>1. i \in 0 .. N - 1 BY <1>1, <2>4
    <3>2. CASE i = 0
      <4>1. Bit(d, 0) = b BY <2>9, <2>11, <3>1, BitsDoubled DEF N
      <4>2. N - m + 0 = N - m BY <1>1, <2>4
      <4> QED BY <3>2, <4>1, <4>2
    <3>3. CASE i > 0
      <4>1. Bit(d, i) = Bit(c, i - 1) BY <2>9, <2>11, <3>1, <3>3, BitsDoubled DEF N
      <4>2. i - 1 \in 0 .. (m - 1) - 1 /\ N - (m - 1) + (i - 1) = N - m + i BY <1>1, <2>4, <3>3
      <4>3. Bit(c, i - 1) = f[N - (m - 1) + (i - 1)] BY <2>8, <4>2
      <4> QED BY <4>1, <4>2, <4>3
    <3> QED BY <2>4, <3>2, <3>3
  <2> QED BY <2>4, <2>11, <2>12
<1>3. N \in 0 .. N BY <1>1
<1>4. PICK c \in 0 .. 2 ^ N - 1 : Has(c, N) BY <1>2, <1>3
<1>5. c \in Words BY Sizes DEF N, WordRange
<1>6. ASSUME NEW i \in 0 .. N - 1 PROVE Bit(c, i) = f[i]
  <2>1. N - N + i = i BY <1>1
  <2>2. Bit(c, i) = f[N - N + i] BY <1>4
  <2> QED BY <2>1, <2>2
<1> QED BY <1>5, <1>6 DEF N

LEMMA BitwiseIsWord ==
    ASSUME NEW op \in [{0, 1} \X {0, 1} -> {0, 1}], NEW a \in Words, NEW b \in Words
    PROVE  /\ Bitwise(op, a, b) \in Words
           /\ \A i \in 0 .. WordBits - 1 : Bit(Bitwise(op, a, b), i) = op[<<Bit(a, i), Bit(b, i)>>]
<1> DEFINE f == [i \in 0 .. WordBits - 1 |-> op[<<Bit(a, i), Bit(b, i)>>]]
<1>1. ASSUME NEW i \in 0 .. WordBits - 1, NEW v \in Words PROVE Bit(v, i) \in {0, 1}
  <2>1. 2 ^ i \in Nat \ {0} BY BitAssumption
  <2>2. v \in Nat BY Sizes
  <2>3. v \div 2 ^ i \in Int
    <3> DEFINE p == 2 ^ i
    <3>1. p \in Nat /\ p > 0 BY <2>1
    <3> HIDE DEF p
    <3>2. v \div p \in Int BY <2>2, <3>1
    <3> QED BY <3>2 DEF p
  <2> DEFINE x == v \div 2 ^ i
  <2>4. x \in Int BY <2>3
  <2> HIDE DEF x
  <2>5. x % 2 \in {0, 1} BY <2>4
  <2> QED BY <2>5 DEF Bit, x
<1>2. f \in [0 .. WordBits - 1 -> {0, 1}]
  <2>1. ASSUME NEW i \in 0 .. WordBits - 1 PROVE op[<<Bit(a, i), Bit(b, i)>>] \in {0, 1}
    <3>1. Bit(a, i) \in {0, 1} /\ Bit(b, i) \in {0, 1} BY <1>1
    <3>2. <<Bit(a, i), Bit(b, i)>> \in {0, 1} \X {0, 1} BY <3>1
    <3> QED BY <3>2
  <2> QED BY <2>1
<1>3. \E c \in Words : \A i \in 0 .. WordBits - 1 : Bit(c, i) = f[i]
  <2> HIDE DEF f
  <2> QED BY <1>2, WordOfBits
<1>4. \E c \in Words : \A i \in 0 .. WordBits - 1 : Bit(c, i) = op[<<Bit(a, i), Bit(b, i)>>] BY <1>3
<1> QED BY <1>4 DEF Bitwise

LEMMA LogicIsWord ==
    ASSUME NEW kind \in LogicKinds \union LogicImmKinds, NEW a \in Words, NEW b \in Words
    PROVE  Compute(kind, a, b) \in Words
<1>1. BitAnd \in [{0, 1} \X {0, 1} -> {0, 1}] BY DEF BitAnd
<1>2. BitOr \in [{0, 1} \X {0, 1} -> {0, 1}] BY DEF BitOr
<1>3. BitXor \in [{0, 1} \X {0, 1} -> {0, 1}] BY DEF BitXor
<1>4. CASE kind \in {"AND", "ANDI"}
  <2>1. Compute(kind, a, b) = Bitwise(BitAnd, a, b) BY <1>4 DEF Compute
  <2> QED BY <1>1, <2>1, BitwiseIsWord
<1>5. CASE kind \in {"OR", "ORI"}
  <2>1. Compute(kind, a, b) = Bitwise(BitOr, a, b) BY <1>5 DEF Compute
  <2> QED BY <1>2, <2>1, BitwiseIsWord
<1>6. CASE kind \in {"XOR", "XORI"}
  <2>1. Compute(kind, a, b) = Bitwise(BitXor, a, b) BY <1>6 DEF Compute
  <2> QED BY <1>3, <2>1, BitwiseIsWord
<1> QED BY <1>4, <1>5, <1>6

\* The four bytes of a register, taken in pairs, are its limbs.
LEMMA BytesAreLimbs == ASSUME NEW v \in Words PROVE LimbsOf(ByteLimbs(BytesOf(v)), v)
<1> DEFINE pow == [i \in 1 .. 4 |-> 2 ^ (ByteBits * (i - 1))]
           byte == BytesOf(v).byte
<1>1. ByteBits \in Nat BY Bits
<1>2. /\ pow[1] = 2 ^ (ByteBits * 0) /\ pow[2] = 2 ^ (ByteBits * 1)
      /\ pow[3] = 2 ^ (ByteBits * 2) /\ pow[4] = 2 ^ (ByteBits * 3)
  <2>1. 1 - 1 = 0 /\ 2 - 1 = 1 /\ 3 - 1 = 2 /\ 4 - 1 = 3 OBVIOUS
  <2>2. /\ pow[1] = 2 ^ (ByteBits * (1 - 1)) /\ pow[2] = 2 ^ (ByteBits * (2 - 1))
        /\ pow[3] = 2 ^ (ByteBits * (3 - 1)) /\ pow[4] = 2 ^ (ByteBits * (4 - 1))
    OBVIOUS
  <2> HIDE DEF pow
  <2> QED BY <2>1, <2>2
<1>3. byte = [i \in 1 .. 4 |-> (v \div pow[i]) % ByteRange] BY DEF BytesOf, Digits, ByteRange
<1> HIDE DEF pow, byte
<1>4. byte[1] = Byte1(v) /\ byte[2] = Byte2(v) /\ byte[3] = Byte3(v) /\ byte[4] = Byte4(v)
  BY <1>2, <1>3, ShiftedWord
<1>5. ByteLimbs(BytesOf(v)).limb = [i \in 1 .. 2 |-> Field(byte[2 * i - 1] + byte[2 * i] * ByteRange)]
  BY DEF ByteLimbs, byte
<1>6. ByteLimbs(BytesOf(v)).limb = <<Field(byte[1] + byte[2] * ByteRange), Field(byte[3] + byte[4] * ByteRange)>>
  <2>1. 2 * 1 - 1 = 1 /\ 2 * 1 = 2 /\ 2 * 2 - 1 = 3 /\ 2 * 2 = 4 OBVIOUS
  <2> QED BY <1>5, <2>1
<1>7. /\ byte[1] + byte[2] * ByteRange = v % LimbRange /\ byte[3] + byte[4] * ByteRange = v \div LimbRange
  BY <1>4, BytesOfWord
<1>8. v % LimbRange \in LimbWords /\ v \div LimbRange \in LimbWords
      /\ Digits(v, LimbBits, 2) = <<v % LimbRange, v \div LimbRange>>
  BY LimbsOfWord
<1>9. Field(v % LimbRange) = v % LimbRange /\ Field(v \div LimbRange) = v \div LimbRange BY <1>8, LimbIsWord
<1> QED BY <1>6, <1>7, <1>8, <1>9 DEF LimbsOf

LEMMA LogicMatches ==
    ASSUME NEW s, IsR(s), s.kind \in LogicKinds
    PROVE  Matches(LogicCircuit(s.kind, LogicRow(s)), s)
<1> DEFINE a == s.op["rs1"].after  b == s.op["rs2"].after  d == s.op["rd"].after
           r == LogicRow(s)  c == r.cells
           f == Logic(s.kind, c.rs1_read, c.rs2_read, c.rd_written)
           g == RInsn(r, s.kind, ByteLimbs(c.rs1_read), ByteLimbs(c.rs2_read), ByteLimbs(c.rd_written))
<1>1. a \in Words /\ b \in Words /\ d = Compute(s.kind, a, b) BY DEF IsR, ReadsWord
<1>2. d \in Words BY <1>1, LogicIsWord
<1>3. RowFor(r, s) BY RowOfStep DEF LogicRow
<1>4. c.rs1_read = BytesOf(a) /\ c.rs2_read = BytesOf(b) /\ c.rd_written = BytesOf(d) BY DEF LogicRow, AssignRow
<1>5. LogicCircuit(s.kind, r) = f \o g BY DEF LogicCircuit
<1> HIDE DEF r, c
<1>6. LimbsOf(ByteLimbs(c.rs1_read), a) /\ LimbsOf(ByteLimbs(c.rs2_read), b) /\ LimbsOf(ByteLimbs(c.rd_written), d)
  BY <1>1, <1>2, <1>4, BytesAreLimbs
<1>7. Matches(g, s) BY <1>3, <1>6, FrameR DEF Matches
<1>8. Silent(f) BY SilentLogic
<1> HIDE DEF f, g
<1> QED BY <1>5, <1>7, <1>8, SilentMatches DEF r

LEMMA LogicImmMatches ==
    ASSUME NEW s, IsI(s), s.kind \in LogicImmKinds
    PROVE  Matches(LogicImmCircuit(s.kind, LogicImmRow(s)), s)
<1> DEFINE a == s.op["rs1"].after  d == s.op["rd"].after  w == Wrapped(s.insn.imm)
           r == LogicImmRow(s)  c == r.cells
           next == r.pc + PC_STEP_SIZE
           f == Logic(s.kind, c.rs1_read, c.imm, c.rd_written)
           g == IInsn(r, s.kind, ByteValue(c.imm), ByteLimbs(c.rs1_read), ByteLimbs(c.rd_written), next)
<1>1. a \in Words /\ s.insn.imm \in Imms /\ d = Compute(s.kind, a, w) BY DEF IsI, ReadsWord
<1>2. w \in Words
  <2>1. s.insn.imm \in Int BY <1>1, ImmRange
  <2> QED BY <2>1, Sizes DEF Wrapped
<1>3. d \in Words BY <1>1, <1>2, LogicIsWord
<1>4. RowFor(r, s) BY RowOfStep DEF LogicImmRow
<1>5. c.rs1_read = BytesOf(a) /\ c.rd_written = BytesOf(d) BY DEF LogicImmRow, AssignRow
<1>6. LogicImmCircuit(s.kind, r) = f \o g BY DEF LogicImmCircuit
<1> HIDE DEF r, c
<1>7. LimbsOf(ByteLimbs(c.rs1_read), a) /\ LimbsOf(ByteLimbs(c.rd_written), d) BY <1>1, <1>3, <1>5, BytesAreLimbs
<1>8. Matches(g, s) BY <1>4, <1>7, ImmediateStep, FrameI DEF Matches
<1>9. Silent(f) BY SilentLogic
<1> HIDE DEF f, g
<1> QED BY <1>6, <1>8, <1>9, SilentMatches DEF r

-----------------------------------------------------------------------------
(***************************************************************************)
(* The circuit that stands in for any instruction.                         *)
(***************************************************************************)
\* A part that is there for some instructions only.
LEMMA JoinPart ==
    ASSUME NEW f, NEW R, NEW W, Says(f, R, W), NEW b, NEW g, NEW q, NEW w, b => Says(g, {q}, {w})
    PROVE  Says(f \o (IF b THEN g ELSE Nothing), R \union (IF b THEN {q} ELSE {}), W \union (IF b THEN {w} ELSE {}))
<1>1. CASE b
  <2>1. Says(f \o g, R \union {q}, W \union {w}) BY <1>1, JoinOne
  <2> QED BY <1>1, <2>1
<1>2. CASE ~b
  <2>1. Says(f \o Nothing, R \union {}, W \union {}) BY AskNothing, Join DEF Silent
  <2> QED BY <1>2, <2>1
<1> QED BY <1>1, <1>2

\* What a step has to be for the dummy circuit of its kind: its operations are
\* those the format and the category of the instruction name.
FitsDummy(s) ==
    /\ DOMAIN s.op \subseteq {"rs1", "rs2", "rd", "mem"}
    /\ WithRs1(s.kind) <=> "rs1" \in DOMAIN s.op
    /\ WithRs2(s.kind) <=> "rs2" \in DOMAIN s.op
    /\ WithRd(s.kind) <=> "rd" \in DOMAIN s.op
    /\ (WithMemRead(s.kind) \/ WithMemWrite(s.kind)) <=> "mem" \in DOMAIN s.op
    /\ \A o \in DOMAIN s.op \cap {"rs1", "rs2"} : s.op[o].before = s.op[o].after
    /\ "mem" \in DOMAIN s.op =>
         /\ 4 * s.op["mem"].id \in Words /\ s.op["mem"].before \in Words /\ s.op["mem"].after \in Words
         /\ WithMemRead(s.kind) => s.op["mem"].before = s.op["mem"].after
    /\ s.next \in Words /\ (Branching(s.kind) \/ NextInsn(s))

LEMMA DummyMatches ==
    ASSUME NEW s, FitsDummy(s)
    PROVE  Matches(DummyCircuit(s.kind, DummyRow(s)), s)
<1> DEFINE r == DummyRow(s)  c == r.cells  kind == s.kind
           next == IF Branching(kind) THEN r.next ELSE r.pc + PC_STEP_SIZE
           f0 == StateTo(r, next)
           g1 == RegisterRead(r, "rs1", c.rs1_read)
           g2 == RegisterRead(r, "rs2", c.rs2_read)
           g3 == WriteRD(r, c.rd_written)
           g4 == MemoryWrite(r, c.mem_addr.value, c.mem_before.value, c.mem_before.value)
           g5 == MemoryWrite(r, c.mem_addr.value, c.mem_before.value, c.mem_after.value)
           g6 == LkFetch(r, kind, Encoded(r, kind, WithRd(kind), "rd", RD_NULL),
                         Encoded(r, kind, WithRs1(kind), "rs1", 0), Encoded(r, kind, WithRs2(kind), "rs2", 0),
                         c.imm.value)
           f1 == f0 \o (IF WithRs1(kind) THEN g1 ELSE Nothing)
           f2 == f1 \o (IF WithRs2(kind) THEN g2 ELSE Nothing)
           f3 == f2 \o (IF WithRd(kind) THEN g3 ELSE Nothing)
           f4 == f3 \o (IF WithMemRead(kind) THEN g4 ELSE Nothing)
           f5 == f4 \o (IF WithMemWrite(kind) THEN g5 ELSE Nothing)
           q0 == <<"state", s.pc, Cycle>>  w0 == <<"state", s.next, Cycle + SUBCYCLES_PER_INSN>>
           took(o) == StepTook(s, o)
           left(o) == StepLeft(s, o)
<1>1. RowFor(r, s) /\ c = DummyCells(s)
  <2>1. r = Elsewhere(s, DummyCells(s), "DUMMY") BY DEF DummyRow, Elsewhere
  <2> HIDE DEF r
  <2> QED BY <2>1, RowElsewhere
<1>2. /\ WithRs1(kind) => c.rs1_read = ValueUnchecked(s.op.rs1.after)
      /\ WithRs2(kind) => c.rs2_read = ValueUnchecked(s.op.rs2.after)
      /\ WithRd(kind) => c.rd_written = ValueUnchecked(s.op.rd.after)
      /\ WithMemRead(kind) \/ WithMemWrite(kind) =>
           /\ c.mem_addr = Cell(4 * s.op.mem.id) /\ c.mem_before = Cell(s.op.mem.before)
           /\ c.mem_after = Cell(s.op.mem.after)
  BY <1>1 DEF DummyCells
<1>3. DummyCircuit(kind, r) = f5 \o g6 BY DEF DummyCircuit
<1> HIDE DEF r, c
<1>4. Says(f0, {q0}, {w0})
  <2>1. next = s.next BY <1>1 DEF FitsDummy, NextInsn, RowFor
  <2>2. Field(s.next) = s.next BY WordIsField DEF FitsDummy
  <2> HIDE DEF next
  <2>3. StateRead(r) = q0 /\ StateWrite(r, next) = w0 BY <1>1, <2>1, <2>2, RowRecords
  <2> QED BY <2>3, StateAsks
<1>5. WithRs1(kind) => Says(g1, {took("rs1")}, {left("rs1")})
  <2> SUFFICES ASSUME WithRs1(kind) PROVE Says(g1, {took("rs1")}, {left("rs1")}) OBVIOUS
  <2>1. "rs1" \in DOMAIN s.op \ MemoryOps /\ s.op["rs1"].before = s.op["rs1"].after BY DEF FitsDummy, MemoryOps
  <2>2. c.rs1_read.limb = Digits(s.op["rs1"].after, LimbBits, 2) BY <1>2 DEF ValueUnchecked
  <2>3. TookReg(r, "rs1", c.rs1_read.limb) = took("rs1") /\ LeftReg(r, "rs1", c.rs1_read.limb) = left("rs1")
    BY <1>1, <2>1, <2>2, RowRecords
  <2> QED BY <2>3, RegisterReadAsks
<1>6. WithRs2(kind) => Says(g2, {took("rs2")}, {left("rs2")})
  <2> SUFFICES ASSUME WithRs2(kind) PROVE Says(g2, {took("rs2")}, {left("rs2")}) OBVIOUS
  <2>1. "rs2" \in DOMAIN s.op \ MemoryOps /\ s.op["rs2"].before = s.op["rs2"].after BY DEF FitsDummy, MemoryOps
  <2>2. c.rs2_read.limb = Digits(s.op["rs2"].after, LimbBits, 2) BY <1>2 DEF ValueUnchecked
  <2>3. TookReg(r, "rs2", c.rs2_read.limb) = took("rs2") /\ LeftReg(r, "rs2", c.rs2_read.limb) = left("rs2")
    BY <1>1, <2>1, <2>2, RowRecords
  <2> QED BY <2>3, RegisterReadAsks
<1>7. WithRd(kind) => Says(g3, {took("rd")}, {left("rd")})
  <2> SUFFICES ASSUME WithRd(kind) PROVE Says(g3, {took("rd")}, {left("rd")}) OBVIOUS
  <2>1. "rd" \in DOMAIN s.op \ MemoryOps BY DEF FitsDummy, MemoryOps
  <2>2. c.rd_written.limb = Digits(s.op["rd"].after, LimbBits, 2) BY <1>2 DEF ValueUnchecked
  <2>3. FoundRd(r) = took("rd") /\ LeftReg(r, "rd", c.rd_written.limb) = left("rd")
    BY <1>1, <2>1, <2>2, RowRecords
  <2> QED BY <2>3, WriteRDAsks
<1>8. WithMemRead(kind) \/ WithMemWrite(kind) =>
        /\ "mem" \in DOMAIN s.op /\ Field(c.mem_addr.value) = 4 * s.op["mem"].id
        /\ c.mem_before.value = s.op["mem"].before /\ Field(c.mem_before.value) = s.op["mem"].before
        /\ Field(c.mem_after.value) = s.op["mem"].after
  <2> SUFFICES ASSUME WithMemRead(kind) \/ WithMemWrite(kind)
               PROVE  /\ "mem" \in DOMAIN s.op /\ Field(c.mem_addr.value) = 4 * s.op["mem"].id
                      /\ c.mem_before.value = s.op["mem"].before /\ Field(c.mem_before.value) = s.op["mem"].before
                      /\ Field(c.mem_after.value) = s.op["mem"].after
    OBVIOUS
  <2> DEFINE at == 4 * s.op["mem"].id  before == s.op["mem"].before  after == s.op["mem"].after
  <2>1. "mem" \in DOMAIN s.op /\ at \in Words /\ before \in Words /\ after \in Words BY DEF FitsDummy
  <2>2. c.mem_addr.value = Field(at) /\ c.mem_before.value = Field(before) /\ c.mem_after.value = Field(after)
    BY <1>2 DEF Cell
  <2> HIDE DEF at, before, after
  <2>3. Field(at) = at /\ Field(before) = before /\ Field(after) = after BY <2>1, WordIsField
  <2> QED BY <2>1, <2>2, <2>3 DEF at, before, after
<1>9. WithMemRead(kind) => Says(g4, {took("mem")}, {left("mem")})
  <2> SUFFICES ASSUME WithMemRead(kind) PROVE Says(g4, {took("mem")}, {left("mem")}) OBVIOUS
  <2>1. s.op["mem"].before = s.op["mem"].after BY <1>8 DEF FitsDummy
  <2>2. /\ TookMem(r, c.mem_addr.value, c.mem_before.value) = took("mem")
        /\ LeftMem(r, c.mem_addr.value, c.mem_before.value) = left("mem")
    BY <1>1, <1>8, <2>1, RowMemory
  <2> QED BY <2>2, MemoryWriteAsks
<1>10. WithMemWrite(kind) => Says(g5, {took("mem")}, {left("mem")})
  <2> SUFFICES ASSUME WithMemWrite(kind) PROVE Says(g5, {took("mem")}, {left("mem")}) OBVIOUS
  <2>1. /\ TookMem(r, c.mem_addr.value, c.mem_before.value) = took("mem")
        /\ LeftMem(r, c.mem_addr.value, c.mem_after.value) = left("mem")
    BY <1>1, <1>8, RowMemory
  <2> QED BY <2>1, MemoryWriteAsks
<1> HIDE DEF f0, g1, g2, g3, g4, g5, q0, w0, took, left
<1> DEFINE some(b, x) == IF b THEN {x} ELSE {}
           R1 == {q0} \union some(WithRs1(kind), took("rs1"))   W1 == {w0} \union some(WithRs1(kind), left("rs1"))
           R2 == R1 \union some(WithRs2(kind), took("rs2"))     W2 == W1 \union some(WithRs2(kind), left("rs2"))
           R3 == R2 \union some(WithRd(kind), took("rd"))       W3 == W2 \union some(WithRd(kind), left("rd"))
           R4 == R3 \union some(WithMemRead(kind), took("mem")) W4 == W3 \union some(WithMemRead(kind), left("mem"))
           R5 == R4 \union some(WithMemWrite(kind), took("mem")) W5 == W4 \union some(WithMemWrite(kind), left("mem"))
<1>11. Says(f1, R1, W1) BY <1>4, <1>5, JoinPart
<1> HIDE DEF f1
<1>12. Says(f2, R2, W2) BY <1>6, <1>11, JoinPart
<1> HIDE DEF f2
<1>13. Says(f3, R3, W3) BY <1>7, <1>12, JoinPart
<1> HIDE DEF f3
<1>14. Says(f4, R4, W4) BY <1>9, <1>13, JoinPart
<1> HIDE DEF f4
<1>15. Says(f5, R5, W5) BY <1>10, <1>14, JoinPart
<1> HIDE DEF f5
<1>16. Says(f5 \o g6, R5, W5) BY <1>15, FetchSilent, SilentJoin
<1>17. /\ WithRs1(kind) <=> "rs1" \in DOMAIN s.op
       /\ WithRs2(kind) <=> "rs2" \in DOMAIN s.op
       /\ WithRd(kind) <=> "rd" \in DOMAIN s.op
       /\ (WithMemRead(kind) \/ WithMemWrite(kind)) <=> "mem" \in DOMAIN s.op
       /\ DOMAIN s.op \subseteq {"rs1", "rs2", "rd", "mem"}
  BY DEF FitsDummy
<1>18. R5 = {q0} \union {took(o) : o \in DOMAIN s.op} /\ W5 = {w0} \union {left(o) : o \in DOMAIN s.op}
  <2> HIDE DEF kind
  <2>1. R5 = {q0} \union {took(o) : o \in DOMAIN s.op} BY <1>17
  <2>2. W5 = {w0} \union {left(o) : o \in DOMAIN s.op} BY <1>17
  <2> QED BY <2>1, <2>2
<1>19. R5 = RecordsRead(s) /\ W5 = RecordsWritten(s) BY <1>18, RecordsOf DEF took, left, q0, w0
<1> QED BY <1>3, <1>16, <1>19 DEF Matches, r

\* Where the word of a call may be.
LEMMA CallWord == ASSUME NEW i \in 0 .. 3 PROVE 4 * i \in Words
<1>1. WordRange \in Nat /\ Words = 0 .. WordRange - 1 BY Sizes
<1>2. WordRange >= 16
  <2>1. WordRange = LimbRange * LimbRange /\ LimbRange = ByteRange * ByteRange /\ ByteRange \in Nat /\ ByteRange >= 2
    BY Bits, Sizes
  <2>2. LimbRange >= 4 /\ LimbRange \in Nat BY <2>1
  <2> QED BY <2>1, <2>2
<1> QED BY <1>1, <1>2

IsOrdinary(s) ==
    IsR(s) \/ IsI(s) \/ IsBranch(s) \/ IsJal(s) \/ IsJalr(s) \/ IsLoad(s) \/ IsStore(s)

LEMMA StepsFit == ASSUME NEW s, IsOrdinary(s) \/ IsUnknownEcall(s) PROVE FitsDummy(s)
<1> USE DEF RKinds, IKinds, WithRs1, WithRs2, WithRd, WithMemRead, WithMemWrite, Branching
<1>1. CASE IsR(s)
  <2>1. s.next \in Words /\ NextInsn(s) BY <1>1, NextIsField DEF IsR, Completes
  <2> QED BY <1>1, <2>1 DEF IsR, Completes, ReadsWord, FitsDummy
<1>2. CASE IsI(s)
  <2>1. s.next \in Words /\ NextInsn(s) BY <1>2, NextIsField DEF IsI, Completes
  <2> QED BY <1>2, <2>1 DEF IsI, Completes, ReadsWord, FitsDummy
<1>3. CASE IsBranch(s) BY <1>3 DEF IsBranch, Completes, ReadsWord, FitsDummy
<1>4. CASE IsJal(s) BY <1>4 DEF IsJal, Completes, ReadsWord, FitsDummy
<1>5. CASE IsJalr(s) BY <1>5 DEF IsJalr, Completes, ReadsWord, FitsDummy
<1>6. CASE IsLoad(s)
  <2>1. s.next \in Words /\ NextInsn(s) BY <1>6, NextIsField DEF IsLoad, Completes
  <2>2. 4 * s.op["mem"].id \in Words BY <1>6, AddressParts DEF IsLoad
  <2> QED BY <1>6, <2>1, <2>2 DEF IsLoad, Completes, ReadsWord, FitsDummy
<1>7. CASE IsStore(s)
  <2>1. s.next \in Words /\ NextInsn(s) BY <1>7, NextIsField DEF IsStore, Completes
  <2>2. 4 * s.op["mem"].id \in Words BY <1>7, AddressParts DEF IsStore
  <2>3. s.op["mem"].after \in Words BY <1>7, StoredIs DEF IsStore, Completes, ReadsWord
  <2> QED BY <1>7, <2>1, <2>2, <2>3 DEF IsStore, Completes, ReadsWord, FitsDummy
<1>8. CASE IsUnknownEcall(s)
  <2>1. s.next \in Words /\ NextInsn(s) BY <1>8, NextIsField DEF IsUnknownEcall, Completes
  <2>2. 4 * s.op["mem"].id \in Words BY <1>8, CallWord DEF IsUnknownEcall
  <2> QED BY <1>8, <2>1, <2>2 DEF IsUnknownEcall, CallsWith, Completes, ReadsWord, FitsDummy
<1> QED BY <1>1, <1>2, <1>3, <1>4, <1>5, <1>6, <1>7, <1>8 DEF IsOrdinary

-----------------------------------------------------------------------------
(***************************************************************************)
(* The circuit of the opcode.                                              *)
(***************************************************************************)
RowOf(s) ==
    CASE s.kind \in ArithKinds    -> ArithRow(s)
      [] s.kind \in ArithImmKinds -> ArithImmRow(s)
      [] s.kind \in MulKinds      -> MulRow(s)
      [] s.kind \in DivKinds      -> DivRow(s)
      [] s.kind \in ShiftKinds    -> ShiftRow(s)
      [] s.kind \in ShiftImmKinds -> ShiftImmRow(s)
      [] s.kind \in SltKinds      -> SltRow(s)
      [] s.kind \in SltImmKinds   -> SltImmRow(s)
      [] s.kind \in LogicKinds    -> LogicRow(s)
      [] s.kind \in LogicImmKinds -> LogicImmRow(s)
      [] s.kind \in BranchKinds   -> BranchRow(s)
      [] s.kind \in LoadKinds     -> LoadRow(s)
      [] s.kind \in StoreKinds    -> StoreRow(s)
      [] s.kind = "JAL"           -> JalRow(s)
      [] s.kind = "JALR"          -> JalrRow(s)
      [] s.kind = "ECALL"         -> HaltRow(s)

OpcodeKinds == RKinds \union IKinds \union BranchKinds \union LoadKinds \union StoreKinds \union {"JAL", "JALR"}

\* The row assigned to the circuit of the opcode carries its name.
LEMMA OpcodeRow ==
    ASSUME NEW s, s.kind \in OpcodeKinds \/ s.kind = "ECALL"
    PROVE  RowOf(s).circuit = s.kind
<1> USE DEF AssignRow, RowOf
<1>1. s.kind \in ArithKinds => RowOf(s).circuit = s.kind BY DEF ArithRow
<1>2. s.kind \in ArithImmKinds => RowOf(s).circuit = s.kind BY DEF ArithImmRow
<1>3. s.kind \in MulKinds => RowOf(s).circuit = s.kind BY DEF MulRow
<1>4. s.kind \in DivKinds => RowOf(s).circuit = s.kind BY DEF DivRow
<1>5. s.kind \in ShiftKinds => RowOf(s).circuit = s.kind BY DEF ShiftRow
<1>6. s.kind \in ShiftImmKinds => RowOf(s).circuit = s.kind BY DEF ShiftImmRow
<1>7. s.kind \in SltKinds => RowOf(s).circuit = s.kind BY DEF SltRow
<1>8. s.kind \in SltImmKinds => RowOf(s).circuit = s.kind BY DEF SltImmRow
<1>9. s.kind \in LogicKinds => RowOf(s).circuit = s.kind BY DEF LogicRow
<1>10. s.kind \in LogicImmKinds => RowOf(s).circuit = s.kind BY DEF LogicImmRow
<1>11. s.kind \in BranchKinds => RowOf(s).circuit = s.kind BY DEF BranchRow
<1>12. s.kind \in LoadKinds => RowOf(s).circuit = s.kind BY DEF LoadRow
<1>13. s.kind \in StoreKinds => RowOf(s).circuit = s.kind BY DEF StoreRow
<1>14. s.kind = "JAL" => RowOf(s).circuit = s.kind BY DEF JalRow
<1>15. s.kind = "JALR" => RowOf(s).circuit = s.kind BY DEF JalrRow
<1>16. s.kind = "ECALL" => RowOf(s).circuit = s.kind BY DEF HaltRow
<1> HIDE DEF AssignRow, RowOf
<1> QED BY <1>1, <1>2, <1>3, <1>4, <1>5, <1>6, <1>7, <1>8, <1>9, <1>10, <1>11, <1>12, <1>13, <1>14, <1>15,
           <1>16 DEF OpcodeKinds, RKinds, IKinds

LEMMA OpcodeMatches ==
    ASSUME NEW s, IsOrdinary(s) \/ IsHalt(s)
    PROVE  Matches(CircuitOf(s.kind, RowOf(s)), s)
<1> DEFINE k == s.kind  m == Matches(CircuitOf(k, RowOf(s)), s)
<1>1. /\ k \in RKinds => IsR(s)
      /\ k \in IKinds => IsI(s)
      /\ k \in BranchKinds => IsBranch(s)
      /\ k \in LoadKinds => IsLoad(s)
      /\ k \in StoreKinds => IsStore(s)
      /\ k = "JAL" => IsJal(s)
      /\ k = "JALR" => IsJalr(s)
      /\ k = "ECALL" => IsHalt(s)
      /\ k \in OpcodeKinds \/ k = "ECALL"
  BY DEF IsOrdinary, IsR, IsI, IsBranch, IsLoad, IsStore, IsJal, IsJalr, IsHalt, Completes, RKinds, IKinds,
         OpcodeKinds
<1>2. CircuitOf(k, RowOf(s)) = Circuit(k, RowOf(s))
  <2>1. RowOf(s).circuit = k BY <1>1, OpcodeRow
  <2>2. k \notin {"DUMMY", "LARGE"} BY <1>1 DEF OpcodeKinds, RKinds, IKinds
  <2> QED BY <2>1, <2>2 DEF CircuitOf
<1>3. k \in ArithKinds => m BY <1>1, <1>2, ArithMatches DEF RowOf, Circuit, RKinds
<1>4. k \in ArithImmKinds => m BY <1>1, <1>2, ArithImmMatches DEF RowOf, Circuit, IKinds
<1>5. k \in MulKinds => m BY <1>1, <1>2, MulMatches DEF RowOf, Circuit, RKinds
<1>6. k \in DivKinds => m BY <1>1, <1>2, DivMatches DEF RowOf, Circuit, RKinds
<1>7. k \in ShiftKinds => m BY <1>1, <1>2, ShiftMatches DEF RowOf, Circuit, RKinds
<1>8. k \in ShiftImmKinds => m BY <1>1, <1>2, ShiftImmMatches DEF RowOf, Circuit, IKinds
<1>9. k \in SltKinds => m BY <1>1, <1>2, SltMatches DEF RowOf, Circuit, RKinds
<1>10. k \in SltImmKinds => m BY <1>1, <1>2, SltImmMatches DEF RowOf, Circuit, IKinds
<1>11. k \in LogicKinds => m BY <1>1, <1>2, LogicMatches DEF RowOf, Circuit, RKinds
<1>12. k \in LogicImmKinds => m BY <1>1, <1>2, LogicImmMatches DEF RowOf, Circuit, IKinds
<1>13. k \in BranchKinds => m BY <1>1, <1>2, BranchMatches DEF RowOf, Circuit
<1>14. k \in LoadKinds => m BY <1>1, <1>2, LoadMatches DEF RowOf, Circuit
<1>15. k \in StoreKinds => m BY <1>1, <1>2, StoreMatches DEF RowOf, Circuit
<1>16. k = "JAL" => m BY <1>1, <1>2, JalMatches DEF RowOf, Circuit
<1>17. k = "JALR" => m BY <1>1, <1>2, JalrMatches DEF RowOf, Circuit
<1>18. k = "ECALL" => m BY <1>1, <1>2, HaltMatches DEF RowOf, Circuit
<1> HIDE DEF m
<1>19. m
  BY <1>1, <1>3, <1>4, <1>5, <1>6, <1>7, <1>8, <1>9, <1>10, <1>11, <1>12, <1>13, <1>14, <1>15, <1>16, <1>17,
     <1>18 DEF OpcodeKinds, RKinds, IKinds
<1> QED BY <1>19 DEF m

\* A row is one of four kinds: of the circuit of the opcode, of the dummy
\* circuit, of a system call, of the halt.
RowFits(s, r) ==
    \/ (IsOrdinary(s) \/ IsHalt(s)) /\ r = RowOf(s)
    \/ (IsOrdinary(s) \/ IsUnknownEcall(s)) /\ r = DummyRow(s)
    \/ IsSyscall(s) /\ r = LargeEcallRow(s)

LEMMA FittingRowMatches ==
    ASSUME NEW s, NEW r, RowFits(s, r)
    PROVE  Matches(CircuitOf(s.kind, r), s)
<1>1. CASE (IsOrdinary(s) \/ IsHalt(s)) /\ r = RowOf(s) BY <1>1, OpcodeMatches
<1>2. CASE (IsOrdinary(s) \/ IsUnknownEcall(s)) /\ r = DummyRow(s)
  <2>1. Matches(DummyCircuit(s.kind, r), s) BY <1>2, StepsFit, DummyMatches
  <2>2. r.circuit = "DUMMY" BY <1>2, RowElsewhere DEF DummyRow, Elsewhere
  <2> QED BY <2>1, <2>2 DEF CircuitOf
<1>3. CASE IsSyscall(s) /\ r = LargeEcallRow(s)
  <2>1. Matches(LargeEcallCircuit(r), s) BY <1>3, LargeEcallMatches
  <2>2. r.circuit = "LARGE"
    <3> DEFINE word(o) == [addr |-> 4 * s.op[o].id, before |-> s.op[o].before, after |-> s.op[o].after, lk |-> <<>>]
               cells == [rs1_read |-> ValueUnchecked(s.op.rs1.after), imm |-> Cell(ImmInternal(s.insn)),
                         start_addr |-> Cell(4 * s.op.mem1.id),
                         reg1 |-> ValueUnchecked(s.op.reg1.after), reg2 |-> ValueUnchecked(s.op.reg2.after),
                         mem1 |-> word("mem1"), mem2 |-> word("mem2")]
    <3>1. r = Elsewhere(s, cells, "LARGE") BY <1>3 DEF LargeEcallRow, Elsewhere
    <3> HIDE DEF cells
    <3> QED BY <3>1, RowElsewhere
  <2> QED BY <2>1, <2>2 DEF CircuitOf
<1> QED BY <1>1, <1>2, <1>3 DEF RowFits

-----------------------------------------------------------------------------
(***************************************************************************)
(* The invariant: the step is one the emulator completes, and the row, if  *)
(* there is one, was assigned for it.                                      *)
(***************************************************************************)
RowsInv ==
    /\ step = NoStep \/ Completed(step)
    /\ row # NoRow => RowFits(step, row)

\* What the emulator hands over is what the instruction did.
LEMMA StepIs ==
    ASSUME NEW insn, NEW pc, NEW next, NEW ops, NEW last, NEW s, s = StepOf(insn, pc, next, ops, last)
    PROVE  /\ s.kind = insn.kind /\ s.insn = insn /\ s.pc = pc /\ s.next = next
           /\ DOMAIN s.op = DOMAIN ops
           /\ \A o \in DOMAIN ops :
                s.op[o].id = ops[o].id /\ s.op[o].before = ops[o].before /\ s.op[o].after = ops[o].after
<1> DEFINE Kept(o) == [id |-> ops[o].id, before |-> ops[o].before, after |-> ops[o].after,
                       prev |-> PreviousCycle(ops, o, last)]
<1>1. /\ s.kind = insn.kind /\ s.insn = insn /\ s.pc = pc /\ s.next = next
      /\ s.op = [o \in DOMAIN ops |-> Kept(o)]
  BY DEF StepOf
<1>2. \A o : Kept(o).id = ops[o].id /\ Kept(o).before = ops[o].before /\ Kept(o).after = ops[o].after
  OBVIOUS
<1> HIDE DEF Kept
<1> QED BY <1>1, <1>2

LEMMA ValuesAreWords ==
    /\ \A v \in Operands : v \in Words
    /\ \A v \in Bases : v \in Words
    /\ \A v \in Previous : v \in Words
  BY StepAssumption

LEMMA CodesApart == SyscallCode # HaltCode /\ UnknownCode # HaltCode /\ SyscallCode # UnknownCode
<1>1. \A x, y : IsFiniteSet({x, y}) /\ Cardinality({x, y}) \in Nat /\ Cardinality({x, y}) <= 2
  <2> SUFFICES ASSUME NEW x, NEW y
               PROVE  IsFiniteSet({x, y}) /\ Cardinality({x, y}) \in Nat /\ Cardinality({x, y}) <= 2
    OBVIOUS
  <2> DEFINE S == {x}
  <2>1. IsFiniteSet(S) /\ Cardinality(S) = 1 BY FS_Singleton
  <2>2. {x, y} = S \union {y} OBVIOUS
  <2> HIDE DEF S
  <2>3. /\ IsFiniteSet(S \union {y})
        /\ Cardinality(S \union {y}) = IF y \in S THEN Cardinality(S) ELSE Cardinality(S) + 1
    BY <2>1, FS_AddElement
  <2>4. Cardinality(S \union {y}) \in {1, 2} BY <2>1, <2>3
  <2> QED BY <2>2, <2>3, <2>4
<1>2. Cardinality({0, SyscallCode, UnknownCode}) = 3 BY StepAssumption
<1>3. SyscallCode = 0 => {0, SyscallCode, UnknownCode} = {0, UnknownCode} OBVIOUS
<1>4. UnknownCode = 0 => {0, SyscallCode, UnknownCode} = {0, SyscallCode} OBVIOUS
<1>5. SyscallCode = UnknownCode => {0, SyscallCode, UnknownCode} = {0, SyscallCode} OBVIOUS
<1> QED BY <1>1, <1>2, <1>3, <1>4, <1>5 DEF HaltCode

LEMMA ExecutedR == ASSUME ExecuteR PROVE IsR(step') /\ UNCHANGED row
<1>1. PICK kind \in RKinds, regs \in RegisterTriples, a \in Operands, b \in Operands, old \in Previous, pc \in Pcs :
         Execute(Insn(kind, regs[3], regs[1], regs[2], 0), pc, pc + PC_STEP_SIZE,
                 [rs1 |-> ReadOp(regs[1], a), rs2 |-> ReadOp(regs[2], b),
                  rd |-> Op(RdInternal(regs[3]), IF regs[3] = regs[1] THEN a ELSE old, Compute(kind, a, b))])
  BY DEF ExecuteR
<1> DEFINE insn == Insn(kind, regs[3], regs[1], regs[2], 0)
           ops == [rs1 |-> ReadOp(regs[1], a), rs2 |-> ReadOp(regs[2], b),
                   rd |-> Op(RdInternal(regs[3]), IF regs[3] = regs[1] THEN a ELSE old, Compute(kind, a, b))]
<1>2. PICK last : step' = StepOf(insn, pc, pc + PC_STEP_SIZE, ops, last) BY <1>1 DEF Execute
<1>3. /\ DOMAIN ops = {"rs1", "rs2", "rd"} /\ ops["rs1"].before = a /\ ops["rs1"].after = a
      /\ ops["rs2"].before = b /\ ops["rs2"].after = b /\ ops["rd"].after = Compute(kind, a, b)
  BY DEF ReadOp, Op
<1>4. insn.kind = kind BY DEF Insn
<1> HIDE DEF insn, ops
<1>5. a \in Words /\ b \in Words BY ValuesAreWords
<1>6. \A s : s = StepOf(insn, pc, pc + PC_STEP_SIZE, ops, last) => IsR(s)
  BY <1>3, <1>4, <1>5, StepIs DEF IsR, Completes, NextInsn, ReadsWord
<1> QED BY <1>1, <1>2, <1>6 DEF Execute

LEMMA ExecutedI == ASSUME ExecuteI PROVE IsI(step') /\ UNCHANGED row
<1>1. PICK kind \in IKinds, rd \in {0, 1, 3}, a \in Operands, imm \in Imms, old \in Previous, pc \in Pcs :
         /\ kind \in ShiftImmKinds => imm \in 0 .. WordBits - 1
         /\ Execute(Insn(kind, rd, 1, 0, imm), pc, pc + PC_STEP_SIZE,
                    [rs1 |-> ReadOp(1, a),
                     rd |-> Op(RdInternal(rd), IF rd = 1 THEN a ELSE old, Compute(kind, a, Wrapped(imm)))])
  BY DEF ExecuteI
<1> DEFINE insn == Insn(kind, rd, 1, 0, imm)
           ops == [rs1 |-> ReadOp(1, a),
                   rd |-> Op(RdInternal(rd), IF rd = 1 THEN a ELSE old, Compute(kind, a, Wrapped(imm)))]
<1>2. PICK last : step' = StepOf(insn, pc, pc + PC_STEP_SIZE, ops, last) BY <1>1 DEF Execute
<1>3. /\ DOMAIN ops = {"rs1", "rd"} /\ ops["rs1"].before = a /\ ops["rs1"].after = a
      /\ ops["rd"].after = Compute(kind, a, Wrapped(imm))
  BY DEF ReadOp, Op
<1>4. insn.kind = kind /\ insn.imm = imm BY DEF Insn
<1> HIDE DEF insn, ops
<1>5. a \in Words BY ValuesAreWords
<1>6. \A s : s = StepOf(insn, pc, pc + PC_STEP_SIZE, ops, last) => IsI(s)
  BY <1>1, <1>3, <1>4, <1>5, StepIs DEF IsI, Completes, NextInsn, ReadsWord
<1> QED BY <1>1, <1>2, <1>6 DEF Execute

LEMMA ExecutedBranch == ASSUME ExecuteBranch PROVE IsBranch(step') /\ UNCHANGED row
<1>1. PICK kind \in BranchKinds, rs2 \in {1, 2}, a \in Operands, b \in Operands, imm \in Imms, pc \in Pcs :
         LET next == pc + IF Taken(kind, a, b) THEN imm ELSE PC_STEP_SIZE
         IN  /\ next \in Words
             /\ Execute(Insn(kind, 0, 1, rs2, imm), pc, next, [rs1 |-> ReadOp(1, a), rs2 |-> ReadOp(rs2, b)])
  BY DEF ExecuteBranch
<1> DEFINE insn == Insn(kind, 0, 1, rs2, imm)
           next == pc + IF Taken(kind, a, b) THEN imm ELSE PC_STEP_SIZE
           ops == [rs1 |-> ReadOp(1, a), rs2 |-> ReadOp(rs2, b)]
<1>2. PICK last : step' = StepOf(insn, pc, next, ops, last) BY <1>1 DEF Execute
<1>3. /\ DOMAIN ops = {"rs1", "rs2"} /\ ops["rs1"].before = a /\ ops["rs1"].after = a
      /\ ops["rs2"].before = b /\ ops["rs2"].after = b
  BY DEF ReadOp, Op
<1>4. insn.kind = kind /\ insn.imm = imm BY DEF Insn
<1>5. a \in Words /\ b \in Words /\ next \in Words BY <1>1, ValuesAreWords
<1> HIDE DEF insn, ops
<1>6. \A s : s = StepOf(insn, pc, next, ops, last) => IsBranch(s)
  BY <1>3, <1>4, <1>5, StepIs DEF IsBranch, Completes, ReadsWord
<1> QED BY <1>1, <1>2, <1>6 DEF Execute

LEMMA ExecutedJal == ASSUME ExecuteJal PROVE IsJal(step') /\ UNCHANGED row
<1>1. PICK rd \in {0, 3}, old \in Previous, imm \in Imms, pc \in Pcs :
         /\ pc + imm \in Words
         /\ Execute(Insn("JAL", rd, 0, 0, imm), pc, pc + imm, [rd |-> Op(RdInternal(rd), old, pc + PC_STEP_SIZE)])
  BY DEF ExecuteJal
<1> DEFINE insn == Insn("JAL", rd, 0, 0, imm)
           ops == [rd |-> Op(RdInternal(rd), old, pc + PC_STEP_SIZE)]
<1>2. PICK last : step' = StepOf(insn, pc, pc + imm, ops, last) BY <1>1 DEF Execute
<1>3. DOMAIN ops = {"rd"} /\ ops["rd"].after = pc + PC_STEP_SIZE BY DEF Op
<1>4. insn.kind = "JAL" /\ insn.imm = imm BY DEF Insn
<1> HIDE DEF insn, ops
<1>5. \A s : s = StepOf(insn, pc, pc + imm, ops, last) => IsJal(s)
  BY <1>1, <1>3, <1>4, StepIs DEF IsJal, Completes
<1> QED BY <1>1, <1>2, <1>5 DEF Execute

LEMMA EvenBelow == \A t \in Words : t - (t % 2) \in Words
<1> SUFFICES ASSUME NEW t \in Words PROVE t - (t % 2) \in Words OBVIOUS
<1>1. WordRange \in Nat /\ Words = 0 .. WordRange - 1 BY Sizes
<1>2. t \in Nat /\ t < WordRange BY <1>1
<1>3. t % 2 \in Nat /\ t % 2 <= t BY <1>2
<1> QED BY <1>1, <1>2, <1>3

LEMMA ExecutedJalr == ASSUME ExecuteJalr PROVE IsJalr(step') /\ UNCHANGED row
<1>1. PICK rd \in {0, 1, 3}, a \in Operands, old \in Previous, imm \in Imms, pc \in Pcs :
         LET next == a + imm - ((a + imm) % 2)
         IN  /\ a + imm \in Words /\ next % 4 = 0 /\ next # pc
             /\ Execute(Insn("JALR", rd, 1, 0, imm), pc, next,
                        [rs1 |-> ReadOp(1, a),
                         rd |-> Op(RdInternal(rd), IF rd = 1 THEN a ELSE old, pc + PC_STEP_SIZE)])
  BY DEF ExecuteJalr
<1> DEFINE insn == Insn("JALR", rd, 1, 0, imm)
           next == a + imm - ((a + imm) % 2)
           ops == [rs1 |-> ReadOp(1, a), rd |-> Op(RdInternal(rd), IF rd = 1 THEN a ELSE old, pc + PC_STEP_SIZE)]
<1>2. PICK last : step' = StepOf(insn, pc, next, ops, last) BY <1>1 DEF Execute
<1>3. /\ DOMAIN ops = {"rs1", "rd"} /\ ops["rs1"].before = a /\ ops["rs1"].after = a
      /\ ops["rd"].after = pc + PC_STEP_SIZE
  BY DEF ReadOp, Op
<1>4. insn.kind = "JALR" /\ insn.imm = imm BY DEF Insn
<1>5. a \in Words /\ a + imm \in Words BY <1>1, ValuesAreWords
<1>6. next \in Words
  <2>1. (a + imm) - ((a + imm) % 2) \in Words BY <1>5, EvenBelow
  <2>2. a \in Int /\ imm \in Int /\ (a + imm) % 2 \in Int BY <1>5, ImmRange, Sizes
  <2>3. next = (a + imm) - ((a + imm) % 2) BY <2>2
  <2> QED BY <2>1, <2>3
<1> HIDE DEF insn, ops
<1>7. \A s : s = StepOf(insn, pc, next, ops, last) => IsJalr(s)
  <2> SUFFICES ASSUME NEW s, s = StepOf(insn, pc, next, ops, last) PROVE IsJalr(s) OBVIOUS
  <2>1. /\ s.kind = "JALR" /\ s.insn.kind = "JALR" /\ s.insn.imm = imm /\ s.pc = pc /\ s.next = next
        /\ DOMAIN s.op = {"rs1", "rd"}
        /\ s.op["rs1"].before = a /\ s.op["rs1"].after = a /\ s.op["rd"].after = pc + PC_STEP_SIZE
    BY <1>3, <1>4, StepIs
  <2> QED BY <1>5, <1>6, <2>1 DEF IsJalr, Completes, ReadsWord
<1> QED BY <1>1, <1>2, <1>7 DEF Execute

LEMMA ExecutedLoad == ASSUME ExecuteLoad PROVE IsLoad(step') /\ UNCHANGED row
<1>1. PICK kind \in LoadKinds, rd \in {0, 1, 3}, base \in Bases, word \in Operands, old \in Previous,
           imm \in Imms, pc \in Pcs :
         LET addr == base + imm
         IN  /\ addr \in Words /\ AlignedFor(kind, addr)
             /\ Execute(Insn(kind, rd, 1, 0, imm), pc, pc + PC_STEP_SIZE,
                        [rs1 |-> ReadOp(1, base), mem |-> ReadOp(addr \div 4, word),
                         rd |-> Op(RdInternal(rd), IF rd = 1 THEN base ELSE old, Loaded(kind, addr, word))])
  BY DEF ExecuteLoad
<1> DEFINE insn == Insn(kind, rd, 1, 0, imm)  addr == base + imm
           ops == [rs1 |-> ReadOp(1, base), mem |-> ReadOp(addr \div 4, word),
                   rd |-> Op(RdInternal(rd), IF rd = 1 THEN base ELSE old, Loaded(kind, addr, word))]
<1>2. PICK last : step' = StepOf(insn, pc, pc + PC_STEP_SIZE, ops, last) BY <1>1 DEF Execute
<1>3. /\ DOMAIN ops = {"rs1", "mem", "rd"} /\ ops["rs1"].before = base /\ ops["rs1"].after = base
      /\ ops["mem"].id = addr \div 4 /\ ops["mem"].before = word /\ ops["mem"].after = word
      /\ ops["rd"].after = Loaded(kind, addr, word)
  BY DEF ReadOp, Op
<1>4. insn.kind = kind /\ insn.imm = imm BY DEF Insn
<1>5. base \in Words /\ word \in Words /\ addr \in Words /\ AlignedFor(kind, addr) BY <1>1, ValuesAreWords
<1> HIDE DEF insn, ops
<1>6. \A s : s = StepOf(insn, pc, pc + PC_STEP_SIZE, ops, last) => IsLoad(s)
  <2> SUFFICES ASSUME NEW s, s = StepOf(insn, pc, pc + PC_STEP_SIZE, ops, last) PROVE IsLoad(s) OBVIOUS
  <2>1. /\ s.kind = kind /\ s.insn.kind = kind /\ s.insn.imm = imm /\ s.pc = pc /\ s.next = pc + PC_STEP_SIZE
        /\ DOMAIN s.op = {"rs1", "mem", "rd"} /\ s.op["rs1"].before = base /\ s.op["rs1"].after = base
        /\ s.op["mem"].id = addr \div 4 /\ s.op["mem"].before = word /\ s.op["mem"].after = word
        /\ s.op["rd"].after = Loaded(kind, addr, word)
    BY <1>3, <1>4, StepIs
  <2> QED BY <1>5, <2>1 DEF IsLoad, Completes, NextInsn, ReadsWord
<1> QED BY <1>1, <1>2, <1>6 DEF Execute

LEMMA ExecutedStore == ASSUME ExecuteStore PROVE IsStore(step') /\ UNCHANGED row
<1>1. PICK kind \in StoreKinds, rs2 \in {1, 2}, base \in Bases, word \in Operands, v \in Operands, imm \in Imms,
           pc \in Pcs :
         LET addr == base + imm
         IN  /\ addr \in Words /\ AlignedFor(kind, addr)
             /\ Execute(Insn(kind, 0, 1, rs2, imm), pc, pc + PC_STEP_SIZE,
                        [rs1 |-> ReadOp(1, base), rs2 |-> ReadOp(rs2, v),
                         mem |-> Op(addr \div 4, word, Stored(kind, addr, word, v))])
  BY DEF ExecuteStore
<1> DEFINE insn == Insn(kind, 0, 1, rs2, imm)  addr == base + imm
           ops == [rs1 |-> ReadOp(1, base), rs2 |-> ReadOp(rs2, v),
                   mem |-> Op(addr \div 4, word, Stored(kind, addr, word, v))]
<1>2. PICK last : step' = StepOf(insn, pc, pc + PC_STEP_SIZE, ops, last) BY <1>1 DEF Execute
<1>3. /\ DOMAIN ops = {"rs1", "rs2", "mem"} /\ ops["rs1"].before = base /\ ops["rs1"].after = base
      /\ ops["rs2"].before = v /\ ops["rs2"].after = v
      /\ ops["mem"].id = addr \div 4 /\ ops["mem"].before = word
      /\ ops["mem"].after = Stored(kind, addr, word, v)
  BY DEF ReadOp, Op
<1>4. insn.kind = kind /\ insn.imm = imm BY DEF Insn
<1>5. base \in Words /\ word \in Words /\ v \in Words /\ addr \in Words /\ AlignedFor(kind, addr)
  BY <1>1, ValuesAreWords
<1> HIDE DEF insn, ops
<1>6. \A s : s = StepOf(insn, pc, pc + PC_STEP_SIZE, ops, last) => IsStore(s)
  <2> SUFFICES ASSUME NEW s, s = StepOf(insn, pc, pc + PC_STEP_SIZE, ops, last) PROVE IsStore(s) OBVIOUS
  <2>1. /\ s.kind = kind /\ s.insn.kind = kind /\ s.insn.imm = imm /\ s.pc = pc /\ s.next = pc + PC_STEP_SIZE
        /\ DOMAIN s.op = {"rs1", "rs2", "mem"} /\ s.op["rs1"].before = base /\ s.op["rs1"].after = base
        /\ s.op["rs2"].before = v /\ s.op["rs2"].after = v
        /\ s.op["mem"].id = addr \div 4 /\ s.op["mem"].before = word
        /\ s.op["mem"].after = Stored(kind, addr, word, v)
    BY <1>3, <1>4, StepIs
  <2> QED BY <1>5, <2>1 DEF IsStore, Completes, NextInsn, ReadsWord
<1> QED BY <1>1, <1>2, <1>6 DEF Execute

LEMMA ExecutedHalt == ASSUME ExecuteHalt PROVE IsHalt(step') /\ UNCHANGED row
<1>1. PICK exit \in Operands, pc \in Pcs :
         Execute(Ecall, pc, EXIT_PC, [rs1 |-> ReadOp(RegEcall, HaltCode), rs2 |-> ReadOp(RegArg0, exit)])
  BY DEF ExecuteHalt
<1> DEFINE ops == [rs1 |-> ReadOp(RegEcall, HaltCode), rs2 |-> ReadOp(RegArg0, exit)]
<1>2. PICK last : step' = StepOf(Ecall, pc, EXIT_PC, ops, last) BY <1>1 DEF Execute
<1>3. /\ DOMAIN ops = {"rs1", "rs2"} /\ ops["rs1"].id = RegEcall
      /\ ops["rs1"].before = HaltCode /\ ops["rs1"].after = HaltCode
      /\ ops["rs2"].id = RegArg0 /\ ops["rs2"].before = exit /\ ops["rs2"].after = exit
  BY DEF ReadOp, Op
<1>4. Ecall.kind = "ECALL" BY DEF Insn, Ecall
<1> HIDE DEF ops
<1>5. HaltCode \in Words /\ exit \in Words BY Sizes, ValuesAreWords DEF HaltCode
<1>6. \A s : s = StepOf(Ecall, pc, EXIT_PC, ops, last) => IsHalt(s)
  BY <1>3, <1>4, <1>5, StepIs DEF IsHalt, Completes, CallsWith, ReadsWord
<1> QED BY <1>1, <1>2, <1>6 DEF Execute

LEMMA ExecutedSyscall == ASSUME ExecuteSyscall PROVE IsSyscall(step') /\ UNCHANGED row
<1>1. PICK args \in Previous \X Previous, before \in Previous \X Previous, after \in Previous \X Previous,
           addr \in {0, 2}, pc \in Pcs :
         Execute(Ecall, pc, pc + PC_STEP_SIZE,
                 [rs1 |-> ReadOp(RegEcall, SyscallCode),
                  reg1 |-> ReadOp(RegArg0, args[1]), reg2 |-> ReadOp(RegArg0 + 1, args[2]),
                  mem1 |-> Op(addr, before[1], after[1]), mem2 |-> Op(addr + 1, before[2], after[2])])
  BY DEF ExecuteSyscall
<1> DEFINE ops == [rs1 |-> ReadOp(RegEcall, SyscallCode),
                   reg1 |-> ReadOp(RegArg0, args[1]), reg2 |-> ReadOp(RegArg0 + 1, args[2]),
                   mem1 |-> Op(addr, before[1], after[1]), mem2 |-> Op(addr + 1, before[2], after[2])]
<1>2. PICK last : step' = StepOf(Ecall, pc, pc + PC_STEP_SIZE, ops, last) BY <1>1 DEF Execute
<1>3. /\ DOMAIN ops = {"rs1", "reg1", "reg2", "mem1", "mem2"} /\ ops["rs1"].id = RegEcall
      /\ ops["rs1"].before = SyscallCode /\ ops["rs1"].after = SyscallCode
      /\ ops["reg1"].before = args[1] /\ ops["reg1"].after = args[1]
      /\ ops["reg2"].before = args[2] /\ ops["reg2"].after = args[2]
      /\ ops["mem1"].id = addr /\ ops["mem1"].before = before[1] /\ ops["mem1"].after = after[1]
      /\ ops["mem2"].id = addr + 1 /\ ops["mem2"].before = before[2] /\ ops["mem2"].after = after[2]
  BY DEF ReadOp, Op
<1>4. Ecall.kind = "ECALL" BY DEF Insn, Ecall
<1> HIDE DEF ops
<1>5. /\ SyscallCode \in Words /\ args[1] \in Words /\ args[2] \in Words /\ before[1] \in Words
      /\ before[2] \in Words /\ after[1] \in Words /\ after[2] \in Words
  BY ValuesAreWords, StepAssumption
<1>6. addr \in 0 .. 3 /\ addr + 1 \in 0 .. 3 OBVIOUS
<1>7. \A s : s = StepOf(Ecall, pc, pc + PC_STEP_SIZE, ops, last) => IsSyscall(s)
  <2> SUFFICES ASSUME NEW s, s = StepOf(Ecall, pc, pc + PC_STEP_SIZE, ops, last) PROVE IsSyscall(s) OBVIOUS
  <2>1. /\ s.kind = "ECALL" /\ s.insn.kind = "ECALL" /\ s.pc = pc /\ s.next = pc + PC_STEP_SIZE
        /\ DOMAIN s.op = {"rs1", "reg1", "reg2", "mem1", "mem2"}
        /\ s.op["rs1"].id = RegEcall /\ s.op["rs1"].before = SyscallCode /\ s.op["rs1"].after = SyscallCode
        /\ s.op["reg1"].before = args[1] /\ s.op["reg1"].after = args[1]
        /\ s.op["reg2"].before = args[2] /\ s.op["reg2"].after = args[2]
        /\ s.op["mem1"].id = addr /\ s.op["mem1"].before = before[1] /\ s.op["mem1"].after = after[1]
        /\ s.op["mem2"].id = addr + 1 /\ s.op["mem2"].before = before[2] /\ s.op["mem2"].after = after[2]
    BY <1>3, <1>4, StepIs
  <2> QED BY <1>5, <1>6, <2>1 DEF IsSyscall, Completes, NextInsn, CallsWith, ReadsWord
<1> QED BY <1>1, <1>2, <1>7 DEF Execute

LEMMA ExecutedUnknownEcall == ASSUME ExecuteUnknownEcall PROVE IsUnknownEcall(step') /\ UNCHANGED row
<1>1. PICK arg \in Operands, word \in Previous, addr \in {0, 3}, pc \in Pcs :
         Execute(Ecall, pc, pc + PC_STEP_SIZE,
                 [rs1 |-> ReadOp(RegEcall, UnknownCode), rs2 |-> ReadOp(RegArg0, arg),
                  rd |-> Op(RD_NULL, 0, 0), mem |-> ReadOp(addr, word)])
  BY DEF ExecuteUnknownEcall
<1> DEFINE ops == [rs1 |-> ReadOp(RegEcall, UnknownCode), rs2 |-> ReadOp(RegArg0, arg),
                   rd |-> Op(RD_NULL, 0, 0), mem |-> ReadOp(addr, word)]
<1>2. PICK last : step' = StepOf(Ecall, pc, pc + PC_STEP_SIZE, ops, last) BY <1>1 DEF Execute
<1>3. /\ DOMAIN ops = {"rs1", "rs2", "rd", "mem"} /\ ops["rs1"].id = RegEcall
      /\ ops["rs1"].before = UnknownCode /\ ops["rs1"].after = UnknownCode
      /\ ops["rs2"].before = arg /\ ops["rs2"].after = arg
      /\ ops["rd"].before = 0 /\ ops["rd"].after = 0
      /\ ops["mem"].id = addr /\ ops["mem"].before = word /\ ops["mem"].after = word
  BY DEF ReadOp, Op
<1>4. Ecall.kind = "ECALL" BY DEF Insn, Ecall
<1> HIDE DEF ops
<1>5. UnknownCode \in Words /\ arg \in Words /\ word \in Words BY ValuesAreWords, StepAssumption
<1>6. addr \in 0 .. 3 OBVIOUS
<1>7. \A s : s = StepOf(Ecall, pc, pc + PC_STEP_SIZE, ops, last) => IsUnknownEcall(s)
  <2> SUFFICES ASSUME NEW s, s = StepOf(Ecall, pc, pc + PC_STEP_SIZE, ops, last) PROVE IsUnknownEcall(s) OBVIOUS
  <2>1. /\ s.kind = "ECALL" /\ s.insn.kind = "ECALL" /\ s.pc = pc /\ s.next = pc + PC_STEP_SIZE
        /\ DOMAIN s.op = {"rs1", "rs2", "rd", "mem"}
        /\ s.op["rs1"].id = RegEcall /\ s.op["rs1"].before = UnknownCode /\ s.op["rs1"].after = UnknownCode
        /\ s.op["rs2"].before = arg /\ s.op["rs2"].after = arg
        /\ s.op["rd"].before = 0 /\ s.op["rd"].after = 0
        /\ s.op["mem"].id = addr /\ s.op["mem"].before = word /\ s.op["mem"].after = word
    BY <1>3, <1>4, StepIs
  <2> QED BY <1>5, <1>6, <2>1 DEF IsUnknownEcall, Completes, NextInsn, CallsWith, ReadsWord
<1> QED BY <1>1, <1>2, <1>7 DEF Execute

\* Who assigns the step.
LEMMA AssignedOpcode ==
    ASSUME RowsInv,
           \/ AssignArith \/ AssignArithImm \/ AssignMul \/ AssignDiv \/ AssignShift \/ AssignShiftImm
           \/ AssignSlt \/ AssignSltImm \/ AssignLogic \/ AssignLogicImm \/ AssignBranch \/ AssignJal
           \/ AssignJalr \/ AssignLoad \/ AssignStore
    PROVE  RowFits(step, row') /\ UNCHANGED step
<1>1. step.kind \in OpcodeKinds /\ row' = RowOf(step) /\ UNCHANGED step
  BY DEF AssignArith, AssignArithImm, AssignMul, AssignDiv, AssignShift, AssignShiftImm, AssignSlt, AssignSltImm,
         AssignLogic, AssignLogicImm, AssignBranch, AssignJal, AssignJalr, AssignLoad, AssignStore, Assign,
         RowOf, OpcodeKinds, RKinds, IKinds
<1>2. step.kind \in OpcodeKinds => IsOrdinary(step)
  BY DEF RowsInv, NoStep, Completed, IsOrdinary, IsHalt, IsSyscall, IsUnknownEcall, Completes, OpcodeKinds,
         RKinds, IKinds
<1> QED BY <1>1, <1>2 DEF RowFits

LEMMA AssignedElse ==
    ASSUME RowsInv, AssignHalt \/ AssignLargeEcall \/ AssignEcallDummy \/ AssignDummy
    PROVE  RowFits(step, row') /\ UNCHANGED step
<1>1. ASSUME step.kind = "ECALL"
      PROVE  \/ IsHalt(step) /\ step.op.rs1.after = HaltCode
             \/ IsSyscall(step) /\ step.op.rs1.after = SyscallCode
             \/ IsUnknownEcall(step) /\ step.op.rs1.after = UnknownCode
  <2>1. IsHalt(step) \/ IsSyscall(step) \/ IsUnknownEcall(step)
    BY <1>1 DEF RowsInv, NoStep, Completed, IsR, IsI, IsBranch, IsJal, IsJalr, IsLoad, IsStore, Completes, RKinds,
                IKinds
  <2> QED BY <2>1 DEF IsHalt, IsSyscall, IsUnknownEcall, CallsWith
<1>2. CASE AssignHalt
  <2>1. step.kind = "ECALL" /\ step.op.rs1.after = HaltCode /\ row' = HaltRow(step) /\ UNCHANGED step
    BY <1>2 DEF AssignHalt, IsCall, Assign
  <2>2. IsHalt(step) BY <1>1, <2>1, CodesApart
  <2>3. RowOf(step) = HaltRow(step) BY <2>1 DEF RowOf
  <2> QED BY <2>1, <2>2, <2>3 DEF RowFits
<1>3. CASE AssignLargeEcall
  <2>1. step.kind = "ECALL" /\ step.op.rs1.after = SyscallCode /\ row' = LargeEcallRow(step) /\ UNCHANGED step
    BY <1>3 DEF AssignLargeEcall, IsCall, Assign
  <2>2. IsSyscall(step) BY <1>1, <2>1, CodesApart
  <2> QED BY <2>1, <2>2 DEF RowFits
<1>4. CASE AssignEcallDummy
  <2>1. step.kind = "ECALL" /\ step.op.rs1.after = UnknownCode /\ row' = DummyRow(step) /\ UNCHANGED step
    BY <1>4 DEF AssignEcallDummy, IsCall, Assign
  <2>2. IsUnknownEcall(step) BY <1>1, <2>1, CodesApart
  <2> QED BY <2>1, <2>2 DEF RowFits
<1>5. CASE AssignDummy
  <2>1. step.kind \in OpcodeKinds /\ row' = DummyRow(step) /\ UNCHANGED step
    BY <1>5 DEF AssignDummy, Assign, OpcodeKinds
  <2>2. IsOrdinary(step)
    BY <2>1 DEF RowsInv, NoStep, Completed, IsOrdinary, IsHalt, IsSyscall, IsUnknownEcall, Completes, OpcodeKinds,
                RKinds, IKinds
  <2> QED BY <2>1, <2>2 DEF RowFits
<1> QED BY <1>2, <1>3, <1>4, <1>5

LEMMA InitRows == Init => RowsInv BY DEF Init, RowsInv

LEMMA NextRows == RowsInv /\ [Next]_vars => RowsInv'
<1> SUFFICES ASSUME RowsInv, [Next]_vars PROVE RowsInv' OBVIOUS
<1>1. ASSUME \/ ExecuteR \/ ExecuteI \/ ExecuteBranch \/ ExecuteJal \/ ExecuteJalr \/ ExecuteLoad \/ ExecuteStore
             \/ ExecuteHalt \/ ExecuteSyscall \/ ExecuteUnknownEcall
      PROVE  Completed(step') /\ UNCHANGED row
  BY <1>1, ExecutedR, ExecutedI, ExecutedBranch, ExecutedJal, ExecutedJalr, ExecutedLoad, ExecutedStore,
     ExecutedHalt, ExecutedSyscall, ExecutedUnknownEcall DEF Completed
<1>2. CASE \/ ExecuteR \/ ExecuteI \/ ExecuteBranch \/ ExecuteJal \/ ExecuteJalr \/ ExecuteLoad \/ ExecuteStore
           \/ ExecuteHalt \/ ExecuteSyscall \/ ExecuteUnknownEcall
  \* A new step is completed only before a row: the row of the step before is gone.
  <2>1. step = NoStep
    BY <1>2 DEF ExecuteR, ExecuteI, ExecuteBranch, ExecuteJal, ExecuteJalr, ExecuteLoad, ExecuteStore,
                ExecuteHalt, ExecuteSyscall, ExecuteUnknownEcall
  <2>2. ~RowFits(NoStep, row)
    BY DEF NoStep, RowFits, IsOrdinary, IsR, IsI, IsBranch, IsJal, IsJalr, IsLoad, IsStore, IsHalt, IsSyscall,
           IsUnknownEcall, Completes, RKinds, IKinds
  <2>3. row = NoRow BY <2>1, <2>2 DEF RowsInv
  <2> QED BY <1>1, <1>2, <2>3 DEF RowsInv
<1>3. CASE \/ AssignArith \/ AssignArithImm \/ AssignMul \/ AssignDiv \/ AssignShift \/ AssignShiftImm
           \/ AssignSlt \/ AssignSltImm \/ AssignLogic \/ AssignLogicImm \/ AssignBranch \/ AssignJal
           \/ AssignJalr \/ AssignLoad \/ AssignStore
  <2>1. RowFits(step, row') /\ UNCHANGED step BY <1>3, AssignedOpcode
  <2> QED BY <2>1 DEF RowsInv
<1>4. CASE AssignHalt \/ AssignLargeEcall \/ AssignEcallDummy \/ AssignDummy
  <2>1. RowFits(step, row') /\ UNCHANGED step BY <1>4, AssignedElse
  <2> QED BY <2>1 DEF RowsInv
<1>5. CASE NextStep BY <1>5 DEF NextStep, RowsInv
<1>6. CASE UNCHANGED vars BY <1>6 DEF RowsInv, vars
<1> QED BY <1>2, <1>3, <1>4, <1>5, <1>6 DEF Next

\* The row of every step, for words of any width and operands of any value,
\* takes and puts exactly the records of the step the emulator completed
\* (assign_instance against construct_circuit): state, registers and memory,
\* each with the value and cycle found and the value left at its subcycle.
THEOREM RecordsMatched == Spec => []RecordsMatchStep
<1>1. RowsInv => RecordsMatchStep
  <2> SUFFICES ASSUME RowsInv, row # NoRow
               PROVE  /\ Asked(CircuitOf(step.kind, row), "read") = RecordsRead(step)
                      /\ Asked(CircuitOf(step.kind, row), "write") = RecordsWritten(step)
    BY DEF RecordsMatchStep
  <2>1. Matches(CircuitOf(step.kind, row), step) BY FittingRowMatches DEF RowsInv
  <2> QED BY <2>1 DEF Matches, Says
<1> QED BY InitRows, NextRows, <1>1, PTL DEF Spec
===============================================================================
