--------------------- MODULE InstructionCompletenessProofs ---------------------
(***************************************************************************)
(* Completeness of the instruction circuits, for words of any width, any   *)
(* field and any operands: the row assign_instance fills for a step meets  *)
(* every constraint construct_circuit states and looks up lines that the   *)
(* tables have.  The proof goes along the build of the circuits: a gadget  *)
(* is met by the cells its own assignment gives it, a frame by the         *)
(* accesses of the step, and a circuit by its parts.                       *)
(*                                                                         *)
(* At the end, the converse for products and divisions.                    *)
(***************************************************************************)
EXTENDS InstructionCircuitsProofs

USE DEF ArithKinds, ArithImmKinds, MulKinds, DivKinds, ShiftKinds, ShiftImmKinds, SltKinds,
        SltImmKinds, LogicKinds, LogicImmKinds, BranchKinds, LoadKinds, StoreKinds
-----------------------------------------------------------------------------
(***************************************************************************)
(* A circuit whose constraints vanish and whose lookups are in the tables. *)
(***************************************************************************)
Met(f) ==
    /\ IsCircuit(f)
    /\ \A i \in DOMAIN f : /\ f[i].ask = "zero" => f[i].of = 0
                           /\ f[i].ask = "lookup" => InTable(f[i].of)

\* A circuit is met when its parts are.
LEMMA MetJoin == ASSUME NEW f, NEW g, Met(f), Met(g) PROVE Met(f \o g)
<1>1. PICK U : f \in Seq(U) BY DEF Met, IsCircuit
<1>2. PICK V : g \in Seq(V) BY DEF Met, IsCircuit
<1> DEFINE T == U \cup V  h == f \o g
<1>3. f \in Seq(T) /\ g \in Seq(T)
  <2>1. /\ Len(f) \in Nat /\ DOMAIN f = 1 .. Len(f) /\ f \in [1 .. Len(f) -> U]
        /\ Len(g) \in Nat /\ DOMAIN g = 1 .. Len(g) /\ g \in [1 .. Len(g) -> V]
    BY <1>1, <1>2, LenProperties
  <2>2. f \in [1 .. Len(f) -> T] /\ g \in [1 .. Len(g) -> T] BY <2>1
  <2> QED BY <2>1, <2>2, SeqDef
<1> HIDE DEF T
<1>4. /\ h \in Seq(T) /\ Len(h) = Len(f) + Len(g)
      /\ \A i \in 1 .. Len(f) + Len(g) : h[i] = IF i <= Len(f) THEN f[i] ELSE g[i - Len(f)]
  BY <1>3, ConcatProperties
<1>5. Len(f) \in Nat /\ DOMAIN f = 1 .. Len(f) /\ Len(g) \in Nat /\ DOMAIN g = 1 .. Len(g)
      /\ DOMAIN h = 1 .. Len(f) + Len(g)
  BY <1>3, <1>4, LenProperties
<1> HIDE DEF h
<1>6. ASSUME NEW i \in DOMAIN h
      PROVE  \/ i \in DOMAIN f /\ h[i] = f[i]
             \/ i - Len(f) \in DOMAIN g /\ h[i] = g[i - Len(f)]
  BY <1>4, <1>5
<1>7. ASSUME NEW i \in DOMAIN h
      PROVE  (h[i].ask = "zero" => h[i].of = 0) /\ (h[i].ask = "lookup" => InTable(h[i].of))
  <2>1. CASE i \in DOMAIN f /\ h[i] = f[i] BY <2>1 DEF Met
  <2>2. CASE i - Len(f) \in DOMAIN g /\ h[i] = g[i - Len(f)] BY <2>2 DEF Met
  <2> QED BY <1>6, <2>1, <2>2
<1>8. IsCircuit(h) BY <1>4 DEF IsCircuit
<1> QED BY <1>7, <1>8 DEF Met, h

\* A circuit that asks one thing.
LEMMA MetOne ==
    ASSUME NEW what, NEW x, what = "zero" => x = 0, what = "lookup" => InTable(x)
    PROVE  Met(<<[ask |-> what, of |-> x]>>)
<1> DEFINE r == [ask |-> what, of |-> x]  f == <<r>>
<1>1. r.ask = what /\ r.of = x OBVIOUS
<1> HIDE DEF r
<1>2. f \in Seq({r}) /\ DOMAIN f = {1} /\ f[1] = r OBVIOUS
<1> HIDE DEF f
<1>3. IsCircuit(f) BY <1>2 DEF IsCircuit
<1>4. Met(f) BY <1>1, <1>2, <1>3 DEF Met
<1> QED BY <1>4 DEF f, r

LEMMA MetZero == ASSUME NEW x, Field(x) = 0 PROVE Met(RequireZero(x))
  BY MetOne DEF RequireZero
LEMMA MetLookup == ASSUME NEW l, InTable(l) PROVE Met(Lookup(l)) BY MetOne DEF Lookup
LEMMA MetRead == ASSUME NEW q PROVE Met(ReadRecord(q)) BY MetOne DEF ReadRecord
LEMMA MetWrite == ASSUME NEW q PROVE Met(WriteRecord(q)) BY MetOne DEF WriteRecord
LEMMA MetNothing == Met(Nothing)
<1>1. <<>> \in Seq({}) /\ DOMAIN <<>> = {} OBVIOUS
<1> QED BY <1>1 DEF Met, IsCircuit, Nothing

\* What the property asks.
LEMMA MetMeans ==
    ASSUME NEW f, Met(f)
    PROVE  Asked(f, "zero") \subseteq {0} /\ \A l \in Asked(f, "lookup") : InTable(l)
<1>1. ASSUME NEW x \in Asked(f, "zero") PROVE x = 0 BY DEF Asked, Met
<1>2. ASSUME NEW l \in Asked(f, "lookup") PROVE InTable(l) BY DEF Asked, Met
<1> QED BY <1>1, <1>2
-----------------------------------------------------------------------------
(***************************************************************************)
(* Constraints on numbers, reduced or not.                                 *)
(***************************************************************************)
LEMMA FieldIsInt == ASSUME NEW x \in Int PROVE Field(x) \in Int /\ Field(x) \in 0 .. P - 1
<1>1. P \in Nat /\ P > 0 BY Sizes
<1> QED BY <1>1 DEF Field

LEMMA FieldOfZero == Field(0) = 0
<1>1. P \in Nat /\ P > 0 BY Sizes
<1> QED BY <1>1, SmallField

\* An equation of integers holds in the field.
LEMMA MetSame == ASSUME NEW x \in Int, NEW y, x = y PROVE Met(RequireEqual(x, y))
<1>1. x - y = 0 OBVIOUS
<1> QED BY <1>1, FieldOfZero, MetZero DEF RequireEqual

\* So does one of reduced integers.
LEMMA FieldTwice == ASSUME NEW x \in Int PROVE Field(Field(x)) = Field(x)
<1>1. Field(x) \in 0 .. P - 1 /\ P \in Nat BY FieldIsInt, Sizes
<1> QED BY <1>1, SmallField

LEMMA FieldMinus ==
    ASSUME NEW x \in Int, NEW y \in Int
    PROVE  /\ Field(x - Field(y)) = Field(x - y) /\ Field(Field(x) - y) = Field(x - y)
           /\ Field(Field(x) + y) = Field(x + y)
<1> DEFINE q == y \div P  m == y % P  p == x \div P  n == x % P
           k == (x - y) \div P  e == (x - y) % P
<1>1. P \in Nat /\ P > 0 BY Sizes
<1>2. q \in Int /\ m \in Int /\ y = q * P + m /\ p \in Int /\ n \in Int /\ x = p * P + n
      /\ k \in Int /\ e \in 0 .. P - 1 /\ x - y = k * P + e
  BY <1>1
<1> HIDE DEF q, m, p, n, k, e
<1>3. Field(x - Field(y)) = e
  <2>1. x - m = (k + q) * P + e
    <3>1. (k + q) * P = k * P + q * P /\ k * P \in Int /\ q * P \in Int BY <1>1, <1>2
    <3> QED BY <1>2, <3>1
  <2>2. ((k + q) * P + e) % P = e BY <1>1, <1>2, DivisionUnique
  <2> QED BY <2>1, <2>2 DEF Field, m
<1>4. Field(Field(x) - y) = e
  <2>1. n - y = (k - p) * P + e
    <3>1. (k - p) * P = k * P - p * P /\ k * P \in Int /\ p * P \in Int BY <1>1, <1>2
    <3> QED BY <1>2, <3>1
  <2>2. ((k - p) * P + e) % P = e BY <1>1, <1>2, DivisionUnique
  <2> QED BY <2>1, <2>2 DEF Field, n
<1>5. Field(x - y) = e BY DEF Field, e
<1>6. Field(Field(x) + y) = Field(x + y)
  <2>1. Field(x) + y = y + Field(x) /\ x + y = y + x BY FieldIsInt
  <2> QED BY <2>1, FieldOfSum
<1> QED BY <1>3, <1>4, <1>5, <1>6

\* A factor may be reduced.
LEMMA FieldTimes ==
    ASSUME NEW x \in Int, NEW y \in Int
    PROVE  Field(x * Field(y)) = Field(x * y) /\ Field(Field(x) * y) = Field(x * y)
<1>1. P \in Nat /\ P > 0 BY Sizes
<1>2. ASSUME NEW u \in Int, NEW v \in Int PROVE Field(u * Field(v)) = Field(u * v)
  <2> DEFINE q == v \div P  m == v % P  k == (u * m) \div P  e == (u * m) % P
  <2>1. q \in Int /\ m \in Int /\ v = q * P + m BY <1>1
  <2> HIDE DEF q, m
  <2>2. u * m \in Int BY <2>1
  <2>3. k \in Int /\ e \in 0 .. P - 1 /\ u * m = k * P + e BY <1>1, <2>2
  <2>4. u * v = (u * q + k) * P + e /\ u * q + k \in Int
    <3>1. u * v = u * (q * P) + u * m BY <1>1, <2>1
    <3>2. u * (q * P) = (u * q) * P /\ u * q \in Int BY <1>1, <2>1
    <3> HIDE DEF k, e
    <3> DEFINE w == u * q
    <3>3. w \in Int /\ u * v = w * P + (k * P + e) BY <2>3, <3>1, <3>2
    <3> HIDE DEF w
    <3>4. (w + k) * P = w * P + k * P /\ w * P \in Int /\ k * P \in Int BY <1>1, <2>3, <3>3
    <3>5. u * v = (w + k) * P + e /\ w + k \in Int BY <2>3, <3>3, <3>4
    <3> QED BY <3>5 DEF w
  <2> HIDE DEF k
  <2>5. ((u * q + k) * P + e) % P = e
    <3> DEFINE w == u * q + k
    <3>1. w \in Int /\ e \in 0 .. P - 1 BY <2>3, <2>4
    <3> HIDE DEF w, e
    <3>2. (w * P + e) % P = e BY <1>1, <3>1, DivisionUnique
    <3> QED BY <3>2 DEF w
  <2>6. Field(u * v) = e BY <2>4, <2>5 DEF Field
  <2> QED BY <2>6 DEF Field, m, e
<1>3. Field(x) * y = y * Field(x) /\ x * y = y * x BY FieldIsInt
<1> QED BY <1>2, <1>3

\* Equal in the field.
LEMMA MetCongruent ==
    ASSUME NEW x \in Int, NEW y \in Int, Field(x) = Field(y) PROVE Met(RequireEqual(x, y))
<1>1. Field(x - y) = Field(Field(x) - y) BY FieldMinus
<1>2. Field(Field(y) - y) = Field(y - y) BY FieldMinus
<1>3. y - y = 0 OBVIOUS
<1> QED BY <1>1, <1>2, <1>3, FieldOfZero, MetZero DEF RequireEqual
-----------------------------------------------------------------------------
(***************************************************************************)
(* The gadgets, each on the cells of its assignment.                       *)
(***************************************************************************)
LEMMA MetUx == ASSUME NEW bits, NEW x, Field(x) < 2 ^ bits PROVE Met(AssertUx(bits, x))
<1> DEFINE l == <<"U", bits, Field(x)>>
<1>1. l[1] = "U" /\ l[2] = bits /\ l[3] = Field(x) OBVIOUS
<1> HIDE DEF l
<1>2. InTable(l) BY <1>1 DEF InTable
<1>3. AssertUx(bits, x) = Lookup(l) BY DEF AssertUx, l
<1> QED BY <1>2, <1>3, MetLookup

LEMMA MetBit == ASSUME NEW x \in {0, 1} PROVE Met(AssertBit(x))
<1>1. x * (1 - x) = 0 OBVIOUS
<1> QED BY <1>1, FieldOfZero, MetZero DEF AssertBit

LEMMA MetLimb == ASSUME NEW x \in LimbWords PROVE Met(AssertUx(LimbBits, x))
<1>1. Field(x) = x BY LimbIsWord
<1>2. x < 2 ^ LimbBits
  <2>1. x < LimbRange /\ LimbRange = 2 ^ LimbBits BY Sizes, WidthsAre DEF LimbWords
  <2> QED BY <2>1
<1> QED BY <1>1, <1>2, MetUx

LEMMA MetUInt == ASSUME NEW u, NEW v \in Words, LimbsOf(u, v) PROVE Met(UInt(u))
<1>1. u.limb[1] = v % LimbRange /\ u.limb[2] = v \div LimbRange BY LimbsOfWord DEF LimbsOf
<1>2. u.limb[1] \in LimbWords /\ u.limb[2] \in LimbWords BY <1>1, LimbsOfWord
<1> QED BY <1>2, MetLimb, MetJoin DEF UInt

LEMMA MetAdd ==
    ASSUME NEW v \in Words, NEW w \in Words, NEW a, NEW b, LimbsOf(a, v), LimbsOf(b, w),
           NEW c, c.carry = AssignAdd(a, b).carry
    PROVE  Met(Add(a, b, c))
<1> DEFINE L == LimbRange  a1 == a.limb[1]  a2 == a.limb[2]  b1 == b.limb[1]  b2 == b.limb[2]
           low == (a1 + b1) \div L  high == (a2 + b2 + low) \div L
<1>1. L \in Nat /\ L > 0 BY Sizes
<1>2. a1 \in 0 .. L - 1 /\ a2 \in 0 .. L - 1 /\ b1 \in 0 .. L - 1 /\ b2 \in 0 .. L - 1
  BY LimbsOfWord DEF LimbsOf, LimbWords
<1>3. c.carry[1] = low /\ c.carry[2] = high BY DEF AssignAdd
<1>4. ASSUME NEW x \in 0 .. 2 * L - 1 PROVE x \div L \in {0, 1}
  <2>1. CASE x < L BY <1>1, <2>1
  <2>2. CASE x >= L
    <3>1. x - L \in 0 .. L - 1 BY <1>1, <2>2
    <3>2. (1 * L + (x - L)) \div L = 1 BY <1>1, <3>1, DivisionUnique
    <3> QED BY <1>1, <3>2
  <2> QED BY <1>1, <2>1, <2>2
<1> HIDE DEF L, a1, a2, b1, b2
<1>5. low \in {0, 1} BY <1>1, <1>2, <1>4
<1> HIDE DEF low
<1>6. high \in {0, 1} BY <1>1, <1>2, <1>4, <1>5
<1> HIDE DEF high
<1>7. Wrapped(v + w) \in Words BY Sizes DEF Wrapped
<1>8. Met(UInt(SumOf(a, b, c))) BY <1>7, SumLimbs, MetUInt
<1> QED BY <1>3, <1>5, <1>6, <1>8, MetBit, MetJoin DEF Add

\* The difference is found for any integers closer than the range of words.
LEMMA MetInnerLt ==
    ASSUME NEW lhs \in Int, NEW rhs \in Int, lhs - rhs < WordRange, rhs - lhs < WordRange,
           NEW x \in Int, NEW y \in Int, Field(x - y) = Field(lhs - rhs),
           NEW d, d.limb = AssignLt(lhs, rhs).limb, NEW lt, lt = AssignLt(lhs, rhs).is_lt
    PROVE  Met(InnerLt(x, y, lt, d)) /\ lt = (IF lhs < rhs THEN 1 ELSE 0)
<1> DEFINE W == WordRange  t == lhs - rhs + lt * W
<1>1. W \in Nat /\ W > 0 /\ P \in Nat /\ P > 8 * W /\ Words = 0 .. W - 1 BY Sizes
<1>2. lt = IF lhs < rhs THEN 1 ELSE 0 BY AssignedLess
<1> HIDE DEF W
<1>3. t \in 0 .. W - 1 /\ lhs - rhs = t - lt * W
  <2>1. lhs - rhs < W /\ rhs - lhs < W BY DEF W
  <2> QED BY <1>1, <1>2, <2>1
<1>4. d.limb = Digits(Field(t) % W, LimbBits, 2) BY <1>2 DEF AssignLt, ValueNew, W
<1> HIDE DEF t
<1>5. Field(t) = t BY <1>1, <1>3, SmallField
<1>6. t % W = t BY <1>1, <1>3
<1>7. LimbsOf(d, t) BY <1>4, <1>5, <1>6 DEF LimbsOf
<1>8. ValueOf(d) = t /\ Met(UInt(d)) BY <1>1, <1>3, <1>7, ValueOfLimbs, MetUInt
<1>9. Met(RequireEqual(x - y, ValueOf(d) - lt * WordRange))
  <2>1. x - y \in Int /\ lhs - rhs \in Int OBVIOUS
  <2>2. ValueOf(d) - lt * WordRange = lhs - rhs BY <1>3, <1>8 DEF W
  <2> QED BY <2>1, <2>2, MetCongruent
<1> QED BY <1>2, <1>8, <1>9, MetJoin DEF InnerLt

LEMMA MetIsLt ==
    ASSUME NEW lhs \in Int, NEW rhs \in Int, lhs - rhs < WordRange, rhs - lhs < WordRange,
           NEW x \in Int, NEW y \in Int, Field(x - y) = Field(lhs - rhs),
           NEW d, d.limb = AssignLt(lhs, rhs).limb, d.is_lt = AssignLt(lhs, rhs).is_lt
    PROVE  Met(IsLt(x, y, d)) /\ d.is_lt = (IF lhs < rhs THEN 1 ELSE 0)
<1>1. Met(InnerLt(x, y, d.is_lt, d)) /\ d.is_lt = (IF lhs < rhs THEN 1 ELSE 0) BY MetInnerLt
<1>2. d.is_lt \in {0, 1} BY <1>1
<1> QED BY <1>1, <1>2, MetBit, MetJoin DEF IsLt

LEMMA MetAssertLt ==
    ASSUME NEW lhs \in Int, NEW rhs \in Int, lhs < rhs, rhs - lhs < WordRange,
           NEW x \in Int, NEW y \in Int, Field(x - y) = Field(lhs - rhs),
           NEW d, d.limb = AssignLt(lhs, rhs).limb
    PROVE  Met(AssertLt(x, y, d))
<1>1. AssignLt(lhs, rhs).is_lt = 1 BY AssignedLess
<1>2. lhs - rhs < WordRange BY Sizes
<1>3. Met(InnerLt(x, y, 1, d)) BY <1>1, <1>2, MetInnerLt
<1> QED BY <1>3 DEF AssertLt

\* The top bit.
LEMMA MetExtend ==
    ASSUME NEW bits \in {LimbBits, ByteBits}, NEW x \in 0 .. 2 ^ bits - 1, NEW s, s.msb = x \div 2 ^ (bits - 1)
    PROVE  Met(SignedExtend(bits, x, s)) /\ s.msb = (IF x >= 2 ^ (bits - 1) THEN 1 ELSE 0)
<1> DEFINE R == 2 ^ bits  half == 2 ^ (bits - 1)  y == 2 * x - s.msb * R
<1>1. 2 * half = R /\ half \in Nat \ {0} BY HalfPowers, WidthsAre
<1>2. R \in Nat /\ R < P
  <2>1. LimbRange < P /\ ByteRange <= LimbRange /\ ByteRange \in Nat /\ LimbRange \in Nat
    <3>1. P > 8 * WordRange /\ WordRange >= 4 * LimbRange /\ LimbRange \in Nat /\ WordRange \in Nat /\ P \in Nat
      BY Sizes
    <3>2. ByteRange \in Nat /\ ByteRange >= 2 /\ LimbRange = ByteRange * ByteRange BY Bits
    <3>3. ByteRange * ByteRange >= ByteRange BY <3>2
    <3> QED BY <3>1, <3>2, <3>3
  <2>2. R = LimbRange \/ R = ByteRange BY WidthsAre
  <2>3. P \in Nat BY Sizes
  <2> QED BY <2>1, <2>2, <2>3
<1>3. s.msb = IF x >= half THEN 1 ELSE 0
  <2>1. x \in 0 .. R - 1 OBVIOUS
  <2> HIDE DEF half, R
  <2>2. x \in 0 .. 2 * half - 1 BY <1>1, <2>1
  <2>3. s.msb = x \div half BY DEF half
  <2> QED BY <1>1, <2>2, <2>3, TopBit
<1>4. y \in 0 .. R - 1
  <2>1. x \in 0 .. R - 1 OBVIOUS
  <2> HIDE DEF half, R
  <2> QED BY <1>1, <1>2, <1>3, <2>1
<1> HIDE DEF y, half
<1>5. Field(y) = y
  <2> HIDE DEF R
  <2> QED BY <1>2, <1>4, SmallField, Sizes
<1>6. Field(y) < 2 ^ bits
  <2>1. Field(y) < R
    <3> HIDE DEF R
    <3> QED BY <1>2, <1>4, <1>5
  <2> QED BY <2>1
<1>7. Met(AssertUx(bits, y)) BY <1>6, MetUx
<1>8. Met(AssertBit(s.msb)) BY <1>3, MetBit
<1>9. Met(SignedExtend(bits, x, s)) BY <1>7, <1>8, MetJoin DEF SignedExtend, y
<1> QED BY <1>3, <1>9 DEF half

LEMMA MetNegative ==
    ASSUME NEW v \in Words, NEW u, LimbsOf(u, v), NEW s, s.msb = AssignIsNegative(v).msb
    PROVE  /\ Met(IsNegative(u, s)) /\ ToField(u, s) = SignedOf(v)
           /\ s.msb = IF SignedOf(v) < 0 THEN 1 ELSE 0
<1> DEFINE x == v \div LimbRange
<1>1. u.limb = <<v % LimbRange, x>> /\ u.limb[1] = v % LimbRange /\ u.limb[2] = x
  BY LimbsOfWord DEF LimbsOf
<1>2. x \in 0 .. 2 ^ LimbBits - 1 BY LimbsOfWord, WidthsAre DEF LimbWords
<1>3. s.msb = x \div 2 ^ (LimbBits - 1) BY DEF AssignIsNegative, AssignSignedExtend
<1>4. IsLimbs(u) /\ WordOf(u) = v BY <1>1, LimbsOfWord DEF IsLimbs, WordOf
<1> HIDE DEF x
<1>5. Met(SignedExtend(LimbBits, x, s)) /\ s.msb = (IF x >= 2 ^ (LimbBits - 1) THEN 1 ELSE 0)
  BY <1>2, <1>3, MetExtend
<1>6. x >= 2 ^ (LimbBits - 1) <=> 2 * x >= LimbRange
  <2>1. 2 * 2 ^ (LimbBits - 1) = LimbRange /\ 2 ^ (LimbBits - 1) \in Nat \ {0} BY HalfPowers
  <2>2. x \in Int BY <1>2
  <2> DEFINE h == 2 ^ (LimbBits - 1)
  <2>3. 2 * h = LimbRange /\ h \in Nat BY <2>1
  <2> HIDE DEF h
  <2>4. x >= h <=> 2 * x >= LimbRange BY <2>2, <2>3
  <2> QED BY <2>4 DEF h
<1>7. /\ SignedOf(v) = v - (IF 2 * x >= LimbRange THEN WordRange ELSE 0)
      /\ v \in 0 .. WordRange - 1 /\ WordRange \in Nat
  BY <1>1, <1>4, SignOfWord, Sizes
<1>8. ValueOf(u) = v BY ValueOfLimbs
<1>9. ToField(u, s) = SignedOf(v) BY <1>5, <1>6, <1>7, <1>8 DEF ToField
<1>10. s.msb = IF SignedOf(v) < 0 THEN 1 ELSE 0 BY <1>4, <1>5, <1>6, <1>7
<1>11. Met(IsNegative(u, s)) BY <1>1, <1>5 DEF IsNegative
<1> QED BY <1>9, <1>10, <1>11

\* Words as numbers with a sign.
LEMMA SignedRange ==
    ASSUME NEW v \in Words
    PROVE  /\ SignedOf(v) \in Int /\ 2 * SignedOf(v) >= -WordRange /\ 2 * SignedOf(v) < WordRange
           /\ SignedOf(v) = v \/ SignedOf(v) = v - WordRange
<1> DEFINE u == [limb |-> <<v % LimbRange, v \div LimbRange>>]
<1>1. IsLimbs(u) /\ WordOf(u) = v BY LimbsOfWord DEF IsLimbs, WordOf
<1> HIDE DEF u
<1>2. /\ SignedOf(v) \in Int /\ 2 * SignedOf(v) < WordRange /\ 2 * SignedOf(v) >= -WordRange
  BY <1>1, SignOfWord
<1> QED BY <1>2 DEF SignedOf

LEMMA MetSignedLt ==
    ASSUME NEW v \in Words, NEW w \in Words, NEW a, NEW b, LimbsOf(a, v), LimbsOf(b, w)
    PROVE  Met(SignedLt(a, b, AssignSignedLt(v, w)))
<1> DEFINE d == AssignSignedLt(v, w)  x == SignedOf(v)  y == SignedOf(w)
           f == IsNegative(a, d.lhs) \o IsNegative(b, d.rhs)
<1>1. /\ d.lhs.msb = AssignIsNegative(v).msb /\ d.rhs.msb = AssignIsNegative(w).msb
      /\ d.lt.limb = AssignLt(x, y).limb /\ d.lt.is_lt = AssignLt(x, y).is_lt
  BY DEF AssignSignedLt
<1> HIDE DEF d
<1>2. Met(IsNegative(a, d.lhs)) /\ ToField(a, d.lhs) = x BY <1>1, MetNegative
<1>3. Met(IsNegative(b, d.rhs)) /\ ToField(b, d.rhs) = y BY <1>1, MetNegative
<1>4. x \in Int /\ y \in Int /\ x - y < WordRange /\ y - x < WordRange
  <2>1. /\ SignedOf(v) \in Int /\ 2 * SignedOf(v) >= -WordRange /\ 2 * SignedOf(v) < WordRange
        /\ SignedOf(w) \in Int /\ 2 * SignedOf(w) >= -WordRange /\ 2 * SignedOf(w) < WordRange
        /\ WordRange \in Nat
    BY SignedRange, Sizes
  <2> QED BY <2>1
<1> HIDE DEF x, y
<1>5. Met(IsLt(x, y, d.lt)) BY <1>1, <1>4, MetIsLt
<1>6. IsLt(x, y, d.lt) = AssertBit(d.lt.is_lt) \o InnerLt(x, y, d.lt.is_lt, d.lt) BY DEF IsLt
<1>7. SignedLt(a, b, d) = (f \o AssertBit(d.lt.is_lt)) \o InnerLt(x, y, d.lt.is_lt, d.lt)
  BY <1>2, <1>3 DEF SignedLt
<1>8. d.lt.is_lt \in {0, 1} BY <1>1, <1>4, AssignedLess
<1>9. Met(InnerLt(x, y, d.lt.is_lt, d.lt)) BY <1>1, <1>4, MetInnerLt
<1>10. Met(f) BY <1>2, <1>3, MetJoin
<1> HIDE DEF f
<1> QED BY <1>7, <1>8, <1>9, <1>10, MetBit, MetJoin DEF d

-----------------------------------------------------------------------------
(***************************************************************************)
(* Inverses: a product with a number other than zero reaches every element *)
(* of the field.                                                           *)
(***************************************************************************)
LEMMA InverseIs ==
    ASSUME NEW x \in 1 .. P - 1
    PROVE  InverseOf[x] \in 1 .. P - 1 /\ Field(x * InverseOf[x]) = 1
<1> DEFINE S == 1 .. P - 1  f == [y \in S |-> Field(x * y)]
<1>1. P \in Nat /\ P > 1 BY Sizes
<1>2. ASSUME NEW y \in 1 - P .. P - 1, Field(x * y) = 0 PROVE y = 0
  BY <1>1, <1>2, FieldAssumption DEF Field
<1>3. ASSUME NEW y \in S PROVE Field(x * y) \in S
  <2>1. x * y \in Int BY <1>1
  <2>2. Field(x * y) \in 0 .. P - 1 BY <2>1, FieldIsInt
  <2>3. y \in 1 - P .. P - 1 /\ y # 0 BY <1>1
  <2>4. Field(x * y) # 0 BY <1>2, <2>3
  <2> QED BY <1>1, <2>2, <2>4
<1>4. ASSUME NEW y \in S, NEW z \in S, Field(x * y) = Field(x * z) PROVE y = z
  <2>1. y \in Int /\ z \in Int /\ x \in Int BY <1>1
  <2>2. x * y \in Int /\ x * z \in Int /\ x * (y - z) = x * y - x * z BY <2>1
  <2>3. Field(x * y - x * z) = Field(Field(x * z) - x * z) BY <1>4, <2>2, FieldMinus
  <2>4. Field(Field(x * z) - x * z) = Field(x * z - x * z) /\ x * z - x * z = 0 BY <2>2, FieldMinus
  <2>5. Field(x * (y - z)) = 0 BY <2>2, <2>3, <2>4, FieldOfZero
  <2>6. y - z \in 1 - P .. P - 1 BY <1>1
  <2>7. y - z = 0 BY <1>2, <2>5, <2>6
  <2> QED BY <2>1, <2>7
<1>5. f \in Injection(S, S) BY <1>3, <1>4 DEF Injection, IsInjective
<1>6. IsFiniteSet(S) BY <1>1, FS_Interval
<1>7. f \in Surjection(S, S) BY <1>5, <1>6, FS_Injection
<1>8. 1 \in S BY <1>1
<1>9. \E y \in S : f[y] = 1 BY <1>7, <1>8 DEF Surjection
<1>10. \E y \in S : (x * y) % P = 1 BY <1>9 DEF Field
<1>11. InverseOf[x] = CHOOSE y \in S : (x * y) % P = 1 BY DEF InverseOf
<1> QED BY <1>10, <1>11 DEF Field

LEMMA InverseCancels ==
    ASSUME NEW n \in 1 .. P - 1, NEW k \in 0 .. P - 1
    PROVE  Field((n * k) * InverseOf[n]) = k /\ Field(InverseOf[n] * (n * k)) = k
<1> DEFINE i == InverseOf[n]
<1>1. P \in Nat /\ n \in Int /\ k \in Int /\ i \in Int /\ Field(n * i) = 1
  <2>1. P \in Nat BY Sizes
  <2> QED BY <2>1, InverseIs
<1> HIDE DEF i
<1>2. (n * k) * i = k * (n * i) /\ i * (n * k) = k * (n * i) /\ n * i \in Int BY <1>1
<1>3. Field(k * (n * i)) = Field(k * 1) BY <1>1, <1>2, FieldTimes
<1>4. Field(k * 1) = k
  <2>1. k * 1 = k BY <1>1
  <2>2. Field(k) = k BY <1>1, SmallField
  <2> QED BY <2>1, <2>2
<1> QED BY <1>2, <1>3, <1>4 DEF i

\* A number is zero in the field or has an inverse.
LEMMA MetNonZero ==
    ASSUME NEW x \in Int, NEW y, Field(y) = Field(x), Field(x) # 0, NEW z, z = AssignIsZero(y)
    PROVE  Met(NonZero(x, z))
<1> DEFINE n == Field(x)  i == InverseOf[n]
<1>1. n \in 1 .. P - 1
  <2>1. n \in 0 .. P - 1 /\ P \in Nat BY FieldIsInt, Sizes
  <2> QED BY <2>1
<1>2. z.inverse = i BY DEF AssignIsZero
<1>3. P \in Nat /\ i \in 1 .. P - 1 /\ Field(n * i) = 1 BY <1>1, InverseIs, Sizes
<1>4. Field(1) = 1
  <2>1. P > 1 BY Sizes
  <2> QED BY <1>3, <2>1, SmallField
<1> HIDE DEF n, i
<1>5. n * i \in Int BY <1>1, <1>3
<1>6. Met(RequireEqual(n * i, 1)) BY <1>3, <1>4, <1>5, MetCongruent
<1> QED BY <1>2, <1>6 DEF NonZero, n

LEMMA MetIsZero ==
    ASSUME NEW x \in Int, NEW y, Field(y) = Field(x), NEW z, z = AssignIsZero(y)
    PROVE  Met(IsZero(x, z)) /\ z.is_zero = (IF Field(x) = 0 THEN 1 ELSE 0)
<1>1. z.is_zero = IF Field(x) = 0 THEN 1 ELSE 0 BY DEF AssignIsZero
<1>2. CASE Field(x) = 0
  <2>1. z.is_zero = 1 /\ z.inverse = 0 BY <1>2 DEF AssignIsZero
  <2>2. z.is_zero * x = x /\ z.is_zero + Field(x) * z.inverse = 1 BY <1>2, <2>1
  <2>3. Met(RequireZero(z.is_zero * x)) BY <1>2, <2>2, MetZero
  <2>4. Met(RequireEqual(z.is_zero + Field(x) * z.inverse, 1)) BY <2>2, MetSame
  <2> QED BY <1>1, <2>3, <2>4, MetJoin DEF IsZero
<1>3. CASE Field(x) # 0
  <2>1. z.is_zero = 0 BY <1>3 DEF AssignIsZero
  <2>2. z.is_zero * x = 0 BY <2>1
  <2>3. Met(RequireZero(z.is_zero * x)) BY <2>2, FieldOfZero, MetZero
  <2>4. Met(NonZero(x, z)) BY <1>3, MetNonZero
  <2>5. Field(x) * z.inverse \in Int
    <3>1. Field(x) \in 0 .. P - 1 /\ P \in Nat BY FieldIsInt, Sizes
    <3>2. Field(x) \in 1 .. P - 1 BY <1>3, <3>1
    <3>3. z.inverse = InverseOf[Field(x)] BY <1>3 DEF AssignIsZero
    <3>4. z.inverse \in 1 .. P - 1 BY <3>2, <3>3, InverseIs
    <3> QED BY <3>1, <3>2, <3>4
  <2>6. z.is_zero + Field(x) * z.inverse = Field(x) * z.inverse BY <2>1, <2>5
  <2>7. Met(RequireEqual(z.is_zero + Field(x) * z.inverse, 1)) BY <2>4, <2>6 DEF NonZero
  <2> QED BY <1>1, <2>3, <2>7, MetJoin DEF IsZero
<1> QED BY <1>2, <1>3

-----------------------------------------------------------------------------
(***************************************************************************)
(* Addresses.                                                              *)
(***************************************************************************)
LEMMA QuarterPower ==
    4 * 2 ^ (LimbBits - 2) = LimbRange /\ 2 ^ (LimbBits - 2) \in Nat \ {0}
<1>1. LimbBits - 2 \in 0 .. WordBits - 1 /\ (LimbBits - 2) + 1 = LimbBits - 1 BY Bits
<1>2. 2 ^ (LimbBits - 2) \in Nat \ {0} /\ 2 ^ (LimbBits - 1) = 2 * 2 ^ (LimbBits - 2)
  <2>1. \A n \in 0 .. WordBits - 1 : 2 ^ n \in Nat \ {0} /\ 2 ^ (n + 1) = 2 * 2 ^ n BY BitAssumption
  <2>2. 2 ^ ((LimbBits - 2) + 1) = 2 * 2 ^ (LimbBits - 2) /\ 2 ^ (LimbBits - 2) \in Nat \ {0} BY <1>1, <2>1
  <2> QED BY <1>1, <2>2
<1>3. 2 * 2 ^ (LimbBits - 1) = LimbRange BY HalfPowers
<1> DEFINE p == 2 ^ (LimbBits - 2)  h == 2 ^ (LimbBits - 1)
<1>4. p \in Nat \ {0} /\ h = 2 * p /\ 2 * h = LimbRange BY <1>2, <1>3
<1> HIDE DEF p, h
<1>5. 4 * p = LimbRange BY <1>4
<1> QED BY <1>4, <1>5 DEF p

\* The lowest bits of an address are those of its low limb.
LEMMA LowLimb ==
    ASSUME NEW addr \in Words
    PROVE  /\ (addr % LimbRange) - (addr % 4) = 4 * ((addr % LimbRange) \div 4)
           /\ (addr % LimbRange) \div 4 \in 0 .. 2 ^ (LimbBits - 2) - 1
<1> DEFINE L == LimbRange  R == 2 ^ (LimbBits - 2)  q == addr \div L  x == addr % L  k == x \div 4  e == x % 4
<1>1. L = 4 * R /\ R \in Nat \ {0} /\ L \in Nat BY QuarterPower, Sizes
<1>2. addr \in Int /\ x \in LimbWords /\ q \in LimbWords /\ addr = x + q * L
  BY LimbsOfWord, WordIsField
<1>3. x \in 0 .. L - 1 /\ q \in Int BY <1>1, <1>2 DEF LimbWords
<1> HIDE DEF x, q, L, R
<1>4. k \in Int /\ e \in 0 .. 3 /\ x = 4 * k + e BY <1>1, <1>3
<1> HIDE DEF k, e
<1>5. q * L = (q * R) * 4 /\ q * R \in Int BY <1>1, <1>3
<1> DEFINE z == q * R
<1>6. z \in Int /\ q * L = z * 4 BY <1>5
<1> HIDE DEF z
<1>7. addr = (z + k) * 4 + e /\ z + k \in Int BY <1>2, <1>4, <1>6
<1>8. addr % 4 = e
  <2>1. ((z + k) * 4 + e) % 4 = e BY <1>4, <1>7, DivisionUnique
  <2> QED BY <1>7, <2>1
<1>9. x - (addr % 4) = 4 * k BY <1>4, <1>8
<1>10. k \in 0 .. R - 1 BY <1>1, <1>3, <1>4
<1> QED BY <1>9, <1>10 DEF x, k, L, R

LEMMA MetMemAddr ==
    ASSUME NEW addr \in Words, NEW zeros \in 0 .. 2,
           zeros > 0 => addr % 2 = 0, zeros > 1 => (addr \div 2) % 2 = 0,
           NEW m, m = AssignMemAddr(addr)
    PROVE  /\ Met(MemAddr(m, zeros)) /\ LimbsOf(m, addr)
           /\ LowBit(m, zeros, 0) = addr % 2 /\ LowBit(m, zeros, 1) = (addr \div 2) % 2
<1> DEFINE low0 == LowBit(m, zeros, 0)  low1 == LowBit(m, zeros, 1)  k == (addr % LimbRange) \div 4
           x == (m.limb[1] - (low0 + 2 * low1)) * InverseOf[4]
<1>1. m.limb = Digits(addr, LimbBits, 2) /\ m.low = <<addr % 2, (addr \div 2) % 2>> BY DEF AssignMemAddr
<1>2. m.limb[1] = addr % LimbRange /\ m.limb[2] = addr \div LimbRange /\ addr \div LimbRange \in LimbWords
  BY <1>1, LimbsOfWord
<1>3. low0 = addr % 2 /\ low1 = (addr \div 2) % 2
  <2>1. m.low[1] = addr % 2 /\ m.low[2] = (addr \div 2) % 2 BY <1>1
  <2> QED BY <2>1 DEF LowBit
<1>4. low0 \in {0, 1} /\ low1 \in {0, 1} /\ low0 + 2 * low1 = addr % 4 BY <1>3, AddressParts
<1> HIDE DEF low0, low1
<1>5. m.limb[1] - (low0 + 2 * low1) = 4 * k BY <1>2, <1>4, LowLimb
<1>6. k \in 0 .. 2 ^ (LimbBits - 2) - 1 BY LowLimb
<1>7. k \in 0 .. P - 1 /\ 4 \in 1 .. P - 1
  <2> DEFINE R == 2 ^ (LimbBits - 2)
  <2>1. 4 * R = LimbRange /\ R \in Nat /\ R > 0 BY QuarterPower
  <2>2. P \in Nat /\ P > 8 * WordRange /\ WordRange >= 4 * LimbRange /\ WordRange \in Nat /\ LimbRange \in Nat
    BY Sizes
  <2>3. k \in 0 .. R - 1 BY <1>6
  <2> HIDE DEF R, k
  <2> QED BY <2>1, <2>2, <2>3
<1>8. x = (4 * k) * InverseOf[4] BY <1>5
<1> HIDE DEF k, x
<1>9. Field(x) = k BY <1>7, <1>8, InverseCancels
<1>10. Field(x) < 2 ^ (LimbBits - 2)
  <2>1. 2 ^ (LimbBits - 2) \in Nat BY QuarterPower
  <2> QED BY <1>6, <1>9, <2>1
<1>11. Met(AssertUx(LimbBits - 2, x)) BY <1>10, MetUx
<1>12. Met(AssertBit(low0)) /\ Met(AssertBit(low1)) BY <1>4, MetBit
<1>13. Met(AssertUx(LimbBits, m.limb[2])) BY <1>2, MetLimb
<1> DEFINE f == AssertBit(low0) \o AssertBit(low1)  g == f \o AssertUx(LimbBits - 2, x)
<1>14. MemAddr(m, zeros) = g \o AssertUx(LimbBits, m.limb[2]) BY DEF MemAddr, low0, low1, x
<1>15. Met(f) BY <1>12, MetJoin
<1> HIDE DEF f
<1>16. Met(g) BY <1>11, <1>15, MetJoin
<1> HIDE DEF g
<1>17. Met(MemAddr(m, zeros)) BY <1>13, <1>14, <1>16, MetJoin
<1> QED BY <1>1, <1>3, <1>17 DEF LimbsOf, low0, low1

-----------------------------------------------------------------------------
(***************************************************************************)
(* Powers of two, and numbers by their bits.                               *)
(***************************************************************************)
LEMMA PowerOfSum ==
    ASSUME NEW i \in Nat, NEW j \in Nat, i + j <= WordBits
    PROVE  2 ^ (i + j) = 2 ^ i * 2 ^ j /\ 2 ^ i \in Nat \ {0}
<1> DEFINE N == WordBits  T == {n \in Nat : i + n <= N /\ 2 ^ (i + n) # 2 ^ i * 2 ^ n}
           R == OpToRel(<, Nat)
<1>1. N \in Nat /\ N >= 4 BY WidthAssumption
<1>2. \A n \in 0 .. N - 1 : 2 ^ n \in Nat \ {0} /\ 2 ^ (n + 1) = 2 * 2 ^ n BY BitAssumption
<1>3. i + j <= N OBVIOUS
<1> HIDE DEF N
<1>4. \A n \in 0 .. N : 2 ^ n \in Nat \ {0}
  <2> SUFFICES ASSUME NEW n \in 0 .. N PROVE 2 ^ n \in Nat \ {0} OBVIOUS
  <2>1. CASE n < N BY <1>1, <1>2, <2>1
  <2>2. CASE n = N
    <3>1. N - 1 \in 0 .. N - 1 /\ (N - 1) + 1 = N BY <1>1
    <3>2. 2 ^ (N - 1) \in Nat \ {0} /\ 2 ^ ((N - 1) + 1) = 2 * 2 ^ (N - 1) BY <1>2, <3>1
    <3> DEFINE p == 2 ^ (N - 1)
    <3>3. p \in Nat \ {0} /\ 2 ^ N = 2 * p BY <3>1, <3>2
    <3> HIDE DEF p
    <3> QED BY <2>2, <3>3
  <2> QED BY <1>1, <2>1, <2>2
<1>5. T = {}
  <2> SUFFICES ASSUME T # {} PROVE FALSE OBVIOUS
  <2>1. PICK m \in T : \A y \in T : ~ (<<y, m>> \in R) BY NatLessThanWellFounded, WFMin
  <2>2. \A y \in T : ~(y < m) BY <2>1 DEF OpToRel
  <2>3. m \in Nat /\ i + m <= N /\ 2 ^ (i + m) # 2 ^ i * 2 ^ m OBVIOUS
  <2>4. m # 0
    <3>1. 2 ^ 0 = 1 /\ i + 0 = i OBVIOUS
    <3>2. 2 ^ i \in Nat BY <1>1, <1>3, <1>4
    <3>3. 2 ^ i * 1 = 2 ^ i BY <3>2
    <3> QED BY <2>3, <3>1, <3>3
  <2>5. m - 1 \in Nat /\ m - 1 < m /\ i + (m - 1) \in 0 .. N - 1 /\ m - 1 \in 0 .. N - 1 /\ i \in 0 .. N
        /\ (i + (m - 1)) + 1 = i + m /\ (m - 1) + 1 = m
    BY <1>1, <2>3, <2>4
  <2>6. 2 ^ (i + (m - 1)) = 2 ^ i * 2 ^ (m - 1) BY <1>1, <2>2, <2>5
  <2> DEFINE p == 2 ^ i  q == 2 ^ (m - 1)
  <2>7. 2 ^ ((i + (m - 1)) + 1) = 2 * 2 ^ (i + (m - 1)) /\ 2 ^ ((m - 1) + 1) = 2 * q /\ q \in Nat /\ p \in Nat
    BY <1>2, <1>4, <2>5
  <2>8. 2 ^ (i + m) = 2 * (p * q) /\ 2 ^ m = 2 * q /\ 2 ^ (i + m) # p * 2 ^ m
    BY <2>3, <2>5, <2>6, <2>7
  <2> HIDE DEF p, q
  <2>9. 2 * (p * q) = p * (2 * q) BY <2>7
  <2> QED BY <2>8, <2>9
<1>6. j \in Nat /\ i + j <= N BY <1>3
<1>7. i \in 0 .. N BY <1>1, <1>3
<1> QED BY <1>4, <1>5, <1>6, <1>7

\* A quotient of a quotient.
LEMMA DivideTwice ==
    ASSUME NEW x \in Nat, NEW p \in Nat \ {0}, NEW q \in Nat \ {0}
    PROVE  (x \div p) \div q = x \div (p * q)
<1> DEFINE y == x \div p  m == x % p  z == y \div q  n == y % q  d == p * q  e == n * p + m
<1>1. y \in Nat /\ m \in 0 .. p - 1 /\ x = y * p + m OBVIOUS
<1> HIDE DEF y, m
<1>2. z \in Nat /\ n \in 0 .. q - 1 /\ y = z * q + n BY <1>1
<1> HIDE DEF z, n
<1>3. y * p = z * (p * q) + n * p /\ n * p \in Nat /\ p * q \in Nat
  <2>1. y * p = (z * q) * p + n * p /\ (z * q) * p = z * (p * q) BY <1>2
  <2> QED BY <1>2, <2>1
<1>4. n * p <= p * q - p
  <2>1. n <= q - 1 BY <1>2
  <2>2. n * p <= (q - 1) * p BY <1>2, <2>1
  <2>3. (q - 1) * p = p * q - p OBVIOUS
  <2> QED BY <1>2, <2>2, <2>3
<1>5. x = z * d + e /\ d \in Nat /\ d > 0 /\ e \in 0 .. d - 1
  <2>1. p * q > 0 OBVIOUS
  <2> DEFINE u == n * p  v == p * q  w == z * v
  <2>2. u \in Nat /\ v \in Nat /\ u <= v - p /\ y * p = w + u /\ w \in Int /\ v > 0 BY <1>2, <1>3, <1>4, <2>1
  <2> HIDE DEF u, v, w
  <2>3. x = w + (u + m) /\ u + m \in 0 .. v - 1 BY <1>1, <2>2
  <2> QED BY <2>2, <2>3 DEF u, v, w
<1> HIDE DEF d, e
<1>6. (z * d + e) \div d = z BY <1>2, <1>5, DivisionUnique
<1> QED BY <1>5, <1>6 DEF d, z, y

\* Words with the same bits are the same.
LEMMA SameBits ==
    ASSUME NEW c \in Words, NEW d \in Words, \A i \in 0 .. WordBits - 1 : Bit(c, i) = Bit(d, i)
    PROVE  c = d
<1> DEFINE N == WordBits  T == {n \in Nat : n <= N /\ c % 2 ^ n # d % 2 ^ n}  R == OpToRel(<, Nat)
<1>1. N \in Nat /\ N >= 4 /\ c \in Nat /\ d \in Nat BY WidthAssumption, Sizes
<1>2. \A n \in 0 .. N - 1 : 2 ^ n \in Nat \ {0} /\ 2 ^ (n + 1) = 2 * 2 ^ n BY BitAssumption
<1>3. \A i \in 0 .. N - 1 : Bit(c, i) = Bit(d, i) OBVIOUS
<1> HIDE DEF N
<1>4. ASSUME NEW x \in Nat, NEW n \in 0 .. N - 1
      PROVE  x % 2 ^ (n + 1) = (x % 2 ^ n) + Bit(x, n) * 2 ^ n
  <2> DEFINE p == 2 ^ n  q == x \div p  m == x % p  r == q \div 2  e == q % 2  t == e * p + m
  <2>1. p \in Nat \ {0} /\ 2 ^ (n + 1) = 2 * p BY <1>2
  <2> HIDE DEF p
  <2>2. q \in Nat /\ m \in 0 .. p - 1 /\ x = q * p + m BY <2>1
  <2>3. Bit(x, n) = e BY DEF Bit, p
  <2> HIDE DEF q, m
  <2>4. r \in Nat /\ e \in {0, 1} /\ q = 2 * r + e BY <2>2
  <2> HIDE DEF r, e
  <2>5. q * p = r * (2 * p) + e * p
    <3>1. q * p = (2 * r) * p + e * p /\ (2 * r) * p = r * (2 * p) BY <2>1, <2>4
    <3> QED BY <3>1
  <2>6. t \in 0 .. 2 * p - 1 /\ 2 * p \in Nat /\ 2 * p > 0 BY <2>1, <2>2, <2>4
  <2>7. x = r * (2 * p) + t
    <3> DEFINE w == r * (2 * p)  y == e * p
    <3>1. w \in Int /\ y \in Int /\ x = q * p + m /\ q * p = w + y /\ m \in Int BY <2>1, <2>2, <2>4, <2>5
    <3> HIDE DEF w, y
    <3>2. x = w + (y + m) BY <3>1
    <3> QED BY <3>2 DEF w, y
  <2> DEFINE k == 2 * p
  <2>8. k \in Nat /\ k > 0 /\ t \in 0 .. k - 1 /\ x = r * k + t BY <2>6, <2>7
  <2> HIDE DEF k, t
  <2>9. (r * k + t) % k = t BY <2>4, <2>8, DivisionUnique
  <2>10. x % 2 ^ (n + 1) = t BY <2>1, <2>8, <2>9 DEF k
  <2>11. t = m + e * p BY <2>1, <2>2, <2>4 DEF t
  <2> QED BY <2>3, <2>10, <2>11 DEF m, p
<1>5. T = {}
  <2> SUFFICES ASSUME T # {} PROVE FALSE OBVIOUS
  <2>1. PICK m \in T : \A y \in T : ~ (<<y, m>> \in R) BY NatLessThanWellFounded, WFMin
  <2>2. \A y \in T : ~(y < m) BY <2>1 DEF OpToRel
  <2>3. m \in Nat /\ m <= N /\ c % 2 ^ m # d % 2 ^ m OBVIOUS
  <2>4. m # 0
    <3>1. 2 ^ 0 = 1 /\ c % 1 = 0 /\ d % 1 = 0 BY <1>1
    <3> QED BY <2>3, <3>1
  <2>5. m - 1 \in Nat /\ m - 1 < m /\ m - 1 \in 0 .. N - 1 /\ m - 1 <= N /\ (m - 1) + 1 = m BY <1>1, <2>3, <2>4
  <2>6. c % 2 ^ (m - 1) = d % 2 ^ (m - 1) BY <2>2, <2>5
  <2>7. Bit(c, m - 1) = Bit(d, m - 1) BY <1>3, <2>5
  <2>8. c % 2 ^ ((m - 1) + 1) = d % 2 ^ ((m - 1) + 1) BY <1>1, <1>4, <2>5, <2>6, <2>7
  <2> QED BY <2>3, <2>5, <2>8
<1>6. c % 2 ^ N = d % 2 ^ N BY <1>1, <1>5
<1>7. c % WordRange = c /\ d % WordRange = d BY LimbsOfWord DEF Wrapped
<1> QED BY <1>6, <1>7 DEF N, WordRange

\* The bits of a byte are bits of its word, and no others.
LEMMA BitOfByte ==
    ASSUME NEW v \in Words, NEW k \in 0 .. 3, NEW j \in 0 .. WordBits - 1
    PROVE  Bit((v \div 2 ^ (ByteBits * k)) % ByteRange, j) =
             IF j < ByteBits THEN Bit(v, ByteBits * k + j) ELSE 0
<1> DEFINE B == ByteBits  a == B * k  x == v \div 2 ^ a  y == x % ByteRange
<1>1. B \in Nat /\ B >= 1 /\ WordBits = 4 * B /\ a \in Nat /\ a + B <= WordBits BY Bits
<1>2. ByteRange = 2 ^ B /\ ByteRange \in Nat \ {0} BY Bits DEF ByteRange
<1>3. 2 ^ a \in Nat \ {0} /\ v \in Nat BY <1>1, PowerOfSum, WordIsField
<1>4. x \in Nat
  <2> DEFINE p == 2 ^ a
  <2>1. p \in Nat \ {0} BY <1>3
  <2> HIDE DEF p
  <2>2. v \div p \in Nat BY <1>3, <2>1
  <2> QED BY <2>2 DEF p
<1> HIDE DEF B, a
<1>5. CASE j < B
  <2> DEFINE p == 2 ^ j  s == 2 ^ (B - j)  h == 2 ^ (B - j - 1)  q == x \div ByteRange
             z == y \div p
  <2>1. j \in Nat /\ j + (B - j) = B /\ B - j \in Nat /\ B - j - 1 \in Nat /\ B <= WordBits
        /\ (B - j - 1) + 1 = B - j /\ B - j <= WordBits
    BY <1>1, <1>5
  <2>2. 2 ^ (j + (B - j)) = 2 ^ j * 2 ^ (B - j) /\ p \in Nat \ {0} BY <2>1, PowerOfSum
  <2>3. 2 ^ ((B - j - 1) + 1) = 2 ^ (B - j - 1) * 2 ^ 1 /\ h \in Nat \ {0}
    <3>1. (B - j - 1) + 1 <= WordBits BY <2>1
    <3> QED BY <2>1, <3>1, PowerOfSum
  <2>4. s = h * 2
    <3>1. 2 ^ 1 = 2 OBVIOUS
    <3> QED BY <2>1, <2>3, <3>1
  <2>5. ByteRange = p * s BY <1>2, <2>1, <2>2
  <2> HIDE DEF p, s, h
  <2>6. s \in Nat \ {0} BY <2>3, <2>4
  <2> HIDE DEF x
  <2>7. y \in 0 .. ByteRange - 1 /\ q \in Nat /\ x = q * ByteRange + y
    <3>1. ByteRange \in Nat \ {0} /\ x \in Nat BY <1>2, <1>4
    <3> QED BY <3>1
  <2> HIDE DEF y, q
  <2>8. z \in Nat /\ y % p \in 0 .. p - 1 /\ y = z * p + (y % p) BY <1>2, <2>2, <2>7
  <2> DEFINE e == y % p
  <2>9. e \in 0 .. p - 1 /\ y = z * p + e BY <2>8
  <2> HIDE DEF z, e
  <2>10. q * ByteRange = (q * s) * p /\ q * s \in Nat
    <3>1. q * (p * s) = (q * s) * p BY <2>2, <2>6, <2>7
    <3> QED BY <2>5, <2>6, <2>7, <3>1
  <2> DEFINE w == q * s
  <2>11. w \in Nat /\ x = w * p + (z * p + e) BY <2>7, <2>9, <2>10
  <2>12. w = (q * h) * 2 /\ q * h \in Nat
    <3>1. q * (h * 2) = (q * h) * 2 BY <2>3, <2>7
    <3> QED BY <2>3, <2>4, <2>7, <3>1
  <2> HIDE DEF w
  <2>13. x = (w + z) * p + e
    <3>1. (w + z) * p = w * p + z * p /\ w * p \in Int /\ z * p \in Int BY <2>2, <2>8, <2>11
    <3> QED BY <2>9, <2>11, <3>1
  <2>14. x \div p = w + z
    <3>1. ((w + z) * p + e) \div p = w + z BY <2>2, <2>8, <2>9, <2>11, DivisionUnique
    <3> QED BY <2>13, <3>1
  <2>15. (w + z) % 2 = z % 2
    <3> DEFINE u == q * h
    <3>1. u \in Nat /\ w = u * 2 BY <2>12
    <3> HIDE DEF u
    <3> QED BY <2>8, <3>1
  <2>16. x \div p = v \div (2 ^ a * p)
    <3> DEFINE g == 2 ^ a
    <3>1. g \in Nat \ {0} BY <1>3
    <3> HIDE DEF g
    <3>2. (v \div g) \div p = v \div (g * p) BY <1>3, <2>2, <3>1, DivideTwice
    <3> QED BY <3>2 DEF g, x
  <2>17. 2 ^ (a + j) = 2 ^ a * p
    <3>1. a \in Nat /\ a + j <= WordBits BY <1>1, <1>5
    <3>2. 2 ^ (a + j) = 2 ^ a * 2 ^ j BY <2>1, <3>1, PowerOfSum
    <3> QED BY <3>2 DEF p
  <2>18. Bit(y, j) = z % 2 BY DEF Bit, z, p
  <2>19. Bit(v, a + j) = z % 2 BY <2>14, <2>15, <2>16, <2>17 DEF Bit
  <2>20. Bit(y, j) = Bit(v, a + j) BY <2>18, <2>19
  <2> QED BY <1>5, <2>20 DEF y, x, a, B
<1>6. CASE j >= B
  <2> DEFINE p == 2 ^ j
  <2>1. y \in 0 .. ByteRange - 1 BY <1>2, <1>4
  <2>2. p \in Nat /\ p >= ByteRange
    <3> DEFINE g == 2 ^ (j - B)
    <3>1. B \in Nat /\ j - B \in Nat /\ B + (j - B) = j /\ B + (j - B) <= WordBits /\ (j - B) + 0 <= WordBits
      BY <1>1, <1>6
    <3>2. 2 ^ (B + (j - B)) = 2 ^ B * 2 ^ (j - B) BY <3>1, PowerOfSum
    <3>3. g \in Nat \ {0} BY <3>1, PowerOfSum
    <3>4. p = ByteRange * g BY <1>2, <3>1, <3>2
    <3> HIDE DEF g, p
    <3>5. ByteRange * g \in Nat /\ ByteRange * g >= ByteRange BY <1>2, <3>3
    <3> QED BY <3>4, <3>5
  <2> HIDE DEF p, y
  <2>3. y \in 0 .. p - 1 BY <1>2, <2>1, <2>2
  <2>4. y \div p = 0 BY <2>2, <2>3, Remains
  <2>5. Bit(y, j) = 0
    <3>1. 0 % 2 = 0 OBVIOUS
    <3> QED BY <2>4, <3>1 DEF Bit, p
  <2> QED BY <1>1, <1>6, <2>5 DEF y, x, a, B
<1>7. j < B \/ j >= B BY <1>1
<1> QED BY <1>5, <1>6, <1>7

-----------------------------------------------------------------------------
(***************************************************************************)
(* An operation on the bits of words is done byte by byte.                 *)
(***************************************************************************)
ByteNo(v, k) == (v \div 2 ^ (ByteBits * k)) % ByteRange

LEMMA BytesByNumber ==
    ASSUME NEW v \in Words
    PROVE  /\ \A k \in 0 .. 3 : BytesOf(v).byte[k + 1] = ByteNo(v, k)
           /\ \A k \in 0 .. 3 : ByteNo(v, k) \in ByteWords
<1>1. ASSUME NEW k \in 0 .. 3 PROVE BytesOf(v).byte[k + 1] = ByteNo(v, k)
  <2>1. k + 1 \in 1 .. 4 /\ (k + 1) - 1 = k OBVIOUS
  <2>2. BytesOf(v).byte[k + 1] = (v \div 2 ^ (ByteBits * ((k + 1) - 1))) % 2 ^ ByteBits BY <2>1 DEF BytesOf, Digits
  <2> QED BY <2>1, <2>2 DEF ByteNo, ByteRange
<1>2. ASSUME NEW k \in 0 .. 3 PROVE ByteNo(v, k) \in ByteWords
  <2>1. ByteBits * k \in Nat /\ (ByteBits * k) + ByteBits <= WordBits /\ ByteBits \in Nat BY Bits
  <2> DEFINE p == 2 ^ (ByteBits * k)
  <2>2. p \in Nat \ {0} BY <2>1, PowerOfSum
  <2>3. v \in Nat /\ ByteRange \in Nat \ {0} BY WordIsField, Bits
  <2> HIDE DEF p
  <2>4. v \div p \in Nat BY <2>2, <2>3
  <2> DEFINE x == v \div p
  <2>5. x \in Nat BY <2>4
  <2> HIDE DEF x
  <2>6. x % ByteRange \in 0 .. ByteRange - 1 BY <2>3, <2>5
  <2> QED BY <2>6 DEF ByteNo, ByteWords, x, p
<1> QED BY <1>1, <1>2

LEMMA BytesOfBitwise ==
    ASSUME NEW op \in [{0, 1} \X {0, 1} -> {0, 1}], op[<<0, 0>>] = 0,
           NEW a \in Words, NEW b \in Words, NEW k \in 0 .. 3
    PROVE  ByteNo(Bitwise(op, a, b), k) = Bitwise(op, ByteNo(a, k), ByteNo(b, k))
<1> DEFINE c == Bitwise(op, a, b)  x == ByteNo(a, k)  y == ByteNo(b, k)  z == ByteNo(c, k)
<1>1. c \in Words /\ \A i \in 0 .. WordBits - 1 : Bit(c, i) = op[<<Bit(a, i), Bit(b, i)>>] BY BitwiseIsWord
<1> HIDE DEF c
<1>2. x \in Words /\ y \in Words /\ z \in Words BY <1>1, BytesByNumber, LimbIsWord
<1>3. ASSUME NEW j \in 0 .. WordBits - 1 PROVE Bit(z, j) = op[<<Bit(x, j), Bit(y, j)>>]
  <2>1. /\ Bit(x, j) = (IF j < ByteBits THEN Bit(a, ByteBits * k + j) ELSE 0)
        /\ Bit(y, j) = (IF j < ByteBits THEN Bit(b, ByteBits * k + j) ELSE 0)
        /\ Bit(z, j) = (IF j < ByteBits THEN Bit(c, ByteBits * k + j) ELSE 0)
    BY <1>1, BitOfByte DEF ByteNo
  <2>2. j < ByteBits => ByteBits * k + j \in 0 .. WordBits - 1 BY Bits
  <2> QED BY <1>1, <2>1, <2>2
<1> HIDE DEF x, y, z
<1> DEFINE w == Bitwise(op, x, y)
<1>4. w \in Words /\ \A i \in 0 .. WordBits - 1 : Bit(w, i) = op[<<Bit(x, i), Bit(y, i)>>] BY <1>2, BitwiseIsWord
<1> HIDE DEF w
<1>5. \A i \in 0 .. WordBits - 1 : Bit(z, i) = Bit(w, i) BY <1>3, <1>4
<1>6. z = w BY <1>2, <1>4, <1>5, SameBits
<1> QED BY <1>6 DEF z, w, x, y, c

\* The lookups of the logic circuits.
LEMMA MetLogic ==
    ASSUME NEW kind \in LogicKinds \union LogicImmKinds, NEW a \in Words, NEW b \in Words
    PROVE  Met(Logic(kind, BytesOf(a), BytesOf(b), BytesOf(Compute(kind, a, b))))
<1> DEFINE op == CASE kind \in {"AND", "ANDI"} -> BitAnd [] kind \in {"OR", "ORI"} -> BitOr [] OTHER -> BitXor
           d == Compute(kind, a, b)
           look(i) == Lookup(<<LogicTable(kind), BytesOf(a).byte[i], BytesOf(b).byte[i], BytesOf(d).byte[i]>>)
<1>1. op \in [{0, 1} \X {0, 1} -> {0, 1}] /\ op[<<0, 0>>] = 0
  <2>1. BitAnd \in [{0, 1} \X {0, 1} -> {0, 1}] /\ BitAnd[<<0, 0>>] = 0 BY DEF BitAnd
  <2>2. BitOr \in [{0, 1} \X {0, 1} -> {0, 1}] /\ BitOr[<<0, 0>>] = 0 BY DEF BitOr
  <2>3. BitXor \in [{0, 1} \X {0, 1} -> {0, 1}] /\ BitXor[<<0, 0>>] = 0 BY DEF BitXor
  <2> QED BY <2>1, <2>2, <2>3
<1>2. d = Bitwise(op, a, b) BY DEF Compute
<1>3. d \in Words BY LogicIsWord
<1>4. ASSUME NEW x \in ByteWords, NEW y \in ByteWords, NEW z, z = Bitwise(op, x, y)
      PROVE  InTable(<<LogicTable(kind), x, y, z>>)
  <2> DEFINE l == <<LogicTable(kind), x, y, z>>
  <2>1. l[1] = LogicTable(kind) /\ l[2] = x /\ l[3] = y /\ l[4] = z OBVIOUS
  <2> HIDE DEF l
  <2>2. x \in 0 .. ByteRange - 1 /\ y \in 0 .. ByteRange - 1 BY DEF ByteWords
  <2>3. CASE kind \in {"AND", "ANDI"}
    <3>1. l[1] = "And" /\ l[4] = Bitwise(BitAnd, l[2], l[3]) BY <1>4, <2>1, <2>3 DEF LogicTable
    <3> QED BY <2>1, <2>2, <3>1 DEF InTable, l
  <2>4. CASE kind \in {"OR", "ORI"}
    <3>1. l[1] = "Or" /\ l[4] = Bitwise(BitOr, l[2], l[3]) BY <1>4, <2>1, <2>4 DEF LogicTable
    <3> QED BY <2>1, <2>2, <3>1 DEF InTable, l
  <2>5. CASE kind \in {"XOR", "XORI"}
    <3>1. l[1] = "Xor" /\ l[4] = Bitwise(BitXor, l[2], l[3]) BY <1>4, <2>1, <2>5 DEF LogicTable
    <3> QED BY <2>1, <2>2, <3>1 DEF InTable, l
  <2> QED BY <2>3, <2>4, <2>5
<1> HIDE DEF op, d
<1>5. ASSUME NEW k \in 0 .. 3 PROVE Met(look(k + 1))
  <2>1. BytesOf(a).byte[k + 1] = ByteNo(a, k) /\ BytesOf(b).byte[k + 1] = ByteNo(b, k)
        /\ BytesOf(d).byte[k + 1] = ByteNo(d, k) /\ ByteNo(a, k) \in ByteWords /\ ByteNo(b, k) \in ByteWords
    BY <1>3, BytesByNumber
  <2>2. ByteNo(d, k) = Bitwise(op, ByteNo(a, k), ByteNo(b, k)) BY <1>1, <1>2, BytesOfBitwise
  <2>3. InTable(<<LogicTable(kind), ByteNo(a, k), ByteNo(b, k), ByteNo(d, k)>>) BY <1>4, <2>1, <2>2
  <2> QED BY <2>1, <2>3, MetLookup
<1>6. Met(look(1)) /\ Met(look(2)) /\ Met(look(3)) /\ Met(look(4))
  <2>1. 0 + 1 = 1 /\ 1 + 1 = 2 /\ 2 + 1 = 3 /\ 3 + 1 = 4 OBVIOUS
  <2>2. Met(look(0 + 1)) /\ Met(look(1 + 1)) /\ Met(look(2 + 1)) /\ Met(look(3 + 1)) BY <1>5
  <2> HIDE DEF look
  <2> QED BY <2>1, <2>2
<1>7. Logic(kind, BytesOf(a), BytesOf(b), BytesOf(d)) = look(1) \o look(2) \o look(3) \o look(4) BY DEF Logic
<1> HIDE DEF look
<1>8. Met(look(1) \o look(2)) BY <1>6, MetJoin
<1>9. Met(look(1) \o look(2) \o look(3)) BY <1>6, <1>8, MetJoin
<1>10. Met(look(1) \o look(2) \o look(3) \o look(4)) BY <1>6, <1>9, MetJoin
<1> QED BY <1>7, <1>10 DEF d

-----------------------------------------------------------------------------
(***************************************************************************)
(* The frames.  The program holds the registers of the step, and every     *)
(* operation comes after the one before it at its address.                 *)
(***************************************************************************)
Encodes(s) ==
    /\ s.insn.rs1 = IF s.kind # "ECALL" /\ "rs1" \in DOMAIN s.op THEN s.op["rs1"].id ELSE 0
    /\ s.insn.rs2 = IF s.kind # "ECALL" /\ "rs2" \in DOMAIN s.op THEN s.op["rs2"].id ELSE 0
    /\ s.kind # "ECALL" /\ "rd" \in DOMAIN s.op => s.op["rd"].id = RdInternal(s.insn.rd)
    /\ s.kind \in RKinds \union {"ECALL"} => s.insn.imm = 0
Timely(s) == \A o \in DOMAIN s.op : o \in DOMAIN Sub /\ s.op[o].prev \in 0 .. Cycle + Sub[o] - 1

\* A row whose accesses are compared with those before.
Framed(r, s) ==
    /\ RowFor(r, s) /\ Timely(s)
    /\ \A o \in DOMAIN s.op : r.access[o].lt = AssignLt(s.op[o].prev, Cycle + Sub[o])

LEMMA FramedRow ==
    ASSUME NEW s, Timely(s), NEW cells
    PROVE  /\ Framed(AssignRow(s, cells), s) /\ AssignRow(s, cells).cells = cells
           /\ \A circuit : LET r == Elsewhere(s, cells, circuit) IN Framed(r, s) /\ r.cells = cells
<1> DEFINE t == AssignRow(s, cells)
<1>1. t.access = [o \in DOMAIN s.op |-> AssignAccess(s, o)] /\ t.cells = cells BY DEF AssignRow
<1>2. \A o : AssignAccess(s, o).lt = AssignLt(s.op[o].prev, Cycle + Sub[o]) BY DEF AssignAccess
<1>3. RowFor(t, s) BY RowOfStep
<1>4. \A circuit : LET r == Elsewhere(s, cells, circuit) IN r.access = t.access /\ RowFor(r, s) /\ r.cells = cells
  <2> SUFFICES ASSUME NEW circuit, NEW r, r = Elsewhere(s, cells, circuit)
               PROVE  r.access = t.access /\ RowFor(r, s) /\ r.cells = cells
    OBVIOUS
  <2>1. r.access = t.access BY DEF AssignRow, Elsewhere
  <2> QED BY <2>1, RowElsewhere
<1> HIDE DEF t
<1>5. \A o \in DOMAIN s.op : t.access[o].lt = AssignLt(s.op[o].prev, Cycle + Sub[o]) BY <1>1, <1>2
<1>6. Framed(t, s) BY <1>3, <1>5 DEF Framed
<1>7. \A circuit : LET r == Elsewhere(s, cells, circuit) IN Framed(r, s) /\ r.cells = cells
  BY <1>4, <1>5 DEF Framed
<1> QED BY <1>1, <1>6, <1>7 DEF t

LEMMA MetAccess ==
    ASSUME NEW r, NEW s, Framed(r, s), NEW o \in DOMAIN s.op, NEW space, NEW id, NEW before, NEW after
    PROVE  Met(Access(r, o, space, id, before, after))
<1> DEFINE a == r.access[o]  x == s.op[o].prev  y == Cycle + Sub[o]
<1>1. a.prev = x /\ r.ts + Sub[o] = y /\ a.lt = AssignLt(x, y) BY DEF Framed, RowFor
<1>2. Sub[o] \in 0 .. 3 /\ x \in 0 .. y - 1
  <2>1. Timely(s) BY DEF Framed
  <2>2. o \in DOMAIN Sub /\ x \in 0 .. Cycle + Sub[o] - 1 BY <2>1 DEF Timely
  <2>3. \A p \in DOMAIN Sub : Sub[p] \in 0 .. 3 BY DEF Sub
  <2>4. Cycle \in Nat BY StepAssumption
  <2> QED BY <2>2, <2>3, <2>4
<1>3. x \in Int /\ y \in Int /\ x < y /\ y - x < WordRange
  <2>1. Cycle \in Nat /\ Cycle + 4 <= WordRange /\ WordRange \in Nat BY StepAssumption, Sizes
  <2> QED BY <1>2, <2>1
<1> HIDE DEF x, y, a
<1>4. Met(AssertLt(x, y, a.lt)) BY <1>1, <1>3, MetAssertLt
<1> DEFINE f == AssertLt(x, y, a.lt)  g == f \o ReadRecord(<<space, id, before, a.prev>>)
<1>5. Access(r, o, space, id, before, after) = g \o WriteRecord(<<space, id, after, r.ts + Sub[o]>>)
  BY <1>1 DEF Access, a
<1> HIDE DEF f
<1>6. Met(f) BY <1>4 DEF f
<1>7. Met(g) BY <1>6, MetRead, MetJoin
<1> HIDE DEF g
<1> QED BY <1>5, <1>7, MetWrite, MetJoin

LEMMA MetState == ASSUME NEW r, NEW next PROVE Met(StateTo(r, next))
  BY MetRead, MetWrite, MetJoin DEF StateTo

LEMMA MetRegisterRead ==
    ASSUME NEW r, NEW s, Framed(r, s), NEW o \in DOMAIN s.op, NEW u PROVE Met(RegisterRead(r, o, u))
  BY MetAccess DEF RegisterRead
LEMMA MetWriteRD ==
    ASSUME NEW r, NEW s, Framed(r, s), "rd" \in DOMAIN s.op, NEW u PROVE Met(WriteRD(r, u))
  BY MetAccess DEF WriteRD
LEMMA MetMemory ==
    ASSUME NEW r, NEW s, Framed(r, s), "mem" \in DOMAIN s.op, NEW addr, NEW before, NEW after
    PROVE  Met(MemoryWrite(r, addr, before, after))
  BY MetAccess DEF MemoryWrite

\* The instruction is fetched from the table of the program.
Fetched(s, rd, rs1, rs2, imm) ==
    /\ rd = IF s.kind \in BranchKinds \union StoreKinds \union {"ECALL"} THEN RD_NULL ELSE RdInternal(s.insn.rd)
    /\ rs1 = s.insn.rs1 /\ rs2 = s.insn.rs2 /\ Field(imm) = Field(ImmInternal(s.insn))

LEMMA MetFetch ==
    ASSUME NEW r, NEW s, s = step, r.pc = s.pc, s.insn.kind = s.kind,
           NEW rd, NEW rs1, NEW rs2, NEW imm, Fetched(s, rd, rs1, rs2, imm)
    PROVE  Met(LkFetch(r, s.kind, rd, rs1, rs2, imm))
<1> DEFINE l == <<"Instruction", r.pc, s.kind, rd, rs1, rs2, Field(imm)>>
<1>1. l = ProgramRow(step.insn, step.pc) BY DEF Fetched, ProgramRow
<1>2. l[1] = "Instruction" OBVIOUS
<1> HIDE DEF l
<1>3. InTable(l) BY <1>1, <1>2 DEF InTable
<1> QED BY <1>3, MetLookup DEF LkFetch, l

LEMMA MetRInsn ==
    ASSUME NEW r, NEW s, s = step, Framed(r, s), Encodes(s), IsR(s), NEW rs1, NEW rs2, NEW rd
    PROVE  Met(RInsn(r, s.kind, rs1, rs2, rd))
<1> DEFINE f == StateInOut(r) \o RegisterRead(r, "rs1", rs1)
           g == f \o RegisterRead(r, "rs2", rs2)
           h == g \o WriteRD(r, rd)
           fetch == LkFetch(r, s.kind, Id(r, "rd"), Id(r, "rs1"), Id(r, "rs2"), 0)
<1>1. DOMAIN s.op = {"rs1", "rs2", "rd"} /\ s.insn.kind = s.kind /\ s.kind \in RKinds BY DEF IsR, Completes
<1>2. /\ r.pc = s.pc /\ Id(r, "rs1") = s.op["rs1"].id /\ Id(r, "rs2") = s.op["rs2"].id
      /\ Id(r, "rd") = s.op["rd"].id
  BY <1>1 DEF Framed, RowFor, Id
<1>3. Fetched(s, Id(r, "rd"), Id(r, "rs1"), Id(r, "rs2"), 0)
  <2>1. s.kind \notin BranchKinds \union StoreKinds \union {"ECALL"}
        /\ s.kind \notin ShiftImmKinds \union {"ADDI", "SLTIU"} \union LogicImmKinds
    BY <1>1 DEF RKinds
  <2>2. s.insn.imm = 0 BY <1>1 DEF Encodes
  <2>3. ImmInternal(s.insn) = 0 BY <1>1, <2>1, <2>2 DEF ImmInternal
  <2> QED BY <1>1, <1>2, <2>1, <2>3 DEF Encodes, Fetched
<1>4. Met(fetch) BY <1>1, <1>2, <1>3, MetFetch
<1>5. Met(f) BY <1>1, MetState, MetRegisterRead, MetJoin DEF StateInOut
<1>6. RInsn(r, s.kind, rs1, rs2, rd) = h \o fetch BY DEF RInsn
<1> HIDE DEF f, fetch
<1>7. Met(g) BY <1>1, <1>5, MetRegisterRead, MetJoin
<1> HIDE DEF g
<1>8. Met(h) BY <1>1, <1>7, MetWriteRD, MetJoin
<1> HIDE DEF h
<1> QED BY <1>4, <1>6, <1>8, MetJoin

LEMMA MetIInsn ==
    ASSUME NEW r, NEW s, s = step, Framed(r, s), Encodes(s), IsI(s) \/ IsJalr(s),
           NEW imm, Field(imm) = Field(ImmInternal(s.insn)), NEW rs1, NEW rd, NEW next
    PROVE  Met(IInsn(r, s.kind, imm, rs1, rd, next))
<1> DEFINE f == StateTo(r, next) \o RegisterRead(r, "rs1", rs1)
           g == f \o WriteRD(r, rd)
           fetch == LkFetch(r, s.kind, Id(r, "rd"), Id(r, "rs1"), 0, imm)
<1>1. /\ DOMAIN s.op = {"rs1", "rd"} /\ s.insn.kind = s.kind
      /\ s.kind \notin BranchKinds \union StoreKinds \union {"ECALL"}
  BY DEF IsI, IsJalr, Completes, IKinds
<1>2. r.pc = s.pc /\ Id(r, "rs1") = s.op["rs1"].id /\ Id(r, "rd") = s.op["rd"].id
  BY <1>1 DEF Framed, RowFor, Id
<1>3. Fetched(s, Id(r, "rd"), Id(r, "rs1"), 0, imm) BY <1>1, <1>2 DEF Encodes, Fetched
<1>4. Met(fetch) BY <1>1, <1>2, <1>3, MetFetch
<1>5. Met(f) BY <1>1, MetState, MetRegisterRead, MetJoin
<1>6. IInsn(r, s.kind, imm, rs1, rd, next) = g \o fetch BY DEF IInsn
<1> HIDE DEF f, fetch
<1>7. Met(g) BY <1>1, <1>5, MetWriteRD, MetJoin
<1> HIDE DEF g
<1> QED BY <1>4, <1>6, <1>7, MetJoin

LEMMA MetIMInsn ==
    ASSUME NEW r, NEW s, s = step, Framed(r, s), Encodes(s), IsLoad(s),
           NEW imm, Field(imm) = Field(ImmInternal(s.insn)), NEW rs1, NEW word, NEW addr, NEW rd
    PROVE  Met(IMInsn(r, s.kind, imm, rs1, word, addr, rd))
<1> DEFINE f == StateInOut(r) \o RegisterRead(r, "rs1", rs1)
           g == f \o MemoryWrite(r, addr, word, word)
           h == g \o WriteRD(r, rd)
           fetch == LkFetch(r, s.kind, Id(r, "rd"), Id(r, "rs1"), 0, imm)
<1>1. /\ DOMAIN s.op = {"rs1", "mem", "rd"} /\ s.insn.kind = s.kind
      /\ s.kind \notin BranchKinds \union StoreKinds \union {"ECALL"}
  BY DEF IsLoad, Completes
<1>2. r.pc = s.pc /\ Id(r, "rs1") = s.op["rs1"].id /\ Id(r, "rd") = s.op["rd"].id
  BY <1>1 DEF Framed, RowFor, Id
<1>3. Fetched(s, Id(r, "rd"), Id(r, "rs1"), 0, imm) BY <1>1, <1>2 DEF Encodes, Fetched
<1>4. Met(fetch) BY <1>1, <1>2, <1>3, MetFetch
<1>5. Met(f) BY <1>1, MetState, MetRegisterRead, MetJoin DEF StateInOut
<1>6. IMInsn(r, s.kind, imm, rs1, word, addr, rd) = h \o fetch BY DEF IMInsn
<1> HIDE DEF f, fetch
<1>7. Met(g) BY <1>1, <1>5, MetMemory, MetJoin
<1> HIDE DEF g
<1>8. Met(h) BY <1>1, <1>7, MetWriteRD, MetJoin
<1> HIDE DEF h
<1> QED BY <1>4, <1>6, <1>8, MetJoin

LEMMA MetSInsn ==
    ASSUME NEW r, NEW s, s = step, Framed(r, s), Encodes(s), IsStore(s),
           NEW imm, Field(imm) = Field(ImmInternal(s.insn)), NEW rs1, NEW rs2, NEW addr, NEW before, NEW after
    PROVE  Met(SInsn(r, s.kind, imm, rs1, rs2, addr, before, after))
<1> DEFINE f == StateInOut(r) \o RegisterRead(r, "rs1", rs1)
           g == f \o RegisterRead(r, "rs2", rs2)
           h == g \o MemoryWrite(r, addr, before, after)
           fetch == LkFetch(r, s.kind, RD_NULL, Id(r, "rs1"), Id(r, "rs2"), imm)
<1>1. /\ DOMAIN s.op = {"rs1", "rs2", "mem"} /\ s.insn.kind = s.kind /\ s.kind \in StoreKinds
      /\ s.kind # "ECALL"
  BY DEF IsStore, Completes
<1>2. r.pc = s.pc /\ Id(r, "rs1") = s.op["rs1"].id /\ Id(r, "rs2") = s.op["rs2"].id
  BY <1>1 DEF Framed, RowFor, Id
<1>3. Fetched(s, RD_NULL, Id(r, "rs1"), Id(r, "rs2"), imm) BY <1>1, <1>2 DEF Encodes, Fetched
<1>4. Met(fetch) BY <1>1, <1>2, <1>3, MetFetch
<1>5. Met(f) BY <1>1, MetState, MetRegisterRead, MetJoin DEF StateInOut
<1>6. SInsn(r, s.kind, imm, rs1, rs2, addr, before, after) = h \o fetch BY DEF SInsn
<1> HIDE DEF f, fetch
<1>7. Met(g) BY <1>1, <1>5, MetRegisterRead, MetJoin
<1> HIDE DEF g
<1>8. Met(h) BY <1>1, <1>7, MetMemory, MetJoin
<1> HIDE DEF h
<1> QED BY <1>4, <1>6, <1>8, MetJoin

LEMMA MetBInsn ==
    ASSUME NEW r, NEW s, s = step, Framed(r, s), Encodes(s), IsBranch(s),
           NEW imm, Field(imm) = Field(ImmInternal(s.insn)), NEW rs1, NEW rs2, NEW taken,
           Met(RequireEqual(r.next, r.pc + taken * imm - taken * PC_STEP_SIZE + PC_STEP_SIZE))
    PROVE  Met(BInsn(r, s.kind, imm, rs1, rs2, taken))
<1> DEFINE f == StateTo(r, r.next) \o RegisterRead(r, "rs1", rs1)
           g == f \o RegisterRead(r, "rs2", rs2)
           fetch == LkFetch(r, s.kind, RD_NULL, Id(r, "rs1"), Id(r, "rs2"), imm)
           h == g \o fetch
           equal == RequireEqual(r.next, r.pc + taken * imm - taken * PC_STEP_SIZE + PC_STEP_SIZE)
<1>1. /\ DOMAIN s.op = {"rs1", "rs2"} /\ s.insn.kind = s.kind /\ s.kind \in BranchKinds /\ s.kind # "ECALL"
  BY DEF IsBranch, Completes
<1>2. r.pc = s.pc /\ Id(r, "rs1") = s.op["rs1"].id /\ Id(r, "rs2") = s.op["rs2"].id
  BY <1>1 DEF Framed, RowFor, Id
<1>3. Fetched(s, RD_NULL, Id(r, "rs1"), Id(r, "rs2"), imm) BY <1>1, <1>2 DEF Encodes, Fetched
<1>4. Met(fetch) BY <1>1, <1>2, <1>3, MetFetch
<1>5. Met(f) BY <1>1, MetState, MetRegisterRead, MetJoin
<1>6. BInsn(r, s.kind, imm, rs1, rs2, taken) = h \o equal BY DEF BInsn
<1>7. Met(equal) OBVIOUS
<1> HIDE DEF f, fetch, equal
<1>8. Met(g) BY <1>1, <1>5, MetRegisterRead, MetJoin
<1> HIDE DEF g
<1>9. Met(h) BY <1>4, <1>8, MetJoin
<1> HIDE DEF h
<1> QED BY <1>6, <1>7, <1>9, MetJoin

LEMMA MetJInsn ==
    ASSUME NEW r, NEW s, s = step, Framed(r, s), Encodes(s), IsJal(s), NEW rd
    PROVE  Met(JInsn(r, s.kind, rd))
<1> DEFINE f == StateTo(r, r.next) \o WriteRD(r, rd)
           fetch == LkFetch(r, s.kind, Id(r, "rd"), 0, 0, r.next - r.pc)
<1>1. DOMAIN s.op = {"rd"} /\ s.insn.kind = s.kind /\ s.kind = "JAL" BY DEF IsJal, Completes
<1>2. r.pc = s.pc /\ r.next = s.next /\ Id(r, "rd") = s.op["rd"].id BY <1>1 DEF Framed, RowFor, Id
<1>3. r.next - r.pc = s.insn.imm
  <2>1. s.next = s.pc + s.insn.imm /\ s.insn.imm \in Imms /\ s.pc \in Pcs BY DEF IsJal, Completes
  <2>2. s.pc \in Nat /\ s.insn.imm \in Int BY <2>1, StepAssumption, ImmRange
  <2> QED BY <1>2, <2>1, <2>2
<1>4. ImmInternal(s.insn) = s.insn.imm BY <1>1 DEF ImmInternal
<1>5. Fetched(s, Id(r, "rd"), 0, 0, r.next - r.pc) BY <1>1, <1>2, <1>3, <1>4 DEF Encodes, Fetched
<1>6. Met(fetch) BY <1>1, <1>2, <1>5, MetFetch
<1>7. Met(f) BY <1>1, MetState, MetWriteRD, MetJoin
<1>8. JInsn(r, s.kind, rd) = f \o fetch BY DEF JInsn
<1> HIDE DEF f, fetch
<1> QED BY <1>6, <1>7, <1>8, MetJoin

\* A system call is fetched with no registers and no immediate.
LEMMA MetEcallFetch ==
    ASSUME NEW r, NEW s, s = step, Framed(r, s), Encodes(s), s.kind = "ECALL", s.insn.kind = s.kind,
           NEW imm, Field(imm) = Field(0)
    PROVE  Met(LkFetch(r, "ECALL", RD_NULL, 0, 0, imm))
<1>1. r.pc = s.pc BY DEF Framed, RowFor
<1>2. s.insn.imm = 0 /\ s.insn.rs1 = 0 /\ s.insn.rs2 = 0 BY DEF Encodes
<1>3. ImmInternal(s.insn) = 0 BY <1>2 DEF ImmInternal
<1>4. Fetched(s, RD_NULL, 0, 0, imm) BY <1>2, <1>3 DEF Fetched
<1>5. Met(LkFetch(r, s.kind, RD_NULL, 0, 0, imm)) BY <1>1, <1>4, MetFetch
<1> QED BY <1>5

LEMMA MetEcallInsn ==
    ASSUME NEW r, NEW s, s = step, Framed(r, s), Encodes(s), s.kind = "ECALL", s.insn.kind = s.kind,
           "rs1" \in DOMAIN s.op, NEW id, NEW next
    PROVE  Met(EcallInsn(r, id, next))
<1> DEFINE f == StateTo(r, next) \o LkFetch(r, "ECALL", RD_NULL, 0, 0, 0)
           g == Access(r, "rs1", "reg", RegEcall, id.limb, id.limb)
<1>1. EcallInsn(r, id, next) = f \o g BY DEF EcallInsn
<1>2. Met(f) BY MetEcallFetch, MetState, MetJoin
<1>3. Met(g) BY MetAccess
<1> HIDE DEF f, g
<1> QED BY <1>1, <1>2, <1>3, MetJoin

-----------------------------------------------------------------------------
(***************************************************************************)
(* The circuits, one after the other.                                      *)
(***************************************************************************)
\* A step that is the one of the state, with what the tracer and the program
\* say of it.
Recorded(s) == s = step /\ Timely(s) /\ Encodes(s)

LEMMA MetThree == ASSUME NEW f, NEW g, NEW h, Met(f), Met(g), Met(h) PROVE Met(f \o g \o h)
<1>1. Met(f \o g) BY MetJoin
<1> QED BY <1>1, MetJoin
LEMMA MetFour ==
    ASSUME NEW f, NEW g, NEW h, NEW k, Met(f), Met(g), Met(h), Met(k) PROVE Met(f \o g \o h \o k)
<1>1. Met(f \o g \o h) BY MetThree
<1> QED BY <1>1, MetJoin

LEMMA MetCondition ==
    ASSUME NEW cond, NEW x \in Int, NEW yes \in Int, NEW no \in Int,
           (cond = 1 /\ Field(x) = Field(yes)) \/ (cond = 0 /\ Field(x) = Field(no))
    PROVE  Met(ConditionRequireEqual(cond, x, yes, no))
<1>1. CASE cond = 1 /\ Field(x) = Field(yes)
  <2>1. cond * yes + (1 - cond) * no = yes BY <1>1
  <2> QED BY <1>1, <2>1, MetCongruent DEF ConditionRequireEqual
<1>2. CASE cond = 0 /\ Field(x) = Field(no)
  <2>1. cond * yes + (1 - cond) * no = no BY <1>2
  <2> QED BY <1>2, <2>1, MetCongruent DEF ConditionRequireEqual
<1> QED BY <1>1, <1>2

\* The result of an instruction on registers is a word.
LEMMA ComputeIsWord ==
    ASSUME NEW kind \in {"ADD", "SUB", "ADDI"}, NEW a \in Words, NEW b \in Words
    PROVE  Compute(kind, a, b) \in Words
<1>1. WordRange \in Nat /\ WordRange > 0 /\ Words = 0 .. WordRange - 1 /\ a \in Int /\ b \in Int BY Sizes
<1>2. Wrapped(a + b) \in Words /\ Wrapped(a - b) \in Words BY <1>1 DEF Wrapped
<1> QED BY <1>2 DEF Compute

LEMMA ArithMet ==
    ASSUME NEW s, Recorded(s), IsR(s), s.kind \in ArithKinds
    PROVE  Met(ArithCircuit(s.kind, ArithRow(s)))
<1> DEFINE a == s.op["rs1"].after  b == s.op["rs2"].after  d == s.op["rd"].after
           r == ArithRow(s)  c == r.cells
<1>1. a \in Words /\ b \in Words /\ d = Compute(s.kind, a, b) BY DEF IsR, ReadsWord
<1>2. Framed(r, s) BY FramedRow DEF ArithRow, Recorded
<1>3. CASE s.kind = "ADD"
  <2>1. /\ LimbsOf(c.rs1_read, a) /\ LimbsOf(c.rs2_read, b)
        /\ c.carries.carry = AssignAdd(c.rs1_read, c.rs2_read).carry
    BY <1>3 DEF ArithRow, AssignRow, ValueUnchecked, LimbsOf
  <2> DEFINE sum == SumOf(c.rs1_read, c.rs2_read, c.carries)
  <2>2. ArithCircuit(s.kind, r) = Add(c.rs1_read, c.rs2_read, c.carries)
                                    \o RInsn(r, s.kind, c.rs1_read, c.rs2_read, sum)
    BY <1>3 DEF ArithCircuit
  <2> HIDE DEF r, sum
  <2>3. Met(RInsn(r, s.kind, c.rs1_read, c.rs2_read, sum)) BY <1>2, MetRInsn DEF Recorded
  <2>4. Met(Add(c.rs1_read, c.rs2_read, c.carries)) BY <1>1, <2>1, MetAdd
  <2> QED BY <2>2, <2>3, <2>4, MetJoin DEF r
<1>4. CASE s.kind = "SUB"
  <2>1. /\ LimbsOf(c.rd_written, d) /\ LimbsOf(c.rs2_read, b)
        /\ c.carries.carry = AssignAdd(c.rs2_read, c.rd_written).carry
    BY <1>4 DEF ArithRow, AssignRow, ValueUnchecked, ValueNew, LimbsOf
  <2>2. d \in Words BY <1>1, <1>4, ComputeIsWord
  <2> DEFINE sum == SumOf(c.rs2_read, c.rd_written, c.carries)
  <2>3. ArithCircuit(s.kind, r) = UInt(c.rd_written) \o Add(c.rs2_read, c.rd_written, c.carries)
                                    \o RInsn(r, s.kind, sum, c.rs2_read, c.rd_written)
    BY <1>4 DEF ArithCircuit
  <2> HIDE DEF r, sum
  <2>4. Met(RInsn(r, s.kind, sum, c.rs2_read, c.rd_written)) BY <1>2, MetRInsn DEF Recorded
  <2>5. Met(Add(c.rs2_read, c.rd_written, c.carries)) BY <1>1, <2>1, <2>2, MetAdd
  <2>6. Met(UInt(c.rd_written)) BY <2>1, <2>2, MetUInt
  <2> QED BY <2>3, <2>4, <2>5, <2>6, MetThree DEF r
<1> QED BY <1>3, <1>4

LEMMA ArithImmMet ==
    ASSUME NEW s, Recorded(s), IsI(s), s.kind \in ArithImmKinds
    PROVE  Met(ArithImmCircuit(s.kind, ArithImmRow(s)))
<1> DEFINE a == s.op["rs1"].after  imm == Wrapped(s.insn.imm)
           r == ArithImmRow(s)  c == r.cells
           sum == SumOf(c.rs1_read, c.imm, c.carries)
           next == r.pc + PC_STEP_SIZE
           g == IInsn(r, s.kind, ValueOf(c.imm), c.rs1_read, sum, next)
<1>1. a \in Words /\ s.kind = "ADDI" /\ s.insn.kind = "ADDI" BY DEF IsI, ReadsWord, Completes
<1>2. Framed(r, s) BY FramedRow DEF ArithImmRow, Recorded
<1>3. imm \in Words
  <2>1. s.insn.imm \in Int BY ImmRange DEF IsI
  <2> QED BY <2>1, Sizes DEF Wrapped
<1>4. ImmInternal(s.insn) = imm BY <1>1 DEF ImmInternal
<1>5. /\ LimbsOf(c.rs1_read, a) /\ LimbsOf(c.imm, imm)
      /\ c.carries.carry = AssignAdd(c.rs1_read, c.imm).carry
  BY <1>4 DEF ArithImmRow, AssignRow, ValueUnchecked, ValueNew, LimbsOf
<1>6. ArithImmCircuit(s.kind, r) = UInt(c.imm) \o Add(c.rs1_read, c.imm, c.carries) \o g BY DEF ArithImmCircuit
<1> HIDE DEF r, sum, next
<1>7. ValueOf(c.imm) = ImmInternal(s.insn) BY <1>3, <1>4, <1>5, ValueOfLimbs
<1>8. Met(g) BY <1>2, <1>7, MetIInsn DEF Recorded
<1>9. Met(Add(c.rs1_read, c.imm, c.carries)) /\ Met(UInt(c.imm)) BY <1>1, <1>3, <1>5, MetAdd, MetUInt
<1> HIDE DEF g
<1> QED BY <1>6, <1>8, <1>9, MetThree DEF r

LEMMA LogicMet ==
    ASSUME NEW s, Recorded(s), IsR(s), s.kind \in LogicKinds
    PROVE  Met(LogicCircuit(s.kind, LogicRow(s)))
<1> DEFINE a == s.op["rs1"].after  b == s.op["rs2"].after  d == s.op["rd"].after
           r == LogicRow(s)  c == r.cells
           f == Logic(s.kind, c.rs1_read, c.rs2_read, c.rd_written)
           g == RInsn(r, s.kind, ByteLimbs(c.rs1_read), ByteLimbs(c.rs2_read), ByteLimbs(c.rd_written))
<1>1. a \in Words /\ b \in Words /\ d = Compute(s.kind, a, b) BY DEF IsR, ReadsWord
<1>2. Framed(r, s) BY FramedRow DEF LogicRow, Recorded
<1>3. c.rs1_read = BytesOf(a) /\ c.rs2_read = BytesOf(b) /\ c.rd_written = BytesOf(d) BY DEF LogicRow, AssignRow
<1>4. LogicCircuit(s.kind, r) = f \o g BY DEF LogicCircuit
<1> HIDE DEF r, c
<1>5. Met(f) BY <1>1, <1>3, MetLogic
<1>6. Met(g) BY <1>2, MetRInsn DEF Recorded
<1> HIDE DEF f, g
<1> QED BY <1>4, <1>5, <1>6, MetJoin DEF r

\* The four bytes of a word make the word.
LEMMA BytesMakeWord == ASSUME NEW v \in Words PROVE ByteValue(BytesOf(v)) = v
<1> DEFINE B == ByteRange  L == LimbRange  b1 == ByteNo(v, 0)  b2 == ByteNo(v, 1)  b3 == ByteNo(v, 2)
           b4 == ByteNo(v, 3)  byte == BytesOf(v).byte
<1>1. byte[1] = b1 /\ byte[2] = b2 /\ byte[3] = b3 /\ byte[4] = b4
  <2>1. \A k \in 0 .. 3 : byte[k + 1] = ByteNo(v, k) BY BytesByNumber
  <2>2. 0 + 1 = 1 /\ 1 + 1 = 2 /\ 2 + 1 = 3 /\ 3 + 1 = 4 OBVIOUS
  <2>3. byte[0 + 1] = b1 /\ byte[1 + 1] = b2 /\ byte[2 + 1] = b3 /\ byte[3 + 1] = b4 BY <2>1
  <2> HIDE DEF b1, b2, b3, b4, byte
  <2> QED BY <2>2, <2>3
<1>2. b1 = Byte1(v) /\ b2 = Byte2(v) /\ b3 = Byte3(v) /\ b4 = Byte4(v) BY ShiftedWord DEF ByteNo
<1>3. /\ b1 \in Int /\ b2 \in Int /\ b3 \in Int /\ b4 \in Int /\ B \in Int /\ L \in Int
      /\ v % L = b1 + b2 * B /\ v \div L = b3 + b4 * B
  <2>1. B \in Nat /\ L \in Nat BY Bits, Sizes
  <2> QED BY <1>2, <2>1, BytesOfWord DEF ByteWords
<1>4. v = (v % L) + (v \div L) * L BY LimbsOfWord
<1>5. ByteValue(BytesOf(v)) = Field(b1 + b2 * B + b3 * L + b4 * L * B) BY <1>1 DEF ByteValue
<1> HIDE DEF B, L, b1, b2, b3, b4
<1>6. v = (b1 + b2 * B) + (b3 + b4 * B) * L BY <1>3, <1>4
<1>7. (b3 + b4 * B) * L = b3 * L + b4 * L * B BY <1>3
<1>8. b2 * B \in Int /\ b3 * L \in Int /\ b4 * L * B \in Int BY <1>3
<1> DEFINE x == b2 * B  y == b3 * L  z == b4 * L * B
<1>9. v = (b1 + x) + (y + z) /\ x \in Int /\ y \in Int /\ z \in Int BY <1>6, <1>7, <1>8
<1> HIDE DEF x, y, z
<1>10. v = b1 + x + y + z BY <1>3, <1>9
<1> QED BY <1>5, <1>10, WordIsField DEF x, y, z

LEMMA LogicImmMet ==
    ASSUME NEW s, Recorded(s), IsI(s), s.kind \in LogicImmKinds
    PROVE  Met(LogicImmCircuit(s.kind, LogicImmRow(s)))
<1> DEFINE a == s.op["rs1"].after  d == s.op["rd"].after  w == Wrapped(s.insn.imm)
           r == LogicImmRow(s)  c == r.cells
           next == r.pc + PC_STEP_SIZE
           f == Logic(s.kind, c.rs1_read, c.imm, c.rd_written)
           g == IInsn(r, s.kind, ByteValue(c.imm), ByteLimbs(c.rs1_read), ByteLimbs(c.rd_written), next)
<1>1. a \in Words /\ s.insn.imm \in Imms /\ d = Compute(s.kind, a, w) /\ s.insn.kind = s.kind
  BY DEF IsI, ReadsWord, Completes
<1>2. w \in Words
  <2>1. s.insn.imm \in Int BY <1>1, ImmRange
  <2> QED BY <2>1, Sizes DEF Wrapped
<1>3. Framed(r, s) BY FramedRow DEF LogicImmRow, Recorded
<1>4. ImmInternal(s.insn) = w BY <1>1 DEF ImmInternal
<1>5. c.rs1_read = BytesOf(a) /\ c.imm = BytesOf(w) /\ c.rd_written = BytesOf(d)
  BY <1>4 DEF LogicImmRow, AssignRow
<1>6. LogicImmCircuit(s.kind, r) = f \o g BY DEF LogicImmCircuit
<1> HIDE DEF r, c, w, next
<1>7. Met(f) BY <1>1, <1>2, <1>5, MetLogic
<1>8. ByteValue(c.imm) = ImmInternal(s.insn) BY <1>2, <1>4, <1>5, BytesMakeWord
<1>9. Met(g) BY <1>3, <1>8, MetIInsn DEF Recorded
<1> HIDE DEF f, g
<1> QED BY <1>6, <1>7, <1>9, MetJoin DEF r

\* A comparison of words, with or without sign.
LEMMA MetLess ==
    ASSUME NEW v \in Words, NEW w \in Words, NEW a, NEW b, LimbsOf(a, v), LimbsOf(b, w),
           NEW d, d.limb = AssignLt(v, w).limb, d.is_lt = AssignLt(v, w).is_lt
    PROVE  Met(IsLt(ValueOf(a), ValueOf(b), d)) /\ d.is_lt = IF v < w THEN 1 ELSE 0
<1>1. ValueOf(a) = v /\ ValueOf(b) = w BY ValueOfLimbs
<1>2. v \in Int /\ w \in Int /\ v - w < WordRange /\ w - v < WordRange
  <2>1. v \in Nat /\ v < WordRange /\ w \in Nat /\ w < WordRange /\ WordRange \in Nat BY WordIsField, Sizes
  <2> QED BY <2>1
<1> QED BY <1>1, <1>2, MetIsLt

LEMMA SignedLess ==
    ASSUME NEW v \in Words, NEW w \in Words
    PROVE  AssignSignedLt(v, w).lt.is_lt = IF SignedOf(v) < SignedOf(w) THEN 1 ELSE 0
<1>1. AssignSignedLt(v, w).lt = AssignLt(SignedOf(v), SignedOf(w)) BY DEF AssignSignedLt
<1> QED BY <1>1, SignedIsInt, AssignedLess

LEMMA SltMet ==
    ASSUME NEW s, Recorded(s), IsR(s), s.kind \in SltKinds
    PROVE  Met(SltCircuit(s.kind, SltRow(s)))
<1> DEFINE a == s.op["rs1"].after  b == s.op["rs2"].after
           r == SltRow(s)  c == r.cells
           rd == Flag(IF s.kind = "SLT" THEN c.deps.lt.is_lt ELSE c.deps.is_lt)
           f == IF s.kind = "SLT" THEN SignedLt(c.rs1_read, c.rs2_read, c.deps)
                ELSE IsLt(ValueOf(c.rs1_read), ValueOf(c.rs2_read), c.deps)
           g == RInsn(r, s.kind, c.rs1_read, c.rs2_read, rd)
<1>1. a \in Words /\ b \in Words BY DEF IsR, ReadsWord
<1>2. Framed(r, s) BY FramedRow DEF SltRow, Recorded
<1>3. LimbsOf(c.rs1_read, a) /\ LimbsOf(c.rs2_read, b)
  BY DEF SltRow, AssignRow, ValueUnchecked, LimbsOf
<1>4. c.deps = IF s.kind = "SLT" THEN AssignSignedLt(a, b) ELSE AssignLt(a, b) BY DEF SltRow, AssignRow
<1>5. SltCircuit(s.kind, r) = f \o g BY DEF SltCircuit
<1> HIDE DEF r, c, rd, a, b
<1>6. Met(f)
  <2>1. CASE s.kind = "SLT" BY <1>1, <1>3, <1>4, <2>1, MetSignedLt
  <2>2. CASE s.kind # "SLT" BY <1>1, <1>3, <1>4, <2>2, MetLess
  <2> QED BY <2>1, <2>2
<1>7. Met(g) BY <1>2, MetRInsn DEF Recorded
<1> HIDE DEF f, g
<1> QED BY <1>5, <1>6, <1>7, MetJoin DEF r

LEMMA SltImmMet ==
    ASSUME NEW s, Recorded(s), IsI(s), s.kind \in SltImmKinds
    PROVE  Met(SltImmCircuit(s.kind, SltImmRow(s)))
<1> DEFINE a == s.op["rs1"].after  w == Wrapped(s.insn.imm)  imm == ImmInternal(s.insn)
           r == SltImmRow(s)  c == r.cells
           rd == Flag(c.lt.is_lt)
           next == r.pc + PC_STEP_SIZE
           value == IF s.kind = "SLTI" THEN ToField(c.rs1_read, c.is_rs1_neg) ELSE ValueOf(c.rs1_read)
           lhs == IF s.kind = "SLTI" THEN SignedOf(a) ELSE a
           sign == IF s.kind = "SLTI" THEN IsNegative(c.rs1_read, c.is_rs1_neg) ELSE Nothing
           less == IsLt(value, c.imm.value, c.lt)
           g == IInsn(r, s.kind, c.imm.value, c.rs1_read, rd, next)
<1>1. a \in Words /\ s.insn.imm \in Imms /\ s.insn.kind = s.kind BY DEF IsI, ReadsWord, Completes
<1>2. Framed(r, s) BY FramedRow DEF SltImmRow, Recorded
<1>3. LimbsOf(c.rs1_read, a) /\ c.imm.value = Field(imm)
  BY DEF SltImmRow, AssignRow, ValueUnchecked, LimbsOf, Cell
<1>4. s.kind = "SLTI" => c.is_rs1_neg = AssignIsNegative(a) BY DEF SltImmRow, AssignRow
<1>5. imm = IF s.kind = "SLTI" THEN s.insn.imm ELSE w BY <1>1 DEF ImmInternal
<1>6. c.lt = AssignLt(lhs, imm) BY DEF SltImmRow, AssignRow
<1>7. SltImmCircuit(s.kind, r) = (sign \o less) \o g BY DEF SltImmCircuit
<1> HIDE DEF r, c, rd, next
<1>8. lhs \in Int /\ imm \in Int /\ lhs - imm < WordRange /\ imm - lhs < WordRange
  <2>1. s.insn.imm \in Int /\ 2 * s.insn.imm >= -WordRange /\ 2 * s.insn.imm < WordRange BY <1>1, ImmRange
  <2>2. WordRange \in Nat /\ WordRange > 0 /\ w \in 0 .. WordRange - 1 /\ a \in 0 .. WordRange - 1
    <3>1. WordRange \in Nat /\ WordRange > 0 /\ Words = 0 .. WordRange - 1 BY Sizes
    <3> QED BY <1>1, <2>1, <3>1 DEF Wrapped
  <2>3. SignedOf(a) \in Int /\ 2 * SignedOf(a) >= -WordRange /\ 2 * SignedOf(a) < WordRange
    BY <1>1, SignedRange
  <2> HIDE DEF a, w, imm
  <2>4. CASE s.kind = "SLTI" BY <1>5, <2>1, <2>2, <2>3, <2>4
  <2>5. CASE s.kind # "SLTI" BY <1>5, <2>2, <2>5
  <2> QED BY <2>4, <2>5
<1> HIDE DEF imm, w, a
<1>9. Met(sign) /\ value = lhs
  <2>1. ValueOf(c.rs1_read) = a BY <1>1, <1>3, ValueOfLimbs
  <2>2. CASE s.kind = "SLTI" BY <1>1, <1>3, <1>4, <2>2, MetNegative
  <2>3. CASE s.kind # "SLTI" BY <2>1, <2>3, MetNothing
  <2> QED BY <2>2, <2>3
<1> HIDE DEF sign, value, lhs
<1>10. Met(less)
  <2>1. Field(value - c.imm.value) = Field(lhs - imm) BY <1>3, <1>8, <1>9, FieldMinus
  <2>2. value \in Int /\ c.imm.value \in Int BY <1>3, <1>8, <1>9, FieldIsInt
  <2> QED BY <1>6, <1>8, <2>1, <2>2, MetIsLt
<1>11. Met(g)
  <2>1. Field(c.imm.value) = Field(imm) BY <1>3, <1>8, FieldTwice
  <2> QED BY <1>2, <2>1, MetIInsn DEF Recorded, imm
<1> HIDE DEF less, g
<1> QED BY <1>7, <1>9, <1>10, <1>11, MetThree DEF r

\* Between -P and P only zero vanishes.
LEMMA FieldVanishes ==
    ASSUME NEW x \in Int, -P < x, x < P PROVE Field(x) = 0 <=> x = 0
<1>1. P \in Nat /\ P > 0 BY Sizes
<1>2. CASE x >= 0
  <2>1. x \in 0 .. P - 1 BY <1>1, <1>2
  <2>2. Field(x) = x BY <1>1, <2>1, SmallField
  <2> QED BY <2>2
<1>3. CASE x < 0
  <2>1. x + P \in 1 .. P - 1 BY <1>1, <1>3
  <2>2. (-1 * P + (x + P)) % P = x + P BY <1>1, <2>1, DivisionUnique
  <2>3. -1 * P + (x + P) = x BY <1>1
  <2>4. Field(x) = x + P BY <2>2, <2>3 DEF Field
  <2> QED BY <1>1, <1>3, <2>1, <2>4
<1> QED BY <1>1, <1>2, <1>3

\* The program counter after a branch.
LEMMA MetBranch ==
    ASSUME NEW pc \in Int, NEW imm \in Int, NEW x \in Int, Field(x) = Field(imm), NEW taken \in {0, 1},
           NEW next, next = pc + IF taken = 1 THEN imm ELSE PC_STEP_SIZE
    PROVE  Met(RequireEqual(next, pc + taken * x - taken * PC_STEP_SIZE + PC_STEP_SIZE))
<1>1. PC_STEP_SIZE = 4 BY DEF PC_STEP_SIZE
<1>2. CASE taken = 1
  <2>1. next = pc + imm /\ pc + taken * x - taken * PC_STEP_SIZE + PC_STEP_SIZE = pc + x BY <1>1, <1>2
  <2>2. Field(pc + x) = Field(pc + imm)
    <3>1. Field(pc + Field(x)) = Field(pc + x) /\ Field(pc + Field(imm)) = Field(pc + imm) BY FieldOfSum
    <3> QED BY <3>1
  <2>3. pc + x \in Int /\ pc + imm \in Int OBVIOUS
  <2> QED BY <2>1, <2>2, <2>3, MetCongruent
<1>3. CASE taken = 0
  <2>1. next = pc + 4 /\ pc + taken * x - taken * PC_STEP_SIZE + PC_STEP_SIZE = pc + 4 BY <1>1, <1>3
  <2> QED BY <2>1, MetSame
<1> QED BY <1>2, <1>3

LEMMA BranchMet ==
    ASSUME NEW s, Recorded(s), IsBranch(s)
    PROVE  Met(BranchCircuit(s.kind, BranchRow(s)))
<1> DEFINE a == s.op["rs1"].after  b == s.op["rs2"].after
           r == BranchRow(s)  c == r.cells
           holds == CASE s.kind \in {"BEQ", "BNE"}   -> c.compare.is_zero
                      [] s.kind \in {"BLT", "BGE"}   -> c.compare.lt.is_lt
                      [] s.kind \in {"BLTU", "BGEU"} -> c.compare.is_lt
           taken == IF s.kind \in {"BNE", "BGE", "BGEU"} THEN 1 - holds ELSE holds
           f == CASE s.kind \in {"BEQ", "BNE"}   -> IsZero(ValueOf(c.rs2_read) - ValueOf(c.rs1_read), c.compare)
                  [] s.kind \in {"BLT", "BGE"}   -> SignedLt(c.rs1_read, c.rs2_read, c.compare)
                  [] s.kind \in {"BLTU", "BGEU"} -> IsLt(ValueOf(c.rs1_read), ValueOf(c.rs2_read), c.compare)
           equal == RequireEqual(r.next, r.pc + taken * c.imm.value - taken * PC_STEP_SIZE + PC_STEP_SIZE)
           g == BInsn(r, s.kind, c.imm.value, c.rs1_read, c.rs2_read, taken)
<1>1. /\ s.kind \in BranchKinds /\ a \in Words /\ b \in Words /\ s.insn.imm \in Imms /\ s.insn.kind = s.kind
      /\ s.pc \in Pcs /\ s.next = s.pc + IF Taken(s.kind, a, b) THEN s.insn.imm ELSE PC_STEP_SIZE
  BY DEF IsBranch, Completes, ReadsWord
<1>2. Framed(r, s) BY FramedRow DEF BranchRow, Recorded
<1>3. LimbsOf(c.rs1_read, a) /\ LimbsOf(c.rs2_read, b) /\ c.imm.value = Field(ImmInternal(s.insn))
  BY DEF BranchRow, AssignRow, ValueUnchecked, LimbsOf, Cell
<1>4. c.compare = CASE s.kind \in {"BEQ", "BNE"}   -> AssignIsZero(b - a)
                    [] s.kind \in {"BLT", "BGE"}   -> AssignSignedLt(a, b)
                    [] s.kind \in {"BLTU", "BGEU"} -> AssignLt(a, b)
  BY DEF BranchRow, AssignRow
<1>5. BranchCircuit(s.kind, r) = f \o g BY DEF BranchCircuit
<1>6. ImmInternal(s.insn) = s.insn.imm BY <1>1 DEF ImmInternal
<1> HIDE DEF r, c, a, b
<1>7. ASSUME s.kind \in {"BEQ", "BNE"}
      PROVE  Met(f) /\ taken \in {0, 1} /\ (taken = 1 <=> Taken(s.kind, a, b))
  <2>1. b - a \in Int /\ -P < b - a /\ b - a < P
    <3>1. /\ a \in Nat /\ a < WordRange /\ b \in Nat /\ b < WordRange /\ WordRange \in Nat
          /\ P > 8 * WordRange /\ P \in Nat
      BY <1>1, WordIsField, Sizes
    <3> QED BY <3>1
  <2>2. ValueOf(c.rs2_read) - ValueOf(c.rs1_read) = b - a BY <1>1, <1>3, ValueOfLimbs
  <2>3. Met(IsZero(b - a, c.compare)) /\ c.compare.is_zero = (IF Field(b - a) = 0 THEN 1 ELSE 0)
    <3>1. c.compare = AssignIsZero(b - a) BY <1>4, <1>7
    <3> QED BY <2>1, <3>1, MetIsZero
  <2>4. Field(b - a) = 0 <=> a = b
    <3>1. Field(b - a) = 0 <=> b - a = 0 BY <2>1, FieldVanishes
    <3>2. a \in Int /\ b \in Int BY <1>1, WordIsField
    <3> QED BY <3>1, <3>2
  <2>5. holds = IF a = b THEN 1 ELSE 0 BY <1>7, <2>3, <2>4
  <2>6. Met(f) BY <1>7, <2>2, <2>3
  <2> HIDE DEF f, holds
  <2>7. taken \in {0, 1} /\ (taken = 1 <=> Taken(s.kind, a, b))
    <3>1. CASE s.kind = "BEQ" BY <2>5, <3>1 DEF Taken
    <3>2. CASE s.kind = "BNE" BY <2>5, <3>2 DEF Taken
    <3> QED BY <1>7, <3>1, <3>2
  <2> QED BY <2>6, <2>7
<1>8. ASSUME s.kind \in {"BLT", "BGE"}
      PROVE  Met(f) /\ taken \in {0, 1} /\ (taken = 1 <=> Taken(s.kind, a, b))
  <2>1. Met(f) BY <1>1, <1>3, <1>4, <1>8, MetSignedLt
  <2>2. holds = IF SignedOf(a) < SignedOf(b) THEN 1 ELSE 0 BY <1>1, <1>4, <1>8, SignedLess
  <2>3. SignedOf(a) \in Int /\ SignedOf(b) \in Int BY <1>1, SignedIsInt
  <2> HIDE DEF f, holds
  <2>4. taken \in {0, 1} /\ (taken = 1 <=> Taken(s.kind, a, b))
    <3>1. CASE s.kind = "BLT" BY <2>2, <2>3, <3>1 DEF Taken
    <3>2. CASE s.kind = "BGE" BY <2>2, <2>3, <3>2 DEF Taken
    <3> QED BY <1>8, <3>1, <3>2
  <2> QED BY <2>1, <2>4
<1>9. ASSUME s.kind \in {"BLTU", "BGEU"}
      PROVE  Met(f) /\ taken \in {0, 1} /\ (taken = 1 <=> Taken(s.kind, a, b))
  <2>1. Met(f) BY <1>1, <1>3, <1>4, <1>9, MetLess
  <2>2. a \in Int /\ b \in Int BY <1>1, WordIsField
  <2>3. holds = IF a < b THEN 1 ELSE 0 BY <1>4, <1>9, <2>2, AssignedLess
  <2> HIDE DEF f, holds
  <2>4. taken \in {0, 1} /\ (taken = 1 <=> Taken(s.kind, a, b))
    <3>1. CASE s.kind = "BLTU" BY <2>2, <2>3, <3>1 DEF Taken
    <3>2. CASE s.kind = "BGEU" BY <2>2, <2>3, <3>2 DEF Taken
    <3> QED BY <1>9, <3>1, <3>2
  <2> QED BY <2>1, <2>4
<1>10. Met(f) /\ taken \in {0, 1} /\ (taken = 1 <=> Taken(s.kind, a, b)) BY <1>1, <1>7, <1>8, <1>9
<1> HIDE DEF f, taken
<1>11. s.pc \in Int /\ s.insn.imm \in Int
  <2>1. s.pc \in Pcs /\ s.insn.imm \in Imms BY <1>1
  <2>2. \A pc \in Pcs : pc \in Nat BY StepAssumption
  <2> QED BY <2>1, <2>2, ImmRange
<1>12. c.imm.value \in Int /\ Field(c.imm.value) = Field(s.insn.imm) BY <1>3, <1>6, <1>11, FieldIsInt, FieldTwice
<1>13. r.next = s.next /\ r.pc = s.pc BY <1>2 DEF Framed, RowFor
<1>14. Met(equal) BY <1>1, <1>10, <1>11, <1>12, <1>13, MetBranch
<1>15. Met(g) BY <1>2, <1>6, <1>12, <1>14, MetBInsn DEF Recorded
<1> HIDE DEF g
<1> QED BY <1>5, <1>10, <1>15, MetJoin DEF r

LEMMA JalMet ==
    ASSUME NEW s, Recorded(s), IsJal(s)
    PROVE  Met(JalCircuit(s.kind, JalRow(s)))
<1> DEFINE d == s.op["rd"].after  r == JalRow(s)  rd == r.cells.rd_written
           g == JInsn(r, s.kind, rd)
           h == RequireEqual(ValueOf(rd), r.pc + PC_STEP_SIZE)
<1>1. d \in Words /\ d = s.pc + PC_STEP_SIZE BY StepAssumption DEF IsJal, Completes, PC_STEP_SIZE
<1>2. Framed(r, s) BY FramedRow DEF JalRow, Recorded
<1>3. LimbsOf(rd, d) BY DEF JalRow, AssignRow, ValueNew, LimbsOf
<1>4. JalCircuit(s.kind, r) = UInt(rd) \o g \o h BY DEF JalCircuit
<1> HIDE DEF r, rd, d
<1>5. Met(g) BY <1>2, MetJInsn DEF Recorded
<1>6. Met(UInt(rd)) BY <1>1, <1>3, MetUInt
<1>7. Met(h)
  <2>1. ValueOf(rd) = d /\ d \in Int BY <1>1, <1>3, ValueOfLimbs, WordIsField
  <2>2. r.pc = s.pc BY <1>2 DEF Framed, RowFor
  <2> QED BY <1>1, <2>1, <2>2, MetSame
<1> HIDE DEF g, h
<1> QED BY <1>4, <1>5, <1>6, <1>7, MetThree DEF r

LEMMA JalrMet ==
    ASSUME NEW s, Recorded(s), IsJalr(s)
    PROVE  Met(JalrCircuit(s.kind, JalrRow(s)))
<1> DEFINE a == s.op["rs1"].after  d == s.op["rd"].after  addr == a + s.insn.imm
           r == JalrRow(s)  c == r.cells
           g == IInsn(r, s.kind, c.imm.value, c.rs1_read, c.rd_written, r.next)
           h1 == MemAddr(c.next_pc_addr, 0)
           h2 == RequireEqual(ValueOf(c.rs1_read) + c.imm.value, ValueOf(c.next_pc_addr))
           h3 == RequireEqual(Align2(c.next_pc_addr, 0), r.next)
           h4 == RequireEqual(ValueOf(c.rd_written), r.pc + PC_STEP_SIZE)
<1>1. /\ a \in Words /\ addr \in Words /\ s.insn.imm \in Imms /\ s.next = addr - (addr % 2)
      /\ d = s.pc + PC_STEP_SIZE /\ s.pc \in Pcs /\ s.insn.kind = "JALR"
  <2>1. /\ a \in Words /\ addr \in Words /\ s.next = a + s.insn.imm - (addr % 2) /\ d = s.pc + PC_STEP_SIZE
    BY DEF IsJalr, ReadsWord
  <2>2. s.kind \in {"JALR"} /\ s.insn.kind = s.kind /\ s.pc \in Pcs /\ s.insn.imm \in Imms BY DEF IsJalr, Completes
  <2>3. a + s.insn.imm - (addr % 2) = addr - (addr % 2)
    <3>1. a \in Int /\ s.insn.imm \in Int /\ addr % 2 \in Int BY <2>1, <2>2, ImmRange, WordIsField
    <3> DEFINE x == s.insn.imm  y == addr % 2
    <3>2. x \in Int /\ y \in Int /\ addr = a + x BY <3>1
    <3> HIDE DEF a, x, y, addr
    <3>3. a + x - y = addr - y BY <3>1, <3>2
    <3> QED BY <3>3 DEF x, y
  <2> HIDE DEF a, addr, d
  <2> QED BY <2>1, <2>2, <2>3
<1>2. Framed(r, s) BY FramedRow DEF JalrRow, Recorded
<1>3. ImmInternal(s.insn) = s.insn.imm BY <1>1 DEF ImmInternal
<1>4. /\ LimbsOf(c.rs1_read, a) /\ LimbsOf(c.rd_written, d) /\ c.imm.value = Field(s.insn.imm)
      /\ c.next_pc_addr = AssignMemAddr(addr)
  BY <1>3 DEF JalrRow, AssignRow, ValueUnchecked, ValueNew, LimbsOf, Cell
<1>5. JalrCircuit(s.kind, r) = ((((UInt(c.rd_written) \o g) \o h1) \o h2) \o h3) \o h4 BY DEF JalrCircuit
<1> HIDE DEF r, c
<1>6. r.next = s.next /\ r.pc = s.pc BY <1>2 DEF Framed, RowFor
<1>7. s.insn.imm \in Int /\ a \in Int /\ addr \in Int /\ d \in Words
  <2>1. d \in Words BY <1>1, StepAssumption DEF PC_STEP_SIZE
  <2> QED BY <1>1, <2>1, ImmRange, WordIsField
<1>8. Met(g)
  <2>1. Field(c.imm.value) = Field(ImmInternal(s.insn)) BY <1>3, <1>4, <1>7, FieldTwice
  <2> QED BY <1>2, <2>1, MetIInsn DEF Recorded
<1> HIDE DEF addr
<1>9. Met(h1) /\ LimbsOf(c.next_pc_addr, addr) /\ LowBit(c.next_pc_addr, 0, 0) = addr % 2
  BY <1>1, <1>4, MetMemAddr
<1>10. ValueOf(c.next_pc_addr) = addr /\ ValueOf(c.rs1_read) = a /\ ValueOf(c.rd_written) = d
  BY <1>1, <1>4, <1>7, <1>9, ValueOfLimbs
<1> HIDE DEF d, a
<1>11. Met(h2)
  <2>1. a + Field(s.insn.imm) \in Int /\ Field(a + Field(s.insn.imm)) = Field(a + s.insn.imm)
    BY <1>7, FieldIsInt, FieldOfSum
  <2>2. addr = a + s.insn.imm BY DEF addr, a
  <2> QED BY <1>4, <1>7, <1>10, <2>1, <2>2, MetCongruent
<1>12. Met(h3)
  <2>1. Align2(c.next_pc_addr, 0) = r.next BY <1>1, <1>6, <1>9, <1>10 DEF Align2
  <2>2. addr - (addr % 2) \in Int BY <1>7
  <2> QED BY <1>1, <1>6, <2>1, <2>2, MetSame
<1>13. Met(h4)
  <2>1. d \in Int BY <1>7, WordIsField
  <2> QED BY <1>1, <1>6, <1>10, <2>1, MetSame
<1>14. Met(UInt(c.rd_written)) BY <1>4, <1>7, MetUInt DEF d
<1> HIDE DEF g, h1, h2, h3, h4
<1>15. Met((UInt(c.rd_written) \o g) \o h1) BY <1>8, <1>9, <1>14, MetThree
<1> DEFINE m == (UInt(c.rd_written) \o g) \o h1
<1>16. Met(m) BY <1>15
<1> HIDE DEF m
<1>17. Met(m \o h2 \o h3 \o h4) BY <1>11, <1>12, <1>13, <1>16, MetFour
<1> QED BY <1>5, <1>17 DEF r, m

LEMMA HaltMet ==
    ASSUME NEW s, Recorded(s), IsHalt(s)
    PROVE  Met(HaltCircuit(s.kind, HaltRow(s)))
<1> DEFINE r == HaltRow(s)  exit == r.cells.exit_code.limb
           f == EcallInsn(r, ValueUnchecked(HaltCode), EXIT_PC)
           g == Access(r, "rs2", "reg", RegArg0, exit, exit)
<1>1. Framed(r, s) BY FramedRow DEF HaltRow, Recorded
<1>2. s.kind = "ECALL" /\ s.insn.kind = s.kind /\ DOMAIN s.op = {"rs1", "rs2"} BY DEF IsHalt, Completes
<1>3. HaltCircuit(s.kind, r) = f \o g BY DEF HaltCircuit
<1> HIDE DEF r, exit
<1>4. Met(f) BY <1>1, <1>2, MetEcallInsn DEF Recorded
<1>5. Met(g) BY <1>1, <1>2, MetAccess
<1> HIDE DEF f, g
<1> QED BY <1>3, <1>4, <1>5, MetJoin DEF r

\* A part that is there for some instructions only.
LEMMA MetPart ==
    ASSUME NEW f, Met(f), NEW b, NEW g, b => Met(g) PROVE Met(f \o (IF b THEN g ELSE Nothing))
<1>1. CASE b
  <2>1. Met(f \o g) BY <1>1, MetJoin
  <2> QED BY <1>1, <2>1
<1>2. CASE ~b
  <2>1. Met(f \o Nothing) BY MetNothing, MetJoin
  <2> QED BY <1>2, <2>1
<1> QED BY <1>1, <1>2

\* Immediates as the program holds them are integers.
LEMMA ImmIsInt ==
    ASSUME NEW s, IsOrdinary(s) \/ IsUnknownEcall(s), Encodes(s)
    PROVE  ImmInternal(s.insn) \in Int
<1> DEFINE imm == s.insn.imm
<1>1. s.insn.kind = s.kind
  BY DEF IsOrdinary, IsR, IsI, IsBranch, IsJal, IsJalr, IsLoad, IsStore, IsUnknownEcall, Completes
<1>2. imm \in Int
  <2>1. CASE imm \in Imms BY <2>1, ImmRange
  <2>2. CASE s.kind \in RKinds \union {"ECALL"}
    <3>1. imm = 0 BY <2>2 DEF Encodes
    <3> QED BY <3>1
  <2>3. imm \in Imms \/ s.kind \in RKinds \union {"ECALL"}
    BY DEF IsOrdinary, IsR, IsI, IsBranch, IsJal, IsJalr, IsLoad, IsStore, IsUnknownEcall, Completes
  <2> QED BY <2>1, <2>2, <2>3
<1>3. CASE s.kind \in ShiftImmKinds
  <2>1. imm \in 0 .. WordBits - 1
    <3>1. s.kind \notin RKinds \union BranchKinds \union LoadKinds \union StoreKinds \union {"JAL", "JALR", "ECALL"}
      BY <1>3 DEF RKinds
    <3>2. IsI(s)
      BY <3>1 DEF IsOrdinary, IsR, IsBranch, IsJal, IsJalr, IsLoad, IsStore, IsUnknownEcall, Completes
    <3> QED BY <1>3, <3>2 DEF IsI
  <2>2. \A n \in 0 .. WordBits - 1 : 2 ^ n \in Nat BY BitAssumption
  <2>3. ImmInternal(s.insn) = 2 ^ imm BY <1>1, <1>3 DEF ImmInternal
  <2> QED BY <2>1, <2>2, <2>3
<1>4. CASE s.kind \notin ShiftImmKinds
  <2>1. ImmInternal(s.insn) = imm \/ ImmInternal(s.insn) = Wrapped(imm) BY <1>1, <1>4 DEF ImmInternal
  <2>2. Wrapped(imm) \in Int
    <3>1. WordRange \in Nat /\ WordRange > 0 BY Sizes
    <3> HIDE DEF imm
    <3> QED BY <1>2, <3>1 DEF Wrapped
  <2> QED BY <1>2, <2>1, <2>2
<1> QED BY <1>3, <1>4

LEMMA DummyMet ==
    ASSUME NEW s, Recorded(s), IsOrdinary(s) \/ IsUnknownEcall(s)
    PROVE  Met(DummyCircuit(s.kind, DummyRow(s)))
<1> DEFINE r == DummyRow(s)  c == r.cells  kind == s.kind
           next == IF Branching(kind) THEN r.next ELSE r.pc + PC_STEP_SIZE
           f0 == StateTo(r, next)
           g1 == RegisterRead(r, "rs1", c.rs1_read)
           g2 == RegisterRead(r, "rs2", c.rs2_read)
           g3 == WriteRD(r, c.rd_written)
           g4 == MemoryWrite(r, c.mem_addr.value, c.mem_before.value, c.mem_before.value)
           g5 == MemoryWrite(r, c.mem_addr.value, c.mem_before.value, c.mem_after.value)
           rd == Encoded(r, kind, WithRd(kind), "rd", RD_NULL)
           rs1 == Encoded(r, kind, WithRs1(kind), "rs1", 0)
           rs2 == Encoded(r, kind, WithRs2(kind), "rs2", 0)
           g6 == LkFetch(r, kind, rd, rs1, rs2, c.imm.value)
           f1 == f0 \o (IF WithRs1(kind) THEN g1 ELSE Nothing)
           f2 == f1 \o (IF WithRs2(kind) THEN g2 ELSE Nothing)
           f3 == f2 \o (IF WithRd(kind) THEN g3 ELSE Nothing)
           f4 == f3 \o (IF WithMemRead(kind) THEN g4 ELSE Nothing)
           f5 == f4 \o (IF WithMemWrite(kind) THEN g5 ELSE Nothing)
<1>1. Framed(r, s) /\ c = DummyCells(s)
  <2>1. r = Elsewhere(s, DummyCells(s), "DUMMY") BY DEF DummyRow, Elsewhere
  <2> HIDE DEF r
  <2> QED BY <2>1, FramedRow DEF Recorded
<1>2. c.imm.value = Field(ImmInternal(s.insn)) BY <1>1 DEF DummyCells, Cell
<1>3. DummyCircuit(s.kind, r) = f5 \o g6 BY DEF DummyCircuit
<1> HIDE DEF r, c
<1>4. /\ WithRs1(kind) <=> "rs1" \in DOMAIN s.op
      /\ WithRs2(kind) <=> "rs2" \in DOMAIN s.op
      /\ WithRd(kind) <=> "rd" \in DOMAIN s.op
      /\ (WithMemRead(kind) \/ WithMemWrite(kind)) <=> "mem" \in DOMAIN s.op
  BY StepsFit DEF FitsDummy
<1>5. s.insn.kind = s.kind
  BY DEF IsOrdinary, IsR, IsI, IsBranch, IsJal, IsJalr, IsLoad, IsStore, IsUnknownEcall, Completes
<1>6. Met(f0) BY MetState
<1>7. /\ WithRs1(kind) => Met(g1)
      /\ WithRs2(kind) => Met(g2)
      /\ WithRd(kind) => Met(g3)
      /\ WithMemRead(kind) => Met(g4)
      /\ WithMemWrite(kind) => Met(g5)
  <2>1. \A u : ("rs1" \in DOMAIN s.op => Met(RegisterRead(r, "rs1", u)))
               /\ ("rs2" \in DOMAIN s.op => Met(RegisterRead(r, "rs2", u)))
               /\ ("rd" \in DOMAIN s.op => Met(WriteRD(r, u)))
    BY <1>1, MetRegisterRead, MetWriteRD
  <2>2. \A addr, before, after : "mem" \in DOMAIN s.op => Met(MemoryWrite(r, addr, before, after))
    BY <1>1, MetMemory
  <2> QED BY <1>4, <2>1, <2>2
<1>8. Met(g6)
  <2>1. Field(c.imm.value) = Field(ImmInternal(s.insn)) BY <1>2, ImmIsInt, FieldTwice DEF Recorded
  <2>2. r.pc = s.pc /\ \A o \in DOMAIN s.op : Id(r, o) = s.op[o].id BY <1>1 DEF Framed, RowFor, Id
  <2>3. rs1 = s.insn.rs1
    <3>1. s.insn.rs1 = IF kind # "ECALL" /\ "rs1" \in DOMAIN s.op THEN s.op["rs1"].id ELSE 0
      BY DEF Recorded, Encodes
    <3> QED BY <1>4, <2>2, <3>1 DEF Encoded
  <2>4. rs2 = s.insn.rs2
    <3>1. s.insn.rs2 = IF kind # "ECALL" /\ "rs2" \in DOMAIN s.op THEN s.op["rs2"].id ELSE 0
      BY DEF Recorded, Encodes
    <3> QED BY <1>4, <2>2, <3>1 DEF Encoded
  <2>5. rd = IF kind \in BranchKinds \union StoreKinds \union {"ECALL"} THEN RD_NULL ELSE RdInternal(s.insn.rd)
    <3>1. kind # "ECALL" /\ "rd" \in DOMAIN s.op => s.op["rd"].id = RdInternal(s.insn.rd)
      BY DEF Recorded, Encodes
    <3>2. WithRd(kind) <=> kind \notin StoreKinds \union BranchKinds BY DEF WithRd
    <3> QED BY <1>4, <2>2, <3>1, <3>2 DEF Encoded
  <2> HIDE DEF rd, rs1, rs2
  <2>6. Fetched(s, rd, rs1, rs2, c.imm.value) BY <2>1, <2>3, <2>4, <2>5 DEF Fetched
  <2> QED BY <1>5, <2>2, <2>6, MetFetch DEF Recorded
<1> HIDE DEF f0, g1, g2, g3, g4, g5, g6
<1>9. Met(f1) BY <1>6, <1>7, MetPart
<1> HIDE DEF f1
<1>10. Met(f2) BY <1>7, <1>9, MetPart
<1> HIDE DEF f2
<1>11. Met(f3) BY <1>7, <1>10, MetPart
<1> HIDE DEF f3
<1>12. Met(f4) BY <1>7, <1>11, MetPart
<1> HIDE DEF f4
<1>13. Met(f5) BY <1>7, <1>12, MetPart
<1> HIDE DEF f5
<1> QED BY <1>3, <1>8, <1>13, MetJoin DEF r

LEMMA LargeEcallMet ==
    ASSUME NEW s, Recorded(s), IsSyscall(s)
    PROVE  Met(LargeEcallCircuit(LargeEcallRow(s)))
<1> DEFINE r == LargeEcallRow(s)  c == r.cells
           word(o) == [addr |-> 4 * s.op[o].id, before |-> s.op[o].before, after |-> s.op[o].after, lk |-> <<>>]
           cells == [rs1_read |-> ValueUnchecked(s.op.rs1.after), imm |-> Cell(ImmInternal(s.insn)),
                     start_addr |-> Cell(4 * s.op.mem1.id),
                     reg1 |-> ValueUnchecked(s.op.reg1.after), reg2 |-> ValueUnchecked(s.op.reg2.after),
                     mem1 |-> word("mem1"), mem2 |-> word("mem2")]
           RegWrite(o) == Access(r, o, "reg", Id(r, o), r.access[o].prev_value.limb, c[o].limb)
           MemWrite(o) == Access(r, o, "mem", c[o].addr, c[o].before, c[o].after)
           fetch == LkFetch(r, "ECALL", RD_NULL, 0, 0, c.imm.value)
           f1 == (StateInOut(r) \o RegisterRead(r, "rs1", c.rs1_read)) \o fetch
           f2 == f1 \o RegWrite("reg1") \o RegWrite("reg2")
<1>1. Framed(r, s) /\ c = cells
  <2>1. r = Elsewhere(s, cells, "LARGE") BY DEF LargeEcallRow, Elsewhere
  <2> HIDE DEF cells, r
  <2> QED BY <2>1, FramedRow DEF Recorded
<1>2. c.imm.value = Field(ImmInternal(s.insn)) BY <1>1 DEF Cell
<1>3. s.kind = "ECALL" /\ s.insn.kind = s.kind /\ DOMAIN s.op = {"rs1", "reg1", "reg2", "mem1", "mem2"}
  BY DEF IsSyscall, Completes
<1>4. LargeEcallCircuit(r) = f2 \o MemWrite("mem1") \o MemWrite("mem2") BY DEF LargeEcallCircuit
<1> HIDE DEF r, c, cells
<1>5. Met(fetch)
  <2>1. s.insn.imm = 0 BY <1>3 DEF Recorded, Encodes
  <2>2. ImmInternal(s.insn) = 0 BY <1>3, <2>1 DEF ImmInternal
  <2>3. Field(c.imm.value) = Field(0) BY <1>2, <2>2, FieldTwice
  <2> QED BY <1>1, <1>3, <2>3, MetEcallFetch DEF Recorded
<1>6. Met(StateInOut(r)) /\ Met(RegisterRead(r, "rs1", c.rs1_read))
  BY <1>1, <1>3, MetState, MetRegisterRead DEF StateInOut
<1>7. Met(RegWrite("reg1")) /\ Met(RegWrite("reg2")) /\ Met(MemWrite("mem1")) /\ Met(MemWrite("mem2"))
  BY <1>1, <1>3, MetAccess
<1> HIDE DEF fetch, RegWrite, MemWrite
<1>8. Met(f1) BY <1>5, <1>6, MetThree
<1> HIDE DEF f1
<1>9. Met(f2) BY <1>7, <1>8, MetThree
<1> HIDE DEF f2
<1> QED BY <1>4, <1>7, <1>9, MetThree DEF r

-----------------------------------------------------------------------------
(***************************************************************************)
(* Loads and stores.                                                       *)
(***************************************************************************)
LEMMA MetAddress ==
    ASSUME NEW kind \in MemKinds, NEW addr \in Words, AlignedFor(kind, addr), NEW m, m = AssignMemAddr(addr)
    PROVE  /\ Met(MemAddr(m, Zeros(kind))) /\ LimbsOf(m, addr) /\ ValueOf(m) = addr
           /\ LowBit(m, Zeros(kind), 0) = addr % 2 /\ LowBit(m, Zeros(kind), 1) = (addr \div 2) % 2
<1> DEFINE zeros == Zeros(kind)
<1>1. Aligned(kind, addr) BY AlignedMeans
<1>2. zeros \in 0 .. 2 /\ (zeros > 0 => addr % 2 = 0) /\ (zeros > 1 => (addr \div 2) % 2 = 0)
  <2>1. CASE kind \in {"LW", "SW"}
    <3>1. zeros = 2 BY <2>1 DEF Zeros
    <3> QED BY <1>1, <2>1, <3>1 DEF Aligned
  <2>2. CASE kind \in {"LH", "LHU", "SH"}
    <3>1. zeros = 1 BY <2>2 DEF Zeros
    <3> QED BY <1>1, <2>2, <3>1 DEF Aligned
  <2>3. CASE kind \in {"LB", "LBU", "SB"}
    <3>1. zeros = 0 BY <2>3 DEF Zeros
    <3> QED BY <3>1
  <2> QED BY <2>1, <2>2, <2>3 DEF MemKinds
<1> HIDE DEF zeros
<1>3. /\ Met(MemAddr(m, zeros)) /\ LimbsOf(m, addr)
      /\ LowBit(m, zeros, 0) = addr % 2 /\ LowBit(m, zeros, 1) = (addr \div 2) % 2
  BY <1>2, MetMemAddr
<1>4. ValueOf(m) = addr BY <1>3, ValueOfLimbs
<1> QED BY <1>3, <1>4 DEF zeros

\* The address is the sum of a register and the immediate.
LEMMA MetAddressSum ==
    ASSUME NEW a \in Int, NEW imm \in Int, NEW addr, addr = a + imm
    PROVE  Met(RequireEqual(addr, a + Field(imm)))
<1>1. Field(a + Field(imm)) = Field(a + imm) /\ Field(imm) \in Int BY FieldIsInt, FieldOfSum
<1>2. addr \in Int /\ a + Field(imm) \in Int BY <1>1
<1> QED BY <1>1, <1>2, MetCongruent

LEMMA MetByte == ASSUME NEW x \in ByteWords PROVE Met(AssertUx(ByteBits, x))
<1>1. Field(x) = x BY LimbIsWord
<1>2. x < 2 ^ ByteBits
  <2>1. x \in 0 .. ByteRange - 1 /\ ByteRange = 2 ^ ByteBits /\ ByteRange \in Nat BY Bits DEF ByteWords, ByteRange
  <2> QED BY <2>1
<1> QED BY <1>1, <1>2, MetUx

\* The limb and the byte an address selects.
LEMMA MetLoadTarget ==
    ASSUME NEW kind \in LoadKinds, NEW addr \in Words, NEW word \in Words, NEW c,
           LowBit(c.memory_addr, Zeros(kind), 0) = addr % 2,
           LowBit(c.memory_addr, Zeros(kind), 1) = (addr \div 2) % 2,
           LimbsOf(c.memory_read, word),
           kind # "LW" => c.target_limb.value = LimbAt(addr, word),
           kind = "LH" => c.signed_extend.msb = LimbAt(addr, word) \div 2 ^ (LimbBits - 1),
           kind \in {"LB", "LBU"} => c.target_limb_bytes.byte = TargetBytes(addr, LimbAt(addr, word)),
           kind = "LB" => c.signed_extend.msb = ByteAt(addr, word) \div 2 ^ (ByteBits - 1)
    PROVE  Met(LoadTarget(kind, c))
<1> DEFINE low(i) == LowBit(c.memory_addr, Zeros(kind), i)
           x == LimbAt(addr, word)
           byte == c.target_limb_bytes.byte
           limb == ConditionRequireEqual(low(1), c.target_limb.value, c.memory_read.limb[2], c.memory_read.limb[1])
           order == ConditionRequireEqual(low(0), c.target_limb.value,
                                          byte[1] * ByteRange + byte[2], byte[2] * ByteRange + byte[1])
           two == AssertUx(ByteBits, byte[1]) \o AssertUx(ByteBits, byte[2])
           bytes == two \o order
           half == SignedExtend(LimbBits, c.target_limb.value, c.signed_extend)
           sign == SignedExtend(ByteBits, byte[1], c.signed_extend)
<1>1. LoadTarget(kind, c) = CASE kind = "LW"  -> Nothing
                              [] kind = "LH"  -> limb \o half
                              [] kind = "LHU" -> limb
                              [] kind = "LB"  -> (limb \o bytes) \o sign
                              [] kind = "LBU" -> limb \o bytes
  BY DEF LoadTarget
<1>2. x \in LimbWords /\ ByteAt(addr, word) \in ByteWords
      /\ Digits(x, ByteBits, 2) = <<x % ByteRange, x \div ByteRange>>
  BY PartsOfWord
<1>3. addr % 2 \in {0, 1} /\ (addr \div 2) % 2 \in {0, 1} BY AddressParts
<1>4. /\ c.memory_read.limb[1] = word % LimbRange /\ c.memory_read.limb[2] = word \div LimbRange
      /\ word % LimbRange \in LimbWords /\ word \div LimbRange \in LimbWords
  BY LimbsOfWord DEF LimbsOf
<1>5. LimbRange \in Nat /\ ByteRange \in Nat /\ LimbRange = 2 ^ LimbBits /\ ByteRange = 2 ^ ByteBits
  BY Bits, Sizes DEF LimbRange, ByteRange
<1>6. ASSUME kind # "LW" PROVE Met(limb)
  <2>1. c.target_limb.value = x BY <1>6
  <2>2. x \in Int /\ word % LimbRange \in Int /\ word \div LimbRange \in Int BY <1>2, <1>4, <1>5 DEF LimbWords
  <2>3. CASE (addr \div 2) % 2 = 0
    <3>1. low(1) = 0 /\ x = c.memory_read.limb[1] BY <1>4, <2>3 DEF LimbAt
    <3> HIDE DEF x, low
    <3> QED BY <1>4, <2>1, <2>2, <3>1, MetCondition
  <2>4. CASE (addr \div 2) % 2 = 1
    <3>1. low(1) = 1 /\ x = c.memory_read.limb[2] BY <1>4, <2>4 DEF LimbAt
    <3> HIDE DEF x, low
    <3> QED BY <1>4, <2>1, <2>2, <3>1, MetCondition
  <2> QED BY <1>3, <2>3, <2>4
<1>7. ASSUME kind \in {"LB", "LBU"} PROVE Met(bytes) /\ byte[1] = ByteAt(addr, word)
  <2> DEFINE b1 == x % ByteRange  b2 == x \div ByteRange
  <2>1. b1 \in ByteWords /\ b2 \in ByteWords /\ x = b1 + b2 * ByteRange BY <1>2, BytesOfLimb
  <2>2. byte = TargetBytes(addr, x) /\ c.target_limb.value = x BY <1>7
  <2>3. Digits(x, ByteBits, 2)[1] = b1 /\ Digits(x, ByteBits, 2)[2] = b2 BY <1>2
  <2>4. /\ addr % 2 = 0 => byte[1] = b1 /\ byte[2] = b2 /\ ByteAt(addr, word) = b1
        /\ addr % 2 = 1 => byte[1] = b2 /\ byte[2] = b1 /\ ByteAt(addr, word) = b2
    <3>1. ASSUME addr % 2 = 0 PROVE byte[1] = b1 /\ byte[2] = b2 /\ ByteAt(addr, word) = b1
      <4>1. byte = Digits(x, ByteBits, 2) BY <2>2, <3>1 DEF TargetBytes
      <4> QED BY <2>3, <3>1, <4>1 DEF ByteAt
    <3>2. ASSUME addr % 2 = 1 PROVE byte[1] = b2 /\ byte[2] = b1 /\ ByteAt(addr, word) = b2
      <4>1. byte = <<Digits(x, ByteBits, 2)[2], Digits(x, ByteBits, 2)[1]>> BY <2>2, <3>2 DEF TargetBytes
      <4> QED BY <2>3, <3>2, <4>1 DEF ByteAt
    <3> QED BY <3>1, <3>2
  <2> HIDE DEF b1, b2, x, byte
  <2>5. byte[1] \in ByteWords /\ byte[2] \in ByteWords BY <1>3, <2>1, <2>4
  <2>6. Met(two) BY <2>5, MetByte, MetJoin
  <2>7. b1 \in Int /\ b2 \in Int /\ b2 * ByteRange \in Int /\ b1 * ByteRange \in Int
    <3>1. b1 \in Int /\ b2 \in Int BY <1>5, <2>1 DEF ByteWords
    <3> QED BY <1>5, <3>1
  <2>8. x \in Int /\ x = b2 * ByteRange + b1
    <3> DEFINE y == b2 * ByteRange
    <3>1. y \in Int /\ x = b1 + y BY <2>1, <2>7
    <3> HIDE DEF y
    <3>2. x = y + b1 /\ x \in Int BY <2>7, <3>1
    <3> QED BY <3>2 DEF y
  <2>9. Met(order)
    <3>1. CASE addr % 2 = 0
      <4>1. low(0) = 0 /\ byte[1] * ByteRange + byte[2] \in Int /\ byte[2] * ByteRange + byte[1] = x
        BY <2>4, <2>7, <2>8, <3>1
      <4> HIDE DEF low
      <4> QED BY <2>2, <2>8, <4>1, MetCondition
    <3>2. CASE addr % 2 = 1
      <4>1. low(0) = 1 /\ byte[2] * ByteRange + byte[1] \in Int /\ byte[1] * ByteRange + byte[2] = x
        BY <2>4, <2>7, <2>8, <3>2
      <4> HIDE DEF low
      <4> QED BY <2>2, <2>8, <4>1, MetCondition
    <3> QED BY <1>3, <3>1, <3>2
  <2> HIDE DEF two, order
  <2>10. Met(bytes) BY <2>6, <2>9, MetJoin
  <2> QED BY <1>3, <2>4, <2>10
<1>8. ASSUME kind = "LH" PROVE Met(half)
  <2>1. x \in 0 .. 2 ^ LimbBits - 1 BY <1>2, <1>5 DEF LimbWords
  <2>2. c.signed_extend.msb = x \div 2 ^ (LimbBits - 1) /\ c.target_limb.value = x BY <1>8
  <2> HIDE DEF x
  <2> QED BY <2>1, <2>2, MetExtend
<1>9. ASSUME kind = "LB" PROVE Met(sign)
  <2> DEFINE y == ByteAt(addr, word)
  <2>1. y \in 0 .. 2 ^ ByteBits - 1 BY <1>2, <1>5 DEF ByteWords
  <2>2. c.signed_extend.msb = y \div 2 ^ (ByteBits - 1) /\ byte[1] = y BY <1>7, <1>9
  <2> HIDE DEF y, byte
  <2> QED BY <2>1, <2>2, MetExtend
<1> HIDE DEF limb, order, two, bytes, half, sign, x, byte, low
<1>10. CASE kind = "LW" BY <1>1, <1>10, MetNothing
<1>11. CASE kind = "LH"
  <2>1. LoadTarget(kind, c) = limb \o half BY <1>1, <1>11
  <2>2. Met(limb) /\ Met(half) BY <1>6, <1>8, <1>11
  <2> QED BY <2>1, <2>2, MetJoin
<1>12. CASE kind = "LHU"
  <2>1. LoadTarget(kind, c) = limb BY <1>1, <1>12
  <2> QED BY <1>6, <1>12, <2>1
<1>13. CASE kind = "LB"
  <2>1. LoadTarget(kind, c) = (limb \o bytes) \o sign BY <1>1, <1>13
  <2>2. Met(limb) /\ Met(bytes) /\ Met(sign) BY <1>6, <1>7, <1>9, <1>13
  <2> QED BY <2>1, <2>2, MetThree
<1>14. CASE kind = "LBU"
  <2>1. LoadTarget(kind, c) = limb \o bytes BY <1>1, <1>14
  <2>2. Met(limb) /\ Met(bytes) BY <1>6, <1>7, <1>14
  <2> QED BY <2>1, <2>2, MetJoin
<1> QED BY <1>10, <1>11, <1>12, <1>13, <1>14

LEMMA FramedAssign == ASSUME NEW s, Recorded(s), NEW cells PROVE Framed(AssignRow(s, cells), s)
  BY FramedRow DEF Recorded

LEMMA LoadMet ==
    ASSUME NEW s, Recorded(s), IsLoad(s)
    PROVE  Met(LoadCircuit(s.kind, LoadRow(s)))
<1> DEFINE a == s.op["rs1"].after  addr == a + s.insn.imm  word == s.op["mem"].before
           r == LoadRow(s)  c == r.cells
           limb == LimbAt(addr, word)  byte == ByteAt(addr, word)
           at == Align4(c.memory_addr, Zeros(s.kind))
           rd == LoadResult(s.kind, c)
           f1 == UInt(c.memory_read) \o MemAddr(c.memory_addr, Zeros(s.kind))
           e == RequireEqual(ValueOf(c.memory_addr), ValueOf(c.rs1_read) + c.imm.value)
           f2 == f1 \o e
           f == f2 \o LoadTarget(s.kind, c)
           g == IMInsn(r, s.kind, c.imm.value, c.rs1_read, ValueOf(c.memory_read), at, rd)
<1>1. /\ s.kind \in LoadKinds /\ s.insn.kind = s.kind /\ addr \in Words /\ word \in Words /\ a \in Words
      /\ AlignedFor(s.kind, addr) /\ s.insn.imm \in Imms
  BY DEF IsLoad, Completes, ReadsWord
<1>2. s.kind \in MemKinds BY <1>1 DEF MemKinds
<1>3. Framed(r, s) BY FramedAssign DEF LoadRow
<1>4. ImmInternal(s.insn) = s.insn.imm BY <1>1 DEF ImmInternal
<1>5. /\ LimbsOf(c.rs1_read, a) /\ LimbsOf(c.memory_read, word)
      /\ c.memory_addr = AssignMemAddr(addr) /\ c.imm.value = Field(s.insn.imm)
  <2>1. c.rs1_read = ValueUnchecked(a) /\ c.memory_read = ValueNew(word) BY <1>1 DEF LoadRow, AssignRow
  <2>2. c.memory_addr = AssignMemAddr(s.op.rs1.after + ImmInternal(s.insn)) BY <1>1 DEF LoadRow, AssignRow
  <2>3. c.imm = Cell(ImmInternal(s.insn)) BY <1>1 DEF LoadRow, AssignRow
  <2> HIDE DEF c
  <2> QED BY <1>4, <2>1, <2>2, <2>3 DEF ValueUnchecked, ValueNew, LimbsOf, Cell
<1>6. limb \in LimbWords /\ byte \in ByteWords /\ Field(limb) = limb
      /\ Digits(word, LimbBits, 2)[1 + ((addr \div 2) % 2)] = limb
  BY <1>1, PartsOfWord, LimbIsWord
<1>7. TargetBytes(addr, limb)[1] = byte
  <2>1. Digits(limb, ByteBits, 2) = <<limb % ByteRange, limb \div ByteRange>> BY <1>1, PartsOfWord
  <2>2. addr % 2 \in {0, 1} BY <1>1, AddressParts
  <2>3. CASE addr % 2 = 0 BY <2>1, <2>3 DEF TargetBytes, ByteAt
  <2>4. CASE addr % 2 = 1 BY <2>1, <2>4 DEF TargetBytes, ByteAt
  <2> QED BY <2>2, <2>3, <2>4
<1>8. /\ s.kind # "LW" => c.target_limb.value = limb
      /\ s.kind = "LH" => c.signed_extend.msb = limb \div 2 ^ (LimbBits - 1)
      /\ s.kind \in {"LB", "LBU"} => c.target_limb_bytes.byte = TargetBytes(addr, limb)
      /\ s.kind = "LB" => c.signed_extend.msb = byte \div 2 ^ (ByteBits - 1)
  <2> DEFINE limbAt == Digits(s.op.mem.before, LimbBits, 2)[1 + ((addr \div 2) % 2)]
             bytes == TargetBytes(addr, limbAt)
  <2>1. limbAt = limb /\ bytes[1] = byte /\ bytes = TargetBytes(addr, limb) BY <1>6, <1>7
  <2> HIDE DEF limbAt, bytes
  <2>2. CASE s.kind = "LW" BY <2>2
  <2>3. CASE s.kind = "LH"
    <3>1. c.target_limb = Cell(limbAt) /\ c.signed_extend = AssignSignedExtend(LimbBits, limbAt)
      BY <1>4, <2>3 DEF LoadRow, AssignRow, limbAt
    <3> QED BY <1>6, <2>1, <2>3, <3>1 DEF Cell, AssignSignedExtend
  <2>4. CASE s.kind = "LHU"
    <3>1. c.target_limb = Cell(limbAt) BY <1>4, <2>4 DEF LoadRow, AssignRow, limbAt
    <3> QED BY <1>6, <2>1, <2>4, <3>1 DEF Cell
  <2>5. CASE s.kind = "LB"
    <3>1. /\ c.target_limb = Cell(limbAt) /\ c.target_limb_bytes.byte = bytes
          /\ c.signed_extend = AssignSignedExtend(ByteBits, bytes[1])
      BY <1>4, <2>5 DEF LoadRow, AssignRow, limbAt, bytes
    <3> QED BY <1>6, <2>1, <2>5, <3>1 DEF Cell, AssignSignedExtend
  <2>6. CASE s.kind = "LBU"
    <3>1. c.target_limb = Cell(limbAt) /\ c.target_limb_bytes.byte = bytes
      BY <1>4, <2>6 DEF LoadRow, AssignRow, limbAt, bytes
    <3> QED BY <1>6, <2>1, <2>6, <3>1 DEF Cell
  <2> QED BY <1>1, <2>2, <2>3, <2>4, <2>5, <2>6
<1>9. LoadCircuit(s.kind, r) = f \o g BY DEF LoadCircuit
<1>10. s.insn.imm \in Int /\ a \in Int BY <1>1, ImmRange, WordIsField
<1>11. addr = a + s.insn.imm OBVIOUS
<1> HIDE DEF r, c, addr, word, limb, byte, at, rd, a
<1>12. /\ Met(MemAddr(c.memory_addr, Zeros(s.kind))) /\ ValueOf(c.memory_addr) = addr
       /\ LowBit(c.memory_addr, Zeros(s.kind), 0) = addr % 2
       /\ LowBit(c.memory_addr, Zeros(s.kind), 1) = (addr \div 2) % 2
  BY <1>1, <1>2, <1>5, MetAddress
<1>13. Met(LoadTarget(s.kind, c)) BY <1>1, <1>5, <1>8, <1>12, MetLoadTarget DEF limb, byte
<1>14. Met(e)
  <2>1. ValueOf(c.rs1_read) = a BY <1>1, <1>5, ValueOfLimbs
  <2> QED BY <1>5, <1>10, <1>11, <1>12, <2>1, MetAddressSum
<1>15. Met(UInt(c.memory_read)) BY <1>1, <1>5, MetUInt
<1>16. Met(g)
  <2>1. Field(c.imm.value) = Field(ImmInternal(s.insn)) BY <1>4, <1>5, <1>10, FieldTwice
  <2> QED BY <1>3, <2>1, MetIMInsn DEF Recorded
<1> HIDE DEF e, g
<1>17. Met(f2) BY <1>12, <1>14, <1>15, MetThree
<1> HIDE DEF f2
<1> QED BY <1>9, <1>13, <1>16, <1>17, MetThree DEF r

\* The limb and the byte a store replaces, and what it adds to them.
LEMMA MetWordChange ==
    ASSUME NEW kind \in {"SH", "SB"}, NEW addr \in Words, AlignedFor(kind, addr), NEW word \in Words,
           NEW v \in Words, NEW c,
           LowBit(c.memory_addr, Zeros(kind), 0) = addr % 2,
           LowBit(c.memory_addr, Zeros(kind), 1) = (addr \div 2) % 2,
           LimbsOf(c.prev_memory_value, word), LimbsOf(c.rs2_read, v),
           c.word_change = AssignMemWordChange(kind, addr, word, v)
    PROVE  Met(MemWordChange(kind, c))
<1> DEFINE low(i) == LowBit(c.memory_addr, Zeros(kind), i)
           prev == c.prev_memory_value.limb
           rs2 == c.rs2_read.limb
           byte == c.word_change.rs2_byte
           bytes == c.word_change.prev_bytes
           limbChange == c.word_change.limb_change
           change == c.word_change.change
           f0 == ConditionRequireEqual(low(1), change, (rs2[1] - prev[2]) * LimbRange, rs2[1] - prev[1])
           f1 == AssertUx(ByteBits, bytes[1]) \o AssertUx(ByteBits, bytes[2])
           e == RequireEqual(low(1) * prev[2] + (1 - low(1)) * prev[1], bytes[1] + bytes[2] * ByteRange)
           f2 == f1 \o e
           f3 == f2 \o AssertUx(ByteBits, byte)
           u == AssertUx(ByteBits, InverseOf[ByteRange] * (rs2[1] - byte))
           f4 == f3 \o u
           c1 == ConditionRequireEqual(low(0), limbChange, (byte - bytes[2]) * ByteRange, byte - bytes[1])
           c2 == ConditionRequireEqual(low(1), change, limbChange * LimbRange, limbChange)
           f5 == f4 \o c1
           half == (addr \div 2) % 2
           limb == LimbAt(addr, word)
           y == v % LimbRange
           x == y % ByteRange
           b1 == limb % ByteRange
           b2 == limb \div ByteRange
           lc == IF addr % 2 = 0 THEN x - b1 ELSE (x - b2) * ByteRange
           ch == (IF kind = "SH" THEN y - limb ELSE lc) * (IF half = 1 THEN LimbRange ELSE 1)
<1>1. MemWordChange(kind, c) = IF kind = "SH" THEN f0 ELSE f5 \o c2 BY DEF MemWordChange
<1>2. /\ Digits(word, LimbBits, 2)[1 + half] = limb /\ Digits(limb, ByteBits, 2) = <<b1, b2>>
      /\ limb \in LimbWords
  BY PartsOfWord
<1>3. /\ bytes[1] = b1 /\ bytes[2] = b2 /\ byte = x /\ limbChange = Field(lc) /\ change = Field(ch)
  <2> DEFINE prevLimb == Digits(word, LimbBits, 2)[1 + half]
             ds == Digits(prevLimb, ByteBits, 2)
             olc == IF addr % 2 = 0 THEN x - ds[1] ELSE (x - ds[2]) * ByteRange
             och == (IF kind = "SH" THEN y - prevLimb ELSE olc) * (IF half = 1 THEN LimbRange ELSE 1)
  <2>1. bytes = ds /\ byte = x /\ limbChange = Field(olc) /\ change = Field(och) BY DEF AssignMemWordChange
  <2>2. prevLimb = limb BY <1>2
  <2> HIDE DEF prevLimb
  <2>3. ds[1] = b1 /\ ds[2] = b2 BY <1>2, <2>2
  <2> HIDE DEF ds
  <2> QED BY <2>1, <2>2, <2>3
<1>4. /\ rs2[1] = y /\ y \in LimbWords /\ prev[1] = word % LimbRange /\ prev[2] = word \div LimbRange
      /\ word % LimbRange \in LimbWords /\ word \div LimbRange \in LimbWords
  BY LimbsOfWord DEF LimbsOf
<1>5. /\ x \in ByteWords /\ y = x + (y \div ByteRange) * ByteRange /\ y \div ByteRange \in ByteWords
      /\ b1 \in ByteWords /\ b2 \in ByteWords /\ limb = b1 + b2 * ByteRange
  BY <1>2, <1>4, BytesOfLimb
<1>6. addr % 2 \in {0, 1} /\ half \in {0, 1} BY AddressParts
<1>7. low(0) = addr % 2 /\ low(1) = half OBVIOUS
<1>8. limb = IF half = 0 THEN prev[1] ELSE prev[2] BY <1>4 DEF LimbAt
<1>9. LimbRange \in Nat /\ ByteRange \in Nat /\ ByteRange >= 2 /\ ByteRange < P
  <2>1. P \in Nat /\ P > 8 * WordRange /\ WordRange >= 4 * LimbRange /\ LimbRange \in Nat /\ WordRange \in Nat
    BY Sizes
  <2>2. ByteRange \in Nat /\ ByteRange >= 2 /\ LimbRange = ByteRange * ByteRange BY Bits
  <2>3. ByteRange * ByteRange >= ByteRange BY <2>2
  <2> QED BY <2>1, <2>2, <2>3
<1>10. /\ y \in Int /\ limb \in Int /\ prev[1] \in Int /\ prev[2] \in Int
       /\ x \in Int /\ b1 \in Int /\ b2 \in Int
  BY <1>2, <1>4, <1>5, <1>9 DEF LimbWords, ByteWords
<1> HIDE DEF low, prev, rs2, byte, bytes, limbChange, change, half, limb, y, x, b1, b2
<1>11. lc \in Int
  <2>1. (x - b2) * ByteRange \in Int /\ x - b1 \in Int BY <1>9, <1>10
  <2> QED BY <2>1
<1> DEFINE old == IF kind = "SH" THEN y - limb ELSE lc
<1>12. old \in Int
  <2> HIDE DEF lc
  <2> QED BY <1>10, <1>11
<1>13. ch = old * (IF half = 1 THEN LimbRange ELSE 1) OBVIOUS
<1> HIDE DEF ch, old
<1>14. ch \in Int /\ (half = 1 => ch = old * LimbRange) /\ (half = 0 => ch = old)
  <2>1. old * LimbRange \in Int BY <1>9, <1>12
  <2>2. half = 1 => ch = old * LimbRange BY <1>13
  <2>3. half = 0 => ch = old BY <1>12, <1>13
  <2> QED BY <1>6, <1>12, <2>1, <2>2, <2>3
<1>15. change \in Int /\ Field(change) = Field(ch) BY <1>3, <1>14, FieldIsInt, FieldTwice
<1>16. ASSUME kind = "SH" PROVE Met(f0)
  <2>1. old = y - limb BY <1>16 DEF old
  <2>2. (rs2[1] - prev[2]) * LimbRange \in Int /\ rs2[1] - prev[1] \in Int BY <1>4, <1>9, <1>10
  <2>3. CASE half = 1
    <3>1. ch = (rs2[1] - prev[2]) * LimbRange BY <1>4, <1>8, <1>14, <2>1, <2>3
    <3> QED BY <1>7, <1>15, <2>2, <2>3, <3>1, MetCondition
  <2>4. CASE half = 0
    <3>1. ch = rs2[1] - prev[1] BY <1>4, <1>8, <1>14, <2>1, <2>4
    <3> QED BY <1>7, <1>15, <2>2, <2>4, <3>1, MetCondition
  <2> QED BY <1>6, <2>3, <2>4
<1>17. Met(f1) /\ Met(AssertUx(ByteBits, byte)) BY <1>3, <1>5, MetByte, MetJoin
<1>18. Met(e)
  <2>1. low(1) * prev[2] + (1 - low(1)) * prev[1] = limb
    <3>1. CASE half = 1
      <4>1. low(1) * prev[2] = prev[2] /\ (1 - low(1)) * prev[1] = 0 BY <1>7, <1>10, <3>1
      <4> QED BY <1>8, <1>10, <3>1, <4>1
    <3>2. CASE half = 0
      <4>1. low(1) * prev[2] = 0 /\ (1 - low(1)) * prev[1] = prev[1] BY <1>7, <1>10, <3>2
      <4> QED BY <1>8, <1>10, <3>2, <4>1
    <3> QED BY <1>6, <3>1, <3>2
  <2>2. bytes[1] + bytes[2] * ByteRange = limb BY <1>3, <1>5
  <2> QED BY <1>10, <2>1, <2>2, MetSame
<1>19. Met(u)
  <2> DEFINE k == y \div ByteRange  z == InverseOf[ByteRange] * (rs2[1] - byte)
  <2>1. k \in 0 .. P - 1 /\ k \in ByteWords
    <3>1. k \in 0 .. ByteRange - 1 /\ P \in Nat BY <1>5, Sizes DEF ByteWords
    <3> HIDE DEF k
    <3> QED BY <1>9, <3>1 DEF ByteWords
  <2>2. rs2[1] - byte = ByteRange * k
    <3>1. y = x + k * ByteRange /\ k \in Int BY <1>5, <2>1
    <3> HIDE DEF k
    <3>2. k * ByteRange = ByteRange * k /\ k * ByteRange \in Int BY <1>9, <3>1
    <3> QED BY <1>3, <1>4, <1>10, <3>1, <3>2
  <2>3. ByteRange \in 1 .. P - 1
    <3>1. P \in Nat BY Sizes
    <3> QED BY <1>9, <3>1
  <2> HIDE DEF k
  <2>4. z = InverseOf[ByteRange] * (ByteRange * k) BY <2>2
  <2>5. Field(z) = k BY <2>1, <2>3, <2>4, InverseCancels
  <2>6. k < 2 ^ ByteBits
    <3>1. k \in 0 .. ByteRange - 1 /\ ByteRange = 2 ^ ByteBits BY <2>1 DEF ByteWords, ByteRange
    <3> QED BY <1>9, <3>1
  <2> HIDE DEF z
  <2>7. Met(AssertUx(ByteBits, z)) BY <2>5, <2>6, MetUx
  <2> QED BY <2>7 DEF z
<1>20. limbChange \in Int /\ Field(limbChange) = Field(lc) BY <1>3, <1>11, FieldIsInt, FieldTwice
<1>21. Met(c1)
  <2>1. (byte - bytes[2]) * ByteRange \in Int /\ byte - bytes[1] \in Int BY <1>3, <1>9, <1>10
  <2>2. CASE addr % 2 = 0
    <3>1. lc = byte - bytes[1] BY <1>3, <2>2
    <3> HIDE DEF lc
    <3> QED BY <1>7, <1>20, <2>1, <2>2, <3>1, MetCondition
  <2>3. CASE addr % 2 = 1
    <3>1. lc = (byte - bytes[2]) * ByteRange BY <1>3, <2>3
    <3> HIDE DEF lc
    <3> QED BY <1>7, <1>20, <2>1, <2>3, <3>1, MetCondition
  <2> QED BY <1>6, <2>2, <2>3
<1> HIDE DEF lc
<1>22. ASSUME kind = "SB" PROVE Met(c2)
  <2>1. old = lc BY <1>22 DEF old
  <2>2. limbChange * LimbRange \in Int BY <1>9, <1>20
  <2>3. CASE half = 1
    <3>1. Field(limbChange * LimbRange) = Field(lc * LimbRange) BY <1>3, <1>9, <1>11, FieldTimes
    <3>2. ch = lc * LimbRange BY <1>14, <2>1, <2>3
    <3> QED BY <1>7, <1>15, <1>20, <2>2, <2>3, <3>1, <3>2, MetCondition
  <2>4. CASE half = 0
    <3>1. ch = lc BY <1>14, <2>1, <2>4
    <3> QED BY <1>7, <1>15, <1>20, <2>2, <2>4, <3>1, MetCondition
  <2> QED BY <1>6, <2>3, <2>4
<1> HIDE DEF f0, f1, e, u, c1, c2
<1>23. Met(f2) BY <1>17, <1>18, MetJoin
<1> HIDE DEF f2
<1>24. Met(f3) BY <1>17, <1>23, MetJoin
<1> HIDE DEF f3
<1>25. Met(f4) BY <1>19, <1>24, MetJoin
<1> HIDE DEF f4
<1>26. Met(f5) BY <1>21, <1>25, MetJoin
<1> HIDE DEF f5
<1>27. CASE kind = "SH" BY <1>1, <1>16, <1>27
<1>28. CASE kind = "SB"
  <2>1. Met(f5 \o c2) BY <1>22, <1>26, <1>28, MetJoin
  <2> QED BY <1>1, <1>28, <2>1
<1> QED BY <1>27, <1>28

LEMMA StoreMet ==
    ASSUME NEW s, Recorded(s), IsStore(s)
    PROVE  Met(StoreCircuit(s.kind, StoreRow(s)))
<1> DEFINE a == s.op["rs1"].after  v == s.op["rs2"].after  addr == a + s.insn.imm  word == s.op["mem"].before
           r == StoreRow(s)  c == r.cells
           at == Align4(c.memory_addr, Zeros(s.kind))
           before == ValueOf(c.prev_memory_value)
           after == IF s.kind = "SW" THEN ValueOf(c.rs2_read) ELSE before + c.word_change.change
           change == IF s.kind = "SW" THEN Nothing ELSE MemWordChange(s.kind, c)
           f1 == UInt(c.prev_memory_value) \o MemAddr(c.memory_addr, Zeros(s.kind))
           e == RequireEqual(ValueOf(c.memory_addr), ValueOf(c.rs1_read) + c.imm.value)
           f2 == f1 \o e
           f == f2 \o change
           g == SInsn(r, s.kind, c.imm.value, c.rs1_read, c.rs2_read, at, before, after)
<1>1. /\ s.kind \in StoreKinds /\ s.insn.kind = s.kind /\ addr \in Words /\ word \in Words /\ v \in Words
      /\ a \in Words /\ AlignedFor(s.kind, addr) /\ s.insn.imm \in Imms
  BY DEF IsStore, Completes, ReadsWord
<1>2. s.kind \in MemKinds BY <1>1 DEF MemKinds
<1>3. Framed(r, s) BY FramedAssign DEF StoreRow
<1>4. ImmInternal(s.insn) = s.insn.imm BY <1>1 DEF ImmInternal
<1>5. /\ LimbsOf(c.rs1_read, a) /\ LimbsOf(c.rs2_read, v) /\ LimbsOf(c.prev_memory_value, word)
      /\ c.memory_addr = AssignMemAddr(addr) /\ c.imm.value = Field(s.insn.imm)
      /\ s.kind # "SW" => c.word_change = AssignMemWordChange(s.kind, addr, word, v)
  <2> DEFINE address == s.op.rs1.after + ImmInternal(s.insn)
  <2>1. /\ c.rs1_read = ValueUnchecked(a) /\ c.rs2_read = ValueUnchecked(v) /\ c.prev_memory_value = ValueNew(word)
        /\ c.memory_addr = AssignMemAddr(address) /\ c.imm = Cell(ImmInternal(s.insn))
    BY DEF StoreRow, AssignRow
  <2>2. s.kind # "SW" => c.word_change = AssignMemWordChange(s.kind, address, word, v)
    BY DEF StoreRow, AssignRow
  <2>3. address = addr BY <1>4
  <2> HIDE DEF c, address
  <2> QED BY <1>4, <2>1, <2>2, <2>3 DEF ValueUnchecked, ValueNew, LimbsOf, Cell
<1>6. StoreCircuit(s.kind, r) = f \o g BY DEF StoreCircuit
<1>7. s.insn.imm \in Int /\ a \in Int BY <1>1, ImmRange, WordIsField
<1>8. addr = a + s.insn.imm OBVIOUS
<1> HIDE DEF r, c, addr, word, at, before, after, a, v
<1>9. /\ Met(MemAddr(c.memory_addr, Zeros(s.kind))) /\ ValueOf(c.memory_addr) = addr
      /\ LowBit(c.memory_addr, Zeros(s.kind), 0) = addr % 2
      /\ LowBit(c.memory_addr, Zeros(s.kind), 1) = (addr \div 2) % 2
  BY <1>1, <1>2, <1>5, MetAddress
<1>10. Met(change)
  <2>1. CASE s.kind = "SW" BY <2>1, MetNothing
  <2>2. CASE s.kind # "SW"
    <3>1. s.kind \in {"SH", "SB"} BY <1>1, <2>2
    <3>2. Met(MemWordChange(s.kind, c)) BY <1>1, <1>5, <1>9, <2>2, <3>1, MetWordChange
    <3> QED BY <2>2, <3>2
  <2> QED BY <2>1, <2>2
<1>11. Met(e)
  <2>1. ValueOf(c.rs1_read) = a BY <1>1, <1>5, ValueOfLimbs
  <2> QED BY <1>5, <1>7, <1>8, <1>9, <2>1, MetAddressSum
<1>12. Met(UInt(c.prev_memory_value)) BY <1>1, <1>5, MetUInt
<1>13. Met(g)
  <2>1. Field(c.imm.value) = Field(ImmInternal(s.insn)) BY <1>4, <1>5, <1>7, FieldTwice
  <2> QED BY <1>3, <2>1, MetSInsn DEF Recorded
<1> HIDE DEF e, g, change
<1>14. Met(f2) BY <1>9, <1>11, <1>12, MetThree
<1> HIDE DEF f2
<1> QED BY <1>6, <1>10, <1>13, <1>14, MetThree DEF r

-----------------------------------------------------------------------------
(***************************************************************************)
(* Products: a word's sign, the parts of a product and their ranges.       *)
(***************************************************************************)
LEMMA HalfWord ==
    /\ SignedMin \in Nat /\ SignedMin >= 8 /\ WordRange = 2 * SignedMin
    /\ WordRange \in Nat /\ Words = 0 .. WordRange - 1 /\ WordMax = WordRange - 1 /\ P > 8 * WordRange /\ P \in Nat
<1> DEFINE W == WordRange
<1>1. LimbRange \in Nat /\ LimbRange >= 4 /\ LimbRange % 2 = 0 /\ W = LimbRange * LimbRange /\ W >= 4 * LimbRange
  BY Sizes, PowerAssumption
<1> DEFINE h == LimbRange \div 2
<1>2. h \in Nat /\ LimbRange = 2 * h BY <1>1
<1>3. W = 2 * (h * LimbRange) /\ h * LimbRange \in Nat BY <1>1, <1>2
<1>4. W >= 16 BY <1>1
<1> HIDE DEF W, h
<1>5. 2 * (W \div 2) = W /\ W \div 2 \in Nat BY <1>3
<1> QED BY <1>4, <1>5, Sizes DEF W, SignedMin, WordMax

\* A number between the smallest and the largest signed word is the value of its word.
LEMMA SignedBack ==
    ASSUME NEW x \in Int, -SignedMin <= x, x < SignedMin
    PROVE  Wrapped(x) \in Words /\ SignedOf(Wrapped(x)) = x
<1> DEFINE W == WordRange  H == SignedMin
<1>1. H \in Nat /\ H >= 8 /\ W = 2 * H /\ W \in Nat /\ Words = 0 .. W - 1 BY HalfWord
<1>2. CASE x >= 0
  <2>1. x \in 0 .. W - 1 BY <1>1, <1>2
  <2>2. Wrapped(x) = x BY <1>1, <2>1, Remains DEF Wrapped
  <2> QED BY <1>1, <2>1, <2>2 DEF SignedOf, SignedMin
<1>3. CASE x < 0
  <2>1. x + W \in 0 .. W - 1 BY <1>1, <1>3
  <2>2. (-1) * W + (x + W) = x BY <1>1
  <2>3. Wrapped(x) = x + W
    <3>1. ((-1) * W + (x + W)) % W = x + W BY <1>1, <2>1, DivisionUnique
    <3> QED BY <2>2, <3>1 DEF Wrapped
  <2>4. x + W >= H BY <1>1
  <2>5. SignedOf(x + W) = x BY <1>1, <2>4 DEF SignedOf, SignedMin
  <2> QED BY <1>1, <2>1, <2>3, <2>5
<1> QED BY <1>2, <1>3

LEMMA SignedBounds ==
    ASSUME NEW v \in Words
    PROVE  /\ SignedOf(v) \in -SignedMin .. SignedMin - 1 /\ SignedOf(v) \in Int /\ Wrapped(SignedOf(v)) = v
           /\ v \in 0 .. WordRange - 1
<1> DEFINE W == WordRange  H == SignedMin  x == SignedOf(v)
<1>1. H \in Nat /\ W = 2 * H /\ W \in Nat /\ Words = 0 .. W - 1 BY HalfWord
<1>2. x \in Int /\ 2 * x >= -W /\ 2 * x < W /\ (x = v \/ x = v - W) BY SignedRange
<1> HIDE DEF x
<1>3. x \in -H .. H - 1 BY <1>1, <1>2
<1>4. Wrapped(x) = v
  <2>1. v \in 0 .. W - 1 BY <1>1
  <2>2. CASE x = v BY <1>1, <2>1, <2>2, Remains DEF Wrapped
  <2>3. CASE x = v - W
    <3>1. ((-1) * W + v) % W = v BY <1>1, <2>1, DivisionUnique
    <3>2. (-1) * W + v = x BY <1>1, <2>1, <2>3
    <3> QED BY <3>1, <3>2 DEF Wrapped
  <2> QED BY <1>2, <2>2, <2>3
<1> QED BY <1>1, <1>2, <1>3, <1>4 DEF x

\* The high and the low part of a number.
LEMMA HighLow ==
    ASSUME NEW p \in Int
    PROVE  /\ p \div WordRange \in Int /\ Wrapped(p) \in Words /\ Wrapped(p) \in Int
           /\ p = (p \div WordRange) * WordRange + Wrapped(p)
<1> DEFINE W == WordRange
<1>1. W \in Nat /\ W > 0 /\ Words = 0 .. W - 1 BY HalfWord
<1> HIDE DEF W
<1>2. p \div W \in Int /\ p % W \in 0 .. W - 1 /\ p = (p \div W) * W + (p % W) BY <1>1
<1> QED BY <1>1, <1>2 DEF Wrapped, W

LEMMA WrapsAround == ASSUME NEW p \in Int, NEW k \in Int PROVE Wrapped(p + k * WordRange) = Wrapped(p)
<1> DEFINE W == WordRange  h == p \div W  l == Wrapped(p)
<1>1. W \in Nat /\ W > 0 /\ Words = 0 .. W - 1 BY HalfWord
<1>2. h \in Int /\ l \in 0 .. W - 1 /\ p = h * W + l BY <1>1, HighLow
<1> HIDE DEF W, h, l
<1>3. ((h + k) * W + l) % W = l BY <1>1, <1>2, DivisionUnique
<1>4. (h + k) * W = h * W + k * W BY <1>1, <1>2
<1>5. h * W \in Int /\ k * W \in Int BY <1>1, <1>2
<1>6. (h + k) * W + l = p + k * W BY <1>1, <1>2, <1>4, <1>5
<1> QED BY <1>3, <1>6 DEF Wrapped, W, l

LEMMA HighBetween ==
    ASSUME NEW p \in Int, NEW k \in Int
    PROVE  /\ p < k * WordRange => p \div WordRange < k
           /\ p >= k * WordRange => p \div WordRange >= k
<1> DEFINE W == WordRange  h == p \div W  l == Wrapped(p)
<1>1. W \in Nat /\ W > 0 /\ Words = 0 .. W - 1 BY HalfWord
<1>2. h \in Int /\ l \in 0 .. W - 1 /\ p = h * W + l BY <1>1, HighLow
<1> HIDE DEF W, h, l
<1>3. ASSUME p < k * W PROVE h < k
  <2>1. SUFFICES ASSUME h >= k PROVE FALSE BY <1>2
  <2>2. (h - k) * W >= 0 BY <1>1, <1>2, <2>1
  <2>3. (h - k) * W = h * W - k * W BY <1>1, <1>2
  <2>4. h * W \in Int /\ k * W \in Int BY <1>1, <1>2
  <2> QED BY <1>1, <1>2, <1>3, <2>2, <2>3, <2>4
<1>4. ASSUME p >= k * W PROVE h >= k
  <2>1. SUFFICES ASSUME h + 1 <= k PROVE FALSE BY <1>2
  <2>2. (k - (h + 1)) * W >= 0 BY <1>1, <1>2, <2>1
  <2>3. (k - (h + 1)) * W = k * W - h * W - W BY <1>1, <1>2
  <2>4. h * W \in Int /\ k * W \in Int BY <1>1, <1>2
  <2> QED BY <1>1, <1>2, <1>4, <2>2, <2>3, <2>4
<1> QED BY <1>3, <1>4 DEF W, h

LEMMA ProductBetween ==
    ASSUME NEW A \in Nat, NEW B \in Nat, NEW x \in -A .. A, NEW y \in -B .. B
    PROVE  -(A * B) <= x * y /\ x * y <= A * B
<1>1. x \in Int /\ y \in Int /\ A - x >= 0 /\ A + x >= 0 /\ B - y >= 0 /\ B + y >= 0 OBVIOUS
<1>2. CASE y >= 0
  <2>1. A * (B - y) >= 0 /\ (A - x) * y >= 0 /\ (A + x) * y >= 0 BY <1>1, <1>2
  <2>2. A * B - x * y = A * (B - y) + (A - x) * y BY <1>1
  <2>3. A * B + x * y = A * (B - y) + (A + x) * y BY <1>1
  <2>4. A * B \in Int /\ x * y \in Int BY <1>1
  <2> QED BY <2>1, <2>2, <2>3, <2>4
<1>3. CASE y < 0
  <2>1. A * (B + y) >= 0 /\ (A - x) * (-y) >= 0 /\ (A + x) * (-y) >= 0 BY <1>1, <1>3
  <2>2. A * B - x * y = A * (B + y) + (A + x) * (-y) BY <1>1
  <2>3. A * B + x * y = A * (B + y) + (A - x) * (-y) BY <1>1
  <2>4. A * B \in Int /\ x * y \in Int BY <1>1
  <2> QED BY <2>1, <2>2, <2>3, <2>4
<1> QED BY <1>1, <1>2, <1>3

\* The high words of the three products.
LEMMA SignedProduct ==
    ASSUME NEW x \in -SignedMin .. SignedMin - 1, NEW y \in -SignedMin .. SignedMin - 1
    PROVE  (x * y) \div WordRange \in -SignedMin .. SignedMin - 1
<1> DEFINE W == WordRange  H == SignedMin  p == x * y
<1>1. H \in Nat /\ H >= 8 /\ W = 2 * H BY HalfWord
<1>2. -(H * H) <= p /\ p <= H * H /\ p \in Int /\ x \in Int /\ y \in Int
  <2>1. x \in -H .. H /\ y \in -H .. H BY <1>1
  <2> QED BY <1>1, <2>1, ProductBetween
<1>3. H * W = H * H + H * H /\ (-H) * W = -(H * H) - H * H /\ H * H \in Nat /\ H * H > 0 BY <1>1
<1> HIDE DEF p
<1>4. p < H * W /\ p >= (-H) * W BY <1>1, <1>2, <1>3
<1>5. p \div W < H /\ p \div W >= -H /\ p \div W \in Int
  <2>1. p < H * W => p \div W < H BY <1>1, <1>2, HighBetween
  <2>2. -H \in Int BY <1>1
  <2>3. p >= (-H) * W => p \div W >= -H BY <1>2, <2>2, HighBetween
  <2> QED BY <1>2, <1>4, <2>1, <2>3, HighLow
<1> QED BY <1>1, <1>5 DEF p

LEMMA MixedProduct ==
    ASSUME NEW x \in -SignedMin .. SignedMin - 1, NEW b \in 0 .. WordRange - 1
    PROVE  (x * b) \div WordRange \in -SignedMin .. SignedMin - 2
<1> DEFINE W == WordRange  H == SignedMin  p == x * b  G == H - 1
<1>1. H \in Nat /\ H >= 8 /\ W = 2 * H /\ W \in Nat /\ b \in Nat /\ b < W /\ x \in Int /\ G \in Nat /\ G >= 7 BY HalfWord
<1>2. p \in Int /\ p >= (-H) * W
  <2>1. x \in -H .. H /\ b \in -W .. W BY <1>1
  <2>2. -(H * W) <= p BY <1>1, <2>1, ProductBetween
  <2> QED BY <1>1, <2>2
<1>3. p < G * W
  <2>1. G * W > 0 BY <1>1
  <2>2. CASE x <= 0
    <3>1. (-x) * b >= 0 BY <1>1, <2>2
    <3>2. p = -((-x) * b) BY <1>1
    <3> QED BY <1>1, <2>1, <3>1, <3>2
  <2>3. CASE x > 0
    <3>1. (G - x) * W >= 0 BY <1>1, <2>3
    <3>2. x * (W - b) > 0 BY <1>1, <2>3
    <3>3. G * W - p = (G - x) * W + x * (W - b) BY <1>1
    <3> HIDE DEF p, G
    <3>4. G * W \in Int /\ (G - x) * W \in Int /\ x * (W - b) \in Int BY <1>1
    <3> QED BY <1>2, <3>1, <3>2, <3>3, <3>4
  <2> QED BY <1>1, <2>2, <2>3
<1> HIDE DEF p
<1>4. p \div W < G /\ p \div W >= -H /\ p \div W \in Int
  <2>1. p < G * W => p \div W < G BY <1>1, <1>2, HighBetween
  <2>2. -H \in Int BY <1>1
  <2>3. p >= (-H) * W => p \div W >= -H BY <1>2, <2>2, HighBetween
  <2> QED BY <1>2, <1>3, <2>1, <2>3, HighLow
<1> QED BY <1>1, <1>4 DEF p

LEMMA WordProduct ==
    ASSUME NEW a \in 0 .. WordRange - 1, NEW b \in 0 .. WordRange - 1
    PROVE  (a * b) \div WordRange \in 0 .. WordRange - 2
<1> DEFINE W == WordRange  p == a * b  G == W - 1
<1>1. W \in Nat /\ W >= 16 /\ G \in Nat /\ G >= 15 /\ a \in Nat /\ b \in Nat /\ a <= G /\ b < W BY HalfWord
<1>2. p \in Nat BY <1>1
<1>3. p < G * W
  <2>1. (G - a) * W >= 0 BY <1>1
  <2>2. CASE a = 0
    <3>1. p = 0 /\ G * W > 0 BY <1>1, <2>2
    <3> QED BY <3>1
  <2>3. CASE a > 0
    <3>1. a * (W - b) > 0 BY <1>1, <2>3
    <3>2. G * W - p = (G - a) * W + a * (W - b) BY <1>1
    <3> HIDE DEF p, G
    <3>3. G * W \in Int /\ (G - a) * W \in Int /\ a * (W - b) \in Int BY <1>1
    <3> QED BY <1>2, <2>1, <3>1, <3>2, <3>3
  <2> QED BY <1>1, <2>2, <2>3
<1>4. p >= 0 * W BY <1>1, <1>2
<1> HIDE DEF p
<1>5. p \div W < G /\ p \div W >= 0 /\ p \div W \in Int
  <2>1. p < G * W => p \div W < G BY <1>1, <1>2, HighBetween
  <2>2. p >= 0 * W => p \div W >= 0 BY <1>2, HighBetween
  <2> QED BY <1>2, <1>3, <1>4, <2>1, <2>2, HighLow
<1> QED BY <1>1, <1>5 DEF p

LEMMA NegativeNonZero == ASSUME NEW x \in Int, x < 0, x > -P, NEW z, z = AssignIsZero(x) PROVE Met(NonZero(x, z))
<1>1. P \in Nat /\ P > 0 BY HalfWord
<1>2. Field(x) # 0 BY <1>1, FieldVanishes
<1> QED BY <1>2, MetNonZero

\* The circuit of each product: its signs and its equation.
LEMMA MulhMet ==
    ASSUME NEW a \in Words, NEW b \in Words, NEW d, d = Compute("MULH", a, b), NEW c,
           LimbsOf(c.rs1_read, a), LimbsOf(c.rs2_read, b), LimbsOf(c.rd_written, d),
           c.rs1_signed = AssignIsNegative(a), c.rs2_signed = AssignIsNegative(b), c.rd_signed = AssignIsNegative(d),
           LimbsOf(c.prod_lo_hi, Wrapped(SignedOf(a) * SignedOf(b)))
    PROVE  /\ d \in Words /\ Wrapped(SignedOf(a) * SignedOf(b)) \in Words
           /\ Met(MulSigns("MULH", c)) /\ Met(MulEquation("MULH", c))
<1> DEFINE x == SignedOf(a)  y == SignedOf(b)  p == x * y  h == p \div WordRange  l == Wrapped(p)
<1>1. x \in -SignedMin .. SignedMin - 1 /\ y \in -SignedMin .. SignedMin - 1 BY SignedBounds
<1>2. x \in Int /\ y \in Int /\ SignedMin \in Nat /\ WordRange \in Nat BY <1>1, SignedBounds, HalfWord
<1>3. d = Wrapped(h) BY DEF Compute
<1>4. ToField(c.rs1_read, c.rs1_signed) = x /\ Met(IsNegative(c.rs1_read, c.rs1_signed)) BY MetNegative
<1>5. ToField(c.rs2_read, c.rs2_signed) = y /\ Met(IsNegative(c.rs2_read, c.rs2_signed)) BY MetNegative
<1>6. h \in -SignedMin .. SignedMin - 1 BY <1>1, SignedProduct
<1> HIDE DEF x, y
<1>7. p \in Int BY <1>2
<1> HIDE DEF p
<1>8. h \in Int /\ l \in Words /\ l \in Int /\ p = h * WordRange + l BY <1>7, HighLow
<1> HIDE DEF h
<1>9. d \in Words /\ SignedOf(d) = h
  <2>1. -SignedMin <= h /\ h < SignedMin BY <1>2, <1>6
  <2> QED BY <1>3, <1>8, <2>1, SignedBack
<1>10. ToField(c.rd_written, c.rd_signed) = h /\ Met(IsNegative(c.rd_written, c.rd_signed)) BY <1>9, MetNegative
<1>11. ValueOf(c.prod_lo_hi) = l BY <1>8, ValueOfLimbs DEF l, p, x, y
<1>12. Met(MulSigns("MULH", c))
  <2>1. MulSigns("MULH", c) = IsNegative(c.rs1_read, c.rs1_signed) \o IsNegative(c.rs2_read, c.rs2_signed)
                                \o IsNegative(c.rd_written, c.rd_signed)
    BY DEF MulSigns
  <2> QED BY <1>4, <1>5, <1>10, <2>1, MetThree
<1>13. Met(MulEquation("MULH", c))
  <2>1. MulEquation("MULH", c) = RequireEqual(x * y, h * WordRange + l)
    BY <1>4, <1>5, <1>10, <1>11 DEF MulEquation, MulValues
  <2>2. x * y = h * WordRange + l BY <1>8 DEF p
  <2>3. x * y \in Int BY <1>2
  <2> QED BY <2>1, <2>2, <2>3, MetSame
<1> QED BY <1>8, <1>9, <1>12, <1>13 DEF p, x, y

LEMMA MulhsuMet ==
    ASSUME NEW a \in Words, NEW b \in Words, NEW d, d = Compute("MULHSU", a, b), NEW c,
           LimbsOf(c.rs1_read, a), LimbsOf(c.rs2_read, b), LimbsOf(c.rd_written, d),
           c.rs1_signed = AssignIsNegative(a), c.rd_signed = AssignIsNegative(d),
           c.constrain_rd = AssignIsZero(SignedOf(d) - (WordRange \div 2 - 1)),
           LimbsOf(c.prod_lo_hi, Wrapped(b * Wrapped(SignedOf(a))))
    PROVE  /\ d \in Words /\ Wrapped(b * Wrapped(SignedOf(a))) \in Words
           /\ Met(MulSigns("MULHSU", c)) /\ Met(MulEquation("MULHSU", c))
<1> DEFINE x == SignedOf(a)  p == x * b  h == p \div WordRange  l == Wrapped(p)
<1>1. x \in -SignedMin .. SignedMin - 1 /\ b \in 0 .. WordRange - 1 BY SignedBounds
<1>2. x \in Int /\ b \in Int /\ SignedMin \in Nat /\ WordRange \in Nat /\ a \in Int
  BY <1>1, SignedBounds, HalfWord
<1>3. d = Wrapped(h) BY DEF Compute
<1>4. ToField(c.rs1_read, c.rs1_signed) = x /\ Met(IsNegative(c.rs1_read, c.rs1_signed)) BY MetNegative
<1>5. ValueOf(c.rs2_read) = b BY ValueOfLimbs
<1>6. h \in -SignedMin .. SignedMin - 2 BY <1>1, MixedProduct
<1>7. Wrapped(b * Wrapped(x)) = l
  <2>1. Wrapped(x) = a BY SignedBounds
  <2>2. x = a \/ x = a - WordRange BY SignedRange
  <2> HIDE DEF x
  <2>3. CASE x = a BY <1>2, <2>1, <2>3
  <2>4. CASE x = a - WordRange
    <3>1. b * a = p + b * WordRange BY <1>2, <2>4
    <3>2. p \in Int BY <1>2
    <3> QED BY <1>2, <2>1, <3>1, <3>2, WrapsAround
  <2> QED BY <2>2, <2>3, <2>4
<1> HIDE DEF x
<1>8. p \in Int BY <1>2
<1> HIDE DEF p
<1>9. h \in Int /\ l \in Words /\ l \in Int /\ p = h * WordRange + l BY <1>8, HighLow
<1> HIDE DEF h
<1>10. d \in Words /\ SignedOf(d) = h
  <2>1. -SignedMin <= h /\ h < SignedMin BY <1>2, <1>6
  <2> QED BY <1>3, <1>9, <2>1, SignedBack
<1>11. ToField(c.rd_written, c.rd_signed) = h /\ Met(IsNegative(c.rd_written, c.rd_signed)) BY <1>10, MetNegative
<1>12. ValueOf(c.prod_lo_hi) = l
  <2> HIDE DEF l
  <2>1. LimbsOf(c.prod_lo_hi, l) BY <1>7 DEF x
  <2> QED BY <1>9, <2>1, ValueOfLimbs
<1>13. Met(MulSigns("MULHSU", c))
  <2> DEFINE e == h - (WordRange \div 2 - 1)
  <2>1. e \in Int /\ e < 0 /\ e > -P
    <3>1. WordRange \div 2 = SignedMin BY DEF SignedMin
    <3>2. P > 8 * WordRange /\ WordRange = 2 * SignedMin /\ P \in Nat BY HalfWord
    <3> QED BY <1>2, <1>6, <1>9, <3>1, <3>2
  <2>2. c.constrain_rd = AssignIsZero(e) BY <1>10
  <2> HIDE DEF e
  <2>3. Met(NonZero(e, c.constrain_rd)) BY <2>1, <2>2, NegativeNonZero
  <2>4. MulValues("MULHSU", c).rd = h BY <1>11 DEF MulValues
  <2>5. MulSigns("MULHSU", c) = IsNegative(c.rs1_read, c.rs1_signed) \o IsNegative(c.rd_written, c.rd_signed)
                                  \o NonZero(e, c.constrain_rd)
    BY <2>4 DEF MulSigns, e
  <2> QED BY <1>4, <1>11, <2>3, <2>5, MetThree
<1>14. Met(MulEquation("MULHSU", c))
  <2>1. MulEquation("MULHSU", c) = RequireEqual(x * b, h * WordRange + l)
    BY <1>4, <1>5, <1>11, <1>12 DEF MulEquation, MulValues
  <2>2. x * b = h * WordRange + l BY <1>9 DEF p
  <2>3. x * b \in Int BY <1>2
  <2> QED BY <2>1, <2>2, <2>3, MetSame
<1> QED BY <1>7, <1>9, <1>10, <1>13, <1>14 DEF x

LEMMA MulhuMet ==
    ASSUME NEW a \in Words, NEW b \in Words, NEW d, d = Compute("MULHU", a, b), NEW c,
           LimbsOf(c.rs1_read, a), LimbsOf(c.rs2_read, b), LimbsOf(c.rd_written, d),
           c.constrain_rd = AssignIsZero(d - WordMax), LimbsOf(c.prod_lo_hi, Wrapped(a * b))
    PROVE  /\ d \in Words /\ Wrapped(a * b) \in Words
           /\ Met(MulSigns("MULHU", c)) /\ Met(MulEquation("MULHU", c))
<1> DEFINE p == a * b  h == p \div WordRange  l == Wrapped(p)
<1>1. a \in 0 .. WordRange - 1 /\ b \in 0 .. WordRange - 1 BY HalfWord
<1>2. a \in Int /\ b \in Int /\ WordRange \in Nat /\ WordMax = WordRange - 1 /\ P \in Nat /\ P > 8 * WordRange
      /\ Words = 0 .. WordRange - 1
  BY <1>1, HalfWord
<1>3. d = h BY DEF Compute
<1>4. h \in 0 .. WordRange - 2 BY <1>1, WordProduct
<1>5. p \in Int BY <1>2
<1>6. ValueOf(c.rs1_read) = a /\ ValueOf(c.rs2_read) = b BY ValueOfLimbs
<1> HIDE DEF p
<1>7. l \in Words /\ l \in Int /\ p = h * WordRange + l BY <1>5, HighLow
<1> HIDE DEF h
<1>8. d \in Words /\ d \in Int BY <1>2, <1>3, <1>4
<1>9. ValueOf(c.rd_written) = h BY <1>3, <1>8, ValueOfLimbs
<1>10. ValueOf(c.prod_lo_hi) = l
  <2> HIDE DEF l
  <2>1. LimbsOf(c.prod_lo_hi, l) BY DEF l, p
  <2> QED BY <1>7, <2>1, ValueOfLimbs
<1>11. Met(MulSigns("MULHU", c))
  <2> DEFINE e == d - WordMax
  <2>1. e \in Int /\ e < 0 /\ e > -P BY <1>2, <1>3, <1>4
  <2>2. c.constrain_rd = AssignIsZero(e) OBVIOUS
  <2>3. MulValues("MULHU", c).rd = d BY <1>3, <1>9 DEF MulValues
  <2>4. MulSigns("MULHU", c) = NonZero(e, c.constrain_rd) BY <2>3 DEF MulSigns
  <2> HIDE DEF e
  <2> QED BY <2>1, <2>2, <2>4, NegativeNonZero
<1>12. Met(MulEquation("MULHU", c))
  <2>1. MulEquation("MULHU", c) = RequireEqual(a * b, h * WordRange + l)
    BY <1>6, <1>9, <1>10 DEF MulEquation, MulValues
  <2>2. a * b = h * WordRange + l BY <1>7 DEF p
  <2>3. a * b \in Int BY <1>2
  <2> QED BY <2>1, <2>2, <2>3, MetSame
<1> QED BY <1>7, <1>8, <1>11, <1>12 DEF p

LEMMA MulLowMet ==
    ASSUME NEW a \in Words, NEW b \in Words, NEW d, d = Compute("MUL", a, b), NEW c,
           LimbsOf(c.rs1_read, a), LimbsOf(c.rs2_read, b), LimbsOf(c.rd_written, d),
           c.constrain_rd = AssignIsZero((a * b) \div WordRange - WordMax),
           LimbsOf(c.prod_lo_hi, (a * b) \div WordRange)
    PROVE  /\ d \in Words /\ (a * b) \div WordRange \in Words
           /\ Met(MulSigns("MUL", c)) /\ Met(MulEquation("MUL", c))
<1> DEFINE p == a * b  h == p \div WordRange
<1>1. a \in 0 .. WordRange - 1 /\ b \in 0 .. WordRange - 1 BY HalfWord
<1>2. a \in Int /\ b \in Int /\ WordRange \in Nat /\ WordMax = WordRange - 1 /\ P \in Nat /\ P > 8 * WordRange
      /\ Words = 0 .. WordRange - 1
  BY <1>1, HalfWord
<1>3. d = Wrapped(p) BY DEF Compute
<1>4. h \in 0 .. WordRange - 2 BY <1>1, WordProduct
<1>5. p \in Int BY <1>2
<1>6. ValueOf(c.rs1_read) = a /\ ValueOf(c.rs2_read) = b BY ValueOfLimbs
<1> HIDE DEF p
<1>7. d \in Words /\ d \in Int /\ p = h * WordRange + d BY <1>3, <1>5, HighLow
<1>8. LimbsOf(c.prod_lo_hi, h) BY DEF p
<1>9. c.constrain_rd = AssignIsZero(h - WordMax) BY DEF p
<1> HIDE DEF h
<1>10. h \in Words /\ h \in Int BY <1>2, <1>4
<1>11. ValueOf(c.prod_lo_hi) = h /\ ValueOf(c.rd_written) = d BY <1>7, <1>8, <1>10, ValueOfLimbs
<1>12. Met(MulSigns("MUL", c))
  <2> DEFINE e == h - WordMax
  <2>1. e \in Int /\ e < 0 /\ e > -P BY <1>2, <1>4
  <2>2. c.constrain_rd = AssignIsZero(e) BY <1>9
  <2>3. MulSigns("MUL", c) = NonZero(e, c.constrain_rd) BY <1>11 DEF MulSigns
  <2> HIDE DEF e
  <2> QED BY <2>1, <2>2, <2>3, NegativeNonZero
<1>13. Met(MulEquation("MUL", c))
  <2>1. MulEquation("MUL", c) = RequireEqual(a * b, h * WordRange + d)
    BY <1>6, <1>11 DEF MulEquation, MulValues
  <2>2. a * b = h * WordRange + d BY <1>7 DEF p
  <2>3. a * b \in Int BY <1>2
  <2> QED BY <2>1, <2>2, <2>3, MetSame
<1> QED BY <1>7, <1>10, <1>12, <1>13 DEF h, p

LEMMA MulMet ==
    ASSUME NEW s, Recorded(s), IsR(s), s.kind \in MulKinds
    PROVE  Met(MulCircuit(s.kind, MulRow(s)))
<1> DEFINE a == s.op["rs1"].after  b == s.op["rs2"].after  d == s.op["rd"].after
           r == MulRow(s)  c == r.cells
           g == RInsn(r, s.kind, c.rs1_read, c.rs2_read, c.rd_written)
<1> DEFINE Asks(kind, u) == /\ Met(UInt(u.rd_written)) /\ Met(UInt(u.prod_lo_hi))
                             /\ Met(MulSigns(kind, u)) /\ Met(MulEquation(kind, u))
<1>1. a \in Words /\ b \in Words /\ d = Compute(s.kind, a, b) BY DEF IsR, ReadsWord
<1>2. Framed(r, s) BY FramedAssign DEF MulRow
<1>3. LimbsOf(c.rs1_read, a) /\ LimbsOf(c.rs2_read, b) /\ LimbsOf(c.rd_written, d)
  BY DEF MulRow, AssignRow, ValueUnchecked, ValueNew, LimbsOf
<1>4. ASSUME s.kind = "MULH" PROVE Asks(s.kind, c)
  <2>1. /\ c.rs1_signed = AssignIsNegative(a) /\ c.rs2_signed = AssignIsNegative(b)
        /\ c.rd_signed = AssignIsNegative(d)
        /\ LimbsOf(c.prod_lo_hi, Wrapped(SignedOf(a) * SignedOf(b)))
    BY <1>4 DEF MulRow, AssignRow, ValueNew, LimbsOf
  <2> HIDE DEF c, a, b, d
  <2>2. /\ d \in Words /\ Wrapped(SignedOf(a) * SignedOf(b)) \in Words
        /\ Met(MulSigns("MULH", c)) /\ Met(MulEquation("MULH", c))
    BY <1>1, <1>3, <1>4, <2>1, MulhMet
  <2>3. Met(UInt(c.rd_written)) /\ Met(UInt(c.prod_lo_hi)) BY <1>3, <2>1, <2>2, MetUInt
  <2> QED BY <1>4, <2>2, <2>3
<1>5. ASSUME s.kind = "MULHSU" PROVE Asks(s.kind, c)
  <2>1. /\ c.rs1_signed = AssignIsNegative(a) /\ c.rd_signed = AssignIsNegative(d)
        /\ c.constrain_rd = AssignIsZero(SignedOf(d) - (WordRange \div 2 - 1))
        /\ LimbsOf(c.prod_lo_hi, Wrapped(b * Wrapped(SignedOf(a))))
    BY <1>5 DEF MulRow, AssignRow, ValueNew, LimbsOf
  <2> HIDE DEF c, a, b, d
  <2>2. /\ d \in Words /\ Wrapped(b * Wrapped(SignedOf(a))) \in Words
        /\ Met(MulSigns("MULHSU", c)) /\ Met(MulEquation("MULHSU", c))
    BY <1>1, <1>3, <1>5, <2>1, MulhsuMet
  <2>3. Met(UInt(c.rd_written)) /\ Met(UInt(c.prod_lo_hi)) BY <1>3, <2>1, <2>2, MetUInt
  <2> QED BY <1>5, <2>2, <2>3
<1>6. ASSUME s.kind = "MULHU" PROVE Asks(s.kind, c)
  <2>1. c.constrain_rd = AssignIsZero(d - WordMax) /\ LimbsOf(c.prod_lo_hi, Wrapped(a * b))
    BY <1>6 DEF MulRow, AssignRow, ValueNew, LimbsOf
  <2> HIDE DEF c, a, b, d
  <2>2. /\ d \in Words /\ Wrapped(a * b) \in Words
        /\ Met(MulSigns("MULHU", c)) /\ Met(MulEquation("MULHU", c))
    BY <1>1, <1>3, <1>6, <2>1, MulhuMet
  <2>3. Met(UInt(c.rd_written)) /\ Met(UInt(c.prod_lo_hi)) BY <1>3, <2>1, <2>2, MetUInt
  <2> QED BY <1>6, <2>2, <2>3
<1>7. ASSUME s.kind = "MUL" PROVE Asks(s.kind, c)
  <2>1. /\ c.constrain_rd = AssignIsZero((a * b) \div WordRange - WordMax)
        /\ LimbsOf(c.prod_lo_hi, (a * b) \div WordRange)
    BY <1>7 DEF MulRow, AssignRow, ValueNew, LimbsOf
  <2> HIDE DEF c, a, b, d
  <2>2. /\ d \in Words /\ (a * b) \div WordRange \in Words
        /\ Met(MulSigns("MUL", c)) /\ Met(MulEquation("MUL", c))
    BY <1>1, <1>3, <1>7, <2>1, MulLowMet
  <2>3. Met(UInt(c.rd_written)) /\ Met(UInt(c.prod_lo_hi)) BY <1>3, <2>1, <2>2, MetUInt
  <2> QED BY <1>7, <2>2, <2>3
<1>8. MulCircuit(s.kind, r) = UInt(c.rd_written) \o UInt(c.prod_lo_hi) \o MulSigns(s.kind, c)
                                \o MulEquation(s.kind, c) \o g
  BY DEF MulCircuit
<1> HIDE DEF r, c
<1>9. Met(g) BY <1>2, MetRInsn DEF Recorded
<1> HIDE DEF g
<1>10. Met(UInt(c.rd_written)) /\ Met(UInt(c.prod_lo_hi)) /\ Met(MulSigns(s.kind, c)) /\ Met(MulEquation(s.kind, c))
  <2>1. s.kind \in {"MULH", "MULHSU", "MULHU", "MUL"} BY DEF MulKinds
  <2>2. Asks(s.kind, c) BY <1>4, <1>5, <1>6, <1>7, <2>1
  <2> QED BY <2>2
<1>11. Met(UInt(c.rd_written) \o UInt(c.prod_lo_hi) \o MulSigns(s.kind, c) \o MulEquation(s.kind, c))
  BY <1>10, MetFour
<1> QED BY <1>8, <1>9, <1>11, MetJoin DEF r

-----------------------------------------------------------------------------
(***************************************************************************)
(* Divisions: the quotient truncated towards zero and its remainder.       *)
(***************************************************************************)
LEMMA Truncated ==
    ASSUME NEW x \in Int, NEW y \in Int, y # 0, NEW Q, Q = Quotient(x, y), NEW R, R = x - y * Q
    PROVE  /\ Q \in Int /\ R \in Int /\ x = Q * y + R
           /\ Magnitude(Q) = Magnitude(x) \div Magnitude(y) /\ (x < 0 /\ y > 0 => Q <= 0)
           /\ IF x < 0 THEN -R \in 0 .. Magnitude(y) - 1 ELSE R \in 0 .. Magnitude(y) - 1
<1> DEFINE X == Magnitude(x)  Y == Magnitude(y)  k == X \div Y  n == X % Y
           Splits == /\ Q \in Int /\ R \in Int /\ x = Q * y + R /\ Magnitude(Q) = k
                     /\ (x < 0 /\ y > 0 => Q <= 0) /\ (x < 0 => R = -n) /\ (x >= 0 => R = n)
<1>1. X \in Nat /\ Y \in Nat /\ Y > 0 /\ (x < 0 => X = -x) /\ (x >= 0 => X = x)
      /\ (y < 0 => Y = -y) /\ (y >= 0 => Y = y)
  BY DEF Magnitude
<1> HIDE DEF X, Y
<1>2. k \in Nat /\ n \in 0 .. Y - 1 /\ X = k * Y + n BY <1>1
<1>3. Q = (IF (x < 0) = (y < 0) THEN 1 ELSE -1) * k BY DEF Quotient, X, Y
<1> HIDE DEF k, n
<1>4. k * Y \in Int BY <1>1, <1>2
<1>5. ASSUME x < 0 /\ y < 0 PROVE Splits
  <2>1. Q = k
    <3>1. (x < 0) = (y < 0) BY <1>5
    <3>2. Q = 1 * k BY <1>3, <3>1
    <3> QED BY <1>2, <3>2
  <2>2. y = -Y /\ x = -X BY <1>1, <1>5
  <2>3. y * Q = -(k * Y) BY <1>1, <1>2, <2>1, <2>2
  <2>4. R = -n BY <1>1, <1>2, <1>4, <2>2, <2>3
  <2>5. Q * y = -(k * Y) BY <1>1, <1>2, <2>1, <2>2
  <2>6. x = Q * y + R BY <1>1, <1>2, <1>4, <2>2, <2>4, <2>5
  <2>7. Magnitude(Q) = k BY <1>2, <2>1 DEF Magnitude
  <2> QED BY <1>2, <1>5, <2>1, <2>4, <2>6, <2>7
<1>6. ASSUME x < 0 /\ y > 0 PROVE Splits
  <2>1. Q = -k
    <3>1. ~((x < 0) = (y < 0)) BY <1>6
    <3>2. Q = (-1) * k BY <1>3, <3>1
    <3> QED BY <1>2, <3>2
  <2>2. y = Y /\ x = -X BY <1>1, <1>6
  <2>3. y * Q = -(k * Y) BY <1>1, <1>2, <2>1, <2>2
  <2>4. R = -n BY <1>1, <1>2, <1>4, <2>2, <2>3
  <2>5. Q * y = -(k * Y) BY <1>1, <1>2, <2>1, <2>2
  <2>6. x = Q * y + R BY <1>1, <1>2, <1>4, <2>2, <2>4, <2>5
  <2>7. Magnitude(Q) = k BY <1>2, <2>1 DEF Magnitude
  <2> QED BY <1>2, <1>6, <2>1, <2>4, <2>6, <2>7
<1>7. ASSUME x >= 0 /\ y < 0 PROVE Splits
  <2>1. Q = -k
    <3>1. ~((x < 0) = (y < 0)) BY <1>7
    <3>2. Q = (-1) * k BY <1>3, <3>1
    <3> QED BY <1>2, <3>2
  <2>2. y = -Y /\ x = X BY <1>1, <1>7
  <2>3. y * Q = k * Y BY <1>1, <1>2, <2>1, <2>2
  <2>4. R = n BY <1>1, <1>2, <1>4, <2>2, <2>3
  <2>5. Q * y = k * Y BY <1>1, <1>2, <2>1, <2>2
  <2>6. x = Q * y + R BY <1>1, <1>2, <1>4, <2>2, <2>4, <2>5
  <2>7. Magnitude(Q) = k BY <1>2, <2>1 DEF Magnitude
  <2> QED BY <1>2, <1>7, <2>1, <2>4, <2>6, <2>7
<1>8. ASSUME x >= 0 /\ y > 0 PROVE Splits
  <2>1. Q = k
    <3>1. (x < 0) = (y < 0) BY <1>8
    <3>2. Q = 1 * k BY <1>3, <3>1
    <3> QED BY <1>2, <3>2
  <2>2. y = Y /\ x = X BY <1>1, <1>8
  <2>3. y * Q = k * Y BY <1>1, <1>2, <2>1, <2>2
  <2>4. R = n BY <1>1, <1>2, <1>4, <2>2, <2>3
  <2>5. Q * y = k * Y BY <1>1, <1>2, <2>1, <2>2
  <2>6. x = Q * y + R BY <1>1, <1>2, <1>4, <2>2, <2>4, <2>5
  <2>7. Magnitude(Q) = k BY <1>2, <2>1 DEF Magnitude
  <2> QED BY <1>2, <1>8, <2>1, <2>4, <2>6, <2>7
<1>9. Splits BY <1>5, <1>6, <1>7, <1>8
<1>10. IF x < 0 THEN -R \in 0 .. Y - 1 ELSE R \in 0 .. Y - 1 BY <1>1, <1>2, <1>9
<1> QED BY <1>9, <1>10 DEF k, X, Y

LEMMA QuotientSmall ==
    ASSUME NEW X \in Nat, NEW Y \in Nat \ {0}
    PROVE  /\ X \div Y \in Nat /\ X \div Y <= X
           /\ X > 0 /\ X \div Y = X => Y = 1
<1> DEFINE k == X \div Y  n == X % Y
<1>1. k \in Nat /\ n \in 0 .. Y - 1 /\ X = k * Y + n OBVIOUS
<1> HIDE DEF k, n
<1>2. k * (Y - 1) >= 0 /\ k * (Y - 1) = k * Y - k BY <1>1
<1>3. k * Y \in Int BY <1>1
<1>4. k <= X BY <1>1, <1>2, <1>3
<1>5. ASSUME X > 0, k = X, Y # 1 PROVE FALSE
  <2>1. Y - 1 >= 1 BY <1>5
  <2>2. k * (Y - 1) > 0 BY <1>1, <1>5, <2>1
  <2> QED BY <1>1, <1>2, <1>3, <1>5, <2>2
<1> QED BY <1>1, <1>4, <1>5 DEF k

\* What the signed division of two words leaves.
LEMMA SignedDivision ==
    ASSUME NEW a \in Words, NEW b \in Words, b # 0, NEW q, q = Compute("DIV", a, b), NEW m, m = Compute("REM", a, b)
    PROVE  LET x == SignedOf(a)
               y == SignedOf(b)
               over == x = -SignedMin /\ y = -1
               pos == IF x < 0 THEN -SignedOf(m) ELSE SignedOf(m)
           IN  /\ q \in Words /\ m \in Words /\ y # 0
               /\ over => SignedOf(q) = -SignedMin /\ SignedOf(m) = 0
               /\ ~over => x = SignedOf(q) * y + SignedOf(m)
               /\ pos \in 0 .. Magnitude(y) - 1
<1> DEFINE x == SignedOf(a)  y == SignedOf(b)  Q == Quotient(x, y)  R == x - y * Q  H == SignedMin
           over == x = -SignedMin /\ y = -1
           pos == IF x < 0 THEN -SignedOf(m) ELSE SignedOf(m)
<1>1. /\ x \in -H .. H - 1 /\ x \in Int /\ y \in -H .. H - 1 /\ y \in Int
      /\ H \in Nat /\ H >= 8 /\ WordRange = 2 * H /\ a \in 0 .. WordRange - 1 /\ b \in 0 .. WordRange - 1
      /\ (y = b \/ y = b - WordRange)
  BY SignedBounds, HalfWord, SignedRange
<1>2. q = Wrapped(Q) BY DEF Compute
<1>3. m = Wrapped(R) BY DEF Compute
<1> HIDE DEF x, y
<1>4. y # 0 BY <1>1
<1>5. /\ Q \in Int /\ R \in Int /\ x = Q * y + R
      /\ Magnitude(Q) = Magnitude(x) \div Magnitude(y) /\ (x < 0 /\ y > 0 => Q <= 0)
      /\ IF x < 0 THEN -R \in 0 .. Magnitude(y) - 1 ELSE R \in 0 .. Magnitude(y) - 1
  BY <1>1, <1>4, Truncated
<1> HIDE DEF Q, R
<1>6. /\ Magnitude(x) \in 0 .. H /\ Magnitude(y) \in 1 .. H
      /\ (x < 0 => Magnitude(x) = -x) /\ (x >= 0 => Magnitude(x) = x)
      /\ (y < 0 => Magnitude(y) = -y) /\ (y >= 0 => Magnitude(y) = y)
  BY <1>1, <1>4 DEF Magnitude
<1>7. (Q < 0 => Magnitude(Q) = -Q) /\ (Q >= 0 => Magnitude(Q) = Q) BY <1>5 DEF Magnitude
<1> DEFINE X == Magnitude(x)  Y == Magnitude(y)
<1> HIDE DEF X, Y
<1>8. /\ X \div Y \in Nat /\ X \div Y <= X /\ (X > 0 /\ X \div Y = X => Y = 1)
  <2>1. X \in Nat /\ Y \in Nat \ {0} BY <1>1, <1>6 DEF X, Y
  <2> QED BY <2>1, QuotientSmall
<1>9. m \in Words /\ SignedOf(m) = R
  <2>1. -H <= R /\ R < H BY <1>1, <1>5, <1>6
  <2> QED BY <1>3, <1>5, <2>1, SignedBack
<1>10. pos \in 0 .. Magnitude(y) - 1 BY <1>5, <1>9
<1>11. ASSUME over PROVE q \in Words /\ SignedOf(q) = -H /\ SignedOf(m) = 0
  <2>1. Magnitude(y) = 1 BY <1>6, <1>11
  <2>2. R = 0 BY <1>1, <1>5, <1>11, <2>1
  <2>3. Q * y = -Q BY <1>5, <1>11
  <2>4. Q = H BY <1>1, <1>5, <1>11, <2>2, <2>3
  <2>5. H \in 0 .. WordRange - 1 /\ WordRange \in Nat BY <1>1
  <2>6. q = H BY <1>2, <2>4, <2>5, Remains DEF Wrapped
  <2>7. H \in Words /\ SignedOf(H) = H - WordRange
    <3>1. Words = 0 .. WordRange - 1 BY HalfWord
    <3>2. H = WordRange \div 2 BY DEF SignedMin
    <3> QED BY <1>1, <2>5, <3>1, <3>2 DEF SignedOf
  <2>8. H - WordRange = -H BY <1>1
  <2> QED BY <1>9, <2>2, <2>6, <2>7, <2>8
<1>12. ASSUME ~over PROVE q \in Words /\ SignedOf(q) = Q
  <2>1. Magnitude(Q) = X \div Y BY <1>5 DEF X, Y
  <2>2. Magnitude(Q) \in Nat /\ Magnitude(Q) <= X /\ X \in 0 .. H
    <3>1. X \in 0 .. H BY <1>6 DEF X
    <3> QED BY <1>8, <2>1, <3>1
  <2>3. -H <= Q BY <1>1, <1>5, <1>7, <2>2
  <2>4. Q < H
    <3>1. SUFFICES ASSUME Q >= H PROVE FALSE BY <1>1, <1>5
    <3>2. Magnitude(Q) = Q BY <1>1, <1>5, <1>7, <3>1
    <3>3. X \in Nat /\ X \div Y = X /\ X = H /\ X > 0
      <4>1. X \in Nat BY <1>1, <1>6 DEF X
      <4> QED BY <1>1, <1>5, <2>1, <2>2, <3>1, <3>2, <4>1
    <3>4. Y = 1 BY <1>8, <3>3
    <3>5. x = -H
      <4>1. Magnitude(x) = H BY <3>3 DEF X
      <4> QED BY <1>1, <1>6, <4>1
    <3>6. y = 1 \/ y = -1
      <4>1. Magnitude(y) = 1 BY <3>4 DEF Y
      <4> QED BY <1>1, <1>6, <4>1
    <3>7. y = 1 BY <1>12, <3>5, <3>6
    <3> QED BY <1>1, <1>5, <3>1, <3>5, <3>7
  <2> QED BY <1>2, <1>5, <2>3, <2>4, SignedBack
<1>13. q \in Words /\ m \in Words /\ y # 0 BY <1>4, <1>9, <1>11, <1>12
<1>14. over => SignedOf(q) = -SignedMin /\ SignedOf(m) = 0 BY <1>11
<1>15. ~over => x = SignedOf(q) * y + SignedOf(m) BY <1>5, <1>9, <1>12
<1> QED BY <1>10, <1>13, <1>14, <1>15 DEF x, y

\* Division by zero: told by a flag, which is the opposite of the comparison.
LEMMA DivZeroMet ==
    ASSUME NEW b \in Words, NEW q \in Words, b = 0 => q = WordMax, NEW c,
           LimbsOf(c.divisor, b), LimbsOf(c.quotient, q), c.is_divisor_zero = AssignIsZero(b),
           c.is_remainder_lt_divisor.is_lt = IF b = 0 THEN 0 ELSE 1
    PROVE  /\ Met(IsZero(ValueOf(c.divisor), c.is_divisor_zero))
           /\ Met(ConditionRequireEqual(c.is_divisor_zero.is_zero, ValueOf(c.quotient), WordMax, ValueOf(c.quotient)))
           /\ Met(RequireEqual(c.is_divisor_zero.is_zero + c.is_remainder_lt_divisor.is_lt, 1))
<1>1. ValueOf(c.divisor) = b /\ ValueOf(c.quotient) = q BY ValueOfLimbs
<1>2. b \in Int /\ q \in Int /\ Field(b) = b /\ WordMax \in Int BY WordIsField, HalfWord
<1>3. Met(IsZero(b, c.is_divisor_zero)) /\ c.is_divisor_zero.is_zero = (IF b = 0 THEN 1 ELSE 0)
  BY <1>2, MetIsZero
<1>4. Met(ConditionRequireEqual(c.is_divisor_zero.is_zero, q, WordMax, q)) BY <1>2, <1>3, MetCondition
<1>5. c.is_divisor_zero.is_zero + c.is_remainder_lt_divisor.is_lt = 1 BY <1>3
<1>6. Met(RequireEqual(c.is_divisor_zero.is_zero + c.is_remainder_lt_divisor.is_lt, 1)) BY <1>5, MetSame
<1> QED BY <1>1, <1>3, <1>4, <1>6

DivAsks(kind, c) ==
    /\ Met(UInt(c.quotient)) /\ Met(UInt(c.remainder)) /\ Met(DivEquation(kind, c))
    /\ Met(IsZero(ValueOf(c.divisor), c.is_divisor_zero))
    /\ Met(ConditionRequireEqual(c.is_divisor_zero.is_zero, ValueOf(c.quotient), WordMax, ValueOf(c.quotient)))
    /\ Met(RemainderLess(kind, c))
    /\ Met(RequireEqual(c.is_divisor_zero.is_zero + c.is_remainder_lt_divisor.is_lt, 1))

LEMMA DivUnsignedMet ==
    ASSUME NEW kind \in {"DIVU", "REMU"}, NEW a \in Words, NEW b \in Words,
           NEW q, q = Compute("DIVU", a, b), NEW m, m = Compute("REMU", a, b), NEW c,
           LimbsOf(c.dividend, a), LimbsOf(c.divisor, b), LimbsOf(c.quotient, q), LimbsOf(c.remainder, m),
           c.is_divisor_zero = AssignIsZero(b), c.is_remainder_lt_divisor = AssignLt(m, b)
    PROVE  DivAsks(kind, c)
<1>1. /\ WordRange \in Nat /\ WordRange >= 16 /\ WordMax = WordRange - 1 /\ Words = 0 .. WordRange - 1
      /\ a \in 0 .. WordRange - 1 /\ b \in 0 .. WordRange - 1
  BY HalfWord
<1>2. q = IF b = 0 THEN WordMax ELSE a \div b BY DEF Compute
<1>3. m = IF b = 0 THEN a ELSE a % b BY DEF Compute
<1>4. q \in Words /\ m \in Words /\ a = b * q + m /\ (IF b = 0 THEN ~(m < b) ELSE m < b)
  <2>1. ASSUME b = 0 PROVE q \in Words /\ m \in Words /\ a = b * q + m /\ ~(m < b)
    <3>1. q = WordMax /\ m = a BY <1>2, <1>3, <2>1
    <3>2. b * q = 0 BY <1>1, <2>1, <3>1
    <3> QED BY <1>1, <2>1, <3>1, <3>2
  <2>2. ASSUME b # 0 PROVE q \in Words /\ m \in Words /\ a = b * q + m /\ m < b
    <3>1. a \in Nat /\ b \in Nat \ {0} BY <1>1, <2>2
    <3>2. q \in Nat /\ q <= a BY <1>2, <2>2, <3>1, QuotientSmall
    <3>3. m \in 0 .. b - 1 /\ a = q * b + m
      <4>1. a % b \in 0 .. b - 1 /\ a = (a \div b) * b + (a % b) BY <3>1
      <4>2. q = a \div b /\ m = a % b BY <1>2, <1>3, <2>2
      <4> QED BY <4>1, <4>2
    <3>4. q * b = b * q BY <3>1, <3>2
    <3>5. a = b * q + m BY <3>3, <3>4
    <3> QED BY <1>1, <3>1, <3>2, <3>3, <3>5
  <2> QED BY <2>1, <2>2
<1> DEFINE d == c.is_remainder_lt_divisor
<1>5. /\ ValueOf(c.dividend) = a /\ ValueOf(c.divisor) = b /\ ValueOf(c.quotient) = q
      /\ ValueOf(c.remainder) = m
  BY <1>4, ValueOfLimbs
<1>6. Met(UInt(c.quotient)) /\ Met(UInt(c.remainder)) BY <1>4, MetUInt
<1>7. Met(DivEquation(kind, c))
  <2>1. DivEquation(kind, c) = RequireEqual(a, b * q + m) BY <1>5 DEF DivEquation, SignedDiv
  <2>2. a \in Int BY <1>1
  <2> QED BY <1>4, <2>1, <2>2, MetSame
<1>8. Met(RemainderLess(kind, c)) /\ d.is_lt = (IF m < b THEN 1 ELSE 0)
  <2>1. RemainderLess(kind, c) = IsLt(m, b, d) BY <1>5 DEF RemainderLess, SignedDiv
  <2>2. m \in Int /\ b \in Int /\ m - b < WordRange /\ b - m < WordRange BY <1>1, <1>4
  <2>3. Met(IsLt(m, b, d)) /\ d.is_lt = (IF m < b THEN 1 ELSE 0) BY <2>2, MetIsLt
  <2> QED BY <2>1, <2>3
<1>9. d.is_lt = (IF b = 0 THEN 0 ELSE 1) BY <1>4, <1>8
<1>10. b = 0 => q = WordMax BY <1>2
<1> QED BY <1>4, <1>6, <1>7, <1>8, <1>9, <1>10, DivZeroMet DEF DivAsks

\* The smallest dividend by -1: told by two flags and their product.
LEMMA DivOverflowMet ==
    ASSUME NEW a \in Words, NEW b \in Words, NEW c, LimbsOf(c.dividend, a), LimbsOf(c.divisor, b),
           NEW over, over = (SignedOf(a) = -SignedMin /\ SignedOf(b) = -1),
           c.is_dividend_signed_min = AssignIsZero(a - SignedMin),
           c.is_divisor_neg_one = AssignIsZero(b - WordMax),
           c.is_signed_overflow.value = Field(BoolWord(over))
    PROVE  Met(DivOverflow(c)) /\ c.is_signed_overflow.value = BoolWord(over)
<1> DEFINE W == WordRange  H == SignedMin  x == a - H  y == b - WordMax
           zx == c.is_dividend_signed_min  zy == c.is_divisor_neg_one  f == c.is_signed_overflow.value
<1>1. /\ H \in Nat /\ H >= 8 /\ W = 2 * H /\ WordMax = W - 1 /\ P \in Nat /\ P > 8 * W
      /\ a \in 0 .. W - 1 /\ b \in 0 .. W - 1
  BY HalfWord
<1>2. SignedOf(a) = -H <=> a = H BY <1>1 DEF SignedOf, SignedMin
<1>3. SignedOf(b) = -1 <=> b = WordMax BY <1>1 DEF SignedOf, SignedMin
<1>4. x \in Int /\ -P < x /\ x < P /\ (x = 0 <=> a = H) BY <1>1
<1>5. y \in Int /\ -P < y /\ y < P /\ (y = 0 <=> b = WordMax) BY <1>1
<1>6. ValueOf(c.dividend) - SignedMin = x /\ ValueOf(c.divisor) - WordMax = y BY ValueOfLimbs
<1>7. zx = AssignIsZero(x) /\ zy = AssignIsZero(y) OBVIOUS
<1> HIDE DEF x, y
<1>8. Met(IsZero(x, zx)) /\ zx.is_zero = (IF x = 0 THEN 1 ELSE 0) BY <1>4, <1>7, FieldVanishes, MetIsZero
<1>9. Met(IsZero(y, zy)) /\ zy.is_zero = (IF y = 0 THEN 1 ELSE 0) BY <1>5, <1>7, FieldVanishes, MetIsZero
<1>10. f = BoolWord(over) /\ f \in Int
  <2>1. BoolWord(over) \in {0, 1} BY DEF BoolWord
  <2>2. Field(BoolWord(over)) = BoolWord(over) BY <1>1, <2>1, SmallField
  <2> QED BY <2>1, <2>2
<1>11. f = zx.is_zero * zy.is_zero
  <2>1. over <=> x = 0 /\ y = 0 BY <1>2, <1>3, <1>4, <1>5
  <2>2. CASE x = 0 /\ y = 0
    <3>1. zx.is_zero = 1 /\ zy.is_zero = 1 /\ f = 1 BY <1>8, <1>9, <1>10, <2>1, <2>2 DEF BoolWord
    <3> QED BY <3>1
  <2>3. CASE x = 0 /\ y # 0
    <3>1. zx.is_zero = 1 /\ zy.is_zero = 0 /\ f = 0 BY <1>8, <1>9, <1>10, <2>1, <2>3 DEF BoolWord
    <3> QED BY <3>1
  <2>4. CASE x # 0
    <3>1. zx.is_zero = 0 /\ zy.is_zero \in {0, 1} /\ f = 0 BY <1>8, <1>9, <1>10, <2>1, <2>4 DEF BoolWord
    <3> QED BY <3>1
  <2> QED BY <2>2, <2>3, <2>4
<1>12. Met(RequireEqual(f, zx.is_zero * zy.is_zero)) BY <1>10, <1>11, MetSame
<1>13. DivOverflow(c) = IsZero(x, zx) \o IsZero(y, zy) \o RequireEqual(f, zx.is_zero * zy.is_zero)
  BY <1>6 DEF DivOverflow
<1> QED BY <1>8, <1>9, <1>10, <1>12, <1>13, MetThree

LEMMA SignedZeroDivision ==
    ASSUME NEW a \in Words, NEW q, q = Compute("DIV", a, 0), NEW m, m = Compute("REM", a, 0)
    PROVE  q = WordMax /\ q \in Words /\ m = a /\ m \in Words /\ SignedOf(0) = 0
<1>1. q = WordMax /\ m = a BY DEF Compute
<1>2. WordMax \in Words /\ SignedOf(0) = 0 BY HalfWord DEF SignedOf, SignedMin
<1> QED BY <1>1, <1>2

\* What the signed division of any two words leaves.
LEMMA SignedDivisionOfWords ==
    ASSUME NEW a \in Words, NEW b \in Words, NEW q, q = Compute("DIV", a, b), NEW m, m = Compute("REM", a, b)
    PROVE  /\ q \in Words /\ m \in Words
           /\ SignedOf(a) = -SignedMin /\ SignedOf(b) = -1 => SignedOf(q) = -SignedMin /\ SignedOf(m) = 0
           /\ ~(SignedOf(a) = -SignedMin /\ SignedOf(b) = -1) => SignedOf(a) = SignedOf(q) * SignedOf(b) + SignedOf(m)
           /\ LET pos == IF SignedOf(a) < 0 THEN -SignedOf(m) ELSE SignedOf(m)
              IN  pos \in 0 .. SignedMin /\ (pos < Magnitude(SignedOf(b)) <=> b # 0)
           /\ b = 0 => q = WordMax
<1> DEFINE x == SignedOf(a)  y == SignedOf(b)  H == SignedMin
           pos == IF x < 0 THEN -SignedOf(m) ELSE SignedOf(m)
<1>1. x \in -H .. H - 1 /\ y \in -H .. H - 1 /\ H \in Nat /\ H >= 8 BY SignedBounds, HalfWord
<1>2. CASE b = 0
  <2>1. q = WordMax /\ q \in Words /\ m = a /\ y = 0
    <3>1. q = Compute("DIV", a, 0) /\ m = Compute("REM", a, 0) BY <1>2
    <3> QED BY <1>2, <3>1, SignedZeroDivision
  <2>2. SignedOf(q) \in Int BY <2>1, SignedBounds
  <2>3. SignedOf(m) = x BY <2>1
  <2> HIDE DEF x, y
  <2>4. SignedOf(q) * y + SignedOf(m) = x BY <1>1, <2>1, <2>2, <2>3
  <2>5. Magnitude(y) = 0 BY <2>1 DEF Magnitude
  <2>6. pos \in 0 .. H BY <1>1, <2>3
  <2>7. ~(pos < Magnitude(y)) BY <1>1, <2>5, <2>6
  <2>8. ~(y = -1) BY <2>1
  <2> QED BY <1>2, <2>1, <2>4, <2>6, <2>7, <2>8 DEF x, y
<1>3. CASE b # 0
  <2>1. /\ q \in Words /\ m \in Words
        /\ x = -H /\ y = -1 => SignedOf(q) = -SignedMin /\ SignedOf(m) = 0
        /\ ~(x = -H /\ y = -1) => x = SignedOf(q) * y + SignedOf(m)
        /\ pos \in 0 .. Magnitude(y) - 1
    BY <1>3, SignedDivision
  <2> HIDE DEF x, y
  <2>2. Magnitude(y) \in 0 .. H BY <1>1 DEF Magnitude
  <2> HIDE DEF pos
  <2>3. pos \in 0 .. H /\ pos < Magnitude(y) BY <1>1, <2>1, <2>2
  <2> QED BY <1>3, <2>1, <2>3 DEF x, y, pos
<1> QED BY <1>2, <1>3

LEMMA DivSignedMet ==
    ASSUME NEW kind \in {"DIV", "REM"}, NEW a \in Words, NEW b \in Words,
           NEW q, q = Compute("DIV", a, b), NEW m, m = Compute("REM", a, b), NEW c,
           LimbsOf(c.dividend, a), LimbsOf(c.divisor, b), LimbsOf(c.quotient, q), LimbsOf(c.remainder, m),
           c.dividend_signed = AssignIsNegative(a), c.divisor_signed = AssignIsNegative(b),
           c.quotient_signed = AssignIsNegative(q), c.remainder_signed = AssignIsNegative(m),
           c.is_dividend_signed_min = AssignIsZero(a - SignedMin),
           c.is_divisor_neg_one = AssignIsZero(b - WordMax),
           c.is_signed_overflow.value = Field(BoolWord(SignedOf(a) = -SignedMin /\ SignedOf(b) = -1)),
           NEW pos, pos = (IF SignedOf(a) < 0 THEN -SignedOf(m) ELSE SignedOf(m)),
           c.remainder_nonnegative = AssignLt(-1, pos),
           c.is_remainder_lt_divisor = AssignLt(pos, IF SignedOf(b) < 0 THEN -SignedOf(b) ELSE b),
           c.is_divisor_zero = AssignIsZero(b)
    PROVE  DivAsks(kind, c)
<1> DEFINE W == WordRange  H == SignedMin  x == SignedOf(a)  y == SignedOf(b)
           qs == SignedOf(q)  ms == SignedOf(m)  over == x = -H /\ y = -1  mag == Magnitude(y)
           f == c.is_signed_overflow.value  d == c.is_remainder_lt_divisor
           eq == ConditionRequireEqual(f, qs * y + ms, H, x)
           nonnegative == AssertLt(-1, pos, c.remainder_nonnegative)
<1>1. /\ H \in Nat /\ H >= 8 /\ W = 2 * H /\ W \in Nat
      /\ x \in -H .. H - 1 /\ y \in -H .. H - 1 /\ x \in Int /\ y \in Int
  BY HalfWord, SignedBounds
<1>2. /\ q \in Words /\ m \in Words
      /\ over => qs = -H /\ ms = 0
      /\ ~over => x = qs * y + ms
      /\ pos \in 0 .. H /\ (pos < mag <=> b # 0)
      /\ b = 0 => q = WordMax
  <2>1. /\ q \in Words /\ m \in Words
        /\ SignedOf(a) = -SignedMin /\ SignedOf(b) = -1 => SignedOf(q) = -SignedMin /\ SignedOf(m) = 0
        /\ ~(SignedOf(a) = -SignedMin /\ SignedOf(b) = -1) =>
             SignedOf(a) = SignedOf(q) * SignedOf(b) + SignedOf(m)
        /\ pos \in 0 .. SignedMin /\ (pos < Magnitude(SignedOf(b)) <=> b # 0)
        /\ b = 0 => q = WordMax
    <3> HIDE DEF W, H, x, y, qs, ms, over, mag, f, d, eq, nonnegative
    <3>1. q \in Words /\ m \in Words BY SignedDivisionOfWords
    <3>2. ASSUME SignedOf(a) = -SignedMin, SignedOf(b) = -1 PROVE SignedOf(q) = -SignedMin /\ SignedOf(m) = 0
      BY <3>2, SignedDivisionOfWords
    <3>3. ASSUME ~(SignedOf(a) = -SignedMin /\ SignedOf(b) = -1)
          PROVE  SignedOf(a) = SignedOf(q) * SignedOf(b) + SignedOf(m)
      BY <3>3, SignedDivisionOfWords
    <3>4. pos \in 0 .. SignedMin /\ (pos < Magnitude(SignedOf(b)) <=> b # 0)
      BY SignedDivisionOfWords
    <3>5. b = 0 => q = WordMax BY DEF Compute
    <3> QED BY <3>1, <3>2, <3>3, <3>4, <3>5
  <2> QED BY <2>1
<1>3. qs \in Int /\ ms \in Int BY <1>2, SignedBounds
<1>4. mag \in 0 .. H /\ mag = (IF y < 0 THEN -y ELSE b)
  <2>1. y = b \/ y = b - W BY SignedRange
  <2>2. b \in 0 .. W - 1 BY HalfWord
  <2> HIDE DEF y
  <2> QED BY <1>1, <2>1, <2>2 DEF Magnitude
<1>5. Met(DivOverflow(c)) /\ f = BoolWord(over) BY DivOverflowMet
<1>6. /\ Met(IsNegative(c.dividend, c.dividend_signed)) /\ ToField(c.dividend, c.dividend_signed) = x
      /\ c.dividend_signed.msb = IF x < 0 THEN 1 ELSE 0
  BY MetNegative
<1>7. /\ Met(IsNegative(c.divisor, c.divisor_signed)) /\ ToField(c.divisor, c.divisor_signed) = y
      /\ c.divisor_signed.msb = IF y < 0 THEN 1 ELSE 0
  BY MetNegative
<1>8. /\ Met(IsNegative(c.quotient, c.quotient_signed)) /\ ToField(c.quotient, c.quotient_signed) = qs
      /\ Met(IsNegative(c.remainder, c.remainder_signed)) /\ ToField(c.remainder, c.remainder_signed) = ms
  BY <1>2, MetNegative
<1>9. Met(UInt(c.quotient)) /\ Met(UInt(c.remainder)) BY <1>2, MetUInt
<1>10. /\ DivValues(c).dividend = x /\ DivValues(c).divisor = y
       /\ DivValues(c).quotient = qs /\ DivValues(c).remainder = ms
  BY <1>6, <1>7, <1>8 DEF DivValues
<1>11. pos = (IF x < 0 THEN -ms ELSE ms) /\ d = AssignLt(pos, mag) BY <1>4
<1> HIDE DEF x, y, qs, ms, mag
<1>12. RemainderPos(c) = pos
  <2>1. CASE x < 0
    <3>1. RemainderPos(c) = (1 - 2 * 1) * ms BY <1>6, <1>10, <2>1 DEF RemainderPos
    <3> QED BY <1>3, <1>11, <2>1, <3>1
  <2>2. CASE x >= 0
    <3>1. RemainderPos(c) = (1 - 2 * 0) * ms BY <1>1, <1>6, <1>10, <2>2 DEF RemainderPos
    <3> QED BY <1>1, <1>3, <1>11, <2>2, <3>1
  <2> QED BY <1>1, <2>1, <2>2
<1>13. DivisorPos(c) = mag
  <2>1. CASE y < 0
    <3>1. DivisorPos(c) = (1 - 2 * 1) * y BY <1>7, <1>10, <2>1 DEF DivisorPos
    <3> QED BY <1>1, <2>1, <3>1 DEF mag, Magnitude
  <2>2. CASE y >= 0
    <3>1. DivisorPos(c) = (1 - 2 * 0) * y BY <1>1, <1>7, <1>10, <2>2 DEF DivisorPos
    <3> QED BY <1>1, <2>2, <3>1 DEF mag, Magnitude
  <2> QED BY <1>1, <2>1, <2>2
<1>14. Met(RemainderLess(kind, c)) /\ d.is_lt = (IF b = 0 THEN 0 ELSE 1)
  <2>1. RemainderLess(kind, c) = IsLt(pos, mag, d) BY <1>12, <1>13 DEF RemainderLess, SignedDiv
  <2>2. pos \in Int /\ mag \in Int /\ pos - mag < W /\ mag - pos < W BY <1>1, <1>2, <1>4
  <2>3. d.limb = AssignLt(pos, mag).limb /\ d.is_lt = AssignLt(pos, mag).is_lt BY <1>11
  <2> HIDE DEF d
  <2>4. Met(IsLt(pos, mag, d)) /\ d.is_lt = (IF pos < mag THEN 1 ELSE 0) BY <2>2, <2>3, MetIsLt
  <2> QED BY <1>2, <2>1, <2>4
<1>15. Met(nonnegative)
  <2>1. pos \in Int /\ -1 \in Int /\ -1 < pos /\ pos - (-1) < W BY <1>1, <1>2
  <2> QED BY <2>1, MetAssertLt
<1>16. Met(eq)
  <2>1. CASE over
    <3>1. f = 1 BY <1>5, <2>1 DEF BoolWord
    <3>2. qs * y = H BY <1>1, <1>2, <2>1
    <3>3. qs * y + ms = H BY <1>1, <1>2, <2>1, <3>2
    <3> QED BY <1>1, <3>1, <3>3, MetCondition
  <2>2. CASE ~over
    <3>1. f = 0 BY <1>5, <2>2 DEF BoolWord
    <3>2. qs * y + ms = x BY <1>2, <2>2
    <3> QED BY <1>1, <3>1, <3>2, MetCondition
  <2> QED BY <2>1, <2>2
<1>17. Met(DivSigns(c))
  <2>1. DivSigns(c) = IsNegative(c.dividend, c.dividend_signed) \o IsNegative(c.divisor, c.divisor_signed)
                        \o IsNegative(c.quotient, c.quotient_signed) \o IsNegative(c.remainder, c.remainder_signed)
    BY DEF DivSigns
  <2> QED BY <1>6, <1>7, <1>8, <2>1, MetFour
<1>18. Met(DivEquation(kind, c))
  <2>1. DivEquation(kind, c) = DivSigns(c) \o DivOverflow(c) \o eq \o nonnegative
    BY <1>10, <1>12 DEF DivEquation, SignedDiv
  <2> HIDE DEF eq, nonnegative
  <2> QED BY <1>5, <1>15, <1>16, <1>17, <2>1, MetFour
<1> QED BY <1>2, <1>9, <1>14, <1>18, DivZeroMet DEF DivAsks

LEMMA DivMet ==
    ASSUME NEW s, Recorded(s), IsR(s), s.kind \in DivKinds
    PROVE  Met(DivCircuit(s.kind, DivRow(s)))
<1> DEFINE a == s.op["rs1"].after  b == s.op["rs2"].after  d == s.op["rd"].after
           r == DivRow(s)  c == r.cells
           rd == IF s.kind \in {"DIV", "DIVU"} THEN c.quotient ELSE c.remainder
           cond == ConditionRequireEqual(c.is_divisor_zero.is_zero, ValueOf(c.quotient), WordMax,
                                         ValueOf(c.quotient))
           one == RequireEqual(c.is_divisor_zero.is_zero + c.is_remainder_lt_divisor.is_lt, 1)
           f == UInt(c.quotient) \o UInt(c.remainder) \o DivEquation(s.kind, c)
           f4 == f \o IsZero(ValueOf(c.divisor), c.is_divisor_zero) \o cond \o RemainderLess(s.kind, c)
           g == RInsn(r, s.kind, c.dividend, c.divisor, rd)
<1>1. a \in Words /\ b \in Words BY DEF IsR, ReadsWord
<1>2. Framed(r, s) BY FramedAssign DEF DivRow
<1>3. DivAsks(s.kind, c)
  <2>1. ASSUME s.kind \in {"DIVU", "REMU"} PROVE DivAsks(s.kind, c)
    <3> DEFINE q == Compute("DIVU", a, b)  m == Compute("REMU", a, b)
    <3>1. /\ LimbsOf(c.dividend, a) /\ LimbsOf(c.divisor, b) /\ LimbsOf(c.quotient, q) /\ LimbsOf(c.remainder, m)
          /\ c.is_divisor_zero = AssignIsZero(b) /\ c.is_remainder_lt_divisor = AssignLt(m, b)
      <4>1. ~SignedDiv(s.kind) BY <2>1 DEF SignedDiv
      <4> QED BY <4>1 DEF DivRow, AssignRow, ValueUnchecked, ValueNew, LimbsOf
    <3> HIDE DEF a, b, c
    <3> QED BY <1>1, <2>1, <3>1, DivUnsignedMet
  <2>2. ASSUME s.kind \in {"DIV", "REM"} PROVE DivAsks(s.kind, c)
    <3> DEFINE q == Compute("DIV", a, b)  m == Compute("REM", a, b)
               pos == IF SignedOf(a) < 0 THEN -SignedOf(m) ELSE SignedOf(m)
               overflow == SignedOf(a) = -SignedMin /\ SignedOf(b) = -1
               divisor == IF SignedOf(b) < 0 THEN -SignedOf(b) ELSE b
    <3>1. SignedDiv(s.kind) BY <2>2 DEF SignedDiv
    <3>2. LimbsOf(c.dividend, a) /\ LimbsOf(c.divisor, b) /\ LimbsOf(c.quotient, q) /\ LimbsOf(c.remainder, m)
      BY <3>1 DEF DivRow, AssignRow, ValueUnchecked, ValueNew, LimbsOf
    <3>3. /\ c.dividend_signed = AssignIsNegative(a) /\ c.divisor_signed = AssignIsNegative(b)
          /\ c.quotient_signed = AssignIsNegative(q) /\ c.remainder_signed = AssignIsNegative(m)
      BY <3>1 DEF DivRow, AssignRow
    <3>4. /\ c.is_dividend_signed_min = AssignIsZero(a - SignedMin)
          /\ c.is_divisor_neg_one = AssignIsZero(b - WordMax) /\ c.is_divisor_zero = AssignIsZero(b)
          /\ c.is_signed_overflow.value = Field(BoolWord(overflow))
      BY <3>1 DEF DivRow, AssignRow, Cell
    <3>5. c.remainder_nonnegative = AssignLt(-1, pos) /\ c.is_remainder_lt_divisor = AssignLt(pos, divisor)
      BY <3>1 DEF DivRow, AssignRow
    <3> HIDE DEF a, b, c
    <3> QED BY <1>1, <2>2, <3>2, <3>3, <3>4, <3>5, DivSignedMet
  <2> QED BY <2>1, <2>2 DEF DivKinds
<1>4. DivCircuit(s.kind, r) = f4 \o one \o g BY DEF DivCircuit
<1> HIDE DEF r, c, rd
<1>5. Met(g) BY <1>2, MetRInsn DEF Recorded
<1>6. /\ Met(UInt(c.quotient)) /\ Met(UInt(c.remainder)) /\ Met(DivEquation(s.kind, c))
      /\ Met(IsZero(ValueOf(c.divisor), c.is_divisor_zero)) /\ Met(cond) /\ Met(RemainderLess(s.kind, c)) /\ Met(one)
  BY <1>3 DEF DivAsks
<1>7. Met(f) BY <1>6, MetThree
<1> HIDE DEF f, cond, one, g
<1>8. Met(f4) BY <1>6, <1>7, MetFour
<1> HIDE DEF f4
<1> QED BY <1>4, <1>5, <1>6, <1>8, MetThree DEF r

-----------------------------------------------------------------------------
(***************************************************************************)
(* Shifts: the bits that flow out and in.                                  *)
(***************************************************************************)
LEMMA ShiftPower ==
    ASSUME NEW n \in 0 .. WordBits - 1
    PROVE  \E K \in Nat : K >= 2 /\ 2 ^ n \in Nat \ {0} /\ WordRange = 2 ^ n * K
<1> DEFINE k == WordBits - n
<1>1. WordBits \in Nat /\ WordBits >= 4 /\ n \in Nat /\ k \in Nat /\ k >= 1 /\ n + k = WordBits /\ k - 1 \in 0 .. WordBits - 1
      /\ (k - 1) + 1 = k
  <2>1. WordBits \in Nat /\ WordBits >= 4 BY WidthAssumption
  <2> QED BY <2>1
<1> HIDE DEF k
<1>2. 2 ^ (n + k) = 2 ^ n * 2 ^ k /\ 2 ^ n \in Nat \ {0} BY <1>1, PowerOfSum
<1>3. 2 ^ (k - 1) \in Nat \ {0} /\ 2 ^ ((k - 1) + 1) = 2 * 2 ^ (k - 1) BY <1>1, BitAssumption
<1> DEFINE K == 2 ^ k  h == 2 ^ (k - 1)
<1>4. h \in Nat /\ h >= 1 /\ K = 2 * h BY <1>1, <1>3
<1>5. WordRange = 2 ^ n * K BY <1>1, <1>2 DEF WordRange
<1> HIDE DEF K, h
<1>6. K \in Nat /\ K >= 2 BY <1>4
<1> QED BY <1>2, <1>5, <1>6

LEMMA ShiftsLeft ==
    ASSUME NEW a \in Words, NEW pow \in Nat \ {0}
    PROVE  /\ Wrapped(a * pow) \in Words /\ (a * pow) \div WordRange \in 0 .. pow - 1
           /\ a * pow = ((a * pow) \div WordRange) * WordRange + Wrapped(a * pow)
<1> DEFINE W == WordRange  p == a * pow
<1>1. a \in 0 .. W - 1 /\ W \in Nat /\ W >= 16 BY HalfWord
<1>2. p \in Nat BY <1>1
<1>3. p < pow * W
  <2>1. (W - a) * pow > 0 BY <1>1
  <2>2. (W - a) * pow = pow * W - p BY <1>1
  <2>3. pow * W \in Int BY <1>1
  <2> QED BY <1>2, <2>1, <2>2, <2>3
<1>4. p >= 0 * W BY <1>1, <1>2
<1> HIDE DEF p
<1>5. p < pow * W => p \div W < pow BY <1>2, HighBetween
<1>6. p >= 0 * W => p \div W >= 0 BY <1>2, HighBetween
<1>7. p \div W \in Int /\ Wrapped(p) \in Words /\ p = (p \div W) * W + Wrapped(p) BY <1>2, HighLow
<1> QED BY <1>3, <1>4, <1>5, <1>6, <1>7 DEF p

LEMMA ShiftsRight ==
    ASSUME NEW a \in Words, NEW pow \in Nat \ {0}
    PROVE  a \div pow \in Words /\ a % pow \in 0 .. pow - 1 /\ (a \div pow) * pow + (a % pow) = a
<1>1. a \in 0 .. WordRange - 1 /\ WordRange \in Nat /\ Words = 0 .. WordRange - 1 BY HalfWord
<1>2. a \div pow \in Nat /\ a \div pow <= a BY <1>1, QuotientSmall
<1>3. a % pow \in 0 .. pow - 1 /\ (a \div pow) * pow + (a % pow) = a BY <1>1
<1>4. a \div pow \in Words BY <1>1, <1>2
<1> QED BY <1>3, <1>4

\* A signed shift fills with the sign.
LEMMA ShiftsSigned ==
    ASSUME NEW a \in Words, NEW pow \in Nat \ {0}, NEW K \in Nat, WordRange = pow * K,
           NEW d, d = Wrapped(SignedOf(a) \div pow)
    PROVE  /\ d \in Words
           /\ d * pow + (a % pow) = (IF SignedOf(a) < 0 THEN pow - 1 ELSE 0) * WordRange + a
<1> DEFINE W == WordRange  H == SignedMin  x == SignedOf(a)  q == a \div pow  o == a % pow
<1>1. /\ H \in Nat /\ H >= 8 /\ W = 2 * H /\ W \in Nat /\ Words = 0 .. W - 1
      /\ a \in 0 .. W - 1 /\ x \in -H .. H - 1 /\ (x = a \/ x = a - W)
  BY HalfWord, SignedBounds, SignedRange
<1>2. q \in Words /\ o \in 0 .. pow - 1 /\ q * pow + o = a BY ShiftsRight
<1>3. d = Wrapped(x \div pow) OBVIOUS
<1> HIDE DEF x, q, o
<1>4. q \in Int /\ q >= 0 BY <1>1, <1>2
<1>5. CASE x >= 0
  <2>1. x = a BY <1>1, <1>5
  <2>2. d = q BY <1>2, <1>3, <2>1, LimbsOfWord DEF q
  <2>3. 0 * W + a = a BY <1>1
  <2>4. d \in Words /\ d * pow + o = 0 * W + a /\ ~(x < 0) BY <1>1, <1>2, <1>5, <2>2, <2>3
  <2> QED BY <2>4 DEF x, o
<1>6. CASE x < 0
  <2>1. x = a - W BY <1>1, <1>6
  <2>2. (q - K) * pow = q * pow - W
    <3>1. (q - K) * pow = q * pow - pow * K BY <1>4
    <3> QED BY <3>1
  <2>3. (q - K) * pow + o = x
    <3>1. q * pow \in Int BY <1>4
    <3> QED BY <1>1, <1>2, <2>1, <2>2, <3>1
  <2>4. ((q - K) * pow + o) \div pow = q - K BY <1>2, <1>4, DivisionUnique
  <2>5. x \div pow = q - K BY <2>3, <2>4
  <2>6. q < K
    <3>1. SUFFICES ASSUME q >= K PROVE FALSE BY <1>4
    <3>2. (q - K) * pow >= 0 BY <1>4, <3>1
    <3>3. q * pow \in Int BY <1>4
    <3> QED BY <1>1, <1>2, <2>2, <3>2, <3>3
  <2>7. K <= W /\ W = pow * K
    <3>1. (pow - 1) * K >= 0 /\ (pow - 1) * K = pow * K - K BY <1>1
    <3> QED BY <1>1, <3>1
  <2>8. d = q - K + W
    <3>1. q + (W - K) \in 0 .. W - 1 BY <1>1, <1>4, <2>6, <2>7
    <3>2. ((-1) * W + (q + (W - K))) % W = q + (W - K) BY <1>1, <3>1, DivisionUnique
    <3>3. (-1) * W + (q + (W - K)) = q - K BY <1>1, <1>4
    <3>4. q + (W - K) = (q - K) + W BY <1>1, <1>4
    <3> QED BY <1>3, <2>5, <3>2, <3>3, <3>4 DEF Wrapped
  <2>9. d \in Words BY <1>1, <1>4, <2>6, <2>7, <2>8
  <2>10. d * pow + o = (pow - 1) * W + a
    <3>1. d * pow = (q - K) * pow + W * pow BY <1>1, <1>4, <2>8
    <3>2. (pow - 1) * W = W * pow - W BY <1>1
    <3>3. W * pow \in Int /\ q * pow \in Int BY <1>1, <1>4
    <3> QED BY <1>1, <1>2, <2>2, <3>1, <3>2, <3>3
  <2> QED BY <1>6, <2>9, <2>10 DEF x, o
<1> QED BY <1>1, <1>5, <1>6

\* What the two shift circuits have in common: the word moved n places left or right.
LEMMA MetShift ==
    ASSUME NEW kind \in ShiftKinds, NEW a \in Words, NEW n \in 0 .. WordBits - 1, NEW pow, pow = 2 ^ n,
           NEW d, d = (IF kind = "SLL" THEN Wrapped(a * pow)
                       ELSE IF kind = "SRA" THEN Wrapped(SignedOf(a) \div pow) ELSE a \div pow),
           NEW out, out = Outflow(kind = "SLL", a, pow), NEW u, LimbsOf(u, a), NEW v, LimbsOf(v, d),
           NEW lt, lt.limb = AssignLt(out, pow).limb, NEW neg, kind = "SRA" => neg.msb = AssignIsNegative(a).msb
    PROVE  /\ Met(UInt(v)) /\ Met(AssertLt(out, pow, lt))
           /\ Met(IF kind = "SRA" THEN IsNegative(u, neg) ELSE Nothing)
           /\ Met(ShiftEquation(kind = "SLL", u, pow, out, IF kind = "SRA" THEN neg.msb * (pow - 1) ELSE 0, v))
           /\ Field(out) = out /\ Field(pow) = pow /\ pow \in Int
<1> DEFINE left == kind = "SLL"  arithmetic == kind = "SRA"
<1> DEFINE W == WordRange  inflow == IF arithmetic THEN neg.msb * (pow - 1) ELSE 0
<1>1. W \in Nat /\ W >= 16 /\ a \in 0 .. W - 1 /\ Words = 0 .. W - 1 BY HalfWord
<1>2. PICK K \in Nat : K >= 2 /\ pow \in Nat \ {0} /\ W = pow * K BY ShiftPower
<1>3. pow < W
  <2>1. pow * (K - 1) > 0 /\ pow * (K - 1) = pow * K - pow BY <1>2
  <2> QED BY <1>1, <1>2, <2>1
<1>4. /\ d \in Words /\ out \in 0 .. pow - 1
      /\ left => a * pow = out * W + d
      /\ ~left => d * pow + out = inflow * W + a
  <2>1. ASSUME left
        PROVE  d \in Words /\ out \in 0 .. pow - 1 /\ a * pow = out * W + d
    <3>1. d = Wrapped(a * pow) /\ out = (a * pow) \div W BY <2>1 DEF Outflow
    <3> QED BY <1>2, <3>1, ShiftsLeft
  <2>2. ASSUME ~left, ~arithmetic
        PROVE  d \in Words /\ out \in 0 .. pow - 1 /\ d * pow + out = inflow * W + a
    <3>1. d = a \div pow /\ out = a % pow /\ inflow * W = 0 BY <1>1, <2>2 DEF Outflow
    <3> HIDE DEF inflow
    <3>2. inflow * W + a = a BY <1>1, <3>1
    <3> QED BY <1>2, <3>1, <3>2, ShiftsRight
  <2>3. ASSUME arithmetic
        PROVE  d \in Words /\ out \in 0 .. pow - 1 /\ d * pow + out = inflow * W + a
    <3>1. d = Wrapped(SignedOf(a) \div pow) /\ out = a % pow BY <2>3 DEF Outflow
    <3>2. neg.msb = IF SignedOf(a) < 0 THEN 1 ELSE 0 BY <2>3, MetNegative
    <3>3. inflow = IF SignedOf(a) < 0 THEN pow - 1 ELSE 0
      <4>1. inflow = neg.msb * (pow - 1) BY <2>3
      <4> HIDE DEF inflow
      <4>2. CASE SignedOf(a) < 0 BY <1>2, <3>2, <4>1, <4>2
      <4>3. CASE ~(SignedOf(a) < 0) BY <1>2, <3>2, <4>1, <4>3
      <4> QED BY <4>2, <4>3
    <3> HIDE DEF inflow
    <3>4. d \in Words /\ d * pow + (a % pow) = (IF SignedOf(a) < 0 THEN pow - 1 ELSE 0) * W + a
      BY <1>2, <3>1, ShiftsSigned
    <3>5. a % pow \in 0 .. pow - 1 BY <1>2, ShiftsRight
    <3> QED BY <3>1, <3>3, <3>4, <3>5
  <2> HIDE DEF inflow
  <2>4. CASE left BY <2>1, <2>4
  <2>5. CASE ~left
    <3>1. d \in Words /\ out \in 0 .. pow - 1 /\ d * pow + out = inflow * W + a
      <4>1. CASE arithmetic BY <2>3, <4>1
      <4>2. CASE ~arithmetic BY <2>2, <2>5, <4>2
      <4> QED BY <4>1, <4>2
    <3> QED BY <2>5, <3>1
  <2> QED BY <2>4, <2>5
<1>5. ValueOf(u) = a /\ ValueOf(v) = d BY <1>4, ValueOfLimbs
<1>6. Met(UInt(v)) BY <1>4, MetUInt
<1>7. Met(AssertLt(out, pow, lt))
  <2>1. out \in Int /\ pow \in Int /\ out < pow /\ pow - out < W BY <1>2, <1>3, <1>4
  <2> QED BY <2>1, MetAssertLt
<1>8. Met(IF arithmetic THEN IsNegative(u, neg) ELSE Nothing)
  <2>1. CASE arithmetic
    <3>1. Met(IsNegative(u, neg)) BY <2>1, MetNegative
    <3> QED BY <2>1, <3>1
  <2>2. CASE ~arithmetic BY <2>2, MetNothing
  <2> QED BY <2>1, <2>2
<1> HIDE DEF inflow
<1>9. Met(ShiftEquation(left, u, pow, out, inflow, v))
  <2>1. CASE left
    <3>1. ShiftEquation(left, u, pow, out, inflow, v) = RequireEqual(a * pow, out * W + d)
      BY <1>5, <2>1 DEF ShiftEquation
    <3>2. a * pow \in Int BY <1>1, <1>2
    <3> QED BY <1>4, <2>1, <3>1, <3>2, MetSame
  <2>2. CASE ~left
    <3>1. ShiftEquation(left, u, pow, out, inflow, v) = RequireEqual(d * pow + out, inflow * W + a)
      BY <1>5, <2>2 DEF ShiftEquation
    <3>2. d * pow + out \in Int BY <1>1, <1>2, <1>4
    <3> QED BY <1>4, <2>2, <3>1, <3>2, MetSame
  <2> QED BY <2>1, <2>2
<1>10. Field(out) = out /\ Field(pow) = pow
  <2>1. out \in Words /\ pow \in Words BY <1>1, <1>2, <1>3, <1>4
  <2> QED BY <2>1, WordIsField
<1> QED BY <1>2, <1>6, <1>7, <1>8, <1>9, <1>10 DEF inflow

LEMMA ShiftMet ==
    ASSUME NEW s, Recorded(s), IsR(s), s.kind \in ShiftKinds
    PROVE  Met(ShiftCircuit(s.kind, ShiftRow(s)))
<1> DEFINE a == s.op["rs1"].after  b == s.op["rs2"].after  d == s.op["rd"].after
           r == ShiftRow(s)  c == r.cells  n == b % WordBits  pow == 2 ^ n
           left == s.kind = "SLL"  arithmetic == s.kind = "SRA"  out == Outflow(left, a, pow)
           inflow == IF arithmetic THEN c.is_neg.msb * (c.pow2_rs2_low5.value - 1) ELSE 0
           sign == IF arithmetic THEN IsNegative(c.rs1_read, c.is_neg) ELSE Nothing
           equation == ShiftEquation(left, c.rs1_read, c.pow2_rs2_low5.value, c.outflow.value, inflow, c.rd_written)
           less == AssertLt(c.outflow.value, c.pow2_rs2_low5.value, c.lt)
           look == Lookup(<<"Pow", c.rs2_low5.value, c.pow2_rs2_low5.value>>)
           range == AssertUx(ShiftBits, c.rs2_low5.value)
           split == RequireEqual(ValueOf(c.rs2_read), ValueOf(c.rs2_high) * WordBits + c.rs2_low5.value)
           f == UInt(c.rd_written) \o UInt(c.rs2_high) \o less \o sign
           h == f \o equation \o look \o range
           g == RInsn(r, s.kind, c.rs1_read, c.rs2_read, c.rd_written)
<1>1. a \in Words /\ b \in Words /\ d = Compute(s.kind, a, b) BY DEF IsR, ReadsWord
<1>2. Framed(r, s) BY FramedAssign DEF ShiftRow
<1>3. /\ LimbsOf(c.rs1_read, a) /\ LimbsOf(c.rs2_read, b) /\ LimbsOf(c.rd_written, d)
      /\ LimbsOf(c.rs2_high, (b - n) \div WordBits)
  BY DEF ShiftRow, AssignRow, ValueUnchecked, ValueNew, LimbsOf
<1>4. c.rs2_low5.value = n /\ c.pow2_rs2_low5.value = pow /\ c.outflow.value = Field(out)
      /\ c.lt = AssignLt(out, pow) /\ (arithmetic => c.is_neg = AssignIsNegative(a))
  BY DEF ShiftRow, AssignRow, Cell
<1>5. ShiftCircuit(s.kind, r) = h \o split \o g BY DEF ShiftCircuit
<1> HIDE DEF r, c
<1>6. Met(g) BY <1>2, MetRInsn DEF Recorded
<1>7. d = (IF left THEN Wrapped(a * pow) ELSE IF arithmetic THEN Wrapped(SignedOf(a) \div pow) ELSE a \div pow)
  <2>1. CASE s.kind = "SLL" BY <1>1, <2>1 DEF Compute
  <2>2. CASE s.kind = "SRL" BY <1>1, <2>2 DEF Compute
  <2>3. CASE s.kind = "SRA" BY <1>1, <2>3 DEF Compute
  <2> QED BY <2>1, <2>2, <2>3 DEF ShiftKinds
<1> HIDE DEF a, b, d
<1> DEFINE k == (b - n) \div WordBits
<1>8. n \in 0 .. WordBits - 1 /\ k \in Words /\ b = k * WordBits + n /\ n \in Words /\ n \in Int
  <2>1. WordBits \in Nat \ {0} /\ b \in Nat /\ b \in 0 .. WordRange - 1 /\ Words = 0 .. WordRange - 1 /\ WordRange \in Nat
    BY <1>1, WidthAssumption, HalfWord
  <2> DEFINE t == b \div WordBits
  <2>2. t \in Nat /\ t <= b BY <2>1, QuotientSmall
  <2>3. n \in 0 .. WordBits - 1 /\ b = t * WordBits + n BY <2>1
  <2> HIDE DEF n, t
  <2>4. t * WordBits \in Nat BY <2>1, <2>2
  <2>5. (t * WordBits + 0) \div WordBits = t BY <2>1, <2>2, DivisionUnique
  <2>6. b - n = t * WordBits + 0 BY <2>1, <2>3, <2>4
  <2>7. k = t BY <2>5, <2>6
  <2>8. n \in Words /\ n \in Int BY <2>1, <2>3, <2>4
  <2> QED BY <2>1, <2>2, <2>3, <2>7, <2>8
<1>9. Field(n) = n BY <1>8, WordIsField
<1>10. LimbsOf(c.rs2_high, k) BY <1>3
<1> HIDE DEF k, n
<1>11. Met(UInt(c.rs2_high)) /\ ValueOf(c.rs2_high) = k /\ ValueOf(c.rs2_read) = b
  BY <1>1, <1>3, <1>8, <1>10, MetUInt, ValueOfLimbs
<1>12. Met(split)
  <2>1. b \in Int BY <1>1, WordIsField
  <2> QED BY <1>4, <1>8, <1>11, <2>1, MetSame
<1>13. Met(look)
  <2>1. InTable(<<"Pow", n, pow>>) BY <1>8 DEF InTable
  <2> QED BY <1>4, <2>1, MetLookup
<1>14. Met(range)
  <2>1. Field(n) < 2 ^ ShiftBits BY <1>8, <1>9, WidthAssumption
  <2> QED BY <1>4, <2>1, MetUx
<1>15. Met(UInt(c.rd_written)) /\ Met(less) /\ Met(sign) /\ Met(equation)
  <2> DEFINE neg == c.is_neg  lt == c.lt  u == c.rs1_read  v == c.rd_written
  <2>1. s.kind = "SRA" => neg.msb = AssignIsNegative(a).msb BY <1>4
  <2>2. lt.limb = AssignLt(out, pow).limb /\ pow = 2 ^ n /\ out = Outflow(s.kind = "SLL", a, pow) BY <1>4
  <2>3. d = (IF s.kind = "SLL" THEN Wrapped(a * pow)
             ELSE IF s.kind = "SRA" THEN Wrapped(SignedOf(a) \div pow) ELSE a \div pow)
    BY <1>7
  <2>4. LimbsOf(u, a) /\ LimbsOf(v, d) BY <1>3
  <2> HIDE DEF out, pow, neg, lt, u, v
  <2>5. /\ Met(UInt(v)) /\ Met(AssertLt(out, pow, lt))
        /\ Met(IF s.kind = "SRA" THEN IsNegative(u, neg) ELSE Nothing)
        /\ Met(ShiftEquation(s.kind = "SLL", u, pow, out, IF s.kind = "SRA" THEN neg.msb * (pow - 1) ELSE 0, v))
        /\ Field(out) = out
    BY <1>1, <1>8, <2>1, <2>2, <2>3, <2>4, MetShift
  <2>6. c.outflow.value = out BY <1>4, <2>5
  <2> QED BY <1>4, <2>5, <2>6 DEF neg, lt, u, v
<1> HIDE DEF less, sign, equation, look, range, split, g
<1>16. Met(f) BY <1>11, <1>15, MetFour
<1> HIDE DEF f
<1>17. Met(h) BY <1>13, <1>14, <1>15, <1>16, MetFour
<1> HIDE DEF h
<1> QED BY <1>5, <1>6, <1>12, <1>17, MetThree DEF r

LEMMA ShiftImmMet ==
    ASSUME NEW s, Recorded(s), IsI(s), s.kind \in ShiftImmKinds
    PROVE  Met(ShiftImmCircuit(s.kind, ShiftImmRow(s)))
<1> DEFINE a == s.op["rs1"].after  d == s.op["rd"].after  n == s.insn.imm  pow == 2 ^ n
           kind == IF s.kind = "SLLI" THEN "SLL" ELSE IF s.kind = "SRAI" THEN "SRA" ELSE "SRL"
           r == ShiftImmRow(s)  c == r.cells  next == r.pc + PC_STEP_SIZE
           left == s.kind = "SLLI"  arithmetic == s.kind = "SRAI"  out == Outflow(left, a, pow)
           inflow == IF arithmetic THEN c.is_neg.msb * (c.imm.value - 1) ELSE 0
           sign == IF arithmetic THEN IsNegative(c.rs1_read, c.is_neg) ELSE Nothing
           equation == ShiftEquation(left, c.rs1_read, c.imm.value, c.outflow.value, inflow, c.rd_written)
           less == AssertLt(c.outflow.value, c.imm.value, c.lt)
           f == UInt(c.rd_written) \o less \o sign \o equation
           g == IInsn(r, s.kind, c.imm.value, c.rs1_read, c.rd_written, next)
<1>1. /\ a \in Words /\ d = Compute(s.kind, a, Wrapped(n)) /\ n \in Imms /\ n \in 0 .. WordBits - 1
      /\ s.insn.kind = s.kind
  BY DEF IsI, ReadsWord, Completes
<1>2. Framed(r, s) BY FramedAssign DEF ShiftImmRow
<1>3. ImmInternal(s.insn) = pow BY <1>1 DEF ImmInternal
<1>4. LimbsOf(c.rs1_read, a) /\ LimbsOf(c.rd_written, d)
  BY DEF ShiftImmRow, AssignRow, ValueUnchecked, ValueNew, LimbsOf
<1>5. c.imm.value = Field(pow) /\ c.outflow.value = Field(out) /\ c.lt = AssignLt(out, pow)
      /\ (arithmetic => c.is_neg = AssignIsNegative(a))
  BY <1>3 DEF ShiftImmRow, AssignRow, Cell
<1>6. ShiftImmCircuit(s.kind, r) = f \o g BY DEF ShiftImmCircuit
<1> HIDE DEF r, c, next
<1>7. Wrapped(n) % WordBits = n
  <2>1. n \in 0 .. WordRange - 1 /\ WordRange \in Nat
    <3>1. n \in Int /\ 2 * n < WordRange /\ WordRange \in Nat BY <1>1, ImmRange, HalfWord
    <3>2. n >= 0 BY <1>1
    <3> QED BY <3>1, <3>2
  <2>2. Wrapped(n) = n BY <2>1, Remains DEF Wrapped
  <2>3. n % WordBits = n BY <1>1, WidthAssumption, Remains
  <2> QED BY <2>2, <2>3
<1>8. /\ kind \in ShiftKinds /\ (kind = "SLL" <=> left) /\ (kind = "SRA" <=> arithmetic)
      /\ d = (IF kind = "SLL" THEN Wrapped(a * pow)
              ELSE IF kind = "SRA" THEN Wrapped(SignedOf(a) \div pow) ELSE a \div pow)
  <2>1. CASE s.kind = "SLLI" BY <1>1, <1>7, <2>1 DEF Compute, ShiftKinds
  <2>2. CASE s.kind = "SRLI" BY <1>1, <1>7, <2>2 DEF Compute, ShiftKinds
  <2>3. CASE s.kind = "SRAI" BY <1>1, <1>7, <2>3 DEF Compute, ShiftKinds
  <2> QED BY <2>1, <2>2, <2>3 DEF ShiftImmKinds
<1> HIDE DEF a, d, n, kind
<1>9. Met(UInt(c.rd_written)) /\ Met(less) /\ Met(sign) /\ Met(equation) /\ c.imm.value = pow /\ pow \in Int
  <2> DEFINE neg == c.is_neg  lt == c.lt  u == c.rs1_read  v == c.rd_written
  <2>1. kind = "SRA" => neg.msb = AssignIsNegative(a).msb BY <1>5, <1>8
  <2>2. lt.limb = AssignLt(out, pow).limb /\ pow = 2 ^ n BY <1>5
  <2>3. out = Outflow(kind = "SLL", a, pow) BY <1>8 DEF Outflow
  <2>4. LimbsOf(u, a) /\ LimbsOf(v, d) BY <1>4
  <2> HIDE DEF out, pow, neg, lt, u, v
  <2>5. /\ Met(UInt(v)) /\ Met(AssertLt(out, pow, lt))
        /\ Met(IF kind = "SRA" THEN IsNegative(u, neg) ELSE Nothing)
        /\ Met(ShiftEquation(kind = "SLL", u, pow, out, IF kind = "SRA" THEN neg.msb * (pow - 1) ELSE 0, v))
        /\ Field(out) = out /\ Field(pow) = pow /\ pow \in Int
    BY <1>1, <1>8, <2>1, <2>2, <2>3, <2>4, MetShift
  <2>6. c.outflow.value = out /\ c.imm.value = pow BY <1>5, <2>5
  <2>7. (kind = "SLL") = left /\ (kind = "SRA") = arithmetic BY <1>8
  <2>8. ShiftEquation(kind = "SLL", u, pow, out, IF kind = "SRA" THEN neg.msb * (pow - 1) ELSE 0, v)
          = ShiftEquation(left, u, pow, out, IF arithmetic THEN neg.msb * (pow - 1) ELSE 0, v)
    BY <1>8 DEF ShiftEquation
  <2>9. (IF kind = "SRA" THEN IsNegative(u, neg) ELSE Nothing) = (IF arithmetic THEN IsNegative(u, neg) ELSE Nothing)
    BY <1>8
  <2> QED BY <2>5, <2>6, <2>8, <2>9 DEF neg, lt, u, v
<1>10. Met(g)
  <2>1. Field(c.imm.value) = Field(ImmInternal(s.insn)) BY <1>3, <1>9
  <2> QED BY <1>2, <2>1, MetIInsn DEF Recorded
<1> HIDE DEF less, sign, equation, g
<1>11. Met(f) BY <1>9, MetFour
<1> QED BY <1>6, <1>10, <1>11, MetJoin DEF r

-----------------------------------------------------------------------------
(***************************************************************************)
(* The circuit of the row, whichever it is.                                *)
(***************************************************************************)
LEMMA OpcodeMet ==
    ASSUME NEW s, Recorded(s), IsOrdinary(s) \/ IsHalt(s)
    PROVE  Met(CircuitOf(s.kind, RowOf(s)))
<1> DEFINE k == s.kind  m == Met(CircuitOf(k, RowOf(s)))
<1>1. /\ k \in RKinds => IsR(s)
      /\ k \in IKinds => IsI(s)
      /\ k \in BranchKinds => IsBranch(s)
      /\ k \in LoadKinds => IsLoad(s)
      /\ k \in StoreKinds => IsStore(s)
      /\ k = "JAL" => IsJal(s)
      /\ k = "JALR" => IsJalr(s)
      /\ k = "ECALL" => IsHalt(s)
      /\ k \in OpcodeKinds \/ k = "ECALL"
  BY DEF IsOrdinary, IsR, IsI, IsBranch, IsLoad, IsStore, IsJal, IsJalr, IsHalt, Completes, RKinds, IKinds,
         OpcodeKinds
<1>2. CircuitOf(k, RowOf(s)) = Circuit(k, RowOf(s))
  <2>1. RowOf(s).circuit = k BY <1>1, OpcodeRow
  <2>2. k \notin {"DUMMY", "LARGE"} BY <1>1 DEF OpcodeKinds, RKinds, IKinds
  <2> QED BY <2>1, <2>2 DEF CircuitOf
<1>3. k \in ArithKinds => m BY <1>1, <1>2, ArithMet DEF RowOf, Circuit, RKinds
<1>4. k \in ArithImmKinds => m BY <1>1, <1>2, ArithImmMet DEF RowOf, Circuit, IKinds
<1>5. k \in MulKinds => m BY <1>1, <1>2, MulMet DEF RowOf, Circuit, RKinds
<1>6. k \in DivKinds => m BY <1>1, <1>2, DivMet DEF RowOf, Circuit, RKinds
<1>7. k \in ShiftKinds => m BY <1>1, <1>2, ShiftMet DEF RowOf, Circuit, RKinds
<1>8. k \in ShiftImmKinds => m BY <1>1, <1>2, ShiftImmMet DEF RowOf, Circuit, IKinds
<1>9. k \in SltKinds => m BY <1>1, <1>2, SltMet DEF RowOf, Circuit, RKinds
<1>10. k \in SltImmKinds => m BY <1>1, <1>2, SltImmMet DEF RowOf, Circuit, IKinds
<1>11. k \in LogicKinds => m BY <1>1, <1>2, LogicMet DEF RowOf, Circuit, RKinds
<1>12. k \in LogicImmKinds => m BY <1>1, <1>2, LogicImmMet DEF RowOf, Circuit, IKinds
<1>13. k \in BranchKinds => m BY <1>1, <1>2, BranchMet DEF RowOf, Circuit
<1>14. k \in LoadKinds => m BY <1>1, <1>2, LoadMet DEF RowOf, Circuit
<1>15. k \in StoreKinds => m BY <1>1, <1>2, StoreMet DEF RowOf, Circuit
<1>16. k = "JAL" => m BY <1>1, <1>2, JalMet DEF RowOf, Circuit
<1>17. k = "JALR" => m BY <1>1, <1>2, JalrMet DEF RowOf, Circuit
<1>18. k = "ECALL" => m BY <1>1, <1>2, HaltMet DEF RowOf, Circuit
<1> HIDE DEF m
<1>19. m
  BY <1>1, <1>3, <1>4, <1>5, <1>6, <1>7, <1>8, <1>9, <1>10, <1>11, <1>12, <1>13, <1>14, <1>15, <1>16, <1>17,
     <1>18 DEF OpcodeKinds, RKinds, IKinds
<1> QED BY <1>19 DEF m

LEMMA FittingRowMet ==
    ASSUME NEW s, NEW r, Recorded(s), RowFits(s, r)
    PROVE  Met(CircuitOf(s.kind, r))
<1>1. CASE (IsOrdinary(s) \/ IsHalt(s)) /\ r = RowOf(s) BY <1>1, OpcodeMet
<1>2. CASE (IsOrdinary(s) \/ IsUnknownEcall(s)) /\ r = DummyRow(s)
  <2>1. Met(DummyCircuit(s.kind, r)) BY <1>2, DummyMet
  <2>2. r.circuit = "DUMMY" BY <1>2, RowElsewhere DEF DummyRow, Elsewhere
  <2> QED BY <2>1, <2>2 DEF CircuitOf
<1>3. CASE IsSyscall(s) /\ r = LargeEcallRow(s)
  <2>1. Met(LargeEcallCircuit(r)) BY <1>3, LargeEcallMet
  <2>2. r.circuit = "LARGE"
    <3> DEFINE word(o) == [addr |-> 4 * s.op[o].id, before |-> s.op[o].before, after |-> s.op[o].after, lk |-> <<>>]
               cells == [rs1_read |-> ValueUnchecked(s.op.rs1.after), imm |-> Cell(ImmInternal(s.insn)),
                         start_addr |-> Cell(4 * s.op.mem1.id),
                         reg1 |-> ValueUnchecked(s.op.reg1.after), reg2 |-> ValueUnchecked(s.op.reg2.after),
                         mem1 |-> word("mem1"), mem2 |-> word("mem2")]
    <3>1. r = Elsewhere(s, cells, "LARGE") BY <1>3 DEF LargeEcallRow, Elsewhere
    <3> HIDE DEF cells
    <3> QED BY <3>1, RowElsewhere
  <2> QED BY <2>1, <2>2 DEF CircuitOf
<1> QED BY <1>1, <1>2, <1>3 DEF RowFits

-----------------------------------------------------------------------------
(***************************************************************************)
(* The invariant.  Every operation of a step comes at its subcycle, after  *)
(* the last access to its register or word, in the step or before it.      *)
(***************************************************************************)
StepInv == step = NoStep \/ (Encodes(step) /\ Timely(step))

LEMMA PreviousIsEarlier ==
    ASSUME NEW ops, DOMAIN ops \subseteq DOMAIN Sub, NEW last \in Lasts, NEW o \in DOMAIN ops
    PROVE  PreviousCycle(ops, o, last) \in 0 .. Cycle + Sub[o] - 1
<1> DEFINE earlier == {Sub[p] : p \in {q \in DOMAIN ops :
                         q \notin MemoryOps /\ o \notin MemoryOps /\ Sub[q] < Sub[o] /\ ops[q].id = ops[o].id}}
<1>1. Cycle \in Nat /\ last \in 0 .. Cycle - 1 BY StepAssumption
<1>2. \A p \in DOMAIN Sub : Sub[p] \in 0 .. 3 BY DEF Sub
<1>3. Sub[o] \in 0 .. 3 BY <1>2
<1>4. \A t \in earlier : t \in 0 .. 2 /\ t < Sub[o] BY <1>2, <1>3
<1>5. PreviousCycle(ops, o, last)
        = IF earlier = {} THEN last ELSE Cycle + (CHOOSE s \in earlier : \A t \in earlier : t <= s)
  BY DEF PreviousCycle
<1> HIDE DEF earlier
<1>6. CASE earlier = {}
  <2>1. PreviousCycle(ops, o, last) = last BY <1>5, <1>6
  <2> QED BY <1>1, <1>3, <2>1
<1>7. CASE earlier # {}
  <2> DEFINE top == CHOOSE s \in earlier : \A t \in earlier : t <= s
  <2>1. \E s \in earlier : \A t \in earlier : t <= s
    <3>1. CASE 2 \in earlier BY <1>4, <3>1
    <3>2. CASE 2 \notin earlier /\ 1 \in earlier BY <1>4, <3>2
    <3>3. CASE 2 \notin earlier /\ 1 \notin earlier BY <1>4, <1>7, <3>3
    <3> QED BY <3>1, <3>2, <3>3
  <2>2. top \in earlier BY <2>1
  <2>3. PreviousCycle(ops, o, last) = Cycle + top BY <1>5, <1>7
  <2> HIDE DEF top
  <2>4. top \in 0 .. 2 /\ top < Sub[o] BY <1>4, <2>2
  <2> QED BY <1>1, <1>3, <2>3, <2>4
<1> QED BY <1>6, <1>7

LEMMA StepIsTimely ==
    ASSUME NEW insn, NEW pc, NEW next, NEW ops, DOMAIN ops \subseteq DOMAIN Sub, NEW last \in Lasts,
           NEW s, s = StepOf(insn, pc, next, ops, last)
    PROVE  Timely(s)
<1> DEFINE Kept(o) == [id |-> ops[o].id, before |-> ops[o].before, after |-> ops[o].after,
                       prev |-> PreviousCycle(ops, o, last)]
<1>1. s.op = [o \in DOMAIN ops |-> Kept(o)] BY DEF StepOf
<1>2. \A o : Kept(o).prev = PreviousCycle(ops, o, last) OBVIOUS
<1> HIDE DEF Kept
<1>3. DOMAIN s.op = DOMAIN ops /\ \A o \in DOMAIN ops : s.op[o].prev = PreviousCycle(ops, o, last)
  BY <1>1, <1>2
<1> QED BY <1>3, PreviousIsEarlier DEF Timely

\* The operands of an instruction are those the operations of the step have:
\* no operation on rs1, rs2 or rd, no register in the encoding.
LEMMA StepEncodes ==
    ASSUME NEW insn, NEW pc, NEW next, NEW ops, NEW last, NEW s, s = StepOf(insn, pc, next, ops, last),
           insn.rs1 = IF insn.kind # "ECALL" /\ "rs1" \in DOMAIN ops THEN ops["rs1"].id ELSE 0,
           insn.rs2 = IF insn.kind # "ECALL" /\ "rs2" \in DOMAIN ops THEN ops["rs2"].id ELSE 0,
           insn.kind # "ECALL" /\ "rd" \in DOMAIN ops => ops["rd"].id = RdInternal(insn.rd),
           insn.kind \in RKinds \union {"ECALL"} => insn.imm = 0
    PROVE  Encodes(s)
<1>1. /\ s.kind = insn.kind /\ s.insn = insn /\ DOMAIN s.op = DOMAIN ops
      /\ \A o \in DOMAIN ops : s.op[o].id = ops[o].id
  BY StepIs
<1> QED BY <1>1 DEF Encodes

LEMMA ExecuteKeeps ==
    ASSUME NEW insn, NEW pc, NEW next, NEW ops, DOMAIN ops \subseteq DOMAIN Sub, Execute(insn, pc, next, ops),
           insn.rs1 = IF insn.kind # "ECALL" /\ "rs1" \in DOMAIN ops THEN ops["rs1"].id ELSE 0,
           insn.rs2 = IF insn.kind # "ECALL" /\ "rs2" \in DOMAIN ops THEN ops["rs2"].id ELSE 0,
           insn.kind # "ECALL" /\ "rd" \in DOMAIN ops => ops["rd"].id = RdInternal(insn.rd),
           insn.kind \in RKinds \union {"ECALL"} => insn.imm = 0
    PROVE  Encodes(step') /\ Timely(step')
<1>1. PICK last \in Lasts : step' = StepOf(insn, pc, next, ops, last) BY DEF Execute
<1>2. \A s : s = StepOf(insn, pc, next, ops, last) => Encodes(s) /\ Timely(s)
  <2> SUFFICES ASSUME NEW s, s = StepOf(insn, pc, next, ops, last) PROVE Encodes(s) /\ Timely(s) OBVIOUS
  <2>1. Encodes(s) BY StepEncodes
  <2>2. Timely(s) BY StepIsTimely
  <2> QED BY <2>1, <2>2
<1> QED BY <1>1, <1>2

LEMMA KeptR == ASSUME ExecuteR PROVE Encodes(step') /\ Timely(step')
<1>1. PICK kind \in RKinds, regs \in RegisterTriples, a \in Operands, b \in Operands, old \in Previous, pc \in Pcs :
         Execute(Insn(kind, regs[3], regs[1], regs[2], 0), pc, pc + PC_STEP_SIZE,
                 [rs1 |-> ReadOp(regs[1], a), rs2 |-> ReadOp(regs[2], b),
                  rd |-> Op(RdInternal(regs[3]), IF regs[3] = regs[1] THEN a ELSE old, Compute(kind, a, b))])
  BY DEF ExecuteR
<1> DEFINE insn == Insn(kind, regs[3], regs[1], regs[2], 0)
           ops == [rs1 |-> ReadOp(regs[1], a), rs2 |-> ReadOp(regs[2], b),
                  rd |-> Op(RdInternal(regs[3]), IF regs[3] = regs[1] THEN a ELSE old, Compute(kind, a, b))]
<1>2. /\ DOMAIN ops = {"rs1", "rs2", "rd"}
      /\ ops["rs1"].id = regs[1] /\ ops["rs2"].id = regs[2] /\ ops["rd"].id = RdInternal(regs[3])
  BY DEF ReadOp, Op
<1>3. insn.kind = kind /\ insn.rd = regs[3] /\ insn.rs1 = regs[1] /\ insn.rs2 = regs[2] /\ insn.imm = 0 BY DEF Insn
<1>4. DOMAIN ops \subseteq DOMAIN Sub BY <1>2 DEF Sub
<1>5. Execute(insn, pc, pc + PC_STEP_SIZE, ops) BY <1>1
<1> HIDE DEF insn, ops
<1> QED BY <1>2, <1>3, <1>4, <1>5, ExecuteKeeps DEF RKinds

LEMMA KeptI == ASSUME ExecuteI PROVE Encodes(step') /\ Timely(step')
<1>1. PICK kind \in IKinds, rd \in {0, 1, 3}, a \in Operands, imm \in Imms, old \in Previous, pc \in Pcs :
         Execute(Insn(kind, rd, 1, 0, imm), pc, pc + PC_STEP_SIZE,
                 [rs1 |-> ReadOp(1, a),
                  rd |-> Op(RdInternal(rd), IF rd = 1 THEN a ELSE old, Compute(kind, a, Wrapped(imm)))])
  BY DEF ExecuteI
<1> DEFINE insn == Insn(kind, rd, 1, 0, imm)
           ops == [rs1 |-> ReadOp(1, a),
                  rd |-> Op(RdInternal(rd), IF rd = 1 THEN a ELSE old, Compute(kind, a, Wrapped(imm)))]
<1>2. /\ DOMAIN ops = {"rs1", "rd"}
      /\ ops["rs1"].id = 1 /\ ops["rd"].id = RdInternal(rd)
  BY DEF ReadOp, Op
<1>3. insn.kind = kind /\ insn.rd = rd /\ insn.rs1 = 1 /\ insn.rs2 = 0 /\ insn.imm = imm BY DEF Insn
<1>4. DOMAIN ops \subseteq DOMAIN Sub BY <1>2 DEF Sub
<1>5. Execute(insn, pc, pc + PC_STEP_SIZE, ops) BY <1>1
<1> HIDE DEF insn, ops
<1> QED BY <1>2, <1>3, <1>4, <1>5, ExecuteKeeps DEF RKinds, IKinds

LEMMA KeptBranch == ASSUME ExecuteBranch PROVE Encodes(step') /\ Timely(step')
<1>1. PICK kind \in BranchKinds, rs2 \in {1, 2}, a \in Operands, b \in Operands, imm \in Imms, pc \in Pcs :
         Execute(Insn(kind, 0, 1, rs2, imm), pc, pc + IF Taken(kind, a, b) THEN imm ELSE PC_STEP_SIZE,
                 [rs1 |-> ReadOp(1, a), rs2 |-> ReadOp(rs2, b)])
  BY DEF ExecuteBranch
<1> DEFINE insn == Insn(kind, 0, 1, rs2, imm)
           ops == [rs1 |-> ReadOp(1, a), rs2 |-> ReadOp(rs2, b)]
<1>2. /\ DOMAIN ops = {"rs1", "rs2"}
      /\ ops["rs1"].id = 1 /\ ops["rs2"].id = rs2
  BY DEF ReadOp, Op
<1>3. insn.kind = kind /\ insn.rd = 0 /\ insn.rs1 = 1 /\ insn.rs2 = rs2 /\ insn.imm = imm BY DEF Insn
<1>4. DOMAIN ops \subseteq DOMAIN Sub BY <1>2 DEF Sub
<1>5. Execute(insn, pc, pc + IF Taken(kind, a, b) THEN imm ELSE PC_STEP_SIZE, ops) BY <1>1
<1> HIDE DEF insn, ops
<1> QED BY <1>2, <1>3, <1>4, <1>5, ExecuteKeeps DEF RKinds

LEMMA KeptJal == ASSUME ExecuteJal PROVE Encodes(step') /\ Timely(step')
<1>1. PICK rd \in {0, 3}, old \in Previous, imm \in Imms, pc \in Pcs :
         Execute(Insn("JAL", rd, 0, 0, imm), pc, pc + imm,
                 [rd |-> Op(RdInternal(rd), old, pc + PC_STEP_SIZE)])
  BY DEF ExecuteJal
<1> DEFINE insn == Insn("JAL", rd, 0, 0, imm)
           ops == [rd |-> Op(RdInternal(rd), old, pc + PC_STEP_SIZE)]
<1>2. /\ DOMAIN ops = {"rd"}
      /\ ops["rd"].id = RdInternal(rd)
  BY DEF ReadOp, Op
<1>3. insn.kind = "JAL" /\ insn.rd = rd /\ insn.rs1 = 0 /\ insn.rs2 = 0 /\ insn.imm = imm BY DEF Insn
<1>4. DOMAIN ops \subseteq DOMAIN Sub BY <1>2 DEF Sub
<1>5. Execute(insn, pc, pc + imm, ops) BY <1>1
<1> HIDE DEF insn, ops
<1> QED BY <1>2, <1>3, <1>4, <1>5, ExecuteKeeps DEF RKinds

LEMMA KeptJalr == ASSUME ExecuteJalr PROVE Encodes(step') /\ Timely(step')
<1>1. PICK rd \in {0, 1, 3}, a \in Operands, old \in Previous, imm \in Imms, pc \in Pcs :
         Execute(Insn("JALR", rd, 1, 0, imm), pc, a + imm - ((a + imm) % 2),
                 [rs1 |-> ReadOp(1, a),
                  rd |-> Op(RdInternal(rd), IF rd = 1 THEN a ELSE old, pc + PC_STEP_SIZE)])
  BY DEF ExecuteJalr
<1> DEFINE insn == Insn("JALR", rd, 1, 0, imm)
           ops == [rs1 |-> ReadOp(1, a),
                  rd |-> Op(RdInternal(rd), IF rd = 1 THEN a ELSE old, pc + PC_STEP_SIZE)]
<1>2. /\ DOMAIN ops = {"rs1", "rd"}
      /\ ops["rs1"].id = 1 /\ ops["rd"].id = RdInternal(rd)
  BY DEF ReadOp, Op
<1>3. insn.kind = "JALR" /\ insn.rd = rd /\ insn.rs1 = 1 /\ insn.rs2 = 0 /\ insn.imm = imm BY DEF Insn
<1>4. DOMAIN ops \subseteq DOMAIN Sub BY <1>2 DEF Sub
<1>5. Execute(insn, pc, a + imm - ((a + imm) % 2), ops) BY <1>1
<1> HIDE DEF insn, ops
<1> QED BY <1>2, <1>3, <1>4, <1>5, ExecuteKeeps DEF RKinds

LEMMA KeptLoad == ASSUME ExecuteLoad PROVE Encodes(step') /\ Timely(step')
<1>1. PICK kind \in LoadKinds, rd \in {0, 1, 3}, base \in Bases, word \in Operands, old \in Previous,
           imm \in Imms, pc \in Pcs :
         Execute(Insn(kind, rd, 1, 0, imm), pc, pc + PC_STEP_SIZE,
                 [rs1 |-> ReadOp(1, base), mem |-> ReadOp((base + imm) \div 4, word),
                  rd |-> Op(RdInternal(rd), IF rd = 1 THEN base ELSE old, Loaded(kind, base + imm, word))])
  BY DEF ExecuteLoad
<1> DEFINE insn == Insn(kind, rd, 1, 0, imm)
           ops == [rs1 |-> ReadOp(1, base), mem |-> ReadOp((base + imm) \div 4, word),
                  rd |-> Op(RdInternal(rd), IF rd = 1 THEN base ELSE old, Loaded(kind, base + imm, word))]
<1>2. /\ DOMAIN ops = {"rs1", "mem", "rd"}
      /\ ops["rs1"].id = 1 /\ ops["rd"].id = RdInternal(rd)
  BY DEF ReadOp, Op
<1>3. insn.kind = kind /\ insn.rd = rd /\ insn.rs1 = 1 /\ insn.rs2 = 0 /\ insn.imm = imm BY DEF Insn
<1>4. DOMAIN ops \subseteq DOMAIN Sub BY <1>2 DEF Sub
<1>5. Execute(insn, pc, pc + PC_STEP_SIZE, ops) BY <1>1
<1> HIDE DEF insn, ops
<1> QED BY <1>2, <1>3, <1>4, <1>5, ExecuteKeeps DEF RKinds

LEMMA KeptStore == ASSUME ExecuteStore PROVE Encodes(step') /\ Timely(step')
<1>1. PICK kind \in StoreKinds, rs2 \in {1, 2}, base \in Bases, word \in Operands, v \in Operands, imm \in Imms,
           pc \in Pcs :
         Execute(Insn(kind, 0, 1, rs2, imm), pc, pc + PC_STEP_SIZE,
                 [rs1 |-> ReadOp(1, base), rs2 |-> ReadOp(rs2, v),
                  mem |-> Op((base + imm) \div 4, word, Stored(kind, base + imm, word, v))])
  BY DEF ExecuteStore
<1> DEFINE insn == Insn(kind, 0, 1, rs2, imm)
           ops == [rs1 |-> ReadOp(1, base), rs2 |-> ReadOp(rs2, v),
                  mem |-> Op((base + imm) \div 4, word, Stored(kind, base + imm, word, v))]
<1>2. /\ DOMAIN ops = {"rs1", "rs2", "mem"}
      /\ ops["rs1"].id = 1 /\ ops["rs2"].id = rs2
  BY DEF ReadOp, Op
<1>3. insn.kind = kind /\ insn.rd = 0 /\ insn.rs1 = 1 /\ insn.rs2 = rs2 /\ insn.imm = imm BY DEF Insn
<1>4. DOMAIN ops \subseteq DOMAIN Sub BY <1>2 DEF Sub
<1>5. Execute(insn, pc, pc + PC_STEP_SIZE, ops) BY <1>1
<1> HIDE DEF insn, ops
<1> QED BY <1>2, <1>3, <1>4, <1>5, ExecuteKeeps DEF RKinds

LEMMA KeptHalt == ASSUME ExecuteHalt PROVE Encodes(step') /\ Timely(step')
<1>1. PICK exit \in Operands, pc \in Pcs :
         Execute(Ecall, pc, EXIT_PC,
                 [rs1 |-> ReadOp(RegEcall, HaltCode), rs2 |-> ReadOp(RegArg0, exit)])
  BY DEF ExecuteHalt
<1> DEFINE ops == [rs1 |-> ReadOp(RegEcall, HaltCode), rs2 |-> ReadOp(RegArg0, exit)]
<1>2. DOMAIN ops = {"rs1", "rs2"} OBVIOUS
<1>3. Ecall.kind = "ECALL" /\ Ecall.rd = 0 /\ Ecall.rs1 = 0 /\ Ecall.rs2 = 0 /\ Ecall.imm = 0 BY DEF Insn, Ecall
<1>4. DOMAIN ops \subseteq DOMAIN Sub BY <1>2 DEF Sub
<1>5. Execute(Ecall, pc, EXIT_PC, ops) BY <1>1
<1> HIDE DEF ops
<1> QED BY <1>3, <1>4, <1>5, ExecuteKeeps

LEMMA KeptSyscall == ASSUME ExecuteSyscall PROVE Encodes(step') /\ Timely(step')
<1>1. PICK args \in Previous \X Previous, before \in Previous \X Previous, after \in Previous \X Previous,
           addr \in {0, 2}, pc \in Pcs :
         Execute(Ecall, pc, pc + PC_STEP_SIZE,
                 [rs1 |-> ReadOp(RegEcall, SyscallCode),
                  reg1 |-> ReadOp(RegArg0, args[1]), reg2 |-> ReadOp(RegArg0 + 1, args[2]),
                  mem1 |-> Op(addr, before[1], after[1]), mem2 |-> Op(addr + 1, before[2], after[2])])
  BY DEF ExecuteSyscall
<1> DEFINE ops == [rs1 |-> ReadOp(RegEcall, SyscallCode),
                  reg1 |-> ReadOp(RegArg0, args[1]), reg2 |-> ReadOp(RegArg0 + 1, args[2]),
                  mem1 |-> Op(addr, before[1], after[1]), mem2 |-> Op(addr + 1, before[2], after[2])]
<1>2. DOMAIN ops = {"rs1", "reg1", "reg2", "mem1", "mem2"} OBVIOUS
<1>3. Ecall.kind = "ECALL" /\ Ecall.rd = 0 /\ Ecall.rs1 = 0 /\ Ecall.rs2 = 0 /\ Ecall.imm = 0 BY DEF Insn, Ecall
<1>4. DOMAIN ops \subseteq DOMAIN Sub BY <1>2 DEF Sub
<1>5. Execute(Ecall, pc, pc + PC_STEP_SIZE, ops) BY <1>1
<1> HIDE DEF ops
<1> QED BY <1>3, <1>4, <1>5, ExecuteKeeps

LEMMA KeptUnknownEcall == ASSUME ExecuteUnknownEcall PROVE Encodes(step') /\ Timely(step')
<1>1. PICK arg \in Operands, word \in Previous, addr \in {0, 3}, pc \in Pcs :
         Execute(Ecall, pc, pc + PC_STEP_SIZE,
                 [rs1 |-> ReadOp(RegEcall, UnknownCode), rs2 |-> ReadOp(RegArg0, arg),
                  rd |-> Op(RD_NULL, 0, 0), mem |-> ReadOp(addr, word)])
  BY DEF ExecuteUnknownEcall
<1> DEFINE ops == [rs1 |-> ReadOp(RegEcall, UnknownCode), rs2 |-> ReadOp(RegArg0, arg),
                  rd |-> Op(RD_NULL, 0, 0), mem |-> ReadOp(addr, word)]
<1>2. DOMAIN ops = {"rs1", "rs2", "rd", "mem"} OBVIOUS
<1>3. Ecall.kind = "ECALL" /\ Ecall.rd = 0 /\ Ecall.rs1 = 0 /\ Ecall.rs2 = 0 /\ Ecall.imm = 0 BY DEF Insn, Ecall
<1>4. DOMAIN ops \subseteq DOMAIN Sub BY <1>2 DEF Sub
<1>5. Execute(Ecall, pc, pc + PC_STEP_SIZE, ops) BY <1>1
<1> HIDE DEF ops
<1> QED BY <1>3, <1>4, <1>5, ExecuteKeeps

LEMMA InitStep == Init => StepInv BY DEF Init, StepInv

LEMMA NextKeepsStep == RowsInv /\ StepInv /\ [Next]_vars => StepInv'
<1> SUFFICES ASSUME RowsInv, StepInv, [Next]_vars PROVE StepInv' OBVIOUS
<1>1. ASSUME step' = NoStep \/ UNCHANGED step \/ (Encodes(step') /\ Timely(step')) PROVE StepInv'
  <2>1. CASE step' = NoStep BY <2>1 DEF StepInv
  <2>2. CASE UNCHANGED step BY <2>2 DEF StepInv
  <2>3. CASE Encodes(step') /\ Timely(step') BY <2>3 DEF StepInv, Encodes, Timely
  <2> QED BY <1>1, <2>1, <2>2, <2>3
<1>2. CASE \/ ExecuteR \/ ExecuteI \/ ExecuteBranch \/ ExecuteJal \/ ExecuteJalr \/ ExecuteLoad \/ ExecuteStore
           \/ ExecuteHalt \/ ExecuteSyscall \/ ExecuteUnknownEcall
  <2>1. Encodes(step') /\ Timely(step')
    BY <1>2, KeptR, KeptI, KeptBranch, KeptJal, KeptJalr, KeptLoad, KeptStore, KeptHalt, KeptSyscall,
       KeptUnknownEcall
  <2> QED BY <1>1, <2>1
<1>3. CASE \/ AssignArith \/ AssignArithImm \/ AssignMul \/ AssignDiv \/ AssignShift \/ AssignShiftImm
           \/ AssignSlt \/ AssignSltImm \/ AssignLogic \/ AssignLogicImm \/ AssignBranch \/ AssignJal
           \/ AssignJalr \/ AssignLoad \/ AssignStore
  <2>1. UNCHANGED step BY <1>3, AssignedOpcode
  <2> QED BY <1>1, <2>1
<1>4. CASE AssignHalt \/ AssignLargeEcall \/ AssignEcallDummy \/ AssignDummy
  <2>1. UNCHANGED step BY <1>4, AssignedElse
  <2> QED BY <1>1, <2>1
<1>5. CASE NextStep
  <2>1. step' = NoStep BY <1>5 DEF NextStep
  <2> QED BY <1>1, <2>1
<1>6. CASE UNCHANGED vars
  <2>1. UNCHANGED step BY <1>6 DEF vars
  <2> QED BY <1>1, <2>1
<1> QED BY <1>2, <1>3, <1>4, <1>5, <1>6 DEF Next

\* The row of every step, for words of any width, any prime field wide enough
\* and operands of any value, makes every constraint of its circuit vanish and
\* looks up only what the tables have: the signs, carries, quotients, inverses
\* and differences assign_instance computes are those construct_circuit asks
\* for, in the opcode's circuit, the dummy circuit and that of a system call.
THEOREM RowsSatisfied == Spec => []RowSatisfiesCircuit
<1>1. RowsInv /\ StepInv => RowSatisfiesCircuit
  <2> SUFFICES ASSUME RowsInv, StepInv, row # NoRow
               PROVE  /\ Asked(CircuitOf(step.kind, row), "zero") \subseteq {0}
                      /\ \A l \in Asked(CircuitOf(step.kind, row), "lookup") : InTable(l)
    BY DEF RowSatisfiesCircuit
  <2>1. RowFits(step, row) BY DEF RowsInv
  <2>2. step # NoStep
    BY <2>1 DEF NoStep, RowFits, IsOrdinary, IsR, IsI, IsBranch, IsJal, IsJalr, IsLoad, IsStore, IsHalt, IsSyscall,
                IsUnknownEcall, Completes, RKinds, IKinds
  <2>3. Recorded(step) BY <2>2 DEF StepInv, Recorded
  <2>4. Met(CircuitOf(step.kind, row)) BY <2>1, <2>3, FittingRowMet
  <2> QED BY <2>4, MetMeans
<1> QED BY InitRows, NextRows, InitStep, NextKeepsStep, <1>1, PTL DEF Spec
-----------------------------------------------------------------------------
(***************************************************************************)
(* The converse for products and divisions, on which mul.rs and div.rs     *)
(* give an analysis in their comments: whoever filled the row, what is     *)
(* written is the product, the quotient or the remainder.  As in           *)
(* CircuitGadgetsProofs the cells are any elements of the field, and of    *)
(* the lookups only the ranges count.                                      *)
(***************************************************************************)
LEMMA ThreeSay ==
    ASSUME NEW f, NEW g, NEW h, IsCircuit(f), IsCircuit(g), IsCircuit(h)
    PROVE  /\ IsCircuit(f \o g \o h)
           /\ Satisfied(f \o g \o h) => Satisfied(f) /\ Satisfied(g) /\ Satisfied(h)
<1> DEFINE e == f \o g
<1>1. IsCircuit(e) /\ (Satisfied(e) => Satisfied(f) /\ Satisfied(g)) BY SatisfiedParts
<1> HIDE DEF e
<1>2. IsCircuit(e \o h) /\ (Satisfied(e \o h) => Satisfied(e) /\ Satisfied(h)) BY <1>1, SatisfiedParts
<1> QED BY <1>1, <1>2 DEF e

LEMMA FourSay ==
    ASSUME NEW f, NEW g, NEW h, NEW k, IsCircuit(f), IsCircuit(g), IsCircuit(h), IsCircuit(k)
    PROVE  /\ IsCircuit(f \o g \o h \o k)
           /\ Satisfied(f \o g \o h \o k) =>
                Satisfied(f) /\ Satisfied(g) /\ Satisfied(h) /\ Satisfied(k)
<1> DEFINE e == f \o g \o h
<1>1. IsCircuit(e) /\ (Satisfied(e) => Satisfied(f) /\ Satisfied(g) /\ Satisfied(h)) BY ThreeSay
<1> HIDE DEF e
<1>2. IsCircuit(e \o k) /\ (Satisfied(e \o k) => Satisfied(e) /\ Satisfied(k)) BY <1>1, SatisfiedParts
<1> QED BY <1>1, <1>2 DEF e

LEMMA EqualSays ==
    ASSUME NEW x, NEW y
    PROVE  IsCircuit(RequireEqual(x, y)) /\ (Satisfied(RequireEqual(x, y)) => Field(x - y) = 0)
  BY ZeroSays DEF RequireEqual

LEMMA ElementsAre ==
    ASSUME NEW x \in Elements PROVE x \in Int /\ x >= 0 /\ x < P /\ P \in Nat /\ P > 128
<1>1. P \in Nat /\ P > 128 BY HalfWord
<1> QED BY <1>1 DEF Elements

\* The flag tells zero, whatever the cell of the inverse holds.
LEMMA IsZeroSays ==
    ASSUME NEW x \in Int, -P < x, x < P, NEW z, z.is_zero \in Elements, z.inverse \in Elements
    PROVE  /\ IsCircuit(IsZero(x, z))
           /\ Satisfied(IsZero(x, z)) => z.is_zero = (IF x = 0 THEN 1 ELSE 0)
<1> DEFINE f == RequireZero(z.is_zero * x)  e == z.is_zero + Field(x) * z.inverse  g == RequireEqual(e, 1)
<1>1. IsCircuit(f) /\ (Satisfied(f) => Field(z.is_zero * x) = 0) BY ZeroSays
<1>2. IsCircuit(g) /\ (Satisfied(g) => Field(e - 1) = 0) BY EqualSays
<1>3. IsZero(x, z) = f \o g BY DEF IsZero
<1>4. /\ z.is_zero \in Int /\ z.is_zero >= 0 /\ z.is_zero < P /\ P \in Nat /\ P > 128 /\ z.inverse \in Int
  BY ElementsAre
<1> DEFINE flag == z.is_zero  inv == z.inverse
<1>5. ASSUME x = 0, Field(e - 1) = 0 PROVE flag = 1
  <2>1. Field(x) * inv = 0 BY <1>4, <1>5, FieldOfZero
  <2>2. e - 1 = flag - 1 BY <1>4, <2>1
  <2>3. flag - 1 \in Int /\ -P < flag - 1 /\ flag - 1 < P BY <1>4
  <2>4. flag - 1 = 0 BY <1>5, <2>2, <2>3, NoWrap
  <2> QED BY <1>4, <2>4
<1>6. ASSUME x # 0, Field(flag * x) = 0 PROVE flag = 0
  <2>1. flag \in 1 - P .. P - 1 /\ x \in 1 - P .. P - 1 BY <1>4
  <2>2. (flag * x) % P = 0 => flag = 0 \/ x = 0 BY <2>1, FieldAssumption
  <2> QED BY <1>6, <2>2 DEF Field
<1> HIDE DEF f, g
<1> QED BY <1>1, <1>2, <1>3, <1>5, <1>6, SatisfiedParts

LEMMA NonZeroSays ==
    ASSUME NEW x \in Int, NEW z, z.inverse \in Elements
    PROVE  IsCircuit(NonZero(x, z)) /\ (Satisfied(NonZero(x, z)) => x # 0)
<1> DEFINE e == Field(x) * z.inverse
<1>1. IsCircuit(NonZero(x, z)) /\ (Satisfied(NonZero(x, z)) => Field(e - 1) = 0) BY EqualSays DEF NonZero
<1>2. ASSUME x = 0 PROVE Field(e - 1) # 0
  <2>1. z.inverse \in Int /\ P \in Nat /\ P > 128 BY ElementsAre
  <2>2. e = 0 BY <1>2, <2>1, FieldOfZero
  <2>3. e - 1 = -1 BY <2>2
  <2>4. Field(-1) # 0 BY <2>1, FieldVanishes
  <2> QED BY <2>3, <2>4
<1> QED BY <1>1, <1>2

LEMMA NegativeSays ==
    ASSUME NEW u, IsLimbs(u), NEW s, s.msb \in Elements
    PROVE  /\ IsCircuit(IsNegative(u, s))
           /\ Satisfied(IsNegative(u, s)) =>
                /\ s.msb = (IF SignedOf(WordOf(u)) < 0 THEN 1 ELSE 0)
                /\ ToField(u, s) = SignedOf(WordOf(u))
<1> DEFINE v == WordOf(u)  top == 2 * u.limb[2] >= LimbRange
<1>1. /\ IsCircuit(IsNegative(u, s))
      /\ Satisfied(IsNegative(u, s)) => s.msb \in {0, 1} /\ (s.msb = 1 <=> top)
  BY TopBitSays DEF IsNegative, IsLimbs
<1>2. ValueOf(u) = v /\ v \in Nat /\ v < WordRange /\ WordRange \in Nat BY LimbsAreWord, Sizes
<1>3. SignedOf(v) = v - (IF top THEN WordRange ELSE 0) /\ (v >= WordRange \div 2 <=> top) BY SignOfWord
<1> HIDE DEF v, top
<1>4. ASSUME s.msb \in {0, 1}, s.msb = 1 <=> top
      PROVE  s.msb = (IF SignedOf(v) < 0 THEN 1 ELSE 0) /\ ToField(u, s) = SignedOf(v)
  <2>1. ToField(u, s) = v - s.msb * WordRange BY <1>2 DEF ToField
  <2>2. CASE top
    <3>1. s.msb = 1 /\ SignedOf(v) = v - WordRange BY <1>3, <1>4, <2>2
    <3> QED BY <1>2, <2>1, <3>1
  <2>3. CASE ~top
    <3>1. s.msb = 0 /\ SignedOf(v) = v BY <1>2, <1>3, <1>4, <2>3
    <3> QED BY <1>2, <2>1, <3>1
  <2> QED BY <2>2, <2>3
<1> QED BY <1>1, <1>4 DEF v

LEMMA LimbsAreWords == ASSUME NEW u, IsLimbs(u) PROVE /\ ValueOf(u) = WordOf(u) /\ WordOf(u) \in Words
                                                     /\ WordOf(u) \in Int /\ WordOf(u) \in 0 .. WordRange - 1
<1>1. ValueOf(u) = WordOf(u) /\ WordOf(u) \in Words BY LimbsAreWord
<1> QED BY <1>1, HalfWord

\* Two numbers with high parts in a range one short of that of a word are told
\* apart by the field; without a value left out they would not be.
LEMMA FieldTellsApart ==
    ASSUME NEW p \in Int, NEW A \in Int, NEW h \in A .. A + WordRange - 2, NEW l \in Words,
           p \div WordRange \in A .. A + WordRange - 2, Field(p - (h * WordRange + l)) = 0
    PROVE  p \div WordRange = h /\ Wrapped(p) = l
<1> DEFINE W == WordRange  H == p \div W  L == Wrapped(p)  k == H - h  e == p - (h * W + l)
<1>1. /\ W \in Nat /\ W >= 16 /\ Words = 0 .. W - 1 /\ P \in Nat
  BY HalfWord
<1>2. P > W * (W - 1) BY FieldAssumption, HalfWord
<1>3. H \in Int /\ L \in 0 .. W - 1 /\ p = H * W + L BY <1>1, HighLow
<1>4. H \in A .. A + W - 2 /\ h \in A .. A + W - 2 /\ h \in Int /\ l \in 0 .. W - 1 BY <1>1
<1> HIDE DEF W, H, L
<1>5. k \in Int /\ k <= W - 2 /\ k >= -(W - 2) BY <1>1, <1>3, <1>4
<1>6. e = k * W + (L - l)
  <2>1. k * W = H * W - h * W /\ H * W \in Int /\ h * W \in Int BY <1>1, <1>3, <1>4
  <2> QED BY <1>3, <1>4, <2>1
<1>7. k * W <= W * (W - 1) - W /\ k * W >= -(W * (W - 1) - W)
  <2>1. ((W - 2) - k) * W >= 0 /\ ((W - 2) + k) * W >= 0 BY <1>1, <1>5
  <2>2. ((W - 2) - k) * W = W * (W - 1) - W - k * W BY <1>1, <1>5
  <2>3. ((W - 2) + k) * W = W * (W - 1) - W + k * W BY <1>1, <1>5
  <2>4. k * W \in Int /\ W * (W - 1) \in Int BY <1>1, <1>5
  <2> QED BY <1>1, <2>1, <2>2, <2>3, <2>4
<1>8. e \in Int /\ -P < e /\ e < P
  <2>1. k * W \in Int /\ W * (W - 1) \in Int BY <1>1, <1>5
  <2> HIDE DEF k, e
  <2> QED BY <1>1, <1>2, <1>3, <1>4, <1>6, <1>7, <2>1
<1>9. e = 0
  <2>1. Field(e) = 0 BY DEF W
  <2> HIDE DEF e
  <2> QED BY <1>8, <2>1, NoWrap
<1>10. p = h * W + l
  <2>1. h * W \in Int BY <1>1, <1>4
  <2> QED BY <1>4, <1>9, <2>1
<1>11. (h * W + l) \div W = h /\ (h * W + l) % W = l BY <1>1, <1>4, DivisionUnique
<1> QED BY <1>10, <1>11 DEF W, Wrapped

\* Two signed words have a product the field tells from every other pair of a
\* signed high part and a low one.
LEMMA FieldTellsSignedApart ==
    ASSUME NEW x \in -SignedMin .. SignedMin - 1, NEW y \in -SignedMin .. SignedMin - 1,
           NEW h \in -SignedMin .. SignedMin - 1, NEW l \in Words,
           Field(x * y - (h * WordRange + l)) = 0
    PROVE  (x * y) \div WordRange = h
<1> DEFINE W == WordRange  H == SignedMin  p == x * y  e == p - (h * W + l)
<1>1. H \in Nat /\ H >= 8 /\ W = 2 * H /\ W \in Nat /\ Words = 0 .. W - 1 /\ P \in Nat BY HalfWord
<1>2. P > W * (W - 1) BY FieldAssumption, HalfWord
<1>3. -(H * H) <= p /\ p <= H * H /\ p \in Int
  <2>1. x \in -H .. H /\ y \in -H .. H BY <1>1
  <2> QED BY <1>1, <2>1, ProductBetween
<1>4. h \in Int /\ -H <= h /\ h < H /\ l \in Int /\ 0 <= l /\ l < W BY <1>1
<1>5. h * W \in Int /\ h * W >= -(H * W) /\ h * W + l < H * W
  <2>1. (h + H) * W >= 0 /\ (H - h - 1) * W >= 0 BY <1>1, <1>4
  <2>2. (h + H) * W = h * W + H * W /\ (H - h - 1) * W = H * W - h * W - W BY <1>1, <1>4
  <2>3. h * W \in Int /\ H * W \in Int BY <1>1, <1>4
  <2> QED BY <1>1, <1>4, <2>1, <2>2, <2>3
<1>6. H * W = 2 * (H * H) /\ W * (W - 1) = 4 * (H * H) - W /\ H * H >= 8 * H /\ H * H \in Nat BY <1>1
<1> HIDE DEF p, W, H
<1>7. e \in Int /\ -P < e /\ e < P BY <1>1, <1>2, <1>3, <1>4, <1>5, <1>6
<1>8. e = 0
  <2>1. Field(e) = 0 BY DEF p, W
  <2> HIDE DEF e
  <2> QED BY <1>7, <2>1, NoWrap
<1>9. p = h * W + l BY <1>3, <1>4, <1>5, <1>8
<1>10. (h * W + l) \div W = h
  <2>1. W \in Nat /\ W > 0 /\ l \in 0 .. W - 1 BY <1>1, <1>4
  <2> QED BY <1>4, <2>1, DivisionUnique
<1> QED BY <1>9, <1>10 DEF p, W

\* The cells MulConfig makes beyond those of the frame.
MulCells(kind, c) ==
    /\ \A i \in {1, 2} : c.rd_written.limb[i] \in Elements /\ c.prod_lo_hi.limb[i] \in Elements
    /\ kind \in {"MULH", "MULHSU"} => c.rs1_signed.msb \in Elements /\ c.rd_signed.msb \in Elements
    /\ kind = "MULH" => c.rs2_signed.msb \in Elements
    /\ kind # "MULH" => c.constrain_rd.inverse \in Elements

\* What the signs and the equation of each product say.
LEMMA MulhSays ==
    ASSUME NEW c, IsLimbs(c.rs1_read), IsLimbs(c.rs2_read), IsLimbs(c.rd_written), IsLimbs(c.prod_lo_hi),
           MulCells("MULH", c)
    PROVE  /\ IsCircuit(MulSigns("MULH", c))
           /\ Satisfied(MulSigns("MULH", c)) /\ Satisfied(MulEquation("MULH", c)) =>
                WordOf(c.rd_written) = Compute("MULH", WordOf(c.rs1_read), WordOf(c.rs2_read))
<1> DEFINE a == WordOf(c.rs1_read)  b == WordOf(c.rs2_read)  d == WordOf(c.rd_written)
           l == WordOf(c.prod_lo_hi)  v == MulValues("MULH", c)
           f == IsNegative(c.rs1_read, c.rs1_signed)  g == IsNegative(c.rs2_read, c.rs2_signed)
           h == IsNegative(c.rd_written, c.rd_signed)
<1>1. IsCircuit(f) /\ (Satisfied(f) => ToField(c.rs1_read, c.rs1_signed) = SignedOf(a))
  BY NegativeSays DEF MulCells
<1>2. IsCircuit(g) /\ (Satisfied(g) => ToField(c.rs2_read, c.rs2_signed) = SignedOf(b))
  BY NegativeSays DEF MulCells
<1>3. IsCircuit(h) /\ (Satisfied(h) => ToField(c.rd_written, c.rd_signed) = SignedOf(d))
  BY NegativeSays DEF MulCells
<1>4. MulSigns("MULH", c) = f \o g \o h BY DEF MulSigns
<1>5. v.rs1 = ToField(c.rs1_read, c.rs1_signed) /\ v.rs2 = ToField(c.rs2_read, c.rs2_signed)
      /\ v.rd = ToField(c.rd_written, c.rd_signed)
  BY DEF MulValues
<1>6. MulEquation("MULH", c) = RequireEqual(v.rs1 * v.rs2, v.rd * WordRange + l)
  BY LimbsAreWords DEF MulEquation
<1>7. Satisfied(MulEquation("MULH", c)) => Field(v.rs1 * v.rs2 - (v.rd * WordRange + l)) = 0
  BY <1>6, EqualSays
<1> HIDE DEF f, g, h, v
<1>8. IsCircuit(MulSigns("MULH", c))
      /\ (Satisfied(MulSigns("MULH", c)) => Satisfied(f) /\ Satisfied(g) /\ Satisfied(h))
  BY <1>1, <1>2, <1>3, <1>4, ThreeSay
<1>9. a \in Words /\ b \in Words /\ d \in Words /\ l \in Words BY LimbsAreWords
<1> HIDE DEF a, b, d, l
<1>10. ASSUME Satisfied(MulSigns("MULH", c)), Satisfied(MulEquation("MULH", c)) PROVE d = Compute("MULH", a, b)
  <2> DEFINE x == SignedOf(a)  y == SignedOf(b)  z == SignedOf(d)
  <2>1. Field(x * y - (z * WordRange + l)) = 0 BY <1>1, <1>2, <1>3, <1>5, <1>7, <1>8, <1>10
  <2>2. /\ x \in -SignedMin .. SignedMin - 1 /\ y \in -SignedMin .. SignedMin - 1
        /\ z \in -SignedMin .. SignedMin - 1 /\ Wrapped(z) = d
    BY <1>9, SignedBounds
  <2> HIDE DEF x, y, z
  <2>3. (x * y) \div WordRange = z BY <1>9, <2>1, <2>2, FieldTellsSignedApart
  <2>4. Compute("MULH", a, b) = Wrapped((x * y) \div WordRange) BY DEF Compute, x, y
  <2> QED BY <2>2, <2>3, <2>4
<1> QED BY <1>8, <1>10 DEF a, b, d

LEMMA MulhsuSays ==
    ASSUME NEW c, IsLimbs(c.rs1_read), IsLimbs(c.rs2_read), IsLimbs(c.rd_written), IsLimbs(c.prod_lo_hi),
           MulCells("MULHSU", c)
    PROVE  /\ IsCircuit(MulSigns("MULHSU", c))
           /\ Satisfied(MulSigns("MULHSU", c)) /\ Satisfied(MulEquation("MULHSU", c)) =>
                WordOf(c.rd_written) = Compute("MULHSU", WordOf(c.rs1_read), WordOf(c.rs2_read))
<1> DEFINE a == WordOf(c.rs1_read)  b == WordOf(c.rs2_read)  d == WordOf(c.rd_written)
           l == WordOf(c.prod_lo_hi)  v == MulValues("MULHSU", c)  w == v.rd - (WordRange \div 2 - 1)
           f == IsNegative(c.rs1_read, c.rs1_signed)  g == IsNegative(c.rd_written, c.rd_signed)
           h == NonZero(w, c.constrain_rd)
<1>1. IsCircuit(f) /\ (Satisfied(f) => ToField(c.rs1_read, c.rs1_signed) = SignedOf(a))
  BY NegativeSays DEF MulCells
<1>2. IsCircuit(g) /\ (Satisfied(g) => ToField(c.rd_written, c.rd_signed) = SignedOf(d))
  BY NegativeSays DEF MulCells
<1>3. v.rs1 = ToField(c.rs1_read, c.rs1_signed) /\ v.rs2 = b /\ v.rd = ToField(c.rd_written, c.rd_signed)
  BY LimbsAreWords DEF MulValues
<1>4. a \in Words /\ b \in Words /\ d \in Words /\ l \in Words BY LimbsAreWords
<1>5. IsCircuit(h) BY EqualSays DEF NonZero
<1>6. w \in Int => (Satisfied(h) => w # 0) BY NonZeroSays DEF MulCells
<1>7. MulSigns("MULHSU", c) = f \o g \o h BY DEF MulSigns
<1>8. MulEquation("MULHSU", c) = RequireEqual(v.rs1 * v.rs2, v.rd * WordRange + l)
  BY LimbsAreWords DEF MulEquation
<1>9. Satisfied(MulEquation("MULHSU", c)) => Field(v.rs1 * v.rs2 - (v.rd * WordRange + l)) = 0
  BY <1>8, EqualSays
<1> HIDE DEF f, g, h, v
<1>10. IsCircuit(MulSigns("MULHSU", c))
       /\ (Satisfied(MulSigns("MULHSU", c)) => Satisfied(f) /\ Satisfied(g) /\ Satisfied(h))
  BY <1>1, <1>2, <1>5, <1>7, ThreeSay
<1> HIDE DEF a, b, d, l
<1>11. ASSUME Satisfied(MulSigns("MULHSU", c)), Satisfied(MulEquation("MULHSU", c))
       PROVE  d = Compute("MULHSU", a, b)
  <2> DEFINE x == SignedOf(a)  z == SignedOf(d)
  <2>1. Field(x * b - (z * WordRange + l)) = 0 BY <1>1, <1>2, <1>3, <1>9, <1>10, <1>11
  <2>2. /\ x \in -SignedMin .. SignedMin - 1 /\ z \in -SignedMin .. SignedMin - 1 /\ Wrapped(z) = d
        /\ b \in 0 .. WordRange - 1
    BY <1>4, SignedBounds
  <2>3. SignedMin \in Nat /\ WordRange = 2 * SignedMin /\ WordRange \div 2 = SignedMin BY HalfWord DEF SignedMin
  <2>4. v.rd = z BY <1>2, <1>3, <1>10, <1>11
  <2> HIDE DEF x, z
  <2>5. w = z - (SignedMin - 1) BY <2>3, <2>4
  <2>6. w # 0 BY <1>6, <1>10, <1>11, <2>2, <2>3, <2>5
  <2>7. z \in -SignedMin .. -SignedMin + WordRange - 2 BY <2>2, <2>3, <2>5, <2>6
  <2>8. (x * b) \div WordRange \in -SignedMin .. -SignedMin + WordRange - 2
    <3>1. (x * b) \div WordRange \in -SignedMin .. SignedMin - 2 BY <2>2, MixedProduct
    <3> QED BY <2>3, <3>1
  <2>9. x * b \in Int /\ -SignedMin \in Int BY <2>2, <2>3
  <2>10. (x * b) \div WordRange = z BY <1>4, <2>1, <2>7, <2>8, <2>9, FieldTellsApart
  <2>11. Compute("MULHSU", a, b) = Wrapped((x * b) \div WordRange) BY DEF Compute, x
  <2> QED BY <2>2, <2>10, <2>11
<1> QED BY <1>10, <1>11 DEF a, b, d

LEMMA UnsignedSays ==
    ASSUME NEW c, NEW kind \in {"MUL", "MULHU"}, IsLimbs(c.rs1_read), IsLimbs(c.rs2_read),
           IsLimbs(c.rd_written), IsLimbs(c.prod_lo_hi), MulCells(kind, c)
    PROVE  /\ IsCircuit(MulSigns(kind, c))
           /\ Satisfied(MulSigns(kind, c)) /\ Satisfied(MulEquation(kind, c)) =>
                WordOf(c.rd_written) = Compute(kind, WordOf(c.rs1_read), WordOf(c.rs2_read))
<1> DEFINE a == WordOf(c.rs1_read)  b == WordOf(c.rs2_read)  d == WordOf(c.rd_written)  o == WordOf(c.prod_lo_hi)
           h == IF kind = "MUL" THEN o ELSE d
           l == IF kind = "MUL" THEN d ELSE o
           v == MulValues(kind, c)
<1>1. v.rs1 = a /\ v.rs2 = b /\ v.rd = d /\ ValueOf(c.prod_lo_hi) = o BY LimbsAreWords DEF MulValues
<1>2. /\ a \in Words /\ b \in Words /\ d \in Words /\ o \in Words
      /\ a \in 0 .. WordRange - 1 /\ b \in 0 .. WordRange - 1
  BY LimbsAreWords
<1>3. MulSigns(kind, c) = NonZero(h - WordMax, c.constrain_rd)
  <2>1. CASE kind = "MUL" BY <1>1, <2>1 DEF MulSigns
  <2>2. CASE kind = "MULHU" BY <1>1, <2>2 DEF MulSigns
  <2> QED BY <2>1, <2>2
<1>4. MulEquation(kind, c) = RequireEqual(a * b, h * WordRange + l)
  <2>1. CASE kind = "MUL" BY <1>1, <2>1 DEF MulEquation
  <2>2. CASE kind = "MULHU" BY <1>1, <2>2 DEF MulEquation
  <2> QED BY <2>1, <2>2
<1> HIDE DEF a, b, d, o, v
<1>5. h \in Words /\ l \in Words /\ h \in Int BY <1>2, HalfWord
<1>6. IsCircuit(MulSigns(kind, c)) /\ (Satisfied(MulSigns(kind, c)) => h - WordMax # 0)
  <2>1. h - WordMax \in Int BY <1>5, HalfWord
  <2>2. c.constrain_rd.inverse \in Elements BY DEF MulCells
  <2> QED BY <1>3, <2>1, <2>2, NonZeroSays
<1>7. Satisfied(MulEquation(kind, c)) => Field(a * b - (h * WordRange + l)) = 0 BY <1>4, EqualSays
<1>8. ASSUME Satisfied(MulSigns(kind, c)), Satisfied(MulEquation(kind, c)) PROVE d = Compute(kind, a, b)
  <2>1. h \in 0 .. 0 + WordRange - 2
    <3>1. h # WordRange - 1 BY <1>5, <1>6, <1>8, HalfWord
    <3> QED BY <1>5, <3>1, HalfWord
  <2>2. (a * b) \div WordRange \in 0 .. 0 + WordRange - 2 BY <1>2, WordProduct, HalfWord
  <2>3. a * b \in Int BY <1>2, HalfWord
  <2> HIDE DEF h, l
  <2>4. (a * b) \div WordRange = h /\ Wrapped(a * b) = l BY <1>5, <1>7, <1>8, <2>1, <2>2, <2>3, FieldTellsApart
  <2>5. CASE kind = "MUL" BY <2>4, <2>5 DEF Compute, h, l
  <2>6. CASE kind = "MULHU" BY <2>4, <2>6 DEF Compute, h, l
  <2> QED BY <2>5, <2>6
<1> QED BY <1>6, <1>8 DEF a, b, d

LEMMA RInsnIs ==
    ASSUME NEW r, NEW kind, NEW rs1, NEW rs2, NEW rd
    PROVE  IsCircuit(RInsn(r, kind, rs1, rs2, rd))
  BY RInsnAsks DEF Says, IsCircuit

\* mul.rs: whatever the cells of the row, what MulConfig's constraints let be
\* written is the product's low word, or its high word as the kind takes the
\* signs; the excluded value is what keeps the second solution in the field out.
THEOREM ProductsDecided ==
    ASSUME NEW kind \in MulKinds, NEW r, IsLimbs(r.cells.rs1_read), IsLimbs(r.cells.rs2_read),
           MulCells(kind, r.cells), Satisfied(MulCircuit(kind, r))
    PROVE  /\ IsLimbs(r.cells.rd_written)
           /\ WordOf(r.cells.rd_written) =
                Compute(kind, WordOf(r.cells.rs1_read), WordOf(r.cells.rs2_read))
<1> DEFINE c == r.cells  f == UInt(c.rd_written)  g == UInt(c.prod_lo_hi)  h == MulSigns(kind, c)
           k == MulEquation(kind, c)  m == RInsn(r, kind, c.rs1_read, c.rs2_read, c.rd_written)
           e == f \o g \o h \o k
<1>1. MulCircuit(kind, r) = e \o m BY DEF MulCircuit
<1>2. IsCircuit(f) /\ (Satisfied(f) => IsLimbs(c.rd_written)) BY UIntSays DEF MulCells
<1>3. IsCircuit(g) /\ (Satisfied(g) => IsLimbs(c.prod_lo_hi)) BY UIntSays DEF MulCells
<1>4. IsCircuit(k)
  <2>1. CASE kind = "MUL" BY <2>1, EqualSays DEF MulEquation
  <2>2. CASE kind # "MUL" BY <2>2, EqualSays DEF MulEquation
  <2> QED BY <2>1, <2>2
<1>5. IsCircuit(m) BY RInsnIs
<1>6. IsCircuit(h)
  <2>1. IsCircuit(IsNegative(c.rs1_read, c.rs1_signed)) /\ IsCircuit(IsNegative(c.rs2_read, c.rs2_signed))
        /\ IsCircuit(IsNegative(c.rd_written, c.rd_signed))
    BY SilentNegative DEF Silent, Says, IsCircuit
  <2>2. \A x : IsCircuit(NonZero(x, c.constrain_rd)) BY EqualSays DEF NonZero
  <2>3. CASE kind = "MULH" BY <2>1, <2>3, ThreeSay DEF MulSigns
  <2>4. CASE kind = "MULHSU" BY <2>1, <2>2, <2>4, ThreeSay DEF MulSigns
  <2>5. CASE kind = "MULHU" BY <2>2, <2>5 DEF MulSigns
  <2>6. CASE kind = "MUL" BY <2>2, <2>6 DEF MulSigns
  <2> QED BY <2>3, <2>4, <2>5, <2>6
<1> HIDE DEF f, g, h, k, m
<1>7. IsCircuit(e) /\ (Satisfied(e) => Satisfied(f) /\ Satisfied(g) /\ Satisfied(h) /\ Satisfied(k))
  BY <1>2, <1>3, <1>4, <1>6, FourSay
<1> HIDE DEF e
<1>8. Satisfied(f) /\ Satisfied(g) /\ Satisfied(h) /\ Satisfied(k) BY <1>1, <1>5, <1>7, SatisfiedParts
<1>9. IsLimbs(c.rd_written) /\ IsLimbs(c.prod_lo_hi) BY <1>2, <1>3, <1>8
<1>10. CASE kind = "MULH" BY <1>8, <1>9, <1>10, MulhSays DEF h, k
<1>11. CASE kind = "MULHSU" BY <1>8, <1>9, <1>11, MulhsuSays DEF h, k
<1>12. CASE kind \in {"MUL", "MULHU"} BY <1>8, <1>9, <1>12, UnsignedSays DEF h, k
<1> QED BY <1>9, <1>10, <1>11, <1>12

LEMMA IsLtSays ==
    ASSUME NEW x \in Int, NEW y \in Int, x - y < WordRange, y - x < WordRange, NEW d, d.is_lt \in Elements,
           d.limb[1] \in Elements, d.limb[2] \in Elements
    PROVE  /\ IsCircuit(IsLt(x, y, d))
           /\ Satisfied(IsLt(x, y, d)) => d.is_lt \in {0, 1} /\ (d.is_lt = 1 <=> x < y)
<1> DEFINE f == AssertBit(d.is_lt)  g == InnerLt(x, y, d.is_lt, d)
<1>1. IsCircuit(f) /\ (Satisfied(f) => d.is_lt \in {0, 1}) BY BitSays
<1>2. IsCircuit(g) BY SilentInnerLt DEF Silent, Says
<1>3. ASSUME d.is_lt \in {0, 1}, Satisfied(g) PROVE d.is_lt = 1 <=> x < y BY <1>3, InnerLtSays
<1>4. IsLt(x, y, d) = f \o g BY DEF IsLt
<1> HIDE DEF f, g
<1> QED BY <1>1, <1>2, <1>3, <1>4, SatisfiedParts

\* A number is split in one way only into a multiple and a remainder of its sign.
LEMMA SplitOnce ==
    ASSUME NEW x \in Int, NEW y \in Int, NEW Q \in Int, NEW R \in Int, NEW q \in Int, NEW m \in Int,
           x = Q * y + R, x = q * y + m,
           IF x < 0 THEN -R \in 0 .. Magnitude(y) - 1 ELSE R \in 0 .. Magnitude(y) - 1,
           IF x < 0 THEN -m \in 0 .. Magnitude(y) - 1 ELSE m \in 0 .. Magnitude(y) - 1
    PROVE  Q = q /\ R = m
<1> DEFINE Y == Magnitude(y)  k == Q - q
<1>1. Y \in Nat /\ (Y = y \/ Y = -y) BY DEF Magnitude
<1>2. k * y = m - R /\ k * y \in Int
  <2>1. k * y = Q * y - q * y /\ Q * y \in Int /\ q * y \in Int OBVIOUS
  <2> QED BY <2>1
<1>3. m - R < Y /\ R - m < Y BY <1>1
<1> HIDE DEF Y, k
<1>4. k \in Int BY DEF k
<1>5. k * Y < Y /\ -(k * Y) < Y /\ k * Y \in Int
  <2>1. CASE Y = y BY <1>1, <1>2, <1>3, <1>4, <2>1
  <2>2. CASE Y = -y
    <3>1. k * Y = -(k * y) BY <1>4, <2>2
    <3> QED BY <1>1, <1>2, <1>3, <1>4, <3>1
  <2> QED BY <1>1, <2>1, <2>2
<1>6. k = 0
  <2>1. ASSUME k >= 1 PROVE FALSE
    <3>1. (k - 1) * Y >= 0 /\ (k - 1) * Y = k * Y - Y BY <1>1, <1>4, <2>1
    <3> QED BY <1>1, <1>5, <3>1
  <2>2. ASSUME k <= -1 PROVE FALSE
    <3>1. (-1 - k) * Y >= 0 /\ (-1 - k) * Y = -(k * Y) - Y BY <1>1, <1>4, <2>2
    <3> QED BY <1>1, <1>5, <3>1
  <2> QED BY <1>4, <2>1, <2>2
<1>7. Q = q BY <1>6 DEF k
<1>8. m - R = 0 BY <1>2, <1>6
<1> QED BY <1>7, <1>8

LEMMA MagnitudeOfMinusOne == ASSUME NEW y, y = -1 PROVE Magnitude(y) = 1
<1>1. y \in Int /\ y + 1 = 0 OBVIOUS
<1> SUFFICES ASSUME NEW z \in Int, z + 1 = 0 PROVE Magnitude(z) = 1 BY <1>1
<1>2. z < 0 /\ -z = 1 OBVIOUS
<1> QED BY <1>2 DEF Magnitude

\* What equation (1) or (2) of div.rs and the bounds of the remainder leave open: nothing.
LEMMA SignedDivisionUnique ==
    ASSUME NEW a \in Words, NEW b \in Words, NEW q \in Words, NEW m \in Words,
           SignedOf(q) * SignedOf(b) + SignedOf(m) =
             (IF SignedOf(a) = -SignedMin /\ SignedOf(b) = -1 THEN SignedMin ELSE SignedOf(a)),
           b # 0 => IF SignedOf(a) < 0 THEN -SignedOf(m) \in 0 .. Magnitude(SignedOf(b)) - 1
                    ELSE SignedOf(m) \in 0 .. Magnitude(SignedOf(b)) - 1,
           b = 0 => q = WordMax
    PROVE  q = Compute("DIV", a, b) /\ m = Compute("REM", a, b)
<1> DEFINE x == SignedOf(a)  y == SignedOf(b)  qs == SignedOf(q)  ms == SignedOf(m)  H == SignedMin
           Q == Compute("DIV", a, b)  R == Compute("REM", a, b)  over == x = -H /\ y = -1
<1>1. /\ H \in Nat /\ H >= 8 /\ x \in -H .. H - 1 /\ y \in -H .. H - 1 /\ qs \in -H .. H - 1 /\ ms \in -H .. H - 1
      /\ Wrapped(qs) = q /\ Wrapped(ms) = m /\ Wrapped(x) = a
  BY HalfWord, SignedBounds
<1>2. CASE b = 0
  <2>1. Q = WordMax /\ R = a BY <1>2 DEF Compute
  <2>2. y = 0 BY <1>2, HalfWord DEF SignedOf, SignedMin
  <2>3. qs * y = 0 BY <1>1, <2>2
  <2>4. ~over BY <2>2
  <2>5. ms = x BY <1>1, <2>3, <2>4
  <2> QED BY <1>1, <1>2, <2>1, <2>5
<1>3. CASE b # 0
  <2> DEFINE Qs == SignedOf(Q)  Rs == SignedOf(R)  pos == IF x < 0 THEN -Rs ELSE Rs
  <2>0. /\ Q \in Words /\ R \in Words /\ (over => Qs = -H /\ Rs = 0) /\ (~over => x = Qs * y + Rs)
        /\ pos \in 0 .. Magnitude(y) - 1
    <3> DEFINE U == Q  V == R
    <3>1. U = Compute("DIV", a, b) /\ V = Compute("REM", a, b) OBVIOUS
    <3> HIDE DEF U, V
    <3>2. /\ U \in Words /\ V \in Words /\ (over => SignedOf(U) = -H /\ SignedOf(V) = 0)
          /\ (~over => x = SignedOf(U) * y + SignedOf(V))
          /\ (IF x < 0 THEN -SignedOf(V) ELSE SignedOf(V)) \in 0 .. Magnitude(y) - 1
      BY <1>3, <3>1, SignedDivision
    <3> QED BY <3>2 DEF U, V
  <2>1. /\ Q \in Words /\ R \in Words /\ (over => Qs = -H /\ Rs = 0) /\ (~over => x = Qs * y + Rs)
        /\ IF x < 0 THEN -Rs \in 0 .. Magnitude(y) - 1 ELSE Rs \in 0 .. Magnitude(y) - 1
    <3> HIDE DEF x, Rs, y, Q, R
    <3>1. CASE x < 0 BY <2>0, <3>1
    <3>2. CASE ~(x < 0) BY <2>0, <3>2
    <3> QED BY <3>1, <3>2
  <2>2. Qs \in Int /\ Rs \in Int /\ Wrapped(Qs) = Q /\ Wrapped(Rs) = R BY <2>1, SignedBounds
  <2>3. /\ qs * y + ms = (IF over THEN H ELSE x)
        /\ IF x < 0 THEN -ms \in 0 .. Magnitude(y) - 1 ELSE ms \in 0 .. Magnitude(y) - 1
    BY <1>3
  <2> HIDE DEF x, y, qs, ms, Q, R, Qs, Rs, H
  <2>4. qs = Qs /\ ms = Rs
    <3>1. CASE over
      <4>1. x = -H /\ y = -1 /\ Qs = -H /\ Rs = 0 BY <2>1, <2>3, <3>1
      <4>2. Magnitude(y) = 1
        <5>1. y = -1 BY <4>1
        <5> QED BY <5>1, MagnitudeOfMinusOne
      <4>3. ms = 0 BY <1>1, <2>3, <4>1, <4>2
      <4>4. qs * y = -qs BY <1>1, <4>1
      <4>5. -qs + ms = H BY <2>3, <3>1, <4>4
      <4> QED BY <1>1, <4>1, <4>3, <4>5
    <3>2. CASE ~over
      <4>1. x = qs * y + ms /\ x = Qs * y + Rs BY <2>1, <2>3, <3>2
      <4>2. x \in Int /\ y \in Int /\ qs \in Int /\ ms \in Int BY <1>1
      <4> QED BY <2>1, <2>2, <2>3, <4>1, <4>2, SplitOnce
    <3> QED BY <3>1, <3>2
  <2>5. q = Q /\ m = R BY <1>1, <2>2, <2>4
  <2> QED BY <2>5 DEF Q, R
<1> QED BY <1>2, <1>3

LEMMA UnsignedDivisionUnique ==
    ASSUME NEW a \in Words, NEW b \in Words, NEW q \in Words, NEW m \in Words, a = b * q + m,
           b # 0 => m < b, b = 0 => q = WordMax
    PROVE  q = Compute("DIVU", a, b) /\ m = Compute("REMU", a, b)
<1>1. a \in Nat /\ b \in Nat /\ q \in Nat /\ m \in Nat BY HalfWord
<1>2. CASE b = 0
  <2>1. b * q = 0 BY <1>1, <1>2
  <2>2. m = a BY <1>1, <2>1
  <2> QED BY <1>2, <2>2 DEF Compute
<1>3. CASE b # 0
  <2>1. m \in 0 .. b - 1 /\ q \in Int /\ b \in Nat /\ b > 0 BY <1>1, <1>3
  <2>2. (q * b + m) \div b = q /\ (q * b + m) % b = m BY <2>1, DivisionUnique
  <2>3. q * b + m = a BY <1>1
  <2>4. a \div b = q /\ a % b = m BY <2>2, <2>3
  <2> QED BY <1>3, <2>4 DEF Compute
<1> QED BY <1>2, <1>3

\* The cells of a comparison and of a flag for zero.
LtCells(d) == d.is_lt \in Elements /\ d.limb[1] \in Elements /\ d.limb[2] \in Elements
FlagCells(z) == z.is_zero \in Elements /\ z.inverse \in Elements

\* The cells DivRemConfig makes beyond those of the frame.
DivCells(kind, c) ==
    /\ \A i \in {1, 2} : c.quotient.limb[i] \in Elements /\ c.remainder.limb[i] \in Elements
    /\ FlagCells(c.is_divisor_zero) /\ LtCells(c.is_remainder_lt_divisor)
    /\ SignedDiv(kind) =>
         /\ c.dividend_signed.msb \in Elements /\ c.divisor_signed.msb \in Elements
         /\ c.quotient_signed.msb \in Elements /\ c.remainder_signed.msb \in Elements
         /\ FlagCells(c.is_dividend_signed_min) /\ FlagCells(c.is_divisor_neg_one)
         /\ c.is_signed_overflow.value \in Elements
         /\ \A i \in {1, 2} : c.remainder_nonnegative.limb[i] \in Elements

\* What the signs, the overflow flag and the equation of the signed kinds say.
LEMMA DivOverflowSays ==
    ASSUME NEW kind, SignedDiv(kind), NEW c, DivCells(kind, c), IsLimbs(c.dividend), IsLimbs(c.divisor),
           NEW over, over = c.is_signed_overflow.value
    PROVE  /\ IsCircuit(DivOverflow(c))
           /\ Satisfied(DivOverflow(c)) =>
                over = (IF SignedOf(WordOf(c.dividend)) = -SignedMin /\ SignedOf(WordOf(c.divisor)) = -1
                        THEN 1 ELSE 0)
<1> DEFINE a == WordOf(c.dividend)  b == WordOf(c.divisor)  W == WordRange  H == SignedMin
           x == a - H  y == b - WordMax  zx == c.is_dividend_signed_min  zy == c.is_divisor_neg_one
           f == IsZero(x, zx)  g == IsZero(y, zy)  h == RequireEqual(over, zx.is_zero * zy.is_zero)
<1>1. /\ H \in Nat /\ H >= 8 /\ W = 2 * H /\ WordMax = W - 1 /\ P \in Nat /\ P > 8 * W
      /\ a \in 0 .. W - 1 /\ b \in 0 .. W - 1
  BY HalfWord, LimbsAreWords
<1>2. DivOverflow(c) = f \o g \o h
  <2>1. ValueOf(c.dividend) = a /\ ValueOf(c.divisor) = b BY LimbsAreWords
  <2> QED BY <2>1 DEF DivOverflow
<1> HIDE DEF a, b
<1>3. (SignedOf(a) = -H <=> x = 0) /\ (SignedOf(b) = -1 <=> y = 0) BY <1>1 DEF SignedOf, SignedMin
<1>4. x \in Int /\ -P < x /\ x < P /\ y \in Int /\ -P < y /\ y < P BY <1>1
<1> HIDE DEF x, y
<1>5. IsCircuit(f) /\ (Satisfied(f) => zx.is_zero = (IF x = 0 THEN 1 ELSE 0))
  BY <1>4, IsZeroSays DEF DivCells, FlagCells
<1>6. IsCircuit(g) /\ (Satisfied(g) => zy.is_zero = (IF y = 0 THEN 1 ELSE 0))
  BY <1>4, IsZeroSays DEF DivCells, FlagCells
<1>7. IsCircuit(h) /\ (Satisfied(h) => Field(over - zx.is_zero * zy.is_zero) = 0) BY EqualSays
<1> HIDE DEF f, g, h
<1>8. IsCircuit(DivOverflow(c)) /\ (Satisfied(DivOverflow(c)) => Satisfied(f) /\ Satisfied(g) /\ Satisfied(h))
  BY <1>2, <1>5, <1>6, <1>7, ThreeSay
<1>9. ASSUME Satisfied(DivOverflow(c)) PROVE over = (IF x = 0 /\ y = 0 THEN 1 ELSE 0)
  <2> DEFINE e == zx.is_zero * zy.is_zero
  <2>1. e = (IF x = 0 /\ y = 0 THEN 1 ELSE 0) BY <1>5, <1>6, <1>8, <1>9
  <2>2. Field(over - e) = 0 BY <1>7, <1>8, <1>9
  <2> HIDE DEF e
  <2>3. over \in Int /\ over >= 0 /\ over < P BY ElementsAre DEF DivCells
  <2>4. over - e \in Int /\ -P < over - e /\ over - e < P BY <1>1, <2>1, <2>3
  <2>5. over - e = 0 BY <2>2, <2>4, NoWrap
  <2> QED BY <2>1, <2>3, <2>5
<1> QED BY <1>3, <1>8, <1>9 DEF a, b

LEMMA DivSignedSays ==
    ASSUME NEW kind, SignedDiv(kind), NEW c, DivCells(kind, c), IsLimbs(c.dividend), IsLimbs(c.divisor),
           IsLimbs(c.quotient), IsLimbs(c.remainder),
           NEW x, x = SignedOf(WordOf(c.dividend)), NEW y, y = SignedOf(WordOf(c.divisor)),
           NEW q, q = SignedOf(WordOf(c.quotient)), NEW m, m = SignedOf(WordOf(c.remainder))
    PROVE  /\ IsCircuit(DivEquation(kind, c))
           /\ Satisfied(DivEquation(kind, c)) =>
                /\ q * y + m = (IF x = -SignedMin /\ y = -1 THEN SignedMin ELSE x)
                /\ RemainderPos(c) = (IF x < 0 THEN -m ELSE m) /\ RemainderPos(c) >= 0
                /\ DivisorPos(c) = Magnitude(y)
<1> DEFINE v == DivValues(c)  over == c.is_signed_overflow.value  pos == RemainderPos(c)
           f1 == IsNegative(c.dividend, c.dividend_signed)  f2 == IsNegative(c.divisor, c.divisor_signed)
           f3 == IsNegative(c.quotient, c.quotient_signed)  f4 == IsNegative(c.remainder, c.remainder_signed)
           signs == DivSigns(c)  overflow == DivOverflow(c)
           e == v.quotient * v.divisor + v.remainder
           eq == ConditionRequireEqual(over, e, SignedMin, v.dividend)
           lt == AssertLt(-1, pos, c.remainder_nonnegative)
<1>1. /\ IsCircuit(f1) /\ (Satisfied(f1) => v.dividend = x /\ c.dividend_signed.msb = (IF x < 0 THEN 1 ELSE 0))
      /\ IsCircuit(f2) /\ (Satisfied(f2) => v.divisor = y /\ c.divisor_signed.msb = (IF y < 0 THEN 1 ELSE 0))
      /\ IsCircuit(f3) /\ (Satisfied(f3) => v.quotient = q)
      /\ IsCircuit(f4) /\ (Satisfied(f4) => v.remainder = m)
  BY NegativeSays DEF DivCells, DivValues
<1>2. signs = f1 \o f2 \o f3 \o f4 BY DEF DivSigns
<1>3. DivEquation(kind, c) = signs \o overflow \o eq \o lt BY DEF DivEquation
<1>4. pos = (1 - 2 * c.dividend_signed.msb) * v.remainder
      /\ DivisorPos(c) = (1 - 2 * c.divisor_signed.msb) * v.divisor
  BY DEF RemainderPos, DivisorPos
<1>5. IsCircuit(overflow)
      /\ (Satisfied(overflow) => over = (IF x = -SignedMin /\ y = -1 THEN 1 ELSE 0))
  BY DivOverflowSays
<1>6. IsCircuit(eq)
      /\ (Satisfied(eq) => Field(e - (over * SignedMin + (1 - over) * v.dividend)) = 0)
  BY EqualSays DEF ConditionRequireEqual
<1>7. IsCircuit(lt) BY SilentAssertLt DEF Silent, Says
<1> HIDE DEF f1, f2, f3, f4, v, signs, overflow, eq
<1>8. IsCircuit(signs)
      /\ (Satisfied(signs) => Satisfied(f1) /\ Satisfied(f2) /\ Satisfied(f3) /\ Satisfied(f4))
  BY <1>1, <1>2, FourSay
<1>9. /\ x \in -SignedMin .. SignedMin - 1 /\ y \in -SignedMin .. SignedMin - 1
      /\ q \in -SignedMin .. SignedMin - 1 /\ m \in -SignedMin .. SignedMin - 1
  BY LimbsAreWords, SignedBounds
<1>10. SignedMin \in Nat /\ SignedMin >= 8 /\ WordRange = 2 * SignedMin /\ P \in Nat BY HalfWord
<1>11. ASSUME NEW d, d = DivEquation(kind, c)
       PROVE  IsCircuit(d) /\ (Satisfied(d) => Satisfied(signs) /\ Satisfied(overflow) /\ Satisfied(eq) /\ Satisfied(lt))
  <2> HIDE DEF lt
  <2> QED BY <1>3, <1>5, <1>6, <1>7, <1>8, <1>11, FourSay
<1>12. ASSUME Satisfied(DivEquation(kind, c))
       PROVE  /\ q * y + m = (IF x = -SignedMin /\ y = -1 THEN SignedMin ELSE x)
              /\ RemainderPos(c) = (IF x < 0 THEN -m ELSE m) /\ RemainderPos(c) >= 0
              /\ DivisorPos(c) = Magnitude(y)
  <2> DEFINE H == SignedMin  target == IF x = -H /\ y = -1 THEN H ELSE x
  <2>1. Satisfied(signs) /\ Satisfied(overflow) /\ Satisfied(eq) /\ Satisfied(lt) BY <1>11, <1>12
  <2>2. /\ v.dividend = x /\ c.dividend_signed.msb = (IF x < 0 THEN 1 ELSE 0)
        /\ v.divisor = y /\ c.divisor_signed.msb = (IF y < 0 THEN 1 ELSE 0) /\ v.quotient = q /\ v.remainder = m
    BY <1>1, <1>8, <2>1
  <2>3. pos = IF x < 0 THEN -m ELSE m
    <3>1. CASE x < 0 BY <1>4, <1>9, <1>10, <2>2, <3>1
    <3>2. CASE ~(x < 0) BY <1>4, <1>9, <1>10, <2>2, <3>2
    <3> QED BY <3>1, <3>2
  <2>4. DivisorPos(c) = Magnitude(y)
    <3>1. CASE y < 0 BY <1>4, <1>9, <1>10, <2>2, <3>1 DEF Magnitude
    <3>2. CASE ~(y < 0) BY <1>4, <1>9, <1>10, <2>2, <3>2 DEF Magnitude
    <3> QED BY <3>1, <3>2
  <2>5. pos >= 0
    <3> HIDE DEF pos
    <3>1. /\ pos \in Int /\ -1 \in Int /\ -1 - pos < WordRange /\ pos - (-1) < WordRange
      BY <1>9, <1>10, <2>3
    <3>2. c.remainder_nonnegative.limb[1] \in Elements /\ c.remainder_nonnegative.limb[2] \in Elements
      BY DEF DivCells
    <3>3. lt = InnerLt(-1, pos, 1, c.remainder_nonnegative) BY DEF AssertLt
    <3>4. 1 = 1 <=> -1 < pos BY <2>1, <3>1, <3>2, <3>3, InnerLtSays
    <3> QED BY <3>1, <3>4
  <2>6. q * y + m = target
    <3>1. over = (IF x = -H /\ y = -1 THEN 1 ELSE 0) BY <1>5, <2>1
    <3>2. over * H + (1 - over) * x = target
      <4>1. CASE x = -H /\ y = -1 BY <1>9, <1>10, <3>1, <4>1
      <4>2. CASE ~(x = -H /\ y = -1) BY <1>9, <1>10, <3>1, <4>2
      <4> QED BY <4>1, <4>2
    <3>3. Field((q * y + m) - target) = 0
      <4> DEFINE s == q * y + m  t == over * H + (1 - over) * v.dividend
      <4>1. Field(e - t) = 0 BY <1>6, <2>1
      <4>2. e = s BY <2>2
      <4>3. t = target BY <2>2, <3>2
      <4> HIDE DEF e, s, t, target
      <4>4. Field(s - target) = 0 BY <4>1, <4>2, <4>3
      <4> QED BY <4>4 DEF s
    <3>4. target \in Int /\ -H <= target /\ target <= H BY <1>9, <1>10
    <3> HIDE DEF target
    <3>5. -(H * H) <= q * y /\ q * y <= H * H /\ q * y \in Int
      <4>1. q \in -H .. H /\ y \in -H .. H BY <1>9, <1>10
      <4> QED BY <1>10, <4>1, ProductBetween
    <3>6. H * H + 2 * H < P /\ H * H \in Int
      <4>1. P > WordRange * (WordRange - 1) BY FieldAssumption, HalfWord
      <4>2. WordRange * (WordRange - 1) = 4 * (H * H) - 2 * H BY <1>10
      <4>3. H * H >= 8 * H /\ H * H \in Int BY <1>10
      <4> HIDE DEF H
      <4>4. WordRange * (WordRange - 1) \in Int /\ H \in Nat BY <1>10 DEF H
      <4> QED BY <1>10, <4>1, <4>2, <4>3, <4>4
    <3>7. (q * y + m) - target \in Int /\ -P < (q * y + m) - target /\ (q * y + m) - target < P
      BY <1>9, <1>10, <3>4, <3>5, <3>6
    <3>8. (q * y + m) - target = 0 BY <3>3, <3>7, NoWrap
    <3> QED BY <1>9, <1>10, <3>4, <3>5, <3>8
  <2> QED BY <2>3, <2>4, <2>5, <2>6
<1> QED BY <1>11, <1>12

\* div.rs: whatever the cells of the row, the constraints of DivRemConfig leave
\* the quotient and the remainder no choice: they are those of the instruction,
\* by zero and at the signed overflow as well.
THEOREM DivisionsDecided ==
    ASSUME NEW kind \in DivKinds, NEW r, IsLimbs(r.cells.dividend), IsLimbs(r.cells.divisor),
           DivCells(kind, r.cells), Satisfied(DivCircuit(kind, r))
    PROVE  LET c == r.cells
               a == WordOf(c.dividend)
               b == WordOf(c.divisor)
           IN  /\ IsLimbs(c.quotient) /\ IsLimbs(c.remainder)
               /\ WordOf(c.quotient) = Compute(IF SignedDiv(kind) THEN "DIV" ELSE "DIVU", a, b)
               /\ WordOf(c.remainder) = Compute(IF SignedDiv(kind) THEN "REM" ELSE "REMU", a, b)
<1> DEFINE c == r.cells  a == WordOf(c.dividend)  b == WordOf(c.divisor)
           q == WordOf(c.quotient)  m == WordOf(c.remainder)
           z == c.is_divisor_zero  d == c.is_remainder_lt_divisor
           f1 == UInt(c.quotient)  f2 == UInt(c.remainder)  f3 == DivEquation(kind, c)
           f4 == IsZero(ValueOf(c.divisor), z)
           g1 == ConditionRequireEqual(z.is_zero, ValueOf(c.quotient), WordMax, ValueOf(c.quotient))
           g2 == RemainderLess(kind, c)
           g3 == RequireEqual(z.is_zero + d.is_lt, 1)
           g4 == RInsn(r, kind, c.dividend, c.divisor, IF kind \in {"DIV", "DIVU"} THEN c.quotient ELSE c.remainder)
           e1 == f1 \o f2 \o f3 \o f4  e2 == e1 \o g1  e3 == e2 \o g2  e4 == e3 \o g3
<1>1. DivCircuit(kind, r) = e4 \o g4 BY DEF DivCircuit
<1>2. IsCircuit(f1) /\ (Satisfied(f1) => IsLimbs(c.quotient)) BY UIntSays DEF DivCells
<1>3. IsCircuit(f2) /\ (Satisfied(f2) => IsLimbs(c.remainder)) BY UIntSays DEF DivCells
<1>4. IsCircuit(f3) BY SilentDivEquation DEF Silent, Says
<1>5. /\ a \in Words /\ b \in Words /\ ValueOf(c.dividend) = a /\ ValueOf(c.divisor) = b
  BY LimbsAreWords
<1>6. IsCircuit(f4) /\ (Satisfied(f4) => z.is_zero = (IF b = 0 THEN 1 ELSE 0))
  <2>1. b \in Int /\ -P < b /\ b < P BY <1>5, HalfWord
  <2>2. f4 = IsZero(b, z) BY <1>5
  <2> HIDE DEF b, f4, z, c
  <2>3. z.is_zero \in Elements /\ z.inverse \in Elements BY DEF DivCells, FlagCells, z, c
  <2> QED BY <2>1, <2>2, <2>3, IsZeroSays
<1>7. IsCircuit(g1) /\ (Satisfied(g1) =>
        Field(ValueOf(c.quotient) - (z.is_zero * WordMax + (1 - z.is_zero) * ValueOf(c.quotient))) = 0)
  BY EqualSays DEF ConditionRequireEqual
<1>8. IsCircuit(g2) BY SilentIsLt DEF RemainderLess, Silent, Says
<1>9. IsCircuit(g3) /\ (Satisfied(g3) => Field((z.is_zero + d.is_lt) - 1) = 0)
  <2> DEFINE e == z.is_zero + d.is_lt
  <2>1. g3 = RequireEqual(e, 1) OBVIOUS
  <2> HIDE DEF e, g3
  <2>2. IsCircuit(g3) /\ (Satisfied(g3) => Field(e - 1) = 0) BY <2>1, EqualSays
  <2> QED BY <2>2 DEF e
<1>10. IsCircuit(g4) BY RInsnIs
<1> HIDE DEF f1, f2, f3, f4, g1, g2, g3, g4
<1>11. IsCircuit(e1) /\ (Satisfied(e1) => Satisfied(f1) /\ Satisfied(f2) /\ Satisfied(f3) /\ Satisfied(f4))
  BY <1>2, <1>3, <1>4, <1>6, FourSay
<1> HIDE DEF e1
<1>12. IsCircuit(e2) /\ (Satisfied(e2) => Satisfied(e1) /\ Satisfied(g1)) BY <1>7, <1>11, SatisfiedParts
<1> HIDE DEF e2
<1>13. IsCircuit(e3) /\ (Satisfied(e3) => Satisfied(e2) /\ Satisfied(g2)) BY <1>8, <1>12, SatisfiedParts
<1> HIDE DEF e3
<1>14. IsCircuit(e4) /\ (Satisfied(e4) => Satisfied(e3) /\ Satisfied(g3)) BY <1>9, <1>13, SatisfiedParts
<1> HIDE DEF e4
<1>15. Satisfied(e4) BY <1>1, <1>10, <1>14, SatisfiedParts
<1>16. /\ Satisfied(f1) /\ Satisfied(f2) /\ Satisfied(f3) /\ Satisfied(f4)
       /\ Satisfied(g1) /\ Satisfied(g2) /\ Satisfied(g3)
  BY <1>11, <1>12, <1>13, <1>14, <1>15
<1>17. IsLimbs(c.quotient) /\ IsLimbs(c.remainder) BY <1>2, <1>3, <1>16
<1>18. q \in Words /\ m \in Words /\ ValueOf(c.quotient) = q /\ ValueOf(c.remainder) = m BY <1>17, LimbsAreWords
<1>19. z.is_zero = (IF b = 0 THEN 1 ELSE 0) BY <1>6, <1>16
<1>20. /\ WordRange \in Nat /\ WordRange >= 16 /\ WordMax = WordRange - 1 /\ Words = 0 .. WordRange - 1
       /\ P \in Nat /\ P > 8 * WordRange /\ LtCells(d)
  BY HalfWord DEF DivCells
<1> HIDE DEF a, b, q, m, z, d, c
<1>21. b = 0 => q = WordMax
  <2>1. ASSUME b = 0 PROVE q = WordMax
    <3>1. z.is_zero = 1 BY <1>19, <2>1
    <3>2. z.is_zero * WordMax + (1 - z.is_zero) * q = WordMax BY <1>18, <1>20, <3>1
    <3>3. Field(q - WordMax) = 0 BY <1>7, <1>16, <1>18, <3>2
    <3>4. q - WordMax \in Int /\ -P < q - WordMax /\ q - WordMax < P BY <1>18, <1>20
    <3>5. q - WordMax = 0 BY <3>3, <3>4, NoWrap
    <3> QED BY <1>18, <1>20, <3>5
  <2> QED BY <2>1
<1>22. d.is_lt = 1 <=> b # 0
  <2> DEFINE e == (z.is_zero + d.is_lt) - 1
  <2>1. d.is_lt \in Int /\ 0 <= d.is_lt /\ d.is_lt < P BY <1>20, ElementsAre DEF LtCells
  <2>2. z.is_zero \in {0, 1} /\ (z.is_zero = 1 <=> b = 0) BY <1>19
  <2>3. ASSUME e = 0 PROVE d.is_lt = 1 <=> b # 0 BY <2>1, <2>2, <2>3
  <2>4. Field(e) = 0 BY <1>9, <1>16
  <2>5. e = (z.is_zero + d.is_lt) - 1 OBVIOUS
  <2> HIDE DEF e
  <2>6. e \in Int /\ -P < e /\ e < P BY <1>20, <2>1, <2>2, <2>5
  <2> QED BY <2>3, <2>4, <2>6, NoWrap
<1>23. CASE SignedDiv(kind)
  <2> DEFINE x == SignedOf(a)  y == SignedOf(b)  qs == SignedOf(q)  ms == SignedOf(m)  pos == RemainderPos(c)
             H == SignedMin
  <2>1. DivCells(kind, c) BY DEF c
  <2>2. IsLimbs(c.dividend) /\ IsLimbs(c.divisor) BY DEF c
  <2>3. /\ qs * y + ms = (IF x = -SignedMin /\ y = -1 THEN SignedMin ELSE x)
        /\ pos = (IF x < 0 THEN -ms ELSE ms) /\ pos >= 0 /\ DivisorPos(c) = Magnitude(y)
    BY <1>16, <1>17, <1>23, <2>1, <2>2, DivSignedSays DEF f3, a, b, q, m
  <2>4. g2 = IsLt(pos, Magnitude(y), d) BY <1>23, <2>3 DEF g2, RemainderLess, d
  <2>5. /\ H \in Nat /\ H >= 8 /\ WordRange = 2 * H /\ x \in -H .. H - 1 /\ y \in -H .. H - 1 /\ ms \in -H .. H - 1
    BY <1>5, <1>18, HalfWord, SignedBounds DEF a, b
  <2> HIDE DEF x, y, qs, ms, pos, H
  <2>6. pos \in Int /\ pos <= H BY <2>3, <2>5
  <2>7. Magnitude(y) \in 0 .. H BY <2>5 DEF Magnitude
  <2> DEFINE Y == Magnitude(y)
  <2>8. Y \in Int /\ 0 <= Y /\ Y <= H BY <2>5, <2>7
  <2> HIDE DEF Y
  <2>9. pos - Y < WordRange /\ Y - pos < WordRange BY <2>3, <2>5, <2>6, <2>8
  <2>10. d.is_lt = 1 <=> pos < Y
    <3>1. Satisfied(IsLt(pos, Y, d)) BY <1>16, <2>4 DEF Y
    <3> QED BY <1>20, <2>6, <2>8, <2>9, <3>1, IsLtSays DEF LtCells
  <2>11. b # 0 => IF x < 0 THEN -ms \in 0 .. Y - 1 ELSE ms \in 0 .. Y - 1
    <3>1. ASSUME b # 0 PROVE pos >= 0 /\ pos <= Y - 1 BY <1>22, <2>3, <2>6, <2>8, <2>10, <3>1
    <3>2. CASE x < 0 BY <2>3, <2>5, <2>6, <2>8, <3>1, <3>2
    <3>3. CASE ~(x < 0) BY <2>3, <2>5, <2>6, <2>8, <3>1, <3>3
    <3> QED BY <3>2, <3>3
  <2>12. q = Compute("DIV", a, b) /\ m = Compute("REM", a, b)
    <3>1. a \in Words /\ b \in Words BY <1>5
    <3> QED BY <1>18, <1>21, <2>3, <2>11, <3>1, SignedDivisionUnique DEF x, y, qs, ms, Y
  <2> QED BY <1>17, <1>23, <2>12 DEF a, b, q, m, c
<1>24. CASE ~SignedDiv(kind)
  <2> DEFINE W == WordRange
  <2>1. f3 = RequireEqual(a, b * q + m)
    <3>1. ValueOf(c.dividend) = a /\ ValueOf(c.divisor) = b BY <1>5
    <3> QED BY <1>18, <1>24, <3>1 DEF f3, DivEquation
  <2>2. g2 = IsLt(m, b, d)
    <3>1. ValueOf(c.divisor) = b BY <1>5
    <3> QED BY <1>18, <1>24, <3>1 DEF g2, RemainderLess, d
  <2>3. /\ a \in Int /\ 0 <= a /\ a < W /\ b \in Int /\ 0 <= b /\ b < W
        /\ q \in Int /\ 0 <= q /\ q < W /\ m \in Int /\ 0 <= m /\ m < W /\ W \in Nat /\ W >= 16
    BY <1>5, <1>18, <1>20
  <2>4. Field(a - (b * q + m)) = 0 BY <1>16, <2>1, EqualSays
  <2>5. b * q \in Int /\ 0 <= b * q /\ b * q <= (W - 1) * (W - 1)
    <3>1. b \in Nat /\ q \in Nat /\ b <= W - 1 /\ q <= W - 1 /\ W - 1 \in Nat BY <2>3
    <3>2. b \in -(W - 1) .. W - 1 /\ q \in -(W - 1) .. W - 1 BY <3>1
    <3>3. b * q <= (W - 1) * (W - 1) BY <3>1, <3>2, ProductBetween
    <3> QED BY <3>1, <3>3
  <2>6. P > W * (W - 1) BY <1>20, FieldAssumption
  <2>7. (W - 1) * (W - 1) = W * (W - 1) - (W - 1) /\ W * (W - 1) \in Int BY <2>3
  <2>8. a - (b * q + m) \in Int /\ -P < a - (b * q + m) /\ a - (b * q + m) < P
    <3> HIDE DEF W
    <3>1. P > W BY <1>20, <2>3 DEF W
    <3> QED BY <1>20, <2>3, <2>5, <2>6, <2>7, <3>1
  <2>9. a = b * q + m
    <3>1. a - (b * q + m) = 0 BY <2>4, <2>8, NoWrap
    <3> QED BY <2>3, <2>5, <3>1
  <2>10. d.is_lt = 1 <=> m < b
    <3>1. m - b < WordRange /\ b - m < WordRange BY <2>3
    <3>2. Satisfied(IsLt(m, b, d)) BY <1>16, <2>2
    <3> QED BY <1>20, <2>3, <3>1, <3>2, IsLtSays DEF LtCells
  <2>11. a \in Words /\ b \in Words BY <1>5
  <2>12. q = Compute("DIVU", a, b) /\ m = Compute("REMU", a, b)
    BY <1>18, <1>21, <1>22, <2>9, <2>10, <2>11, UnsignedDivisionUnique
  <2> QED BY <1>17, <1>24, <2>12 DEF a, b, q, m, c
<1> QED BY <1>23, <1>24
===============================================================================
