------------------------- MODULE CircuitGadgetsProofs -------------------------
(***************************************************************************)
(* Soundness of the gadgets, for every width and field: cells that satisfy *)
(* what construct_circuit asks have the meaning the gadget is used for,    *)
(* whoever filled them.  (InstructionCircuits checks the converse, that    *)
(* the cells the code assigns satisfy the circuit.)  The cells are any     *)
(* elements of the field; a lookup holds when the value is in the range.   *)
(***************************************************************************)
EXTENDS CircuitGadgets, SequenceTheorems, TLAPS

Elements == 0 .. P - 1
LimbWords == 0 .. LimbRange - 1

\* A row satisfies the constraints of a circuit and its range lookups.
InRange(l) == l[1] = "U" => l[3] \in 0 .. 2 ^ l[2] - 1
Holds(ask) == /\ ask.ask = "zero" => ask.of = 0
              /\ ask.ask = "lookup" => InRange(ask.of)
Satisfied(circuit) == \A i \in DOMAIN circuit : Holds(circuit[i])

\* The sizes of the field, of a word and of a limb.
LEMMA Sizes ==
    /\ LimbRange \in Nat /\ LimbRange >= 4 /\ WordRange = LimbRange * LimbRange
    /\ WordRange \in Nat /\ WordRange >= 4 * LimbRange
    /\ P \in Nat /\ P > 8 * WordRange
    /\ Words = 0 .. WordRange - 1
<1>1. LimbRange \in Nat /\ LimbRange >= 4 /\ WordRange = LimbRange * LimbRange
  BY PowerAssumption
<1>2. WordRange \in Nat /\ WordRange >= 4 * LimbRange /\ WordRange >= 16 BY <1>1
<1>3. P \in Nat BY WidthAssumption
<1>4. Words = 0 .. WordRange - 1 BY DEF Words, WordMax
<1>5. P > 8 * WordRange
  <2> DEFINE w == WordRange
  <2>1. P > w * (w - 1) BY FieldAssumption DEF WordMax
  <2>2. w \in Nat /\ w >= 16 BY <1>2
  <2> HIDE DEF w
  <2>3. w * (w - 1) >= w * 8 BY <2>2
  <2>4. w * (w - 1) \in Int /\ w * 8 \in Int BY <2>2
  <2>5. P > 8 * w BY <1>3, <2>1, <2>2, <2>3, <2>4
  <2> QED BY <2>5 DEF w
<1> QED BY <1>1, <1>2, <1>3, <1>4, <1>5

\* Small integers stand for themselves or for their sum with P.
LEMMA SmallField ==
    ASSUME NEW x \in Int, -P < x, x < P
    PROVE  /\ Field(x) \in Elements
           /\ Field(x) = IF x >= 0 THEN x ELSE x + P
  BY Sizes DEF Field, Elements

\* A circuit is a sequence, of whatever its constraints are.
IsCircuit(f) == \E S : f \in Seq(S)

\* A circuit of two parts asks what its parts ask.
LEMMA SatisfiedParts ==
    ASSUME NEW f, NEW g, IsCircuit(f), IsCircuit(g)
    PROVE  /\ IsCircuit(f \o g)
           /\ Satisfied(f \o g) => Satisfied(f) /\ Satisfied(g)
<1>1. PICK U : f \in Seq(U) BY DEF IsCircuit
<1>2. PICK V : g \in Seq(V) BY DEF IsCircuit
<1> DEFINE S == U \cup V
<1>3. f \in Seq(S) /\ g \in Seq(S)
  <2>1. /\ Len(f) \in Nat /\ DOMAIN f = 1 .. Len(f) /\ f \in [1 .. Len(f) -> U]
        /\ Len(g) \in Nat /\ DOMAIN g = 1 .. Len(g) /\ g \in [1 .. Len(g) -> V]
    BY <1>1, <1>2, LenProperties
  <2>2. f \in [1 .. Len(f) -> S] /\ g \in [1 .. Len(g) -> S] BY <2>1
  <2> QED BY <2>1, <2>2, SeqDef
<1> HIDE DEF S
<1> DEFINE h == f \o g
<1>4. /\ h \in Seq(S) /\ Len(h) = Len(f) + Len(g)
      /\ \A i \in 1 .. Len(f) + Len(g) : h[i] = IF i <= Len(f) THEN f[i] ELSE g[i - Len(f)]
  BY <1>3, ConcatProperties
<1>5. Len(f) \in Nat /\ DOMAIN f = 1 .. Len(f) /\ Len(g) \in Nat /\ DOMAIN g = 1 .. Len(g)
      /\ DOMAIN h = 1 .. Len(f) + Len(g)
  BY <1>3, <1>4, LenProperties
<1> HIDE DEF h
<1>6. ASSUME Satisfied(h) PROVE Satisfied(f) /\ Satisfied(g)
  <2>1. \A i \in DOMAIN h : Holds(h[i]) BY <1>6 DEF Satisfied
  <2>2. ASSUME NEW i \in DOMAIN f PROVE Holds(f[i])
    <3>1. i \in DOMAIN h /\ h[i] = f[i] BY <1>4, <1>5
    <3> QED BY <2>1, <3>1
  <2>3. ASSUME NEW i \in DOMAIN g PROVE Holds(g[i])
    <3>1. Len(f) + i \in DOMAIN h /\ h[Len(f) + i] = g[i] BY <1>4, <1>5
    <3> QED BY <2>1, <3>1
  <2> QED BY <2>2, <2>3 DEF Satisfied
<1>7. IsCircuit(h) BY <1>4 DEF IsCircuit
<1> QED BY <1>6, <1>7 DEF h

\* A circuit that asks one thing.
LEMMA SatisfiedOne == ASSUME NEW r PROVE IsCircuit(<<r>>) /\ (Satisfied(<<r>>) => Holds(r))
<1>1. <<r>> \in Seq({r}) OBVIOUS
<1>2. 1 \in DOMAIN <<r>> /\ <<r>>[1] = r OBVIOUS
<1> QED BY <1>1, <1>2 DEF IsCircuit, Satisfied

\* What a constraint says.
LEMMA ZeroSays ==
    ASSUME NEW x
    PROVE  IsCircuit(RequireZero(x)) /\ (Satisfied(RequireZero(x)) => Field(x) = 0)
<1> DEFINE r == [ask |-> "zero", of |-> Field(x)]
<1>1. r.ask = "zero" /\ r.of = Field(x) OBVIOUS
<1>2. RequireZero(x) = <<r>> BY DEF RequireZero
<1> HIDE DEF r
<1> QED BY <1>1, <1>2, SatisfiedOne DEF Holds

\* What a range lookup of a limb says.
LEMMA LimbSays ==
    ASSUME NEW x
    PROVE  /\ IsCircuit(AssertUx(LimbBits, x))
           /\ Satisfied(AssertUx(LimbBits, x)) => Field(x) \in LimbWords
<1> DEFINE l == <<"U", LimbBits, Field(x)>>
           r == [ask |-> "lookup", of |-> l]
<1>1. r.ask = "lookup" /\ r.of = l /\ l[1] = "U" /\ l[2] = LimbBits /\ l[3] = Field(x) OBVIOUS
<1>2. AssertUx(LimbBits, x) = <<r>> BY DEF AssertUx, Lookup
<1> HIDE DEF r, l
<1> QED BY <1>1, <1>2, SatisfiedOne DEF Holds, InRange, LimbWords, LimbRange

\* A bit is 0 or 1.
LEMMA BitSays ==
    ASSUME NEW x \in Elements
    PROVE  IsCircuit(AssertBit(x)) /\ (Satisfied(AssertBit(x)) => x \in {0, 1})
<1>1. IsCircuit(AssertBit(x)) /\ (Satisfied(AssertBit(x)) => Field(x * (1 - x)) = 0)
  BY ZeroSays DEF AssertBit
<1>2. x \in Nat /\ x < P /\ P \in Nat /\ P > 1 BY Sizes DEF Elements
<1>3. x \in 1 - P .. P - 1 /\ 1 - x \in 1 - P .. P - 1 BY <1>2
<1>4. (x * (1 - x)) % P = 0 => x = 0 \/ 1 - x = 0 BY <1>3, FieldAssumption
<1> QED BY <1>1, <1>2, <1>4 DEF Field

\* The word of two limbs, and limbs that are looked up.
WordOf(u) == u.limb[1] + u.limb[2] * LimbRange
IsLimbs(u) == u.limb[1] \in LimbWords /\ u.limb[2] \in LimbWords

\* Two limbs that are looked up are a word.
LEMMA LimbsAreWord ==
    ASSUME NEW u, IsLimbs(u)
    PROVE  /\ WordOf(u) \in Words /\ ValueOf(u) = WordOf(u)
           /\ WordOf(u) \in Nat /\ WordOf(u) < WordRange
<1> DEFINE a == u.limb[1]  b == u.limb[2]  L == LimbRange
<1>1. L \in Nat /\ L >= 4 /\ WordRange = L * L /\ WordRange \in Nat
      /\ P \in Nat /\ P > 8 * WordRange /\ Words = 0 .. WordRange - 1
  BY Sizes
<1>2. a \in 0 .. L - 1 /\ b \in 0 .. L - 1 BY DEF IsLimbs, LimbWords
<1> HIDE DEF a, b, L
<1>3. b * L <= (L - 1) * L /\ b * L \in Nat BY <1>1, <1>2
<1>4. (L - 1) * L = L * L - L BY <1>1
<1>5. a + b * L \in Nat /\ a + b * L < WordRange BY <1>1, <1>2, <1>3, <1>4
<1>6. WordOf(u) = a + b * L BY DEF WordOf, a, b, L
<1>7. Field(WordOf(u)) = WordOf(u) BY <1>1, <1>5, <1>6, SmallField
<1>8. ValueOf(u) = Field(WordOf(u)) BY DEF ValueOf, WordOf
<1> QED BY <1>1, <1>5, <1>6, <1>7, <1>8

\* What UInt asks of the limbs of a word.
LEMMA UIntSays ==
    ASSUME NEW u, u.limb[1] \in Elements, u.limb[2] \in Elements
    PROVE  IsCircuit(UInt(u)) /\ (Satisfied(UInt(u)) => IsLimbs(u))
<1>1. Field(u.limb[1]) = u.limb[1] /\ Field(u.limb[2]) = u.limb[2]
  BY Sizes, SmallField DEF Elements
<1> QED BY <1>1, LimbSays, SatisfiedParts DEF UInt, IsLimbs
-----------------------------------------------------------------------------
\* A difference that vanishes in the field vanishes.
LEMMA NoWrap ==
    ASSUME NEW x \in Int, -P < x, x < P, Field(x) = 0 PROVE x = 0
  BY Sizes, SmallField

\* What the comparison of two integers asks.
LEMMA InnerLtSays ==
    ASSUME NEW lhs \in Int, NEW rhs \in Int, NEW lt \in {0, 1}, NEW d,
           lhs - rhs < WordRange, rhs - lhs < WordRange,
           d.limb[1] \in Elements, d.limb[2] \in Elements
    PROVE  /\ IsCircuit(InnerLt(lhs, rhs, lt, d))
           /\ Satisfied(InnerLt(lhs, rhs, lt, d)) => (lt = 1 <=> lhs < rhs)
<1> DEFINE gap == lhs - rhs - (ValueOf(d) - lt * WordRange)
<1>1. IsCircuit(UInt(d)) /\ (Satisfied(UInt(d)) => IsLimbs(d)) BY UIntSays
<1>2. IsCircuit(RequireZero(gap)) /\ (Satisfied(RequireZero(gap)) => Field(gap) = 0) BY ZeroSays
<1>3. InnerLt(lhs, rhs, lt, d) = UInt(d) \o RequireZero(gap) BY DEF InnerLt, RequireEqual
<1>4. /\ IsCircuit(InnerLt(lhs, rhs, lt, d))
      /\ Satisfied(InnerLt(lhs, rhs, lt, d)) => IsLimbs(d) /\ Field(gap) = 0
  BY <1>1, <1>2, <1>3, SatisfiedParts
<1>5. ASSUME IsLimbs(d), Field(gap) = 0 PROVE lt = 1 <=> lhs < rhs
  <2> DEFINE v == ValueOf(d)
  <2>1. v \in Nat /\ v < WordRange BY <1>5, LimbsAreWord
  <2>2. WordRange \in Nat /\ P \in Nat /\ P > 8 * WordRange BY Sizes
  <2> HIDE DEF v
  <2>3. gap \in Int /\ -P < gap /\ gap < P
    <3>1. gap = lhs - rhs - (v - lt * WordRange) BY DEF v
    <3>2. lt * WordRange \in 0 .. WordRange BY <2>2
    <3> HIDE DEF gap
    <3> QED BY <2>1, <2>2, <3>1, <3>2
  <2>4. gap = 0 BY <1>5, <2>3, NoWrap
  <2>5. lhs - rhs = v - lt * WordRange BY <2>1, <2>2, <2>4 DEF v
  <2>6. CASE lt = 0 BY <2>1, <2>2, <2>5, <2>6
  <2>7. CASE lt = 1 BY <2>1, <2>2, <2>5, <2>7
  <2> QED BY <2>6, <2>7
<1> QED BY <1>4, <1>5

\* IsLtConfig: on two words, cells that satisfy the circuit have is_lt = 1 exactly
\* when the first is less than the second (InnerLtConfig::construct_circuit).
THEOREM LessThanDecides ==
    ASSUME NEW lhs \in Words, NEW rhs \in Words, NEW d, d.is_lt \in Elements,
           d.limb[1] \in Elements, d.limb[2] \in Elements,
           Satisfied(IsLt(lhs, rhs, d))
    PROVE  d.is_lt \in {0, 1} /\ (d.is_lt = 1 <=> lhs < rhs)
<1>1. IsCircuit(AssertBit(d.is_lt)) /\ (Satisfied(AssertBit(d.is_lt)) => d.is_lt \in {0, 1})
  BY BitSays
<1>2. /\ lhs \in Int /\ rhs \in Int /\ lhs - rhs < WordRange /\ rhs - lhs < WordRange
  BY Sizes
<1>3. IsCircuit(InnerLt(lhs, rhs, d.is_lt, d))
  <2>1. IsCircuit(UInt(d)) BY UIntSays
  <2> QED BY <2>1, ZeroSays, SatisfiedParts DEF InnerLt, RequireEqual
<1>4. d.is_lt \in {0, 1} /\ Satisfied(InnerLt(lhs, rhs, d.is_lt, d))
  BY <1>1, <1>3, SatisfiedParts DEF IsLt
<1>5. d.is_lt = 1 <=> lhs < rhs BY <1>2, <1>4, InnerLtSays
<1> QED BY <1>4, <1>5
-----------------------------------------------------------------------------
\* What the top bit of a limb asks.
LEMMA TopBitSays ==
    ASSUME NEW x \in LimbWords, NEW s, s.msb \in Elements
    PROVE  /\ IsCircuit(SignedExtend(LimbBits, x, s))
           /\ Satisfied(SignedExtend(LimbBits, x, s)) =>
                s.msb \in {0, 1} /\ (s.msb = 1 <=> 2 * x >= LimbRange)
<1> DEFINE L == LimbRange
           y == 2 * x - s.msb * L
<1>1. IsCircuit(AssertBit(s.msb)) /\ (Satisfied(AssertBit(s.msb)) => s.msb \in {0, 1}) BY BitSays
<1>2. IsCircuit(AssertUx(LimbBits, y)) /\ (Satisfied(AssertUx(LimbBits, y)) => Field(y) \in LimbWords)
  BY LimbSays
<1>3. SignedExtend(LimbBits, x, s) = AssertBit(s.msb) \o AssertUx(LimbBits, y)
  BY DEF SignedExtend, LimbRange
<1>4. L \in Nat /\ L >= 4 /\ P \in Nat /\ P > 8 * L /\ x \in 0 .. L - 1 BY Sizes DEF LimbWords
<1>5. ASSUME s.msb \in {0, 1}, Field(y) \in LimbWords PROVE s.msb = 1 <=> 2 * x >= L
  <2>1. Field(y) \in 0 .. L - 1 BY <1>5 DEF LimbWords
  <2>2. CASE s.msb = 0
    <3>1. y = 2 * x BY <1>4, <2>2
    <3> HIDE DEF y, L
    <3>2. Field(y) = y BY <1>4, <3>1, SmallField
    <3> QED BY <1>4, <2>1, <2>2, <3>1, <3>2
  <2>3. CASE s.msb = 1
    <3>1. y = 2 * x - L BY <1>4, <2>3
    <3> HIDE DEF y, L
    <3>2. Field(y) = IF y >= 0 THEN y ELSE y + P BY <1>4, <3>1, SmallField
    <3> QED BY <1>4, <2>1, <2>3, <3>1, <3>2
  <2> QED BY <1>5, <2>2, <2>3
<1> HIDE DEF y
<1> QED BY <1>1, <1>2, <1>3, <1>5, SatisfiedParts DEF L

\* The top bit of the upper limb is the sign of the word.
LEMMA SignOfWord ==
    ASSUME NEW u, IsLimbs(u)
    PROVE  /\ WordOf(u) >= WordRange \div 2 <=> 2 * u.limb[2] >= LimbRange
           /\ SignedOf(WordOf(u)) = WordOf(u) - (IF 2 * u.limb[2] >= LimbRange THEN WordRange ELSE 0)
           /\ SignedOf(WordOf(u)) \in Int
           /\ 2 * SignedOf(WordOf(u)) < WordRange /\ 2 * SignedOf(WordOf(u)) >= -WordRange
<1> DEFINE a == u.limb[1]  b == u.limb[2]  L == LimbRange  h == L \div 2
           v == WordOf(u)  W == WordRange
<1>1. L \in Nat /\ L >= 4 /\ L % 2 = 0 /\ W = L * L /\ W \in Nat
  BY Sizes, PowerAssumption
<1>2. a \in 0 .. L - 1 /\ b \in 0 .. L - 1 BY DEF IsLimbs, LimbWords
<1>3. v = a + b * L BY DEF WordOf
<1>4. v \in Nat /\ v < W BY LimbsAreWord
<1> HIDE DEF a, b, L, v, W
<1>5. h \in Nat /\ L = 2 * h BY <1>1
<1> HIDE DEF h
<1>6. W = 2 * (h * L) /\ h * L \in Nat
  <2>1. W = (2 * h) * L BY <1>1, <1>5
  <2> QED BY <1>1, <1>5, <2>1
<1>7. W \div 2 = h * L BY <1>6
<1>8. b >= h => b * L >= h * L BY <1>1, <1>2, <1>5
<1>9. b < h => b * L + L <= h * L
  <2>1. ASSUME b < h PROVE b * L + L <= h * L
    <3>1. b + 1 <= h BY <1>2, <1>5, <2>1
    <3>2. (b + 1) * L <= h * L BY <1>1, <1>2, <1>5, <3>1
    <3>3. (b + 1) * L = b * L + L BY <1>1, <1>2
    <3> QED BY <3>2, <3>3
  <2> QED BY <2>1
<1>10. b * L \in Nat BY <1>1, <1>2
<1>11. v >= W \div 2 <=> 2 * b >= L
  <2>1. CASE b >= h BY <1>1, <1>2, <1>3, <1>5, <1>6, <1>7, <1>8, <1>10, <2>1
  <2>2. CASE b < h BY <1>1, <1>2, <1>3, <1>5, <1>6, <1>7, <1>9, <1>10, <2>2
  <2> QED BY <1>2, <1>5, <2>1, <2>2
<1>12. SignedOf(v) = IF v >= W \div 2 THEN v - W ELSE v BY DEF SignedOf, W
<1>13. /\ SignedOf(v) \in Int /\ 2 * SignedOf(v) < W /\ 2 * SignedOf(v) >= -W
       /\ SignedOf(v) = v - (IF 2 * b >= L THEN W ELSE 0)
  BY <1>1, <1>4, <1>6, <1>7, <1>11, <1>12
<1> QED BY <1>11, <1>13 DEF b, L, v, W

\* SignedLtConfig: on two words in limbs, cells that satisfy the circuit have
\* is_lt = 1 exactly when the first is less than the second as signed numbers
\* (SignedLtConfig::construct_circuit).
THEOREM SignedLessThanDecides ==
    ASSUME NEW a, NEW b, IsLimbs(a), IsLimbs(b), NEW d,
           d.lhs.msb \in Elements, d.rhs.msb \in Elements, d.lt.is_lt \in Elements,
           d.lt.limb[1] \in Elements, d.lt.limb[2] \in Elements,
           Satisfied(SignedLt(a, b, d))
    PROVE  /\ d.lt.is_lt \in {0, 1}
           /\ d.lt.is_lt = 1 <=> SignedOf(WordOf(a)) < SignedOf(WordOf(b))
<1> DEFINE x == IsNegative(a, d.lhs)
           y == IsNegative(b, d.rhs)
           z == AssertBit(d.lt.is_lt)
           lhs == ToField(a, d.lhs)
           rhs == ToField(b, d.rhs)
           w == InnerLt(lhs, rhs, d.lt.is_lt, d.lt)
<1>1. SignedLt(a, b, d) = ((x \o y) \o z) \o w BY DEF SignedLt
<1>2. /\ IsCircuit(x)
      /\ Satisfied(x) => d.lhs.msb \in {0, 1} /\ (d.lhs.msb = 1 <=> 2 * a.limb[2] >= LimbRange)
  BY TopBitSays DEF IsNegative, IsLimbs
<1>3. /\ IsCircuit(y)
      /\ Satisfied(y) => d.rhs.msb \in {0, 1} /\ (d.rhs.msb = 1 <=> 2 * b.limb[2] >= LimbRange)
  BY TopBitSays DEF IsNegative, IsLimbs
<1>4. IsCircuit(z) /\ (Satisfied(z) => d.lt.is_lt \in {0, 1}) BY BitSays
<1>5. IsCircuit(w)
  <2>1. IsCircuit(UInt(d.lt)) BY UIntSays
  <2> QED BY <2>1, ZeroSays, SatisfiedParts DEF InnerLt, RequireEqual
<1> HIDE DEF x, y, z, w
<1>6. IsCircuit(x \o y) /\ IsCircuit((x \o y) \o z) BY <1>2, <1>3, <1>4, SatisfiedParts
<1>7. Satisfied((x \o y) \o z) /\ Satisfied(w) BY <1>1, <1>5, <1>6, SatisfiedParts
<1>8. Satisfied(x \o y) /\ Satisfied(z) BY <1>4, <1>6, <1>7, SatisfiedParts
<1>9. Satisfied(x) /\ Satisfied(y) BY <1>2, <1>3, <1>8, SatisfiedParts
<1>10. lhs = SignedOf(WordOf(a))
  <2>1. ValueOf(a) = WordOf(a) /\ WordOf(a) \in Nat BY LimbsAreWord
  <2>2. WordRange \in Nat BY Sizes
  <2>3. lhs = WordOf(a) - d.lhs.msb * WordRange BY <2>1 DEF ToField
  <2> HIDE DEF lhs
  <2>4. SignedOf(WordOf(a)) = WordOf(a) - (IF 2 * a.limb[2] >= LimbRange THEN WordRange ELSE 0)
    BY SignOfWord
  <2> QED BY <1>2, <1>9, <2>1, <2>2, <2>3, <2>4
<1>11. rhs = SignedOf(WordOf(b))
  <2>1. ValueOf(b) = WordOf(b) /\ WordOf(b) \in Nat BY LimbsAreWord
  <2>2. WordRange \in Nat BY Sizes
  <2>3. rhs = WordOf(b) - d.rhs.msb * WordRange BY <2>1 DEF ToField
  <2> HIDE DEF rhs
  <2>4. SignedOf(WordOf(b)) = WordOf(b) - (IF 2 * b.limb[2] >= LimbRange THEN WordRange ELSE 0)
    BY SignOfWord
  <2> QED BY <1>3, <1>9, <2>1, <2>2, <2>3, <2>4
<1> HIDE DEF lhs, rhs
<1>12. lhs \in Int /\ rhs \in Int /\ lhs - rhs < WordRange /\ rhs - lhs < WordRange
  <2>1. /\ lhs \in Int /\ 2 * lhs < WordRange /\ 2 * lhs >= -WordRange
        /\ rhs \in Int /\ 2 * rhs < WordRange /\ 2 * rhs >= -WordRange /\ WordRange \in Nat
    BY <1>10, <1>11, SignOfWord, Sizes
  <2> QED BY <2>1
<1>13. d.lt.is_lt \in {0, 1} BY <1>4, <1>8
<1>14. d.lt.is_lt = 1 <=> lhs < rhs BY <1>7, <1>12, <1>13, InnerLtSays DEF w
<1> QED BY <1>10, <1>11, <1>13, <1>14
-----------------------------------------------------------------------------
\* UIntLimbs::add: on two words in limbs, carries that satisfy the circuit make the
\* result the sum of the words, reduced to a word (internal_add).
THEOREM AddIsSum ==
    ASSUME NEW a, NEW b, IsLimbs(a), IsLimbs(b), NEW c,
           c.carry[1] \in Elements, c.carry[2] \in Elements, Satisfied(Add(a, b, c))
    PROVE  /\ IsLimbs(SumOf(a, b, c))
           /\ WordOf(SumOf(a, b, c)) = Wrapped(WordOf(a) + WordOf(b))
<1> DEFINE L == LimbRange
           r == SumOf(a, b, c)
           x == AssertBit(c.carry[1])
           y == AssertBit(c.carry[2])
           s == a.limb[1] + b.limb[1] - c.carry[1] * L
           t == a.limb[2] + b.limb[2] + c.carry[1] - c.carry[2] * L
<1>1. L \in Nat /\ L >= 4 /\ WordRange = L * L /\ WordRange \in Nat /\ WordRange >= 4 * L
      /\ P \in Nat /\ P > 8 * WordRange
  BY Sizes
<1>2. a.limb[1] \in 0 .. L - 1 /\ a.limb[2] \in 0 .. L - 1
      /\ b.limb[1] \in 0 .. L - 1 /\ b.limb[2] \in 0 .. L - 1
  BY DEF IsLimbs, LimbWords
<1>3. Add(a, b, c) = (x \o y) \o UInt(r) BY DEF Add
<1>4. r.limb[1] = Field(s) /\ r.limb[2] = Field(t) BY DEF SumOf
<1>5. IsCircuit(x) /\ (Satisfied(x) => c.carry[1] \in {0, 1})
      /\ IsCircuit(y) /\ (Satisfied(y) => c.carry[2] \in {0, 1})
  BY BitSays
<1>6. IsCircuit(UInt(r))
  <2>1. IsCircuit(AssertUx(LimbBits, r.limb[1])) /\ IsCircuit(AssertUx(LimbBits, r.limb[2])) BY LimbSays
  <2> QED BY <2>1, SatisfiedParts DEF UInt
<1> HIDE DEF x, y, r
<1>7. IsCircuit(x \o y) BY <1>5, SatisfiedParts
<1>8. Satisfied(x \o y) /\ Satisfied(UInt(r)) BY <1>3, <1>6, <1>7, SatisfiedParts
<1>9. c.carry[1] \in {0, 1} /\ c.carry[2] \in {0, 1} BY <1>5, <1>8, SatisfiedParts
<1>10. s \in -L .. 2 * L /\ t \in -L .. 2 * L
  <2>1. c.carry[1] * L \in {0, L} /\ c.carry[2] * L \in {0, L} BY <1>1, <1>9
  <2> QED BY <1>1, <1>2, <1>9, <2>1
<1>11. s \in Int /\ t \in Int BY <1>10
<1> HIDE DEF s, t, L
<1>12. Field(s) = (IF s >= 0 THEN s ELSE s + P) /\ Field(t) = (IF t >= 0 THEN t ELSE t + P)
       /\ Field(s) \in Elements /\ Field(t) \in Elements
  BY <1>1, <1>10, <1>11, SmallField
<1>13. IsLimbs(r) BY <1>4, <1>8, <1>12, UIntSays
<1>14. r.limb[1] \in 0 .. L - 1 /\ r.limb[2] \in 0 .. L - 1 BY <1>13 DEF IsLimbs, LimbWords, L
<1>15. r.limb[1] = s /\ r.limb[2] = t BY <1>1, <1>4, <1>10, <1>12, <1>14
<1>16. WordOf(r) = WordOf(a) + WordOf(b) - c.carry[2] * WordRange
  <2>1. WordOf(r) = s + t * L BY <1>15 DEF WordOf, L
  <2>2. WordOf(a) = a.limb[1] + a.limb[2] * L /\ WordOf(b) = b.limb[1] + b.limb[2] * L
    BY DEF WordOf, L
  <2>3. t * L = a.limb[2] * L + b.limb[2] * L + c.carry[1] * L - c.carry[2] * (L * L)
    <3> DEFINE A == a.limb[2]  B == b.limb[2]  C == c.carry[1]  D == c.carry[2] * L
    <3>1. A \in Int /\ B \in Int /\ C \in Int /\ D \in Int /\ t = A + B + C - D
      BY <1>1, <1>2, <1>9 DEF t
    <3>2. D * L = c.carry[2] * (L * L)
      <4>1. CASE c.carry[2] = 0 BY <1>1, <4>1
      <4>2. CASE c.carry[2] = 1 BY <1>1, <4>2
      <4> QED BY <1>9, <4>1, <4>2
    <3> HIDE DEF A, B, C, D
    <3>3. t * L = A * L + B * L + C * L - D * L BY <1>1, <3>1
    <3> QED BY <3>2, <3>3 DEF A, B, C
  <2>4. s = a.limb[1] + b.limb[1] - c.carry[1] * L BY DEF s
  <2>5. a.limb[2] * L \in Int /\ b.limb[2] * L \in Int /\ c.carry[1] * L \in Int
        /\ c.carry[2] * (L * L) \in Int
    BY <1>1, <1>2, <1>9
  <2> QED BY <1>1, <1>2, <2>1, <2>2, <2>3, <2>4, <2>5
<1>17. WordOf(r) \in Nat /\ WordOf(r) < WordRange /\ WordOf(a) \in Nat /\ WordOf(b) \in Nat
       /\ WordOf(a) < WordRange /\ WordOf(b) < WordRange
  BY <1>13, LimbsAreWord
<1>18. WordOf(r) = (WordOf(a) + WordOf(b)) % WordRange
  <2> DEFINE n == WordOf(a) + WordOf(b)
  <2>1. n \in Nat /\ n < 2 * WordRange BY <1>1, <1>17
  <2>2. c.carry[2] * WordRange \in {0, WordRange} BY <1>1, <1>9
  <2>3. WordOf(r) = n \/ WordOf(r) = n - WordRange BY <1>1, <1>16, <1>17, <2>1, <2>2
  <2> HIDE DEF n
  <2>4. n % WordRange = IF n < WordRange THEN n ELSE n - WordRange BY <1>1, <2>1
  <2>5. WordOf(r) = n % WordRange BY <1>1, <1>17, <2>1, <2>3, <2>4
  <2> QED BY <2>5 DEF n
<1> QED BY <1>13, <1>18 DEF Wrapped, r
===============================================================================
