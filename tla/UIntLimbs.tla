------------------------------- MODULE UIntLimbs -------------------------------
(***************************************************************************)
(* Unsigned integers of M bits in limbs of C bits, lowest first            *)
(* (ceno_zkvm/src/uint.rs, uint): their constraints, and the values that   *)
(* are assigned to them.  UInt and UInt8 of CircuitGadgets are the two     *)
(* with M a word; here are products and the rest of the arithmetic for     *)
(* any M and C, and the divide gadget made of them (gadgets/div.rs).       *)
(*                                                                         *)
(* A limb is a cell or an expression over cells, in both cases its value   *)
(* on a row.  The limbs of comparisons have LimbBits bits (16 in the       *)
(* code), whatever C.                                                      *)
(***************************************************************************)
EXTENDS CircuitGadgets, SequencesExt

CONSTANTS
    M,   \* TOTAL_BITS, positive
    C    \* LIMB_BITS, positive

DivCeil(n, d) == (n + d - 1) \div d
NUM_LIMBS == DivCeil(M, C)
POW_OF_C  == 2 ^ C

LimbsOf(v, n)    == Digits(v, C, n)
LimbValue(limbs) == FoldRight(LAMBDA limb, sum : limb + POW_OF_C * sum, limbs, 0)
Value(limbs)     == Field(LimbValue(limbs))
At(s, i)         == IF i \in DOMAIN s THEN s[i] ELSE 0
Each(n, Ask(_))  == FlattenSeq([i \in 1 .. n |-> Ask(i)])
-----------------------------------------------------------------------------
(***************************************************************************)
(* Making and splitting limbs.                                             *)
(***************************************************************************)
New(limbs) == LET InRange(i) == AssertUx(C, limbs[i]) IN Each(Len(limbs), InRange)

CreateWitinFromExprs(w, exprs) ==
    LET Bind(i) == AssertUx(C, w[i]) \o RequireZero(w[i] - exprs[i]) IN Each(Len(exprs), Bind)

FromExprsUnchecked(exprs) == [i \in 1 .. NUM_LIMBS |-> At(exprs, i)]
AsLoHi(limbs) ==
    LET half == Len(limbs) \div 2
    IN  <<SubSeq(limbs, 1, half), SubSeq(limbs, half + 1, Len(limbs))>>

\* Bytes to limbs and back: `bytes' of them make one limb, C a multiple of 8.
BytesPerLimb == C \div ByteBits
Combined(bytes, i) ==
    LET Power(k) == bytes[BytesPerLimb * (i - 1) + k] * ByteRange ^ (k - 1)
    IN  FoldLeft(LAMBDA sum, k : sum + Power(k), 0, [k \in 1 .. BytesPerLimb |-> k])
FromU8Limbs(bytes) == [i \in 1 .. Len(bytes) \div BytesPerLimb |-> Combined(bytes, i)]
ToU8Limbs(limbs, bytes, w) ==
    LET Byte(k) == AssertUx(ByteBits, bytes[k])
        Zero(i) == RequireZero(limbs[i] - Combined(bytes, i))
        Bind(k) == AssertUx(ByteBits, w[k]) \o RequireZero(w[k] - bytes[k])
    IN  Each(Len(bytes), Byte) \o Each(Len(limbs), Zero) \o Each(Len(bytes), Bind)

\* counter_vector: the numbers below size, each one more than the one before.
AddOne(limbs) ==
    [i \in DOMAIN limbs |->
        IF \A j \in 1 .. i - 1 : limbs[j] = POW_OF_C - 1 THEN (limbs[i] + 1) % POW_OF_C ELSE limbs[i]]
CeilLog2(size) == CHOOSE n \in 0 .. size : size <= 2 ^ n /\ \A k \in 0 .. n - 1 : 2 ^ k < size
CounterVector(size) ==
    FoldLeft(LAMBDA rows, k : Append(rows, AddOne(rows[k])),
             <<[i \in 1 .. DivCeil(CeilLog2(size), C) |-> 0]>>, [k \in 1 .. size - 1 |-> k])
-----------------------------------------------------------------------------
(***************************************************************************)
(* Addition.  Without overflow there is no carry out of the last limb.     *)
(***************************************************************************)
Carried(a, b, carries) ==
    [i \in DOMAIN a |-> Field(a[i] + b[i] + At(carries, i - 1) - At(carries, i) * POW_OF_C)]
InternalAdd(a, b, carries) ==
    LET Bit(i) == AssertBit(carries[i]) IN Each(Len(carries), Bit) \o New(Carried(a, b, carries))
AddConst(a, constant, carries) == InternalAdd(a, LimbsOf(constant, NUM_LIMBS), carries)

\* The carries out of each limb, for the sums or products of the limbs given.
CarriesOf(sums) ==
    FoldLeft(LAMBDA done, s : Append(done, (s + At(done, Len(done))) \div POW_OF_C), <<>>, sums)
ReducedBy(sums, carries) ==
    [i \in DOMAIN sums |-> (sums[i] + At(carries, i - 1)) % POW_OF_C]
RangeCounts(limbs) == LET Count(i) == CountUx(C, limbs[i]) IN Each(Len(limbs), Count)

\* Value::add
ValueAdd(a, b, with_overflow) ==
    LET sums    == [i \in DOMAIN a |-> a[i] + b[i]]
        carries == CarriesOf(sums)
        limbs   == ReducedBy(sums, carries)
    IN  [limbs |-> limbs, lk |-> RangeCounts(limbs),
         carries |-> IF with_overflow THEN carries ELSE SubSeq(carries, 1, Len(a) - 1)]
-----------------------------------------------------------------------------
(***************************************************************************)
(* The range of carries (util.rs): an estimate, from the number of         *)
(* products in a limb and the carry of the limb before.                    *)
(***************************************************************************)
Factorial[n \in Nat] == IF n = 0 THEN 1 ELSE n * Factorial[n - 1]
Binomial(n, k) == IF k > n THEN 0 ELSE Factorial[n] \div (Factorial[k] * Factorial[n - k])
MaxCombinations(degree, num_cells) == Binomial(num_cells - 1 + degree - 1, degree - 1)
MaxCarryWord(n, m, c) ==
    LET sum == (2 ^ c - 1) ^ n * MaxCombinations(n, DivCeil(m, c))
    IN  (sum + sum \div 2 ^ c) \div 2 ^ c + 1

MAX_CARRY_VALUE == MaxCarryWord(2, M, C)
MAX_CARRY_BITS  == CHOOSE n \in 1 .. MAX_CARRY_VALUE : 2 ^ (n - 1) <= MAX_CARRY_VALUE /\ MAX_CARRY_VALUE < 2 ^ n
MAX_CARRY_LIMBS == DivCeil(MAX_CARRY_BITS, LimbBits)

\* AssertLtConfig with a number of limbs of its own.
DiffRange == 2 ^ (LimbBits * MAX_CARRY_LIMBS)
CarryLt(carry, diff) ==
    LET InRange(i) == AssertUx(LimbBits, diff[i])
        value == FoldRight(LAMBDA limb, sum : limb + LimbRange * sum, diff, 0)
    IN  Each(Len(diff), InRange) \o RequireEqual(carry - MAX_CARRY_VALUE, value - DiffRange)
AssignCarryLt(carry) ==
    LET diff == Digits(Field(carry - MAX_CARRY_VALUE + DiffRange), LimbBits, MAX_CARRY_LIMBS)
        Count(i) == CountUx(LimbBits, diff[i])
    IN  [diff |-> diff, lk |-> Each(Len(diff), Count)]
-----------------------------------------------------------------------------
(***************************************************************************)
(* Multiplication: c has as many limbs as the factors, or twice as many.   *)
(* A factor made of expressions is first put in cells of its own, which    *)
(* CreateWitinFromExprs does too.                                          *)
(***************************************************************************)
Products(a, b, n) ==
    [k \in 1 .. n |->
        FoldLeft(LAMBDA sum, i : sum + a[i] * At(b, k + 1 - i), 0, [i \in 1 .. Len(a) |-> i])]

InternalMul(a, b, c, carries, diffs) ==
    LET products == Products(a, b, Len(c))
        Lt(i)    == CarryLt(carries[i], diffs[i])
        Limb(i)  == RequireZero(products[i] - c[i] + At(carries, i - 1) - At(carries, i) * POW_OF_C)
    IN  New(c) \o Each(Len(carries), Lt) \o Each(Len(c), Limb)

\* The low limbs of the product, or with twice as many limbs the high ones,
\* and the addend.
MulAdd(a, b, addend, c, carries, diffs, addCarries) ==
    LET part == IF Len(c) = 2 * NUM_LIMBS THEN AsLoHi(c)[2] ELSE FromExprsUnchecked(c)
    IN  InternalMul(a, b, c, carries, diffs) \o InternalAdd(part, addend, addCarries)

\* Value::internal_mul; without overflow it asserts that there is none: no
\* carry, that is, out of the last limb.  Products of limbs beyond the last
\* are not formed, so a product may overflow and pass.
FitsWithoutOverflow(a, b, n) == CarriesOf(Products(a, b, n))[n] = 0
ValueMul(a, b, n, with_overflow) ==
    LET products == Products(a, b, n)
        carries  == CarriesOf(products)
        kept     == IF with_overflow THEN carries ELSE SubSeq(carries, 1, n - 1)
        limbs    == ReducedBy(products, carries)
        Lt(i)    == AssignCarryLt(kept[i]).lk
    IN  [limbs |-> limbs, carries |-> kept, diffs |-> [i \in DOMAIN kept |-> AssignCarryLt(kept[i]).diff],
         lk |-> RangeCounts(limbs), lt_lk |-> Each(Len(kept), Lt)]
ValueMulAdd(a, b, addend, with_overflow) ==
    LET product == ValueMul(a, b, NUM_LIMBS, with_overflow)
    IN  [mul |-> product, add |-> ValueAdd(addend, product.limbs, with_overflow)]
-----------------------------------------------------------------------------
(***************************************************************************)
(* Equality, by value or limb by limb, and the divide gadget.              *)
(***************************************************************************)
RequireEqualUint(a, b) == RequireZero(Value(a) - Value(b))

IsEqualCells(x, y, is_eq, diff_inverse) ==
    RequireZero(is_eq * x - is_eq * y) \o RequireZero(1 - is_eq - diff_inverse * x + diff_inverse * y)
IsEqualUint(a, b, z) ==
    LET Limb(i) == IsEqualCells(a[i], b[i], z.is_equal_per_limb[i], z.diff_inv_per_limb[i])
        sum == FoldLeft(LAMBDA s, x : s + x, 0, z.is_equal_per_limb)
    IN  Each(Len(a), Limb) \o RequireZero(z.sum_flag - sum)
          \o IsEqualCells(z.sum_flag, NUM_LIMBS, z.is_equal, z.diff_inv)

RLt(remainder, divisor, d) == AssertLt(Value(remainder), Value(divisor), d)
DivConfig(divisor, quotient, remainder, z) ==
    MulAdd(divisor, quotient, remainder, z.c, z.carries, z.diffs, z.addCarries) \o RLt(remainder, divisor, z.r_lt)
Dividend(remainder, z) == Carried(FromExprsUnchecked(z.c), remainder, z.addCarries)
AssignDiv(divisor, quotient, remainder) ==
    LET out == ValueMulAdd(divisor, quotient, remainder, TRUE)
        lt  == AssignLt(LimbValue(remainder), LimbValue(divisor))
    IN  [c |-> out.mul.limbs, carries |-> out.mul.carries, diffs |-> out.mul.diffs,
         addCarries |-> out.add.carries, r_lt |-> lt, lk |-> out.mul.lk \o out.add.lk \o lt.lk \o out.mul.lt_lk]
-----------------------------------------------------------------------------
(***************************************************************************)
(* What the gadgets promise, for the integers considered.                  *)
(***************************************************************************)
Ranges(f) == \A l \in Asked(f, "lookup") : l[3] < 2 ^ l[2]
Satisfied(f) == Asked(f, "zero") \subseteq {0} /\ Ranges(f)
LookedUp(f) == LET lks == SelectSeq(f, LAMBDA asked : asked.ask = "lookup") IN [i \in DOMAIN lks |-> lks[i].of]

\* Whatever carries a row has, if it satisfies the sum, the sum is right.
AddSound(numbers) ==
    \A v, w \in numbers, n \in {NUM_LIMBS - 1, NUM_LIMBS} : \A carries \in [1 .. n -> {0, 1, 2}] :
        LET a == LimbsOf(v, NUM_LIMBS)
        IN  Satisfied(AddConst(a, w, carries)) =>
              /\ LimbValue(Carried(a, LimbsOf(w, NUM_LIMBS), carries)) = (v + w) % POW_OF_C ^ NUM_LIMBS
              /\ n < NUM_LIMBS => v + w < POW_OF_C ^ NUM_LIMBS

\* The carries Value::add finds satisfy it, and are counted.
AddComplete(numbers) ==
    \A v, w \in numbers, with_overflow \in BOOLEAN :
        LET a == LimbsOf(v, NUM_LIMBS)
            b == LimbsOf(w, NUM_LIMBS)
            out == ValueAdd(a, b, with_overflow)
            f == InternalAdd(a, b, out.carries)
        IN  with_overflow \/ v + w < POW_OF_C ^ NUM_LIMBS => Satisfied(f) /\ LookedUp(f) = out.lk

\* A row has no choice of carries but those the limbs force on it; if they are
\* below the bound - as field elements, those just under 0 are too - the limbs
\* are those of the product.
ForcedCarries(a, b, c) ==
    LET products == Products(a, b, Len(c))
    IN  FoldLeft(LAMBDA done, k : Append(done, Field((products[k] - c[k] + At(done, k - 1)) * InverseOf[POW_OF_C % P])),
                 <<>>, [k \in DOMAIN c |-> k])
MulSound(numbers, n) ==
    \A v, w \in numbers, r \in 0 .. POW_OF_C ^ n - 1, with_overflow \in BOOLEAN :
        LET a == LimbsOf(v, NUM_LIMBS)
            b == LimbsOf(w, NUM_LIMBS)
            c == LimbsOf(r, n)
            carries == SubSeq(ForcedCarries(a, b, c), 1, IF with_overflow THEN n ELSE n - 1)
            diffs == [i \in DOMAIN carries |-> AssignCarryLt(carries[i]).diff]
        IN  Satisfied(InternalMul(a, b, c, carries, diffs)) =>
              r = v * w % POW_OF_C ^ n /\ (with_overflow \/ FitsWithoutOverflow(a, b, n))

\* With as many limbs as the factors, some products overflow unnoticed; with
\* twice as many none can.
OverflowUnnoticed(numbers, n) ==
    \E v, w \in numbers :
        FitsWithoutOverflow(LimbsOf(v, NUM_LIMBS), LimbsOf(w, NUM_LIMBS), n) /\ v * w >= POW_OF_C ^ n

MulComplete(numbers, n) ==
    \A v, w \in numbers, with_overflow \in BOOLEAN :
        LET a == LimbsOf(v, NUM_LIMBS)
            b == LimbsOf(w, NUM_LIMBS)
            out == ValueMul(a, b, n, with_overflow)
            f == InternalMul(a, b, out.limbs, out.carries, out.diffs)
        IN  with_overflow \/ FitsWithoutOverflow(a, b, n) =>
              /\ Satisfied(f) /\ LookedUp(f) = out.lk \o out.lt_lk
              /\ LimbValue(out.limbs) = v * w % POW_OF_C ^ n
              /\ \A i \in DOMAIN out.carries : out.carries[i] < MAX_CARRY_VALUE

\* Two integers of different value pass for equal exactly if their difference
\* is a multiple of P: never below the size of the field.
EqualByValue(numbers) ==
    \A v, w \in numbers :
        Satisfied(RequireEqualUint(LimbsOf(v, NUM_LIMBS), LimbsOf(w, NUM_LIMBS))) <=> (v - w) % P = 0
\* Limb by limb they never do: the flag of a limb is forced, and so is their sum.
FlagForced(differences) ==
    \A difference \in differences, is_eq, inverse \in 0 .. P - 1 :
        Satisfied(IsEqualCells(difference, 0, is_eq, inverse)) => is_eq = IF difference = 0 THEN 1 ELSE 0

SplitsBack(numbers) ==
    \A v \in numbers :
        LET limbs == LimbsOf(v, NUM_LIMBS)
            bytes == Digits(v, ByteBits, M \div ByteBits)
        IN  FromU8Limbs(bytes) = limbs /\ Satisfied(ToU8Limbs(limbs, bytes, bytes))
CountersCount(sizes) ==
    \A size \in sizes : \A k \in 1 .. size : LimbValue(CounterVector(size)[k]) = k - 1

\* The divide gadget accepts every division, and what it accepts is one but
\* for the overflow of the product, which it allows.
DivComplete(numbers) ==
    \A divisor \in numbers \ {0}, quotient, remainder \in numbers :
        remainder < divisor =>
          LET d == LimbsOf(divisor, NUM_LIMBS)
              q == LimbsOf(quotient, NUM_LIMBS)
              r == LimbsOf(remainder, NUM_LIMBS)
              z == AssignDiv(d, q, r)
          IN  /\ Satisfied(DivConfig(d, q, r, z))
              /\ LimbValue(Dividend(r, z)) = (divisor * quotient + remainder) % POW_OF_C ^ NUM_LIMBS
DivNeedsDivisor(numbers) ==
    \A quotient, remainder \in numbers : \A diff \in [1 .. 2 -> 0 .. LimbRange - 1] :
        ~Satisfied(RLt(LimbsOf(remainder, NUM_LIMBS), LimbsOf(0, NUM_LIMBS), [limb |-> diff]))
===============================================================================
