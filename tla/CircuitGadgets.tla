---------------------------- MODULE CircuitGadgets ----------------------------
(***************************************************************************)
(* The gadgets instruction circuits are built from (ceno_zkvm/src/uint,    *)
(* gadgets, chip_handler).  Each comes in two parts written apart in the   *)
(* code: construct_circuit, which states constraints and lookups over the  *)
(* cells of a row, and assign_instance, which fills the cells from machine *)
(* values and counts the lookups.                                          *)
(*                                                                         *)
(* A circuit is the sequence of what it asks of a row: expressions to be   *)
(* zero, lookups, and the records it reads from and writes to the memory   *)
(* argument.  The cells of an assigned gadget are a record, whose field lk *)
(* is the sequence of lookups its assignment counted.                      *)
(*                                                                         *)
(* The word is WordBits wide instead of 32, a limb has half of its bits    *)
(* and a byte a quarter; the field has the P elements 0 .. P - 1.          *)
(***************************************************************************)
EXTENDS Integers, Sequences

CONSTANTS WordBits, ShiftBits, P

LimbBits == WordBits \div 2
ByteBits == WordBits \div 4
WordRange == 2 ^ WordBits
LimbRange == 2 ^ LimbBits
ByteRange == 2 ^ ByteBits
WordMax == WordRange - 1

ASSUME WidthAssumption ==
    /\ WordBits \in Nat /\ ShiftBits \in Nat /\ P \in Nat
    /\ WordBits % 4 = 0 /\ WordBits >= 4 /\ 2 ^ ShiftBits = WordBits

\* What the widths make of the ranges, said once for the proofs.
ASSUME PowerAssumption ==
    LimbRange \in Nat /\ LimbRange >= 4 /\ LimbRange % 2 = 0 /\ WordRange = LimbRange * LimbRange
ASSUME ByteAssumption ==
    /\ ByteRange \in Nat /\ ByteRange >= 2 /\ ByteRange % 2 = 0
    /\ LimbRange = ByteRange * ByteRange /\ 2 ^ (3 * ByteBits) = LimbRange * ByteRange
ASSUME BitAssumption ==
    \A n \in 0 .. WordBits - 1 : 2 ^ n \in Nat \ {0} /\ 2 ^ (n + 1) = 2 * 2 ^ n

\* A field has no divisors of zero.  The prime is above 2^(2 WordBits) - 2^WordBits, as Goldilocks is for 32 bits.
ASSUME FieldAssumption ==
    /\ P > WordRange * WordMax
    /\ \A x, y \in 1 - P .. P - 1 : (x * y) % P = 0 => x = 0 \/ y = 0

Words == 0 .. WordMax
Field(x) == x % P
InverseOf == [x \in 1 .. P - 1 |-> CHOOSE y \in 1 .. P - 1 : (x * y) % P = 1]
Wrapped(x) == x % WordRange
SignedOf(v) == IF v >= WordRange \div 2 THEN v - WordRange ELSE v
Digits(v, bits, n) == [i \in 1 .. n |-> (v \div 2 ^ (bits * (i - 1))) % 2 ^ bits]
-----------------------------------------------------------------------------
(***************************************************************************)
(* CircuitBuilder (chip_handler/general.rs).                               *)
(***************************************************************************)
RequireZero(x) == <<[ask |-> "zero", of |-> Field(x)]>>
Lookup(l)      == <<[ask |-> "lookup", of |-> l]>>
ReadRecord(q)  == <<[ask |-> "read", of |-> q]>>
WriteRecord(q) == <<[ask |-> "write", of |-> q]>>
Nothing        == <<>>
Asked(f, what) == {f[i].of : i \in {j \in DOMAIN f : f[j].ask = what}}

RequireEqual(x, y) == RequireZero(x - y)
ConditionRequireEqual(cond, x, whenTrue, whenFalse) ==
    RequireEqual(x, cond * whenTrue + (1 - cond) * whenFalse)
AssertBit(x) == RequireZero(x * (1 - x))
AssertUx(bits, x) == Lookup(<<"U", bits, Field(x)>>)

\* LkMultiplicity: the lookups counted for values known in the clear.
CountUx(bits, v) == <<<<"U", bits, v>>>>
-----------------------------------------------------------------------------
(***************************************************************************)
(* UInt: a word as two limbs.  new checks their range, new_unchecked not.  *)
(***************************************************************************)
UInt(u) == AssertUx(LimbBits, u.limb[1]) \o AssertUx(LimbBits, u.limb[2])
ValueOf(u) == Field(u.limb[1] + u.limb[2] * LimbRange)

ValueUnchecked(v) == [limb |-> Digits(v, LimbBits, 2), lk |-> <<>>]
ValueNew(v) ==
    LET limb == Digits(v, LimbBits, 2)
    IN  [limb |-> limb, lk |-> CountUx(LimbBits, limb[1]) \o CountUx(LimbBits, limb[2])]

\* UInt::add: the result is an expression over the limbs and the carries.
SumOf(a, b, c) ==
    [limb |-> <<Field(a.limb[1] + b.limb[1] - c.carry[1] * LimbRange),
                Field(a.limb[2] + b.limb[2] + c.carry[1] - c.carry[2] * LimbRange)>>]
Add(a, b, c) == AssertBit(c.carry[1]) \o AssertBit(c.carry[2]) \o UInt(SumOf(a, b, c))

AssignAdd(a, b) ==
    LET low  == a.limb[1] + b.limb[1]
        high == a.limb[2] + b.limb[2] + low \div LimbRange
    IN  [carry |-> <<low \div LimbRange, high \div LimbRange>>,
         lk |-> CountUx(LimbBits, low % LimbRange) \o CountUx(LimbBits, high % LimbRange)]

\* UInt8: four bytes; a register takes them in pairs.
BytesOf(v) == [byte |-> Digits(v, ByteBits, 4), lk |-> <<>>]
ByteValue(b) == Field(b.byte[1] + b.byte[2] * ByteRange + b.byte[3] * LimbRange
                      + b.byte[4] * LimbRange * ByteRange)
ByteLimbs(b) == [limb |-> [i \in 1 .. 2 |-> Field(b.byte[2 * i - 1] + b.byte[2 * i] * ByteRange)]]
-----------------------------------------------------------------------------
(***************************************************************************)
(* SignedExtendConfig and Signed: the top bit of a limb or byte.           *)
(***************************************************************************)
SignedExtend(bits, x, s) ==
    AssertBit(s.msb) \o AssertUx(bits, 2 * x - s.msb * 2 ^ bits)
AssignSignedExtend(bits, v) ==
    LET msb == v \div 2 ^ (bits - 1)
    IN  [msb |-> msb, lk |-> CountUx(bits, 2 * v - msb * 2 ^ bits)]
SignedExtendedByte(x, s) ==
    [limb |-> <<Field(s.msb * (LimbRange - ByteRange) + x), Field(s.msb * (LimbRange - 1))>>]
SignedExtendedLimb(x, s) == [limb |-> <<x, Field(s.msb * (LimbRange - 1))>>]

IsNegative(u, s) == SignedExtend(LimbBits, u.limb[2], s)
AssignIsNegative(v) == AssignSignedExtend(LimbBits, v \div LimbRange)
ToField(u, s) == ValueOf(u) - s.msb * WordRange
-----------------------------------------------------------------------------
(***************************************************************************)
(* IsZeroConfig, IsEqualConfig.                                            *)
(***************************************************************************)
IsZero(x, z) == RequireZero(z.is_zero * x) \o RequireEqual(z.is_zero + Field(x) * z.inverse, 1)
NonZero(x, z) == RequireEqual(Field(x) * z.inverse, 1)
AssignIsZero(x) ==
    [is_zero |-> IF Field(x) = 0 THEN 1 ELSE 0,
     inverse |-> IF Field(x) = 0 THEN 0 ELSE InverseOf[Field(x)],
     lk |-> <<>>]
-----------------------------------------------------------------------------
(***************************************************************************)
(* InnerLtConfig: lhs - rhs = diff - is_lt * 2^(limbs), diff in two limbs. *)
(***************************************************************************)
InnerLt(lhs, rhs, lt, d) == UInt(d) \o RequireEqual(lhs - rhs, ValueOf(d) - lt * WordRange)
AssertLt(lhs, rhs, d) == InnerLt(lhs, rhs, 1, d)
IsLt(lhs, rhs, d) == AssertBit(d.is_lt) \o InnerLt(lhs, rhs, d.is_lt, d)

\* assign_instance_u64 and assign_instance_i64: lhs and rhs are integers; the
\* limbs above those of diff are cut off.
AssignLt(lhs, rhs) ==
    LET lt == IF lhs < rhs THEN 1 ELSE 0
        diff == ValueNew(Field(lhs - rhs + lt * WordRange) % WordRange)
    IN  [is_lt |-> lt, limb |-> diff.limb, lk |-> diff.lk]

\* SignedLtConfig: both signs, then the comparison of the signed values.
SignedLt(a, b, d) ==
    IsNegative(a, d.lhs) \o IsNegative(b, d.rhs) \o AssertBit(d.lt.is_lt)
      \o InnerLt(ToField(a, d.lhs), ToField(b, d.rhs), d.lt.is_lt, d.lt)
AssignSignedLt(v, w) ==
    LET lhs == AssignIsNegative(v)
        rhs == AssignIsNegative(w)
        lt  == AssignLt(SignedOf(v), SignedOf(w))
    IN  [lhs |-> lhs, rhs |-> rhs, lt |-> lt, lk |-> lhs.lk \o rhs.lk \o lt.lk]
-----------------------------------------------------------------------------
(***************************************************************************)
(* MemAddr: an address whose `zeros' lowest bits are constantly zero.      *)
(***************************************************************************)
LowBit(m, zeros, i) == IF i < zeros THEN 0 ELSE m.low[i + 1]
Align2(m, zeros) == ValueOf(m) - LowBit(m, zeros, 0)
Align4(m, zeros) == Align2(m, zeros) - 2 * LowBit(m, zeros, 1)

MemAddr(m, zeros) ==
    LET lowSum == LowBit(m, zeros, 0) + 2 * LowBit(m, zeros, 1)
    IN  AssertBit(LowBit(m, zeros, 0)) \o AssertBit(LowBit(m, zeros, 1))
          \o AssertUx(LimbBits - 2, (m.limb[1] - lowSum) * InverseOf[4])
          \o AssertUx(LimbBits, m.limb[2])

\* Faulty: the high limb is not counted.
AssignMemAddrLow(addr) ==
    [limb |-> Digits(addr, LimbBits, 2), low |-> <<addr % 2, (addr \div 2) % 2>>,
     lk |-> CountUx(LimbBits - 2, (addr % LimbRange) \div 4)]
AssignMemAddr(addr) ==
    [limb |-> Digits(addr, LimbBits, 2), low |-> <<addr % 2, (addr \div 2) % 2>>,
     lk |-> CountUx(LimbBits - 2, (addr % LimbRange) \div 4)
              \o CountUx(LimbBits, addr \div LimbRange)]
===============================================================================
