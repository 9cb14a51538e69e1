------------------------------ MODULE Expressions ------------------------------
(***************************************************************************)
(* The symbolic expressions of the circuits (multilinear_extensions/src/   *)
(* expression.rs and expression/).  An expression is a tree of records;    *)
(* its arithmetic simplifies as it builds: a scalar added to or multiplied *)
(* by a cell becomes a ScaledSum, challenges of one power are added up.    *)
(* Base and extension field are one here, so the two sides of Either are.  *)
(***************************************************************************)
EXTENDS PrimeField, FiniteSets

WitIn(id) == [op |-> "WitIn", id |-> id]
StructuralWitIn(id) == [op |-> "StructuralWitIn", id |-> id]
Fixed(id) == [op |-> "Fixed", id |-> id]
Instance(id) == [op |-> "Instance", id |-> id]
Constant(c) == [op |-> "Constant", c |-> c % Prime]
SumOf(a, b) == [op |-> "Sum", a |-> a, b |-> b]
ProductOf(a, b) == [op |-> "Product", a |-> a, b |-> b]
\* a * x + b
ScaledSum(x, a, b) == [op |-> "ScaledSum", x |-> x, a |-> a, b |-> b]
\* scalar * challenge ^ pow + offset
Challenge(id, pow, scalar, offset) ==
    [op |-> "Challenge", id |-> id, pow |-> pow, scalar |-> scalar % Prime, offset |-> offset % Prime]

Zero == Constant(0)
One == Constant(1)

Cell(e) == e.op \in {"WitIn", "Fixed", "Instance"}
Scalar(e) == e.op \in {"Constant", "Challenge"}
-----------------------------------------------------------------------------
RECURSIVE Degree(_)
Degree(e) ==
    CASE e.op \in {"Fixed", "WitIn", "StructuralWitIn"} -> 1
      [] e.op \in {"Instance", "Constant", "Challenge"} -> 0
      [] e.op = "Sum" -> IF Degree(e.a) > Degree(e.b) THEN Degree(e.a) ELSE Degree(e.b)
      [] e.op = "Product" -> Degree(e.a) + Degree(e.b)
      [] e.op = "ScaledSum" -> Degree(e.x)

\* evaluate_with_instance over field elements.  env gives the values of
\* fixed, wit, struct, inst and chal by identifier.
RECURSIVE Eval(_, _)
Eval(e, env) ==
    CASE e.op = "WitIn" -> env.wit[e.id + 1]
      [] e.op = "StructuralWitIn" -> env.struct[e.id + 1]
      [] e.op = "Fixed" -> env.fixed[e.id + 1]
      [] e.op = "Instance" -> env.inst[e.id + 1]
      [] e.op = "Constant" -> e.c
      [] e.op = "Challenge" -> (Power(env.chal[e.id + 1], e.pow) * e.scalar + e.offset) % Prime
      [] e.op = "Sum" -> (Eval(e.a, env) + Eval(e.b, env)) % Prime
      [] e.op = "Product" -> (Eval(e.a, env) * Eval(e.b, env)) % Prime
      [] e.op = "ScaledSum" -> (Eval(e.a, env) * Eval(e.x, env) + Eval(e.b, env)) % Prime
-----------------------------------------------------------------------------
RECURSIVE Neg(_)
Neg(e) ==
    CASE e.op \in {"Fixed", "WitIn", "StructuralWitIn", "Instance"} -> ScaledSum(e, Constant(-1), Zero)
      [] e.op = "Constant" -> Constant(-e.c)
      [] e.op = "Sum" -> SumOf(Neg(e.a), Neg(e.b))
      [] e.op = "Product" -> ProductOf(Neg(e.a), e.b)
      [] e.op = "ScaledSum" -> ScaledSum(e.x, Neg(e.a), Neg(e.b))
      [] e.op = "Challenge" -> Challenge(e.id, e.pow, -e.scalar, -e.offset)

SamePower(l, r) ==
    l.op = "Challenge" /\ r.op = "Challenge" /\ l.id = r.id /\ l.pow = r.pow

RECURSIVE Add(_, _)
Add(l, r) ==
    CASE Cell(l) /\ Scalar(r) -> ScaledSum(l, One, r)
      [] Scalar(l) /\ Cell(r) -> ScaledSum(r, One, l)
      [] l.op = "Constant" /\ r.op = "Challenge" -> [r EXCEPT !.offset = (@ + l.c) % Prime]
      [] l.op = "Challenge" /\ r.op = "Constant" -> [l EXCEPT !.offset = (@ + r.c) % Prime]
      [] SamePower(l, r) -> Challenge(l.id, l.pow, l.scalar + r.scalar, l.offset + r.offset)
      [] l.op = "Constant" /\ r.op = "Constant" -> Constant(l.c + r.c)
      [] l.op = "Constant" /\ r.op = "ScaledSum" -> ScaledSum(r.x, r.a, Add(r.b, l))
      [] l.op = "ScaledSum" /\ r.op = "Constant" -> ScaledSum(l.x, l.a, Add(l.b, r))
      [] OTHER -> SumOf(l, r)

\* A constant less a challenge keeps the scalar of the challenge as it is.
RECURSIVE Sub(_, _)
Sub(l, r) ==
    CASE Cell(l) /\ Scalar(r) -> ScaledSum(l, One, Neg(r))
      [] Scalar(l) /\ Cell(r) -> ScaledSum(r, Constant(-1), l)
      [] l.op = "Constant" /\ r.op = "Challenge" -> [r EXCEPT !.offset = (l.c - @) % Prime]
      [] l.op = "Challenge" /\ r.op = "Constant" -> [l EXCEPT !.offset = (@ - r.c) % Prime]
      [] SamePower(l, r) -> Challenge(l.id, l.pow, l.scalar - r.scalar, l.offset - r.offset)
      [] l.op = "Constant" /\ r.op = "Constant" -> Constant(l.c - r.c)
      [] Scalar(l) /\ r.op = "ScaledSum" -> ScaledSum(r.x, Neg(r.a), Sub(l, r.b))
      [] l.op = "ScaledSum" /\ Scalar(r) -> ScaledSum(l.x, l.a, Sub(l.b, r))
      [] OTHER -> SumOf(l, Neg(r))

\* (s c^p + o) (t c^q + u), the cross terms only where they are not zero.
ChallengeProduct(l, r) ==
    LET square == Challenge(l.id, l.pow + r.pow, l.scalar * r.scalar, l.offset * r.offset)
        left   == IF l.scalar # 0 /\ r.offset # 0
                  THEN SumOf(square, Challenge(l.id, l.pow, r.offset * l.scalar, 0))
                  ELSE square
    IN  IF r.scalar # 0 /\ l.offset # 0
        THEN SumOf(left, Challenge(l.id, r.pow, l.offset * r.scalar, 0))
        ELSE left

\* What multiplies a cell without a tree of its own.
Coefficient(e, cell) ==
    cell.op \in {"WitIn", "Fixed"} /\ e.op \in {"Constant", "Challenge", "Instance"}

RECURSIVE Mul(_, _)
Mul(l, r) ==
    CASE Coefficient(l, r) -> ScaledSum(r, l, Zero)
      [] Coefficient(r, l) -> ScaledSum(l, r, Zero)
      [] l.op = "Constant" /\ r.op = "Challenge" -> Challenge(r.id, r.pow, r.scalar * l.c, r.offset * l.c)
      [] l.op = "Challenge" /\ r.op = "Constant" -> Challenge(l.id, l.pow, l.scalar * r.c, l.offset * r.c)
      [] l.op = "Challenge" /\ r.op = "Challenge" /\ l.id = r.id -> ChallengeProduct(l, r)
      [] l.op = "Constant" /\ r.op = "Constant" -> Constant(l.c * r.c)
      [] l.op = "ScaledSum" /\ Scalar(r) -> ScaledSum(l.x, Mul(l.a, r), Mul(l.b, r))
      [] Scalar(l) /\ r.op = "ScaledSum" -> ScaledSum(r.x, Mul(r.a, l), Mul(r.b, l))
      [] OTHER -> ProductOf(l, r)

\* The folds of Sum and Product start from ZERO and ONE.
SumAll(es) ==
    LET acc[i \in 0 .. Len(es)] == IF i = 0 THEN Zero ELSE Add(acc[i - 1], es[i])
    IN  acc[Len(es)]

ProductAll(es) ==
    LET acc[i \in 0 .. Len(es)] == IF i = 0 THEN One ELSE Mul(acc[i - 1], es[i])
    IN  acc[Len(es)]

\* A * (1 << k) and A * k for integers.
Times(e, k) == Mul(e, Constant(k))
-----------------------------------------------------------------------------
RECURSIVE IsZeroExpr(_)
IsZeroExpr(e) ==
    CASE e.op \in {"Fixed", "WitIn", "StructuralWitIn", "Instance"} -> FALSE
      [] e.op = "Constant" -> e.c = 0
      [] e.op = "Sum" -> IsZeroExpr(e.a) /\ IsZeroExpr(e.b)
      [] e.op = "Product" -> IsZeroExpr(e.a) \/ IsZeroExpr(e.b)
      [] e.op = "ScaledSum" -> (IsZeroExpr(e.x) \/ IsZeroExpr(e.a)) /\ IsZeroExpr(e.b)
      [] e.op = "Challenge" -> e.scalar = 0 /\ e.offset = 0

\* is_monomial_form_inner; state is "SumTerm" or "ProductTerm".
RECURSIVE IsMonomialForm(_, _)
IsMonomialForm(state, e) ==
    CASE e.op = "Sum" -> state = "SumTerm" /\ IsMonomialForm(state, e.a) /\ IsMonomialForm(state, e.b)
      [] e.op = "Product" -> IsMonomialForm("ProductTerm", e.a) /\ IsMonomialForm("ProductTerm", e.b)
      [] e.op = "ScaledSum" -> state = "SumTerm" \/ IsZeroExpr(e.x) \/ IsZeroExpr(e.a) \/ IsZeroExpr(e.b)
      [] OTHER -> TRUE

(***************************************************************************)
(* Monomials (expression/monomial.rs).  A term is [scalar, product], a     *)
(* scalar expression and the cells it multiplies.                          *)
(***************************************************************************)
Term(scalar, product) == [scalar |-> scalar, product |-> product]

\* iproduct!: every pair, those of the first sequence outermost.
TermProducts(s, t) ==
    [k \in 1 .. Len(s) * Len(t) |->
        LET a == s[(k - 1) \div Len(t) + 1]
            b == t[((k - 1) % Len(t)) + 1]
        IN  Term(Mul(a.scalar, b.scalar), a.product \o b.product)]

RECURSIVE Distribute(_)
Distribute(e) ==
    CASE e.op \in {"Constant", "Challenge", "Instance"} -> <<Term(e, <<>>)>>
      [] e.op \in {"Fixed", "WitIn", "StructuralWitIn"} -> <<Term(One, <<e>>)>>
      [] e.op = "Sum" -> Distribute(e.a) \o Distribute(e.b)
      [] e.op = "Product" -> TermProducts(Distribute(e.a), Distribute(e.b))
      [] e.op = "ScaledSum" -> Distribute(e.b) \o TermProducts(Distribute(e.x), Distribute(e.a))

\* The derived order on cells: by kind, then by identifier.
CellRank(e) ==
    1000 * (CHOOSE k \in 1 .. 3 : <<"WitIn", "StructuralWitIn", "Fixed">>[k] = e.op) + e.id

SortCells(product) ==
    LET rank(i) == Cardinality({j \in DOMAIN product :
                       \/ CellRank(product[j]) < CellRank(product[i])
                       \/ CellRank(product[j]) = CellRank(product[i]) /\ j <= i})
    IN  [k \in DOMAIN product |-> product[CHOOSE i \in DOMAIN product : rank(i) = k]]

\* A mutant of Combine: equal products keep the scalar of the first.
CombineFirst(terms) ==
    LET sorted  == [k \in DOMAIN terms |-> [terms[k] EXCEPT !.product = SortCells(@)]]
        indices == [k \in DOMAIN sorted |-> k]
        firsts  == SelectSeq(indices, LAMBDA k : \A l \in 1 .. k - 1 : sorted[l].product # sorted[k].product)
    IN  [k \in DOMAIN firsts |-> sorted[firsts[k]]]

\* The scalars of equal products added up.  The code groups them in a hash
\* map; the order of the groups changes no sum over them.
Combine(terms) ==
    LET sorted  == [k \in DOMAIN terms |-> [terms[k] EXCEPT !.product = SortCells(@)]]
        indices == [k \in DOMAIN sorted |-> k]
        firsts  == SelectSeq(indices, LAMBDA k : \A l \in 1 .. k - 1 : sorted[l].product # sorted[k].product)
        Scalars(product) ==
            LET of == SelectSeq(sorted, LAMBDA t : t.product = product)
            IN  [k \in DOMAIN of |-> of[k].scalar]
    IN  [k \in DOMAIN firsts |->
            LET product == sorted[firsts[k]].product IN Term(SumAll(Scalars(product)), product)]

GetMonomialTerms(e) ==
    SelectSeq(Combine(Distribute(e)), LAMBDA t : t.scalar # Zero)

SumOfTerms(terms) ==
    SumAll([k \in DOMAIN terms |-> Mul(terms[k].scalar, ProductAll(terms[k].product))])

GetMonomialForm(e) == SumOfTerms(GetMonomialTerms(e))
-----------------------------------------------------------------------------
\* power_sequence(base), count powers from the zeroth on.
PowerSequence(base, count) ==
    LET pow[i \in 1 .. count] == IF i = 1 THEN One ELSE Mul(pow[i - 1], base)
    IN  pow

\* rlc_chip_record: records by the powers of beta, plus alpha.
RlcChipRecord(records, alpha, beta) ==
    LET betas == PowerSequence(beta, Len(records))
    IN  Add(SumAll([i \in DOMAIN records |-> Mul(records[i], betas[i])]), alpha)
===============================================================================
