----------------------------- MODULE CircuitBuilder -----------------------------
(***************************************************************************)
(* Constraint systems (ceno_zkvm/src/circuit_builder.rs).  Each operation  *)
(* maps a system to the system with one more column, record or constraint; *)
(* legal becomes FALSE where an assertion of the builder fails.  Beside    *)
(* every random linear combination the code keeps the record itself, for   *)
(* debugging: ram_r, ram_w and lk_items.                                   *)
(***************************************************************************)
EXTENDS Expressions

ChipRecordAlpha == Challenge(0, 1, 1, 0)
ChipRecordBeta == Challenge(1, 1, 1, 0)

NewConstraintSystem ==
    [num_witin |-> 0, num_structural |-> 0, num_fixed |-> 0, instances |-> {},
     r |-> <<>>, w |-> <<>>, lk |-> <<>>,
     r_table |-> <<>>, w_table |-> <<>>, lk_table |-> <<>>,
     ram_r |-> <<>>, ram_w |-> <<>>, lk_items |-> <<>>,
     zero |-> <<>>, zero_sumcheck |-> <<>>, max_non_lc_degree |-> 0,
     backend |-> <<>>, num_backend_witin |-> 0, num_layer_challenges |-> 0,
     legal |-> TRUE]

CreateWitins(cs, n) == [cs EXCEPT !.num_witin = @ + n]
CreateStructural(cs) == [cs EXCEPT !.num_structural = @ + 1]
CreateFixed(cs, n) == [cs EXCEPT !.num_fixed = @ + n]
QueryInstance(cs, idx) == [cs EXCEPT !.instances = @ \cup {idx}]

Rlc(record) == RlcChipRecord(record, ChipRecordAlpha, ChipRecordBeta)

Linear(cs, record) == cs.legal /\ Degree(Rlc(record)) = 1

LkRecord(cs, rom, record) ==
    LET items == <<Constant(rom)>> \o record
    IN  [cs EXCEPT !.lk = Append(@, Rlc(items)), !.lk_items = Append(@, items),
                   !.legal = Linear(cs, items)]

\* spec is [len, structural], the fixed length of the table or 0 and its
\* structural columns.
LkTableRecord(cs, spec, rom, record, multiplicity) ==
    LET items == <<Constant(rom)>> \o record
    IN  [cs EXCEPT !.lk_table = Append(@, [multiplicity |-> multiplicity, values |-> Rlc(items), spec |-> spec]),
                   !.lk_items = Append(@, items), !.legal = Linear(cs, items)]

RTableRecord(cs, spec, record) ==
    [cs EXCEPT !.r_table = Append(@, [expr |-> Rlc(record), spec |-> spec]),
               !.ram_r = Append(@, record), !.legal = Linear(cs, record)]

WTableRecord(cs, spec, record) ==
    [cs EXCEPT !.w_table = Append(@, [expr |-> Rlc(record), spec |-> spec]),
               !.ram_w = Append(@, record), !.legal = Linear(cs, record)]

ReadRecord(cs, record) ==
    [cs EXCEPT !.r = Append(@, Rlc(record)), !.ram_r = Append(@, record), !.legal = Linear(cs, record)]

WriteRecord(cs, record) ==
    [cs EXCEPT !.w = Append(@, Rlc(record)), !.ram_w = Append(@, record), !.legal = Linear(cs, record)]

MonomialOf(expr) == IF IsMonomialForm("SumTerm", expr) THEN expr ELSE GetMonomialForm(expr)

RequireMonomial(cs, mono) ==
    [cs EXCEPT !.zero_sumcheck = Append(@, mono),
               !.max_non_lc_degree = IF Degree(mono) > @ THEN Degree(mono) ELSE @,
               !.legal = @ /\ IsMonomialForm("SumTerm", mono)]

\* Linear constraints are checked on the opened evaluations alone, the others
\* go to the sum check as monomials.
RequireZero(cs, expr) ==
    IF Degree(expr) <= 1
    THEN [cs EXCEPT !.zero = Append(@, expr), !.legal = @ /\ Degree(expr) = 1]
    ELSE RequireMonomial(cs, MonomialOf(expr))

RequireEqual(cs, a, b) == RequireZero(cs, Sub(GetMonomialForm(a), GetMonomialForm(b)))

\* AssertBit
AssertBit(cs, expr) == RequireZero(cs, Mul(expr, Sub(One, expr)))
-----------------------------------------------------------------------------
(***************************************************************************)
(* finalize_backend_monomial_expression: all that is constrained, each     *)
(* under a layer challenge of its own, as monomials over the columns in    *)
(* the order witness, structural, fixed.                                   *)
(***************************************************************************)
BackendExprs(cs) ==
    LET Less(es, e) == [i \in DOMAIN es |-> Sub(es[i], e)]
        Of(rs)      == [i \in DOMAIN rs |-> rs[i].expr]
    IN  Of(cs.r_table) \o Less(cs.r, One) \o Of(cs.w_table) \o Less(cs.w, One)
        \o [i \in DOMAIN cs.lk_table |-> cs.lk_table[i].multiplicity]
        \o [i \in DOMAIN cs.lk_table |-> cs.lk_table[i].values]
        \o Less(cs.lk, ChipRecordAlpha)
        \o cs.zero_sumcheck \o cs.zero

BackendCell(cs, cell) ==
    CASE cell.op = "WitIn" -> cell
      [] cell.op = "StructuralWitIn" -> WitIn(cs.num_witin + cell.id)
      [] cell.op = "Fixed" -> WitIn(cs.num_witin + cs.num_structural + cell.id)

UnderChallenges(exprs) == SumAll([j \in DOMAIN exprs |-> Mul(exprs[j], Challenge(j + 1, 1, 1, 0))])

Backend(cs, terms, size) ==
    [cs EXCEPT
        !.backend = [k \in DOMAIN terms |->
                        [terms[k] EXCEPT !.product = [j \in DOMAIN @ |-> BackendCell(cs, @[j])]]],
        !.num_backend_witin = cs.num_witin + cs.num_structural,
        !.num_layer_challenges = size]

WithBackend(cs, exprs) == Backend(cs, GetMonomialTerms(UnderChallenges(exprs)), Len(exprs))

FinalizeBackend(cs) == WithBackend(cs, BackendExprs(cs))
===============================================================================
