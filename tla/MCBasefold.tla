------------------------------- MODULE MCBasefold -------------------------------
(***************************************************************************)
(* Small commitments: circuits of one to four variables, with fixed       *)
(* columns or without, opened by one, two or four threads.  The base code  *)
(* has messages of one variable, so a circuit of one variable is committed *)
(* as it is; four variables fill the largest domain of two-power order of  *)
(* the field of 97 elements.                                               *)
(***************************************************************************)
EXTENDS Basefold

CONSTANTS Seeds, Pools

\* A column of 2 ^ n cells; different columns and seeds give different cells.
Column(seed, c, n) == [j \in 1 .. 2 ^ n |-> (seed * j * j + (c + 2) * j + seed * c) % Prime]

Coordinates(seed) ==
    <<(5 * seed) % Prime, (seed + 9) % Prime, (3 * seed + 2) % Prime, (seed * seed + 40) % Prime>>

Circuit(seed, id, n, witin, fixed) ==
    [witin |-> [c \in 1 .. witin |-> Column(seed, 3 * id + c, n)],
     fixed |-> [c \in 1 .. fixed |-> Column(seed + 1, 5 * id + c, n)],
     point |-> SubSeq(Coordinates(seed + id), 1, n)]

Shapes(s) ==
    {<<Circuit(s, 1, 2, 2, 0), Circuit(s, 2, 3, 1, 1), Circuit(s, 3, 1, 1, 1)>>,
     <<Circuit(s, 1, 1, 2, 0), Circuit(s, 2, 3, 1, 0), Circuit(s, 3, 2, 1, 2), Circuit(s, 4, 3, 1, 1)>>,
     <<Circuit(s, 1, 2, 1, 0), Circuit(s, 2, 2, 2, 1)>>,
     <<Circuit(s, 1, 3, 2, 1), Circuit(s, 2, 2, 1, 1), Circuit(s, 3, 2, 1, 0)>>,
     <<Circuit(s, 1, 2, 1, 1), Circuit(s, 2, 4, 1, 0), Circuit(s, 3, 3, 1, 1)>>,
     <<Circuit(s, 1, 2, 1, 0), Circuit(s, 2, 1, 1, 1)>>,
     <<Circuit(s, 1, 1, 1, 1), Circuit(s, 2, 1, 2, 0)>>}

MCInstances == {[circuits |-> shape, pool |-> pool] : shape \in UNION {Shapes(s) : s \in Seeds}, pool \in Pools}
===============================================================================
