------------------------- MODULE EmulatorBalanceProofs -------------------------
(***************************************************************************)
(* The offline memory check of a finished run balances, for every program, *)
(* platform and number of steps: the initial records and what the trace    *)
(* writes are what it reads and the final records.  The argument is on     *)
(* sets: every operation has its own time on its location, so no entry     *)
(* comes twice, and an entry that is written at a time is consumed by the  *)
(* next operation on its location, or by the final record.                 *)
(***************************************************************************)
EXTENDS EmulatorTablesProofs, Bags

USE DEF WORD_SIZE
-----------------------------------------------------------------------------
(***************************************************************************)
(* No location is touched twice at one time.                               *)
(***************************************************************************)
\* Every operation has its own time on its location, after the initial state.
Distinct ==
    /\ \A d, e \in OpIndex : Op(d).loc = Op(e).loc /\ Op(d).ts = Op(e).ts => d = e
    /\ \A d \in OpIndex : Op(d).ts > 0

\* The places of the operations after a step.
LEMMA IndexAfter ==
    ASSUME IInv, NEW touches, NEW next, Shape(touches, next)
    PROVE  /\ \A d \in OpIndex : d \in OpIndex' /\ Op(d)' = Op(d)
           /\ \A d \in OpIndex' :
                 \/ d \in OpIndex
                 \/ \E k \in DOMAIN touches :
                       d = <<Len(records) + 1, k>> /\ Op(d)' = Operations(touches)[k]
<1> DEFINE new == [cycle |-> cycle, before |-> pc, after |-> next,
                   kind |-> Insn.kind, ops |-> Operations(touches)]
<1>1. Len(records) \in Nat BY LenProperties DEF IInv
<1>2. PICK n \in Nat : n = Len(records) + 1 BY <1>1
<1>3. /\ \A i \in DOMAIN records : i \in DOMAIN records' /\ records'[i] = records[i]
      /\ records'[n] = new /\ DOMAIN records' = DOMAIN records \union {n}
  <2>1. /\ DOMAIN records = 1 .. Len(records) /\ records' \in Seq(StepRecord)
        /\ Len(records') = n /\ records'[n] = new
        /\ \A i \in DOMAIN records : i \in DOMAIN records' /\ records'[i] = records[i]
    BY <1>2, TraceAfter
  <2>2. DOMAIN records' = 1 .. n BY <2>1, LenProperties
  <2> QED BY <1>1, <1>2, <2>1, <2>2
<1>4. TypeOK /\ Fit(touches) BY DEF IInv, Shape
<1>5. records'[n].ops = Operations(touches) BY <1>3
<1>6. DOMAIN Operations(touches) = DOMAIN touches BY <1>4, OperationsType
<1>7. OpIndex' = UNION {{<<i, k>> : k \in DOMAIN records'[i].ops} : i \in DOMAIN records'}
  BY DEF OpIndex
<1> HIDE DEF new
<1>8. ASSUME NEW d \in OpIndex PROVE d \in OpIndex' /\ Op(d)' = Op(d)
  <2>1. PICK i \in DOMAIN records : d \in {<<i, k>> : k \in DOMAIN records[i].ops}
    BY DEF OpIndex
  <2>2. i \in DOMAIN records' /\ d \in {<<i, k>> : k \in DOMAIN records'[i].ops}
    BY <1>3, <2>1
  <2>3. d \in OpIndex' BY <1>7, <2>2
  <2>4. d[1] = i BY <2>1
  <2>5. records'[d[1]] = records[d[1]] BY <1>3, <2>4
  <2>6. Op(d)' = Op(d) BY <2>5 DEF Op
  <2> QED BY <2>3, <2>6
<1>9. ASSUME NEW d \in OpIndex', d \notin OpIndex
      PROVE  \E k \in DOMAIN touches : d = <<n, k>> /\ Op(d)' = Operations(touches)[k]
  <2>1. PICK i \in DOMAIN records' : d \in {<<i, k>> : k \in DOMAIN records'[i].ops}
    BY <1>7
  <2>2. i = n
    <3> SUFFICES ASSUME i \in DOMAIN records PROVE FALSE
      BY <1>3
    <3>1. d \in {<<i, k>> : k \in DOMAIN records[i].ops} BY <1>3, <2>1
    <3> QED BY <1>9, <3>1 DEF OpIndex
  <2>3. PICK k \in DOMAIN records'[i].ops : d = <<i, k>> BY <2>1
  <2>4. Op(d)' = records'[n].ops[k] BY <2>2, <2>3 DEF Op
  <2> QED BY <1>5, <1>6, <2>2, <2>3, <2>4
<1> QED BY <1>2, <1>8, <1>9

\* A step whose touches are ordered gives each operation its own time.
LEMMA StepDistinct ==
    ASSUME IInv, Distinct, NEW touches, NEW next, Shape(touches, next), Ordered(touches)
    PROVE  Distinct'
<1>1. TypeOK /\ Fit(touches) /\ ClockAhead /\ records \in Seq(StepRecord) BY DEF IInv, Shape
<1>2. /\ cycle \in Nat /\ cycle > 0 /\ touches \in Seq(Touch)
      /\ Len(touches) \in Nat /\ DOMAIN touches = 1 .. Len(touches)
  <2>1. Len(records) \in Nat /\ cycle = 4 * (Len(records) + 1)
    BY <1>1, LenProperties DEF ClockAhead
  <2> QED BY <1>1, <2>1, LenProperties DEF Fit
<1>3. \A k \in DOMAIN touches :
         /\ Operations(touches)[k].loc = touches[k].loc
         /\ Operations(touches)[k].ts = cycle + touches[k].sub
         /\ touches[k].sub \in 0 .. 3
  BY <1>1, OperationsType DEF Touch
<1>4. ASSUME NEW d \in OpIndex
      PROVE  Op(d)' = Op(d) /\ Op(d)'.ts \in Nat /\ Op(d)'.ts < cycle /\ Op(d)'.ts > 0
  <2>1. Op(d) \in Ops BY DEF Ops
  <2>2. Op(d).ts \in Nat /\ Op(d).ts < cycle
    BY <1>1, <2>1, OpsAre DEF ClockAhead, Operation
  <2>3. Op(d)' = Op(d) BY IndexAfter
  <2> QED BY <2>2, <2>3 DEF Distinct
<1> DEFINE New(d) == \E k \in DOMAIN touches : /\ d = <<Len(records) + 1, k>>
                                               /\ Op(d)'.loc = touches[k].loc
                                               /\ Op(d)'.ts = cycle + touches[k].sub
<1>5. \A d \in OpIndex' : d \in OpIndex \/ New(d) BY <1>3, IndexAfter
<1>6. \A d : New(d) => Op(d)'.ts \in Nat /\ Op(d)'.ts >= cycle BY <1>2, <1>3
<1>7. ASSUME NEW d, NEW e, New(d), New(e), Op(d)'.loc = Op(e)'.loc, Op(d)'.ts = Op(e)'.ts
      PROVE  d = e
  <2>1. PICK j \in DOMAIN touches : /\ d = <<Len(records) + 1, j>>
                                    /\ Op(d)'.loc = touches[j].loc
                                    /\ Op(d)'.ts = cycle + touches[j].sub
    BY <1>7
  <2>2. PICK k \in DOMAIN touches : /\ e = <<Len(records) + 1, k>>
                                    /\ Op(e)'.loc = touches[k].loc
                                    /\ Op(e)'.ts = cycle + touches[k].sub
    BY <1>7
  <2>3. touches[j].sub = touches[k].sub
    <3>1. cycle + touches[j].sub = cycle + touches[k].sub BY <1>7, <2>1, <2>2
    <3>2. touches[j].sub \in 0 .. 3 /\ touches[k].sub \in 0 .. 3 BY <1>3
    <3> QED BY <1>2, <3>1, <3>2
  <2>4. ~(j < k) /\ ~(k < j)
    BY <1>3, <1>7, <2>1, <2>2, <2>3 DEF Ordered
  <2>5. j = k BY <1>2, <2>4
  <2> QED BY <2>1, <2>2, <2>5
<1> HIDE DEF New
<1>8. ASSUME NEW d \in OpIndex', NEW e \in OpIndex', Op(d)'.loc = Op(e)'.loc, Op(d)'.ts = Op(e)'.ts
      PROVE  d = e
  <2>1. CASE d \in OpIndex /\ e \in OpIndex BY <1>4, <1>8, <2>1 DEF Distinct
  <2>2. CASE d \in OpIndex /\ New(e) BY <1>2, <1>4, <1>6, <1>8, <2>2
  <2>3. CASE New(d) /\ e \in OpIndex BY <1>2, <1>4, <1>6, <1>8, <2>3
  <2>4. CASE New(d) /\ New(e) BY <1>7, <1>8, <2>4
  <2> QED BY <1>5, <2>1, <2>2, <2>3, <2>4
<1>9. \A d \in OpIndex' : Op(d)'.ts > 0 BY <1>2, <1>4, <1>5, <1>6
<1> QED BY <1>8, <1>9 DEF Distinct

\* Nothing is touched before the first step.
LEMMA InitDistinct == Init => Distinct
<1> SUFFICES ASSUME Init PROVE Distinct
  OBVIOUS
<1>1. DOMAIN records = {} BY DEF Init
<1>2. OpIndex = {} BY <1>1 DEF OpIndex
<1> QED BY <1>2 DEF Distinct

\* Every step keeps the times apart while the pointers of the calls are.
LEMMA NextDistinct == IInv /\ Distinct /\ PointersApart /\ [Next]_vars => Distinct'
<1> SUFFICES ASSUME IInv, Distinct, PointersApart, [Next]_vars PROVE Distinct'
  OBVIOUS
<1>1. CASE \E t, n : Shape(t, n) BY <1>1, StepDistinct DEF Shape
<1>2. CASE Silent
  <2>1. records' = records BY <1>2 DEF Silent
  <2>2. OpIndex' = OpIndex /\ \A d : Op(d)' = Op(d) BY <2>1 DEF OpIndex, Op
  <2> QED BY <2>2 DEF Distinct
<1> QED BY <1>1, <1>2, NextCases

-----------------------------------------------------------------------------
(***************************************************************************)
(* Bags of what comes once.                                                *)
(***************************************************************************)
\* A set and a function without repetitions, as bags.
LEMMA SetBags ==
    /\ \A S, T : SetToBag(S) = SetToBag(T) => S = T
    /\ \A S, T : S \cap T = {} => SetToBag(S) (+) SetToBag(T) = SetToBag(S \union T)
    /\ \A f : (\A d, e \in DOMAIN f : f[d] = f[e] => d = e)
                => AsBag(f) = SetToBag({f[d] : d \in DOMAIN f})
<1>1. \A S, T : SetToBag(S) = SetToBag(T) => S = T BY DEF SetToBag
<1>2. \A S, T : S \cap T = {} => SetToBag(S) (+) SetToBag(T) = SetToBag(S \union T)
  BY DEF (+), SetToBag
<1>3. ASSUME NEW f, \A d, e \in DOMAIN f : f[d] = f[e] => d = e
      PROVE  AsBag(f) = SetToBag({f[d] : d \in DOMAIN f})
  <2>1. ASSUME NEW d \in DOMAIN f PROVE Cardinality({e \in DOMAIN f : f[e] = f[d]}) = 1
    <3>1. {e \in DOMAIN f : f[e] = f[d]} = {d} BY <1>3
    <3> QED BY <3>1, FS_Singleton
  <2> QED BY <2>1 DEF AsBag, SetToBag
<1> QED BY <1>1, <1>2, <1>3

\* Six sets of which no two meet.
TableNames == {"reg", "static", "public_io", "hints", "stack", "heap"}
LEMMA SixBags ==
    ASSUME NEW f, \A s, t \in TableNames : s # t => f[s] \cap f[t] = {}
    PROVE  SetToBag(f["reg"]) (+) SetToBag(f["static"]) (+) SetToBag(f["public_io"])
           (+) SetToBag(f["hints"]) (+) SetToBag(f["stack"]) (+) SetToBag(f["heap"])
           = SetToBag(UNION {f[s] : s \in TableNames})
<1> DEFINE A == f["reg"]
           B == A \union f["static"]
           C == B \union f["public_io"]
           D == C \union f["hints"]
           E == D \union f["stack"]
           F == E \union f["heap"]
<1>1. SetToBag(A) (+) SetToBag(f["static"]) = SetToBag(B)
  <2>1. A \cap f["static"] = {} BY DEF TableNames
  <2> QED BY <2>1, SetBags
<1>2. SetToBag(B) (+) SetToBag(f["public_io"]) = SetToBag(C)
  <2>1. B \cap f["public_io"] = {} BY DEF TableNames
  <2> QED BY <2>1, SetBags
<1>3. SetToBag(C) (+) SetToBag(f["hints"]) = SetToBag(D)
  <2>1. C \cap f["hints"] = {} BY DEF TableNames
  <2> QED BY <2>1, SetBags
<1>4. SetToBag(D) (+) SetToBag(f["stack"]) = SetToBag(E)
  <2>1. D \cap f["stack"] = {} BY DEF TableNames
  <2> QED BY <2>1, SetBags
<1>5. SetToBag(E) (+) SetToBag(f["heap"]) = SetToBag(F)
  <2>1. E \cap f["heap"] = {} BY DEF TableNames
  <2> QED BY <2>1, SetBags
<1>6. F = UNION {f[s] : s \in TableNames} BY DEF TableNames
<1> HIDE DEF B, C, D, E, F
<1> QED BY <1>1, <1>2, <1>3, <1>4, <1>5, <1>6

-----------------------------------------------------------------------------
(***************************************************************************)
(* The final records.                                                      *)
(***************************************************************************)
\* What a finished run returns are the tables of the machine, which it left.
OutputIs == status = "returned" => output.tables = FinalTables /\ Unhandled = {}

\* The tables depend on the machine alone.
LEMMA SilentTables == ASSUME Silent PROVE FinalTables' = FinalTables /\ Unhandled' = Unhandled
<1>1. /\ registers' = registers /\ memory' = memory /\ latest' = latest /\ mmio' = mmio
  BY DEF Silent
<1>2. FinalTables' = FinalTables
  BY <1>1 DEF FinalTables, Record, MemRecords, InputRecords, StackWords, HeapWords, Accessed
<1>3. Unhandled' = Unhandled BY <1>1, <1>2 DEF Unhandled
<1> QED BY <1>2, <1>3

\* Nothing is returned before the end, and nothing happens after it.
LEMMA OutputInvariant == (Init => OutputIs) /\ (IInv /\ OutputIs /\ [Next]_vars => OutputIs')
<1>1. Init => OutputIs BY DEF Init, OutputIs
<1>2. ASSUME IInv, OutputIs, [Next]_vars PROVE OutputIs'
  <2>1. CASE \E t, n : Shape(t, n) BY <2>1 DEF Shape, CanStep, OutputIs
  <2>2. CASE Silent /\ status' \in {status, "failed"} /\ output' = output
    <3>1. FinalTables' = FinalTables /\ Unhandled' = Unhandled BY <2>2, SilentTables
    <3>2. status' = "returned" => status = "returned" BY <2>2
    <3> QED BY <1>2, <2>2, <3>1, <3>2 DEF OutputIs
  <2>3. CASE Silent /\ Return BY <2>3, SilentTables DEF OutputIs, Return
  <2> QED BY <1>2, <2>1, <2>2, <2>3, NextCases
<1> QED BY <1>1, <1>2

\* The tables, by the locations they are of: registers, the words of each range, and
\* the words outside the ranges.
Kinds == DOMAIN Ranges \union {"reg", "static"}
IsOf(kind, loc) ==
    CASE kind = "reg"    -> loc[1] = "reg"
      [] kind = "static" -> loc[1] = "mem" /\ \A r \in DOMAIN Ranges : ~InRange(4 * loc[2], Ranges[r])
      [] OTHER           -> loc[1] = "mem" /\ InRange(4 * loc[2], Ranges[kind])

\* What the final record of a location says it holds.
Claimed(loc) ==
    IF IsOf("public_io", loc) \/ IsOf("hints", loc) THEN InitialValue(loc) ELSE Value(loc)

\* A location is of one kind only.
LEMMA OneKind ==
    ASSUME NEW loc \in Locations, NEW s \in Kinds, NEW t \in Kinds, IsOf(s, loc), IsOf(t, loc)
    PROVE  s = t
<1> SUFFICES ASSUME s # t PROVE FALSE
  OBVIOUS
<1>1. loc[1] = "reg" <=> s = "reg" BY DEF IsOf, Kinds
<1>2. loc[1] = "reg" <=> t = "reg" BY DEF IsOf, Kinds
<1>3. s # "reg" /\ t # "reg" BY <1>1, <1>2
<1>4. "reg" \notin DOMAIN Ranges /\ "static" \notin DOMAIN Ranges BY RangeFacts
<1>5. s # "static" /\ t # "static" BY <1>3, <1>4 DEF IsOf, Kinds
<1>6. /\ s \in DOMAIN Ranges /\ t \in DOMAIN Ranges
      /\ InRange(4 * loc[2], Ranges[s]) /\ InRange(4 * loc[2], Ranges[t])
  BY <1>3, <1>4, <1>5 DEF IsOf, Kinds
<1>7. loc[1] = "mem" BY <1>3, <1>5 DEF IsOf, Kinds
<1>8. 4 * loc[2] \in Nat
  <2>1. loc[2] \in Nat BY <1>7, MemFacts
  <2> QED BY <2>1
<1> QED BY <1>6, <1>8, RangesApart

\* The words of the image and of the inputs, and those between the bounds of the
\* stack and of the heap, are words of their ranges.
LEMMA TableWords ==
    ASSUME IInv
    PROVE  /\ \A a \in DOMAIN Image : /\ WAddr(a) \in WordAddrs
                                      /\ IsOf("static", Mem(WAddr(a)))
           /\ \A a \in DOMAIN IoInit : /\ WAddr(a) \in WordAddrs /\ 4 * WAddr(a) = a
                                       /\ IsOf("public_io", Mem(WAddr(a)))
           /\ \A a \in DOMAIN HintInit : /\ WAddr(a) \in WordAddrs /\ 4 * WAddr(a) = a
                                         /\ IsOf("hints", Mem(WAddr(a)))
           /\ \A w \in StackWords : w \in WordAddrs /\ IsOf("stack", Mem(w))
           /\ \A w \in HeapWords : w \in WordAddrs /\ IsOf("heap", Mem(w))
<1>1. \A w : Mem(w)[1] = "mem" /\ Mem(w)[2] = w BY MemFacts
<1>2. \A w, r : r \in DOMAIN Ranges => (IsOf(r, Mem(w)) <=> InRange(4 * w, Ranges[r]))
  BY <1>1, RangeFacts DEF IsOf
<1>3. ASSUME NEW a \in DOMAIN Image
      PROVE  WAddr(a) \in WordAddrs /\ IsOf("static", Mem(WAddr(a)))
  <2>1. a \in Words /\ WAddr(a) \in WordAddrs BY InputFacts, WordFacts
  <2>2. ASSUME NEW r \in DOMAIN Ranges PROVE ~InRange(4 * WAddr(a), Ranges[r])
    <3> DEFINE s == Ranges[r].start
               e == Ranges[r].end
    <3>1. ~(s <= a /\ a < e) BY PlatformAssumption DEF InRange
    <3>2. s \in Nat /\ e \in Nat /\ e % 4 = 0 BY RangeEnds
    <3>3. Words = 0 .. Modulus - 1 /\ Modulus \in Nat BY WordFacts
    <3>4. a \in Nat BY <2>1, <3>3
    <3> HIDE DEF s, e
    <3>5. ~(s <= 4 * WAddr(a) /\ 4 * WAddr(a) < e) BY <3>1, <3>2, <3>4 DEF WAddr
    <3> QED BY <3>5 DEF InRange, s, e
  <2>3. IsOf("static", Mem(WAddr(a))) BY <1>1, <2>2 DEF IsOf
  <2> QED BY <2>1, <2>3
<1>4. ASSUME NEW a \in DOMAIN IoInit
      PROVE  WAddr(a) \in WordAddrs /\ 4 * WAddr(a) = a /\ IsOf("public_io", Mem(WAddr(a)))
  <2>1. a \in Words /\ a % 4 = 0 /\ InRange(a, Ranges.public_io) BY InputFacts, RangeFacts
  <2>2. WAddr(a) \in WordAddrs /\ 4 * WAddr(a) = a BY <2>1, WordFacts, WordOfAddress
  <2> QED BY <1>2, <2>1, <2>2, RangeFacts
<1>5. ASSUME NEW a \in DOMAIN HintInit
      PROVE  WAddr(a) \in WordAddrs /\ 4 * WAddr(a) = a /\ IsOf("hints", Mem(WAddr(a)))
  <2>1. a \in Words /\ a % 4 = 0 /\ InRange(a, Ranges.hints) BY InputFacts, RangeFacts
  <2>2. WAddr(a) \in WordAddrs /\ 4 * WAddr(a) = a BY <2>1, WordFacts, WordOfAddress
  <2> QED BY <1>2, <2>1, <2>2, RangeFacts
<1>6. ASSUME NEW r \in DOMAIN Regions, NEW w \in Int,
             WAddr(Regions[r].start) <= w, w < WAddr(Regions[r].end)
      PROVE  w \in WordAddrs /\ IsOf(r, Mem(w))
  <2>1. r \in DOMAIN Ranges /\ Regions[r] = Ranges[r] BY RangeFacts
  <2>2. Ranges[r].end \in Words BY <2>1, RangeFacts
  <2>3. WAddr(Ranges[r].end) \in WordAddrs BY <2>2, WordFacts
  <2>4. WAddr(Ranges[r].start) \in Nat BY <2>1, RangeWords
  <2>5. WAddr(Modulus) \in Nat BY WordFacts
  <2>6. w \in WordAddrs BY <1>6, <2>1, <2>3, <2>4, <2>5 DEF WordAddrs
  <2>7. InRange(4 * w, Ranges[r]) BY <1>6, <2>1, <2>6, RangeWords
  <2> QED BY <1>2, <2>1, <2>6, <2>7
<1>7. /\ "stack" \in DOMAIN Regions /\ Regions["stack"] = Stack
      /\ "heap" \in DOMAIN Regions /\ Regions["heap"] = Heap
  BY DEF Regions
<1>8. \A r \in DOMAIN Regions :
         /\ WAddr(Regions[r].start) \in Nat /\ WAddr(Regions[r].end) \in Nat
         /\ mmio[r].min \in WAddr(Regions[r].start) .. WAddr(Regions[r].end)
         /\ mmio[r].max \in WAddr(Regions[r].start) .. WAddr(Regions[r].end)
  BY RangeFacts, RangeWords DEF IInv, TypeOK
<1>9. ASSUME NEW w \in StackWords PROVE w \in WordAddrs /\ IsOf("stack", Mem(w))
  <2>1. w \in mmio["stack"].min .. WAddr(Stack.end) - 1 BY DEF StackWords
  <2>2. w \in Int /\ WAddr(Stack.start) <= w /\ w < WAddr(Stack.end) BY <1>7, <1>8, <2>1
  <2> QED BY <1>6, <1>7, <2>2
<1>10. ASSUME NEW w \in HeapWords PROVE w \in WordAddrs /\ IsOf("heap", Mem(w))
  <2>1. w \in WAddr(Heap.start) .. mmio["heap"].max - 1 BY DEF HeapWords
  <2>2. w \in Int /\ WAddr(Heap.start) <= w /\ w < WAddr(Heap.end) BY <1>7, <1>8, <2>1
  <2> QED BY <1>6, <1>7, <2>2
<1> QED BY <1>3, <1>4, <1>5, <1>9, <1>10

\* The table of a kind, and all final records.
TableOf(kind) ==
    CASE kind = "reg"       -> FinalTables.reg
      [] kind = "static"    -> FinalTables.static
      [] kind = "public_io" -> FinalTables.io
      [] kind = "hints"     -> FinalTables.hints
      [] kind = "stack"     -> FinalTables.stack
      [] kind = "heap"      -> FinalTables.heap
Listed == UNION {FinalTables[t] : t \in DOMAIN FinalTables}

\* The tables by name.
LEMMA TablesAre ==
    /\ TableOf("reg") = {Record(Reg(i), registers[i]) : i \in Regs}
    /\ TableOf("static") = MemRecords({WAddr(a) : a \in DOMAIN Image})
    /\ TableOf("public_io") = InputRecords(IoInit)
    /\ TableOf("hints") = InputRecords(HintInit)
    /\ TableOf("stack") = MemRecords(StackWords)
    /\ TableOf("heap") = MemRecords(HeapWords)
    /\ Kinds = {"reg", "static", "public_io", "hints", "stack", "heap"}
    /\ Listed = TableOf("reg") \union TableOf("static") \union TableOf("public_io")
                \union TableOf("hints") \union TableOf("stack") \union TableOf("heap")
<1>1. /\ TableOf("reg") = FinalTables.reg /\ TableOf("static") = FinalTables.static
      /\ TableOf("public_io") = FinalTables.io /\ TableOf("hints") = FinalTables.hints
      /\ TableOf("stack") = FinalTables.stack /\ TableOf("heap") = FinalTables.heap
  BY DEF TableOf
<1>2. /\ DOMAIN FinalTables = {"reg", "static", "io", "hints", "stack", "heap"}
      /\ FinalTables.reg = {Record(Reg(i), registers[i]) : i \in Regs}
      /\ FinalTables.static = MemRecords({WAddr(a) : a \in DOMAIN Image})
      /\ FinalTables.io = InputRecords(IoInit) /\ FinalTables.hints = InputRecords(HintInit)
      /\ FinalTables.stack = MemRecords(StackWords) /\ FinalTables.heap = MemRecords(HeapWords)
  BY DEF FinalTables
<1>3. Kinds = {"reg", "static", "public_io", "hints", "stack", "heap"}
  BY RangeFacts DEF Kinds
<1>4. Listed = FinalTables.reg \union FinalTables.static \union FinalTables.io
               \union FinalTables.hints \union FinalTables.stack \union FinalTables.heap
  BY <1>2 DEF Listed
<1> QED BY <1>1, <1>2, <1>3, <1>4

\* A final record is of a location of its kind, at the clock of its latest touch, and
\* claims what the kind says.
LEMMA RecordIs ==
    ASSUME IInv, NEW kind \in Kinds, NEW rec \in TableOf(kind)
    PROVE  /\ rec.loc \in Locations /\ IsOf(kind, rec.loc)
           /\ rec.cycle = latest[rec.loc] /\ rec.value = Claimed(rec.loc)
<1>1. ASSUME NEW loc \in Locations, IsOf(kind, loc), NEW v, rec = Record(loc, v),
             v = IF kind \in {"public_io", "hints"} THEN InitialValue(loc) ELSE Value(loc)
      PROVE  /\ rec.loc \in Locations /\ IsOf(kind, rec.loc)
             /\ rec.cycle = latest[rec.loc] /\ rec.value = Claimed(rec.loc)
  <2>1. rec.loc = loc /\ rec.value = v /\ rec.cycle = latest[loc] BY <1>1, RecordFacts
  <2>2. \A s \in Kinds : IsOf(s, loc) => s = kind BY <1>1, OneKind
  <2>3. "public_io" \in Kinds /\ "hints" \in Kinds BY TablesAre
  <2>4. v = Claimed(loc) BY <1>1, <2>2, <2>3 DEF Claimed
  <2> QED BY <1>1, <2>1, <2>4
<1>2. TypeOK BY DEF IInv
<1>3. CASE kind = "reg"
  <2>1. PICK i \in Regs : rec = Record(Reg(i), registers[i]) BY <1>3, TablesAre
  <2>2. Reg(i) \in Locations BY WordFacts
  <2>3. IsOf("reg", Reg(i)) BY MemFacts DEF IsOf
  <2>4. Value(Reg(i)) = registers[i] BY <1>2, ValueType
  <2> QED BY <1>1, <1>3, <2>1, <2>2, <2>3, <2>4
<1>4. ASSUME NEW w \in WordAddrs, IsOf(kind, Mem(w)), rec = Record(Mem(w), memory[w]),
             kind \notin {"public_io", "hints"}
      PROVE  /\ rec.loc \in Locations /\ IsOf(kind, rec.loc)
             /\ rec.cycle = latest[rec.loc] /\ rec.value = Claimed(rec.loc)
  <2>1. Mem(w) \in Locations BY WordFacts
  <2>2. Value(Mem(w)) = memory[w] BY <1>2, ValueType
  <2> QED BY <1>1, <1>4, <2>1, <2>2
<1>5. CASE kind = "static"
  <2> DEFINE W == {WAddr(a) : a \in DOMAIN Image}
  <2>1. PICK w \in W : rec = Record(Mem(w), memory[w]) BY <1>5, TablesAre, RecordFacts
  <2>2. PICK a \in DOMAIN Image : w = WAddr(a) BY <2>1
  <2>3. w \in WordAddrs /\ IsOf("static", Mem(w)) BY <2>2, TableWords
  <2> QED BY <1>4, <1>5, <2>1, <2>3
<1>6. CASE kind = "stack"
  <2>1. PICK w \in StackWords : rec = Record(Mem(w), memory[w]) BY <1>6, TablesAre, RecordFacts
  <2>2. w \in WordAddrs /\ IsOf("stack", Mem(w)) BY TableWords
  <2> QED BY <1>4, <1>6, <2>1, <2>2
<1>7. CASE kind = "heap"
  <2>1. PICK w \in HeapWords : rec = Record(Mem(w), memory[w]) BY <1>7, TablesAre, RecordFacts
  <2>2. w \in WordAddrs /\ IsOf("heap", Mem(w)) BY TableWords
  <2> QED BY <1>4, <1>7, <2>1, <2>2
<1>8. ASSUME NEW w \in WordAddrs
      PROVE  InitialValue(Mem(w)) = InitialMemory[w] /\ Mem(w) \in Locations
  <2>1. Mem(w)[1] = "mem" /\ Mem(w)[2] = w BY MemFacts
  <2> QED BY <2>1, WordFacts DEF InitialValue
<1>9. CASE kind = "public_io"
  <2>1. PICK a \in DOMAIN IoInit : rec = Record(Mem(WAddr(a)), IoInit[a])
    BY <1>9, TablesAre, RecordFacts
  <2>2. WAddr(a) \in WordAddrs /\ 4 * WAddr(a) = a /\ IsOf("public_io", Mem(WAddr(a)))
    BY TableWords
  <2>3. InitialMemory[WAddr(a)] = IoInit[a] BY <2>2, InputFacts DEF InitialMemory
  <2> QED BY <1>1, <1>8, <1>9, <2>1, <2>2, <2>3
<1>10. CASE kind = "hints"
  <2>1. PICK a \in DOMAIN HintInit : rec = Record(Mem(WAddr(a)), HintInit[a])
    BY <1>10, TablesAre, RecordFacts
  <2>2. WAddr(a) \in WordAddrs /\ 4 * WAddr(a) = a /\ IsOf("hints", Mem(WAddr(a)))
    BY TableWords
  <2>3. InitialMemory[WAddr(a)] = HintInit[a] BY <2>2, InputFacts DEF InitialMemory
  <2> QED BY <1>1, <1>8, <1>10, <2>1, <2>2, <2>3
<1> QED BY <1>3, <1>5, <1>6, <1>7, <1>9, <1>10, TablesAre

\* The final records say what the machine holds exactly when no input was changed.
LEMMA InputsAre ==
    ASSUME IInv
    PROVE  InputUnchanged <=> \A rec \in Listed : rec.value = Value(rec.loc)
<1>1. TypeOK BY DEF IInv
<1>2. \A w \in WordAddrs : Value(Mem(w)) = memory[w] BY <1>1, ValueType
<1>3. ASSUME \A rec \in Listed : rec.value = Value(rec.loc) PROVE InputUnchanged
  <2>1. ASSUME NEW a \in DOMAIN IoInit PROVE memory[WAddr(a)] = IoInit[a]
    <3> DEFINE rec == Record(Mem(WAddr(a)), IoInit[a])
    <3>1. rec \in Listed BY TablesAre, RecordFacts
    <3>2. rec.loc = Mem(WAddr(a)) /\ rec.value = IoInit[a] BY RecordFacts
    <3> HIDE DEF rec
    <3> QED BY <1>2, <1>3, <3>1, <3>2, TableWords
  <2>2. ASSUME NEW a \in DOMAIN HintInit PROVE memory[WAddr(a)] = HintInit[a]
    <3> DEFINE rec == Record(Mem(WAddr(a)), HintInit[a])
    <3>1. rec \in Listed BY TablesAre, RecordFacts
    <3>2. rec.loc = Mem(WAddr(a)) /\ rec.value = HintInit[a] BY RecordFacts
    <3> HIDE DEF rec
    <3> QED BY <1>2, <1>3, <3>1, <3>2, TableWords
  <2> QED BY <2>1, <2>2 DEF InputUnchanged
<1>4. ASSUME InputUnchanged, NEW rec \in Listed PROVE rec.value = Value(rec.loc)
  <2>1. PICK kind \in Kinds : rec \in TableOf(kind) BY TablesAre
  <2>2. CASE kind = "public_io"
    <3>1. PICK a \in DOMAIN IoInit : rec = Record(Mem(WAddr(a)), IoInit[a])
      BY <2>1, <2>2, TablesAre, RecordFacts
    <3>2. rec.loc = Mem(WAddr(a)) /\ rec.value = IoInit[a] BY <3>1, RecordFacts
    <3> QED BY <1>2, <1>4, <3>2, TableWords DEF InputUnchanged
  <2>3. CASE kind = "hints"
    <3>1. PICK a \in DOMAIN HintInit : rec = Record(Mem(WAddr(a)), HintInit[a])
      BY <2>1, <2>3, TablesAre, RecordFacts
    <3>2. rec.loc = Mem(WAddr(a)) /\ rec.value = HintInit[a] BY <3>1, RecordFacts
    <3> QED BY <1>2, <1>4, <3>2, TableWords DEF InputUnchanged
  <2>4. CASE kind \notin {"public_io", "hints"}
    <3>1. rec.loc \in Locations /\ IsOf(kind, rec.loc) /\ rec.value = Claimed(rec.loc)
      BY <2>1, RecordIs
    <3>2. "public_io" \in Kinds /\ "hints" \in Kinds BY TablesAre
    <3>3. ~IsOf("public_io", rec.loc) /\ ~IsOf("hints", rec.loc) BY <2>4, <3>1, <3>2, OneKind
    <3> QED BY <3>1, <3>3 DEF Claimed
  <2> QED BY <2>2, <2>3, <2>4
<1> QED BY <1>3, <1>4

-----------------------------------------------------------------------------
(***************************************************************************)
(* The check, on sets.                                                     *)
(***************************************************************************)
Entering(table) == {Entry(rec.loc, InitialValue(rec.loc), 0) : rec \in table}
Leaving(table)  == {Entry(rec.loc, rec.value, rec.cycle) : rec \in table}
Written == {Entry(Op(d).loc, Op(d).after, Op(d).ts) : d \in OpIndex}
Consumed == {Entry(Op(d).loc, Op(d).before, Op(d).prev) : d \in OpIndex}

\* An entry is its three parts.
LEMMA EntryFacts ==
    /\ \A l, v, t : Entry(l, v, t).loc = l /\ Entry(l, v, t).value = v /\ Entry(l, v, t).ts = t
    /\ \A l, v, t, m, u, s : Entry(l, v, t) = Entry(m, u, s) => l = m /\ v = u /\ t = s
<1>1. \A l, v, t : Entry(l, v, t).loc = l /\ Entry(l, v, t).value = v /\ Entry(l, v, t).ts = t
  BY DEF Entry
<1>2. ASSUME NEW l, NEW v, NEW t, NEW m, NEW u, NEW s, Entry(l, v, t) = Entry(m, u, s)
      PROVE  l = m /\ v = u /\ t = s
  <2>1. /\ Entry(l, v, t).loc = l /\ Entry(l, v, t).value = v /\ Entry(l, v, t).ts = t
        /\ Entry(m, u, s).loc = m /\ Entry(m, u, s).value = u /\ Entry(m, u, s).ts = s
    BY <1>1
  <2> QED BY <1>2, <2>1
<1> QED BY <1>1, <1>2

\* The tables of a finished run have no location in common.
LEMMA TotalIs ==
    ASSUME IInv, output.tables = FinalTables
    PROVE  /\ Total(InitialEntries) = SetToBag(Entering(Listed))
           /\ Total(FinalEntries) = SetToBag(Leaving(Listed))
<1> DEFINE T(kind) == TableOf(kind)
<1>1. ASSUME NEW s \in Kinds, NEW t \in Kinds, s # t
      PROVE  /\ Entering(T(s)) \cap Entering(T(t)) = {}
             /\ Leaving(T(s)) \cap Leaving(T(t)) = {}
  <2>1. \A a \in T(s), b \in T(t) : a.loc # b.loc BY <1>1, RecordIs, OneKind
  <2>2. \A x \in Entering(T(s)) : \E a \in T(s) : x.loc = a.loc BY EntryFacts DEF Entering
  <2>3. \A x \in Entering(T(t)) : \E a \in T(t) : x.loc = a.loc BY EntryFacts DEF Entering
  <2>4. \A x \in Leaving(T(s)) : \E a \in T(s) : x.loc = a.loc BY EntryFacts DEF Leaving
  <2>5. \A x \in Leaving(T(t)) : \E a \in T(t) : x.loc = a.loc BY EntryFacts DEF Leaving
  <2> QED BY <2>1, <2>2, <2>3, <2>4, <2>5
<1>2. /\ output.tables.reg = T("reg") /\ output.tables.static = T("static")
      /\ output.tables.io = T("public_io") /\ output.tables.hints = T("hints")
      /\ output.tables.stack = T("stack") /\ output.tables.heap = T("heap")
  BY DEF TableOf
<1>3. \A table : /\ InitialEntries(table) = SetToBag(Entering(table))
                 /\ FinalEntries(table) = SetToBag(Leaving(table))
  BY DEF InitialEntries, FinalEntries, Entering, Leaving
<1>4. Total(InitialEntries) = InitialEntries(T("reg")) (+) InitialEntries(T("static"))
        (+) InitialEntries(T("public_io")) (+) InitialEntries(T("hints"))
        (+) InitialEntries(T("stack")) (+) InitialEntries(T("heap"))
  BY <1>2 DEF Total
<1>5. Total(FinalEntries) = FinalEntries(T("reg")) (+) FinalEntries(T("static"))
        (+) FinalEntries(T("public_io")) (+) FinalEntries(T("hints"))
        (+) FinalEntries(T("stack")) (+) FinalEntries(T("heap"))
  BY <1>2 DEF Total
<1>6. /\ Kinds = {"reg", "static", "public_io", "hints", "stack", "heap"}
      /\ Listed = T("reg") \union T("static") \union T("public_io")
                  \union T("hints") \union T("stack") \union T("heap")
  BY TablesAre
<1> HIDE DEF T
<1>7. Kinds = TableNames BY <1>6 DEF TableNames
<1>8. /\ Entering(Listed) = UNION {Entering(T(s)) : s \in Kinds}
      /\ Leaving(Listed) = UNION {Leaving(T(s)) : s \in Kinds}
  <2>1. Listed = UNION {T(s) : s \in Kinds} BY <1>6
  <2> QED BY <2>1 DEF Entering, Leaving
<1>9. Total(InitialEntries) = SetToBag(Entering(Listed))
  <2> DEFINE f == [s \in TableNames |-> Entering(T(s))]
  <2>1. /\ f["reg"] = Entering(T("reg")) /\ f["static"] = Entering(T("static"))
        /\ f["public_io"] = Entering(T("public_io")) /\ f["hints"] = Entering(T("hints"))
        /\ f["stack"] = Entering(T("stack")) /\ f["heap"] = Entering(T("heap"))
        /\ {f[s] : s \in TableNames} = {Entering(T(s)) : s \in Kinds}
        /\ \A s, t \in TableNames : s # t => f[s] \cap f[t] = {}
    BY <1>1, <1>7 DEF TableNames
  <2> HIDE DEF f
  <2>2. SetToBag(f["reg"]) (+) SetToBag(f["static"]) (+) SetToBag(f["public_io"])
        (+) SetToBag(f["hints"]) (+) SetToBag(f["stack"]) (+) SetToBag(f["heap"])
        = SetToBag(UNION {f[s] : s \in TableNames})
    BY <2>1, SixBags
  <2> QED BY <1>3, <1>4, <1>8, <2>1, <2>2
<1>10. Total(FinalEntries) = SetToBag(Leaving(Listed))
  <2> DEFINE f == [s \in TableNames |-> Leaving(T(s))]
  <2>1. /\ f["reg"] = Leaving(T("reg")) /\ f["static"] = Leaving(T("static"))
        /\ f["public_io"] = Leaving(T("public_io")) /\ f["hints"] = Leaving(T("hints"))
        /\ f["stack"] = Leaving(T("stack")) /\ f["heap"] = Leaving(T("heap"))
        /\ {f[s] : s \in TableNames} = {Leaving(T(s)) : s \in Kinds}
        /\ \A s, t \in TableNames : s # t => f[s] \cap f[t] = {}
    BY <1>1, <1>7 DEF TableNames
  <2> HIDE DEF f
  <2>2. SetToBag(f["reg"]) (+) SetToBag(f["static"]) (+) SetToBag(f["public_io"])
        (+) SetToBag(f["hints"]) (+) SetToBag(f["stack"]) (+) SetToBag(f["heap"])
        = SetToBag(UNION {f[s] : s \in TableNames})
    BY <2>1, SixBags
  <2> QED BY <1>3, <1>5, <1>8, <2>1, <2>2
<1> QED BY <1>9, <1>10

\* The trace by its places.
LEMMA TraceFacts ==
    ASSUME IInv, Traced, Distinct
    PROVE  /\ \A d \in OpIndex :
                 /\ Op(d).loc \in Locations /\ Op(d).ts \in Nat /\ Op(d).prev \in Nat
                 /\ Op(d).ts > 0 /\ Op(d).prev < Op(d).ts /\ Op(d).ts <= latest[Op(d).loc]
                 /\ IF Op(d).prev = 0 THEN Op(d).before = InitialValue(Op(d).loc)
                    ELSE \E e \in OpIndex : /\ Op(e).loc = Op(d).loc /\ Op(e).ts = Op(d).prev
                                            /\ Op(e).after = Op(d).before
           /\ \A d, e \in OpIndex :
                 Op(d).loc = Op(e).loc => Op(e).ts <= Op(d).prev \/ Op(d).ts <= Op(e).ts
           /\ \A loc \in Locations :
                 /\ latest[loc] \in Nat
                 /\ IF latest[loc] = 0 THEN Value(loc) = InitialValue(loc)
                    ELSE \E e \in OpIndex : /\ Op(e).loc = loc /\ Op(e).ts = latest[loc]
                                            /\ Op(e).after = Value(loc)
<1>1. AccessChain /\ TraceExplainsMachine /\ TypeOK /\ ClockAhead /\ records \in Seq(StepRecord)
  BY DEF Traced, IInv
<1>2. \A d \in OpIndex : Op(d) \in Ops BY DEF Ops
<1>3. \A op \in Ops : \E d \in OpIndex : op = Op(d) BY DEF Ops
<1>4. \A loc \in Locations : latest[loc] \in Nat BY <1>1 DEF TypeOK
<1>5. cycle \in Nat BY <1>1 DEF TypeOK
<1>6. ASSUME NEW d \in OpIndex
      PROVE  /\ Op(d).loc \in Locations /\ Op(d).ts \in Nat /\ Op(d).prev \in Nat
             /\ Op(d).ts > 0 /\ Op(d).prev < Op(d).ts /\ Op(d).ts <= latest[Op(d).loc]
             /\ IF Op(d).prev = 0 THEN Op(d).before = InitialValue(Op(d).loc)
                ELSE \E e \in OpIndex : /\ Op(e).loc = Op(d).loc /\ Op(e).ts = Op(d).prev
                                        /\ Op(e).after = Op(d).before
  <2>1. Op(d).loc \in Locations /\ Op(d).ts \in Nat /\ Op(d).prev \in Nat
    BY <1>1, <1>2, OpsAre DEF Operation
  <2>2. Op(d).ts > 0 BY DEF Distinct
  <2>3. /\ Op(d).prev < Op(d).ts /\ LeftBy(Ops, Op(d).loc, Op(d).before, Op(d).prev)
        /\ Quiet(Ops, Op(d).loc, latest[Op(d).loc], cycle) /\ Op(d).ts < cycle
    BY <1>1, <1>2, <2>1, TraceProperties DEF ClockAhead
  <2>4. Op(d).ts <= latest[Op(d).loc] \/ cycle <= Op(d).ts BY <1>2, <2>3 DEF Quiet
  <2>5. Op(d).ts <= latest[Op(d).loc] BY <1>5, <2>1, <2>3, <2>4
  <2> QED BY <1>3, <2>1, <2>2, <2>3, <2>5 DEF LeftBy
<1>7. ASSUME NEW d \in OpIndex, NEW e \in OpIndex, Op(d).loc = Op(e).loc
      PROVE  Op(e).ts <= Op(d).prev \/ Op(d).ts <= Op(e).ts
  <2>1. Quiet(Ops, Op(d).loc, Op(d).prev, Op(d).ts) BY <1>1, <1>2, TraceProperties
  <2> QED BY <1>2, <1>7, <2>1 DEF Quiet
<1>8. ASSUME NEW loc \in Locations
      PROVE  IF latest[loc] = 0 THEN Value(loc) = InitialValue(loc)
             ELSE \E e \in OpIndex : /\ Op(e).loc = loc /\ Op(e).ts = latest[loc]
                                     /\ Op(e).after = Value(loc)
  <2>1. LeftBy(Ops, loc, Value(loc), latest[loc]) BY <1>1, TraceProperties
  <2> QED BY <1>3, <2>1 DEF LeftBy
<1> QED BY <1>4, <1>6, <1>7, <1>8

\* After a time before the clock of a location comes a next operation, and it finds
\* what was left at that time.
LEMMA NextOperation ==
    ASSUME IInv, Traced, Distinct, NEW loc \in Locations, NEW t \in Nat, t < latest[loc],
           t = 0 \/ \E d \in OpIndex : Op(d).loc = loc /\ Op(d).ts = t
    PROVE  \E e \in OpIndex : Op(e).loc = loc /\ Op(e).prev = t
<1> DEFINE T == {Op(e).ts : e \in {d \in OpIndex : Op(d).loc = loc /\ t < Op(d).ts}}
           R == OpToRel(<, Nat)
<1>1. T \subseteq Nat BY TraceFacts
<1>2. T # {}
  <2>1. latest[loc] \in Nat /\ latest[loc] # 0 BY TraceFacts
  <2>2. PICK e \in OpIndex : Op(e).loc = loc /\ Op(e).ts = latest[loc] BY <2>1, TraceFacts
  <2> QED BY <2>2
<1>3. PICK m \in T : \A y \in T : ~(<<y, m>> \in R)
  BY <1>1, <1>2, NatLessThanWellFounded, WFMin
<1>4. \A y \in T : ~(y < m) BY <1>1, <1>3 DEF OpToRel
<1>5. PICK e \in OpIndex : Op(e).loc = loc /\ t < Op(e).ts /\ Op(e).ts = m OBVIOUS
<1>6. \A d \in OpIndex : Op(d).loc = loc /\ t < Op(d).ts => ~(Op(d).ts < m) BY <1>4
<1> HIDE DEF T, R
<1>7. Op(e).prev \in Nat /\ Op(e).ts \in Nat /\ Op(e).prev < Op(e).ts BY TraceFacts
<1>8. t <= Op(e).prev
  <2>1. CASE t = 0 BY <1>7, <2>1
  <2>2. CASE \E d \in OpIndex : Op(d).loc = loc /\ Op(d).ts = t
    <3>1. PICK d \in OpIndex : Op(d).loc = loc /\ Op(d).ts = t BY <2>2
    <3>2. Op(d).ts <= Op(e).prev \/ Op(e).ts <= Op(d).ts BY <1>5, <3>1, TraceFacts
    <3> QED BY <1>5, <1>7, <3>1, <3>2
  <2> QED BY <2>1, <2>2
<1>9. ~(t < Op(e).prev)
  <2> SUFFICES ASSUME t < Op(e).prev PROVE FALSE
    OBVIOUS
  <2>1. Op(e).prev # 0 BY <1>7
  <2>2. PICK d \in OpIndex : Op(d).loc = loc /\ Op(d).ts = Op(e).prev
    BY <1>5, <2>1, TraceFacts
  <2> QED BY <1>5, <1>6, <1>7, <2>2
<1> QED BY <1>5, <1>7, <1>8, <1>9

\* A final record is of a location, at the clock of its latest touch, and claims what
\* its location says.
LEMMA ListedIs ==
    ASSUME IInv, NEW rec \in Listed
    PROVE  /\ rec.loc \in Locations /\ rec.cycle = latest[rec.loc] /\ rec.cycle \in Nat
           /\ rec.value = Claimed(rec.loc)
<1>1. PICK kind \in Kinds : rec \in TableOf(kind) BY TablesAre
<1>2. rec.loc \in Locations /\ rec.cycle = latest[rec.loc] /\ rec.value = Claimed(rec.loc)
  BY <1>1, RecordIs
<1>3. latest[rec.loc] \in Nat BY <1>2 DEF IInv, TypeOK
<1> QED BY <1>2, <1>3

\* No entry comes twice, so the check is an equation of sets.
LEMMA BalancedIs ==
    ASSUME IInv, Traced, Distinct, output.tables = FinalTables
    PROVE  Balanced <=> Entering(Listed) \union Written = Leaving(Listed) \union Consumed
<1> DEFINE w == [d \in OpIndex |-> Entry(Op(d).loc, Op(d).after, Op(d).ts)]
           r == [d \in OpIndex |-> Entry(Op(d).loc, Op(d).before, Op(d).prev)]
<1>1. AsBag(w) = SetToBag(Written)
  <2>1. \A d, e \in OpIndex : w[d] = w[e] => d = e BY EntryFacts DEF Distinct
  <2>2. DOMAIN w = OpIndex /\ {w[d] : d \in DOMAIN w} = Written BY DEF Written
  <2> HIDE DEF w
  <2> QED BY <2>1, <2>2, SetBags
<1>2. AsBag(r) = SetToBag(Consumed)
  <2>1. ASSUME NEW d \in OpIndex, NEW e \in OpIndex, r[d] = r[e] PROVE d = e
    <3>1. Op(d).loc = Op(e).loc /\ Op(d).prev = Op(e).prev BY <2>1, EntryFacts
    <3>2. /\ Op(e).ts <= Op(d).prev \/ Op(d).ts <= Op(e).ts
          /\ Op(d).ts <= Op(e).prev \/ Op(e).ts <= Op(d).ts
      BY <3>1, TraceFacts
    <3>3. /\ Op(d).ts \in Nat /\ Op(e).ts \in Nat /\ Op(d).prev \in Nat
          /\ Op(d).prev < Op(d).ts /\ Op(e).prev < Op(e).ts
      BY TraceFacts
    <3>4. Op(d).ts = Op(e).ts BY <3>1, <3>2, <3>3
    <3> QED BY <3>1, <3>4 DEF Distinct
  <2>2. DOMAIN r = OpIndex /\ {r[d] : d \in DOMAIN r} = Consumed BY DEF Consumed
  <2> HIDE DEF r
  <2> QED BY <2>1, <2>2, SetBags
<1>3. Entering(Listed) \cap Written = {}
  <2>1. \A x \in Entering(Listed) : x.ts = 0 BY EntryFacts DEF Entering
  <2>2. \A x \in Written : x.ts > 0
    <3>1. \A x \in Written : \E d \in OpIndex : x.ts = Op(d).ts BY EntryFacts DEF Written
    <3> QED BY <3>1, TraceFacts
  <2> QED BY <2>1, <2>2
<1>4. Leaving(Listed) \cap Consumed = {}
  <2> SUFFICES ASSUME NEW rec \in Listed, NEW d \in OpIndex,
                      Entry(rec.loc, rec.value, rec.cycle)
                      = Entry(Op(d).loc, Op(d).before, Op(d).prev)
               PROVE  FALSE
    BY DEF Leaving, Consumed
  <2>1. rec.loc = Op(d).loc /\ rec.cycle = Op(d).prev BY EntryFacts
  <2>2. rec.cycle = latest[rec.loc] BY ListedIs
  <2>3. /\ Op(d).ts \in Nat /\ Op(d).prev \in Nat /\ Op(d).prev < Op(d).ts
        /\ Op(d).ts <= latest[Op(d).loc]
    BY TraceFacts
  <2> QED BY <2>1, <2>2, <2>3
<1>5. Balanced <=> SetToBag(Entering(Listed)) (+) SetToBag(Written)
                   = SetToBag(Leaving(Listed)) (+) SetToBag(Consumed)
  BY <1>1, <1>2, TotalIs DEF Balanced
<1>6. /\ SetToBag(Entering(Listed)) (+) SetToBag(Written)
         = SetToBag(Entering(Listed) \union Written)
      /\ SetToBag(Leaving(Listed)) (+) SetToBag(Consumed)
         = SetToBag(Leaving(Listed) \union Consumed)
  BY <1>3, <1>4, SetBags
<1> QED BY <1>5, <1>6, SetBags

\* Every accessed word can be read: what a load or a store touches was checked, but
\* of the pointers of a call only the alignment is.
AccessesReadable == \A w \in WordAddrs : latest[Mem(w)] # 0 => CanRead(WORD_SIZE * w)

\* Every location that was touched has a final record.
LEMMA TouchedListed ==
    ASSUME IInv, Traced, Distinct, Unhandled = {}, AccessesReadable, NEW d \in OpIndex
    PROVE  \E rec \in Listed : rec.loc = Op(d).loc
<1> DEFINE loc == Op(d).loc
<1>1. loc \in Locations /\ latest[loc] # 0
  <2>1. loc \in Locations /\ Op(d).ts \in Nat /\ Op(d).ts > 0 /\ Op(d).ts <= latest[loc]
    BY TraceFacts
  <2> QED BY <2>1
<1> HIDE DEF loc
<1>2. CASE \E i \in Regs : loc = Reg(i)
  <2>1. PICK i \in Regs : loc = Reg(i) BY <1>2
  <2>2. Record(Reg(i), registers[i]) \in Listed BY TablesAre
  <2>3. Record(Reg(i), registers[i]).loc = Reg(i) BY RecordFacts
  <2> QED BY <2>1, <2>2, <2>3 DEF loc
<1>3. CASE \E w \in WordAddrs : loc = Mem(w)
  <2>1. PICK w \in WordAddrs : loc = Mem(w) BY <1>3
  <2>2. CanRead(4 * w) BY <1>1, <2>1 DEF AccessesReadable
  <2>3. ~\A rec \in Listed : rec.loc = Mem(w) => rec.cycle = 0
    BY <1>1, <2>1, <2>2 DEF Unhandled, Listed
  <2> QED BY <2>1, <2>3 DEF loc
<1> QED BY <1>1, <1>2, <1>3 DEF Locations

\* What a location held at a time goes into the next operation or the final record.
LEMMA Consumption ==
    ASSUME IInv, Traced, Distinct, NEW rec \in Listed, rec.value = Value(rec.loc),
           NEW t \in Nat, t <= latest[rec.loc], NEW v,
           \/ t = 0 /\ v = InitialValue(rec.loc)
           \/ \E d \in OpIndex : Op(d).loc = rec.loc /\ Op(d).ts = t /\ Op(d).after = v
    PROVE  Entry(rec.loc, v, t) \in Leaving(Listed) \union Consumed
<1>1. rec.loc \in Locations /\ rec.cycle = latest[rec.loc] /\ latest[rec.loc] \in Nat
  BY ListedIs
<1>2. ASSUME NEW u, IF t = 0 THEN u = InitialValue(rec.loc)
                    ELSE \E e \in OpIndex : /\ Op(e).loc = rec.loc /\ Op(e).ts = t
                                            /\ Op(e).after = u
      PROVE  u = v
  <2>1. CASE t = 0
    <3>1. ~\E d \in OpIndex : Op(d).ts = t BY <2>1, TraceFacts
    <3> QED BY <1>2, <2>1, <3>1
  <2>2. CASE t # 0
    <3>1. PICK e \in OpIndex : Op(e).loc = rec.loc /\ Op(e).ts = t /\ Op(e).after = u
      BY <1>2, <2>2
    <3>2. PICK d \in OpIndex : Op(d).loc = rec.loc /\ Op(d).ts = t /\ Op(d).after = v
      BY <2>2
    <3>3. d = e BY <3>1, <3>2 DEF Distinct
    <3> QED BY <3>1, <3>2, <3>3
  <2> QED BY <2>1, <2>2
<1>3. CASE t = latest[rec.loc]
  <2>1. Value(rec.loc) = v BY <1>1, <1>2, <1>3, TraceFacts
  <2>2. Entry(rec.loc, rec.value, rec.cycle) \in Leaving(Listed) BY DEF Leaving
  <2> QED BY <1>1, <1>3, <2>1, <2>2
<1>4. CASE t # latest[rec.loc]
  <2>1. t < latest[rec.loc] BY <1>1, <1>4
  <2>2. PICK e \in OpIndex : Op(e).loc = rec.loc /\ Op(e).prev = t
    BY <1>1, <2>1, NextOperation
  <2>3. IF Op(e).prev = 0 THEN Op(e).before = InitialValue(Op(e).loc)
        ELSE \E d \in OpIndex : /\ Op(d).loc = Op(e).loc /\ Op(d).ts = Op(e).prev
                                /\ Op(d).after = Op(e).before
    BY TraceFacts
  <2>4. Op(e).before = v BY <1>2, <2>2, <2>3
  <2>5. Entry(Op(e).loc, Op(e).before, Op(e).prev) \in Consumed BY DEF Consumed
  <2> QED BY <2>2, <2>4, <2>5
<1> QED BY <1>3, <1>4

\* With unchanged inputs the check balances.
LEMMA UnchangedBalances ==
    ASSUME IInv, Traced, Distinct, Unhandled = {}, AccessesReadable,
           \A rec \in Listed : rec.value = Value(rec.loc)
    PROVE  Entering(Listed) \union Written = Leaving(Listed) \union Consumed
<1>1. ASSUME NEW rec \in Listed
      PROVE  Entry(rec.loc, InitialValue(rec.loc), 0) \in Leaving(Listed) \union Consumed
  <2>1. rec.value = Value(rec.loc) OBVIOUS
  <2>2. latest[rec.loc] \in Nat BY ListedIs
  <2>3. 0 \in Nat /\ 0 <= latest[rec.loc] BY <2>2
  <2> QED BY <2>1, <2>3, Consumption
<1>2. ASSUME NEW d \in OpIndex
      PROVE  Entry(Op(d).loc, Op(d).after, Op(d).ts) \in Leaving(Listed) \union Consumed
  <2>1. PICK rec \in Listed : rec.loc = Op(d).loc BY TouchedListed
  <2>2. Op(d).ts \in Nat /\ Op(d).ts <= latest[rec.loc] BY <2>1, TraceFacts
  <2>3. rec.value = Value(rec.loc) OBVIOUS
  <2> DEFINE t == Op(d).ts
             v == Op(d).after
  <2>4. \E e \in OpIndex : Op(e).loc = rec.loc /\ Op(e).ts = t /\ Op(e).after = v BY <2>1
  <2> HIDE DEF t, v
  <2>5. t \in Nat /\ t <= latest[rec.loc] BY <2>2 DEF t
  <2>6. Entry(rec.loc, v, t) \in Leaving(Listed) \union Consumed
    BY <2>3, <2>4, <2>5, Consumption
  <2> QED BY <2>1, <2>6 DEF t, v
<1>3. ASSUME NEW rec \in Listed
      PROVE  Entry(rec.loc, rec.value, rec.cycle) \in Entering(Listed) \union Written
  <2>1. rec.loc \in Locations /\ rec.cycle = latest[rec.loc] /\ rec.value = Value(rec.loc)
    BY ListedIs
  <2>2. CASE latest[rec.loc] = 0
    <3>1. rec.value = InitialValue(rec.loc) BY <2>1, <2>2, TraceFacts
    <3>2. Entry(rec.loc, InitialValue(rec.loc), 0) \in Entering(Listed) BY DEF Entering
    <3> QED BY <2>1, <2>2, <3>1, <3>2
  <2>3. CASE latest[rec.loc] # 0
    <3>1. PICK e \in OpIndex : /\ Op(e).loc = rec.loc /\ Op(e).ts = latest[rec.loc]
                               /\ Op(e).after = Value(rec.loc)
      BY <2>1, <2>3, TraceFacts
    <3>2. Entry(Op(e).loc, Op(e).after, Op(e).ts) \in Written BY DEF Written
    <3> QED BY <2>1, <3>1, <3>2
  <2> QED BY <2>2, <2>3
<1>4. ASSUME NEW d \in OpIndex
      PROVE  Entry(Op(d).loc, Op(d).before, Op(d).prev) \in Entering(Listed) \union Written
  <2>1. IF Op(d).prev = 0 THEN Op(d).before = InitialValue(Op(d).loc)
        ELSE \E e \in OpIndex : /\ Op(e).loc = Op(d).loc /\ Op(e).ts = Op(d).prev
                                /\ Op(e).after = Op(d).before
    BY TraceFacts
  <2>2. CASE Op(d).prev = 0
    <3>1. PICK rec \in Listed : rec.loc = Op(d).loc BY TouchedListed
    <3>2. Entry(rec.loc, InitialValue(rec.loc), 0) \in Entering(Listed) BY DEF Entering
    <3> QED BY <2>1, <2>2, <3>1, <3>2
  <2>3. CASE Op(d).prev # 0
    <3>1. PICK e \in OpIndex : /\ Op(e).loc = Op(d).loc /\ Op(e).ts = Op(d).prev
                               /\ Op(e).after = Op(d).before
      BY <2>1, <2>3
    <3>2. Entry(Op(e).loc, Op(e).after, Op(e).ts) \in Written BY DEF Written
    <3> QED BY <3>1, <3>2
  <2> QED BY <2>2, <2>3
<1> QED BY <1>1, <1>2, <1>3, <1>4 DEF Entering, Leaving, Written, Consumed

\* With a changed input it does not: what was written there last goes nowhere.
LEMMA ChangedFails ==
    ASSUME IInv, Traced, Distinct, NEW rec \in Listed, rec.value # Value(rec.loc)
    PROVE  Entering(Listed) \union Written # Leaving(Listed) \union Consumed
<1> DEFINE loc == rec.loc
<1>1. loc \in Locations /\ rec.value = Claimed(loc) BY ListedIs
<1>2. Claimed(loc) = InitialValue(loc) /\ Value(loc) # InitialValue(loc)
  BY <1>1 DEF Claimed
<1>3. latest[loc] # 0 BY <1>1, <1>2, TraceFacts
<1>4. PICK e \in OpIndex : Op(e).loc = loc /\ Op(e).ts = latest[loc] /\ Op(e).after = Value(loc)
  BY <1>1, <1>3, TraceFacts
<1> HIDE DEF loc
<1> DEFINE x == Entry(loc, Value(loc), latest[loc])
<1>5. x \in Written BY <1>4 DEF Written
<1>6. x \notin Leaving(Listed)
  <2> SUFFICES ASSUME NEW r \in Listed, x = Entry(r.loc, r.value, r.cycle) PROVE FALSE
    BY DEF Leaving
  <2>1. r.loc = loc /\ r.value = Value(loc) BY EntryFacts
  <2>2. r.value = Claimed(loc) BY <2>1, ListedIs
  <2> QED BY <1>2, <2>1, <2>2
<1>7. x \notin Consumed
  <2> SUFFICES ASSUME NEW d \in OpIndex, x = Entry(Op(d).loc, Op(d).before, Op(d).prev)
               PROVE  FALSE
    BY DEF Consumed
  <2>1. Op(d).loc = loc /\ Op(d).prev = latest[loc] BY EntryFacts
  <2>2. /\ Op(d).ts \in Nat /\ Op(d).prev \in Nat /\ Op(d).prev < Op(d).ts
        /\ Op(d).ts <= latest[loc]
    BY <2>1, TraceFacts
  <2> QED BY <2>1, <2>2
<1> QED BY <1>5, <1>6, <1>7

\* The offline memory check of a run that returns.
LEMMA ReturnBalances ==
    IInv /\ Traced /\ Distinct /\ OutputIs => (AccessesReadable => MemoryBalances)
<1> SUFFICES ASSUME IInv, Traced, Distinct, OutputIs, AccessesReadable, status = "returned"
             PROVE  Balanced <=> InputUnchanged
  BY DEF MemoryBalances
<1>1. output.tables = FinalTables /\ Unhandled = {} BY DEF OutputIs
<1>2. Balanced <=> Entering(Listed) \union Written = Leaving(Listed) \union Consumed
  BY <1>1, BalancedIs
<1>3. InputUnchanged <=> \A rec \in Listed : rec.value = Value(rec.loc) BY InputsAre
<1> QED BY <1>1, <1>2, <1>3, UnchangedBalances, ChangedFails

\* Whatever the program, the platform and the number of steps, what the initial
\* records and the trace of a returned run write is what the trace and the final
\* records read, entry by entry, exactly when the inputs are as they were given
\* (emulate_program, Tracer), provided that no call has overlapping operands and that
\* the pointers of the calls are to data that can be read.
THEOREM CheckBalances ==
    Spec /\ []PointersApart => [](AccessesReadable => MemoryBalances)
<1> QED BY InitInvariant, NextInvariant, InitTrace, NextTrace, InitDistinct, NextDistinct,
           OutputInvariant, ReturnBalances, PTL DEF Spec
=============================================================================
