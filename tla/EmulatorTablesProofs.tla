------------------------- MODULE EmulatorTablesProofs -------------------------
(***************************************************************************)
(* What the tables of a finished run hold, for every program, platform and *)
(* number of steps: the bounds of the regions are the span of the words    *)
(* that loads and stores touched (mmio_min_max_access), so that only calls *)
(* and hints that were not given leave a word without a final record.      *)
(***************************************************************************)
EXTENDS EmulatorProofs, FiniteSetTheorems

USE DEF WORD_SIZE, RD
-----------------------------------------------------------------------------
(***************************************************************************)
(* The bounds of the regions.                                              *)
(***************************************************************************)
\* A word that a step which is no system call touched.
Spanned(w) ==
    \E i \in DOMAIN records : /\ ~IsSyscall(records[i])
                              /\ \E k \in DOMAIN records[i].ops : records[i].ops[k].loc = Mem(w)
SpannedIn(r) == {w \in WordAddrs : Spanned(w) /\ InRange(4 * w, Regions[r])}

\* BoundsAreSpan, and where the bounds of an untouched region stand.
SpanInv ==
    \A r \in DOMAIN Regions :
        IF SpannedIn(r) = {}
        THEN mmio[r].min = WAddr(Regions[r].end) /\ mmio[r].max = WAddr(Regions[r].start)
        ELSE /\ mmio[r].min \in SpannedIn(r) /\ mmio[r].max - 1 \in SpannedIn(r)
             /\ SpannedIn(r) \subseteq mmio[r].min .. mmio[r].max - 1

\* A word of memory is no register, and a location of memory is a word.
LEMMA MemFacts ==
    /\ \A v, w : Mem(v) = Mem(w) => v = w
    /\ \A w : Mem(w)[1] = "mem" /\ Mem(w)[2] = w
    /\ \A i : Reg(i)[1] = "reg" /\ Reg(i)[2] = i
    /\ \A i, w : Reg(i) # Mem(w)
    /\ \A loc \in Locations : loc[1] = "mem" => loc[2] \in WordAddrs /\ loc = Mem(loc[2])
    /\ WordAddrs \subseteq Nat
<1>1. \A w : Mem(w)[1] = "mem" /\ Mem(w)[2] = w BY DEF Mem
<1>2. \A i : Reg(i)[1] = "reg" /\ Reg(i)[2] = i BY DEF Reg
<1>3. \A v, w : Mem(v) = Mem(w) => v = w
  <2> SUFFICES ASSUME NEW v, NEW w, Mem(v) = Mem(w) PROVE v = w
    OBVIOUS
  <2>1. Mem(v)[2] = v /\ Mem(w)[2] = w BY <1>1
  <2> QED BY <2>1
<1>4. \A i, w : Reg(i) # Mem(w)
  <2> SUFFICES ASSUME NEW i, NEW w PROVE Reg(i) # Mem(w)
    OBVIOUS
  <2>1. Reg(i)[1] = "reg" /\ Mem(w)[1] = "mem" BY <1>1, <1>2
  <2> QED BY <2>1
<1>5. \A loc \in Locations : loc[1] = "mem" => loc[2] \in WordAddrs /\ loc = Mem(loc[2])
  <2> SUFFICES ASSUME NEW loc \in Locations, loc[1] = "mem"
               PROVE  loc[2] \in WordAddrs /\ loc = Mem(loc[2])
    OBVIOUS
  <2>1. ~\E i \in Regs : loc = Reg(i)
    <3> SUFFICES ASSUME NEW i \in Regs, loc = Reg(i) PROVE FALSE
      OBVIOUS
    <3>1. Reg(i)[1] = "reg" BY <1>2
    <3> QED BY <3>1
  <2>2. PICK w \in WordAddrs : loc = Mem(w) BY <2>1 DEF Locations
  <2>3. Mem(w)[2] = w BY <1>1
  <2> QED BY <2>2, <2>3
<1>6. WordAddrs \subseteq Nat BY WordFacts DEF WordAddrs
<1> QED BY <1>1, <1>2, <1>3, <1>4, <1>5, <1>6

\* The ends of a range are numbers.
LEMMA RangeEnds ==
    ASSUME NEW r \in DOMAIN Ranges
    PROVE  /\ Ranges[r].start \in Nat /\ Ranges[r].end \in Nat
           /\ Ranges[r].start <= Ranges[r].end
           /\ Ranges[r].start % 4 = 0 /\ Ranges[r].end % 4 = 0
<1>1. Words \subseteq Nat
  <2>1. Words = 0 .. Modulus - 1 /\ Modulus \in Nat BY WordFacts
  <2> QED BY <2>1
<1>2. Ranges[r].start \in Words /\ Ranges[r].end \in Words BY RangeFacts
<1>3. /\ Ranges[r].start <= Ranges[r].end
      /\ Ranges[r].start % 4 = 0 /\ Ranges[r].end % 4 = 0
  BY RangeFacts
<1> QED BY <1>1, <1>2, <1>3

\* The words of a range, by their bytes and by their numbers.
LEMMA RangeWords ==
    ASSUME NEW r \in DOMAIN Ranges
    PROVE  /\ WAddr(Ranges[r].start) \in Nat /\ WAddr(Ranges[r].end) \in Nat
           /\ WAddr(Ranges[r].start) <= WAddr(Ranges[r].end)
           /\ \A w \in WordAddrs :
                InRange(4 * w, Ranges[r])
                <=> WAddr(Ranges[r].start) <= w /\ w < WAddr(Ranges[r].end)
<1> DEFINE s == Ranges[r].start
           e == Ranges[r].end
<1>1. s \in Nat /\ e \in Nat /\ s % 4 = 0 /\ e % 4 = 0 /\ s <= e BY RangeEnds
<1> HIDE DEF s, e
<1>2. PICK m \in Nat : s = 4 * m
  <2>1. s = 4 * (s \div 4) /\ s \div 4 \in Nat BY <1>1
  <2> QED BY <2>1
<1>3. PICK n \in Nat : e = 4 * n
  <2>1. e = 4 * (e \div 4) /\ e \div 4 \in Nat BY <1>1
  <2> QED BY <2>1
<1>4. WAddr(s) = m /\ WAddr(e) = n BY <1>2, <1>3 DEF WAddr
<1>5. m <= n BY <1>1, <1>2, <1>3
<1>6. \A w \in WordAddrs : s <= 4 * w /\ 4 * w < e <=> m <= w /\ w < n
  <2> SUFFICES ASSUME NEW w \in WordAddrs
               PROVE  s <= 4 * w /\ 4 * w < e <=> m <= w /\ w < n
    OBVIOUS
  <2>1. w \in Nat BY MemFacts
  <2> QED BY <1>2, <1>3, <2>1
<1>7. \A w : InRange(4 * w, Ranges[r]) <=> s <= 4 * w /\ 4 * w < e BY DEF InRange, s, e
<1> QED BY <1>4, <1>5, <1>6, <1>7 DEF s, e

\* Two ranges have no word in common.
LEMMA RangesApart ==
    ASSUME NEW r \in DOMAIN Ranges, NEW s \in DOMAIN Ranges, r # s, NEW a \in Nat,
           InRange(a, Ranges[r])
    PROVE  ~InRange(a, Ranges[s])
<1>1. Ranges[r].end <= Ranges[s].start \/ Ranges[s].end <= Ranges[r].start
  BY PlatformAssumption
<1>2. /\ Ranges[r].start \in Nat /\ Ranges[r].end \in Nat
      /\ Ranges[s].start \in Nat /\ Ranges[s].end \in Nat
  BY RangeEnds
<1> QED BY <1>1, <1>2 DEF InRange

\* The region that store_memory widens is the one that contains the word.
LEMMA WidenedIs ==
    ASSUME NEW r \in DOMAIN Regions, NEW w \in WordAddrs
    PROVE  Containing(w, r) /\ w < WAddr(Regions[r].end) <=> InRange(4 * w, Regions[r])
<1> DEFINE below == {s \in DOMAIN Regions : WAddr(Regions[s].start) <= w}
<1>1. r \in DOMAIN Ranges /\ Regions[r] = Ranges[r] BY RangeFacts
<1>2. InRange(4 * w, Regions[r])
      <=> WAddr(Regions[r].start) <= w /\ w < WAddr(Regions[r].end)
  BY <1>1, RangeWords
<1>3. ASSUME InRange(4 * w, Regions[r]), NEW s \in below
      PROVE  Regions[s].start <= Regions[r].start
  <2>1. s \in DOMAIN Ranges /\ Regions[s] = Ranges[s] BY RangeFacts
  <2>2. CASE s = r BY <2>1, <2>2, RangeEnds
  <2>3. CASE s # r
    <3>1. Ranges[r].end <= Ranges[s].start \/ Ranges[s].end <= Ranges[r].start
      BY <1>1, <2>1, <2>3, PlatformAssumption
    <3>2. /\ Ranges[s].start \in Nat /\ Ranges[s].end \in Nat /\ Ranges[r].start \in Nat
          /\ Ranges[r].end \in Nat /\ Ranges[s].start <= Ranges[s].end
          /\ Ranges[s].start % 4 = 0 /\ w \in Nat
      BY <1>1, <2>1, RangeEnds, MemFacts
    <3>3. CASE Ranges[s].end <= Ranges[r].start BY <1>1, <2>1, <3>2, <3>3
    <3>4. CASE Ranges[r].end <= Ranges[s].start
      <4>1. 4 * w < Ranges[r].end BY <1>1, <1>3 DEF InRange
      <4>2. Ranges[s].start \div 4 <= w BY <2>1 DEF WAddr
      <4>3. Ranges[s].start = 4 * (Ranges[s].start \div 4) BY <3>2
      <4>4. Ranges[s].start <= 4 * w BY <3>2, <4>2, <4>3
      <4> QED BY <3>2, <3>4, <4>1, <4>4
    <3> QED BY <3>1, <3>3, <3>4
  <2> QED BY <2>2, <2>3
<1>4. InRange(4 * w, Regions[r]) => Containing(w, r) BY <1>2, <1>3 DEF Containing
<1>5. Containing(w, r) => WAddr(Regions[r].start) <= w BY DEF Containing
<1> QED BY <1>2, <1>4, <1>5

\* A step that is recorded touched what its touches say, and is a system call as
\* the touches say.
LEMMA SpannedAfter ==
    ASSUME IInv, NEW touches, NEW next, Shape(touches, next), NEW w
    PROVE  Spanned(w)' <=> \/ Spanned(w)
                           \/ ~Calls(touches) /\ \E k \in DOMAIN touches : touches[k].loc = Mem(w)
<1> DEFINE n == Len(records) + 1
           new == [cycle |-> cycle, before |-> pc, after |-> next,
                   kind |-> Insn.kind, ops |-> Operations(touches)]
<1>1. /\ Len(records) \in Nat /\ DOMAIN records = 1 .. Len(records)
      /\ \A i \in DOMAIN records : i \in DOMAIN records' /\ records'[i] = records[i]
      /\ records'[n] = new /\ records' \in Seq(StepRecord) /\ Len(records') = n
  BY TraceAfter
<1>2. DOMAIN records' = 1 .. n BY <1>1, LenProperties
<1>3. TypeOK /\ Fit(touches) /\ Follows(touches) BY DEF IInv, Shape
<1>4. /\ DOMAIN Operations(touches) = DOMAIN touches
      /\ \A k \in DOMAIN touches : /\ Operations(touches)[k].loc = touches[k].loc
                                   /\ Operations(touches)[k].ts = cycle + touches[k].sub
                                   /\ touches[k] \in Touch
  BY <1>3, OperationsType
<1>5. /\ new.kind = Insn.kind /\ new.cycle = cycle /\ new.ops = Operations(touches)
  OBVIOUS
<1> HIDE DEF new
<1>6. IsSyscall(new) <=> Calls(touches)
  <2>1. CASE Insn.kind # "ECALL" BY <1>5, <2>1 DEF IsSyscall, Calls
  <2>2. CASE Insn.kind = "ECALL"
    <3>1. 2 \in DOMAIN touches BY <1>3, <2>2 DEF Follows
    <3>2. /\ new.ops[2].ts = cycle + touches[2].sub /\ touches[2].sub \in 0 .. 3
          /\ cycle \in Nat
      BY <1>3, <1>4, <1>5, <3>1 DEF Touch, TypeOK
    <3>3. new.ops[2].ts = cycle + 2 <=> touches[2].sub = 2 BY <3>2
    <3>4. IsSyscall(new) <=> new.ops[2].ts = cycle + 2 BY <1>5, <2>2 DEF IsSyscall
    <3>5. Calls(touches) <=> touches[2].sub = 2 BY <2>2 DEF Calls
    <3> QED BY <3>3, <3>4, <3>5
  <2> QED BY <2>1, <2>2
<1>7. Spanned(w)' <=> \E i \in DOMAIN records' :
                         /\ ~IsSyscall(records'[i])
                         /\ \E k \in DOMAIN records'[i].ops : records'[i].ops[k].loc = Mem(w)
  BY DEF Spanned, IsSyscall
<1>8. \A i : i \in DOMAIN records' <=> i \in DOMAIN records \/ i = n
  BY <1>1, <1>2
<1>9. (\E k \in DOMAIN new.ops : new.ops[k].loc = Mem(w))
      <=> \E k \in DOMAIN touches : touches[k].loc = Mem(w)
  BY <1>4, <1>5
<1>10. Spanned(w)' <=>
         \/ \E i \in DOMAIN records :
               /\ ~IsSyscall(records[i])
               /\ \E k \in DOMAIN records[i].ops : records[i].ops[k].loc = Mem(w)
         \/ /\ ~IsSyscall(new)
            /\ \E k \in DOMAIN new.ops : new.ops[k].loc = Mem(w)
  BY <1>1, <1>7, <1>8
<1> QED BY <1>6, <1>9, <1>10 DEF Spanned

\* Widening the bounds of a region by a word adds the word to its span.
LEMMA WidenedSpan ==
    ASSUME BoundsOK, NEW r \in DOMAIN Regions, NEW w \in WordAddrs, InRange(4 * w, Regions[r]),
           mmio' = Tracked(w), NEW S \in SUBSET WordAddrs,
           IF S = {}
           THEN mmio[r].min = WAddr(Regions[r].end) /\ mmio[r].max = WAddr(Regions[r].start)
           ELSE /\ mmio[r].min \in S /\ mmio[r].max - 1 \in S
                /\ S \subseteq mmio[r].min .. mmio[r].max - 1
    PROVE  LET T == S \union {w}
           IN  /\ mmio'[r].min \in T /\ mmio'[r].max - 1 \in T
               /\ T \subseteq mmio'[r].min .. mmio'[r].max - 1
<1> DEFINE lo == WAddr(Regions[r].start)
           hi == WAddr(Regions[r].end)
           a == mmio[r].min
           b == mmio[r].max
<1>1. r \in DOMAIN Ranges /\ Regions[r] = Ranges[r] BY RangeFacts
<1>2. lo \in Nat /\ hi \in Nat /\ lo <= w /\ w < hi /\ w \in Nat BY <1>1, RangeWords, MemFacts
<1>3. a \in lo .. hi /\ b \in lo .. hi BY DEF BoundsOK
<1>4. mmio'[r] = [min |-> IF w < a THEN w ELSE a, max |-> IF w >= b THEN w + 1 ELSE b]
  BY WidenedIs DEF Tracked
<1>5. S \subseteq Nat BY MemFacts
<1> HIDE DEF lo, hi, a, b
<1>6. mmio'[r].min = (IF w < a THEN w ELSE a) /\ mmio'[r].max = (IF w >= b THEN w + 1 ELSE b)
  BY <1>4
<1>7. IF S = {} THEN a = hi /\ b = lo ELSE a \in S /\ b - 1 \in S /\ S \subseteq a .. b - 1
  BY DEF a, b, lo, hi
<1>8. CASE S = {} BY <1>2, <1>3, <1>6, <1>7, <1>8
<1>9. CASE S # {} BY <1>2, <1>3, <1>5, <1>6, <1>7, <1>9
<1> QED BY <1>8, <1>9

\* Where the bounds start.
LEMMA InitSpan == Init => SpanInv
<1> SUFFICES ASSUME Init PROVE SpanInv
  OBVIOUS
<1>1. DOMAIN records = {} BY DEF Init
<1>2. \A r : SpannedIn(r) = {} BY <1>1 DEF SpannedIn, Spanned
<1>3. \A r \in DOMAIN Regions :
         mmio[r].min = WAddr(Regions[r].end) /\ mmio[r].max = WAddr(Regions[r].start)
  BY DEF Init
<1> QED BY <1>2, <1>3 DEF SpanInv

\* An instruction keeps the bounds at the span.
LEMMA StepSpan ==
    ASSUME IInv, SpanInv, NEW touches, NEW next, Shape(touches, next)
    PROVE  SpanInv'
<1>1. BoundsOK BY DEF IInv, TypeOK, BoundsOK
<1>2. \A w : Spanned(w)' <=> \/ Spanned(w)
                             \/ ~Calls(touches) /\ \E k \in DOMAIN touches : touches[k].loc = Mem(w)
  BY SpannedAfter
<1>3. Follows(touches) BY DEF Shape
<1>4. CASE mmio' = mmio /\ (Calls(touches) \/ \A k \in DOMAIN touches : OfRegister(touches[k]))
  <2>1. \A w : Spanned(w)' <=> Spanned(w) BY <1>2, <1>4, MemFacts DEF OfRegister
  <2>2. \A r : SpannedIn(r)' = SpannedIn(r) BY <2>1 DEF SpannedIn
  <2> QED BY <1>4, <2>2 DEF SpanInv
<1>5. CASE \E w \in WordAddrs :
             /\ mmio' = Tracked(w) /\ ~Calls(touches)
             /\ \E k \in DOMAIN touches : touches[k].loc = Mem(w)
             /\ \A k \in DOMAIN touches : touches[k].loc = Mem(w) \/ OfRegister(touches[k])
  <2>1. PICK w \in WordAddrs :
          /\ mmio' = Tracked(w) /\ ~Calls(touches)
          /\ \E k \in DOMAIN touches : touches[k].loc = Mem(w)
          /\ \A k \in DOMAIN touches : touches[k].loc = Mem(w) \/ OfRegister(touches[k])
    BY <1>5
  <2>2. \A v : Spanned(v)' <=> Spanned(v) \/ v = w BY <1>2, <2>1, MemFacts DEF OfRegister
  <2>3. ASSUME NEW r \in DOMAIN Regions
        PROVE  IF SpannedIn(r)' = {}
               THEN /\ mmio'[r].min = WAddr(Regions[r].end)
                    /\ mmio'[r].max = WAddr(Regions[r].start)
               ELSE /\ mmio'[r].min \in SpannedIn(r)' /\ mmio'[r].max - 1 \in SpannedIn(r)'
                    /\ SpannedIn(r)' \subseteq mmio'[r].min .. mmio'[r].max - 1
    <3>1. IF SpannedIn(r) = {}
          THEN mmio[r].min = WAddr(Regions[r].end) /\ mmio[r].max = WAddr(Regions[r].start)
          ELSE /\ mmio[r].min \in SpannedIn(r) /\ mmio[r].max - 1 \in SpannedIn(r)
               /\ SpannedIn(r) \subseteq mmio[r].min .. mmio[r].max - 1
      BY DEF SpanInv
    <3>2. CASE InRange(4 * w, Regions[r])
      <4>1. SpannedIn(r)' = SpannedIn(r) \union {w} BY <2>2, <3>2 DEF SpannedIn
      <4>2. SpannedIn(r) \in SUBSET WordAddrs BY DEF SpannedIn
      <4> DEFINE S == SpannedIn(r)
      <4> HIDE DEF S
      <4>3. S \in SUBSET WordAddrs BY <4>2 DEF S
      <4>4. IF S = {}
            THEN mmio[r].min = WAddr(Regions[r].end) /\ mmio[r].max = WAddr(Regions[r].start)
            ELSE /\ mmio[r].min \in S /\ mmio[r].max - 1 \in S
                 /\ S \subseteq mmio[r].min .. mmio[r].max - 1
        BY <3>1 DEF S
      <4>5. LET T == S \union {w}
            IN  /\ mmio'[r].min \in T /\ mmio'[r].max - 1 \in T
                /\ T \subseteq mmio'[r].min .. mmio'[r].max - 1
        BY <1>1, <2>1, <3>2, <4>3, <4>4, WidenedSpan
      <4>6. SpannedIn(r)' = S \union {w} BY <4>1 DEF S
      <4> QED BY <4>5, <4>6
    <3>3. CASE ~InRange(4 * w, Regions[r])
      <4>1. SpannedIn(r)' = SpannedIn(r) BY <2>2, <3>3 DEF SpannedIn
      <4>2. mmio'[r] = mmio[r]
        <5>1. ~(Containing(w, r) /\ w < WAddr(Regions[r].end)) BY <3>3, WidenedIs
        <5> QED BY <2>1, <5>1 DEF Tracked
      <4> QED BY <3>1, <4>1, <4>2
    <3> QED BY <3>2, <3>3
  <2> QED BY <2>3 DEF SpanInv
<1> QED BY <1>3, <1>4, <1>5 DEF Follows

\* Every step keeps the bounds at the span.
LEMMA NextSpan == IInv /\ SpanInv /\ [Next]_vars => SpanInv'
<1> SUFFICES ASSUME IInv, SpanInv, [Next]_vars PROVE SpanInv'
  OBVIOUS
<1>1. CASE \E t, n : Shape(t, n) BY <1>1, StepSpan
<1>2. CASE Silent
  <2>1. mmio' = mmio /\ records' = records BY <1>2 DEF Silent
  <2>2. \A w : Spanned(w)' <=> Spanned(w) BY <2>1 DEF Spanned, IsSyscall
  <2>3. \A r : SpannedIn(r)' = SpannedIn(r) BY <2>2 DEF SpannedIn
  <2> QED BY <2>1, <2>3 DEF SpanInv
<1> QED BY <1>1, <1>2, NextCases

\* The words of the property are those that are spanned.
LEMMA TouchedWords ==
    ASSUME IInv
    PROVE  {Op(d).loc[2] : d \in {e \in OpIndex : /\ Op(e).loc[1] = "mem"
                                                  /\ ~IsSyscall(records[e[1]])}}
           = {w \in WordAddrs : Spanned(w)}
<1> DEFINE D == {e \in OpIndex : Op(e).loc[1] = "mem" /\ ~IsSyscall(records[e[1]])}
           T == {Op(d).loc[2] : d \in D}
<1>1. records \in Seq(StepRecord) BY DEF IInv
<1>2. ASSUME NEW w \in T PROVE w \in WordAddrs /\ Spanned(w)
  <2>1. PICK d \in D : w = Op(d).loc[2] OBVIOUS
  <2>2. d \in OpIndex /\ Op(d).loc[1] = "mem" /\ ~IsSyscall(records[d[1]]) BY <2>1
  <2>3. PICK i \in DOMAIN records : d \in {<<i, k>> : k \in DOMAIN records[i].ops}
    BY <2>2 DEF OpIndex
  <2>4. PICK k \in DOMAIN records[i].ops : d = <<i, k>> BY <2>3
  <2>5. Op(d) \in Ops BY <2>2 DEF Ops
  <2>6. Op(d).loc \in Locations BY <1>1, <2>5, OpsAre DEF Operation
  <2>7. w \in WordAddrs /\ Op(d).loc = Mem(w) BY <2>1, <2>2, <2>6, MemFacts
  <2>8. ~IsSyscall(records[i]) /\ records[i].ops[k].loc = Mem(w) BY <2>2, <2>4, <2>7 DEF Op
  <2> QED BY <2>7, <2>8 DEF Spanned
<1>3. ASSUME NEW w \in WordAddrs, Spanned(w) PROVE w \in T
  <2>1. PICK i \in DOMAIN records :
          /\ ~IsSyscall(records[i])
          /\ \E k \in DOMAIN records[i].ops : records[i].ops[k].loc = Mem(w)
    BY <1>3 DEF Spanned
  <2>2. PICK k \in DOMAIN records[i].ops : records[i].ops[k].loc = Mem(w) BY <2>1
  <2>3. <<i, k>> \in OpIndex BY DEF OpIndex
  <2>4. Op(<<i, k>>).loc = Mem(w) /\ <<i, k>>[1] = i BY <2>2 DEF Op
  <2>5. Mem(w)[1] = "mem" /\ Mem(w)[2] = w BY MemFacts
  <2>6. <<i, k>> \in D BY <2>1, <2>3, <2>4, <2>5
  <2>7. Op(<<i, k>>).loc[2] = w BY <2>4, <2>5
  <2> QED BY <2>6, <2>7
<1> QED BY <1>2, <1>3

\* The bounds that cut the tables of the stack and of the heap are the span of the
\* words loads and stores touched in them (Tracer::store_memory), at any time.
LEMMA SpanIsSpan == IInv /\ SpanInv => BoundsAreSpan
<1> SUFFICES ASSUME IInv, SpanInv PROVE BoundsAreSpan
  OBVIOUS
<1> DEFINE touched == {Op(d).loc[2] : d \in {e \in OpIndex : /\ Op(e).loc[1] = "mem"
                                                            /\ ~IsSyscall(records[e[1]])}}
<1>1. touched = {w \in WordAddrs : Spanned(w)} BY TouchedWords
<1>2. BoundsAreSpan <=>
        \A r \in DOMAIN Regions :
          LET inRegion == {w \in touched : InRange(4 * w, Regions[r])}
          IN  IF inRegion = {} THEN ~Accessed(r)
              ELSE /\ mmio[r].min \in inRegion /\ mmio[r].max - 1 \in inRegion
                   /\ inRegion \subseteq mmio[r].min .. mmio[r].max - 1
  BY DEF BoundsAreSpan
<1> HIDE DEF touched
<1>3. \A r : {w \in touched : InRange(4 * w, Regions[r])} = SpannedIn(r)
  BY <1>1 DEF SpannedIn
<1>4. ASSUME NEW r \in DOMAIN Regions, SpannedIn(r) = {} PROVE ~Accessed(r)
  <2>1. mmio[r].min = WAddr(Regions[r].end) /\ mmio[r].max = WAddr(Regions[r].start)
    BY <1>4 DEF SpanInv
  <2>2. r \in DOMAIN Ranges /\ Regions[r] = Ranges[r] BY RangeFacts
  <2>3. /\ WAddr(Regions[r].start) \in Nat /\ WAddr(Regions[r].end) \in Nat
        /\ WAddr(Regions[r].start) <= WAddr(Regions[r].end)
    BY <2>2, RangeWords
  <2> QED BY <2>1, <2>3 DEF Accessed
<1> QED BY <1>2, <1>3, <1>4 DEF SpanInv

\* The bounds of a region are exactly the span of the words that loads and stores
\* touched in it, for every program and platform (Tracer::store_memory): the tables
\* of the stack and of the heap, which are cut along them, miss none of these words.
THEOREM BoundsSpanned == Spec => []BoundsAreSpan
<1> QED BY InitInvariant, NextInvariant, InitSpan, NextSpan, SpanIsSpan, PTL DEF Spec

-----------------------------------------------------------------------------
(***************************************************************************)
(* The words without a final record.                                       *)
(***************************************************************************)
\* A word is the number of its first byte.
LEMMA WordOfAddress ==
    /\ \A w \in WordAddrs : WAddr(4 * w) = w /\ 4 * w \in Words
    /\ \A a \in Words : a % 4 = 0 => 4 * WAddr(a) = a
<1>1. ASSUME NEW w \in WordAddrs PROVE WAddr(4 * w) = w /\ 4 * w \in Words
  <2> DEFINE m == Modulus
  <2>1. m \in Nat /\ m % 4 = 0 /\ Words = 0 .. m - 1 /\ w \in 0 .. (m \div 4) - 1
    BY WordFacts DEF WordAddrs, WAddr
  <2> HIDE DEF m
  <2>2. w \in Nat /\ 4 * w <= m - 4 BY <2>1
  <2>3. WAddr(4 * w) = w BY <2>2 DEF WAddr
  <2> QED BY <2>1, <2>2, <2>3
<1>2. ASSUME NEW a \in Words, a % 4 = 0 PROVE 4 * WAddr(a) = a
  <2>1. Words = 0 .. Modulus - 1 /\ Modulus \in Nat BY WordFacts
  <2>2. a \in Nat BY <2>1
  <2> QED BY <1>2, <2>2 DEF WAddr
<1> QED BY <1>1, <1>2

\* A record of a word, and the record of an input.
LEMMA RecordFacts ==
    /\ \A loc, v : /\ Record(loc, v).loc = loc /\ Record(loc, v).value = v
                   /\ Record(loc, v).cycle = latest[loc]
    /\ \A W, rec : rec \in MemRecords(W) <=> \E w \in W : rec = Record(Mem(w), memory[w])
    /\ \A f, rec : rec \in InputRecords(f)
                   <=> \E a \in DOMAIN f : rec = Record(Mem(WAddr(a)), f[a])
  BY DEF Record, MemRecords, InputRecords

\* The words that have a final record.
Tabled(w) ==
    \/ \E a \in DOMAIN Image : w = WAddr(a)
    \/ \E a \in DOMAIN IoInit : w = WAddr(a)
    \/ \E a \in DOMAIN HintInit : w = WAddr(a)
    \/ w \in StackWords
    \/ w \in HeapWords

\* A word that is accessed and has a final record is handled.
LEMMA TabledIsHandled ==
    ASSUME NEW w \in Unhandled
    PROVE  ~Tabled(w)
<1> DEFINE handled == UNION {FinalTables[t] : t \in DOMAIN FinalTables}
<1>1. /\ w \in WordAddrs /\ latest[Mem(w)] # 0 /\ CanRead(4 * w)
      /\ \A rec \in handled : rec.loc = Mem(w) => rec.cycle = 0
  BY DEF Unhandled
<1>2. \A v : Record(Mem(w), v) \notin handled BY <1>1, RecordFacts
<1>3. /\ DOMAIN FinalTables = {"reg", "static", "io", "hints", "stack", "heap"}
      /\ FinalTables.static = MemRecords({WAddr(a) : a \in DOMAIN Image})
      /\ FinalTables.io = InputRecords(IoInit) /\ FinalTables.hints = InputRecords(HintInit)
      /\ FinalTables.stack = MemRecords(StackWords) /\ FinalTables.heap = MemRecords(HeapWords)
  BY DEF FinalTables
<1>4. /\ MemRecords({WAddr(a) : a \in DOMAIN Image}) \subseteq handled
      /\ InputRecords(IoInit) \subseteq handled /\ InputRecords(HintInit) \subseteq handled
      /\ MemRecords(StackWords) \subseteq handled /\ MemRecords(HeapWords) \subseteq handled
  BY <1>3
<1> HIDE DEF handled
<1>5. ~\E a \in DOMAIN Image : w = WAddr(a)
  <2> DEFINE W == {WAddr(a) : a \in DOMAIN Image}
  <2>1. MemRecords(W) \subseteq handled BY <1>4
  <2>2. w \notin W BY <1>2, <2>1, RecordFacts
  <2> QED BY <2>2
<1>6. ~\E a \in DOMAIN IoInit : w = WAddr(a) BY <1>2, <1>4, RecordFacts
<1>7. ~\E a \in DOMAIN HintInit : w = WAddr(a) BY <1>2, <1>4, RecordFacts
<1>8. w \notin StackWords /\ w \notin HeapWords BY <1>2, <1>4, RecordFacts
<1> QED BY <1>5, <1>6, <1>7, <1>8 DEF Tabled

\* Only system calls touch a data address that has no final record, but for hints
\* that were not given.
LEMMA UnhandledIs == IInv /\ SpanInv => UnhandledOnlyBySyscalls
<1> SUFFICES ASSUME IInv, SpanInv, NEW w \in Unhandled,
                    ~(InRange(4 * w, Hints) /\ 4 * w \notin DOMAIN HintInit)
             PROVE  \A d \in OpIndex : Op(d).loc = Mem(w) => IsSyscall(records[d[1]])
  BY DEF UnhandledOnlyBySyscalls
<1>1. w \in WordAddrs /\ CanRead(4 * w) BY DEF Unhandled
<1>2. ~Tabled(w) BY TabledIsHandled
<1>3. WAddr(4 * w) = w /\ 4 * w \in Words /\ w \in Nat BY <1>1, WordOfAddress, MemFacts
<1>4. 4 * w \notin DOMAIN Image /\ 4 * w \notin DOMAIN IoInit /\ 4 * w \notin DOMAIN HintInit
  BY <1>2, <1>3 DEF Tabled
<1>5. ~InRange(4 * w, PublicIO)
  <2>1. (4 * w) % 4 = 0 BY <1>3
  <2> QED BY <1>3, <1>4, <2>1, PlatformAssumption DEF Aligned
<1>6. ~InRange(4 * w, Hints) BY <1>4
<1>7. \E r \in {"heap", "stack"} : InRange(4 * w, Regions[r])
  <2>1. 4 * WAddr(4 * w) = 4 * w BY <1>3
  <2>2. InRange(4 * w, Heap) \/ InRange(4 * w, Stack)
    BY <1>1, <1>4, <1>5, <1>6, <2>1 DEF CanRead
  <2> QED BY <2>2, RangeFacts
<1>8. ~Spanned(w)
  <2> SUFFICES ASSUME Spanned(w) PROVE FALSE
    OBVIOUS
  <2>1. PICK r \in {"heap", "stack"} : InRange(4 * w, Regions[r]) BY <1>7
  <2>2. r \in DOMAIN Regions /\ r \in DOMAIN Ranges /\ Regions[r] = Ranges[r] BY RangeFacts
  <2>3. w \in SpannedIn(r) BY <1>1, <2>1 DEF SpannedIn
  <2>4. SpannedIn(r) \subseteq mmio[r].min .. mmio[r].max - 1 BY <2>2, <2>3 DEF SpanInv
  <2>5. mmio[r].min \in Nat /\ mmio[r].max \in Nat
    <3>1. /\ mmio[r].min \in WAddr(Regions[r].start) .. WAddr(Regions[r].end)
          /\ mmio[r].max \in WAddr(Regions[r].start) .. WAddr(Regions[r].end)
      BY <2>2 DEF IInv, TypeOK
    <3> QED BY <2>2, <3>1, RangeWords
  <2>6. mmio[r].min <= w /\ w < mmio[r].max BY <1>3, <2>3, <2>4, <2>5
  <2>7. WAddr(Regions[r].start) <= w /\ w < WAddr(Regions[r].end)
        /\ WAddr(Regions[r].start) \in Nat /\ WAddr(Regions[r].end) \in Nat
    BY <1>1, <2>1, <2>2, RangeWords
  <2>8. Accessed(r) BY <1>3, <2>5, <2>6 DEF Accessed
  <2>9. CASE r = "stack"
    <3>1. Regions[r] = Stack BY <2>9 DEF Regions
    <3>2. w \in StackWords BY <1>3, <2>5, <2>6, <2>7, <2>8, <2>9, <3>1 DEF StackWords
    <3> QED BY <1>2, <3>2 DEF Tabled
  <2>10. CASE r = "heap"
    <3>1. Regions[r] = Heap BY <2>10 DEF Regions
    <3>2. w \in HeapWords BY <1>3, <2>5, <2>6, <2>7, <2>8, <2>10, <3>1 DEF HeapWords
    <3> QED BY <1>2, <3>2 DEF Tabled
  <2> QED BY <2>9, <2>10
<1> SUFFICES ASSUME NEW d \in OpIndex, Op(d).loc = Mem(w) PROVE IsSyscall(records[d[1]])
  OBVIOUS
<1>9. PICK i \in DOMAIN records : d \in {<<i, k>> : k \in DOMAIN records[i].ops} BY DEF OpIndex
<1>10. PICK k \in DOMAIN records[i].ops : d = <<i, k>> BY <1>9
<1>11. records[i].ops[k].loc = Mem(w) /\ d[1] = i BY <1>10 DEF Op
<1> QED BY <1>8, <1>11 DEF Spanned

\* When a run ends, the assertion of debug_memory_ranges can fail for no word but one
\* that only system calls touched, or one behind the hints that were given, for
\* every program and platform.
THEOREM OnlyCallsUnhandled == Spec => []UnhandledOnlyBySyscalls
<1> QED BY InitInvariant, NextInvariant, InitSpan, NextSpan, UnhandledIs, PTL DEF Spec
=============================================================================
