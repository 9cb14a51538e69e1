---------------------------- MODULE EmulatorProofs ----------------------------
(***************************************************************************)
(* What the trace of the emulator says, for every program, platform and    *)
(* number of steps.  Every instruction but a trap goes through Complete    *)
(* with a list of touches that is Fit: its touches are of locations and    *)
(* words, those of x0 leave it alone, and, when one touches a location     *)
(* twice, the first touch is earlier and a read.  The invariants are       *)
(* proved of Complete once, for any Fit touches.                           *)
(***************************************************************************)
EXTENDS Emulator, SequenceTheorems, NaturalsInduction, WellFoundedInduction, TLAPS

USE DEF WORD_SIZE, RD_NULL, RegEcall, RegArg0, RegArg1, HaltCode,
        RS1, RS2, RD, MEM, SUBCYCLES_PER_INSN

Touch == [loc : Locations, sub : 0 .. 3, after : Words]

\* Word addresses and locations.
LEMMA WordFacts ==
    /\ Modulus \in Nat \ {0} /\ Modulus % 4 = 0
    /\ WAddr(Modulus) \in Nat \ {0}
    /\ Words = 0 .. Modulus - 1
    /\ \A a \in Words : WAddr(a) \in WordAddrs
    /\ \A i \in Regs : Reg(i) \in Locations
    /\ \A w \in WordAddrs : Mem(w) \in Locations
    /\ \A r \in Int : r % Modulus \in Words
    /\ \A r \in Int : r % WAddr(Modulus) \in WordAddrs
<1>1. Modulus \in Nat /\ Modulus > 4 /\ Modulus % 4 = 0
  BY MachineAssumption DEF Aligned
<1>2. WAddr(Modulus) \in Nat \ {0} BY <1>1 DEF WAddr
<1>3. Words = 0 .. Modulus - 1 BY DEF Words
<1>4. \A a \in Words : WAddr(a) \in WordAddrs
  BY <1>1 DEF WAddr, WordAddrs, Words
<1>5. \A i \in Regs : Reg(i) \in Locations BY DEF Locations
<1>6. \A w \in WordAddrs : Mem(w) \in Locations BY DEF Locations
<1>7. \A r \in Int : r % Modulus \in Words BY <1>1 DEF Words
<1>8. \A r \in Int : r % WAddr(Modulus) \in WordAddrs BY <1>2 DEF WordAddrs
<1> QED BY <1>1, <1>2, <1>3, <1>4, <1>5, <1>6, <1>7, <1>8

\* The ranges of the platform consist of words.
LEMMA RangeFacts ==
    /\ \A r \in DOMAIN Ranges :
         /\ Ranges[r].start \in Words /\ Ranges[r].end \in Words
         /\ 4 <= Ranges[r].start /\ Ranges[r].start <= Ranges[r].end
         /\ Ranges[r].start % 4 = 0 /\ Ranges[r].end % 4 = 0
    /\ \A r \in DOMAIN Regions : r \in DOMAIN Ranges /\ Regions[r] = Ranges[r]
    /\ Ranges.stack = Stack /\ Ranges.heap = Heap /\ Ranges.hints = Hints
    /\ Ranges.public_io = PublicIO
    /\ DOMAIN Ranges = {"stack", "heap", "hints", "public_io"}
    /\ DOMAIN Regions = {"stack", "heap", "hints"}
<1>1. \A r \in DOMAIN Ranges : Ranges[r].start % 4 = 0 /\ Ranges[r].end % 4 = 0
  BY PlatformAssumption DEF Aligned
<1>2. \A r \in DOMAIN Ranges :
         /\ Ranges[r].start \in Words /\ Ranges[r].end \in Words
         /\ 4 <= Ranges[r].start /\ Ranges[r].start <= Ranges[r].end
  BY DataAssumption
<1>3. /\ \A r \in DOMAIN Regions : r \in DOMAIN Ranges /\ Regions[r] = Ranges[r]
      /\ Ranges.stack = Stack /\ Ranges.heap = Heap /\ Ranges.hints = Hints
      /\ Ranges.public_io = PublicIO
      /\ DOMAIN Ranges = {"stack", "heap", "hints", "public_io"}
      /\ DOMAIN Regions = {"stack", "heap", "hints"}
  BY DEF Regions, Ranges
<1> QED BY <1>1, <1>2, <1>3

\* The addresses of the inputs are words of their ranges, none is of the image,
\* and no address is of both inputs.
LEMMA InputFacts ==
    /\ \A a \in DOMAIN IoInit :
         /\ a \in Words /\ a % 4 = 0 /\ InRange(a, PublicIO) /\ IoInit[a] \in Words
         /\ a \notin DOMAIN Image /\ a \notin DOMAIN HintInit
    /\ \A a \in DOMAIN HintInit :
         /\ a \in Words /\ a % 4 = 0 /\ InRange(a, Hints) /\ HintInit[a] \in Words
         /\ a \notin DOMAIN Image /\ a \notin DOMAIN IoInit
    /\ \A a \in DOMAIN Image : a \in Words /\ Image[a] \in Words
<1>1. \A a \in DOMAIN IoInit : a \in Words /\ a % 4 = 0 /\ InRange(a, PublicIO)
  BY PlatformAssumption DEF Aligned
<1>2. \A a \in DOMAIN HintInit : a \in Words /\ a % 4 = 0 /\ InRange(a, Hints)
  BY PlatformAssumption DEF Aligned
<1>3. /\ \A a \in DOMAIN Image : a \in Words
      /\ \A a \in DOMAIN Image : ~InRange(a, PublicIO) /\ ~InRange(a, Hints)
  BY PlatformAssumption, RangeFacts
<1>4. \A a \in Words : ~(InRange(a, PublicIO) /\ InRange(a, Hints))
  <2>1. \/ PublicIO.end <= Hints.start \/ Hints.end <= PublicIO.start
    BY PlatformAssumption, RangeFacts
  <2>2. /\ Words \subseteq Nat /\ PublicIO.start \in Nat /\ PublicIO.end \in Nat
        /\ Hints.start \in Nat /\ Hints.end \in Nat
    BY RangeFacts, WordFacts
  <2> QED BY <2>1, <2>2 DEF InRange
<1>5. /\ \A a \in DOMAIN Image : Image[a] \in Words
      /\ \A a \in DOMAIN IoInit : IoInit[a] \in Words
      /\ \A a \in DOMAIN HintInit : HintInit[a] \in Words
  BY DataAssumption
<1> QED BY <1>1, <1>2, <1>3, <1>4, <1>5

\* The registers the code names are there, and x0 and RD_NULL differ.
LEMMA RegFacts ==
    /\ {0, 5, 10, 11, 32} \subseteq Regs
    /\ \A i \in Regs : RdInternal(i) \in Regs /\ RdInternal(i) # 0
    /\ Reg(5) # Reg(0) /\ Reg(10) # Reg(0) /\ Reg(11) # Reg(0) /\ Reg(32) # Reg(0)
    /\ Reg(5) # Reg(10) /\ Reg(5) # Reg(11) /\ Reg(10) # Reg(11)
    /\ \A i \in Regs, w \in WordAddrs : Reg(i) # Mem(w)
    /\ \A i \in Regs : RdInternal(i) # 0 /\ Reg(RdInternal(i)) # Reg(0)
<1>1. {0, 5, 10, 11, 32} \subseteq Regs BY MachineAssumption
<1>2. \A i, j : Reg(i) = Reg(j) => i = j
  <2> SUFFICES ASSUME NEW i, NEW j, Reg(i) = Reg(j) PROVE i = j
    OBVIOUS
  <2>1. Reg(i)[2] = i /\ Reg(j)[2] = j BY DEF Reg
  <2> QED BY <2>1
<1>3. \A i \in Regs, w \in WordAddrs : Reg(i) # Mem(w)
  <2> SUFFICES ASSUME NEW i \in Regs, NEW w \in WordAddrs PROVE Reg(i) # Mem(w)
    OBVIOUS
  <2>1. Reg(i)[1] = "reg" /\ Mem(w)[1] = "mem" BY DEF Reg, Mem
  <2> QED BY <2>1
<1>4. \A i \in Regs : RdInternal(i) \in Regs /\ RdInternal(i) # 0
  BY <1>1 DEF RdInternal
<1> QED BY <1>1, <1>2, <1>3, <1>4

\* A location holds a word.
LEMMA ValueType ==
    ASSUME TypeOK
    PROVE  /\ \A loc \in Locations : Value(loc) \in Words
           /\ \A i \in Regs : Value(Reg(i)) = registers[i]
           /\ \A w \in WordAddrs : Value(Mem(w)) = memory[w]
<1>1. \A i \in Regs : Value(Reg(i)) = registers[i] BY DEF Value, Reg
<1>2. \A w \in WordAddrs : Value(Mem(w)) = memory[w]
  <2> SUFFICES ASSUME NEW w \in WordAddrs PROVE Value(Mem(w)) = memory[w]
    OBVIOUS
  <2>1. Mem(w)[1] = "mem" /\ Mem(w)[2] = w BY DEF Mem
  <2> QED BY <2>1 DEF Value
<1>3. \A loc \in Locations : Value(loc) \in Words
  BY <1>1, <1>2 DEF Locations, TypeOK
<1> QED BY <1>1, <1>2, <1>3
-----------------------------------------------------------------------------
(***************************************************************************)
(* The touches of an instruction.                                          *)
(***************************************************************************)
\* Every instruction touches something, and leaves x0 alone.
Fit(touches) ==
    /\ touches \in Seq(Touch) /\ 1 \in DOMAIN touches
    /\ \A k \in DOMAIN touches : touches[k].loc = Reg(0) => touches[k].after = Value(Reg(0))

\* What the circuits need, besides: no location is touched twice in one subcycle,
\* and nothing but the last touch of a location changes it.
Ordered(touches) ==
    \A j, k \in DOMAIN touches :
        j < k /\ touches[j].loc = touches[k].loc =>
          touches[j].sub < touches[k].sub /\ touches[j].after = Value(touches[j].loc)

\* The last of some places in a sequence.
LEMMA LastOfIs ==
    ASSUME NEW n \in Nat, NEW S \in SUBSET (1 .. n), S # {}
    PROVE  LastOf(S) \in S /\ \A i \in S : i <= LastOf(S)
<1> DEFINE T == {n - i : i \in S}
           R == OpToRel(<, Nat)
<1>1. T \subseteq Nat /\ T # {} OBVIOUS
<1>2. PICK m \in T : \A y \in T : ~(<<y, m>> \in R)
  BY <1>1, NatLessThanWellFounded, WFMin
<1>3. \A y \in T : ~(y < m) BY <1>1, <1>2 DEF OpToRel
<1>4. PICK i \in S : m = n - i OBVIOUS
<1>5. \A j \in S : j <= i
  <2> SUFFICES ASSUME NEW j \in S PROVE j <= i
    OBVIOUS
  <2>1. ~(n - j < n - i) BY <1>3, <1>4
  <2> QED BY <2>1
<1>6. \E j \in S : \A k \in S : k <= j BY <1>4, <1>5
<1> QED BY <1>6 DEF LastOf

\* The touches of a location are places in the sequence.
LEMMA TouchedIs ==
    ASSUME NEW touches \in Seq(Touch)
    PROVE  /\ Len(touches) \in Nat /\ DOMAIN touches = 1 .. Len(touches)
           /\ \A loc, k \in Nat : Earlier(touches, loc, k) \subseteq 1 .. k - 1
           /\ \A loc : Touched(touches, loc) = {j \in DOMAIN touches : touches[j].loc = loc}
<1>1. Len(touches) \in Nat /\ DOMAIN touches = 1 .. Len(touches) BY LenProperties
<1> QED BY <1>1 DEF Touched, Earlier

\* The clock after each touch of an instruction.
LEMMA LatestIs ==
    ASSUME TypeOK, NEW touches \in Seq(Touch), NEW loc \in Locations
    PROVE  LET t == Touched(touches, loc)
           IN  IF t = {} THEN /\ Latest(touches)[loc] = latest[loc]
                              /\ NewValue(touches, loc) = Value(loc)
               ELSE /\ LastOf(t) \in DOMAIN touches /\ touches[LastOf(t)].loc = loc
                    /\ \A j \in DOMAIN touches : touches[j].loc = loc => j <= LastOf(t)
                    /\ Latest(touches)[loc] = cycle + touches[LastOf(t)].sub
                    /\ NewValue(touches, loc) = touches[LastOf(t)].after
<1> DEFINE t == Touched(touches, loc)
<1>1. CASE t = {} BY <1>1 DEF Latest, NewValue
<1>2. CASE t # {}
  <2>1. t \in SUBSET (1 .. Len(touches)) /\ Len(touches) \in Nat BY TouchedIs
  <2>2. LastOf(t) \in t /\ \A i \in t : i <= LastOf(t) BY <1>2, <2>1, LastOfIs
  <2>3. t = {j \in DOMAIN touches : touches[j].loc = loc} BY TouchedIs
  <2>4. Latest(touches)[loc] = cycle + touches[LastOf(t)].sub BY <1>2 DEF Latest
  <2>5. NewValue(touches, loc) = touches[LastOf(t)].after BY <1>2 DEF NewValue
  <2> QED BY <1>2, <2>2, <2>3, <2>4, <2>5
<1> QED BY <1>1, <1>2

\* After an instruction every location still holds a word.
LEMMA EffectType ==
    ASSUME TypeOK, NEW touches, Fit(touches)
    PROVE  /\ \A loc \in Locations : NewValue(touches, loc) \in Words /\ Latest(touches)[loc] \in Nat
           /\ Latest(touches) \in [Locations -> Nat]
<1> USE DEF Fit
<1>1. ASSUME NEW loc \in Locations
      PROVE  NewValue(touches, loc) \in Words /\ Latest(touches)[loc] \in Nat
  <2> DEFINE t == Touched(touches, loc)
  <2>1. CASE t = {} BY <2>1, LatestIs, ValueType DEF TypeOK
  <2>2. CASE t # {}
    <3>1. LastOf(t) \in DOMAIN touches BY <2>2, LatestIs
    <3>2. touches[LastOf(t)] \in Touch BY <3>1, ElementOfSeq, TouchedIs
    <3>3. Latest(touches)[loc] = cycle + touches[LastOf(t)].sub
          /\ NewValue(touches, loc) = touches[LastOf(t)].after
      BY <2>2, LatestIs
    <3> QED BY <3>2, <3>3 DEF Touch, TypeOK
  <2> QED BY <2>1, <2>2
<1> QED BY <1>1 DEF Latest
-----------------------------------------------------------------------------
(***************************************************************************)
(* The shape of every instruction.                                         *)
(***************************************************************************)
\* The words behind the two pointers of a call are disjoint.
PointersApart ==
    CanStep /\ Fetched \in DOMAIN program /\ Function = BinaryCode =>
        \A i, j \in 1 .. SyscallWords : View(Pointers[1])[i] # View(Pointers[2])[j]

\* A system call, as its operations are recorded.
Calls(touches) == Insn.kind = "ECALL" /\ touches[2].sub = RD
OfRegister(touch) == \E i \in Regs : touch.loc = Reg(i)

\* The bounds of the regions follow the one word that a step touches, unless the
\* step is a system call.
Follows(touches) ==
    /\ Insn.kind = "ECALL" => 2 \in DOMAIN touches
    /\ \/ mmio' = mmio /\ (Calls(touches) \/ \A k \in DOMAIN touches : OfRegister(touches[k]))
       \/ \E w \in WordAddrs :
             /\ mmio' = Tracked(w) /\ ~Calls(touches)
             /\ \E k \in DOMAIN touches : touches[k].loc = Mem(w)
             /\ \A k \in DOMAIN touches : touches[k].loc = Mem(w) \/ OfRegister(touches[k])

\* A step of the machine that is not a trap.
Shape(touches, next) ==
    /\ CanStep
    /\ Fit(touches) /\ next \in Words
    /\ PointersApart => Ordered(touches)
    /\ Complete(touches, next)
    /\ IF Insn.kind = "ECALL" /\ touches[1].after = HaltCode
       THEN /\ status' = "halted"
            /\ 2 \in DOMAIN touches /\ touches[2].after = NewValue(touches, Reg(10))
       ELSE status' = status
    /\ Insn.kind \in STRING
    /\ Follows(touches)

\* An instruction that is fetched names registers of the machine.
LEMMA InsnType ==
    ASSUME program \in Programs, Fetched \in DOMAIN program
    PROVE  /\ Insn.rd \in Names /\ Insn.rs1 \in Names /\ Insn.rs2 \in Names
           /\ Insn.rd \in Regs /\ Insn.rs1 \in Regs /\ Insn.rs2 \in Regs /\ Insn.imm \in Int
           /\ Insn.kind \in STRING
<1>1. program \in Seq(Instructions) BY DataAssumption
<1>2. program[Fetched] \in Instructions BY <1>1, ElementOfSeq, LenProperties
<1> QED BY <1>2 DEF Insn, Instructions, Names

\* A read is a touch that leaves the location's value.
LEMMA ReadIs ==
    ASSUME TypeOK, NEW loc \in Locations, NEW sub \in 0 .. 3
    PROVE  /\ Read(loc, sub) \in Touch
           /\ Read(loc, sub).loc = loc /\ Read(loc, sub).sub = sub
           /\ Read(loc, sub).after = Value(loc)
  BY ValueType DEF Read, Touch

\* A write is a touch that leaves the value written.
LEMMA WriteIs ==
    ASSUME NEW loc \in Locations, NEW sub \in 0 .. 3, NEW v \in Words
    PROVE  /\ Write(loc, sub, v) \in Touch
           /\ Write(loc, sub, v).loc = loc /\ Write(loc, sub, v).sub = sub
           /\ Write(loc, sub, v).after = v
  BY DEF Write, Touch

\* A touch that may stand alone, and two that may stand in this order.
Sound(a) == a \in Touch /\ (a.loc = Reg(0) => a.after = Value(Reg(0)))
Before(a, b) == a.loc = b.loc => a.sub < b.sub /\ a.after = Value(a.loc)

\* Short sequences that are fit and ordered.
LEMMA FitOne == ASSUME NEW a, Sound(a) PROVE Fit(<<a>>) /\ Ordered(<<a>>)
<1> DEFINE s == <<a>>
<1>1. s \in Seq(Touch) /\ DOMAIN s = {1} /\ s[1] = a BY DEF Sound
<1> HIDE DEF s
<1>2. Fit(s) BY <1>1 DEF Sound, Fit
<1>3. Ordered(s) BY <1>1 DEF Ordered
<1> QED BY <1>2, <1>3 DEF s
\* Two touches.
LEMMA FitTwo ==
    ASSUME NEW a, NEW b, Sound(a), Sound(b), Before(a, b)
    PROVE  Fit(<<a, b>>) /\ Ordered(<<a, b>>)
<1> DEFINE s == <<a, b>>
<1>1. s \in Seq(Touch) /\ DOMAIN s = {1, 2} /\ s[1] = a /\ s[2] = b BY DEF Sound
<1> HIDE DEF s
<1>2. Fit(s) BY <1>1 DEF Sound, Fit
<1>3. Ordered(s) BY <1>1 DEF Ordered, Before
<1> QED BY <1>2, <1>3 DEF s
\* Three touches.
LEMMA FitThree ==
    ASSUME NEW a, NEW b, NEW c, Sound(a), Sound(b), Sound(c),
           Before(a, b), Before(a, c), Before(b, c)
    PROVE  Fit(<<a, b, c>>) /\ Ordered(<<a, b, c>>)
<1> DEFINE s == <<a, b, c>>
<1>1. s \in Seq(Touch) /\ DOMAIN s = {1, 2, 3} /\ s[1] = a /\ s[2] = b /\ s[3] = c
  BY DEF Sound
<1> HIDE DEF s
<1>2. Fit(s) BY <1>1 DEF Sound, Fit
<1>3. Ordered(s) BY <1>1 DEF Ordered, Before
<1> QED BY <1>2, <1>3 DEF s
\* Four touches.
LEMMA FitFour ==
    ASSUME NEW a, NEW b, NEW c, NEW d, Sound(a), Sound(b), Sound(c), Sound(d),
           Before(a, b), Before(a, c), Before(a, d), Before(b, c), Before(b, d), Before(c, d)
    PROVE  Fit(<<a, b, c, d>>) /\ Ordered(<<a, b, c, d>>)
<1> DEFINE s == <<a, b, c, d>>
<1>1. /\ s \in Seq(Touch) /\ DOMAIN s = {1, 2, 3, 4}
      /\ s[1] = a /\ s[2] = b /\ s[3] = c /\ s[4] = d
  BY DEF Sound
<1> HIDE DEF s
<1>2. Fit(s) BY <1>1 DEF Sound, Fit
<1>3. Ordered(s) BY <1>1 DEF Ordered, Before
<1> QED BY <1>2, <1>3 DEF s

\* The registers of an instruction as touches.
LEMMA RegisterTouches ==
    ASSUME TypeOK, program \in Programs, Fetched \in DOMAIN program
    PROVE  /\ Sound(ReadRs1) /\ ReadRs1.sub = 0 /\ ReadRs1.after = Value(ReadRs1.loc)
           /\ Sound(ReadRs2) /\ ReadRs2.sub = 1 /\ ReadRs2.after = Value(ReadRs2.loc)
           /\ \E i \in Regs : ReadRs1.loc = Reg(i)
           /\ \E i \in Regs : ReadRs2.loc = Reg(i)
           /\ \A v \in Words : /\ Sound(WriteRd(v)) /\ WriteRd(v).sub = 2
                               /\ \E i \in Regs : WriteRd(v).loc = Reg(i)
           /\ Rs1 \in Words /\ Rs2 \in Words /\ Insn.imm \in Int
<1>1. Insn.rd \in Regs /\ Insn.rs1 \in Regs /\ Insn.rs2 \in Regs /\ Insn.imm \in Int BY InsnType
<1>2. Rs1 \in Words /\ Rs2 \in Words BY <1>1 DEF Rs1, Rs2, TypeOK
<1>3. Reg(Insn.rs1) \in Locations /\ Reg(Insn.rs2) \in Locations BY <1>1, WordFacts
<1>4. /\ ReadRs1 \in Touch /\ ReadRs1.loc = Reg(Insn.rs1) /\ ReadRs1.sub = 0
      /\ ReadRs1.after = Value(Reg(Insn.rs1))
  BY <1>3, ReadIs DEF ReadRs1
<1>5. /\ ReadRs2 \in Touch /\ ReadRs2.loc = Reg(Insn.rs2) /\ ReadRs2.sub = 1
      /\ ReadRs2.after = Value(Reg(Insn.rs2))
  BY <1>3, ReadIs DEF ReadRs2
<1>6. ASSUME NEW v \in Words
      PROVE  Sound(WriteRd(v)) /\ WriteRd(v).sub = 2 /\ \E i \in Regs : WriteRd(v).loc = Reg(i)
  <2>1. RdInternal(Insn.rd) \in Regs /\ Reg(RdInternal(Insn.rd)) # Reg(0) BY <1>1, RegFacts
  <2>2. Reg(RdInternal(Insn.rd)) \in Locations BY <2>1, WordFacts
  <2>3. /\ WriteRd(v) \in Touch /\ WriteRd(v).loc = Reg(RdInternal(Insn.rd))
        /\ WriteRd(v).sub = 2
    BY <2>2, WriteIs DEF WriteRd
  <2> QED BY <2>1, <2>3 DEF Sound
<1> QED BY <1>1, <1>2, <1>4, <1>5, <1>6 DEF Sound

\* Fetching an instruction means the machine runs, and tells its kind.
LEMMA FetchIs ==
    ASSUME NEW kind, Fetch(kind)
    PROVE  CanStep /\ Fetched \in DOMAIN program /\ Insn.kind = kind
  BY DEF Fetch, Insn

\* The addresses instructions compute are words.
LEMMA AddressFacts ==
    ASSUME TypeOK, program \in Programs, Fetched \in DOMAIN program
    PROVE  /\ NextInsn \in Words
           /\ \A b \in Words : Offset(b) \in Words
           /\ EvenTarget \in Words /\ BranchTarget \in Words /\ DataAddr \in Words
           /\ (Rs1 + Rs2) % Modulus \in Words
<1>1. pc \in Words /\ Rs1 \in Words /\ Rs2 \in Words /\ Insn.imm \in Int
  BY RegisterTouches DEF TypeOK
<1>2. Modulus \in Nat \ {0} /\ Modulus % 4 = 0 /\ Words = 0 .. Modulus - 1 BY WordFacts
<1>3. \A r \in Int : r % Modulus \in Words BY WordFacts
<1>4. NextInsn \in Words
  <2>1. pc + 4 \in Int BY <1>1, <1>2
  <2> QED BY <1>3, <2>1 DEF NextInsn
<1>5. ASSUME NEW b \in Words PROVE Offset(b) \in Words
  <2>1. b + Insn.imm \in Int BY <1>1, <1>2
  <2> QED BY <1>3, <2>1 DEF Offset
<1>6. EvenTarget \in Words
  <2>1. PICK t \in 0 .. Modulus - 1 : t = Offset(Rs1) BY <1>1, <1>2, <1>5
  <2>2. 2 * (t \div 2) \in 0 .. Modulus - 1 BY <1>2
  <2> QED BY <2>1, <2>2, <1>2 DEF EvenTarget
<1>7. BranchTarget \in Words BY <1>1, <1>4, <1>5 DEF BranchTarget
<1>8. DataAddr \in Words BY <1>1, <1>5 DEF DataAddr
<1>9. (Rs1 + Rs2) % Modulus \in Words
  <2>1. Rs1 + Rs2 \in Int BY <1>1, <1>2
  <2> QED BY <1>3, <2>1
<1> QED BY <1>4, <1>5, <1>6, <1>7, <1>8, <1>9
-----------------------------------------------------------------------------
\* A step that is no HALT.
LEMMA StepShape ==
    ASSUME CanStep, NEW touches, NEW next \in Words, Fit(touches), Ordered(touches),
           Step(touches, next), ~(Insn.kind = "ECALL" /\ touches[1].after = HaltCode),
           Follows(touches), program \in Programs, Fetched \in DOMAIN program
    PROVE  \E t, n : Shape(t, n)
<1>1. Complete(touches, next) /\ status' = status BY DEF Step
<1>2. Insn.kind \in STRING BY InsnType
<1> QED BY <1>1, <1>2 DEF Shape

\* A read, traced or not, stands before any later touch.
LEMMA ReadsBefore ==
    ASSUME NEW a, NEW b, a.sub < b.sub, a.after = Value(a.loc)
    PROVE  Before(a, b)
  BY DEF Before

\* The touches of Compute.
LEMMA ComputeShape ==
    ASSUME TypeOK, program \in Programs, Compute PROVE \E t, n : Shape(t, n)
<1>1. CASE Fetch("ADD")
           /\ Step(<<ReadRs1, ReadRs2, WriteRd((Rs1 + Rs2) % Modulus)>>, NextInsn)
  <2> DEFINE a == ReadRs1  b == ReadRs2  c == WriteRd((Rs1 + Rs2) % Modulus)
  <2>1. CanStep /\ Fetched \in DOMAIN program /\ Insn.kind = "ADD" BY <1>1, FetchIs
  <2>2. NextInsn \in Words /\ (Rs1 + Rs2) % Modulus \in Words BY <2>1, AddressFacts
  <2>3. Sound(a) /\ Sound(b) /\ Sound(c) BY <2>1, <2>2, RegisterTouches
  <2>4. Before(a, b) /\ Before(a, c) /\ Before(b, c)
    BY <2>1, <2>2, RegisterTouches, ReadsBefore
  <2>5. Step(<<a, b, c>>, NextInsn) BY <1>1
  <2>6. mmio' = mmio BY DEF Compute
  <2>7. OfRegister(a) /\ OfRegister(b) /\ OfRegister(c)
    BY <2>1, <2>2, RegisterTouches DEF OfRegister
  <2> HIDE DEF a, b, c
  <2>8. Fit(<<a, b, c>>) /\ Ordered(<<a, b, c>>) BY <2>3, <2>4, FitThree
  <2>9. Follows(<<a, b, c>>) BY <2>1, <2>6, <2>7 DEF Follows
  <2> QED BY <2>1, <2>2, <2>5, <2>8, <2>9, StepShape
<1>2. CASE Fetch("ADDI") /\ Step(<<ReadRs1, WriteRd(Offset(Rs1))>>, NextInsn)
  <2> DEFINE a == ReadRs1  b == WriteRd(Offset(Rs1))
  <2>1. CanStep /\ Fetched \in DOMAIN program /\ Insn.kind = "ADDI" BY <1>2, FetchIs
  <2>2. NextInsn \in Words /\ Offset(Rs1) \in Words BY <2>1, AddressFacts, RegisterTouches
  <2>3. Sound(a) /\ Sound(b) BY <2>1, <2>2, RegisterTouches
  <2>4. Before(a, b) BY <2>1, <2>2, RegisterTouches, ReadsBefore
  <2>5. Step(<<a, b>>, NextInsn) BY <1>2
  <2>6. mmio' = mmio BY DEF Compute
  <2>7. OfRegister(a) /\ OfRegister(b) BY <2>1, <2>2, RegisterTouches DEF OfRegister
  <2> HIDE DEF a, b
  <2>8. Fit(<<a, b>>) /\ Ordered(<<a, b>>) BY <2>3, <2>4, FitTwo
  <2>9. Follows(<<a, b>>) BY <2>1, <2>6, <2>7 DEF Follows
  <2> QED BY <2>1, <2>2, <2>5, <2>8, <2>9, StepShape
<1> QED BY <1>1, <1>2 DEF Compute

\* The touches of Jump.
LEMMA JumpShape ==
    ASSUME TypeOK, program \in Programs, Jump PROVE \E t, n : Shape(t, n)
<1>1. CASE Fetch("JAL") /\ Step(<<WriteRd(NextInsn)>>, Offset(pc))
  <2> DEFINE a == WriteRd(NextInsn)
  <2>1. CanStep /\ Fetched \in DOMAIN program /\ Insn.kind = "JAL" BY <1>1, FetchIs
  <2>2. NextInsn \in Words /\ Offset(pc) \in Words BY <2>1, AddressFacts DEF TypeOK
  <2>3. Sound(a) BY <2>1, <2>2, RegisterTouches
  <2>4. Step(<<a>>, Offset(pc)) BY <1>1
  <2>5. mmio' = mmio BY DEF Jump
  <2>6. OfRegister(a) BY <2>1, <2>2, RegisterTouches DEF OfRegister
  <2> HIDE DEF a
  <2>7. Fit(<<a>>) /\ Ordered(<<a>>) BY <2>3, FitOne
  <2>8. Follows(<<a>>) BY <2>1, <2>5, <2>6 DEF Follows
  <2> QED BY <2>1, <2>2, <2>4, <2>7, <2>8, StepShape
<1>2. CASE Fetch("JALR") /\ Step(<<ReadRs1, WriteRd(NextInsn)>>, EvenTarget)
  <2> DEFINE a == ReadRs1  b == WriteRd(NextInsn)
  <2>1. CanStep /\ Fetched \in DOMAIN program /\ Insn.kind = "JALR" BY <1>2, FetchIs
  <2>2. NextInsn \in Words /\ EvenTarget \in Words BY <2>1, AddressFacts
  <2>3. Sound(a) /\ Sound(b) BY <2>1, <2>2, RegisterTouches
  <2>4. Before(a, b) BY <2>1, <2>2, RegisterTouches, ReadsBefore
  <2>5. Step(<<a, b>>, EvenTarget) BY <1>2
  <2>6. mmio' = mmio BY DEF Jump
  <2>7. OfRegister(a) /\ OfRegister(b) BY <2>1, <2>2, RegisterTouches DEF OfRegister
  <2> HIDE DEF a, b
  <2>8. Fit(<<a, b>>) /\ Ordered(<<a, b>>) BY <2>3, <2>4, FitTwo
  <2>9. Follows(<<a, b>>) BY <2>1, <2>6, <2>7 DEF Follows
  <2> QED BY <2>1, <2>2, <2>5, <2>8, <2>9, StepShape
<1> QED BY <1>1, <1>2 DEF Jump

\* The touches of Branch.
LEMMA BranchShape ==
    ASSUME TypeOK, program \in Programs, Branch PROVE \E t, n : Shape(t, n)
<1> DEFINE a == ReadRs1  b == ReadRs2
<1>1. Step(<<a, b>>, BranchTarget) /\ mmio' = mmio BY DEF Branch
<1>2. CanStep /\ Fetched \in DOMAIN program /\ Insn.kind = "BEQ" BY FetchIs DEF Branch
<1>3. BranchTarget \in Words BY <1>2, AddressFacts
<1>4. Sound(a) /\ Sound(b) BY <1>2, RegisterTouches
<1>5. Before(a, b) BY <1>2, RegisterTouches, ReadsBefore
<1>6. OfRegister(a) /\ OfRegister(b) BY <1>2, RegisterTouches DEF OfRegister
<1> HIDE DEF a, b
<1>7. Fit(<<a, b>>) /\ Ordered(<<a, b>>) BY <1>4, <1>5, FitTwo
<1>8. Follows(<<a, b>>) BY <1>1, <1>2, <1>6 DEF Follows
<1> QED BY <1>1, <1>2, <1>3, <1>7, <1>8, StepShape

\* A register and a word of memory are no two touches of one location.
LEMMA Unrelated ==
    ASSUME NEW a, NEW b, NEW i \in Regs, NEW w \in WordAddrs,
           \/ a.loc = Reg(i) /\ b.loc = Mem(w)
           \/ a.loc = Mem(w) /\ b.loc = Reg(i)
    PROVE  Before(a, b)
  BY RegFacts DEF Before

\* A touch of a word of memory is sound.
LEMMA MemoryTouch ==
    ASSUME NEW a \in Touch, NEW w \in WordAddrs, a.loc = Mem(w) PROVE Sound(a)
<1>1. 0 \in Regs BY RegFacts
<1>2. Reg(0) # Mem(w) BY <1>1, RegFacts
<1> QED BY <1>2 DEF Sound

\* The touches of Load.
LEMMA LoadShape ==
    ASSUME TypeOK, program \in Programs, Load PROVE \E t, n : Shape(t, n)
<1> DEFINE w == WAddr(DataAddr)
           a == ReadRs1  b == Read(Mem(w), MEM)  c == WriteRd(Value(Mem(w)))
<1>1. Step(<<a, b, c>>, NextInsn) /\ mmio' = Tracked(w) BY DEF Load
<1>2. CanStep /\ Fetched \in DOMAIN program /\ Insn.kind = "LW" BY FetchIs DEF Load
<1>3. NextInsn \in Words /\ w \in WordAddrs BY <1>2, AddressFacts, WordFacts
<1>4. Mem(w) \in Locations /\ Value(Mem(w)) \in Words BY <1>3, WordFacts, ValueType
<1> HIDE DEF w
<1>5. b \in Touch /\ b.loc = Mem(w) BY <1>4, ReadIs
<1>6. Sound(a) /\ Sound(c) BY <1>2, <1>4, RegisterTouches
<1>7. Sound(b) BY <1>3, <1>5, MemoryTouch
<1>8. PICK i, j \in Regs : a.loc = Reg(i) /\ c.loc = Reg(j) BY <1>2, <1>4, RegisterTouches
<1>9. Before(a, b) /\ Before(b, c) BY <1>3, <1>5, <1>8, Unrelated
<1>10. Before(a, c) BY <1>2, <1>4, RegisterTouches, ReadsBefore
<1> HIDE DEF a, b, c
<1>11. Fit(<<a, b, c>>) /\ Ordered(<<a, b, c>>) BY <1>6, <1>7, <1>9, <1>10, FitThree
<1>12. Follows(<<a, b, c>>)
  BY <1>1, <1>2, <1>3, <1>5, <1>8 DEF Follows, Calls, OfRegister
<1> QED BY <1>1, <1>2, <1>3, <1>11, <1>12, StepShape

\* The touches of Store.
LEMMA StoreShape ==
    ASSUME TypeOK, program \in Programs, Store PROVE \E t, n : Shape(t, n)
<1> DEFINE w == WAddr(DataAddr)
           a == ReadRs1  b == ReadRs2  c == Write(Mem(w), MEM, Rs2)
<1>1. Step(<<a, b, c>>, NextInsn) /\ mmio' = Tracked(w) BY DEF Store
<1>2. CanStep /\ Fetched \in DOMAIN program /\ Insn.kind = "SW" BY FetchIs DEF Store
<1>3. NextInsn \in Words /\ w \in WordAddrs BY <1>2, AddressFacts, WordFacts
<1>4. Mem(w) \in Locations /\ Rs2 \in Words BY <1>2, <1>3, WordFacts, RegisterTouches
<1> HIDE DEF w
<1>5. c \in Touch /\ c.loc = Mem(w) BY <1>4, WriteIs
<1>6. Sound(a) /\ Sound(b) BY <1>2, RegisterTouches
<1>7. Sound(c) BY <1>3, <1>5, MemoryTouch
<1>8. PICK i, j \in Regs : a.loc = Reg(i) /\ b.loc = Reg(j) BY <1>2, RegisterTouches
<1>9. Before(a, c) /\ Before(b, c) BY <1>3, <1>5, <1>8, Unrelated
<1>10. Before(a, b) BY <1>2, RegisterTouches, ReadsBefore
<1> HIDE DEF a, b, c
<1>11. Fit(<<a, b, c>>) /\ Ordered(<<a, b, c>>) BY <1>6, <1>7, <1>9, <1>10, FitThree
<1>12. Follows(<<a, b, c>>)
  BY <1>1, <1>2, <1>3, <1>5, <1>8 DEF Follows, Calls, OfRegister
<1> QED BY <1>1, <1>2, <1>3, <1>11, <1>12, StepShape

\* Reads of a register named by the code.
LEMMA RegisterRead ==
    ASSUME TypeOK, NEW i \in Regs, NEW sub \in 0 .. 3
    PROVE  /\ Sound(Read(Reg(i), sub)) /\ Read(Reg(i), sub).loc = Reg(i)
           /\ Read(Reg(i), sub).sub = sub /\ Read(Reg(i), sub).after = Value(Reg(i))
           /\ Value(Reg(i)) = registers[i]
<1>1. Reg(i) \in Locations BY WordFacts
<1> QED BY <1>1, ReadIs, ValueType DEF Sound

\* The touches of Halt.
LEMMA HaltShape ==
    ASSUME TypeOK, program \in Programs, Halt PROVE \E t, n : Shape(t, n)
<1> DEFINE a == ReadFunction  b == Read(Reg(10), 1)
           s == <<a, b>>
<1>1. Complete(s, 0) /\ status' = "halted" /\ mmio' = mmio /\ Function = HaltCode BY DEF Halt
<1>2. CanStep /\ Fetched \in DOMAIN program /\ Insn.kind = "ECALL" BY FetchIs DEF Halt
<1>3. 5 \in Regs /\ 10 \in Regs BY RegFacts
<1>4. /\ Sound(a) /\ a.sub = 0 /\ a.loc = Reg(5) /\ a.after = Value(Reg(5))
      /\ a.after = HaltCode
  BY <1>1, <1>3, RegisterRead DEF ReadFunction, Function
<1>5. Sound(b) /\ b.sub = 1 BY <1>3, RegisterRead
<1> HIDE DEF a, b
<1>6. Before(a, b) BY <1>4, <1>5, ReadsBefore
<1>7. Fit(s) /\ Ordered(s) BY <1>4, <1>5, <1>6, FitTwo
<1>8. s[1].after = HaltCode /\ s[1] = a /\ s[2] = b /\ DOMAIN s = {1, 2} BY <1>4
<1>9. 0 \in Words BY WordFacts
<1>10. Insn.kind \in STRING BY <1>2, InsnType
<1>11. b.loc = Reg(10) /\ Reg(5) # Reg(10) /\ Reg(10) \in Locations
  BY <1>3, RegFacts, RegisterRead, WordFacts DEF b
<1> HIDE DEF s
<1>12. NewValue(s, Reg(10)) = s[2].after
  <2> DEFINE t == Touched(s, Reg(10))
  <2>1. s \in Seq(Touch) BY <1>7 DEF Fit
  <2>2. t = {2} BY <1>4, <1>8, <1>11, <2>1, TouchedIs
  <2>3. LastOf(t) \in DOMAIN s /\ s[LastOf(t)].loc = Reg(10)
        /\ NewValue(s, Reg(10)) = s[LastOf(t)].after
    BY <1>11, <2>1, <2>2, LatestIs
  <2>4. LastOf(t) = 2 BY <1>4, <1>8, <1>11, <2>3
  <2> QED BY <2>3, <2>4
<1>13. OfRegister(a) /\ OfRegister(b) BY <1>3, <1>4, <1>11 DEF OfRegister
<1>14. Follows(s) BY <1>1, <1>8, <1>13 DEF Follows
<1>15. Shape(s, 0) BY <1>1, <1>2, <1>7, <1>8, <1>9, <1>10, <1>12, <1>14 DEF Shape
<1> QED BY <1>15

\* The touches of EcallNop.
LEMMA EcallNopShape ==
    ASSUME TypeOK, program \in Programs, EcallNop PROVE \E t, n : Shape(t, n)
<1> DEFINE a == ReadFunction  b == Read(Reg(10), 1)  c == Write(Reg(32), 2, 0)
           d == Read(Mem(NopWord), 3)
           s == <<a, b, c, d>>
<1>1. Step(s, NextInsn) /\ mmio' = Tracked(NopWord) /\ Function # HaltCode BY DEF EcallNop
<1>2. CanStep /\ Fetched \in DOMAIN program BY FetchIs DEF EcallNop
<1>3. 5 \in Regs /\ 10 \in Regs /\ 32 \in Regs /\ Reg(32) # Reg(0) BY RegFacts
<1>4. NopWord \in WordAddrs
  <2>1. Stack.end \in Words /\ 4 <= Stack.start /\ Stack.start <= Stack.end /\ Stack.start \in Words
    BY RangeFacts
  <2>2. Words = 0 .. Modulus - 1 /\ Modulus \in Nat BY WordFacts
  <2>3. Stack.end - 4 \in Words BY <2>1, <2>2
  <2> QED BY <2>3, WordFacts DEF NopWord
<1>5. NextInsn \in Words /\ 0 \in Words BY <1>2, AddressFacts, WordFacts
<1>6. /\ Sound(a) /\ a.sub = 0 /\ a.loc = Reg(5) /\ a.after = Value(a.loc)
      /\ a.after # HaltCode
  BY <1>1, <1>3, RegisterRead DEF ReadFunction, Function
<1>7. Sound(b) /\ b.sub = 1 /\ b.loc = Reg(10) /\ b.after = Value(b.loc)
  BY <1>3, RegisterRead
<1>8. Sound(c) /\ c.sub = 2 /\ c.loc = Reg(32)
  <2>1. Reg(32) \in Locations BY <1>3, WordFacts
  <2>2. c \in Touch /\ c.sub = 2 /\ c.loc = Reg(32) BY <1>5, <2>1, WriteIs
  <2> QED BY <1>3, <2>2 DEF Sound
<1>9. d \in Touch /\ d.sub = 3 /\ d.loc = Mem(NopWord) BY <1>4, WordFacts, ReadIs
<1>10. Sound(d) BY <1>4, <1>9, MemoryTouch
<1> HIDE DEF a, b, c, d
<1>11. Before(a, b) /\ Before(a, c) /\ Before(a, d) /\ Before(b, c) /\ Before(b, d)
  BY <1>6, <1>7, <1>8, <1>9, ReadsBefore
<1>12. Before(c, d) BY <1>3, <1>4, <1>8, <1>9, Unrelated
<1>13. Fit(s) /\ Ordered(s) BY <1>6, <1>7, <1>8, <1>10, <1>11, <1>12, FitFour
<1>14. s[1].after # HaltCode BY <1>6
<1>15. Follows(s)
  <2>1. DOMAIN s = {1, 2, 3, 4} /\ s[1] = a /\ s[2] = b /\ s[3] = c /\ s[4] = d OBVIOUS
  <2>2. OfRegister(a) /\ OfRegister(b) /\ OfRegister(c)
    BY <1>3, <1>6, <1>7, <1>8 DEF OfRegister
  <2>3. mmio' = Tracked(NopWord) BY <1>1
  <2> HIDE DEF s
  <2>4. ~Calls(s) BY <1>7, <2>1 DEF Calls
  <2> QED BY <1>4, <1>9, <2>1, <2>2, <2>3, <2>4 DEF Follows
<1> HIDE DEF s
<1> QED BY <1>1, <1>2, <1>5, <1>13, <1>14, <1>15, StepShape

\* Consecutive words, modulo the number of words.
LEMMA Wrapped ==
    ASSUME NEW N \in Nat \ {0}, NEW x \in Nat, x < 2 * N
    PROVE  x % N = IF x < N THEN x ELSE x - N
  OBVIOUS
\* The words behind a pointer are as many different words.
LEMMA ViewIs ==
    ASSUME NEW ptr \in Words
    PROVE  /\ View(ptr) \in Seq(Locations) /\ Len(View(ptr)) = SyscallWords
           /\ \A i \in 1 .. SyscallWords : \E w \in WordAddrs : View(ptr)[i] = Mem(w)
           /\ \A i, j \in 1 .. SyscallWords : i # j => View(ptr)[i] # View(ptr)[j]
<1> DEFINE A == WAddr(Modulus)
           p == WAddr(ptr)
           w(i) == (p + i - 1) % A
<1>1. A \in Nat \ {0} /\ p \in WordAddrs BY WordFacts
<1>2. SyscallWords \in 1 .. A BY DataAssumption
<1>3. p \in 0 .. A - 1 BY <1>1 DEF WordAddrs
<1> HIDE DEF A, p
<1>4. \A i \in 1 .. SyscallWords : p + i - 1 \in Nat /\ p + i - 1 < 2 * A
  BY <1>1, <1>2, <1>3
<1>5. \A i \in 1 .. SyscallWords : w(i) = IF p + i - 1 < A THEN p + i - 1 ELSE p + i - 1 - A
  <2> SUFFICES ASSUME NEW i \in 1 .. SyscallWords
               PROVE  w(i) = IF p + i - 1 < A THEN p + i - 1 ELSE p + i - 1 - A
    OBVIOUS
  <2> DEFINE x == p + i - 1
  <2>1. x \in Nat /\ x < 2 * A BY <1>4
  <2> HIDE DEF x
  <2>2. x % A = IF x < A THEN x ELSE x - A BY <1>1, <2>1, Wrapped
  <2>3. w(i) = x % A BY DEF x
  <2>4. x = p + i - 1 BY DEF x
  <2> HIDE DEF w
  <2> QED BY <1>1, <1>2, <1>3, <2>1, <2>2, <2>3, <2>4
<1>6. \A i \in 1 .. SyscallWords : w(i) \in 0 .. A - 1 BY <1>1, <1>2, <1>3, <1>5
<1>7. \A i, j \in 1 .. SyscallWords : i # j => w(i) # w(j) BY <1>1, <1>2, <1>3, <1>5
<1> HIDE DEF w
<1>8. \A i \in 1 .. SyscallWords : w(i) \in WordAddrs BY <1>6 DEF WordAddrs, A
<1>9. View(ptr) = [i \in 1 .. SyscallWords |-> Mem(w(i))] BY DEF View, w, A, p
<1>10. \A i \in 1 .. SyscallWords : Mem(w(i)) \in Locations BY <1>8, WordFacts
<1>11. SyscallWords \in Nat BY <1>1, <1>2
<1>12. View(ptr) \in Seq(Locations) /\ Len(View(ptr)) = SyscallWords
  BY <1>9, <1>10, <1>11
<1>13. \A v, u : Mem(v) = Mem(u) => v = u
  <2> SUFFICES ASSUME NEW v, NEW u, Mem(v) = Mem(u) PROVE v = u
    OBVIOUS
  <2>1. Mem(v)[2] = v /\ Mem(u)[2] = u BY DEF Mem
  <2> QED BY <2>1
<1>14. \A i \in 1 .. SyscallWords : View(ptr)[i] = Mem(w(i)) BY <1>9
<1> QED BY <1>7, <1>8, <1>12, <1>13, <1>14

\* The memory operations of a call: no word twice if the pointers are apart.
LEMMA MemOpsAre ==
    ASSUME TypeOK, CanStep, Fetched \in DOMAIN program, KnownCall, NEW result \in SyscallResults
    PROVE  /\ MemOps(result) \in Seq(Touch)
           /\ \A k \in DOMAIN MemOps(result) : \E w \in WordAddrs : MemOps(result)[k].loc = Mem(w)
           /\ PointersApart =>
                \A j, k \in DOMAIN MemOps(result) :
                   j # k => MemOps(result)[j].loc # MemOps(result)[k].loc
<1> DEFINE n == SyscallWords
           p == View(Pointers[1])
           q == View(Pointers[2])
           f == [i \in DOMAIN p |-> Write(p[i], MEM, result[i])]
           g == [i \in DOMAIN q |-> Read(q[i], MEM)]
<1>1. n \in Nat /\ result \in [1 .. n -> Words] BY DataAssumption, WordFacts
<1>2. Pointers[1] \in Words /\ Pointers[2] \in Words BY RegFacts DEF Pointers, TypeOK
<1>3. /\ p \in Seq(Locations) /\ Len(p) = n
      /\ \A i \in 1 .. n : \E w \in WordAddrs : p[i] = Mem(w)
      /\ \A i, j \in 1 .. n : i # j => p[i] # p[j]
  BY <1>2, ViewIs
<1>4. /\ q \in Seq(Locations) /\ Len(q) = n
      /\ \A i \in 1 .. n : \E w \in WordAddrs : q[i] = Mem(w)
      /\ \A i, j \in 1 .. n : i # j => q[i] # q[j]
  BY <1>2, ViewIs
<1>5. PointersApart /\ Function # UnaryCode => \A i, j \in 1 .. n : p[i] # q[j]
  BY DEF PointersApart, KnownCall
<1>6. MemOps(result) = IF Function = UnaryCode THEN f ELSE f \o g BY DEF MemOps
<1> HIDE DEF n, p, q
<1>7. DOMAIN p = 1 .. n /\ DOMAIN q = 1 .. n BY <1>3, <1>4, LenProperties
<1>8. \A i \in 1 .. n : p[i] \in Locations /\ q[i] \in Locations
  BY <1>3, <1>4, <1>7, ElementOfSeq
<1>9. \A i \in 1 .. n : f[i] \in Touch /\ f[i].loc = p[i]
  <2> SUFFICES ASSUME NEW i \in 1 .. n PROVE f[i] \in Touch /\ f[i].loc = p[i]
    OBVIOUS
  <2>1. f[i] = Write(p[i], 3, result[i]) BY <1>7
  <2>2. p[i] \in Locations /\ result[i] \in Words BY <1>1, <1>8
  <2> HIDE DEF f
  <2> QED BY <2>1, <2>2, WriteIs
<1>10. \A i \in 1 .. n : g[i] \in Touch /\ g[i].loc = q[i]
  <2> SUFFICES ASSUME NEW i \in 1 .. n PROVE g[i] \in Touch /\ g[i].loc = q[i]
    OBVIOUS
  <2>1. g[i] = Read(q[i], 3) BY <1>7
  <2>2. q[i] \in Locations BY <1>8
  <2> HIDE DEF g
  <2> QED BY <2>1, <2>2, ReadIs
<1>11. DOMAIN f = 1 .. n /\ DOMAIN g = 1 .. n BY <1>7
<1>12. f = [i \in 1 .. n |-> f[i]] /\ g = [i \in 1 .. n |-> g[i]] BY <1>7
<1> HIDE DEF f, g
<1>13. f \in Seq(Touch) /\ Len(f) = n /\ g \in Seq(Touch) /\ Len(g) = n
  <2>1. f \in [1 .. n -> Touch] BY <1>9, <1>12
  <2>2. g \in [1 .. n -> Touch] BY <1>10, <1>12
  <2>3. f \in Seq(Touch) /\ g \in Seq(Touch) BY <1>1, <2>1, <2>2, SeqDef
  <2> QED BY <1>1, <1>11, <2>3, LenProperties
<1>14. CASE Function = UnaryCode
  <2>1. MemOps(result) = f BY <1>6, <1>14
  <2> QED BY <1>3, <1>9, <1>11, <1>13, <2>1
<1>15. CASE Function # UnaryCode
  <2>1. MemOps(result) = f \o g BY <1>6, <1>15
  <2> DEFINE h == f \o g
  <2>2. h \in Seq(Touch) /\ DOMAIN h = 1 .. n + n BY <1>1, <1>13
  <2>3. \A i \in 1 .. n + n : h[i].loc = IF i <= n THEN p[i] ELSE q[i - n]
    <3> SUFFICES ASSUME NEW i \in 1 .. n + n
                 PROVE  h[i].loc = IF i <= n THEN p[i] ELSE q[i - n]
      OBVIOUS
    <3>1. h[i] = IF i <= n THEN f[i] ELSE g[i - n] BY <1>1, <1>13
    <3>2. CASE i <= n BY <1>1, <1>9, <3>1, <3>2
    <3>3. CASE ~(i <= n)
      <4>1. i - n \in 1 .. n BY <1>1, <3>3
      <4> QED BY <1>10, <3>1, <3>3, <4>1
    <3> QED BY <3>2, <3>3
  <2> HIDE DEF h
  <2>4. ASSUME NEW i \in 1 .. n + n PROVE \E w \in WordAddrs : h[i].loc = Mem(w)
    <3>1. CASE i <= n BY <1>1, <1>3, <2>3, <3>1
    <3>2. CASE ~(i <= n)
      <4>1. i - n \in 1 .. n BY <1>1, <3>2
      <4> QED BY <1>4, <2>3, <3>2, <4>1
    <3> QED BY <3>1, <3>2
  <2>5. ASSUME PointersApart, NEW i \in 1 .. n + n, NEW j \in 1 .. n + n, i # j
        PROVE  h[i].loc # h[j].loc
    <3>1. h[i].loc = (IF i <= n THEN p[i] ELSE q[i - n])
          /\ h[j].loc = (IF j <= n THEN p[j] ELSE q[j - n])
      BY <2>3
    <3>2. i <= n => i \in 1 .. n BY <1>1
    <3>3. ~(i <= n) => i - n \in 1 .. n BY <1>1
    <3>4. j <= n => j \in 1 .. n BY <1>1
    <3>5. ~(j <= n) => j - n \in 1 .. n /\ (i - n = j - n => i = j) BY <1>1
    <3> QED BY <1>3, <1>4, <1>5, <1>15, <2>5, <3>1, <3>2, <3>3, <3>4, <3>5
  <2> QED BY <2>1, <2>2, <2>4, <2>5 DEF h
<1> QED BY <1>14, <1>15

\* The touches of Syscall.
LEMMA SyscallShape ==
    ASSUME TypeOK, program \in Programs, Syscall PROVE \E t, n : Shape(t, n)
<1> DEFINE a == ReadFunction  b == Read(Reg(10), 2)  c == Read(Reg(11), 2)
<1>1. CanStep /\ Fetched \in DOMAIN program /\ KnownCall /\ mmio' = mmio
  BY FetchIs DEF Syscall
<1>2. PICK result \in SyscallResults :
         Step(<<ReadFunction>> \o RegOps \o MemOps(result), NextInsn)
  BY DEF Syscall
<1> DEFINE m == MemOps(result)
           s == <<a, b, c>> \o m
<1>3. Function # HaltCode BY <1>1, MachineAssumption DEF KnownCall
<1>4. 5 \in Regs /\ 10 \in Regs /\ 11 \in Regs /\ Reg(10) # Reg(11) BY RegFacts
<1>5. NextInsn \in Words BY <1>1, AddressFacts
<1>6. /\ Sound(a) /\ a.sub = 0 /\ a.loc = Reg(5) /\ a.after = Value(a.loc)
      /\ a.after # HaltCode
  BY <1>3, <1>4, RegisterRead DEF ReadFunction, Function
<1>7. Sound(b) /\ b.sub = 2 /\ b.loc = Reg(10) /\ b.after = Value(b.loc)
  BY <1>4, RegisterRead
<1>8. Sound(c) /\ c.sub = 2 /\ c.loc = Reg(11) BY <1>4, RegisterRead
<1>9. /\ m \in Seq(Touch)
      /\ \A k \in DOMAIN m : \E w \in WordAddrs : m[k].loc = Mem(w)
      /\ PointersApart => \A j, k \in DOMAIN m : j # k => m[j].loc # m[k].loc
  BY <1>1, MemOpsAre
<1>10. RegOps = <<b, c>> BY DEF RegOps
<1> HIDE DEF a, b, c, m
<1>11. Before(a, b) /\ Before(a, c) BY <1>6, <1>7, <1>8, ReadsBefore
<1>12. Before(b, c) BY <1>4, <1>7, <1>8 DEF Before
<1>13. Fit(<<a, b, c>>) /\ Ordered(<<a, b, c>>) BY <1>6, <1>7, <1>8, <1>11, <1>12, FitThree
<1>14. Step(s, NextInsn)
  <2>1. ReadFunction = a BY DEF a
  <2>2. <<a>> \o <<b, c>> = <<a, b, c>>
    <3> DEFINE l == <<a>> \o <<b, c>>
               r == <<a, b, c>>
    <3>1. a \in Touch /\ b \in Touch /\ c \in Touch BY <1>6, <1>7, <1>8 DEF Sound
    <3>2. l \in Seq(Touch) /\ Len(l) = 3 /\ l[1] = a /\ l[2] = b /\ l[3] = c BY <3>1
    <3>3. r \in Seq(Touch) /\ Len(r) = 3 /\ r[1] = a /\ r[2] = b /\ r[3] = c BY <3>1
    <3> HIDE DEF l, r
    <3>4. \A i \in 1 .. Len(l) : l[i] = r[i] BY <3>2, <3>3
    <3>5. l = r BY <3>2, <3>3, <3>4, SeqEqual
    <3> QED BY <3>5 DEF l, r
  <2> QED BY <1>2, <1>10, <2>1, <2>2 DEF m
<1>15. Len(m) \in Nat /\ DOMAIN m = 1 .. Len(m) BY <1>9, LenProperties
<1>16. <<a, b, c>> \in Seq(Touch) /\ Len(<<a, b, c>>) = 3 BY <1>13 DEF Fit
<1>17. s \in Seq(Touch) /\ DOMAIN s = 1 .. 3 + Len(m) BY <1>9, <1>15, <1>16
<1>18. s[1] = a /\ s[2] = b /\ s[3] = c BY <1>9, <1>15, <1>16
<1>19. \A k \in 4 .. 3 + Len(m) : s[k] = m[k - 3] BY <1>9, <1>15, <1>16
<1> HIDE DEF s
<1>20. \A k \in DOMAIN s : k \in {1, 2, 3} \/ (k \in 4 .. 3 + Len(m) /\ k - 3 \in DOMAIN m)
  BY <1>15, <1>17
<1>21. \A k \in 4 .. 3 + Len(m) : \E w \in WordAddrs : s[k].loc = Mem(w)
  <2> SUFFICES ASSUME NEW k \in 4 .. 3 + Len(m) PROVE \E w \in WordAddrs : s[k].loc = Mem(w)
    OBVIOUS
  <2>1. k - 3 \in DOMAIN m BY <1>15
  <2> QED BY <1>9, <1>19, <2>1
<1>22. \A k \in 4 .. 3 + Len(m) :
          s[k].loc # Reg(0) /\ s[k].loc # Reg(5) /\ s[k].loc # Reg(10) /\ s[k].loc # Reg(11)
  BY <1>21, RegFacts
<1>23. Fit(s)
  <2> SUFFICES ASSUME NEW k \in DOMAIN s, s[k].loc = Reg(0)
               PROVE  s[k].after = Value(Reg(0))
    BY <1>15, <1>17 DEF Fit
  <2>1. k \in {1, 2, 3} BY <1>20, <1>22
  <2> QED BY <1>6, <1>7, <1>8, <1>18, <2>1 DEF Sound
<1>24. ASSUME PointersApart PROVE Ordered(s)
  <2> SUFFICES ASSUME NEW j \in DOMAIN s, NEW k \in DOMAIN s, j < k, s[j].loc = s[k].loc
               PROVE  s[j].sub < s[k].sub /\ s[j].after = Value(s[j].loc)
    BY DEF Ordered
  <2>1. CASE k \in {1, 2, 3}
    <3>1. j \in {1, 2} BY <1>20, <1>15, <2>1
    <3> QED BY <1>11, <1>12, <1>18, <2>1, <3>1 DEF Before
  <2>2. CASE k \in 4 .. 3 + Len(m) /\ k - 3 \in DOMAIN m
    <3>1. CASE j \in {1, 2, 3} BY <1>6, <1>7, <1>8, <1>18, <1>22, <2>2, <3>1
    <3>2. CASE j \in 4 .. 3 + Len(m) /\ j - 3 \in DOMAIN m
      <4>1. j - 3 # k - 3 BY <3>2, <2>2, <1>15
      <4> QED BY <1>9, <1>19, <1>24, <2>2, <3>2, <4>1
    <3> QED BY <1>20, <3>1, <3>2
  <2> QED BY <1>20, <2>1, <2>2
<1>25. Complete(s, NextInsn) /\ status' = status BY <1>14 DEF Step
<1>26. Insn.kind \in STRING BY <1>1, InsnType
<1>27. Insn.kind = "ECALL" BY FetchIs DEF Syscall
<1>28. Follows(s)
  <2>1. 2 \in DOMAIN s BY <1>15, <1>17
  <2>2. Calls(s) BY <1>7, <1>18, <1>27 DEF Calls
  <2> QED BY <1>1, <2>1, <2>2 DEF Follows
<1>29. Shape(s, NextInsn)
  BY <1>1, <1>5, <1>6, <1>18, <1>23, <1>24, <1>25, <1>26, <1>28 DEF Shape
<1> QED BY <1>29

\* Every instruction that is not a trap has this shape.
LEMMA ExecuteShape ==
    ASSUME TypeOK, program \in Programs, Execute PROVE \E t, n : Shape(t, n)
  BY ComputeShape, JumpShape, BranchShape, LoadShape, StoreShape, HaltShape, SyscallShape,
     EcallNopShape DEF Execute
-----------------------------------------------------------------------------
(***************************************************************************)
(* The invariant: types, and the clock is ahead of every operation.        *)
(***************************************************************************)
Operation == [loc : Locations, ts : Nat, prev : Nat, before : Words, after : Words]
StepRecord ==
    [cycle : Nat, before : Words, after : Words, kind : STRING, ops : Seq(Operation)]
Ops == {Op(d) : d \in OpIndex}

ClockAhead ==
    /\ cycle = 4 * (Len(records) + 1)
    /\ \A op \in Ops : op.ts < cycle
    /\ \A loc \in Locations : latest[loc] < cycle

IInv ==
    /\ TypeOK
    /\ program \in Programs
    /\ records \in Seq(StepRecord)
    /\ ClockAhead

\* The operations of the trace, one by one.
LEMMA OpsAre ==
    ASSUME records \in Seq(StepRecord)
    PROVE  /\ \A op : op \in Ops <=>
                \E i \in DOMAIN records : \E k \in DOMAIN records[i].ops : op = records[i].ops[k]
           /\ \A op \in Ops : op \in Operation
<1>1. ASSUME NEW op, op \in Ops
      PROVE  \E i \in DOMAIN records : \E k \in DOMAIN records[i].ops : op = records[i].ops[k]
  <2>1. PICK d \in OpIndex : op = Op(d) BY <1>1 DEF Ops
  <2>2. PICK i \in DOMAIN records : d \in {<<i, k>> : k \in DOMAIN records[i].ops}
    BY <2>1 DEF OpIndex
  <2>3. PICK k \in DOMAIN records[i].ops : d = <<i, k>> BY <2>2
  <2>4. op = records[i].ops[k] BY <2>1, <2>3 DEF Op
  <2> QED BY <2>4
<1>2. ASSUME NEW op, NEW i \in DOMAIN records, NEW k \in DOMAIN records[i].ops,
             op = records[i].ops[k]
      PROVE  op \in Ops
  <2>1. <<i, k>> \in OpIndex BY DEF OpIndex
  <2>2. Op(<<i, k>>) = op BY <1>2 DEF Op
  <2> QED BY <2>1, <2>2 DEF Ops
<1>3. ASSUME NEW op \in Ops PROVE op \in Operation
  <2>1. PICK i \in DOMAIN records : \E k \in DOMAIN records[i].ops : op = records[i].ops[k]
    BY <1>1
  <2>2. PICK k \in DOMAIN records[i].ops : op = records[i].ops[k] BY <2>1
  <2>3. records[i] \in StepRecord BY ElementOfSeq, LenProperties
  <2>4. records[i].ops \in Seq(Operation) BY <2>3 DEF StepRecord
  <2> QED BY <2>2, <2>4, ElementOfSeq, LenProperties
<1> QED BY <1>1, <1>2, <1>3

\* The operations a step records have the types of the trace.
LEMMA OperationsType ==
    ASSUME TypeOK, NEW touches, Fit(touches)
    PROVE  /\ Operations(touches) \in Seq(Operation)
           /\ DOMAIN Operations(touches) = DOMAIN touches
           /\ \A k \in DOMAIN touches :
                /\ Operations(touches)[k].loc = touches[k].loc
                /\ Operations(touches)[k].ts = cycle + touches[k].sub
                /\ Operations(touches)[k].prev = PreviousCycle(touches, k)
                /\ Operations(touches)[k].before = Value(touches[k].loc)
                /\ Operations(touches)[k].after = touches[k].after
                /\ touches[k] \in Touch
<1>1. touches \in Seq(Touch) /\ Len(touches) \in Nat /\ DOMAIN touches = 1 .. Len(touches)
  BY LenProperties DEF Fit
<1>2. \A k \in DOMAIN touches : touches[k] \in Touch BY <1>1, ElementOfSeq
<1>3. ASSUME NEW k \in DOMAIN touches PROVE PreviousCycle(touches, k) \in Nat
  <2> DEFINE e == Earlier(touches, touches[k].loc, k)
  <2>1. touches[k].loc \in Locations /\ latest[touches[k].loc] \in Nat /\ cycle \in Nat
    BY <1>2 DEF Touch, TypeOK
  <2>2. CASE e = {} BY <2>1, <2>2 DEF PreviousCycle
  <2>3. CASE e # {}
    <3>1. k - 1 \in Nat /\ e \in SUBSET (1 .. k - 1) BY <1>1 DEF Earlier
    <3>2. LastOf(e) \in e BY <2>3, <3>1, LastOfIs
    <3>3. LastOf(e) \in DOMAIN touches BY <1>1, <3>1, <3>2
    <3>4. touches[LastOf(e)].sub \in 0 .. 3 BY <1>2, <3>3 DEF Touch
    <3> QED BY <2>1, <2>3, <3>4 DEF PreviousCycle
  <2> QED BY <2>2, <2>3
<1>4. ASSUME NEW k \in DOMAIN touches
      PROVE  Operations(touches)[k] =
               [loc |-> touches[k].loc, ts |-> cycle + touches[k].sub,
                prev |-> PreviousCycle(touches, k),
                before |-> Value(touches[k].loc), after |-> touches[k].after]
  BY DEF Operations
<1>5. ASSUME NEW k \in DOMAIN touches PROVE Operations(touches)[k] \in Operation
  <2>1. touches[k].loc \in Locations /\ touches[k].sub \in 0 .. 3 /\ touches[k].after \in Words
    BY <1>2 DEF Touch
  <2>2. cycle + touches[k].sub \in Nat BY <2>1 DEF TypeOK
  <2>3. Value(touches[k].loc) \in Words BY <2>1, ValueType
  <2>4. PreviousCycle(touches, k) \in Nat BY <1>3
  <2>5. [loc |-> touches[k].loc, ts |-> cycle + touches[k].sub,
         prev |-> PreviousCycle(touches, k), before |-> Value(touches[k].loc),
         after |-> touches[k].after] \in Operation
    BY <2>1, <2>2, <2>3, <2>4 DEF Operation
  <2> QED BY <1>4, <2>5
<1>6. Operations(touches) \in [1 .. Len(touches) -> Operation]
  <2>1. DOMAIN Operations(touches) = DOMAIN touches BY DEF Operations
  <2>2. Operations(touches) = [k \in DOMAIN touches |-> Operations(touches)[k]] BY DEF Operations
  <2> QED BY <1>1, <1>5, <2>1, <2>2
<1>7. Operations(touches) \in Seq(Operation) BY <1>1, <1>6, SeqDef
<1> QED BY <1>1, <1>2, <1>4, <1>6, <1>7

\* What a step adds to the trace.
LEMMA TraceAfter ==
    ASSUME IInv, NEW touches, NEW next, Shape(touches, next)
    PROVE  /\ records' \in Seq(StepRecord)
           /\ records' = Append(records, [cycle |-> cycle, before |-> pc, after |-> next,
                                          kind |-> Insn.kind, ops |-> Operations(touches)])
           /\ Len(records') = Len(records) + 1
           /\ \A i \in DOMAIN records : i \in DOMAIN records' /\ records'[i] = records[i]
           /\ Len(records) \in Nat /\ DOMAIN records = 1 .. Len(records)
           /\ records'[Len(records) + 1] = [cycle |-> cycle, before |-> pc, after |-> next,
                                            kind |-> Insn.kind, ops |-> Operations(touches)]
           /\ \A op : op \in Ops' <=>
                op \in Ops \/ \E k \in DOMAIN touches : op = Operations(touches)[k]
<1> DEFINE new == [cycle |-> cycle, before |-> pc, after |-> next,
                   kind |-> Insn.kind, ops |-> Operations(touches)]
<1>1. TypeOK /\ records \in Seq(StepRecord) BY DEF IInv
<1>2. Fit(touches) /\ next \in Words /\ Insn.kind \in STRING /\ records' = Append(records, new)
  BY DEF Shape, Complete
<1>3. Operations(touches) \in Seq(Operation) /\ DOMAIN Operations(touches) = DOMAIN touches
  BY <1>1, <1>2, OperationsType
<1>4. new \in StepRecord BY <1>1, <1>2, <1>3 DEF StepRecord, TypeOK
<1>5. new.ops = Operations(touches) OBVIOUS
<1> HIDE DEF new
<1>6. Len(records) \in Nat /\ DOMAIN records = 1 .. Len(records) BY <1>1, LenProperties
<1>7. /\ records' \in Seq(StepRecord) /\ Len(records') = Len(records) + 1
      /\ DOMAIN records' = 1 .. Len(records) + 1
      /\ \A i \in 1 .. Len(records) : records'[i] = records[i]
      /\ records'[Len(records) + 1] = new
  BY <1>1, <1>2, <1>4, <1>6, AppendProperties
<1>8. \A op : op \in Ops' <=>
         \E i \in DOMAIN records' : \E k \in DOMAIN records'[i].ops : op = records'[i].ops[k]
  <2>1. ASSUME NEW op, op \in Ops'
        PROVE  \E i \in DOMAIN records' : \E k \in DOMAIN records'[i].ops : op = records'[i].ops[k]
    <3>1. PICK d \in OpIndex' : op = Op(d)' BY <2>1 DEF Ops
    <3>2. PICK i \in DOMAIN records' : d \in {<<i, k>> : k \in DOMAIN records'[i].ops}
      BY <3>1 DEF OpIndex
    <3>3. PICK k \in DOMAIN records'[i].ops : d = <<i, k>> BY <3>2
    <3>4. op = records'[i].ops[k] BY <3>1, <3>3 DEF Op
    <3> QED BY <3>4
  <2>2. ASSUME NEW op, NEW i \in DOMAIN records', NEW k \in DOMAIN records'[i].ops,
               op = records'[i].ops[k]
        PROVE  op \in Ops'
    <3>1. <<i, k>> \in OpIndex' BY DEF OpIndex
    <3>2. Op(<<i, k>>)' = op BY <2>2 DEF Op
    <3> QED BY <3>1, <3>2 DEF Ops
  <2> QED BY <2>1, <2>2
<1>9. ASSUME NEW op, op \in Ops' 
      PROVE  op \in Ops \/ \E k \in DOMAIN touches : op = Operations(touches)[k]
  <2>1. PICK i \in 1 .. Len(records) + 1 :
           \E k \in DOMAIN records'[i].ops : op = records'[i].ops[k]
    BY <1>7, <1>8, <1>9
  <2>2. CASE i = Len(records) + 1 BY <1>3, <1>5, <1>7, <2>1, <2>2
  <2>3. CASE i # Len(records) + 1
    <3>1. i \in 1 .. Len(records) BY <1>6, <2>3
    <3>2. records'[i] = records[i] /\ i \in DOMAIN records BY <1>6, <1>7, <3>1
    <3> QED BY <1>1, <2>1, <3>2, OpsAre
  <2> QED BY <2>2, <2>3
<1>10. ASSUME NEW op \in Ops PROVE op \in Ops'
  <2>1. PICK i \in DOMAIN records : \E k \in DOMAIN records[i].ops : op = records[i].ops[k]
    BY <1>1, OpsAre
  <2>2. i \in DOMAIN records' /\ records'[i] = records[i] BY <1>6, <1>7
  <2> QED BY <1>8, <2>1, <2>2
<1>11. ASSUME NEW k \in DOMAIN touches PROVE Operations(touches)[k] \in Ops'
  <2>1. Len(records) + 1 \in DOMAIN records' BY <1>6, <1>7
  <2>2. records'[Len(records) + 1].ops = Operations(touches) BY <1>5, <1>7
  <2> QED BY <1>3, <1>8, <2>1, <2>2
<1>12. \A op : op \in Ops' <=>
          op \in Ops \/ \E k \in DOMAIN touches : op = Operations(touches)[k]
  BY <1>9, <1>10, <1>11
<1>13. \A i \in DOMAIN records : i \in DOMAIN records' /\ records'[i] = records[i]
  BY <1>6, <1>7
<1>14. /\ records' = Append(records, [cycle |-> cycle, before |-> pc, after |-> next,
                                       kind |-> Insn.kind, ops |-> Operations(touches)])
       /\ records'[Len(records) + 1] = [cycle |-> cycle, before |-> pc, after |-> next,
                                         kind |-> Insn.kind, ops |-> Operations(touches)]
  BY <1>2, <1>7 DEF new
<1>15. records' \in Seq(StepRecord) /\ Len(records') = Len(records) + 1 BY <1>7
<1> QED BY <1>6, <1>12, <1>13, <1>14, <1>15

\* The operations after a step: the old ones and those of the step.
LEMMA OpsAfter ==
    ASSUME IInv, NEW touches, NEW next, Shape(touches, next)
    PROVE  \A op : op \in Ops' <=>
              op \in Ops \/ \E k \in DOMAIN touches : op = Operations(touches)[k]
  BY TraceAfter

\* What every location holds after a step.
LEMMA ValueAfter ==
    ASSUME NEW touches, NEW next, Shape(touches, next)
    PROVE  \A loc \in Locations : Value(loc)' = NewValue(touches, loc)
<1>1. registers' = [i \in Regs |-> NewValue(touches, Reg(i))]
      /\ memory' = [w \in WordAddrs |-> NewValue(touches, Mem(w))]
  BY DEF Shape, Complete
<1>2. ASSUME NEW i \in Regs PROVE Value(Reg(i))' = NewValue(touches, Reg(i))
  <2>1. Reg(i)[1] = "reg" /\ Reg(i)[2] = i BY DEF Reg
  <2>2. Value(Reg(i))' = registers'[i] BY <2>1 DEF Value
  <2> QED BY <1>1, <2>2
<1>3. ASSUME NEW w \in WordAddrs PROVE Value(Mem(w))' = NewValue(touches, Mem(w))
  <2>1. Mem(w)[1] = "mem" /\ Mem(w)[2] = w BY DEF Mem
  <2>2. Value(Mem(w))' = memory'[w] BY <2>1 DEF Value
  <2> QED BY <1>1, <2>2
<1>4. \A loc \in Locations : (\E i \in Regs : loc = Reg(i)) \/ (\E w \in WordAddrs : loc = Mem(w))
  BY DEF Locations
<1>5. ASSUME NEW loc \in Locations PROVE Value(loc)' = NewValue(touches, loc)
  <2>1. CASE \E i \in Regs : loc = Reg(i) BY <1>2, <2>1
  <2>2. CASE \E w \in WordAddrs : loc = Mem(w) BY <1>3, <2>2
  <2> QED BY <1>4, <2>1, <2>2
<1> QED BY <1>5

\* The bounds of a region stay within it.
BoundsOK ==
    \A r \in DOMAIN Regions :
        /\ mmio[r].min \in WAddr(Regions[r].start) .. WAddr(Regions[r].end)
        /\ mmio[r].max \in WAddr(Regions[r].start) .. WAddr(Regions[r].end)

\* Tracking a word keeps the bounds within the regions.
LEMMA TrackedOK ==
    ASSUME BoundsOK, NEW w \in WordAddrs, mmio' = Tracked(w)
    PROVE  BoundsOK'
<1> SUFFICES ASSUME NEW r \in DOMAIN Regions
             PROVE  /\ mmio'[r].min \in WAddr(Regions[r].start) .. WAddr(Regions[r].end)
                    /\ mmio'[r].max \in WAddr(Regions[r].start) .. WAddr(Regions[r].end)
  BY DEF BoundsOK
<1> DEFINE s == WAddr(Regions[r].start)
           e == WAddr(Regions[r].end)
<1>1. Regions[r].start \in Words /\ Regions[r].end \in Words BY RangeFacts
<1>2. s \in WordAddrs /\ e \in WordAddrs BY <1>1, WordFacts
<1>3. s \in Nat /\ e \in Nat /\ w \in Nat BY <1>2 DEF WordAddrs
<1>4. mmio[r].min \in s .. e /\ mmio[r].max \in s .. e BY DEF BoundsOK
<1>5. mmio'[r] = IF Containing(w, r) /\ w < e
                 THEN [min |-> IF w < mmio[r].min THEN w ELSE mmio[r].min,
                       max |-> IF w >= mmio[r].max THEN w + 1 ELSE mmio[r].max]
                 ELSE mmio[r]
  BY DEF Tracked
<1>6. Containing(w, r) => s <= w BY DEF Containing
<1> HIDE DEF s, e
<1>7. CASE Containing(w, r) /\ w < e
  <2>1. mmio'[r].min = (IF w < mmio[r].min THEN w ELSE mmio[r].min)
        /\ mmio'[r].max = (IF w >= mmio[r].max THEN w + 1 ELSE mmio[r].max)
    BY <1>5, <1>7
  <2>2. mmio'[r].min \in s .. e /\ mmio'[r].max \in s .. e
    BY <1>3, <1>4, <1>6, <1>7, <2>1
  <2> QED BY <2>2 DEF s, e
<1>8. CASE ~(Containing(w, r) /\ w < e)
  <2>1. mmio'[r] = mmio[r] BY <1>5, <1>8
  <2> QED BY <1>4, <2>1 DEF s, e
<1> QED BY <1>7, <1>8

\* A step keeps the types.
LEMMA StepType ==
    ASSUME IInv, NEW touches, NEW next, Shape(touches, next)
    PROVE  TypeOK' /\ records' \in Seq(StepRecord) /\ program' \in Programs
<1>1. TypeOK /\ program \in Programs BY DEF IInv
<1>2. Fit(touches) /\ next \in Words /\ Complete(touches, next) BY DEF Shape
<1>3. pc' \in Words /\ cycle' \in Nat /\ program' \in Programs
  BY <1>1, <1>2 DEF Complete, TypeOK, inputs
<1>4. registers' \in [Regs -> Words] /\ memory' \in [WordAddrs -> Words]
  <2>1. \A i \in Regs : NewValue(touches, Reg(i)) \in Words
    BY <1>1, <1>2, EffectType, WordFacts
  <2>2. \A w \in WordAddrs : NewValue(touches, Mem(w)) \in Words
    BY <1>1, <1>2, EffectType, WordFacts
  <2> QED BY <1>2, <2>1, <2>2 DEF Complete
<1>5. status' \in {"running", "halted", "failed", "returned"}
  BY <1>1 DEF Shape, TypeOK
<1>6. latest' \in [Locations -> Nat] BY <1>1, <1>2, EffectType DEF Complete
<1>7. BoundsOK'
  <2>1. BoundsOK BY <1>1 DEF TypeOK, BoundsOK
  <2>2. CASE mmio' = mmio BY <2>1, <2>2 DEF BoundsOK
  <2>3. CASE \E w \in WordAddrs : mmio' = Tracked(w) BY <2>1, <2>3, TrackedOK
  <2> QED BY <2>2, <2>3 DEF Shape, Follows
<1>8. records' \in Seq(StepRecord) BY TraceAfter
<1>9. \A i \in DOMAIN records' : records'[i].before \in Words /\ records'[i].after \in Words
  <2>1. \A i \in DOMAIN records' : records'[i] \in StepRecord
    BY <1>8, ElementOfSeq, LenProperties
  <2> QED BY <2>1 DEF StepRecord
<1> QED BY <1>3, <1>4, <1>5, <1>6, <1>7, <1>8, <1>9 DEF TypeOK, BoundsOK

\* A step keeps the clock ahead.
LEMMA StepClock ==
    ASSUME IInv, NEW touches, NEW next, Shape(touches, next)
    PROVE  ClockAhead'
<1>1. TypeOK /\ records \in Seq(StepRecord) /\ ClockAhead BY DEF IInv
<1>2. Fit(touches) /\ cycle' = cycle + 4 /\ latest' = Latest(touches)
  BY DEF Shape, Complete
<1>3. cycle \in Nat /\ Len(records) \in Nat BY <1>1, LenProperties DEF TypeOK
<1>4. cycle' = 4 * (Len(records') + 1)
  <2>1. Len(records') = Len(records) + 1 BY TraceAfter
  <2> QED BY <1>1, <1>2, <1>3, <2>1 DEF ClockAhead
<1>5. \A k \in DOMAIN touches : touches[k].sub \in 0 .. 3
  <2>1. \A k \in DOMAIN touches : touches[k] \in Touch BY <1>1, <1>2, OperationsType
  <2> QED BY <2>1 DEF Touch
<1>6. ASSUME NEW op \in Ops' PROVE op.ts < cycle'
  <2>1. CASE op \in Ops
    <3>1. op.ts \in Nat BY <1>1, <2>1, OpsAre DEF Operation
    <3>2. op.ts < cycle BY <1>1, <2>1 DEF ClockAhead
    <3> QED BY <1>2, <1>3, <3>1, <3>2
  <2>2. CASE \E k \in DOMAIN touches : op = Operations(touches)[k]
    <3>1. PICK k \in DOMAIN touches : op = Operations(touches)[k] BY <2>2
    <3>2. op.ts = cycle + touches[k].sub BY <1>1, <1>2, <3>1, OperationsType
    <3>3. touches[k].sub \in 0 .. 3 BY <1>5
    <3> QED BY <1>2, <1>3, <3>2, <3>3
  <2>3. op \in Ops \/ \E k \in DOMAIN touches : op = Operations(touches)[k] BY OpsAfter
  <2> QED BY <2>1, <2>2, <2>3
<1>7. ASSUME NEW loc \in Locations PROVE latest'[loc] < cycle'
  <2>1. latest[loc] \in Nat /\ latest[loc] < cycle BY <1>1 DEF ClockAhead, TypeOK
  <2>2. CASE Touched(touches, loc) = {}
    <3>1. latest'[loc] = latest[loc] BY <1>1, <1>2, <2>2, LatestIs DEF Fit
    <3> QED BY <1>2, <1>3, <2>1, <3>1
  <2>3. CASE Touched(touches, loc) # {}
    <3> DEFINE l == LastOf(Touched(touches, loc))
    <3>1. l \in DOMAIN touches /\ latest'[loc] = cycle + touches[l].sub
      BY <1>1, <1>2, <2>3, LatestIs DEF Fit
    <3>2. touches[l].sub \in 0 .. 3 BY <1>5, <3>1
    <3> QED BY <1>2, <1>3, <3>1, <3>2
  <2> QED BY <2>2, <2>3
<1> QED BY <1>4, <1>6, <1>7 DEF ClockAhead

\* The machine starts in the invariant.
LEMMA InitInvariant == Init => IInv
<1> SUFFICES ASSUME Init PROVE IInv
  OBVIOUS
<1> USE DEF Init
<1>1. records \in Seq(StepRecord) /\ Len(records) = 0 /\ DOMAIN records = {} OBVIOUS
<1>2. 0 \in Words /\ RomStart \in Words BY WordFacts, MachineAssumption
<1>3. memory \in [WordAddrs -> Words]
  <2>1. /\ \A a \in DOMAIN Image : Image[a] \in Words
        /\ \A a \in DOMAIN IoInit : IoInit[a] \in Words
        /\ \A a \in DOMAIN HintInit : HintInit[a] \in Words
    BY DataAssumption
  <2>2. ASSUME NEW w \in WordAddrs PROVE InitialMemory[w] \in Words
    <3> DEFINE a == 4 * w
    <3>1. InitialMemory[w] = CASE a \in DOMAIN Image    -> Image[a]
                               [] a \in DOMAIN IoInit   -> IoInit[a]
                               [] a \in DOMAIN HintInit -> HintInit[a]
                               [] OTHER                 -> 0
      BY DEF InitialMemory
    <3> HIDE DEF a
    <3>2. a \in DOMAIN Image => a \notin DOMAIN IoInit /\ a \notin DOMAIN HintInit
      BY InputFacts
    <3> QED BY <1>2, <2>1, <3>1, <3>2
  <2>3. InitialMemory = [w \in WordAddrs |-> InitialMemory[w]] BY DEF InitialMemory
  <2> QED BY <2>2, <2>3
<1>4. BoundsOK
  <2> SUFFICES ASSUME NEW r \in DOMAIN Regions
               PROVE  /\ mmio[r].min \in WAddr(Regions[r].start) .. WAddr(Regions[r].end)
                      /\ mmio[r].max \in WAddr(Regions[r].start) .. WAddr(Regions[r].end)
    BY DEF BoundsOK
  <2>1. /\ Regions[r].start \in Words /\ Regions[r].end \in Words
        /\ Regions[r].start <= Regions[r].end
    BY RangeFacts
  <2>2. mmio[r].min = WAddr(Regions[r].end) /\ mmio[r].max = WAddr(Regions[r].start) OBVIOUS
  <2>3. WAddr(Regions[r].start) \in Nat /\ WAddr(Regions[r].end) \in Nat
        /\ WAddr(Regions[r].start) <= WAddr(Regions[r].end)
    <3>1. \A x, y \in Nat : x <= y => x \div 4 \in Nat /\ y \div 4 \in Nat /\ x \div 4 <= y \div 4
      OBVIOUS
    <3>2. Regions[r].start \in Nat /\ Regions[r].end \in Nat BY <2>1, WordFacts
    <3> QED BY <2>1, <3>1, <3>2 DEF WAddr
  <2> QED BY <2>2, <2>3
<1>5. TypeOK BY <1>1, <1>2, <1>3, <1>4 DEF TypeOK, BoundsOK
<1>6. ClockAhead
  <2>1. Ops = {} BY <1>1 DEF Ops, OpIndex
  <2> QED BY <1>1, <2>1 DEF ClockAhead
<1> QED BY <1>1, <1>5, <1>6 DEF IInv

\* Steps that record nothing: a trap, and what happens after the last step.
Silent ==
    UNCHANGED <<inputs, pc, registers, memory, cycle, latest, mmio, records>>

\* A step is an instruction or records nothing.
LEMMA NextCases ==
    ASSUME IInv, [Next]_vars
    PROVE  \/ \E t, n : Shape(t, n)
           \/ Silent /\ status' \in {status, "failed"} /\ output' = output
           \/ Silent /\ Return
<1>1. CASE Execute BY <1>1, ExecuteShape DEF IInv
<1>2. CASE Trap BY <1>2 DEF Trap, Fail, Silent
<1>3. CASE Return BY <1>3 DEF Return, Silent
<1>4. CASE ReturnFails BY <1>4 DEF ReturnFails, Fail, Silent
<1>5. CASE Ended BY <1>5 DEF Ended, Silent, vars
<1>6. CASE UNCHANGED vars BY <1>6 DEF Silent, vars
<1> QED BY <1>1, <1>2, <1>3, <1>4, <1>5, <1>6 DEF Next

\* What records nothing changes no operation.
LEMMA SilentKeeps == ASSUME Silent PROVE Ops' = Ops /\ \A loc : Value(loc)' = Value(loc)
<1>1. registers' = registers /\ memory' = memory /\ records' = records BY DEF Silent
<1>2. Ops' = Ops BY <1>1 DEF Ops, OpIndex, Op
<1> QED BY <1>1, <1>2 DEF Value

\* Every step keeps the invariant.
LEMMA NextInvariant == IInv /\ [Next]_vars => IInv'
<1> SUFFICES ASSUME IInv, [Next]_vars PROVE IInv'
  OBVIOUS
<1>1. CASE \E t, n : Shape(t, n) BY <1>1, StepType, StepClock DEF IInv
<1>2. CASE Silent /\ status' \in {"running", "halted", "failed", "returned"}
  <2>1. Ops' = Ops BY <1>2, SilentKeeps
  <2>2. ClockAhead' BY <1>2, <2>1 DEF ClockAhead, IInv, Silent
  <2>3. TypeOK' BY <1>2 DEF TypeOK, IInv, Silent
  <2> QED BY <1>2, <2>2, <2>3 DEF IInv, Silent, inputs
<1>3. Silent /\ status' \in {status, "failed"} => status' \in {"running", "halted", "failed", "returned"}
  BY DEF IInv, TypeOK
<1> QED BY <1>1, <1>2, <1>3, NextCases DEF Return

\* Registers, memory, the clock and the bounds of the regions have their types, for
\* every program and platform (VMState, Tracer).
THEOREM MachineTypes == Spec => []TypeOK
<1>1. IInv => TypeOK BY DEF IInv
<1> QED BY <1>1, InitInvariant, NextInvariant, PTL DEF Spec
-----------------------------------------------------------------------------
(***************************************************************************)
(* The trace: each operation points to the one before it, and the machine  *)
(* is where its trace says.                                                *)
(***************************************************************************)
\* The two properties, of the operations of the trace.
LEMMA TraceProperties ==
    /\ AccessChain <=> \A op \in Ops : /\ op.prev < op.ts
                                       /\ Quiet(Ops, op.loc, op.prev, op.ts)
                                       /\ LeftBy(Ops, op.loc, op.before, op.prev)
    /\ TraceExplainsMachine <=>
          \A loc \in Locations : /\ Quiet(Ops, loc, latest[loc], cycle)
                                 /\ LeftBy(Ops, loc, Value(loc), latest[loc])
  BY DEF AccessChain, TraceExplainsMachine, Ops

\* What explains a value goes on explaining it when the trace grows.
LEMMA LeftByGrows ==
    ASSUME NEW old, NEW new, old \subseteq new, NEW loc, NEW v, NEW ts, LeftBy(old, loc, v, ts)
    PROVE  LeftBy(new, loc, v, ts)
  BY DEF LeftBy

\* A step points each of its operations to the one before.
LEMMA StepPoints ==
    ASSUME IInv, TraceExplainsMachine, NEW touches, NEW next, Shape(touches, next),
           Ordered(touches), NEW k \in DOMAIN touches, NEW op, op = Operations(touches)[k]
    PROVE  /\ op.prev < op.ts
           /\ Quiet(Ops', op.loc, op.prev, op.ts)
           /\ LeftBy(Ops', op.loc, op.before, op.prev)
<1> DEFINE N == Operations(touches)
           loc == touches[k].loc
           e == Earlier(touches, loc, k)
<1>1. TypeOK /\ records \in Seq(StepRecord) /\ ClockAhead BY DEF IInv
<1>2. Fit(touches) /\ touches \in Seq(Touch) BY DEF Shape, Fit
<1>3. cycle \in Nat /\ cycle > 0
  <2>1. Len(records) \in Nat BY <1>1, LenProperties
  <2> QED BY <1>1, <2>1 DEF ClockAhead
<1>4. \A j \in DOMAIN touches :
         /\ N[j].loc = touches[j].loc /\ N[j].ts = cycle + touches[j].sub
         /\ N[j].prev = PreviousCycle(touches, j) /\ N[j].before = Value(touches[j].loc)
         /\ N[j].after = touches[j].after /\ touches[j] \in Touch
  BY <1>1, <1>2, OperationsType
<1> HIDE DEF N
<1>5. \A j \in DOMAIN touches : touches[j].sub \in 0 .. 3 /\ touches[j].loc \in Locations
  BY <1>4 DEF Touch
<1>6. /\ op.loc = loc /\ op.ts = cycle + touches[k].sub /\ op.prev = PreviousCycle(touches, k)
      /\ op.before = Value(loc)
  BY <1>4 DEF N
<1>7. loc \in Locations /\ latest[loc] \in Nat /\ latest[loc] < cycle
  BY <1>1, <1>5 DEF ClockAhead, TypeOK
<1>8. \A x : x \in Ops' <=> x \in Ops \/ \E j \in DOMAIN touches : x = N[j]
  BY OpsAfter DEF N
<1>9. \A x \in Ops : x.ts \in Nat /\ x.ts < cycle
  BY <1>1, OpsAre DEF ClockAhead, Operation
<1>10. Ops \subseteq Ops' BY <1>8
<1>11. Quiet(Ops, loc, latest[loc], cycle) /\ LeftBy(Ops, loc, Value(loc), latest[loc])
  BY <1>7, TraceProperties
<1>12. Len(touches) \in Nat /\ DOMAIN touches = 1 .. Len(touches) /\ k \in 1 .. Len(touches)
  BY <1>2, TouchedIs
<1>13. CASE e = {}
  <2>1. op.prev = latest[loc] BY <1>6, <1>13 DEF PreviousCycle
  <2>2. op.prev < op.ts BY <1>3, <1>5, <1>6, <1>7, <2>1
  <2>3. ASSUME NEW x \in Ops', x.loc = loc PROVE x.ts <= op.prev \/ op.ts <= x.ts
    <3>1. CASE x \in Ops BY <1>3, <1>7, <1>9, <1>11, <2>1, <2>3, <3>1 DEF Quiet
    <3>2. CASE \E j \in DOMAIN touches : x = N[j]
      <4>1. PICK j \in DOMAIN touches : x = N[j] BY <3>2
      <4>2. touches[j].loc = loc /\ x.ts = cycle + touches[j].sub BY <1>4, <2>3, <4>1
      <4>3. ~(j < k) BY <1>12, <1>13, <4>2 DEF Earlier
      <4>4. touches[k].sub <= touches[j].sub
        <5>1. j = k \/ k < j BY <1>12, <4>3
        <5> QED BY <1>5, <4>2, <5>1 DEF Ordered
      <4> QED BY <1>3, <1>5, <1>6, <4>2, <4>4
    <3> QED BY <1>8, <3>1, <3>2
  <2>4. Quiet(Ops', loc, op.prev, op.ts) BY <2>3 DEF Quiet
  <2>5. LeftBy(Ops', loc, op.before, op.prev) BY <1>6, <1>10, <1>11, <2>1, LeftByGrows
  <2> QED BY <1>6, <2>2, <2>4, <2>5
<1>14. CASE e # {}
  <2> DEFINE m == LastOf(e)
  <2>1. k - 1 \in Nat /\ e \in SUBSET (1 .. k - 1) BY <1>12 DEF Earlier
  <2>2. m \in e /\ \A i \in e : i <= m BY <1>14, <2>1, LastOfIs
  <2>3. op.prev = cycle + touches[m].sub BY <1>6, <1>14 DEF PreviousCycle
  <2> HIDE DEF m
  <2>4. m \in DOMAIN touches /\ m < k /\ touches[m].loc = loc BY <1>12, <2>1, <2>2 DEF Earlier
  <2>5. touches[m].sub < touches[k].sub /\ touches[m].after = Value(loc)
    BY <2>4 DEF Ordered
  <2>6. op.prev < op.ts BY <1>3, <1>5, <1>6, <2>3, <2>4, <2>5
  <2>7. ASSUME NEW x \in Ops', x.loc = loc PROVE x.ts <= op.prev \/ op.ts <= x.ts
    <3>1. CASE x \in Ops
      <4>1. x.ts \in Nat /\ x.ts < cycle BY <1>9, <3>1
      <4> QED BY <1>3, <1>5, <2>3, <2>4, <4>1
    <3>2. CASE \E j \in DOMAIN touches : x = N[j]
      <4>1. PICK j \in DOMAIN touches : x = N[j] BY <3>2
      <4>2. touches[j].loc = loc /\ x.ts = cycle + touches[j].sub BY <1>4, <2>7, <4>1
      <4>3. CASE j < k
        <5>1. j \in e BY <1>12, <4>2, <4>3 DEF Earlier
        <5>2. j = m \/ j < m BY <1>12, <2>2, <2>4, <5>1
        <5>3. touches[j].sub <= touches[m].sub BY <1>5, <2>4, <4>2, <5>2 DEF Ordered
        <5> QED BY <1>3, <1>5, <2>3, <2>4, <4>2, <5>3
      <4>4. CASE ~(j < k)
        <5>1. j = k \/ k < j BY <1>12, <4>4
        <5>2. touches[k].sub <= touches[j].sub BY <1>5, <4>2, <5>1 DEF Ordered
        <5> QED BY <1>3, <1>5, <1>6, <4>2, <5>2
      <4> QED BY <4>3, <4>4
    <3> QED BY <1>8, <3>1, <3>2
  <2>8. Quiet(Ops', loc, op.prev, op.ts) BY <2>7 DEF Quiet
  <2>9. N[m] \in Ops' BY <1>8, <2>4
  <2>10. N[m].loc = loc /\ N[m].ts = op.prev /\ N[m].after = op.before
    BY <1>4, <1>6, <2>3, <2>4, <2>5
  <2>11. op.prev # 0 BY <1>3, <1>5, <2>3, <2>4
  <2>12. LeftBy(Ops', loc, op.before, op.prev) BY <2>9, <2>10, <2>11 DEF LeftBy
  <2> QED BY <1>6, <2>6, <2>8, <2>12
<1> QED BY <1>13, <1>14

\* A step leaves the machine where the trace says.
LEMMA StepExplains ==
    ASSUME IInv, TraceExplainsMachine, NEW touches, NEW next, Shape(touches, next),
           Ordered(touches), NEW loc \in Locations
    PROVE  /\ Quiet(Ops', loc, latest'[loc], cycle')
           /\ LeftBy(Ops', loc, Value(loc)', latest'[loc])
<1> DEFINE N == Operations(touches)
           t == Touched(touches, loc)
<1>1. TypeOK /\ records \in Seq(StepRecord) /\ ClockAhead BY DEF IInv
<1>2. Fit(touches) /\ touches \in Seq(Touch) /\ latest' = Latest(touches) /\ cycle' = cycle + 4
  BY DEF Shape, Fit, Complete
<1>3. cycle \in Nat /\ cycle > 0
  <2>1. Len(records) \in Nat BY <1>1, LenProperties
  <2> QED BY <1>1, <2>1 DEF ClockAhead
<1>4. \A j \in DOMAIN touches :
         /\ N[j].loc = touches[j].loc /\ N[j].ts = cycle + touches[j].sub
         /\ N[j].after = touches[j].after /\ touches[j] \in Touch
  BY <1>1, <1>2, OperationsType
<1>5. \A x : x \in Ops' <=> x \in Ops \/ \E j \in DOMAIN touches : x = N[j]
  BY OpsAfter
<1> HIDE DEF N
<1>6. \A j \in DOMAIN touches : touches[j].sub \in 0 .. 3 BY <1>4 DEF Touch
<1>7. latest[loc] \in Nat BY <1>1 DEF TypeOK
<1>8. \A x \in Ops : x.ts \in Nat /\ x.ts < cycle
  BY <1>1, OpsAre DEF ClockAhead, Operation
<1>9. Ops \subseteq Ops' BY <1>5
<1>10. Quiet(Ops, loc, latest[loc], cycle) /\ LeftBy(Ops, loc, Value(loc), latest[loc])
  BY TraceProperties
<1>11. Len(touches) \in Nat /\ DOMAIN touches = 1 .. Len(touches)
       /\ t = {j \in DOMAIN touches : touches[j].loc = loc}
  BY <1>2, TouchedIs
<1>12. Value(loc)' = NewValue(touches, loc) BY ValueAfter
<1>13. CASE t = {}
  <2>1. latest'[loc] = latest[loc] /\ NewValue(touches, loc) = Value(loc)
    BY <1>1, <1>2, <1>13, LatestIs
  <2>2. ASSUME NEW x \in Ops', x.loc = loc PROVE x.ts <= latest[loc]
    <3>1. CASE x \in Ops BY <1>3, <1>7, <1>8, <1>10, <2>2, <3>1 DEF Quiet
    <3>2. CASE \E j \in DOMAIN touches : x = N[j]
      <4>1. PICK j \in DOMAIN touches : x = N[j] BY <3>2
      <4>2. j \in t BY <1>4, <1>11, <2>2, <4>1
      <4> QED BY <1>13, <4>2
    <3> QED BY <1>5, <3>1, <3>2
  <2>3. Quiet(Ops', loc, latest'[loc], cycle') BY <2>1, <2>2 DEF Quiet
  <2>4. LeftBy(Ops', loc, Value(loc), latest[loc]) BY <1>9, <1>10, LeftByGrows
  <2> QED BY <1>12, <2>1, <2>3, <2>4
<1>14. CASE t # {}
  <2> DEFINE l == LastOf(t)
  <2>1. /\ l \in DOMAIN touches /\ touches[l].loc = loc
        /\ \A j \in DOMAIN touches : touches[j].loc = loc => j <= l
        /\ latest'[loc] = cycle + touches[l].sub
        /\ NewValue(touches, loc) = touches[l].after
    BY <1>1, <1>2, <1>14, LatestIs
  <2> HIDE DEF l
  <2>2. ASSUME NEW x \in Ops', x.loc = loc PROVE x.ts <= latest'[loc]
    <3>1. CASE x \in Ops
      <4>1. x.ts \in Nat /\ x.ts < cycle BY <1>8, <3>1
      <4> QED BY <1>3, <1>6, <2>1, <4>1
    <3>2. CASE \E j \in DOMAIN touches : x = N[j]
      <4>1. PICK j \in DOMAIN touches : x = N[j] BY <3>2
      <4>2. touches[j].loc = loc /\ x.ts = cycle + touches[j].sub BY <1>4, <2>2, <4>1
      <4>3. j = l \/ j < l BY <1>11, <2>1, <4>2
      <4>4. touches[j].sub <= touches[l].sub BY <1>6, <2>1, <4>2, <4>3 DEF Ordered
      <4> QED BY <1>3, <1>6, <2>1, <4>2, <4>4
    <3> QED BY <1>5, <3>1, <3>2
  <2>3. Quiet(Ops', loc, latest'[loc], cycle') BY <2>2 DEF Quiet
  <2>4. N[l] \in Ops' BY <1>5, <2>1
  <2>5. N[l].loc = loc /\ N[l].ts = latest'[loc] /\ N[l].after = NewValue(touches, loc)
    BY <1>4, <2>1
  <2>6. latest'[loc] # 0 BY <1>3, <1>6, <2>1
  <2>7. LeftBy(Ops', loc, Value(loc)', latest'[loc])
    BY <1>12, <2>4, <2>5, <2>6 DEF LeftBy
  <2> QED BY <2>3, <2>7
<1> QED BY <1>13, <1>14

\* A step extends the chain.
LEMMA StepTrace ==
    ASSUME IInv, TraceExplainsMachine, AccessChain, NEW touches, NEW next,
           Shape(touches, next), Ordered(touches)
    PROVE  AccessChain' /\ TraceExplainsMachine'
<1>1. IInv /\ TypeOK /\ records \in Seq(StepRecord) /\ ClockAhead BY DEF IInv
<1>2. Fit(touches) /\ cycle \in Nat BY <1>1 DEF Shape, TypeOK
<1>3. \A x : x \in Ops' <=> x \in Ops \/ \E j \in DOMAIN touches : x = Operations(touches)[j]
  BY OpsAfter
<1>4. Ops \subseteq Ops' BY <1>3
<1>5. \A x \in Ops : x.ts \in Nat /\ x.ts < cycle
  BY <1>1, OpsAre DEF ClockAhead, Operation
<1>6. \A j \in DOMAIN touches :
         /\ Operations(touches)[j].ts = cycle + touches[j].sub /\ touches[j].sub \in 0 .. 3
  BY <1>1, <1>2, OperationsType DEF Touch
<1>7. ASSUME NEW op \in Ops
      PROVE  /\ op.prev < op.ts
             /\ Quiet(Ops', op.loc, op.prev, op.ts)
             /\ LeftBy(Ops', op.loc, op.before, op.prev)
  <2>1. /\ op.prev < op.ts /\ Quiet(Ops, op.loc, op.prev, op.ts)
        /\ LeftBy(Ops, op.loc, op.before, op.prev)
    BY TraceProperties
  <2>2. LeftBy(Ops', op.loc, op.before, op.prev) BY <1>4, <2>1, LeftByGrows
  <2>3. ASSUME NEW x \in Ops', x.loc = op.loc PROVE x.ts <= op.prev \/ op.ts <= x.ts
    <3>1. CASE x \in Ops BY <2>1, <2>3, <3>1 DEF Quiet
    <3>2. CASE \E j \in DOMAIN touches : x = Operations(touches)[j]
      <4>1. PICK j \in DOMAIN touches : x = Operations(touches)[j] BY <3>2
      <4>2. x.ts = cycle + touches[j].sub /\ touches[j].sub \in 0 .. 3 BY <1>6, <4>1
      <4>3. op.ts \in Nat /\ op.ts < cycle BY <1>5
      <4> QED BY <1>2, <4>2, <4>3
    <3> QED BY <1>3, <3>1, <3>2
  <2>4. Quiet(Ops', op.loc, op.prev, op.ts) BY <2>3 DEF Quiet
  <2> QED BY <2>1, <2>2, <2>4
<1>8. ASSUME NEW j \in DOMAIN touches, NEW op, op = Operations(touches)[j]
      PROVE  /\ op.prev < op.ts
             /\ Quiet(Ops', op.loc, op.prev, op.ts)
             /\ LeftBy(Ops', op.loc, op.before, op.prev)
  BY <1>8, StepPoints
<1>9. \A op \in Ops' : /\ op.prev < op.ts
                       /\ Quiet(Ops', op.loc, op.prev, op.ts)
                       /\ LeftBy(Ops', op.loc, op.before, op.prev)
  BY <1>3, <1>7, <1>8
<1>10. AccessChain' BY <1>9 DEF AccessChain, Ops
<1>11. \A loc \in Locations : /\ Quiet(Ops', loc, latest'[loc], cycle')
                              /\ LeftBy(Ops', loc, Value(loc)', latest'[loc])
  BY StepExplains
<1>12. TraceExplainsMachine' BY <1>11 DEF TraceExplainsMachine, Ops
<1> QED BY <1>10, <1>12

\* The two properties of the trace together.
Traced == AccessChain /\ TraceExplainsMachine

\* A machine that has run nothing is what its empty trace says.
LEMMA InitTrace == Init => Traced
<1> SUFFICES ASSUME Init PROVE Traced
  OBVIOUS
<1>1. Ops = {}
  <2>1. DOMAIN records = {} BY DEF Init
  <2> QED BY <2>1 DEF Ops, OpIndex
<1>2. \A loc \in Locations : latest[loc] = 0 /\ Value(loc) = InitialValue(loc)
  <2>1. ASSUME NEW i \in Regs PROVE Value(Reg(i)) = InitialValue(Reg(i))
    <3>1. Reg(i)[1] = "reg" /\ Reg(i)[2] = i BY DEF Reg
    <3> QED BY <3>1 DEF Value, InitialValue, Init
  <2>2. ASSUME NEW w \in WordAddrs PROVE Value(Mem(w)) = InitialValue(Mem(w))
    <3>1. Mem(w)[1] = "mem" /\ Mem(w)[2] = w BY DEF Mem
    <3> QED BY <3>1 DEF Value, InitialValue, Init
  <2> QED BY <2>1, <2>2 DEF Locations, Init
<1>3. AccessChain BY <1>1, TraceProperties
<1>4. TraceExplainsMachine BY <1>1, <1>2, TraceProperties DEF Quiet, LeftBy
<1> QED BY <1>3, <1>4 DEF Traced

\* Every step keeps them while the pointers of the calls are apart.
LEMMA NextTrace == IInv /\ Traced /\ PointersApart /\ [Next]_vars => Traced'
<1> SUFFICES ASSUME IInv, Traced, PointersApart, [Next]_vars PROVE Traced'
  OBVIOUS
<1>1. CASE \E t, n : Shape(t, n) BY <1>1, StepTrace DEF Traced, Shape
<1>2. CASE Silent
  <2>1. Ops' = Ops /\ (\A loc : Value(loc)' = Value(loc)) /\ latest' = latest /\ cycle' = cycle
    BY <1>2, SilentKeeps DEF Silent
  <2>2. AccessChain' BY <2>1, TraceProperties DEF Traced, AccessChain, Ops
  <2>3. TraceExplainsMachine' BY <2>1, TraceProperties DEF Traced, TraceExplainsMachine, Ops
  <2> QED BY <2>2, <2>3 DEF Traced
<1> QED BY <1>1, <1>2, NextCases

\* Every operation of the trace points to the one that really came last on its
\* location, provided no call has overlapping operands (track_access).
THEOREM OperationsChained == Spec /\ []PointersApart => []AccessChain
<1>1. Traced => AccessChain BY DEF Traced
<1> QED BY <1>1, InitInvariant, NextInvariant, InitTrace, NextTrace, PTL DEF Spec

\* What every register and every word of memory holds is what the trace says was
\* left there last, under the same condition (latest_accesses).
THEOREM MachineExplained == Spec /\ []PointersApart => []TraceExplainsMachine
<1>1. Traced => TraceExplainsMachine BY DEF Traced
<1> QED BY <1>1, InitInvariant, NextInvariant, InitTrace, NextTrace, PTL DEF Spec
-----------------------------------------------------------------------------
(***************************************************************************)
(* x0, the chain of steps and the end of a run.                            *)
(***************************************************************************)
ZeroInv ==
    /\ registers[0] = 0
    /\ \A op \in Ops : op.loc = Reg(0) => op.before = 0 /\ op.after = 0

\* ZeroRegister, of the operations of the trace.
LEMMA ZeroIs == ZeroRegister <=> ZeroInv
  BY DEF ZeroRegister, ZeroInv, Ops

\* Where x0 starts.
LEMMA InitZero == Init => ZeroInv
<1> SUFFICES ASSUME Init PROVE ZeroInv
  OBVIOUS
<1>1. Ops = {}
  <2>1. DOMAIN records = {} BY DEF Init
  <2> QED BY <2>1 DEF Ops, OpIndex
<1>2. registers[0] = 0 BY RegFacts DEF Init
<1> QED BY <1>1, <1>2 DEF ZeroInv

\* No step changes x0.
LEMMA NextZero == IInv /\ ZeroInv /\ [Next]_vars => ZeroInv'
<1> SUFFICES ASSUME IInv, ZeroInv, [Next]_vars PROVE ZeroInv'
  OBVIOUS
<1>1. ASSUME NEW touches, NEW next, Shape(touches, next) PROVE ZeroInv'
  <2>1. TypeOK /\ Fit(touches) /\ touches \in Seq(Touch) BY <1>1 DEF IInv, Shape, Fit
  <2>2. 0 \in Regs /\ Reg(0) \in Locations BY RegFacts, WordFacts
  <2>3. Value(Reg(0)) = 0 BY <2>1, <2>2, ValueType DEF ZeroInv
  <2>4. \A k \in DOMAIN touches :
           /\ Operations(touches)[k].loc = touches[k].loc
           /\ Operations(touches)[k].before = Value(touches[k].loc)
           /\ Operations(touches)[k].after = touches[k].after
    BY <2>1, OperationsType
  <2>5. \A k \in DOMAIN touches : touches[k].loc = Reg(0) => touches[k].after = 0
    BY <2>1, <2>3 DEF Fit
  <2>6. registers'[0] = 0
    <3>1. registers'[0] = NewValue(touches, Reg(0)) BY <1>1, <2>2 DEF Shape, Complete
    <3>2. CASE Touched(touches, Reg(0)) = {} BY <2>1, <2>2, <2>3, <3>1, <3>2, LatestIs
    <3>3. CASE Touched(touches, Reg(0)) # {}
      <4> DEFINE l == LastOf(Touched(touches, Reg(0)))
      <4>1. /\ l \in DOMAIN touches /\ touches[l].loc = Reg(0)
            /\ NewValue(touches, Reg(0)) = touches[l].after
        BY <2>1, <2>2, <3>3, LatestIs
      <4> QED BY <2>5, <3>1, <4>1
    <3> QED BY <3>2, <3>3
  <2>7. \A x : x \in Ops' <=> x \in Ops \/ \E j \in DOMAIN touches : x = Operations(touches)[j]
    BY <1>1, OpsAfter
  <2>8. ASSUME NEW op \in Ops', op.loc = Reg(0) PROVE op.before = 0 /\ op.after = 0
    <3>1. CASE op \in Ops BY <2>8, <3>1 DEF ZeroInv
    <3>2. CASE \E j \in DOMAIN touches : op = Operations(touches)[j]
      <4>1. PICK j \in DOMAIN touches : op = Operations(touches)[j] BY <3>2
      <4> QED BY <2>3, <2>4, <2>5, <2>8, <4>1
    <3> QED BY <2>7, <3>1, <3>2
  <2> QED BY <2>6, <2>8 DEF ZeroInv
<1>2. CASE Silent
  <2>1. Ops' = Ops /\ registers' = registers BY <1>2, SilentKeeps DEF Silent
  <2> QED BY <2>1 DEF ZeroInv
<1> QED BY <1>1, <1>2, NextCases

\* x0 is 0 and no operation on it changes it, whatever the program (rd_internal).
THEOREM ZeroStaysZero == Spec => []ZeroRegister
<1>1. ZeroInv => ZeroRegister BY ZeroIs
<1> QED BY <1>1, InitInvariant, NextInvariant, InitZero, NextZero, PTL DEF Spec

\* A run that goes on has not halted; one that halted did so in its last step,
\* which read the exit code; the returned public values are those of the machine.
IsHalt(rec) == rec.kind = "ECALL" /\ rec.ops[1].after = HaltCode
ChainInv ==
    /\ \A i \in DOMAIN records :
          /\ records[i].before = IF i = 1 THEN RomStart ELSE records[i - 1].after
          /\ records[i].cycle = 4 * i
          /\ IsHalt(records[i]) =>
                /\ i = Len(records) /\ status # "running"
                /\ records[i].ops[2].after = registers[10]
    /\ pc = IF records = <<>> THEN RomStart ELSE records[Len(records)].after
    /\ status = "returned" =>
          /\ output.end_pc = pc /\ output.end_cycle = cycle
          /\ output.exit_code = ExitCode

\* The steps that halted are those of the chain.
LEMMA HaltStepsAre ==
    ASSUME IInv, ChainInv
    PROVE  /\ HaltSteps = {i \in DOMAIN records : IsHalt(records[i])}
           /\ HaltSteps \subseteq {Len(records)}
           /\ HaltSteps # {} =>
                /\ HaltSteps = {Len(records)} /\ Len(records) \in DOMAIN records
                /\ LastOf(HaltSteps) = Len(records)
<1>1. HaltSteps = {i \in DOMAIN records : IsHalt(records[i])} BY DEF HaltSteps, IsHalt
<1>2. HaltSteps \subseteq {Len(records)} BY <1>1 DEF ChainInv
<1>3. ASSUME HaltSteps # {} PROVE LastOf(HaltSteps) = Len(records)
  <2>1. Len(records) \in Nat /\ DOMAIN records = 1 .. Len(records) BY LenProperties DEF IInv
  <2>2. HaltSteps \in SUBSET (1 .. Len(records)) BY <1>1, <2>1
  <2>3. LastOf(HaltSteps) \in HaltSteps BY <1>3, <2>1, <2>2, LastOfIs
  <2> QED BY <1>2, <2>3
<1> QED BY <1>1, <1>2, <1>3

\* Where the chain starts.
LEMMA InitChain == Init => ChainInv
  BY DEF Init, ChainInv

\* Every step prolongs the chain.
LEMMA NextChain == IInv /\ ChainInv /\ [Next]_vars => ChainInv'
<1> SUFFICES ASSUME IInv, ChainInv, [Next]_vars PROVE ChainInv'
  OBVIOUS
<1>1. ASSUME NEW touches, NEW next, Shape(touches, next) PROVE ChainInv'
  <2> DEFINE n == Len(records)
             new == records'[n + 1]
  <2>1. TypeOK /\ Fit(touches) /\ status = "running" /\ pc' = next /\ cycle = 4 * (n + 1)
    BY <1>1 DEF IInv, Shape, Complete, CanStep, ClockAhead
  <2>2. /\ n \in Nat /\ DOMAIN records = 1 .. n /\ Len(records') = n + 1
        /\ \A i \in 1 .. n : records'[i] = records[i]
        /\ records' \in Seq(StepRecord)
    BY <1>1, TraceAfter
  <2>3. /\ new.cycle = cycle /\ new.before = pc /\ new.after = next /\ new.kind = Insn.kind
        /\ new.ops = Operations(touches)
    <3>1. new = [cycle |-> cycle, before |-> pc, after |-> next,
                 kind |-> Insn.kind, ops |-> Operations(touches)]
      BY <1>1, TraceAfter
    <3> HIDE DEF new
    <3> QED BY <3>1
  <2>4. DOMAIN records' = 1 .. n + 1 BY <2>2, LenProperties
  <2> HIDE DEF n, new
  <2>5. \A i \in 1 .. n : ~IsHalt(records[i]) BY <2>1, <2>2 DEF ChainInv
  <2>6. records = <<>> <=> n = 0 BY <2>2, EmptySeq DEF n, IInv
  <2>7. ASSUME NEW i \in 1 .. n
        PROVE  /\ records'[i].before = IF i = 1 THEN RomStart ELSE records'[i - 1].after
               /\ records'[i].cycle = 4 * i
               /\ ~IsHalt(records'[i])
    <3>1. records'[i] = records[i] BY <2>2
    <3>2. i # 1 => i - 1 \in 1 .. n BY <2>2
    <3>3. i # 1 => records'[i - 1] = records[i - 1] BY <2>2, <3>2
    <3> QED BY <2>2, <2>5, <3>1, <3>3 DEF ChainInv
  <2>8. new.before = IF n + 1 = 1 THEN RomStart ELSE records'[n].after
    <3>1. CASE n = 0 BY <2>3, <2>6, <3>1 DEF ChainInv
    <3>2. CASE n # 0
      <4>1. n \in 1 .. n BY <2>2, <3>2
      <4>2. records'[n] = records[n] BY <2>2, <4>1
      <4>3. pc = records[n].after BY <2>6, <3>2 DEF ChainInv, n
      <4> QED BY <2>2, <2>3, <3>2, <4>2, <4>3
    <3> QED BY <3>1, <3>2
  <2>9. ASSUME IsHalt(new)
        PROVE  status' # "running" /\ new.ops[2].after = registers'[10]
    <3>1. 1 \in DOMAIN touches BY <2>1 DEF Fit
    <3>2. \A k \in DOMAIN touches : Operations(touches)[k].after = touches[k].after
      BY <2>1, OperationsType
    <3>3. Insn.kind = "ECALL" /\ touches[1].after = HaltCode
      BY <2>3, <2>9, <3>1, <3>2 DEF IsHalt
    <3>4. /\ status' = "halted" /\ 2 \in DOMAIN touches
          /\ touches[2].after = NewValue(touches, Reg(10))
      BY <1>1, <3>3 DEF Shape
    <3>5. registers'[10] = NewValue(touches, Reg(10)) BY <1>1, RegFacts DEF Shape, Complete
    <3> QED BY <2>3, <3>2, <3>4, <3>5
  <2>10. ASSUME NEW i \in DOMAIN records'
         PROVE  /\ records'[i].before = IF i = 1 THEN RomStart ELSE records'[i - 1].after
                /\ records'[i].cycle = 4 * i
                /\ IsHalt(records'[i]) =>
                      /\ i = Len(records') /\ status' # "running"
                      /\ records'[i].ops[2].after = registers'[10]
    <3>1. CASE i = n + 1
      <4>1. records'[i] = new /\ i - 1 = n BY <2>2, <3>1 DEF new
      <4>2. new.cycle = 4 * i BY <2>1, <2>3, <3>1
      <4> QED BY <2>2, <2>8, <2>9, <3>1, <4>1, <4>2
    <3>2. CASE i # n + 1
      <4>1. i \in 1 .. n BY <2>2, <2>4, <3>2
      <4> QED BY <2>7, <4>1
    <3> QED BY <3>1, <3>2
  <2>11. pc' = records'[Len(records')].after BY <2>1, <2>2, <2>3 DEF new
  <2>12. records' # <<>> BY <2>2, EmptySeq
  <2>13. status' # "returned" BY <1>1, <2>1 DEF Shape
  <2> QED BY <2>10, <2>11, <2>12, <2>13 DEF ChainInv, IsHalt
<1>2. CASE Silent /\ status' \in {status, "failed"} /\ output' = output
  <2>1. ExitCode' = ExitCode BY <1>2 DEF Silent, ExitCode, HaltSteps
  <2> QED BY <1>2, <2>1 DEF ChainInv, Silent, IsHalt
<1>3. CASE Silent /\ Return
  <2>1. ExitCode' = ExitCode BY <1>3 DEF Silent, ExitCode, HaltSteps
  <2>2. /\ output'.end_pc = pc /\ output'.end_cycle = cycle /\ output'.exit_code = ExitCode
        /\ status' = "returned"
    BY <1>3 DEF Return
  <2> QED BY <1>3, <2>1, <2>2 DEF ChainInv, Silent, IsHalt
<1> QED BY <1>1, <1>2, <1>3, NextCases

\* The steps are one chain of (pc, cycle) from the entry point to the public end,
\* and a HALT is the last of them (the global state of the circuits).
THEOREM OneChain == Spec => []StepsChain
<1>1. IInv /\ ChainInv => StepsChain
  <2> SUFFICES ASSUME IInv, ChainInv PROVE StepsChain
    OBVIOUS
  <2>1. Len(records) \in Nat /\ cycle = 4 * (Len(records) + 1)
    BY LenProperties DEF IInv, ClockAhead
  <2>2. \A i \in DOMAIN records : i < Len(records) => i \notin HaltSteps
    BY <2>1, HaltStepsAre
  <2> QED BY <2>1, <2>2 DEF StepsChain, ChainInv
<1> QED BY <1>1, InitInvariant, NextInvariant, InitChain, NextChain, PTL DEF Spec

\* A run that returns has an exit code exactly when its last step was a HALT, and
\* the code is what a0 held then and still holds (emulate_program).
THEOREM ExitCodeIsHalt == Spec => []ExitCodeOfHalt
<1>1. IInv /\ ChainInv => ExitCodeOfHalt
  <2> SUFFICES ASSUME IInv, ChainInv, status = "returned"
               PROVE  /\ output.exit_code # <<>> <=> Len(records) \in HaltSteps
                      /\ output.exit_code # <<>> => output.exit_code = <<registers[RegArg0]>>
    BY DEF ExitCodeOfHalt
  <2>1. output.exit_code = ExitCode BY DEF ChainInv
  <2>2. CASE HaltSteps = {} BY <2>1, <2>2 DEF ExitCode
  <2>3. CASE HaltSteps # {}
    <3>1. /\ HaltSteps = {Len(records)} /\ Len(records) \in DOMAIN records
          /\ LastOf(HaltSteps) = Len(records) /\ IsHalt(records[Len(records)])
      BY <2>3, HaltStepsAre
    <3>2. records[Len(records)].ops[2].after = registers[10] BY <3>1 DEF ChainInv
    <3>3. ExitCode = <<registers[10]>> BY <2>3, <3>1, <3>2 DEF ExitCode
    <3> QED BY <2>1, <3>1, <3>3
  <2> QED BY <2>2, <2>3
<1> QED BY <1>1, InitInvariant, NextInvariant, InitChain, NextChain, PTL DEF Spec

-----------------------------------------------------------------------------
(***************************************************************************)
(* The machine a guest sees: Emulator implements RiscvMachine.             *)
(***************************************************************************)
\* What one instruction leaves where all but one of its touches are reads, and
\* none after that one is of its location.
LEMMA OneWrite ==
    ASSUME TypeOK, NEW touches, NEW next, touches \in Seq(Touch), Complete(touches, next),
           NEW n \in DOMAIN touches,
           \A k \in DOMAIN touches : k # n => touches[k].after = Value(touches[k].loc),
           \A k \in DOMAIN touches : k > n => touches[k].loc # touches[n].loc
    PROVE  /\ \A i \in Regs :
                registers'[i] = IF touches[n].loc = Reg(i) THEN touches[n].after ELSE registers[i]
           /\ memory' = [w \in WordAddrs |->
                           IF touches[n].loc = Mem(w) THEN touches[n].after ELSE memory[w]]
<1>1. ASSUME NEW loc \in Locations
      PROVE  NewValue(touches, loc) =
               IF touches[n].loc = loc THEN touches[n].after ELSE Value(loc)
  <2> DEFINE t == Touched(touches, loc)
             m == LastOf(t)
  <2>1. Len(touches) \in Nat /\ DOMAIN touches = 1 .. Len(touches) BY TouchedIs
  <2>2. t = {j \in DOMAIN touches : touches[j].loc = loc} BY TouchedIs
  <2>3. CASE t = {} BY <2>2, <2>3, LatestIs
  <2>4. CASE t # {}
    <3>1. /\ m \in DOMAIN touches /\ touches[m].loc = loc
          /\ \A j \in DOMAIN touches : touches[j].loc = loc => j <= m
          /\ NewValue(touches, loc) = touches[m].after
      BY <2>4, LatestIs
    <3> HIDE DEF m, t
    <3>2. CASE touches[n].loc = loc
      <4>1. n <= m BY <3>1, <3>2
      <4>2. ~(m > n) BY <3>1, <3>2
      <4>3. m = n BY <2>1, <3>1, <4>1, <4>2
      <4> QED BY <3>1, <3>2, <4>3
    <3>3. CASE touches[n].loc # loc
      <4>1. m # n BY <3>1, <3>3
      <4> QED BY <3>1, <3>3, <4>1
    <3> QED BY <3>2, <3>3
  <2> QED BY <2>3, <2>4
<1>2. registers' = [i \in Regs |-> NewValue(touches, Reg(i))]
      /\ memory' = [w \in WordAddrs |-> NewValue(touches, Mem(w))]
  BY DEF Complete
<1>3. ASSUME NEW i \in Regs
      PROVE  registers'[i] = IF touches[n].loc = Reg(i) THEN touches[n].after ELSE registers[i]
  <2>1. Reg(i) \in Locations /\ Value(Reg(i)) = registers[i] BY WordFacts, ValueType
  <2>2. registers'[i] = NewValue(touches, Reg(i)) BY <1>2
  <2> QED BY <1>1, <2>1, <2>2
<1>4. ASSUME NEW w \in WordAddrs
      PROVE  NewValue(touches, Mem(w)) =
               IF touches[n].loc = Mem(w) THEN touches[n].after ELSE memory[w]
  <2>1. Mem(w) \in Locations /\ Value(Mem(w)) = memory[w] BY WordFacts, ValueType
  <2> QED BY <1>1, <2>1
<1> QED BY <1>2, <1>3, <1>4

\* A register other than x0 is the one of its name, and a location of memory is
\* the word of its address.
LEMMA LocationsDiffer ==
    /\ \A i, j : Reg(i) = Reg(j) => i = j
    /\ \A v, w : Mem(v) = Mem(w) => v = w
    /\ \A i, w : Reg(i) # Mem(w)
    /\ \A rd \in Names, i \in Names \ {0} : Reg(RdInternal(rd)) = Reg(i) <=> i = rd
<1>1. \A i : Reg(i)[1] = "reg" /\ Reg(i)[2] = i BY DEF Reg
<1>2. \A w : Mem(w)[1] = "mem" /\ Mem(w)[2] = w BY DEF Mem
<1>3. \A i, j : Reg(i) = Reg(j) => i = j
  <2> SUFFICES ASSUME NEW i, NEW j, Reg(i) = Reg(j) PROVE i = j
    OBVIOUS
  <2>1. Reg(i)[2] = i /\ Reg(j)[2] = j BY <1>1
  <2> QED BY <2>1
<1>4. \A v, w : Mem(v) = Mem(w) => v = w
  <2> SUFFICES ASSUME NEW v, NEW w, Mem(v) = Mem(w) PROVE v = w
    OBVIOUS
  <2>1. Mem(v)[2] = v /\ Mem(w)[2] = w BY <1>2
  <2> QED BY <2>1
<1>5. \A i, w : Reg(i) # Mem(w)
  <2> SUFFICES ASSUME NEW i, NEW w PROVE Reg(i) # Mem(w)
    OBVIOUS
  <2>1. Reg(i)[1] = "reg" /\ Mem(w)[1] = "mem" BY <1>1, <1>2
  <2> QED BY <2>1
<1>6. \A rd \in Names, i \in Names \ {0} : Reg(RdInternal(rd)) = Reg(i) <=> i = rd
  <2>1. \A rd \in Names, i \in Names \ {0} : RdInternal(rd) = i <=> i = rd
    BY DEF Names, RdInternal
  <2> QED BY <1>3, <2>1
<1> QED BY <1>3, <1>4, <1>5, <1>6

\* The registers and the memory of RiscvMachine.
X == [i \in Names \ {0} |-> registers[i]]
SameX == \A i \in Names \ {0} : registers'[i] = registers[i]
SetX(rd, v) == \A i \in Names \ {0} : registers'[i] = IF i = rd THEN v ELSE registers[i]

\* How they change.
LEMMA XChanges ==
    /\ SameX => X' = X
    /\ \A rd, v : SetX(rd, v) => X' = [i \in DOMAIN X |-> IF i = rd THEN v ELSE X[i]]
  BY DEF SameX, SetX, X

\* An instruction that ends with a write to its destination register.
LEMMA WritesRd ==
    ASSUME TypeOK, program \in Programs, Fetched \in DOMAIN program,
           NEW touches, NEW next, touches \in Seq(Touch), Complete(touches, next),
           NEW v \in Words, NEW n \in DOMAIN touches, touches[n] = WriteRd(v), n = Len(touches),
           \A k \in DOMAIN touches : k # n => touches[k].after = Value(touches[k].loc)
    PROVE  SetX(Insn.rd, v) /\ memory' = memory
<1>1. Insn.rd \in Names /\ Insn.rd \in Regs BY InsnType
<1>2. RdInternal(Insn.rd) \in Regs BY <1>1, RegFacts
<1>3. touches[n].loc = Reg(RdInternal(Insn.rd)) /\ touches[n].after = v BY DEF WriteRd, Write
<1>4. \A k \in DOMAIN touches : ~(k > n) BY LenProperties
<1>5. /\ \A i \in Regs :
           registers'[i] = IF touches[n].loc = Reg(i) THEN touches[n].after ELSE registers[i]
      /\ memory' = [w \in WordAddrs |->
                      IF touches[n].loc = Mem(w) THEN touches[n].after ELSE memory[w]]
  BY <1>4, OneWrite
<1>6. SetX(Insn.rd, v) BY <1>1, <1>3, <1>5, LocationsDiffer DEF SetX, Names
<1>7. memory' = [w \in WordAddrs |-> memory[w]] BY <1>3, <1>5, LocationsDiffer
<1>8. memory = [w \in WordAddrs |-> memory[w]] BY DEF TypeOK
<1> QED BY <1>6, <1>7, <1>8

\* An instruction that writes nothing, but perhaps to RD_NULL.
LEMMA WritesNothing ==
    ASSUME TypeOK, NEW touches, NEW next, touches \in Seq(Touch), Complete(touches, next),
           NEW n \in DOMAIN touches, NEW i \in Regs, touches[n].loc = Reg(i),
           i = RD_NULL \/ touches[n].after = Value(touches[n].loc),
           \A k \in DOMAIN touches : k # n => touches[k].after = Value(touches[k].loc),
           \A k \in DOMAIN touches : k > n => touches[k].loc # touches[n].loc
    PROVE  SameX /\ memory' = memory
<1>1. /\ \A j \in Regs :
           registers'[j] = IF touches[n].loc = Reg(j) THEN touches[n].after ELSE registers[j]
      /\ memory' = [w \in WordAddrs |->
                      IF touches[n].loc = Mem(w) THEN touches[n].after ELSE memory[w]]
  BY OneWrite
<1>2. ASSUME NEW j \in Names \ {0} PROVE registers'[j] = registers[j]
  <2>1. j \in Regs /\ j # 32 BY DEF Names
  <2>2. CASE i = j
    <3>1. touches[n].after = Value(Reg(j)) BY <2>1, <2>2
    <3>2. Value(Reg(j)) = registers[j] BY <2>1, ValueType
    <3> QED BY <1>1, <2>1, <2>2, <3>1, <3>2
  <2>3. CASE i # j
    <3>1. Reg(i) # Reg(j) BY <2>3, LocationsDiffer
    <3> QED BY <1>1, <2>1, <3>1
  <2> QED BY <2>2, <2>3
<1>3. memory' = [w \in WordAddrs |-> memory[w]] BY <1>1, LocationsDiffer
<1>4. memory = [w \in WordAddrs |-> memory[w]] BY DEF TypeOK
<1> QED BY <1>2, <1>3, <1>4 DEF SameX

\* A register of the machine, x0 included.
LEMMA XIs ==
    ASSUME registers[0] = 0, NEW i \in Names
    PROVE  Machine!X(i) = registers[i]
  BY DEF Machine!X

\* What an instruction reads and computes is what the machine's reads and computes.
LEMMA SameTerms ==
    ASSUME IInv, ZeroInv, CanStep, Fetched \in DOMAIN program
    PROVE  /\ Machine!Fetchable /\ Machine!Insn = Insn /\ MachineState = "running"
           /\ \A kind : Machine!Runs(kind) <=> Insn.kind = kind
           /\ Machine!X(Insn.rs1) = Rs1 /\ Machine!X(Insn.rs2) = Rs2
           /\ \A b : Machine!Plus(b) = Offset(b)
           /\ Machine!Following = NextInsn
           /\ Machine!X(5) = Function
           /\ Machine!X(10) = Pointers[1] /\ Machine!X(11) = Pointers[2]
<1>1. registers[0] = 0 /\ program \in Programs BY DEF IInv, ZeroInv
<1>2. Insn.rs1 \in Names /\ Insn.rs2 \in Names BY <1>1, InsnType
<1>3. 5 \in Names /\ 10 \in Names /\ 11 \in Names BY RegFacts DEF Names
<1>4. Machine!Fetched = Fetched BY DEF Machine!Fetched, Fetched
<1>5. Machine!Fetchable BY <1>4 DEF Machine!Fetchable
<1>6. Machine!Insn = Insn BY <1>4 DEF Machine!Insn, Insn
<1>7. MachineState = "running" BY DEF CanStep, MachineState
<1>8. \A kind : Machine!Runs(kind) <=> Insn.kind = kind BY <1>5, <1>6, <1>7 DEF Machine!Runs
<1>9. Machine!X(Insn.rs1) = Rs1 /\ Machine!X(Insn.rs2) = Rs2
  BY <1>1, <1>2, XIs DEF Rs1, Rs2
<1>10. \A b : Machine!Plus(b) = Offset(b) BY <1>6 DEF Machine!Plus, Offset
<1>11. Machine!Following = NextInsn BY DEF Machine!Following, NextInsn
<1>12. Machine!X(5) = registers[5] /\ Machine!X(10) = registers[10] /\ Machine!X(11) = registers[11]
  BY <1>1, <1>3, XIs
<1> QED BY <1>5, <1>6, <1>7, <1>8, <1>9, <1>10, <1>11, <1>12 DEF Function, Pointers

\* Where a jump or a branch leads, which data an instruction accesses, and which
\* call it makes.
LEMMA SameConditions ==
    ASSUME IInv, ZeroInv, CanStep, Fetched \in DOMAIN program
    PROVE  /\ Insn.kind = "JAL" => Machine!Target = Offset(pc)
           /\ Insn.kind = "JALR" => Machine!Target = EvenTarget
           /\ Insn.kind = "BEQ" => Machine!Target = BranchTarget
           /\ Machine!TargetOK <=> Aligned(Machine!Target) /\ Machine!Target # pc
           /\ Machine!Address = DataAddr
           /\ Machine!AddressOK <=> CanRead(DataAddr) /\ Aligned(DataAddr)
           /\ Machine!Function = Function
           /\ Machine!Known <=> KnownCall
           /\ Machine!Accepted <=> CallAccepted
<1>1. /\ Machine!Insn = Insn
      /\ Machine!X(Insn.rs1) = Rs1 /\ Machine!X(Insn.rs2) = Rs2
      /\ \A b : Machine!Plus(b) = Offset(b)
      /\ Machine!Following = NextInsn
      /\ Machine!X(5) = Function
      /\ Machine!X(10) = Pointers[1] /\ Machine!X(11) = Pointers[2]
  BY SameTerms
<1>2. Insn.kind = "JAL" => Machine!Target = Offset(pc) BY <1>1 DEF Machine!Target
<1>3. Insn.kind = "JALR" => Machine!Target = EvenTarget BY <1>1 DEF Machine!Target, EvenTarget
<1>4. Insn.kind = "BEQ" => Machine!Target = BranchTarget BY <1>1 DEF Machine!Target, BranchTarget
<1>5. Machine!TargetOK <=> Aligned(Machine!Target) /\ Machine!Target # pc
  BY DEF Machine!TargetOK, Aligned
<1>6. Machine!Address = DataAddr BY <1>1 DEF Machine!Address, DataAddr
<1>7. DataAddr \in Words BY AddressFacts DEF IInv
<1>8. Machine!AddressOK <=> CanRead(DataAddr) /\ Aligned(DataAddr)
  BY <1>6, <1>7 DEF Machine!AddressOK, Aligned
<1>9. Machine!Function = Function BY <1>1 DEF Machine!Function
<1>10. Machine!Known <=> KnownCall BY <1>9 DEF Machine!Known, KnownCall
<1>11. Machine!Accepted <=> CallAccepted
  BY <1>1, <1>9 DEF Machine!Accepted, CallAccepted, Aligned
<1> QED BY <1>2, <1>3, <1>4, <1>5, <1>6, <1>8, <1>9, <1>10, <1>11

\* A step that does not end the run leads the machine to its next instruction.
LEMMA SameNext ==
    ASSUME IInv, CanStep, NEW touches, NEW next, Step(touches, next)
    PROVE  Machine!GoTo(next) /\ Complete(touches, next)
<1>1. Complete(touches, next) /\ status' = status BY DEF Step
<1>2. status = "running" BY DEF CanStep
<1>3. MachineState' = "running" /\ MachineState = "running" BY <1>1, <1>2 DEF MachineState
<1>4. pc' = next /\ UNCHANGED inputs BY <1>1 DEF Complete
<1> QED BY <1>1, <1>3, <1>4 DEF Machine!GoTo, Machine!inputs, inputs

\* step_compute: ADD and ADDI.
LEMMA ComputeSame ==
    ASSUME IInv, ZeroInv, Compute PROVE Machine!Compute
<1>1. TypeOK /\ program \in Programs BY DEF IInv
<1>2. CASE Fetch("ADD")
           /\ Step(<<ReadRs1, ReadRs2, WriteRd((Rs1 + Rs2) % Modulus)>>, NextInsn)
  <2> DEFINE v == (Rs1 + Rs2) % Modulus
             s == <<ReadRs1, ReadRs2, WriteRd(v)>>
  <2>1. CanStep /\ Fetched \in DOMAIN program /\ Insn.kind = "ADD" BY <1>2, FetchIs
  <2>2. v \in Words BY <1>1, <2>1, AddressFacts
  <2>3. /\ ReadRs1 \in Touch /\ ReadRs1.after = Value(ReadRs1.loc)
        /\ ReadRs2 \in Touch /\ ReadRs2.after = Value(ReadRs2.loc)
        /\ WriteRd(v) \in Touch
    BY <1>1, <2>1, <2>2, RegisterTouches DEF Sound
  <2>4. Step(s, NextInsn) BY <1>2
  <2>5. Machine!GoTo(NextInsn) /\ Complete(s, NextInsn) BY <2>1, <2>4, SameNext
  <2> HIDE DEF v
  <2>6. /\ s \in Seq(Touch) /\ Len(s) = 3 /\ DOMAIN s = {1, 2, 3}
        /\ s[1] = ReadRs1 /\ s[2] = ReadRs2 /\ s[3] = WriteRd(v)
    BY <2>3
  <2> HIDE DEF s
  <2>7. SetX(Insn.rd, v) /\ memory' = memory
    <3>1. \A k \in DOMAIN s : k # 3 => s[k].after = Value(s[k].loc) BY <2>3, <2>6
    <3>2. 3 \in DOMAIN s /\ s[3] = WriteRd(v) /\ 3 = Len(s) BY <2>6
    <3> QED BY <1>1, <2>1, <2>2, <2>5, <2>6, <3>1, <3>2, WritesRd
  <2>8. X' = [i \in DOMAIN X |-> IF i = Insn.rd THEN v ELSE X[i]] BY <2>7, XChanges
  <2>9. /\ Machine!Insn = Insn /\ Machine!Runs("ADD") /\ Machine!Following = NextInsn
        /\ Machine!X(Insn.rs1) = Rs1 /\ Machine!X(Insn.rs2) = Rs2
    BY <2>1, SameTerms
  <2> QED BY <2>5, <2>7, <2>8, <2>9 DEF Machine!Compute, Machine!Set, Machine!GoTo, X, v
<1>3. CASE Fetch("ADDI") /\ Step(<<ReadRs1, WriteRd(Offset(Rs1))>>, NextInsn)
  <2> DEFINE v == Offset(Rs1)
             s == <<ReadRs1, WriteRd(v)>>
  <2>1. CanStep /\ Fetched \in DOMAIN program /\ Insn.kind = "ADDI" BY <1>3, FetchIs
  <2>2. v \in Words BY <1>1, <2>1, AddressFacts, RegisterTouches
  <2>3. /\ ReadRs1 \in Touch /\ ReadRs1.after = Value(ReadRs1.loc)
        /\ WriteRd(v) \in Touch
    BY <1>1, <2>1, <2>2, RegisterTouches DEF Sound
  <2>4. Step(s, NextInsn) BY <1>3
  <2>5. Machine!GoTo(NextInsn) /\ Complete(s, NextInsn) BY <2>1, <2>4, SameNext
  <2> HIDE DEF v
  <2>6. /\ s \in Seq(Touch) /\ Len(s) = 2 /\ DOMAIN s = {1, 2}
        /\ s[1] = ReadRs1 /\ s[2] = WriteRd(v)
    BY <2>3
  <2> HIDE DEF s
  <2>7. SetX(Insn.rd, v) /\ memory' = memory BY <1>1, <2>1, <2>2, <2>3, <2>5, <2>6, WritesRd
  <2>8. X' = [i \in DOMAIN X |-> IF i = Insn.rd THEN v ELSE X[i]] BY <2>7, XChanges
  <2>9. /\ Machine!Insn = Insn /\ Machine!Runs("ADDI") /\ Machine!Following = NextInsn
        /\ Machine!X(Insn.rs1) = Rs1 /\ Machine!Plus(Rs1) = Offset(Rs1)
    BY <2>1, SameTerms
  <2> QED BY <2>5, <2>7, <2>8, <2>9 DEF Machine!Compute, Machine!Set, Machine!GoTo, X, v
<1> QED BY <1>2, <1>3 DEF Compute

\* step_compute: JAL and JALR.
LEMMA JumpSame ==
    ASSUME IInv, ZeroInv, Jump PROVE Machine!Jump
<1>1. TypeOK /\ program \in Programs BY DEF IInv
<1>2. CASE Fetch("JAL") /\ Aligned(Offset(pc)) /\ Step(<<WriteRd(NextInsn)>>, Offset(pc))
  <2> DEFINE s == <<WriteRd(NextInsn)>>
  <2>1. CanStep /\ Fetched \in DOMAIN program /\ Insn.kind = "JAL" BY <1>2, FetchIs
  <2>2. NextInsn \in Words BY <1>1, <2>1, AddressFacts
  <2>3. WriteRd(NextInsn) \in Touch BY <1>1, <2>1, <2>2, RegisterTouches DEF Sound
  <2>4. Step(s, Offset(pc)) BY <1>2
  <2>5. Machine!GoTo(Offset(pc)) /\ Complete(s, Offset(pc)) BY <2>1, <2>4, SameNext
  <2>6. s \in Seq(Touch) /\ Len(s) = 1 /\ DOMAIN s = {1} /\ s[1] = WriteRd(NextInsn) BY <2>3
  <2> HIDE DEF s
  <2>7. SetX(Insn.rd, NextInsn) /\ memory' = memory
    BY <1>1, <2>1, <2>2, <2>5, <2>6, WritesRd
  <2>8. X' = [i \in DOMAIN X |-> IF i = Insn.rd THEN NextInsn ELSE X[i]] BY <2>7, XChanges
  <2>9. Machine!Insn = Insn /\ Machine!Runs("JAL") /\ Machine!Following = NextInsn
    BY <2>1, SameTerms
  <2>10. Machine!Target = Offset(pc) /\ Machine!TargetOK
    BY <1>2, <2>1, <2>4, SameConditions DEF Step
  <2> QED BY <2>5, <2>7, <2>8, <2>9, <2>10 DEF Machine!Jump, Machine!Set, Machine!GoTo, X
<1>3. CASE Fetch("JALR") /\ Aligned(EvenTarget)
           /\ Step(<<ReadRs1, WriteRd(NextInsn)>>, EvenTarget)
  <2> DEFINE s == <<ReadRs1, WriteRd(NextInsn)>>
  <2>1. CanStep /\ Fetched \in DOMAIN program /\ Insn.kind = "JALR" BY <1>3, FetchIs
  <2>2. NextInsn \in Words BY <1>1, <2>1, AddressFacts
  <2>3. /\ ReadRs1 \in Touch /\ ReadRs1.after = Value(ReadRs1.loc)
        /\ WriteRd(NextInsn) \in Touch
    BY <1>1, <2>1, <2>2, RegisterTouches DEF Sound
  <2>4. Step(s, EvenTarget) BY <1>3
  <2>5. Machine!GoTo(EvenTarget) /\ Complete(s, EvenTarget) BY <2>1, <2>4, SameNext
  <2>6. /\ s \in Seq(Touch) /\ Len(s) = 2 /\ DOMAIN s = {1, 2}
        /\ s[1] = ReadRs1 /\ s[2] = WriteRd(NextInsn)
    BY <2>3
  <2> HIDE DEF s
  <2>7. SetX(Insn.rd, NextInsn) /\ memory' = memory
    BY <1>1, <2>1, <2>2, <2>3, <2>5, <2>6, WritesRd
  <2>8. X' = [i \in DOMAIN X |-> IF i = Insn.rd THEN NextInsn ELSE X[i]] BY <2>7, XChanges
  <2>9. Machine!Insn = Insn /\ Machine!Runs("JALR") /\ Machine!Following = NextInsn
    BY <2>1, SameTerms
  <2>10. Machine!Target = EvenTarget /\ Machine!TargetOK
    BY <1>3, <2>1, <2>4, SameConditions DEF Step
  <2> QED BY <2>5, <2>7, <2>8, <2>9, <2>10 DEF Machine!Jump, Machine!Set, Machine!GoTo, X
<1> QED BY <1>2, <1>3 DEF Jump

\* step_branch.
LEMMA BranchSame ==
    ASSUME IInv, ZeroInv, Branch PROVE Machine!Branch
<1> DEFINE s == <<ReadRs1, ReadRs2>>
<1>1. TypeOK /\ program \in Programs BY DEF IInv
<1>2. CanStep /\ Fetched \in DOMAIN program /\ Insn.kind = "BEQ" BY FetchIs DEF Branch
<1>3. /\ ReadRs1 \in Touch /\ ReadRs1.after = Value(ReadRs1.loc)
      /\ ReadRs2 \in Touch /\ ReadRs2.after = Value(ReadRs2.loc)
      /\ \E i \in Regs : ReadRs2.loc = Reg(i)
  BY <1>1, <1>2, RegisterTouches DEF Sound
<1>4. Step(s, BranchTarget) /\ Aligned(BranchTarget) BY DEF Branch
<1>5. Machine!GoTo(BranchTarget) /\ Complete(s, BranchTarget) BY <1>2, <1>4, SameNext
<1>6. s \in Seq(Touch) /\ DOMAIN s = {1, 2} /\ s[1] = ReadRs1 /\ s[2] = ReadRs2 BY <1>3
<1> HIDE DEF s
<1>7. SameX /\ memory' = memory
  <2>1. PICK i \in Regs : ReadRs2.loc = Reg(i) BY <1>3
  <2>2. /\ \A k \in DOMAIN s : k # 2 => s[k].after = Value(s[k].loc)
        /\ \A k \in DOMAIN s : k > 2 => s[k].loc # s[2].loc
        /\ s[2].loc = Reg(i) /\ s[2].after = Value(s[2].loc) /\ 2 \in DOMAIN s
    BY <1>3, <1>6, <2>1
  <2> QED BY <1>1, <1>5, <1>6, <2>2, WritesNothing
<1>8. X' = X BY <1>7, XChanges
<1>9. Machine!Runs("BEQ") BY <1>2, SameTerms
<1>10. Machine!Target = BranchTarget /\ Machine!TargetOK
  BY <1>2, <1>4, SameConditions DEF Step
<1> QED BY <1>5, <1>7, <1>8, <1>9, <1>10 DEF Machine!Branch, Machine!GoTo, X

\* step_load.
LEMMA LoadSame ==
    ASSUME IInv, ZeroInv, Load PROVE Machine!Load
<1> DEFINE w == WAddr(DataAddr)
           v == Value(Mem(w))
           s == <<ReadRs1, Read(Mem(w), MEM), WriteRd(v)>>
<1>1. TypeOK /\ program \in Programs BY DEF IInv
<1>2. CanStep /\ Fetched \in DOMAIN program /\ Insn.kind = "LW" BY FetchIs DEF Load
<1>3. w \in WordAddrs BY <1>1, <1>2, AddressFacts, WordFacts
<1>4. Step(s, NextInsn) /\ CanRead(DataAddr) /\ Aligned(DataAddr) BY DEF Load
<1>5. w = DataAddr \div 4 BY DEF WAddr
<1> HIDE DEF w
<1>6. Mem(w) \in Locations /\ v \in Words /\ v = memory[w] BY <1>1, <1>3, WordFacts, ValueType
<1> HIDE DEF v
<1>7. /\ ReadRs1 \in Touch /\ ReadRs1.after = Value(ReadRs1.loc)
      /\ WriteRd(v) \in Touch
  BY <1>1, <1>2, <1>6, RegisterTouches DEF Sound
<1>8. /\ Read(Mem(w), MEM) \in Touch
      /\ Read(Mem(w), MEM).after = Value(Read(Mem(w), MEM).loc)
  BY <1>1, <1>6, ReadIs
<1>9. Machine!GoTo(NextInsn) /\ Complete(s, NextInsn) BY <1>2, <1>4, SameNext
<1>10. /\ s \in Seq(Touch) /\ Len(s) = 3 /\ DOMAIN s = {1, 2, 3}
       /\ s[1] = ReadRs1 /\ s[2] = Read(Mem(w), MEM) /\ s[3] = WriteRd(v)
  BY <1>7, <1>8
<1> HIDE DEF s
<1>11. SetX(Insn.rd, v) /\ memory' = memory
  <2>1. \A k \in DOMAIN s : k # 3 => s[k].after = Value(s[k].loc) BY <1>7, <1>8, <1>10
  <2>2. 3 \in DOMAIN s /\ s[3] = WriteRd(v) /\ 3 = Len(s) BY <1>10
  <2> QED BY <1>1, <1>2, <1>6, <1>9, <1>10, <2>1, <2>2, WritesRd
<1>12. X' = [i \in DOMAIN X |-> IF i = Insn.rd THEN v ELSE X[i]] BY <1>11, XChanges
<1>13. Machine!Insn = Insn /\ Machine!Runs("LW") /\ Machine!Following = NextInsn
  BY <1>2, SameTerms
<1>14. Machine!Address = DataAddr /\ Machine!AddressOK BY <1>2, <1>4, SameConditions
<1> QED BY <1>5, <1>6, <1>9, <1>11, <1>12, <1>13, <1>14
        DEF Machine!Load, Machine!Set, Machine!GoTo, X

\* step_store.
LEMMA StoreSame ==
    ASSUME IInv, ZeroInv, Store PROVE Machine!Store
<1> DEFINE w == WAddr(DataAddr)
           c == Write(Mem(w), MEM, Rs2)
           s == <<ReadRs1, ReadRs2, c>>
<1>1. TypeOK /\ program \in Programs BY DEF IInv
<1>2. CanStep /\ Fetched \in DOMAIN program /\ Insn.kind = "SW" BY FetchIs DEF Store
<1>3. w \in WordAddrs BY <1>1, <1>2, AddressFacts, WordFacts
<1>4. Step(s, NextInsn) /\ CanRead(DataAddr) /\ Aligned(DataAddr) BY DEF Store, CanWrite
<1>5. w = DataAddr \div 4 BY DEF WAddr
<1> HIDE DEF w
<1>6. Mem(w) \in Locations /\ Rs2 \in Words BY <1>1, <1>2, <1>3, WordFacts, RegisterTouches
<1>7. /\ ReadRs1 \in Touch /\ ReadRs1.after = Value(ReadRs1.loc)
      /\ ReadRs2 \in Touch /\ ReadRs2.after = Value(ReadRs2.loc)
  BY <1>1, <1>2, RegisterTouches DEF Sound
<1>8. c \in Touch /\ c.loc = Mem(w) /\ c.after = Rs2 BY <1>6, WriteIs
<1> HIDE DEF c
<1>9. Machine!GoTo(NextInsn) /\ Complete(s, NextInsn) BY <1>2, <1>4, SameNext
<1>10. s \in Seq(Touch) /\ DOMAIN s = {1, 2, 3} /\ s[1] = ReadRs1 /\ s[2] = ReadRs2 /\ s[3] = c
  BY <1>7, <1>8
<1> HIDE DEF s
<1>11. /\ \A i \in Regs :
            registers'[i] = IF s[3].loc = Reg(i) THEN s[3].after ELSE registers[i]
       /\ memory' = [u \in WordAddrs |->
                       IF s[3].loc = Mem(u) THEN s[3].after ELSE memory[u]]
  <2>1. \A k \in DOMAIN s : k # 3 => s[k].after = Value(s[k].loc) BY <1>7, <1>10
  <2>2. 3 \in DOMAIN s /\ \A k \in DOMAIN s : k > 3 => s[k].loc # s[3].loc BY <1>10
  <2> QED BY <1>1, <1>9, <1>10, <2>1, <2>2, OneWrite
<1>12. SameX BY <1>8, <1>10, <1>11, LocationsDiffer DEF SameX, Names
<1>13. memory' = [memory EXCEPT ![w] = Rs2]
  <2>1. memory' = [u \in WordAddrs |-> IF u = w THEN Rs2 ELSE memory[u]]
    BY <1>8, <1>10, <1>11, LocationsDiffer
  <2>2. memory \in [WordAddrs -> Words] BY <1>1 DEF TypeOK
  <2> QED BY <2>1, <2>2
<1>14. X' = X BY <1>12, XChanges
<1>15. /\ Machine!Insn = Insn /\ Machine!Runs("SW") /\ Machine!Following = NextInsn
       /\ Machine!X(Insn.rs2) = Rs2
  BY <1>2, SameTerms
<1>16. Machine!Address = DataAddr /\ Machine!AddressOK BY <1>2, <1>4, SameConditions
<1> QED BY <1>5, <1>9, <1>13, <1>14, <1>15, <1>16 DEF Machine!Store, Machine!GoTo, X

\* HALT: the state told by the trace is that of a machine that halted.
LEMMA HaltSame ==
    ASSUME IInv, ZeroInv, Halt PROVE Machine!Halt
<1> DEFINE b == Read(Reg(10), 1)
           s == <<ReadFunction, b>>
<1>1. TypeOK /\ program \in Programs /\ records \in Seq(StepRecord) BY DEF IInv
<1>2. CanStep /\ Fetched \in DOMAIN program /\ Insn.kind = "ECALL" BY FetchIs DEF Halt
<1>3. Complete(s, 0) /\ status' = "halted" /\ Function = 0 BY DEF Halt
<1>4. 5 \in Regs /\ 10 \in Regs BY RegFacts
<1>5. /\ ReadFunction \in Touch /\ ReadFunction.after = Value(ReadFunction.loc)
      /\ ReadFunction.after = 0
      /\ b \in Touch /\ b.after = Value(b.loc) /\ b.loc = Reg(10)
  BY <1>1, <1>3, <1>4, RegisterRead DEF ReadFunction, Function, Sound
<1> HIDE DEF b
<1>6. s \in Seq(Touch) /\ DOMAIN s = {1, 2} /\ s[1] = ReadFunction /\ s[2] = b BY <1>5
<1> HIDE DEF s
<1>7. SameX /\ memory' = memory
  <2>1. \A k \in DOMAIN s : k # 2 => s[k].after = Value(s[k].loc) BY <1>5, <1>6
  <2>2. \A k \in DOMAIN s : k > 2 => s[k].loc # s[2].loc BY <1>6
  <2>3. 2 \in DOMAIN s /\ s[2].loc = Reg(10) BY <1>5, <1>6
  <2>4. s[2].after = Value(s[2].loc)
    <3>1. b.after = Value(b.loc) BY <1>5
    <3> QED BY <1>6, <3>1
  <2> QED BY <1>1, <1>3, <1>4, <1>6, <2>1, <2>2, <2>3, <2>4, WritesNothing
<1>8. X' = X BY <1>7, XChanges
<1>9. Machine!Runs("ECALL") /\ Machine!Function = 0 /\ MachineState = "running"
  BY <1>2, <1>3, SameTerms, SameConditions
<1>10. MachineState' = "halted"
  <2> DEFINE new == [cycle |-> cycle, before |-> pc, after |-> 0,
                     kind |-> Insn.kind, ops |-> Operations(s)]
             N == Len(records)
  <2>1. records' = Append(records, new) BY <1>3 DEF Complete
  <2>2. new.kind = "ECALL" /\ new.ops = Operations(s) BY <1>2
  <2>3. Operations(s)[1].after = 0 BY <1>5, <1>6 DEF Operations
  <2> HIDE DEF new
  <2>4. N \in Nat BY <1>1, LenProperties
  <2>5. Len(records') = N + 1 /\ DOMAIN records' = 1 .. N + 1 /\ records'[N + 1] = new
    BY <1>1, <2>1, <2>4
  <2>6. N + 1 \in HaltSteps' BY <2>2, <2>3, <2>4, <2>5 DEF HaltSteps
  <2>7. status' # "running" BY <1>3
  <2> QED BY <2>5, <2>6, <2>7 DEF MachineState
<1>11. pc' = 0 /\ UNCHANGED inputs BY <1>3 DEF Complete
<1> QED BY <1>7, <1>8, <1>9, <1>10, <1>11 DEF Machine!Halt, Machine!inputs, inputs, X

\* An unknown call that is ignored.
LEMMA SkipSame ==
    ASSUME IInv, ZeroInv, EcallNop PROVE Machine!Skip
<1> DEFINE a == ReadFunction  b == Read(Reg(10), 1)  c == Write(Reg(32), 2, 0)
           d == Read(Mem(NopWord), 3)
           s == <<a, b, c, d>>
<1>1. TypeOK /\ program \in Programs BY DEF IInv
<1>2. CanStep /\ Fetched \in DOMAIN program /\ Insn.kind = "ECALL" BY FetchIs DEF EcallNop
<1>3. Step(s, NextInsn) /\ Function # 0 /\ ~KnownCall /\ unsafe_ecall_nop BY DEF EcallNop
<1>4. 5 \in Regs /\ 10 \in Regs /\ 32 \in Regs BY RegFacts
<1>5. NopWord \in WordAddrs
  <2>1. Stack.end \in Words /\ 4 <= Stack.start /\ Stack.start <= Stack.end /\ Stack.start \in Words
    BY RangeFacts
  <2>2. Words = 0 .. Modulus - 1 /\ Modulus \in Nat BY WordFacts
  <2>3. Stack.end - 4 \in Words BY <2>1, <2>2
  <2> QED BY <2>3, WordFacts DEF NopWord
<1>6. a \in Touch /\ a.after = Value(a.loc)
  BY <1>1, <1>4, RegisterRead DEF ReadFunction, Sound
<1>7. b \in Touch /\ b.after = Value(b.loc) BY <1>1, <1>4, RegisterRead DEF Sound
<1>8. c \in Touch /\ c.loc = Reg(32)
  <2>1. Reg(32) \in Locations /\ 0 \in Words BY <1>4, WordFacts
  <2> QED BY <2>1, WriteIs
<1>9. d \in Touch /\ d.loc = Mem(NopWord) /\ d.after = Value(d.loc)
  <2>1. Mem(NopWord) \in Locations BY <1>5, WordFacts
  <2>2. d \in Touch /\ d.loc = Mem(NopWord) /\ d.after = Value(Mem(NopWord))
    BY <1>1, <2>1, ReadIs
  <2> QED BY <2>2
<1> HIDE DEF a, b, c, d
<1>10. Machine!GoTo(NextInsn) /\ Complete(s, NextInsn) BY <1>2, <1>3, SameNext
<1>11. /\ s \in Seq(Touch) /\ DOMAIN s = {1, 2, 3, 4}
       /\ s[1] = a /\ s[2] = b /\ s[3] = c /\ s[4] = d
  BY <1>6, <1>7, <1>8, <1>9
<1> HIDE DEF s
<1>12. SameX /\ memory' = memory
  <2>1. \A k \in DOMAIN s : k # 3 => s[k].after = Value(s[k].loc) BY <1>6, <1>7, <1>9, <1>11
  <2>2. \A k \in DOMAIN s : k > 3 => s[k].loc # s[3].loc
    BY <1>8, <1>9, <1>11, LocationsDiffer
  <2>3. s[3].loc = Reg(32) /\ 3 \in DOMAIN s BY <1>8, <1>11
  <2> QED BY <1>1, <1>4, <1>10, <1>11, <2>1, <2>2, <2>3, WritesNothing
<1>13. X' = X BY <1>12, XChanges
<1>14. /\ Machine!Runs("ECALL") /\ Machine!Following = NextInsn
       /\ Machine!Function # 0 /\ ~Machine!Known
  BY <1>2, <1>3, SameTerms, SameConditions
<1> QED BY <1>3, <1>10, <1>12, <1>13, <1>14 DEF Machine!Skip, Machine!GoTo, X

\* A location that is only read keeps its value, and else has that of its last touch.
LEMMA NewValueIs ==
    ASSUME TypeOK, NEW touches \in Seq(Touch), NEW loc \in Locations
    PROVE  /\ (\A k \in DOMAIN touches : touches[k].loc = loc => touches[k].after = Value(loc))
                => NewValue(touches, loc) = Value(loc)
           /\ \A k \in DOMAIN touches :
                touches[k].loc = loc /\ (\A j \in DOMAIN touches : touches[j].loc = loc => j <= k)
                  => NewValue(touches, loc) = touches[k].after
<1> DEFINE t == Touched(touches, loc)
           m == LastOf(t)
<1>1. Len(touches) \in Nat /\ DOMAIN touches = 1 .. Len(touches)
      /\ t = {j \in DOMAIN touches : touches[j].loc = loc}
  BY TouchedIs
<1>2. CASE t = {}
  <2>1. NewValue(touches, loc) = Value(loc) BY <1>2, LatestIs
  <2>2. \A k \in DOMAIN touches : touches[k].loc # loc BY <1>1, <1>2
  <2> QED BY <2>1, <2>2
<1>3. CASE t # {}
  <2>1. /\ m \in DOMAIN touches /\ touches[m].loc = loc
        /\ \A j \in DOMAIN touches : touches[j].loc = loc => j <= m
        /\ NewValue(touches, loc) = touches[m].after
    BY <1>3, LatestIs
  <2> HIDE DEF m, t
  <2>2. ASSUME NEW k \in DOMAIN touches, touches[k].loc = loc,
               \A j \in DOMAIN touches : touches[j].loc = loc => j <= k
        PROVE  k = m
    <3>1. k <= m /\ m <= k BY <2>1, <2>2
    <3> QED BY <1>1, <2>1, <3>1
  <2> QED BY <2>1, <2>2
<1> QED BY <1>2, <1>3

\* Two sequences one after the other.
LEMMA Joined ==
    ASSUME NEW S, NEW q \in Seq(S), NEW r \in Seq(S), NEW j, j = q \o r
    PROVE  /\ Len(q) \in Nat /\ Len(r) \in Nat
           /\ j \in Seq(S) /\ DOMAIN j = 1 .. Len(q) + Len(r)
           /\ \A i \in 1 .. Len(q) : j[i] = q[i]
           /\ \A i \in 1 .. Len(r) : j[Len(q) + i] = r[i]
<1>1. Len(q) \in Nat /\ Len(r) \in Nat BY LenProperties
<1>2. j \in Seq(S) /\ Len(j) = Len(q) + Len(r) OBVIOUS
<1>3. DOMAIN j = 1 .. Len(q) + Len(r) BY <1>2, LenProperties
<1>4. ASSUME NEW i \in 1 .. Len(q) PROVE j[i] = q[i]
  <2>1. i \in 1 .. Len(q) + Len(r) /\ i <= Len(q) BY <1>1
  <2> QED BY <1>1, <2>1
<1>5. ASSUME NEW i \in 1 .. Len(r) PROVE j[Len(q) + i] = r[i]
  <2> DEFINE k == Len(q) + i
  <2>1. k \in 1 .. Len(q) + Len(r) /\ ~(k <= Len(q)) /\ k - Len(q) = i BY <1>1
  <2> HIDE DEF k
  <2>2. j[k] = r[k - Len(q)] BY <1>1, <2>1
  <2> QED BY <2>1, <2>2 DEF k
<1> QED BY <1>1, <1>2, <1>3, <1>4, <1>5

\* What the memory operations of a call leave.
LEMMA MemOpsLeave ==
    ASSUME TypeOK, NEW result \in SyscallResults
    PROVE  LET m == MemOps(result)
               p == View(Pointers[1])
           IN  /\ \A i \in 1 .. SyscallWords :
                    i \in DOMAIN m /\ m[i].loc = p[i] /\ m[i].after = result[i]
               /\ \A k \in DOMAIN m : k \in 1 .. SyscallWords \/ m[k].after = Value(m[k].loc)
<1> DEFINE n == SyscallWords
           p == View(Pointers[1])
           q == View(Pointers[2])
           f == [i \in DOMAIN p |-> Write(p[i], MEM, result[i])]
           g == [i \in DOMAIN q |-> Read(q[i], MEM)]
           m == MemOps(result)
<1>1. n \in Nat BY DataAssumption, WordFacts
<1>2. Pointers[1] \in Words /\ Pointers[2] \in Words BY RegFacts DEF Pointers, TypeOK
<1>3. Len(p) = n /\ Len(q) = n /\ p \in Seq(Locations) /\ q \in Seq(Locations)
  BY <1>2, ViewIs
<1>4. m = IF Function = UnaryCode THEN f ELSE f \o g BY DEF MemOps
<1> HIDE DEF n, p, q, m
<1>5. DOMAIN p = 1 .. n /\ DOMAIN q = 1 .. n BY <1>3, LenProperties
<1>6. \A i \in 1 .. n : f[i].loc = p[i] /\ f[i].after = result[i] BY <1>5 DEF Write
<1>7. \A i \in 1 .. n : g[i].after = Value(g[i].loc) BY <1>5 DEF Read
<1>8. DOMAIN f = 1 .. n /\ DOMAIN g = 1 .. n BY <1>5
<1> DEFINE S == {f[i] : i \in 1 .. n} \union {g[i] : i \in 1 .. n}
<1>9. f \in Seq(S) /\ g \in Seq(S)
  <2>1. f = [i \in 1 .. n |-> f[i]] /\ g = [i \in 1 .. n |-> g[i]] BY <1>5
  <2> HIDE DEF f, g
  <2>2. f \in [1 .. n -> S] /\ g \in [1 .. n -> S] BY <2>1
  <2> QED BY <1>1, <2>2, SeqDef
<1> HIDE DEF f, g, S
<1>10. Len(f) = n /\ Len(g) = n BY <1>1, <1>8, <1>9, LenProperties
<1>11. CASE Function = UnaryCode
  <2>1. m = f BY <1>4, <1>11
  <2> QED BY <1>6, <1>8, <2>1 DEF m, n, p
<1>12. CASE Function # UnaryCode
  <2>1. m = f \o g BY <1>4, <1>12
  <2>2. /\ DOMAIN m = 1 .. n + n
        /\ \A i \in 1 .. n : m[i] = f[i]
        /\ \A i \in 1 .. n : m[n + i] = g[i]
    BY <1>9, <1>10, <2>1, Joined
  <2>3. \A i \in 1 .. n : i \in DOMAIN m /\ m[i] = f[i] BY <1>1, <2>2
  <2>4. ASSUME NEW k \in DOMAIN m, k \notin 1 .. n PROVE m[k].after = Value(m[k].loc)
    <3>1. PICK i \in 1 .. n : k = n + i
      <4>1. k - n \in 1 .. n /\ k = n + (k - n) BY <1>1, <2>2, <2>4
      <4> QED BY <4>1
    <3>2. m[k] = g[i] BY <2>2, <3>1
    <3> QED BY <1>7, <3>2
  <2> QED BY <1>6, <2>3, <2>4 DEF m, n, p
<1> QED BY <1>11, <1>12

\* The operations of a call: three of registers, which are reads, and those of memory.
LEMMA CallTouches ==
    ASSUME TypeOK, CanStep, Fetched \in DOMAIN program, KnownCall, NEW result \in SyscallResults
    PROVE  LET s == <<ReadFunction>> \o RegOps \o MemOps(result)
               m == MemOps(result)
           IN  /\ s \in Seq(Touch) /\ m \in Seq(Touch) /\ Len(m) \in Nat
               /\ DOMAIN m = 1 .. Len(m) /\ DOMAIN s = 1 .. 3 + Len(m)
               /\ \A k \in 1 .. 3 : /\ \E i \in Regs : s[k].loc = Reg(i)
                                    /\ s[k].after = Value(s[k].loc)
               /\ \A k \in 1 .. Len(m) : s[3 + k] = m[k]
<1> DEFINE a == ReadFunction  b == Read(Reg(10), 2)  c == Read(Reg(11), 2)
           m == MemOps(result)
           h == <<a>> \o <<b, c>>
<1>1. 5 \in Regs /\ 10 \in Regs /\ 11 \in Regs BY RegFacts
<1>2. a \in Touch /\ a.loc = Reg(5) /\ a.after = Value(a.loc)
  BY <1>1, RegisterRead DEF ReadFunction, Sound
<1>3. b \in Touch /\ b.loc = Reg(10) /\ b.after = Value(b.loc)
  BY <1>1, RegisterRead DEF Sound
<1>4. c \in Touch /\ c.loc = Reg(11) /\ c.after = Value(c.loc)
  BY <1>1, RegisterRead DEF Sound
<1>5. m \in Seq(Touch) BY MemOpsAre
<1>6. <<ReadFunction>> \o RegOps \o MemOps(result) = h \o m BY DEF RegOps
<1> HIDE DEF a, b, c, m
<1>7. Len(m) \in Nat /\ DOMAIN m = 1 .. Len(m) BY <1>5, LenProperties
<1>8. h \in Seq(Touch) /\ Len(h) = 3 /\ h[1] = a /\ h[2] = b /\ h[3] = c
  BY <1>2, <1>3, <1>4
<1> HIDE DEF h
<1> DEFINE s == h \o m
<1>9. /\ s \in Seq(Touch) /\ DOMAIN s = 1 .. 3 + Len(m)
      /\ \A i \in 1 .. 3 : s[i] = h[i]
      /\ \A k \in 1 .. Len(m) : s[3 + k] = m[k]
  <2> HIDE DEF s
  <2>1. s = h \o m BY DEF s
  <2>2. h \in Seq(Touch) /\ m \in Seq(Touch) BY <1>5, <1>8
  <2>3. /\ s \in Seq(Touch) /\ DOMAIN s = 1 .. Len(h) + Len(m)
        /\ \A i \in 1 .. Len(h) : s[i] = h[i]
        /\ \A k \in 1 .. Len(m) : s[Len(h) + k] = m[k]
    BY <2>1, <2>2, Joined
  <2>4. Len(h) = 3 BY <1>8
  <2> QED BY <2>3, <2>4
<1>10. s[1] = a /\ s[2] = b /\ s[3] = c BY <1>8, <1>9
<1> HIDE DEF s
<1>11. \A k \in 1 .. 3 : k \in {1, 2, 3} OBVIOUS
<1>12. \A k \in 1 .. 3 : (\E i \in Regs : s[k].loc = Reg(i)) /\ s[k].after = Value(s[k].loc)
  BY <1>1, <1>2, <1>3, <1>4, <1>10, <1>11
<1>13. s = <<ReadFunction>> \o RegOps \o MemOps(result) BY <1>6 DEF s
<1> QED BY <1>5, <1>7, <1>9, <1>12, <1>13 DEF m

\* A system call: the result is behind its first pointer, and nowhere else.
LEMMA SyscallSame ==
    ASSUME IInv, ZeroInv, PointersApart, Syscall PROVE Machine!Syscall
<1>1. TypeOK /\ program \in Programs BY DEF IInv
<1>2. CanStep /\ Fetched \in DOMAIN program /\ Insn.kind = "ECALL" BY FetchIs DEF Syscall
<1>3. KnownCall /\ CallAccepted BY DEF Syscall
<1>4. PICK result \in SyscallResults :
         Step(<<ReadFunction>> \o RegOps \o MemOps(result), NextInsn)
  BY DEF Syscall
<1> DEFINE n == SyscallWords
           m == MemOps(result)
           p == View(Pointers[1])
           s == <<ReadFunction>> \o RegOps \o MemOps(result)
<1>5. Machine!GoTo(NextInsn) /\ Complete(s, NextInsn) BY <1>2, <1>4, SameNext
<1>6. /\ s \in Seq(Touch) /\ m \in Seq(Touch) /\ Len(m) \in Nat
      /\ DOMAIN m = 1 .. Len(m) /\ DOMAIN s = 1 .. 3 + Len(m)
      /\ \A k \in 1 .. 3 : (\E i \in Regs : s[k].loc = Reg(i)) /\ s[k].after = Value(s[k].loc)
      /\ \A k \in 1 .. Len(m) : s[3 + k] = m[k]
  BY <1>1, <1>2, <1>3, CallTouches
<1>7. /\ \A k \in DOMAIN m : \E w \in WordAddrs : m[k].loc = Mem(w)
      /\ \A j, k \in DOMAIN m : j # k => m[j].loc # m[k].loc
  BY <1>1, <1>2, <1>3, MemOpsAre
<1>8. /\ \A i \in 1 .. n : i \in DOMAIN m /\ m[i].loc = p[i] /\ m[i].after = result[i]
      /\ \A k \in DOMAIN m : k \in 1 .. n \/ m[k].after = Value(m[k].loc)
  BY <1>1, MemOpsLeave
<1>9. Pointers[1] \in Words BY <1>1, RegFacts DEF Pointers, TypeOK
<1>10. \A i \in 1 .. n : p[i] = Mem(Machine!Word(Pointers[1], i))
  BY DEF View, Machine!Word, Machine!NumWords, WAddr
<1>11. \A i, j \in 1 .. n : i # j => p[i] # p[j] BY <1>9, ViewIs
<1> HIDE DEF n, m, p, s
<1>12. \A k \in DOMAIN s : k \in 1 .. 3 \/ \E j \in 1 .. Len(m) : k = 3 + j
  <2> SUFFICES ASSUME NEW k \in DOMAIN s, k \notin 1 .. 3 PROVE \E j \in 1 .. Len(m) : k = 3 + j
    OBVIOUS
  <2>1. k - 3 \in 1 .. Len(m) /\ k = 3 + (k - 3) BY <1>6
  <2> QED BY <2>1
<1>13. SameX
  <2> SUFFICES ASSUME NEW i \in Names \ {0} PROVE registers'[i] = registers[i]
    BY DEF SameX
  <2>1. i \in Regs BY DEF Names
  <2>2. Reg(i) \in Locations /\ Value(Reg(i)) = registers[i] BY <1>1, <2>1, WordFacts, ValueType
  <2>3. ASSUME NEW k \in DOMAIN s, s[k].loc = Reg(i) PROVE s[k].after = Value(Reg(i))
    <3>1. CASE k \in 1 .. 3 BY <1>6, <2>3, <3>1
    <3>2. ASSUME NEW j \in 1 .. Len(m), k = 3 + j PROVE FALSE
      <4>1. s[k] = m[j] /\ j \in DOMAIN m BY <1>6, <3>2
      <4>2. PICK w \in WordAddrs : m[j].loc = Mem(w) BY <1>7, <4>1
      <4> QED BY <2>3, <4>1, <4>2, LocationsDiffer
    <3> QED BY <1>12, <3>1, <3>2
  <2>4. NewValue(s, Reg(i)) = Value(Reg(i)) BY <1>1, <1>6, <2>2, <2>3, NewValueIs
  <2>5. registers'[i] = NewValue(s, Reg(i)) BY <1>5, <2>1 DEF Complete
  <2> QED BY <2>2, <2>4, <2>5
<1>14. ASSUME NEW w \in WordAddrs, NEW i \in 1 .. n, p[i] = Mem(w)
       PROVE  NewValue(s, Mem(w)) = result[i]
  <2>1. Mem(w) \in Locations BY WordFacts
  <2>2. i \in 1 .. Len(m) /\ m[i].loc = Mem(w) /\ m[i].after = result[i] BY <1>6, <1>8, <1>14
  <2> DEFINE k == 3 + i
  <2>3. k \in DOMAIN s /\ s[k] = m[i] BY <1>6, <2>2
  <2>4. ASSUME NEW j \in DOMAIN s, s[j].loc = Mem(w) PROVE j <= k
    <3>1. CASE j \in 1 .. 3
      <4>1. PICK r \in Regs : s[j].loc = Reg(r) BY <1>6, <3>1
      <4> QED BY <2>4, <4>1, LocationsDiffer
    <3>2. ASSUME NEW l \in 1 .. Len(m), j = 3 + l PROVE j <= k
      <4>1. s[j] = m[l] /\ l \in DOMAIN m /\ i \in DOMAIN m BY <1>6, <2>2, <3>2
      <4>2. l = i BY <1>7, <2>2, <2>4, <4>1
      <4> QED BY <1>6, <3>2, <4>2
    <3> QED BY <1>12, <3>1, <3>2
  <2> HIDE DEF k
  <2>5. s[k].loc = Mem(w) /\ s[k].after = result[i] BY <2>2, <2>3
  <2>6. NewValue(s, Mem(w)) = s[k].after BY <1>1, <1>6, <2>1, <2>3, <2>4, <2>5, NewValueIs
  <2> QED BY <2>5, <2>6
<1>15. ASSUME NEW w \in WordAddrs, \A i \in 1 .. n : p[i] # Mem(w)
       PROVE  NewValue(s, Mem(w)) = memory[w]
  <2>1. Mem(w) \in Locations /\ Value(Mem(w)) = memory[w] BY <1>1, WordFacts, ValueType
  <2>2. ASSUME NEW k \in DOMAIN s, s[k].loc = Mem(w) PROVE s[k].after = Value(Mem(w))
    <3>1. CASE k \in 1 .. 3 BY <1>6, <2>2, <3>1
    <3>2. ASSUME NEW j \in 1 .. Len(m), k = 3 + j PROVE s[k].after = Value(Mem(w))
      <4>1. s[k] = m[j] /\ j \in DOMAIN m BY <1>6, <3>2
      <4>2. j \notin 1 .. n BY <1>8, <1>15, <2>2, <4>1
      <4>3. m[j].after = Value(m[j].loc) BY <1>8, <4>1, <4>2
      <4> QED BY <2>2, <4>1, <4>3
    <3> QED BY <1>12, <3>1, <3>2
  <2>3. NewValue(s, Mem(w)) = Value(Mem(w)) BY <1>1, <1>6, <2>1, <2>2, NewValueIs
  <2> QED BY <2>1, <2>3
<1> DEFINE a(i) == Machine!Word(Pointers[1], i)
<1>16. \A i \in 1 .. n, w \in WordAddrs : a(i) = w <=> p[i] = Mem(w)
  BY <1>10, LocationsDiffer
<1>17. ASSUME NEW w \in WordAddrs
       PROVE  NewValue(s, Mem(w)) =
                IF \E i \in 1 .. n : a(i) = w
                THEN result[CHOOSE i \in 1 .. n : a(i) = w] ELSE memory[w]
  <2>1. CASE \E i \in 1 .. n : a(i) = w
    <3> DEFINE c == CHOOSE i \in 1 .. n : a(i) = w
    <3>1. c \in 1 .. n /\ a(c) = w BY <2>1
    <3> HIDE DEF c, a
    <3>2. p[c] = Mem(w) BY <1>16, <3>1
    <3>3. NewValue(s, Mem(w)) = result[c] BY <1>14, <3>1, <3>2
    <3> QED BY <2>1, <3>3 DEF c
  <2>2. CASE ~\E i \in 1 .. n : a(i) = w
    <3> HIDE DEF a
    <3>1. \A i \in 1 .. n : p[i] # Mem(w) BY <1>16, <2>2
    <3> QED BY <1>15, <2>2, <3>1
  <2> QED BY <2>1, <2>2
<1>18. memory' = Machine!Result(Pointers[1], result)
  <2>1. memory' = [w \in WordAddrs |-> NewValue(s, Mem(w))] BY <1>5 DEF Complete
  <2>2. DOMAIN memory = WordAddrs BY <1>1 DEF TypeOK
  <2>3. Machine!Result(Pointers[1], result) =
          [w \in WordAddrs |->
             IF \E i \in 1 .. n : a(i) = w
             THEN result[CHOOSE i \in 1 .. n : a(i) = w] ELSE memory[w]]
    BY <2>2 DEF Machine!Result, n
  <2> HIDE DEF a
  <2> QED BY <1>17, <2>1, <2>3
<1>19. X' = X BY <1>13, XChanges
<1>20. /\ Machine!Runs("ECALL") /\ Machine!Following = NextInsn
       /\ Machine!X(10) = Pointers[1] /\ Machine!Known /\ Machine!Accepted
  BY <1>2, <1>3, SameTerms, SameConditions
<1> QED BY <1>5, <1>18, <1>19, <1>20 DEF Machine!Syscall, Machine!GoTo, X

\* What a step that records nothing leaves of the machine: all but its state, which
\* tells how the run ended once it has.
LEMMA SilentMachine ==
    ASSUME Silent
    PROVE  /\ UNCHANGED <<program, unsafe_ecall_nop, pc, X, memory>>
           /\ HaltSteps' = HaltSteps /\ Len(records') = Len(records)
           /\ (status' = "running" <=> status = "running") => MachineState' = MachineState
<1>1. UNCHANGED <<program, unsafe_ecall_nop, pc, registers, memory, records>>
  BY DEF Silent, inputs
<1>2. HaltSteps' = HaltSteps BY <1>1 DEF HaltSteps
<1>3. UNCHANGED X BY <1>1 DEF X
<1> QED BY <1>1, <1>2, <1>3 DEF MachineState

\* While the machine runs no step was a HALT.
LEMMA NotHalted ==
    ASSUME IInv, ChainInv, status = "running"
    PROVE  Len(records) \notin HaltSteps
  BY HaltStepsAre DEF ChainInv

\* A trap is a trap.
LEMMA TrapSame ==
    ASSUME IInv, ZeroInv, ChainInv, Trap PROVE Machine!Trap
<1>1. /\ CanStep /\ status = "running" /\ Len(records) < MaxSteps
      /\ status' = "failed" /\ Silent
  BY DEF Trap, CanStep, Fail, Silent
<1>2. Len(records) # MaxSteps
  BY <1>1, LenProperties, MachineAssumption DEF IInv
<1>3. MachineState = "running" BY <1>1 DEF MachineState
<1>4. MachineState' = "trapped"
  <2>1. Len(records') \notin HaltSteps' BY <1>1, NotHalted, SilentMachine
  <2>2. Len(records') # MaxSteps BY <1>1, <1>2, SilentMachine
  <2> QED BY <1>1, <2>1, <2>2 DEF MachineState
<1>5. UNCHANGED <<program, unsafe_ecall_nop, pc, X, memory>> BY <1>1, SilentMachine
<1>6. \/ ~Machine!Fetchable
      \/ Machine!Runs("INVALID")
      \/ (Machine!Runs("JAL") \/ Machine!Runs("JALR") \/ Machine!Runs("BEQ")) /\ ~Machine!TargetOK
      \/ (Machine!Runs("LW") \/ Machine!Runs("SW")) /\ ~Machine!AddressOK
      \/ Machine!Runs("ECALL") /\ Machine!Known /\ ~Machine!Accepted
      \/ Machine!Runs("ECALL") /\ Machine!Function # 0 /\ ~Machine!Known /\ ~unsafe_ecall_nop
  <2>1. CASE Fetched \notin DOMAIN program
    <3>1. Machine!Fetched = Fetched BY DEF Machine!Fetched, Fetched
    <3> QED BY <2>1, <3>1 DEF Machine!Fetchable
  <2>2. CASE Fetched \in DOMAIN program
    <3>1. \A kind : Fetch(kind) => Insn.kind = kind /\ Machine!Runs(kind)
      BY <1>1, <2>2, FetchIs, SameTerms
    <3>2. /\ Insn.kind = "JAL" => Machine!Target = Offset(pc)
          /\ Insn.kind = "JALR" => Machine!Target = EvenTarget
          /\ Insn.kind = "BEQ" => Machine!Target = BranchTarget
          /\ Machine!TargetOK <=> Aligned(Machine!Target) /\ Machine!Target # pc
          /\ Machine!AddressOK <=> CanRead(DataAddr) /\ Aligned(DataAddr)
          /\ Machine!Function = Function
          /\ Machine!Known <=> KnownCall
          /\ Machine!Accepted <=> CallAccepted
      BY <1>1, <2>2, SameConditions
    <3>3. CASE Fetch("INVALID") BY <3>1, <3>3
    <3>4. CASE Fetch("JAL") /\ (~Aligned(Offset(pc)) \/ Offset(pc) = pc) BY <3>1, <3>2, <3>4
    <3>5. CASE Fetch("JALR") /\ (~Aligned(EvenTarget) \/ EvenTarget = pc) BY <3>1, <3>2, <3>5
    <3>6. CASE Fetch("BEQ") /\ (~Aligned(BranchTarget) \/ BranchTarget = pc)
      BY <3>1, <3>2, <3>6
    <3>7. CASE Fetch("LW") /\ (~CanRead(DataAddr) \/ ~Aligned(DataAddr)) BY <3>1, <3>2, <3>7
    <3>8. CASE Fetch("SW") /\ (~CanWrite(DataAddr) \/ ~Aligned(DataAddr))
      BY <3>1, <3>2, <3>8 DEF CanWrite
    <3>9. CASE Fetch("ECALL") /\ KnownCall /\ ~CallAccepted BY <3>1, <3>2, <3>9
    <3>10. CASE Fetch("ECALL") /\ Function # HaltCode /\ ~KnownCall /\ ~unsafe_ecall_nop
      BY <3>1, <3>2, <3>10
    <3> QED
      BY <2>2, <3>3, <3>4, <3>5, <3>6, <3>7, <3>8, <3>9, <3>10 DEF Trap
  <2> QED BY <2>1, <2>2
<1> QED BY <1>3, <1>4, <1>5, <1>6 DEF Machine!Trap, Machine!inputs, X

\* After the last step: the limit stops a machine that runs, and one that halted stays.
LEMMA FinishedSame ==
    ASSUME IInv, ChainInv, Finished, Silent, status' \in {"returned", "failed"}
    PROVE  Machine!Stop \/ UNCHANGED Machine!vars
<1>1. /\ UNCHANGED <<program, unsafe_ecall_nop, pc, X, memory>>
      /\ HaltSteps' = HaltSteps /\ Len(records') = Len(records)
      /\ (status' = "running" <=> status = "running") => MachineState' = MachineState
  BY SilentMachine
<1>2. CASE status = "running"
  <2>1. Len(records) = MaxSteps /\ Len(records) \notin HaltSteps
    BY <1>2, NotHalted DEF Finished
  <2>2. MachineState = "running" /\ MachineState' = "stopped" BY <1>1, <1>2, <2>1 DEF MachineState
  <2> QED BY <1>1, <2>2 DEF Machine!Stop, Machine!inputs, X
<1>3. CASE status # "running"
  <2>1. MachineState' = MachineState BY <1>1, <1>3
  <2> QED BY <1>1, <2>1 DEF Machine!vars, Machine!inputs, X
<1> QED BY <1>2, <1>3

\* Every step of the emulator is a step of the machine, or none.
LEMMA MachineNext ==
    IInv /\ ZeroInv /\ ChainInv /\ PointersApart /\ [Next]_vars => [Machine!Next]_(Machine!vars)
<1> SUFFICES ASSUME IInv, ZeroInv, ChainInv, PointersApart, [Next]_vars
             PROVE  [Machine!Next]_(Machine!vars)
  OBVIOUS
<1>1. CASE Compute BY <1>1, ComputeSame DEF Machine!Next
<1>2. CASE Jump BY <1>2, JumpSame DEF Machine!Next
<1>3. CASE Branch BY <1>3, BranchSame DEF Machine!Next
<1>4. CASE Load BY <1>4, LoadSame DEF Machine!Next
<1>5. CASE Store BY <1>5, StoreSame DEF Machine!Next
<1>6. CASE Halt BY <1>6, HaltSame DEF Machine!Next
<1>7. CASE Syscall BY <1>7, SyscallSame DEF Machine!Next
<1>8. CASE EcallNop BY <1>8, SkipSame DEF Machine!Next
<1>9. CASE Trap BY <1>9, TrapSame DEF Machine!Next
<1>10. CASE Return
  <2>1. Finished /\ Silent /\ status' = "returned" BY <1>10 DEF Return, Silent
  <2> QED BY <2>1, FinishedSame DEF Machine!Next
<1>11. CASE ReturnFails
  <2>1. Finished /\ Silent /\ status' = "failed" BY <1>11 DEF ReturnFails, Fail, Silent
  <2> QED BY <2>1, FinishedSame DEF Machine!Next
<1>12. CASE UNCHANGED vars
  <2>1. Silent /\ status' = status BY <1>12 DEF Silent, vars
  <2>2. UNCHANGED <<program, unsafe_ecall_nop, pc, X, memory>> /\ MachineState' = MachineState
    BY <2>1, SilentMachine
  <2> QED BY <2>2 DEF Machine!vars, Machine!inputs, X
<1>13. CASE Ended BY <1>12, <1>13 DEF Ended
<1> QED
  BY <1>1, <1>2, <1>3, <1>4, <1>5, <1>6, <1>7, <1>8, <1>9, <1>10, <1>11, <1>12, <1>13
  DEF Next, Execute

\* The machine starts where the emulator does.
LEMMA MachineInit == Init => Machine!Init
<1> SUFFICES ASSUME Init PROVE Machine!Init
  OBVIOUS
<1>1. program \in Seq(Instructions) BY DataAssumption DEF Init
<1>2. X = [i \in Names \ {0} |-> 0] BY DEF Init, X, Names
<1>3. MachineState = "running" BY DEF Init, MachineState
<1> QED BY <1>1, <1>2, <1>3 DEF Init, Machine!Init, X

\* Whatever the program, the platform and the registers: as long as the words behind
\* the two pointers of a call are disjoint, a guest cannot tell the emulator, its
\* tracer and its scratch register RD_NULL from the machine of RiscvMachine, whose
\* instructions and calls have their effect and no other (step, VMState::ecall).
THEOREM GuestSeesMachine == Spec /\ []PointersApart => ImplementsMachine
<1>1. Init => IInv /\ ZeroInv /\ ChainInv BY InitInvariant, InitZero, InitChain
<1>2. IInv /\ ZeroInv /\ ChainInv /\ [Next]_vars => (IInv /\ ZeroInv /\ ChainInv)'
  BY NextInvariant, NextZero, NextChain
<1> QED BY <1>1, <1>2, MachineInit, MachineNext, PTL DEF Spec, ImplementsMachine, Machine!Spec
=============================================================================
