---------------------------- MODULE RiscvMachine ----------------------------
(***************************************************************************)
(* What a guest may rely on: the machine that rv32im.rs carries out, seen  *)
(* through EmuContext, and its environment calls.  There is no trace, no   *)
(* clock and no bookkeeping of accesses; x0 is no register but the number  *)
(* zero; an instruction has its whole effect in one step; the words behind *)
(* the pointers of a call that only reads them do not change.  A machine   *)
(* that cannot go on is trapped, and its host may stop it at any time.     *)
(*                                                                         *)
(* As in Emulator, ADD, ADDI, JAL, JALR, BEQ, LW and SW stand for the      *)
(* instructions that access registers and memory in the same way.          *)
(***************************************************************************)
EXTENDS Integers, Sequences

CONSTANTS
    Modulus,         \* number of byte addresses, and of the values of a word
    RomStart,        \* entry point and address of the first instruction
    Instructions,    \* the instructions programs are made of
    Names,           \* the registers programs name, x0 included
    FirstMemory,     \* what memory holds at first, by word address
    Accessible,      \* the byte addresses of data
    UnaryCode,       \* ecall code of a system call with one pointer
    BinaryCode,      \* ecall code of one with two pointers
    SyscallWords,    \* words behind each pointer
    SyscallResults   \* results considered

VARIABLES
    program,
    unsafe_ecall_nop,
    pc,
    x,               \* the registers but x0
    mem,             \* the words of memory
    state            \* "running", "halted", "trapped", "stopped"

inputs == <<program, unsafe_ecall_nop>>
vars == <<inputs, pc, x, mem, state>>
-----------------------------------------------------------------------------
Init ==
    /\ program \in Seq(Instructions)
    /\ unsafe_ecall_nop \in BOOLEAN
    /\ pc = RomStart
    /\ x = [i \in Names \ {0} |-> 0]
    /\ mem = FirstMemory
    /\ state = "running"

Fetched == ((pc - RomStart) % Modulus) \div 4 + 1
Fetchable == Fetched \in DOMAIN program
Insn == program[Fetched]
Runs(kind) == state = "running" /\ Fetchable /\ Insn.kind = kind

\* load_register, and store_register through rd_internal.
X(i) == IF i = 0 THEN 0 ELSE x[i]
Set(rd, value) == x' = [i \in DOMAIN x |-> IF i = rd THEN value ELSE x[i]]

Plus(base) == (base + Insn.imm) % Modulus
Following == (pc + 4) % Modulus
GoTo(next) == pc' = next /\ UNCHANGED <<inputs, state>>

\* step_compute.
Compute ==
    /\ \/ Runs("ADD")  /\ Set(Insn.rd, (X(Insn.rs1) + X(Insn.rs2)) % Modulus)
       \/ Runs("ADDI") /\ Set(Insn.rd, Plus(X(Insn.rs1)))
    /\ GoTo(Following)
    /\ UNCHANGED mem

\* Where a jump or a branch leads; it must not lead to itself.
Target ==
    CASE Insn.kind = "JAL"  -> Plus(pc)
      [] Insn.kind = "JALR" -> 2 * (Plus(X(Insn.rs1)) \div 2)
      [] Insn.kind = "BEQ"  -> IF X(Insn.rs1) = X(Insn.rs2) THEN Plus(pc) ELSE Following
TargetOK == Target % 4 = 0 /\ Target # pc

Jump ==
    /\ Runs("JAL") \/ Runs("JALR")
    /\ TargetOK
    /\ Set(Insn.rd, Following)
    /\ GoTo(Target)
    /\ UNCHANGED mem

\* step_branch.
Branch ==
    /\ Runs("BEQ") /\ TargetOK
    /\ GoTo(Target)
    /\ UNCHANGED <<x, mem>>

\* step_load and step_store.
Address == Plus(X(Insn.rs1))
AddressOK == Address \in Accessible /\ Address % 4 = 0

Load ==
    /\ Runs("LW") /\ AddressOK
    /\ Set(Insn.rd, mem[Address \div 4])
    /\ GoTo(Following)
    /\ UNCHANGED mem

Store ==
    /\ Runs("SW") /\ AddressOK
    /\ mem' = [mem EXCEPT ![Address \div 4] = X(Insn.rs2)]
    /\ GoTo(Following)
    /\ UNCHANGED x

\* VMState::ecall: the function is in x5 (t0), its arguments in x10 and x11.
Function == X(5)
Known == Function \in {UnaryCode, BinaryCode}

Halt ==
    /\ Runs("ECALL") /\ Function = 0
    /\ pc' = 0
    /\ state' = "halted"
    /\ UNCHANGED <<inputs, x, mem>>

\* A call replaces the words behind its first pointer by its result and leaves
\* all else alone.
Accepted ==
    /\ X(10) % 4 = 0
    /\ IF Function = UnaryCode THEN X(11) = 0 ELSE X(11) % 4 = 0
NumWords == Modulus \div 4
Word(pointer, i) == (pointer \div 4 + i - 1) % NumWords
Result(pointer, result) ==
    [w \in DOMAIN mem |->
       IF \E i \in 1 .. SyscallWords : Word(pointer, i) = w
       THEN result[CHOOSE i \in 1 .. SyscallWords : Word(pointer, i) = w]
       ELSE mem[w]]
Syscall ==
    /\ Runs("ECALL") /\ Known /\ Accepted
    /\ \E result \in SyscallResults : mem' = Result(X(10), result)
    /\ GoTo(Following)
    /\ UNCHANGED x

\* An unknown call is skipped where the platform allows that.
Skip ==
    /\ Runs("ECALL") /\ Function # 0 /\ ~Known /\ unsafe_ecall_nop
    /\ GoTo(Following)
    /\ UNCHANGED <<x, mem>>

Trap ==
    /\ state = "running"
    /\ \/ ~Fetchable
       \/ Runs("INVALID")
       \/ (Runs("JAL") \/ Runs("JALR") \/ Runs("BEQ")) /\ ~TargetOK
       \/ (Runs("LW") \/ Runs("SW")) /\ ~AddressOK
       \/ Runs("ECALL") /\ Known /\ ~Accepted
       \/ Runs("ECALL") /\ Function # 0 /\ ~Known /\ ~unsafe_ecall_nop
    /\ state' = "trapped"
    /\ UNCHANGED <<inputs, pc, x, mem>>

\* The host's limit on the number of steps.
Stop ==
    /\ state = "running"
    /\ state' = "stopped"
    /\ UNCHANGED <<inputs, pc, x, mem>>

Next ==
    \/ Compute \/ Jump \/ Branch \/ Load \/ Store
    \/ Halt \/ Syscall \/ Skip \/ Trap \/ Stop

Spec == Init /\ [][Next]_vars
=============================================================================
