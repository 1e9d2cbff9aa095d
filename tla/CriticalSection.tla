---------------------------- MODULE CriticalSection ----------------------------
(***************************************************************************)
(* EnterCritical and LeaveCritical (synchronize.cpp, the single core that  *)
(* this program is built for), under every spin lock of the program, one   *)
(* instruction that matters at a time: an interrupt may come between any   *)
(* two of them, whenever its mask bit in the CPSR is clear.                *)
(*                                                                         *)
(* A context is an execution level: 0 is the main loop, 1 an IRQ handler,  *)
(* 2 an FIQ handler.  Entering one saves the CPSR in the banked SPSR and   *)
(* the place to return to in the banked LR; a second entry at the same     *)
(* level would overwrite both.  The saved masks of all sections share one  *)
(* stack, s_nCPSR.                                                         *)
(*                                                                         *)
(* A lock of TASK_LEVEL does nothing on one core (Acquire and Release test *)
(* m_nTargetLevel >= IRQ_LEVEL) and is left out.                           *)
(***************************************************************************)
EXTENDS Integers, Sequences

CONSTANTS
    Locks,              \* the spin locks
    Target,             \* m_nTargetLevel of each
    MaxCriticalLevel,   \* MAX_CRITICAL_LEVEL
    MaxNest             \* sections a context nests at most

Levels == 0..2
Contexts == 0..2

ASSUME TargetAssumption == Target \in [Locks -> 1..2]

\* The stack is large enough for a context below FIQ_LEVEL and one at it.
ASSUME NestAssumption ==
    /\ MaxNest \in Nat \ {0} /\ MaxCriticalLevel \in Nat
    /\ 2 * MaxNest <= MaxCriticalLevel

VARIABLES
    cur,                \* the context that has the processor
    mask,               \* the I and F bits of its CPSR
    under,              \* banked LR: the context an interrupt came upon
    spsr,               \* banked SPSR: the mask of that context
    pc,                 \* where each context is; "idle": not entered
    lock,               \* the lock it is acquiring
    nCPSR, slot,        \* locals: the mask saved, its index in the stack
    holds,              \* the locks whose section it is in, outermost first
    s_nCriticalLevel, s_nCPSR,
    halted              \* an assert has failed

cpuVars     == <<cur, mask, under, spsr>>
sectionVars == <<lock, nCPSR, slot, holds>>
stackVars   == <<s_nCriticalLevel, s_nCPSR>>
vars        == <<cpuVars, pc, sectionVars, stackVars, halted>>

Both == {"I", "F"}
Masks == SUBSET Both

EnterPCs == {"cpsid", "reserve", "store", "cpsie"}
LeavePCs == {"pop", "load", "restore"}

TypeOK ==
    /\ cur \in Contexts /\ mask \in Masks
    /\ under \in [1..2 -> Contexts] /\ spsr \in [1..2 -> Masks]
    /\ pc \in [Contexts -> {"idle", "run"} \cup EnterPCs \cup LeavePCs]
    /\ lock \in [Contexts -> Locks]
    /\ nCPSR \in [Contexts -> Masks]
    /\ slot \in [Contexts -> 0..(MaxCriticalLevel - 1)]
    /\ holds \in [Contexts -> Seq(Locks)]
    /\ s_nCriticalLevel \in 0..MaxCriticalLevel
    /\ s_nCPSR \in [0..(MaxCriticalLevel - 1) -> Masks]
    /\ halted \in BOOLEAN

\* After sysinit and CInterruptSystem::Initialize: both are enabled.
Init ==
    /\ cur = 0 /\ mask = {}
    /\ under = [l \in 1..2 |-> 0] /\ spsr = [l \in 1..2 |-> {}]
    /\ pc = [c \in Contexts |-> IF c = 0 THEN "run" ELSE "idle"]
    /\ \E l \in Locks : lock = [c \in Contexts |-> l]
    /\ nCPSR = [c \in Contexts |-> {}] /\ slot = [c \in Contexts |-> 0]
    /\ holds = [c \in Contexts |-> <<>>]
    /\ s_nCriticalLevel = 0
    /\ s_nCPSR = [i \in 0..(MaxCriticalLevel - 1) |-> {}]
    /\ halted = FALSE

CurrentExecutionLevel ==
    IF "F" \in mask THEN 2 ELSE IF "I" \in mask THEN 1 ELSE 0

Last(s) == s[Len(s)]
Front(s) == SubSeq(s, 1, Len(s) - 1)

\* The level a context is on: its own, or the target of its innermost section.
LevelOf(c) == IF holds[c] = <<>> THEN c ELSE Target[Last(holds[c])]

-----------------------------------------------------------------------------
(* EnterCritical.                                                          *)

Step(at, next) ==
    /\ ~halted
    /\ pc[cur] = at
    /\ pc' = [pc EXCEPT ![cur] = next]
    /\ UNCHANGED <<cur, under, spsr>>

Assert(condition) == halted' = ~condition

\* mrs, and the assert on it.  The caller may use the lock on this level, does
\* not hold it, and nests "with same or increasing nTargetLevel".
EnterCritical(l) ==
    /\ Step("run", "cpsid")
    /\ cur <= Target[l] /\ LevelOf(cur) <= Target[l]
    /\ \A i \in 1..Len(holds[cur]) : holds[cur][i] # l
    /\ Len(holds[cur]) < MaxNest
    /\ lock' = [lock EXCEPT ![cur] = l]
    /\ nCPSR' = [nCPSR EXCEPT ![cur] = mask]
    /\ Assert(Target[l] = 2 \/ "F" \notin mask)
    /\ UNCHANGED <<mask, slot, holds, stackVars>>

DisabledInEnter_irqOnly == mask \cup {"I"}

DisabledInEnter == Both

\* cpsid if: from here on the context is in its section.
DisableBoth ==
    /\ Step("cpsid", "reserve")
    /\ mask' = DisabledInEnter
    /\ holds' = [holds EXCEPT ![cur] = Append(@, lock[cur])]
    /\ UNCHANGED <<lock, nCPSR, slot, stackVars, halted>>

\* s_nCPSR[s_nCriticalLevel++] = nCPSR, index and store.
ReserveSlot ==
    /\ Step("reserve", "store")
    /\ Assert(s_nCriticalLevel < MaxCriticalLevel)
    /\ IF s_nCriticalLevel < MaxCriticalLevel
       THEN /\ slot' = [slot EXCEPT ![cur] = s_nCriticalLevel]
            /\ s_nCriticalLevel' = s_nCriticalLevel + 1
       ELSE UNCHANGED <<slot, s_nCriticalLevel>>
    /\ UNCHANGED <<mask, lock, nCPSR, holds, s_nCPSR>>

StoreCPSR ==
    /\ Step("store", IF Target[lock[cur]] = 1 THEN "cpsie" ELSE "run")
    /\ s_nCPSR' = [s_nCPSR EXCEPT ![slot[cur]] = nCPSR[cur]]
    /\ UNCHANGED <<mask, sectionVars, s_nCriticalLevel, halted>>

FIQsEnabled_not == mask

FIQsEnabled == mask \ {"F"}

\* if (nTargetLevel == IRQ_LEVEL) EnableFIQs ()
EnableFIQs ==
    /\ Step("cpsie", "run")
    /\ mask' = FIQsEnabled
    /\ UNCHANGED <<sectionVars, stackVars, halted>>

-----------------------------------------------------------------------------
(* LeaveCritical.                                                          *)

DisabledInLeave_nothing == mask

DisabledInLeave == mask \cup {"F"}

LeaveCritical ==
    /\ Step("run", "pop")
    /\ holds[cur] # <<>>
    /\ mask' = DisabledInLeave
    /\ UNCHANGED <<sectionVars, stackVars, halted>>

\* s_nCPSR[--s_nCriticalLevel], index and load.
PopSlot ==
    /\ Step("pop", "load")
    /\ Assert(s_nCriticalLevel > 0)
    /\ IF s_nCriticalLevel > 0
       THEN /\ slot' = [slot EXCEPT ![cur] = s_nCriticalLevel - 1]
            /\ s_nCriticalLevel' = s_nCriticalLevel - 1
       ELSE UNCHANGED <<slot, s_nCriticalLevel>>
    /\ UNCHANGED <<mask, lock, nCPSR, holds, s_nCPSR>>

LoadCPSR ==
    /\ Step("load", "restore")
    /\ nCPSR' = [nCPSR EXCEPT ![cur] = s_nCPSR[slot[cur]]]
    /\ UNCHANGED <<mask, lock, slot, holds, stackVars, halted>>

\* msr cpsr_c: the section ends.
RestoreCPSR ==
    /\ Step("restore", "run")
    /\ mask' = nCPSR[cur]
    /\ holds' = [holds EXCEPT ![cur] = Front(@)]
    /\ UNCHANGED <<lock, nCPSR, slot, stackVars, halted>>

-----------------------------------------------------------------------------
(* Interrupts: IRQStub and FIQStub.                                        *)

Enabled(c) == IF c = 1 THEN "I" \notin mask ELSE "F" \notin mask

MaskOnEntry(c) == IF c = 1 THEN mask \cup {"I"} ELSE Both

Interrupt(c) ==
    /\ ~halted
    /\ Enabled(c)
    /\ cur' = c
    /\ mask' = MaskOnEntry(c)
    /\ under' = [under EXCEPT ![c] = cur]
    /\ spsr' = [spsr EXCEPT ![c] = mask]
    /\ pc' = [pc EXCEPT ![c] = "run"]
    /\ UNCHANGED <<sectionVars, stackVars, halted>>

\* ldmfd sp!, {..., pc}^
ReturnFromInterrupt ==
    /\ ~halted
    /\ cur \in 1..2
    /\ pc[cur] = "run" /\ holds[cur] = <<>>
    /\ cur' = under[cur]
    /\ mask' = spsr[cur]
    /\ pc' = [pc EXCEPT ![cur] = "idle"]
    /\ UNCHANGED <<under, spsr, sectionVars, stackVars, halted>>

-----------------------------------------------------------------------------
Next ==
    \/ \E l \in Locks : EnterCritical(l)
    \/ DisableBoth \/ ReserveSlot \/ StoreCPSR \/ EnableFIQs
    \/ LeaveCritical \/ PopSlot \/ LoadCPSR \/ RestoreCPSR
    \/ \E c \in 1..2 : Interrupt(c)
    \/ ReturnFromInterrupt

Spec == Init /\ [][Next]_vars

-----------------------------------------------------------------------------
(* Properties.                                                             *)

\* No assert of EnterCritical and LeaveCritical fails, as long as the callers
\* nest "with same or increasing nTargetLevel" and not too deep: whoever comes
\* in between leaves the stack of saved masks as it found it.
NoAssertFails == ~halted

\* CurrentExecutionLevel () is the level of the running context or of its
\* innermost section, whatever has interrupted whom in between: interrupts
\* are never left on inside a section nor off after it.
ExecutionLevelIsRight == pc[cur] = "run" => CurrentExecutionLevel = LevelOf(cur)

\* The masks of a level.
MaskOf(l) == IF l = 0 THEN {} ELSE IF l = 1 THEN {"I"} ELSE Both

Holding(c, l) == \E i \in 1..Len(holds[c]) : holds[c][i] = l

\* The level a context was on before its k-th section.
LevelBefore(c, k) == IF k = 1 THEN c ELSE Target[holds[c][k - 1]]

\* An interrupt handler is entered once, above what it has interrupted.
EntryInv ==
    /\ cur = 0 => pc[1] = "idle" /\ pc[2] = "idle"
    /\ cur = 1 => under[1] = 0 /\ pc[2] = "idle"
    /\ cur = 2 => \/ under[2] = 0 /\ pc[1] = "idle"
                  \/ under[2] = 1 /\ under[1] = 0 /\ pc[1] # "idle"
    /\ pc[0] # "idle" /\ pc[cur] # "idle"
    /\ \A c \in Contexts : pc[c] = "idle" => holds[c] = <<>>

\* Sections are nested with same or increasing target, each lock once.
NestingInv ==
    \A c \in Contexts :
        /\ Len(holds[c]) <= MaxNest
        /\ \A i \in 1..Len(holds[c]) : c <= Target[holds[c][i]]
        /\ \A i, j \in 1..Len(holds[c]) :
               i < j => /\ Target[holds[c][i]] <= Target[holds[c][j]]
                        /\ holds[c][i] # holds[c][j]
        /\ pc[c] = "cpsid" => /\ c <= Target[lock[c]]
                              /\ LevelOf(c) <= Target[lock[c]]
                              /\ ~Holding(c, lock[c])
                              /\ Len(holds[c]) < MaxNest
        /\ pc[c] \in {"reserve", "store", "cpsie"} =>
               holds[c] # <<>> /\ Last(holds[c]) = lock[c]
        /\ pc[c] \in LeavePCs => holds[c] # <<>>
        /\ pc[c] = "cpsie" => Target[lock[c]] = 1

\* An interrupted context was outside of EnterCritical's and LeaveCritical's
\* masked part, on a level below the interrupt's.
InterruptedInv ==
    \A l \in 1..2 : pc[l] # "idle" =>
        /\ pc[under[l]] \in {"run", "cpsid"}
        /\ LevelOf(under[l]) < l
        /\ spsr[l] = MaskOf(LevelOf(under[l]))

MaskInv ==
    /\ pc[cur] \in {"run", "cpsid"} => mask = MaskOf(LevelOf(cur))
    /\ pc[cur] \notin {"run", "cpsid"} => mask = Both
    /\ \A c \in Contexts : pc[c] = "cpsid" => nCPSR[c] = MaskOf(LevelOf(c))
    /\ pc[cur] \in {"reserve", "store", "restore"} =>
           nCPSR[cur] = MaskOf(LevelBefore(cur, Len(holds[cur])))

\* Only one context below FIQ_LEVEL can be in a section, and an FIQ handler's
\* sections lie above it in the stack.
Base(c) == IF c = 2 THEN Len(holds[0]) + Len(holds[1]) ELSE 0

Top(c) == Base(c) + Len(holds[c]) - 1

\* Every section that has not been left finds its mask where it stored it.
StackInv ==
    /\ holds[0] = <<>> \/ holds[1] = <<>>
    /\ s_nCriticalLevel = Len(holds[0]) + Len(holds[1]) + Len(holds[2])
           - (IF pc[cur] \in {"reserve", "load", "restore"} THEN 1 ELSE 0)
    /\ pc[cur] \in {"store", "load"} => slot[cur] = Top(cur)
    /\ \A c \in Contexts : \A k \in 1..Len(holds[c]) :
           \/ pc[c] \in {"reserve", "store", "restore"} /\ k = Len(holds[c])
           \/ s_nCPSR[Base(c) + k - 1] = MaskOf(LevelBefore(c, k))

\* The inductive invariant: who has been interrupted where, which mask each
\* context has or will get back, and what the stack of saved masks holds
\* (EnterCritical, LeaveCritical, IRQStub, FIQStub).
IInv ==
    /\ TypeOK /\ NoAssertFails
    /\ EntryInv /\ NestingInv /\ InterruptedInv /\ MaskInv /\ StackInv

\* The context in whose sections a lock is; -1 if in none.
Holder ==
    [l \in Locks |->
        IF \E c \in Contexts : Holding(c, l)
        THEN CHOOSE c \in Contexts : Holding(c, l)
        ELSE -1]

\* Every lock is one of SpinLocks: it has one holder, and only a context that
\* never uses it can come between.
SpinLock == INSTANCE SpinLocks WITH running <- cur, holder <- Holder

SpinLockSpec == SpinLock!Spec
=============================================================================
