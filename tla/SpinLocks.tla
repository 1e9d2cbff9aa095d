------------------------------- MODULE SpinLocks -------------------------------
(***************************************************************************)
(* What a spin lock promises on one core (CSpinLock, spinlock.h): a lock   *)
(* has one holder at a time, and while it is held only a context that      *)
(* never uses it may take the processor away from the holder.  A context   *)
(* is an execution level: 0 is TASK_LEVEL, 1 IRQ_LEVEL, 2 FIQ_LEVEL.       *)
(***************************************************************************)
EXTENDS Integers

CONSTANTS
    Locks,              \* the spin locks
    Target              \* m_nTargetLevel: the highest level that uses a lock

Levels == 0..2

\* Not a level.
Free == -1

VARIABLES
    running,            \* the context that has the processor
    holder              \* of each lock

vars == <<running, holder>>

Init == running = 0 /\ holder = [l \in Locks |-> Free]

Acquire(l) ==
    /\ running <= Target[l]
    /\ holder[l] = Free
    /\ holder' = [holder EXCEPT ![l] = running]
    /\ UNCHANGED running

Release(l) ==
    /\ holder[l] = running
    /\ holder' = [holder EXCEPT ![l] = Free]
    /\ UNCHANGED running

\* A context above the running one takes the processor; nobody below holds a
\* lock that it may use.
Preempt(c) ==
    /\ c > running
    /\ \A l \in Locks : holder[l] # Free => Target[l] < c
    /\ running' = c
    /\ UNCHANGED holder

\* It gives the processor back and holds nothing any more.
Return(c) ==
    /\ c < running
    /\ \A l \in Locks : holder[l] # running
    /\ running' = c
    /\ UNCHANGED holder

Next ==
    \/ \E l \in Locks : Acquire(l) \/ Release(l)
    \/ \E c \in Levels : Preempt(c) \/ Return(c)

Spec == Init /\ [][Next]_vars
=============================================================================
