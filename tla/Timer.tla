--------------------------------- MODULE Timer ---------------------------------
(***************************************************************************)
(* CTimer (timer.cpp) on the 1 MHz system timer: the interrupt handler     *)
(* that moves the compare register on, the counts of ticks and seconds it  *)
(* keeps, a time stamp (GetTimeString, GetUptime, GetLocalTime) and        *)
(* SimpleusDelay, which MsDelay and usDelay call.                          *)
(*                                                                         *)
(* The counter CLO wraps, and match 3 is set at the moment it equals C3:   *)
(* a compare value that is left behind does not match before the counter   *)
(* has gone all the way round.  Time passes in halves of a microsecond, so *)
(* that a call may come between two values of the counter.                 *)
(*                                                                         *)
(* No kernel timer and no periodic handler is registered in this program.  *)
(***************************************************************************)
EXTENDS Integers

CONSTANTS
    ClockSize,          \* values of CLO (2^32)
    Start,              \* CLO after Initialize, close to its end
    Period,             \* CLOCKHZ / HZ
    HZ,                 \* ticks of a second
    Seconds,            \* values of m_nTime
    Delays,             \* the nMicroSeconds that are used
    MaxLatency,         \* microseconds until a match is served, at most
    MaxGap              \* microseconds a delay is over before its loop looks

ASSUME ClockAssumption ==
    /\ ClockSize \in Nat /\ Period \in Nat \ {0} /\ HZ \in Nat \ {0}
    /\ Start \in 0..(ClockSize - 1) /\ Seconds \in Nat \ {0}
    /\ MaxLatency \in Nat /\ 2 * (MaxLatency + Period + 4) < ClockSize

ASSUME DelayAssumption ==
    /\ MaxGap \in Nat \ {0}
    /\ \A d \in Delays : d \in Nat \ {0} /\ d + 1 + MaxGap < ClockSize

VARIABLES
    CLO, half,          \* the counter, and the half microsecond in it
    C3, M3,             \* the compare register and its match flag
    irq, nCompare,      \* the handler
    ticked,             \* CLO has changed since the handler's last access
    late,               \* microseconds since the match that is not served yet
    m_nTicks, m_nTime,  \* modulo HZ * Seconds and Seconds; m_nUptime = m_nTime
    pc, masked,         \* the main loop, and m_TimeSpinLock held by it
    nTime, nTicks,      \* locals of a time stamp
    nMicroSeconds, nStartTicks,     \* of SimpleusDelay
    elapsed             \* halves since it began, up to what was asked for

clockVars == <<CLO, half, M3>>
irqVars   == <<C3, irq, nCompare, m_nTicks, m_nTime>>
stampVars == <<nTime, nTicks, masked>>
delayVars == <<nMicroSeconds, nStartTicks>>
vars == <<clockVars, irqVars, ticked, late, pc, stampVars, delayVars, elapsed>>

Init ==
    /\ CLO = Start /\ half \in 0..1
    /\ C3 = (Start + Period) % ClockSize /\ M3 = FALSE
    /\ irq = "idle" /\ nCompare = 0 /\ ticked = FALSE /\ late = 0
    /\ m_nTicks = 0 /\ m_nTime = 0
    /\ pc = "run" /\ masked = FALSE /\ nTime = 0 /\ nTicks = 0
    /\ nMicroSeconds = 0 /\ nStartTicks = 0 /\ elapsed = 0

-----------------------------------------------------------------------------
(* The system timer.                                                       *)

\* The handler takes less than a microsecond from one access to the next.
Prompt == ~(irq \in {"add", "test", "ack"} /\ ticked)

DelayTicks_exact == nMicroSeconds

\* nMicroSeconds * (CLOCKHZ / 1000000) + 1
DelayTicks == nMicroSeconds + 1

\* SimpleusDelay looks at CLO at the latest MaxGap microseconds after the end.
LooksInTime ==
    pc = "delay" => (CLO - nStartTicks) % ClockSize < DelayTicks + MaxGap

Clock ==
    /\ half' = 1 - half
    /\ IF half = 0 THEN UNCHANGED <<CLO, M3, ticked, late>>
       ELSE /\ Prompt /\ LooksInTime /\ (M3 => late < MaxLatency)
            /\ CLO' = (CLO + 1) % ClockSize
            /\ M3' = (M3 \/ CLO' = C3)
            /\ ticked' = (irq \in {"add", "test", "ack"})
            /\ late' = IF M3 THEN late + 1 ELSE 0
    /\ elapsed' = IF pc = "delay" /\ elapsed < 2 * nMicroSeconds
                  THEN elapsed + 1 ELSE elapsed
    /\ UNCHANGED <<irqVars, pc, stampVars, delayVars>>

-----------------------------------------------------------------------------
(* InterruptHandler.                                                       *)

Handler(at, next) ==
    /\ irq = at /\ irq' = next
    /\ ticked' = FALSE
    /\ UNCHANGED <<CLO, half, pc, stampVars, delayVars, elapsed>>

InterruptHandler ==
    /\ M3 /\ ~masked
    /\ Handler("idle", "add")
    /\ nCompare' = C3
    /\ UNCHANGED <<M3, C3, late, m_nTicks, m_nTime>>

AddPeriod ==
    /\ Handler("add", "test")
    /\ nCompare' = (nCompare + Period) % ClockSize
    /\ C3' = nCompare'
    /\ UNCHANGED <<M3, late, m_nTicks, m_nTime>>

\* (int) of an unsigned.
Signed(n) == IF 2 * n < ClockSize THEN n ELSE n - ClockSize

StillBehind_one == Signed((nCompare - CLO) % ClockSize) < 1

StillBehind == Signed((nCompare - CLO) % ClockSize) < 2

TestAhead ==
    /\ Handler("test", IF StillBehind THEN "add" ELSE "ack")
    /\ UNCHANGED <<M3, C3, nCompare, late, m_nTicks, m_nTime>>

Acknowledge ==
    /\ Handler("ack", "count")
    /\ M3' = FALSE /\ late' = 0
    /\ UNCHANGED <<C3, nCompare, m_nTicks, m_nTime>>

\* Under m_TimeSpinLock, which an IRQ handler always gets on one core.
CountTick ==
    /\ Handler("count", "idle")
    /\ nCompare' = 0
    /\ m_nTicks' = (m_nTicks + 1) % (HZ * Seconds)
    /\ m_nTime' = IF m_nTicks' % HZ = 0 THEN (m_nTime + 1) % Seconds ELSE m_nTime
    /\ UNCHANGED <<M3, C3, late>>

-----------------------------------------------------------------------------
(* The main loop.                                                          *)

Main(at, next) ==
    /\ irq = "idle"
    /\ pc = at /\ pc' = next
    /\ UNCHANGED <<clockVars, irqVars, ticked, late>>

Locked_not == FALSE

Locked == TRUE

\* m_TimeSpinLock.Acquire ()
Stamp ==
    /\ Main("run", "readTime")
    /\ masked' = Locked
    /\ UNCHANGED <<nTime, nTicks, delayVars, elapsed>>

ReadTime ==
    /\ Main("readTime", "readTicks")
    /\ nTime' = m_nTime
    /\ UNCHANGED <<nTicks, masked, delayVars, elapsed>>

ReadTicks ==
    /\ Main("readTicks", "stamped")
    /\ nTicks' = m_nTicks
    /\ UNCHANGED <<nTime, masked, delayVars, elapsed>>

\* m_TimeSpinLock.Release ()
Stamped ==
    /\ Main("stamped", "run")
    /\ masked' = FALSE
    /\ nTime' = 0 /\ nTicks' = 0
    /\ UNCHANGED <<delayVars, elapsed>>

\* SimpleusDelay, up to its first look at CLO.
Delay ==
    /\ Main("run", "delay")
    /\ nMicroSeconds' \in Delays
    /\ nStartTicks' = CLO
    /\ elapsed' = 0
    /\ UNCHANGED stampVars

\* while (read32 (ARM_SYSTIMER_CLO) - nStartTicks < nTicks)
PollDelay ==
    /\ LET over == (CLO - nStartTicks) % ClockSize >= DelayTicks
       IN Main("delay", IF over THEN "delayed" ELSE "delay")
    /\ UNCHANGED <<stampVars, delayVars, elapsed>>

Delayed ==
    /\ Main("delayed", "run")
    /\ nMicroSeconds' = 0 /\ nStartTicks' = 0 /\ elapsed' = 0
    /\ UNCHANGED stampVars

-----------------------------------------------------------------------------
IRQ == InterruptHandler \/ AddPeriod \/ TestAhead \/ Acknowledge \/ CountTick

MainLoop ==
    \/ Stamp \/ ReadTime \/ ReadTicks \/ Stamped
    \/ Delay \/ PollDelay \/ Delayed

Next == Clock \/ IRQ \/ MainLoop

Spec == Init /\ [][Next]_vars

-----------------------------------------------------------------------------
(* Properties.                                                             *)

\* However late a match is served, and across the wrap of the counter, the
\* next one lies ahead, within a period and a microsecond: the handler neither
\* leaves the compare register behind nor acknowledges a match it has not
\* counted on (InterruptHandler's loop and its margin of two).
NextMatchIsAhead ==
    irq \in {"idle", "count"} /\ ~M3 => (C3 - CLO) % ClockSize \in 1..(Period + 1)

\* Seconds and ticks of a time stamp belong to the same moment (the lock in
\* GetTimeString, GetUptime and GetLocalTime against the handler).
TimeStampIsConsistent == pc = "stamped" => nTime = nTicks \div HZ

\* A delay takes at least as long as was asked for, wherever in a microsecond
\* it begins and whether or not the counter wraps (SimpleusDelay's + 1).
DelayIsLongEnough == pc = "delayed" => elapsed >= 2 * nMicroSeconds

TypeOK ==
    /\ CLO \in 0..(ClockSize - 1) /\ half \in 0..1
    /\ C3 \in 0..(ClockSize - 1) /\ M3 \in BOOLEAN
    /\ irq \in {"idle", "add", "test", "ack", "count"}
    /\ nCompare \in 0..(ClockSize - 1)
    /\ ticked \in BOOLEAN /\ late \in 0..MaxLatency
    /\ m_nTicks \in 0..(HZ * Seconds - 1) /\ m_nTime \in 0..(Seconds - 1)
    /\ pc \in {"run", "readTime", "readTicks", "stamped", "delay", "delayed"}
    /\ masked \in BOOLEAN

\* C3 is n microseconds ahead of CLO, behind it for a negative n.
Ahead(n) == C3 - CLO \in {n, n + ClockSize, n - ClockSize}

\* A match is set when C3 is reached; until it is served C3 falls behind, and
\* the handler acknowledges it only with C3 ahead again.
CompareInv ==
    /\ irq \in {"add", "test", "ack"} => M3
    /\ irq \in {"add", "test"} => nCompare = C3
    /\ \E n \in -MaxLatency..(Period + 1) :
           /\ Ahead(n)
           /\ ~M3 => n >= 1
           /\ M3 /\ irq \in {"idle", "count"} => n = -late
           /\ M3 => n >= -late
           /\ irq = "add" => n <= 1
           /\ irq = "ack" => n >= (IF ticked THEN 1 ELSE 2)

\* The counts belong together outside of the handler's own step, and the
\* handler stays out while a time stamp is taken.
StampInv ==
    /\ m_nTicks - HZ * m_nTime \in 0..(HZ - 1)
    /\ pc \in {"readTime", "readTicks", "stamped"} => masked /\ irq = "idle"
    /\ pc \in {"readTicks", "stamped"} => nTime = m_nTime
    /\ pc = "stamped" => nTicks = m_nTicks

\* A delay that has seen k ticks of the counter has taken at least 2 * k - 1
\* halves of a microsecond.
DelayInv ==
    /\ pc \in {"delay", "delayed"} => nMicroSeconds \in Delays
    /\ pc = "delay" => LET k == (CLO - nStartTicks) % ClockSize
                       IN /\ nStartTicks \in 0..(ClockSize - 1)
                          /\ k <= DelayTicks + MaxGap
                          /\ elapsed \in 0..(2 * nMicroSeconds)
                          /\ elapsed = 2 * nMicroSeconds \/ elapsed >= 2 * k + half - 1
    /\ pc = "delayed" => elapsed >= 2 * nMicroSeconds

\* The inductive invariant: where the compare register is (InterruptHandler),
\* what a time stamp has read, how long a delay has taken (SimpleusDelay).
IInv == TypeOK /\ CompareInv /\ StampInv /\ DelayInv
=============================================================================
