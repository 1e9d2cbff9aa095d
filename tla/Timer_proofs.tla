------------------------------ MODULE Timer_proofs ------------------------------
(***************************************************************************)
(* Proofs about Timer for every size of the counter, period, number of     *)
(* ticks of a second and set of delays: IInv is inductive, and it gives    *)
(* the three properties of the run.                                        *)
(***************************************************************************)
EXTENDS Timer, TLAPS

-----------------------------------------------------------------------------
(* Facts about % that the solvers need as lemmas.                          *)

\* A positive multiple of m is at least m.
LEMMA PositiveMultiple ==
  ASSUME NEW m \in Nat \ {0}, NEW d \in Int, d >= 1
  PROVE  m * d >= m
  BY SMT

\* Quotient and remainder.
LEMMA DivMod ==
  ASSUME NEW m \in Nat \ {0}, NEW x \in Int
  PROVE  /\ x = (m * (x \div m)) + (x % m)
         /\ x % m \in 0..m - 1
         /\ x \div m \in Int
  BY SMT

\* A number written as a multiple of m and a rest has this rest.
LEMMA RemainderOf ==
  ASSUME NEW m \in Nat \ {0}, NEW q \in Int, NEW r \in 0..m - 1
  PROVE  (m * q + r) % m = r
  BY SMT

-----------------------------------------------------------------------------

\* The assumptions on the constants, under one name.
LEMMA Constants ==
  /\ ClockSize \in Nat /\ Period \in Nat \ {0} /\ HZ \in Nat \ {0}
  /\ Start \in 0..(ClockSize - 1) /\ Seconds \in Nat \ {0}
  /\ MaxLatency \in Nat /\ 2 * (MaxLatency + Period + 4) < ClockSize
  /\ MaxGap \in Nat \ {0}
  /\ \A d \in Delays : d \in Nat \ {0} /\ d + 1 + MaxGap < ClockSize
  BY ClockAssumption, DelayAssumption

\* The remainder of a number that is less than one turn away.
LEMMA Turn ==
  ASSUME NEW m \in Nat \ {0}, NEW x \in Int
  PROVE  /\ x \in 0..(m - 1) => x % m = x
         /\ x + m \in 0..(m - 1) => x % m = x + m
         /\ x - m \in 0..(m - 1) => x % m = x - m
  <1>1. ASSUME x \in 0..(m - 1) PROVE x % m = x
    <2>1. (m * 0 + x) % m = x
      BY <1>1, RemainderOf
    <2> QED
      BY <2>1
  <1>2. ASSUME x + m \in 0..(m - 1) PROVE x % m = x + m
    <2>1. (m * (-1) + (x + m)) % m = x + m
      BY <1>2, RemainderOf
    <2>2. m * (-1) + (x + m) = x
      OBVIOUS
    <2> QED
      BY <2>1, <2>2
  <1>3. ASSUME x - m \in 0..(m - 1) PROVE x % m = x - m
    <2>1. (m * 1 + (x - m)) % m = x - m
      BY <1>3, RemainderOf
    <2>2. m * 1 + (x - m) = x
      OBVIOUS
    <2> QED
      BY <2>1, <2>2
  <1> QED
    BY <1>1, <1>2, <1>3

\* The difference of two values of the counter.
LEMMA Difference ==
  ASSUME NEW a \in 0..(ClockSize - 1), NEW b \in 0..(ClockSize - 1)
  PROVE  /\ (a - b) % ClockSize \in 0..(ClockSize - 1)
         /\ a >= b => (a - b) % ClockSize = a - b
         /\ a < b => (a - b) % ClockSize = a - b + ClockSize
  <1>1. ClockSize \in Nat \ {0} /\ a - b \in Int
    BY Constants
  <1>2. a >= b => a - b \in 0..(ClockSize - 1)
    BY <1>1
  <1>3. a < b => (a - b) + ClockSize \in 0..(ClockSize - 1)
    BY <1>1
  <1> QED
    BY <1>1, <1>2, <1>3, Turn

\* A sum that is less than two turns.
LEMMA SumTurn ==
  ASSUME NEW m \in Nat \ {0}, NEW a \in 0..(m - 1), NEW b \in 0..(m - 1)
  PROVE  /\ (a + b) % m \in 0..(m - 1)
         /\ (a + b) % m \in {a + b, a + b - m}
  <1>1. a + b \in Int
    OBVIOUS
  <1>2. CASE a + b < m
    <2>1. (m * 0 + (a + b)) % m = a + b
      BY <1>1, <1>2, RemainderOf
    <2> QED
      BY <1>2, <2>1
  <1>3. CASE a + b >= m
    <2>1. (m * 1 + (a + b - m)) % m = a + b - m
      BY <1>1, <1>3, RemainderOf
    <2>2. m * 1 + (a + b - m) = a + b
      BY <1>1
    <2> QED
      BY <1>3, <2>1, <2>2
  <1> QED
    BY <1>1, <1>2, <1>3

\* One microsecond later.
LEMMA Tick ==
  ASSUME NEW a \in 0..(ClockSize - 1)
  PROVE  /\ (a + 1) % ClockSize \in 0..(ClockSize - 1)
         /\ (a + 1) % ClockSize \in {a + 1, a + 1 - ClockSize}
  <1>1. ClockSize \in Nat \ {0} /\ 1 \in 0..(ClockSize - 1)
    BY Constants
  <1> QED
    BY <1>1, SumTurn

\* One period further.
LEMMA PeriodFurther ==
  ASSUME NEW a \in 0..(ClockSize - 1)
  PROVE  /\ (a + Period) % ClockSize \in 0..(ClockSize - 1)
         /\ (a + Period) % ClockSize \in {a + Period, a + Period - ClockSize}
  <1>1. ClockSize \in Nat \ {0} /\ Period \in 0..(ClockSize - 1)
    BY Constants
  <1> QED
    BY <1>1, SumTurn

\* A compare value that is near is found where it is.
LEMMA SignedAhead ==
  ASSUME TypeOK, NEW n \in -MaxLatency..(Period + 1), Ahead(n)
  PROVE  /\ Signed((C3 - CLO) % ClockSize) = n
         /\ n >= 0 => (C3 - CLO) % ClockSize = n
  <1>1. C3 \in 0..(ClockSize - 1) /\ CLO \in 0..(ClockSize - 1)
    BY DEF TypeOK
  <1>2. /\ C3 >= CLO => (C3 - CLO) % ClockSize = C3 - CLO
        /\ C3 < CLO => (C3 - CLO) % ClockSize = C3 - CLO + ClockSize
    BY <1>1, Difference
  <1>3. PICK e \in Int : e = (C3 - CLO) % ClockSize
    BY <1>1, Difference
  <1>4. n >= 0 => e = n
    BY <1>1, <1>2, <1>3, Constants DEF Ahead
  <1>5. n < 0 => e = n + ClockSize
    BY <1>1, <1>2, <1>3, Constants DEF Ahead
  <1>6. Signed(e) = n
    BY <1>4, <1>5, Constants DEF Signed
  <1> QED
    BY <1>3, <1>4, <1>6

\* The initial state: the first match is a period ahead.
LEMMA InitIInv == Init => IInv
  <1> SUFFICES ASSUME Init PROVE IInv
    OBVIOUS
  <1>1. TypeOK
    <2>1. C3 \in 0..(ClockSize - 1)
      BY PeriodFurther, Constants DEF Init
    <2>2. 0 \in 0..(HZ * Seconds - 1)
      <3>1. HZ * Seconds >= HZ
        BY PositiveMultiple, Constants
      <3> QED
        BY <3>1, Constants
    <2>3. /\ CLO \in 0..(ClockSize - 1) /\ 0 \in 0..(ClockSize - 1)
          /\ 0 \in 0..(Seconds - 1) /\ 0 \in 0..MaxLatency
      BY Constants DEF Init
    <2> QED
      BY <2>1, <2>2, <2>3 DEF Init, TypeOK
  <1>2. CompareInv
    <2>1. Ahead(Period)
      BY PeriodFurther, Constants DEF Init, Ahead
    <2>2. Period \in -MaxLatency..(Period + 1) /\ Period >= 1
      BY Constants
    <2> QED
      BY <2>1, <2>2 DEF Init, CompareInv
  <1>3. StampInv
    BY Constants DEF Init, StampInv
  <1>4. DelayInv
    BY DEF Init, DelayInv
  <1> QED
    BY <1>1, <1>2, <1>3, <1>4 DEF IInv

-----------------------------------------------------------------------------
(* Time passes.                                                            *)

\* The first half of a microsecond.
LEMMA HalfStep == IInv /\ Clock /\ half = 0 => IInv'
  <1> SUFFICES ASSUME IInv, Clock, half = 0 PROVE IInv'
    OBVIOUS
  <1>1. /\ half' = 1 /\ UNCHANGED <<CLO, M3, ticked, late, C3, irq, nCompare>>
        /\ UNCHANGED <<m_nTicks, m_nTime, pc, nTime, nTicks, masked>>
        /\ UNCHANGED <<nMicroSeconds, nStartTicks>>
        /\ elapsed' = IF pc = "delay" /\ elapsed < 2 * nMicroSeconds
                      THEN elapsed + 1 ELSE elapsed
    BY DEF Clock, irqVars, stampVars, delayVars
  <1>2. TypeOK' /\ CompareInv' /\ StampInv'
    BY <1>1 DEF IInv, TypeOK, CompareInv, Ahead, StampInv
  <1>3. DelayInv'
    <2>1. CASE pc = "delay"
      <3>1. PICK k \in Int : k = (CLO - nStartTicks) % ClockSize
        BY <2>1, Difference DEF IInv, TypeOK, DelayInv
      <3>2. k = ((CLO - nStartTicks) % ClockSize)'
        BY <1>1, <3>1
      <3>3. /\ nMicroSeconds \in Delays /\ nMicroSeconds \in Nat
            /\ nStartTicks \in 0..(ClockSize - 1)
            /\ k <= nMicroSeconds + 1 + MaxGap
            /\ elapsed \in 0..(2 * nMicroSeconds)
            /\ elapsed = 2 * nMicroSeconds \/ elapsed >= 2 * k - 1
        BY <2>1, <3>1, Constants DEF IInv, DelayInv, DelayTicks
      <3>4. /\ elapsed' \in 0..(2 * nMicroSeconds)
            /\ elapsed' = 2 * nMicroSeconds \/ elapsed' >= 2 * k
        BY <1>1, <2>1, <3>3
      <3> QED
        BY <1>1, <2>1, <3>2, <3>3, <3>4, Constants DEF DelayInv, DelayTicks
    <2>2. CASE pc # "delay"
      BY <1>1, <2>2 DEF IInv, DelayInv
    <2> QED
      BY <2>1, <2>2
  <1> QED
    BY <1>2, <1>3 DEF IInv

\* The second half: the counter goes on, and the match flag is set when it
\* reaches the compare register.
LEMMA TickStep == IInv /\ Clock /\ half = 1 => IInv'
  <1> SUFFICES ASSUME IInv, Clock, half = 1 PROVE IInv'
    OBVIOUS
  <1>1. /\ half' = 0 /\ Prompt /\ LooksInTime /\ (M3 => late < MaxLatency)
        /\ CLO' = (CLO + 1) % ClockSize
        /\ M3' = (M3 \/ CLO' = C3)
        /\ ticked' = (irq \in {"add", "test", "ack"})
        /\ late' = IF M3 THEN late + 1 ELSE 0
        /\ UNCHANGED <<C3, irq, nCompare, m_nTicks, m_nTime>>
        /\ UNCHANGED <<pc, nTime, nTicks, masked, nMicroSeconds, nStartTicks>>
        /\ elapsed' = IF pc = "delay" /\ elapsed < 2 * nMicroSeconds
                      THEN elapsed + 1 ELSE elapsed
    BY DEF Clock, irqVars, stampVars, delayVars
  <1>2. /\ CLO \in 0..(ClockSize - 1) /\ C3 \in 0..(ClockSize - 1)
        /\ CLO' \in 0..(ClockSize - 1)
        /\ CLO' \in {CLO + 1, CLO + 1 - ClockSize}
        /\ late \in 0..MaxLatency /\ M3 \in BOOLEAN
    BY <1>1, Tick DEF IInv, TypeOK
  <1>3. TypeOK'
    <2>1. late' \in 0..MaxLatency
      BY <1>1, <1>2, Constants
    <2>2. M3' \in BOOLEAN /\ ticked' \in BOOLEAN /\ half' \in 0..1
      BY <1>1
    <2> QED
      BY <1>1, <1>2, <2>1, <2>2 DEF IInv, TypeOK
  <1>4. CompareInv'
    <2>1. PICK n \in -MaxLatency..(Period + 1) :
             /\ Ahead(n)
             /\ ~M3 => n >= 1
             /\ M3 /\ irq \in {"idle", "count"} => n = -late
             /\ M3 => n >= -late
             /\ irq = "add" => n <= 1
             /\ irq = "ack" => n >= (IF ticked THEN 1 ELSE 2)
      BY DEF IInv, CompareInv
    <2>2. n \in Int /\ n - 1 \in Int
      BY Constants
    <2>3. /\ C3 - CLO' \in {n - 1, n - 1 + ClockSize, n - 1 - ClockSize}
          /\ n = 1 => CLO' = C3
      <3>1. n < ClockSize - 1 /\ n > 1 - ClockSize /\ ClockSize \in Nat
        BY <2>1, Constants
      <3>2. C3 - CLO \in {n, n + ClockSize, n - ClockSize}
        BY <2>1 DEF Ahead
      <3>3. C3 \in 0..(ClockSize - 1) /\ CLO \in 0..(ClockSize - 1)
        BY <1>2
      <3>4. CLO' \in 0..(ClockSize - 1) /\ CLO' \in {CLO + 1, CLO + 1 - ClockSize}
        BY <1>2
      <3>5. PICK m \in Nat, c \in Nat, a \in Nat, b \in Nat :
               m = ClockSize /\ c = C3 /\ a = CLO /\ b = CLO'
        BY <3>1, <3>3, <3>4
      <3>6. /\ c < m /\ a < m /\ b < m /\ n < m - 1 /\ n > 1 - m
            /\ c - a = n \/ c - a = n + m \/ c - a = n - m
            /\ b = a + 1 \/ b = a + 1 - m
        BY <3>1, <3>2, <3>3, <3>4, <3>5
      <3>7. /\ c - b = n - 1 \/ c - b = n - 1 + m \/ c - b = n - 1 - m
            /\ n = 1 => b = c
        BY <2>2, <3>6
      <3> QED
        BY <3>5, <3>7
    <2>4. Ahead(n - 1)'
      BY <1>1, <2>3 DEF Ahead
    <2>5. n - 1 \in -MaxLatency..(Period + 1)
      BY <1>1, <1>2, <2>1, <2>2, Constants
    <2>6. ~M3' => n - 1 >= 1
      <3> SUFFICES ASSUME ~M3' PROVE n - 1 >= 1
        OBVIOUS
      <3>1. n >= 1 /\ CLO' # C3
        BY <1>1, <2>1
      <3>2. n # 1
        BY <2>3, <3>1
      <3> QED
        BY <2>2, <3>1, <3>2
    <2>7. M3' => n - 1 >= -late'
      BY <1>1, <1>2, <2>1, <2>2
    <2>8. M3' /\ irq \in {"idle", "count"} => n - 1 = -late'
      <3>1. CASE M3
        BY <1>1, <1>2, <2>1, <2>2, <3>1
      <3>2. CASE ~M3
        BY <1>1, <1>2, <2>1, <2>2, <2>3, <3>2, Constants
      <3> QED
        BY <3>1, <3>2
    <2>9. irq = "ack" => n - 1 >= 1 /\ ticked' = TRUE
      <3>1. irq = "ack" => ~ticked /\ ticked' = TRUE
        BY <1>1 DEF Prompt
      <3> QED
        BY <2>1, <2>2, <3>1
    <2>10. irq \in {"add", "test", "ack"} => M3'
      BY <1>1 DEF IInv, CompareInv
    <2> QED
      BY <1>1, <2>1, <2>2, <2>4, <2>5, <2>6, <2>7, <2>8, <2>9, <2>10
         DEF IInv, CompareInv
  <1>5. StampInv'
    BY <1>1 DEF IInv, StampInv
  <1>6. DelayInv'
    <2>1. CASE pc = "delay"
      <3>0. nStartTicks \in 0..(ClockSize - 1)
        BY <2>1 DEF IInv, DelayInv
      <3>1. PICK k \in 0..(ClockSize - 1) : k = (CLO - nStartTicks) % ClockSize
        BY <1>2, <3>0, Difference
      <3>2. /\ nMicroSeconds \in Delays /\ nMicroSeconds \in Nat
            /\ nMicroSeconds + 1 + MaxGap < ClockSize
            /\ k < nMicroSeconds + 1 + MaxGap
            /\ elapsed \in 0..(2 * nMicroSeconds)
            /\ elapsed = 2 * nMicroSeconds \/ elapsed >= 2 * k
        BY <1>1, <2>1, <3>1, Constants DEF IInv, DelayInv, DelayTicks, LooksInTime
      <3>3. k + 1 = (CLO' - nStartTicks) % ClockSize
        <4>1. /\ CLO >= nStartTicks => k = CLO - nStartTicks
              /\ CLO < nStartTicks => k = CLO - nStartTicks + ClockSize
          BY <1>2, <3>0, <3>1, Difference
        <4>2. /\ CLO' >= nStartTicks => (CLO' - nStartTicks) % ClockSize = CLO' - nStartTicks
              /\ CLO' < nStartTicks =>
                     (CLO' - nStartTicks) % ClockSize = CLO' - nStartTicks + ClockSize
          BY <1>2, <3>0, Difference
        <4>3. k + 1 < ClockSize
          BY <3>2, Constants
        <4> QED
          BY <1>2, <3>0, <4>1, <4>2, <4>3, Constants
      <3>4. k + 1 = ((CLO - nStartTicks) % ClockSize)'
        BY <1>1, <3>3
      <3>5. /\ elapsed' \in 0..(2 * nMicroSeconds)
            /\ elapsed' = 2 * nMicroSeconds \/ elapsed' >= 2 * (k + 1) - 1
        BY <1>1, <2>1, <3>1, <3>2
      <3> QED
        BY <1>1, <2>1, <3>0, <3>1, <3>2, <3>4, <3>5, Constants DEF DelayInv, DelayTicks
    <2>2. CASE pc # "delay"
      BY <1>1, <2>2 DEF IInv, DelayInv
    <2> QED
      BY <2>1, <2>2
  <1> QED
    BY <1>3, <1>4, <1>5, <1>6 DEF IInv

-----------------------------------------------------------------------------
(* InterruptHandler.                                                       *)

\* A step of the handler keeps time and main loop as they are.
LEMMA HandlerKeepsDelay ==
  ASSUME IInv, NEW at, NEW next, Handler(at, next)
  PROVE  DelayInv'
  <1>1. UNCHANGED <<CLO, half, pc, nMicroSeconds, nStartTicks, elapsed>>
    BY DEF Handler, delayVars
  <1> QED
    BY <1>1 DEF IInv, DelayInv, DelayTicks

\* A step of the handler before its last one leaves the counts alone; a time
\* stamp that is taken has masked the handler's entry.
LEMMA HandlerKeepsStamp ==
  ASSUME IInv, NEW at, NEW next, Handler(at, next),
         UNCHANGED <<m_nTicks, m_nTime>>, at = "idle" => ~masked
  PROVE  StampInv'
  BY DEF IInv, StampInv, Handler, stampVars

\* The handler is entered with C3 behind by the time that has passed.
LEMMA InterruptHandlerStep == IInv /\ InterruptHandler => IInv'
  <1> SUFFICES ASSUME IInv, InterruptHandler PROVE IInv'
    OBVIOUS
  <1>1. /\ M3 /\ ~masked /\ irq = "idle" /\ irq' = "add" /\ nCompare' = C3
        /\ ticked' = FALSE
        /\ UNCHANGED <<CLO, half, C3, M3, late, m_nTicks, m_nTime, pc, masked>>
    BY DEF InterruptHandler, Handler, stampVars
  <1>2. TypeOK'
    BY <1>1 DEF IInv, TypeOK
  <1>3. CompareInv'
    <2>1. PICK n \in -MaxLatency..(Period + 1) : Ahead(n) /\ n = -late
      BY <1>1 DEF IInv, CompareInv
    <2>2. Ahead(n)' /\ n >= -late /\ n <= 1
      BY <1>1, <2>1 DEF IInv, TypeOK, Ahead
    <2> QED
      BY <1>1, <2>1, <2>2 DEF CompareInv
  <1>4. StampInv' /\ DelayInv'
    BY <1>1, HandlerKeepsStamp, HandlerKeepsDelay DEF InterruptHandler
  <1> QED
    BY <1>2, <1>3, <1>4 DEF IInv

\* C3 is moved on by a period.
LEMMA AddPeriodStep == IInv /\ AddPeriod => IInv'
  <1> SUFFICES ASSUME IInv, AddPeriod PROVE IInv'
    OBVIOUS
  <1>1. /\ irq = "add" /\ irq' = "test" /\ M3 /\ nCompare = C3
        /\ nCompare' = (C3 + Period) % ClockSize /\ C3' = nCompare'
        /\ ticked' = FALSE
        /\ UNCHANGED <<CLO, half, M3, late, m_nTicks, m_nTime, pc, masked>>
    BY DEF AddPeriod, Handler, stampVars, IInv, CompareInv
  <1>2. /\ CLO \in 0..(ClockSize - 1) /\ C3 \in 0..(ClockSize - 1)
        /\ C3' \in 0..(ClockSize - 1)
        /\ C3' \in {C3 + Period, C3 + Period - ClockSize}
    BY <1>1, PeriodFurther DEF IInv, TypeOK
  <1>3. TypeOK'
    BY <1>1, <1>2 DEF IInv, TypeOK
  <1>4. CompareInv'
    <2>1. PICK n \in -MaxLatency..(Period + 1) : Ahead(n) /\ n >= -late /\ n <= 1
      BY <1>1 DEF IInv, CompareInv
    <2>2. PICK m \in Nat, p \in Nat, c \in Nat, d \in Nat, a \in Nat :
             m = ClockSize /\ p = Period /\ c = C3 /\ d = C3' /\ a = CLO
      BY <1>2, Constants
    <2>3. /\ c < m /\ d < m /\ a < m /\ p >= 1
          /\ c - a = n \/ c - a = n + m \/ c - a = n - m
          /\ d = c + p \/ d = c + p - m
      BY <1>2, <2>1, <2>2, Constants DEF Ahead
    <2>4. n \in Int /\ n + p < m /\ n + p > -m /\ n > -m
      BY <2>1, <2>2, Constants
    <2>5. d - a = n + p \/ d - a = n + p + m \/ d - a = n + p - m
      BY <2>1, <2>3, <2>4
    <2>6. Ahead(n + Period)'
      BY <1>1, <2>2, <2>5 DEF Ahead
    <2>7. n + Period \in -MaxLatency..(Period + 1) /\ n + Period >= -late
      BY <2>1, <2>4, Constants DEF IInv, TypeOK
    <2> QED
      BY <1>1, <2>6, <2>7 DEF CompareInv
  <1>5. StampInv' /\ DelayInv'
    BY HandlerKeepsStamp, HandlerKeepsDelay DEF AddPeriod
  <1> QED
    BY <1>3, <1>4, <1>5 DEF IInv

\* The loop ends only with C3 two microseconds ahead or more.
LEMMA TestAheadStep == IInv /\ TestAhead => IInv'
  <1> SUFFICES ASSUME IInv, TestAhead PROVE IInv'
    OBVIOUS
  <1>1. /\ irq = "test" /\ irq' = IF StillBehind THEN "add" ELSE "ack"
        /\ M3 /\ nCompare = C3 /\ ticked' = FALSE
        /\ UNCHANGED <<CLO, half, C3, M3, nCompare, late, m_nTicks, m_nTime>>
    BY DEF TestAhead, Handler, IInv, CompareInv
  <1>2. TypeOK'
    <2>1. pc' = pc /\ masked' = masked
      BY DEF TestAhead, Handler, stampVars
    <2> QED
      BY <1>1, <2>1 DEF IInv, TypeOK
  <1>3. CompareInv'
    <2>1. PICK n \in -MaxLatency..(Period + 1) : Ahead(n) /\ n >= -late
      BY <1>1 DEF IInv, CompareInv
    <2>2. StillBehind <=> n < 2
      <3>1. Signed((C3 - CLO) % ClockSize) = n
        BY <2>1, SignedAhead DEF IInv
      <3> QED
        BY <1>1, <3>1, Zenon DEF StillBehind
    <2>3. Ahead(n)'
      BY <1>1, <2>1 DEF Ahead
    <2>4. (irq' = "add" => n <= 1) /\ (irq' = "ack" => n >= 2)
      BY <1>1, <2>1, <2>2, Constants
    <2> QED
      BY <1>1, <2>1, <2>3, <2>4 DEF CompareInv
  <1>4. StampInv' /\ DelayInv'
    BY <1>1, HandlerKeepsStamp, HandlerKeepsDelay DEF TestAhead
  <1> QED
    BY <1>2, <1>3, <1>4 DEF IInv

\* The match is acknowledged before C3 can be reached.
LEMMA AcknowledgeStep == IInv /\ Acknowledge => IInv'
  <1> SUFFICES ASSUME IInv, Acknowledge PROVE IInv'
    OBVIOUS
  <1>1. /\ irq = "ack" /\ irq' = "count" /\ M3' = FALSE /\ late' = 0
        /\ ticked' = FALSE
        /\ UNCHANGED <<CLO, half, C3, nCompare, m_nTicks, m_nTime, pc, masked>>
    BY DEF Acknowledge, Handler, stampVars
  <1>2. TypeOK'
    <2>1. 0 \in 0..MaxLatency
      BY Constants
    <2> QED
      BY <1>1, <2>1 DEF IInv, TypeOK
  <1>3. CompareInv'
    <2>1. PICK n \in -MaxLatency..(Period + 1) :
             Ahead(n) /\ n >= (IF ticked THEN 1 ELSE 2)
      BY <1>1 DEF IInv, CompareInv
    <2>2. Ahead(n)' /\ n >= 1
      BY <1>1, <2>1, Constants DEF Ahead
    <2> QED
      BY <1>1, <2>1, <2>2 DEF CompareInv
  <1>4. StampInv' /\ DelayInv'
    BY <1>1, HandlerKeepsStamp, HandlerKeepsDelay DEF Acknowledge
  <1> QED
    BY <1>2, <1>3, <1>4 DEF IInv

\* A tick is counted, and with the last one of a second the second.
LEMMA CountTickStep == IInv /\ CountTick => IInv'
  <1> SUFFICES ASSUME IInv, CountTick PROVE IInv'
    OBVIOUS
  <1>1. /\ irq = "count" /\ irq' = "idle" /\ nCompare' = 0 /\ ticked' = FALSE
        /\ m_nTicks' = (m_nTicks + 1) % (HZ * Seconds)
        /\ m_nTime' = IF m_nTicks' % HZ = 0 THEN (m_nTime + 1) % Seconds ELSE m_nTime
        /\ UNCHANGED <<CLO, half, C3, M3, late, pc, masked, nTime, nTicks>>
    BY DEF CountTick, Handler, stampVars
  <1>2. PICK h \in Nat \ {0}, s \in Nat \ {0}, t \in Nat, r \in Nat :
           /\ h = HZ /\ s = Seconds /\ t = m_nTime /\ r = m_nTicks - h * t
           /\ t <= s - 1 /\ r <= h - 1
           /\ m_nTicks = h * t + r /\ m_nTicks <= h * s - 1
    BY Constants DEF IInv, TypeOK, StampInv
  <1>3. /\ m_nTicks' \in 0..(HZ * Seconds - 1) /\ m_nTime' \in 0..(Seconds - 1)
        /\ m_nTicks' - HZ * m_nTime' \in 0..(HZ - 1)
    <2>1. PICK w \in Nat \ {0} : w = h * s /\ m_nTicks' = (m_nTicks + 1) % w
      <3>1. h * s >= h
        BY PositiveMultiple
      <3>2. h * s \in Nat \ {0}
        BY <3>1
      <3> QED
        BY <1>1, <1>2, <3>2
    <2>2. CASE r + 1 < h
      <3>1. h * t + (r + 1) < h * s
        <4>1. h * (s - t) >= h
          BY <1>2, PositiveMultiple
        <4>2. h * (s - t) = h * s - h * t
          OBVIOUS
        <4> QED
          BY <2>2, <4>1, <4>2
      <3>2. m_nTicks + 1 = h * t + (r + 1) /\ h * t >= 0
        BY <1>2
      <3>3. m_nTicks' = h * t + (r + 1)
        <4>1. m_nTicks + 1 \in 0..(w - 1)
          BY <2>1, <3>1, <3>2
        <4> QED
          BY <2>1, <3>2, <4>1, Turn
      <3>4. m_nTicks' % h = r + 1
        BY <2>2, <3>3, RemainderOf
      <3>5. m_nTime' = t
        BY <1>1, <1>2, <3>4
      <3> QED
        BY <1>2, <2>2, <3>1, <3>2, <3>3, <3>5
    <2>3. CASE r + 1 = h /\ t + 1 < s
      <3>1. h * (t + 1) < h * s /\ h * (t + 1) = h * t + h
        <4>1. h * (s - (t + 1)) >= h
          BY <2>3, PositiveMultiple
        <4>2. h * (s - (t + 1)) = h * s - h * (t + 1) /\ h * (t + 1) = h * t + h
          OBVIOUS
        <4> QED
          BY <4>1, <4>2
      <3>2. m_nTicks + 1 = h * (t + 1) /\ h * (t + 1) >= 0
        BY <1>2, <2>3, <3>1
      <3>3. m_nTicks' = h * (t + 1)
        <4>1. m_nTicks + 1 \in 0..(w - 1)
          BY <2>1, <3>1, <3>2
        <4> QED
          BY <2>1, <3>2, <4>1, Turn
      <3>4. m_nTicks' % h = 0
        <4>1. (h * (t + 1) + 0) % h = 0
          BY RemainderOf
        <4> QED
          BY <3>3, <4>1
      <3>5. m_nTime' = t + 1
        <4>1. (t + 1) % s = t + 1
          BY <2>3, Turn
        <4> QED
          BY <1>1, <1>2, <3>4, <4>1
      <3> QED
        BY <1>2, <2>3, <3>1, <3>2, <3>3, <3>5
    <2>4. CASE r + 1 = h /\ t + 1 = s
      <3>1. m_nTicks + 1 = h * s
        <4>1. h * s = h * t + h
          BY <2>4
        <4> QED
          BY <1>2, <2>4, <4>1
      <3>2. m_nTicks' = 0
        <4>1. w % w = 0
          BY Turn
        <4> QED
          BY <2>1, <3>1, <4>1
      <3>3. m_nTime' = 0
        <4>1. 0 % h = 0 /\ s % s = 0
          BY Turn
        <4> QED
          BY <1>1, <1>2, <2>4, <3>2, <4>1
      <3> QED
        BY <1>2, <2>1, <3>2, <3>3
    <2> QED
      BY <1>2, <2>2, <2>3, <2>4
  <1>4. TypeOK'
    <2>1. 0 \in 0..(ClockSize - 1)
      BY Constants
    <2> QED
      BY <1>1, <1>3, <2>1 DEF IInv, TypeOK
  <1>5. CompareInv'
    BY <1>1 DEF IInv, CompareInv, Ahead
  <1>6. StampInv'
    BY <1>1, <1>3 DEF IInv, StampInv
  <1>7. DelayInv'
    BY HandlerKeepsDelay DEF CountTick
  <1> QED
    BY <1>4, <1>5, <1>6, <1>7 DEF IInv

-----------------------------------------------------------------------------
(* The main loop.                                                          *)

\* A step of the main loop leaves the timer and its counts alone.
LEMMA MainKeepsTimer ==
  ASSUME IInv, NEW at, NEW next, Main(at, next), masked' \in BOOLEAN,
         next \in {"run", "readTime", "readTicks", "stamped", "delay", "delayed"}
  PROVE  TypeOK' /\ CompareInv'
  <1>1. /\ UNCHANGED <<CLO, half, M3, C3, irq, nCompare, m_nTicks, m_nTime>>
        /\ UNCHANGED <<ticked, late>> /\ pc' = next
    BY DEF Main, clockVars, irqVars
  <1> QED
    BY <1>1 DEF IInv, TypeOK, CompareInv, Ahead

\* Taking a time stamp: what has been read stays as it was read.
LEMMA StampSteps == IInv /\ (Stamp \/ ReadTime \/ ReadTicks \/ Stamped) => IInv'
  <1> SUFFICES ASSUME IInv, Stamp \/ ReadTime \/ ReadTicks \/ Stamped PROVE IInv'
    OBVIOUS
  <1>1. masked' \in BOOLEAN
    BY DEF IInv, TypeOK, Stamp, ReadTime, ReadTicks, Stamped, Locked
  <1>2. TypeOK' /\ CompareInv'
    BY <1>1, MainKeepsTimer DEF Stamp, ReadTime, ReadTicks, Stamped
  <1>3. StampInv'
    BY DEF IInv, StampInv, Stamp, ReadTime, ReadTicks, Stamped, Main, irqVars, Locked
  <1>4. DelayInv'
    BY DEF DelayInv, Stamp, ReadTime, ReadTicks, Stamped, Main
  <1> QED
    BY <1>2, <1>3, <1>4 DEF IInv

\* Before the counter has gone on, hardly any time has passed.
LEMMA NoTicks ==
  ASSUME NEW h \in 0..1
  PROVE  0 >= 2 * 0 + h - 1
  OBVIOUS

\* A delay begins with no tick of the counter seen.
LEMMA DelayStep == IInv /\ Delay => IInv'
  <1> SUFFICES ASSUME IInv, Delay PROVE IInv'
    OBVIOUS
  <1>1. /\ pc' = "delay" /\ nMicroSeconds' \in Delays /\ nStartTicks' = CLO
        /\ elapsed' = 0 /\ masked' = masked
        /\ UNCHANGED <<CLO, half, m_nTicks, m_nTime, irq>>
    BY DEF Delay, Main, clockVars, irqVars, stampVars
  <1>2. TypeOK' /\ CompareInv'
    BY <1>1, MainKeepsTimer DEF Delay, IInv, TypeOK
  <1>3. StampInv'
    BY <1>1 DEF IInv, StampInv
  <1>4. DelayInv'
    <2>1. CLO \in 0..(ClockSize - 1) /\ half \in 0..1 /\ (CLO - CLO) % ClockSize = 0
      BY Difference DEF IInv, TypeOK
    <2>2. ((CLO - nStartTicks) % ClockSize)' = 0
      BY <1>1, <2>1
    <2>3. nMicroSeconds' \in Nat \ {0} /\ MaxGap \in Nat
      BY <1>1, Constants
    <2>4. nStartTicks' \in 0..(ClockSize - 1) /\ half' \in 0..1
      BY <1>1, <2>1
    <2>5. /\ 0 <= nMicroSeconds' + 1 + MaxGap
          /\ elapsed' \in 0..(2 * nMicroSeconds')
          /\ elapsed' >= 2 * 0 + half' - 1
      <3>1. elapsed' = 0 /\ half' \in Int /\ half' <= 1
        BY <1>1, <2>1
      <3>2. PICK n \in Nat, g \in Nat : n = nMicroSeconds' /\ g = MaxGap
        BY <2>3
      <3>3. 0 <= n + 1 + g /\ 0 \in 0..(2 * n)
        OBVIOUS
      <3>4. 0 <= nMicroSeconds' + 1 + MaxGap
        BY <3>2, <3>3
      <3>5. elapsed' \in 0..(2 * nMicroSeconds')
        BY <3>1, <3>2, <3>3
      <3>6. elapsed' >= 2 * 0 + half' - 1
        BY <2>4, <3>1, NoTicks, Zenon
      <3> QED
        BY <3>4, <3>5, <3>6
    <2> QED
      BY <1>1, <2>2, <2>4, <2>5, Zenon DEF DelayInv, DelayTicks
  <1> QED
    BY <1>2, <1>3, <1>4 DEF IInv

\* It ends when the counter has gone on by one more than was asked for.
LEMMA PollDelayStep == IInv /\ PollDelay => IInv'
  <1> SUFFICES ASSUME IInv, PollDelay PROVE IInv'
    OBVIOUS
  <1>1. /\ pc = "delay"
        /\ pc' = IF (CLO - nStartTicks) % ClockSize >= DelayTicks
                 THEN "delayed" ELSE "delay"
        /\ UNCHANGED <<CLO, half, m_nTicks, m_nTime, irq, masked, nTime, nTicks>>
        /\ UNCHANGED <<nMicroSeconds, nStartTicks, elapsed>>
    BY DEF PollDelay, Main, clockVars, irqVars, stampVars, delayVars
  <1>2. TypeOK' /\ CompareInv'
    <2>1. masked' \in BOOLEAN
      BY <1>1 DEF IInv, TypeOK
    <2> QED
      BY <2>1, MainKeepsTimer DEF PollDelay
  <1>3. StampInv'
    BY <1>1 DEF IInv, StampInv
  <1>4. DelayInv'
    <2>1. PICK k \in 0..(ClockSize - 1) : k = (CLO - nStartTicks) % ClockSize
      BY <1>1, Difference DEF IInv, TypeOK, DelayInv
    <2>2. ((CLO - nStartTicks) % ClockSize)' = k
      BY <1>1, <2>1
    <2>3. /\ nMicroSeconds \in Delays /\ nMicroSeconds \in Nat
          /\ nStartTicks \in 0..(ClockSize - 1)
          /\ k <= nMicroSeconds + 1 + MaxGap
          /\ elapsed \in 0..(2 * nMicroSeconds)
          /\ elapsed = 2 * nMicroSeconds \/ elapsed >= 2 * k + half - 1
      BY <1>1, <2>1, Constants DEF IInv, DelayInv, DelayTicks
    <2>4. pc' = "delayed" => k >= nMicroSeconds + 1
      BY <1>1, <2>1 DEF DelayTicks
    <2>5. pc' = "delayed" => elapsed >= 2 * nMicroSeconds
      BY <2>3, <2>4 DEF IInv, TypeOK
    <2>6. pc' \in {"delay", "delayed"}
      BY <1>1
    <2> QED
      BY <1>1, <2>2, <2>3, <2>5, <2>6 DEF DelayInv, DelayTicks
  <1> QED
    BY <1>2, <1>3, <1>4 DEF IInv

\* The caller goes on.
LEMMA DelayedStep == IInv /\ Delayed => IInv'
  <1> SUFFICES ASSUME IInv, Delayed PROVE IInv'
    OBVIOUS
  <1>1. pc' = "run" /\ masked' = masked /\ UNCHANGED <<m_nTicks, m_nTime>>
    BY DEF Delayed, Main, stampVars, irqVars
  <1>2. TypeOK' /\ CompareInv'
    <2>1. masked' \in BOOLEAN
      BY <1>1 DEF IInv, TypeOK
    <2> QED
      BY <2>1, MainKeepsTimer DEF Delayed
  <1>3. StampInv' /\ DelayInv'
    BY <1>1 DEF IInv, StampInv, DelayInv
  <1> QED
    BY <1>2, <1>3 DEF IInv

-----------------------------------------------------------------------------
\* Every step preserves the invariant.
LEMMA NextIInv == IInv /\ [Next]_vars => IInv'
  <1> SUFFICES ASSUME IInv, [Next]_vars PROVE IInv'
    OBVIOUS
  <1>1. CASE Clock
    <2>1. half = 0 \/ half = 1
      BY DEF IInv, TypeOK
    <2> QED
      BY <1>1, <2>1, HalfStep, TickStep
  <1>2. CASE IRQ
    BY <1>2, InterruptHandlerStep, AddPeriodStep, TestAheadStep, AcknowledgeStep,
       CountTickStep DEF IRQ
  <1>3. CASE MainLoop
    BY <1>3, StampSteps, DelayStep, PollDelayStep, DelayedStep DEF MainLoop
  <1>4. CASE UNCHANGED vars
    <2>1. /\ UNCHANGED <<CLO, half, M3, C3, irq, nCompare, m_nTicks, m_nTime>>
          /\ UNCHANGED <<ticked, late, pc, nTime, nTicks, masked>>
          /\ UNCHANGED <<nMicroSeconds, nStartTicks, elapsed>>
      BY <1>4 DEF vars, clockVars, irqVars, stampVars, delayVars
    <2>2. TypeOK' /\ CompareInv' /\ StampInv'
      BY <2>1 DEF IInv, TypeOK, CompareInv, Ahead, StampInv
    <2>3. DelayInv'
      BY <2>1 DEF IInv, DelayInv, DelayTicks
    <2> QED
      BY <2>2, <2>3 DEF IInv
  <1> QED
    BY <1>1, <1>2, <1>3, <1>4 DEF Next

\* Where the compare register is, what a time stamp has read and how long a
\* delay has taken, for every counter, period and set of delays.
THEOREM IInvHolds == Spec => []IInv
  <1> QED
    BY InitIInv, NextIInv, PTL DEF Spec

\* The next match lies ahead whenever the handler has served one, for every
\* period and every latency that the counter is large enough for
\* (InterruptHandler's loop).
THEOREM NextMatchIsAheadHolds == Spec => []NextMatchIsAhead
  <1>1. IInv => NextMatchIsAhead
    <2> SUFFICES ASSUME IInv, irq \in {"idle", "count"}, ~M3
                 PROVE  (C3 - CLO) % ClockSize \in 1..(Period + 1)
      BY DEF NextMatchIsAhead
    <2>1. PICK n \in -MaxLatency..(Period + 1) : Ahead(n) /\ n >= 1
      BY DEF IInv, CompareInv
    <2>2. (C3 - CLO) % ClockSize = n
      BY <2>1, SignedAhead, Constants DEF IInv
    <2> QED
      BY <2>1, <2>2, Constants
  <1> QED
    BY <1>1, IInvHolds, PTL

\* A time stamp's seconds are those of its ticks (m_TimeSpinLock).
THEOREM TimeStampIsConsistentHolds == Spec => []TimeStampIsConsistent
  <1>1. IInv => TimeStampIsConsistent
    <2> SUFFICES ASSUME IInv, pc = "stamped" PROVE nTime = nTicks \div HZ
      BY DEF TimeStampIsConsistent
    <2>8. /\ HZ \in Nat \ {0} /\ m_nTime \in Nat /\ m_nTicks \in Nat
          /\ nTime = m_nTime /\ nTicks = m_nTicks
          /\ m_nTicks - HZ * m_nTime \in 0..(HZ - 1)
      BY Constants DEF IInv, TypeOK, StampInv
    <2>9. PICK h \in Nat \ {0}, t \in Nat, r \in Int :
             h = HZ /\ t = m_nTime /\ r = m_nTicks - h * t
      BY <2>8
    <2>1. /\ r \in 0..(h - 1) /\ nTicks = h * t + r /\ nTicks \in Nat
          /\ h = HZ /\ t = nTime
      BY <2>8, <2>9
    <2>2. /\ nTicks = (h * (nTicks \div h)) + (nTicks % h)
          /\ nTicks % h \in 0..h - 1 /\ nTicks \div h \in Int
      <3>1. nTicks \in Int /\ h \in Nat \ {0}
        BY <2>1
      <3> QED
        BY <3>1, DivMod, Zenon
    <2>3. nTicks % h = r
      BY <2>1, RemainderOf
    <2>4. h * (nTicks \div h) = h * t
      BY <2>1, <2>2, <2>3
    <2>5. PICK q \in Int : q = nTicks \div h /\ h * q = h * t
      BY <2>2, <2>4
    <2>6. ~(q >= t + 1)
      <3>1. q >= t + 1 => h * (q - t) >= h
        BY PositiveMultiple
      <3>2. h * (q - t) = h * q - h * t
        OBVIOUS
      <3> QED
        BY <2>5, <3>1, <3>2
    <2>7. ~(t >= q + 1)
      <3>1. t >= q + 1 => h * (t - q) >= h
        BY PositiveMultiple
      <3>2. h * (t - q) = h * t - h * q
        OBVIOUS
      <3> QED
        BY <2>5, <3>1, <3>2
    <2> QED
      BY <2>1, <2>5, <2>6, <2>7
  <1> QED
    BY <1>1, IInvHolds, PTL

\* A delay is never shorter than what was asked for (SimpleusDelay).
THEOREM DelayIsLongEnoughHolds == Spec => []DelayIsLongEnough
  <1>1. IInv => DelayIsLongEnough
    BY DEF IInv, DelayInv, DelayIsLongEnough
  <1> QED
    BY <1>1, IInvHolds, PTL
=============================================================================
