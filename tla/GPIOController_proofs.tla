------------------------ MODULE GPIOController_proofs -------------------------
(***************************************************************************)
(* Proofs about GPIOController for every order in which the pins are read, *)
(* every set of face buttons and every size of the counters; ButtonPath    *)
(* has all of it, and brings the host a report of the pressed buttons.     *)
(***************************************************************************)
EXTENDS ButtonPath, TLAPS

-----------------------------------------------------------------------------
(* Facts about % that the solvers need as lemmas.                          *)

\* Quotient and remainder.
LEMMA DivMod ==
  ASSUME NEW m \in Nat \ {0}, NEW x \in Int
  PROVE  /\ x = (m * (x \div m)) + (x % m)
         /\ x % m \in 0..m - 1
         /\ x \div m \in Int
  BY SMT

\* A number written as a multiple of m and a rest has this rest.
LEMMA RemainderOf ==
  ASSUME NEW m \in Nat \ {0}, NEW q \in Int, NEW r \in 0..m - 1
  PROVE  (m * q + r) % m = r
  BY SMT

\* Adding one may be done before or after taking the remainder.
LEMMA RemainderSuccessor ==
  ASSUME NEW m \in Nat \ {0}, NEW a \in Nat
  PROVE  (a + 1) % m = ((a % m) + 1) % m
  <1> DEFINE r == a % m
             q == a \div m
  <1>1. a = m * q + r /\ r \in 0..m - 1 /\ q \in Int
    BY DivMod
  <1> HIDE DEF r, q
  <1>2. CASE r + 1 < m
    <2>1. (m * q + (r + 1)) % m = r + 1 /\ (m * 0 + (r + 1)) % m = r + 1
      BY <1>1, <1>2, RemainderOf
    <2>2. m * q + (r + 1) = a + 1 /\ m * 0 + (r + 1) = r + 1
      BY <1>1
    <2> QED
      BY <2>1, <2>2 DEF r
  <1>3. CASE r + 1 = m
    <2>1. (m * (q + 1) + 0) % m = 0 /\ (m * 1 + 0) % m = 0
      BY <1>1, <1>3, RemainderOf
    <2>2. m * (q + 1) + 0 = a + 1
      BY <1>1, <1>3
    <2>3. m * 1 + 0 = r + 1
      BY <1>3
    <2> QED
      BY <2>1, <2>2, <2>3 DEF r
  <1> QED
    BY <1>1, <1>2, <1>3

\* A counter that wraps at a multiple of m goes on counting modulo m.
LEMMA WrapAtMultiple ==
  ASSUME NEW m \in Nat \ {0}, NEW k \in Nat \ {0}, NEW n \in 0..(m * k - 1)
  PROVE  ((n + 1) % (m * k)) % m = (n + 1) % m
  <1>1. m * k \in Nat \ {0}
    <2>1. m * k >= m
      BY SMT
    <2> QED
      BY <2>1
  <1>2. CASE n + 1 < m * k
    <2>1. ((m * k) * 0 + (n + 1)) % (m * k) = n + 1
      BY <1>1, <1>2, RemainderOf
    <2> QED
      BY <1>1, <2>1
  <1>3. CASE n + 1 = m * k
    <2>1. ((m * k) * 1 + 0) % (m * k) = 0
      BY <1>1, RemainderOf
    <2>2. (m * k + 0) % m = 0 /\ (m * 0 + 0) % m = 0
      BY RemainderOf
    <2> QED
      BY <1>1, <1>3, <2>1, <2>2
  <1> QED
    BY <1>1, <1>2, <1>3


-----------------------------------------------------------------------------
(* Reports.                                                                *)

\* What a report of buttons without a conflict shows is these buttons.
LEMMA ReportMeansState ==
  ASSUME NEW s, ~Conflict(s), NEW n
  PROVE  ReportedButtons(CreateDS4Report(s, n)) = s
  <1>1. HatDirections[Hat(s)] = s \cap DPad
    BY DEF HatDirections, Hat, DPad, Conflict
  <1>2. ReportedButtons(CreateDS4Report(s, n))
          = HatDirections[Hat(s)] \cup (s \ DPad)
    BY DEF ReportedButtons, CreateDS4Report
  <1> QED
    BY <1>1, <1>2

\* The two halves of a conflict have none, and add up to the whole.
LEMMA HalvesFacts ==
  ASSUME NEW s
  PROVE  /\ ~Conflict(FirstHalf(s)) /\ ~Conflict(SecondHalf(s))
         /\ FirstHalf(s) \cup SecondHalf(s) = s
  BY DEF Conflict, FirstHalf, SecondHalf

\* A hat is one of the nine of the DS4.
LEMMA HatType == ASSUME NEW s PROVE Hat(s) \in 0..8
  BY DEF Hat

\* Counters stay in their range.
LEMMA CounterFacts ==
  ASSUME NEW n \in 0..(CounterSize - 1)
  PROVE  /\ (n + 1) % CounterSize \in 0..(CounterSize - 1)
         /\ n % CounterField \in 0..(CounterField - 1)
         /\ CounterSize \in Nat \ {0} /\ CounterField \in Nat \ {0}
  BY CounterAssumption

\* A report of buttons is a report.
LEMMA ReportType ==
  ASSUME NEW s \in SUBSET Buttons, NEW n \in 0..(CounterSize - 1)
  PROVE  CreateDS4Report(s, n) \in
             [hat : 0..8, faces : SUBSET (Buttons \ DPad),
              counter : 0..(CounterField - 1)]
  BY HatType, CounterFacts DEF CreateDS4Report

-----------------------------------------------------------------------------
(* The inductive invariant.                                                *)

\* There is something to scan.
LEMMA ScanOrderFacts ==
  /\ Len(ScanOrder) \in Nat \ {0}
  /\ \A i \in 1..Len(ScanOrder) : ScanOrder[i] \in Buttons
  <1>1. Len(ScanOrder) \in Nat
    BY ScanOrderAssumption
  <1>2. "Up" \in Buttons
    BY ScanOrderAssumption DEF DPad
  <1> QED
    BY <1>1, <1>2 DEF Buttons

\* The counter before the first one, from which the history starts.
LEMMA FirstCounter ==
  ASSUME NEW n \in 0..(CounterSize - 1)
  PROVE  (((n + CounterField - 1) % CounterField) + 1) % CounterField
             = n % CounterField
  <1> DEFINE m == CounterField
             q == n \div m
             r == n % m
  <1>1. m \in Nat \ {0} /\ n \in Nat /\ n + m - 1 \in Nat
    BY CounterAssumption
  <1>2. n = m * q + r /\ r \in 0..m - 1 /\ q \in Int
    BY <1>1, DivMod
  <1>3. ((n + m - 1) + 1) % m = (((n + m - 1) % m) + 1) % m
    BY <1>1, RemainderSuccessor
  <1> HIDE DEF m, q, r
  <1>4. (m * (q + 1) + r) % m = r
    BY <1>1, <1>2, RemainderOf
  <1>5. m * (q + 1) + r = (n + m - 1) + 1
    BY <1>1, <1>2
  <1> QED
    BY <1>3, <1>4, <1>5 DEF m, r

\* The increment of the u8, wrapped or not, increments the field.
LEMMA CounterSuccessor ==
  ASSUME NEW n \in 0..(CounterSize - 1)
  PROVE  ((n + 1) % CounterSize) % CounterField
             = ((n % CounterField) + 1) % CounterField
  <1>1. CounterField \in Nat \ {0} /\ n \in Nat
    BY CounterAssumption
  <1>2. PICK k \in 1..CounterSize : CounterSize = CounterField * k
    BY <1>1, CounterAssumption
  <1>3. k \in Nat \ {0}
    BY <1>2
  <1>4. ((n + 1) % CounterSize) % CounterField = (n + 1) % CounterField
    BY <1>1, <1>2, <1>3, WrapAtMultiple
  <1> QED
    BY <1>1, <1>4, RemainderSuccessor

\* At power-on nothing has been scanned or sent.
LEMMA InitIInv == Init => IInv
  <1> SUFFICES ASSUME Init PROVE IInv
    OBVIOUS
  <1>1. TypeOK
    <2>1. Neutral \in [hat : 0..8, faces : SUBSET (Buttons \ DPad),
                       counter : 0..(CounterField - 1)]
      BY CounterAssumption DEF Neutral
    <2>2. previous \in 0..(CounterField - 1)
      BY CounterAssumption DEF Init
    <2> QED
      BY <2>1, <2>2, ScanOrderFacts DEF Init, TypeOK
  <1>2. ScanInv /\ NoPhantomButton /\ HeldButtonsAreSent
    BY ScanOrderFacts
       DEF Init, ScanInv, Scanning, NoPhantomButton, HeldButtonsAreSent
  <1>3. CounterInv
    BY FirstCounter DEF Init, CounterInv
  <1> QED
    BY <1>1, <1>2, <1>3 DEF IInv

\* A pin that changes is no longer held, and is touched from then on.
LEMMA PinChangeStep == IInv /\ PinChange => IInv'
  <1> SUFFICES ASSUME IInv, PinChange PROVE IInv'
    OBVIOUS
  <1> USE DEF PinChange
  <1>1. TypeOK'
    BY DEF IInv, TypeOK
  <1>2. ScanInv'
    BY DEF IInv, ScanInv, Scanning, Scanned
  <1>3. NoPhantomButton' /\ HeldButtonsAreSent'
    BY DEF IInv, NoPhantomButton, HeldButtonsAreSent
  <1>4. CounterInv'
    BY DEF IInv, CounterInv
  <1> QED
    BY <1>1, <1>2, <1>3, <1>4 DEF IInv

\* The pin that is read is pressed now: it has been touched, and if it is not
\* pressed it has not been held.
LEMMA ReadPinStep == IInv /\ ReadPin => IInv'
  <1> SUFFICES ASSUME IInv, ReadPin PROVE IInv'
    OBVIOUS
  <1> USE DEF ReadPin, PinRead
  <1>1. /\ next \in 1..Len(ScanOrder) /\ Len(ScanOrder) \in Nat
        /\ ScanOrder[next] \in Buttons
    BY ScanOrderFacts DEF IInv, TypeOK
  <1>2. TypeOK'
    <2>1. state' \subseteq Buttons /\ next' \in 1..(Len(ScanOrder) + 1)
      BY <1>1 DEF IInv, TypeOK
    <2>2. /\ held' \subseteq Buttons /\ touched' \subseteq Buttons
          /\ sent' \subseteq Buttons
      BY DEF IInv, TypeOK
    <2> QED
      BY <2>1, <2>2 DEF IInv, TypeOK
  <1>3. held' \subseteq pins /\ pins \subseteq touched'
    BY DEF IInv, ScanInv
  <1>4. Scanned' \subseteq (IF next = 1 THEN {} ELSE Scanned)
                               \cup {ScanOrder[next]}
    BY <1>1 DEF Scanned
  <1>5. /\ held' \cap Scanned' \subseteq state'
        /\ state' \subseteq touched'
    <2>1. CASE next = 1
      BY <1>3, <1>4, <2>1
    <2>2. CASE next # 1
      <3>1. Scanning
        BY <1>1, <2>2 DEF Scanning
      <3>2. held \cap Scanned \subseteq state /\ state \subseteq touched
        BY <3>1 DEF IInv, ScanInv
      <3> QED
        BY <1>3, <1>4, <2>2, <3>2
    <2> QED
      BY <2>1, <2>2
  <1>6. ScanInv'
    BY <1>1, <1>3, <1>5 DEF ScanInv
  <1>7. NoPhantomButton' /\ HeldButtonsAreSent'
    BY <1>1 DEF IInv, NoPhantomButton, HeldButtonsAreSent
  <1>8. CounterInv'
    BY DEF IInv, CounterInv
  <1> QED
    BY <1>2, <1>6, <1>7, <1>8 DEF IInv

\* When the scan is complete it contains everything that was held.
LEMMA CompleteScan ==
  ASSUME IInv, pc # "Read"
  PROVE  /\ held \subseteq state /\ state \subseteq touched
         /\ state \subseteq Buttons
  <1>1. Scanned = Buttons
    BY ScanOrderFacts DEF IInv, ScanInv, Scanned, Buttons
  <1>2. Scanning
    BY DEF Scanning
  <1>3. held \subseteq Buttons /\ state \subseteq Buttons
    BY DEF IInv, TypeOK
  <1> QED
    BY <1>1, <1>2, <1>3 DEF IInv, ScanInv

\* Whatever buttons of the scan a report is made of, it is well typed and
\* the host reads these buttons in it.
LEMMA SendReportFacts ==
  ASSUME IInv, NEW s \in SUBSET Buttons, ~Conflict(s), SendReportOf(s)
  PROVE  /\ report' \in [hat : 0..8, faces : SUBSET (Buttons \ DPad),
                         counter : 0..(CounterField - 1)]
         /\ previous' \in 0..(CounterField - 1)
         /\ nCounter' \in 0..(CounterSize - 1)
         /\ sent' = sent \cup s
         /\ UNCHANGED <<pins, state, held, touched>>
         /\ CounterInv'
         /\ report'.counter = (previous + 1) % CounterField
  <1>1. nCounter \in 0..(CounterSize - 1)
    BY DEF IInv, TypeOK
  <1>2. report' = CreateDS4Report(s, nCounter) /\ previous' = report'.counter
    BY DEF SendReportOf
  <1>3. report' \in [hat : 0..8, faces : SUBSET (Buttons \ DPad),
                     counter : 0..(CounterField - 1)]
    BY <1>1, <1>2, ReportType
  <1>4. sent' = sent \cup s
    BY <1>2, ReportMeansState DEF SendReportOf
  <1>5. nCounter' \in 0..(CounterSize - 1)
    BY <1>1, CounterFacts DEF SendReportOf, NextCounter
  <1>6. previous' = nCounter % CounterField
    BY <1>2 DEF CreateDS4Report
  <1>7. CounterInv'
    BY <1>1, <1>6, CounterSuccessor DEF CounterInv, SendReportOf, NextCounter
  <1>8. report'.counter = (previous + 1) % CounterField
    BY <1>2, <1>6 DEF IInv, CounterInv
  <1> QED
    BY <1>2, <1>3, <1>4, <1>5, <1>7, <1>8 DEF SendReportOf

\* A scan without a conflict goes out in one report.
LEMMA SendStep == IInv /\ Send => IInv'
  <1> SUFFICES ASSUME IInv, Send PROVE IInv'
    OBVIOUS
  <1>1. /\ held \subseteq state /\ state \subseteq touched
        /\ state \in SUBSET Buttons
    BY CompleteScan DEF Send
  <1>2. /\ report' \in [hat : 0..8, faces : SUBSET (Buttons \ DPad),
                        counter : 0..(CounterField - 1)]
        /\ previous' \in 0..(CounterField - 1)
        /\ nCounter' \in 0..(CounterSize - 1)
        /\ sent' = sent \cup state
        /\ UNCHANGED <<pins, state, held, touched>>
        /\ CounterInv'
    BY <1>1, SendReportFacts DEF Send
  <1>3. pc' = "Read" /\ next' = 1
    BY DEF Send
  <1>4. TypeOK'
    BY <1>1, <1>2, <1>3, ScanOrderFacts DEF IInv, TypeOK
  <1>5. ScanInv'
    BY <1>2, <1>3, ScanOrderFacts DEF IInv, ScanInv, Scanning
  <1>6. NoPhantomButton' /\ HeldButtonsAreSent'
    BY <1>1, <1>2 DEF IInv, NoPhantomButton, HeldButtonsAreSent
  <1> QED
    BY <1>2, <1>4, <1>5, <1>6 DEF IInv

\* The first report of a conflict shows its half of the scan.
LEMMA SendFirstHalfStep == IInv /\ SendFirstHalf => IInv'
  <1> SUFFICES ASSUME IInv, SendFirstHalf PROVE IInv'
    OBVIOUS
  <1> DEFINE half == FirstHalf(state)
  <1>1. /\ held \subseteq state /\ state \subseteq touched
        /\ state \subseteq Buttons
    BY CompleteScan DEF SendFirstHalf
  <1>2. half \in SUBSET Buttons /\ half \subseteq state /\ ~Conflict(half)
    BY <1>1, HalvesFacts
  <1>3. /\ report' \in [hat : 0..8, faces : SUBSET (Buttons \ DPad),
                        counter : 0..(CounterField - 1)]
        /\ previous' \in 0..(CounterField - 1)
        /\ nCounter' \in 0..(CounterSize - 1)
        /\ sent' = sent \cup half
        /\ UNCHANGED <<pins, state, held, touched>>
        /\ CounterInv'
    BY <1>2, SendReportFacts DEF SendFirstHalf
  <1>4. pc = "Send" /\ pc' = "SendSecond" /\ next' = next /\ Conflict(state)
    BY DEF SendFirstHalf
  <1> HIDE DEF half
  <1>5. TypeOK'
    BY <1>1, <1>2, <1>3, <1>4 DEF IInv, TypeOK
  <1>6. ScanInv'
    <2>1. Conflict(state)' /\ half \subseteq sent' /\ half = FirstHalf(state)'
      BY <1>3, <1>4 DEF Conflict, half, FirstHalf
    <2> QED
      BY <1>3, <1>4, <2>1 DEF IInv, ScanInv, Scanning, Scanned
  <1>7. NoPhantomButton' /\ HeldButtonsAreSent'
    BY <1>1, <1>2, <1>3, <1>4 DEF IInv, NoPhantomButton, HeldButtonsAreSent
  <1> QED
    BY <1>3, <1>5, <1>6, <1>7 DEF IInv

\* The second one completes the scan.
LEMMA SendSecondHalfStep == IInv /\ SendSecondHalf => IInv'
  <1> SUFFICES ASSUME IInv, SendSecondHalf PROVE IInv'
    OBVIOUS
  <1> DEFINE half == SecondHalf(state)
  <1>1. /\ held \subseteq state /\ state \subseteq touched
        /\ state \subseteq Buttons
    BY CompleteScan DEF SendSecondHalf
  <1>2. half \in SUBSET Buttons /\ half \subseteq state /\ ~Conflict(half)
    BY <1>1, HalvesFacts
  <1>3. /\ report' \in [hat : 0..8, faces : SUBSET (Buttons \ DPad),
                        counter : 0..(CounterField - 1)]
        /\ previous' \in 0..(CounterField - 1)
        /\ nCounter' \in 0..(CounterSize - 1)
        /\ sent' = sent \cup half
        /\ UNCHANGED <<pins, state, held, touched>>
        /\ CounterInv'
    BY <1>2, SendReportFacts DEF SendSecondHalf
  <1>4. pc = "SendSecond" /\ pc' = "Read" /\ next' = 1
    BY DEF SendSecondHalf
  <1>5. state \subseteq sent'
    <2>1. FirstHalf(state) \subseteq sent
      BY <1>4 DEF IInv, ScanInv
    <2> QED
      BY <1>3, <2>1, HalvesFacts
  <1> HIDE DEF half
  <1>6. TypeOK'
    BY <1>1, <1>2, <1>3, <1>4, ScanOrderFacts DEF IInv, TypeOK
  <1>7. ScanInv'
    BY <1>3, <1>4, ScanOrderFacts DEF IInv, ScanInv, Scanning
  <1>8. NoPhantomButton' /\ HeldButtonsAreSent'
    BY <1>1, <1>2, <1>3, <1>5 DEF IInv, NoPhantomButton, HeldButtonsAreSent
  <1> QED
    BY <1>3, <1>6, <1>7, <1>8 DEF IInv

\* Every step of the player and the main loop preserves the invariant.
LEMMA NextIInv == IInv /\ [Next]_vars => IInv'
  <1> SUFFICES ASSUME IInv, [Next]_vars PROVE IInv'
    OBVIOUS
  <1>1. CASE PinChange
    BY <1>1, PinChangeStep
  <1>2. CASE MainLoop
    BY <1>2, ReadPinStep, SendStep, SendFirstHalfStep, SendSecondHalfStep
       DEF MainLoop
  <1>3. CASE UNCHANGED vars
    BY <1>3 DEF vars, IInv, TypeOK, ScanInv, Scanning, Scanned, CounterInv,
                NoPhantomButton, HeldButtonsAreSent
  <1> QED
    BY <1>1, <1>2, <1>3 DEF Next

-----------------------------------------------------------------------------
(* The theorems.                                                           *)

\* The inductive invariant holds, however the pins change during a scan.
THEOREM IInvHolds == Spec => []IInv
  <1> QED
    BY InitIInv, NextIInv, PTL DEF Spec

\* No report shows a button that was not pressed at some time of the scan.
THEOREM NoPhantomButtonHolds == Spec => []NoPhantomButton
  <1>1. IInv => NoPhantomButton
    BY DEF IInv
  <1> QED
    BY <1>1, IInvHolds, PTL

\* Every button that is held while it is scanned is reported, in one of the
\* two reports if opposite directions are pressed.
THEOREM HeldButtonsAreSentHolds == Spec => []HeldButtonsAreSent
  <1>1. IInv => HeldButtonsAreSent
    BY DEF IInv
  <1> QED
    BY <1>1, IInvHolds, PTL

\* The host reads in a report what it was made of, and the reports of a scan
\* add up to it.
THEOREM ReportsMeanTheirStateHolds == Spec => []ReportsMeanTheirState
  <1>1. ReportsMeanTheirState
    <2> SUFFICES UNION Parts(state) = state
                 /\ \A part \in Parts(state) : ~Conflict(part)
      BY ReportMeansState DEF ReportsMeanTheirState
    <2>1. CASE Conflict(state)
      BY <2>1, HalvesFacts DEF Parts
    <2>2. CASE ~Conflict(state)
      BY <2>2 DEF Parts
    <2> QED
      BY <2>1, <2>2
  <1> QED
    BY <1>1, PTL

\* Every report carries the counter after the one of the report before, also
\* the two of a conflict, and also when the u8 wraps.
THEOREM CounterCountsReportsHolds == Spec => CounterCountsReports
  <1>1. IInv /\ [Next]_vars =>
            [report' # report =>
                 report'.counter = (previous + 1) % CounterField]_vars
    <2> SUFFICES ASSUME IInv, Next, report' # report
                 PROVE  report'.counter = (previous + 1) % CounterField
      OBVIOUS
    <2>1. CASE PinChange \/ ReadPin
      BY <2>1 DEF PinChange, ReadPin
    <2>2. CASE Send
      BY <2>2, CompleteScan, SendReportFacts DEF Send
    <2>3. CASE SendFirstHalf
      <3>1. FirstHalf(state) \in SUBSET Buttons
        BY <2>3, CompleteScan, HalvesFacts DEF SendFirstHalf
      <3> QED
        BY <2>3, <3>1, HalvesFacts, SendReportFacts DEF SendFirstHalf
    <2>4. CASE SendSecondHalf
      <3>1. SecondHalf(state) \in SUBSET Buttons
        BY <2>4, CompleteScan, HalvesFacts DEF SendSecondHalf
      <3> QED
        BY <2>4, <3>1, HalvesFacts, SendReportFacts DEF SendSecondHalf
    <2> QED
      BY <2>1, <2>2, <2>3, <2>4 DEF Next, MainLoop
  <1> QED
    BY <1>1, IInvHolds, PTL DEF Spec, CounterCountsReports

-----------------------------------------------------------------------------
(* With the double buffer and the host.                                    *)

\* Buffer and host only read what Send has staged: the steps of ButtonPath are
\* those of the scan or leave it alone.  So all of the above holds of it, too.
THEOREM PathImplementsScan == PathSpec => Spec
  <1>1. PathInit => Init
    BY DEF PathInit
  <1>2. ASSUME [PathNext]_pathVars
        PROVE  [Next]_vars
    <2>1. CASE Player
      BY <2>1 DEF Player, Next
    <2>2. CASE Loop
      BY <2>2 DEF Loop, Next
    <2>3. CASE HostPoll \/ UNCHANGED pathVars
      BY <2>3 DEF HostPoll, pathVars
    <2> QED
      BY <1>2, <2>1, <2>2, <2>3 DEF PathNext
  <1> QED
    BY <1>1, <1>2, PTL DEF PathSpec, Spec

-----------------------------------------------------------------------------
(* A player who keeps still is seen by the host.                           *)

\* No button has changed since the scan began.
StillScan == Scanning => held = touched

\* The host reads the pressed buttons in report r.
ShowsPlayer(r) == ReportedButtons(r) \in ShownFor(pins)

\* The steps of the main loop up to the next scan.
StepsToScan ==
    CASE pc = "Read" -> Len(ScanOrder) - next + 3
      [] pc = "Send" -> 2
      [] pc = "SendSecond" -> 1

\* The steps of the main loop up to the report of a scan of what is pressed
\* now: a scan in which a button has changed has to be finished first.
LoopToGo ==
    IF ~StillScan THEN Len(ScanOrder) + 2 + StepsToScan
    ELSE IF ~ShowsPlayer(report) THEN StepsToScan
    ELSE 0

\* The polls of the host after that: the report that is armed goes first.
PollsToGo ==
    IF LoopToGo # 0 \/ ~ShowsPlayer(m_DMABuffer) THEN 2
    ELSE IF ~ShowsPlayer(hostReport) THEN 1
    ELSE 0

\* Both are counts, and they are 0 when what they wait for is there.
PathGoFacts ==
    /\ StepsToScan \in 1..(Len(ScanOrder) + 2)
    /\ LoopToGo \in 0..(2 * Len(ScanOrder) + 4)
    /\ LoopToGo = 0 <=> StillScan /\ ShowsPlayer(report)
    /\ PollsToGo \in 0..2
    /\ PollsToGo = 0 =>
           LoopToGo = 0 /\ ShowsPlayer(m_DMABuffer) /\ ShowsPlayer(hostReport)

\* They are counts whenever the invariant of the scan holds.
LEMMA PathGoHolds == IInv => PathGoFacts
  <1> SUFFICES ASSUME IInv PROVE PathGoFacts
    OBVIOUS
  <1>1. PICK l \in Nat \ {0} : l = Len(ScanOrder)
    BY ScanOrderFacts
  <1>2. /\ pc \in {"Read", "Send", "SendSecond"} /\ next \in 1..(l + 1)
        /\ pc = "Read" => next <= l
    BY <1>1 DEF IInv, TypeOK, ScanInv
  <1>3. PICK s \in 1..(l + 2) : s = StepsToScan
    <2>1. CASE pc = "Read"
      BY <1>1, <1>2, <2>1 DEF StepsToScan
    <2>2. CASE pc = "Send"
      BY <1>1, <2>2 DEF StepsToScan
    <2>3. CASE pc = "SendSecond"
      BY <1>1, <2>3 DEF StepsToScan
    <2> QED
      BY <1>2, <2>1, <2>2, <2>3
  <1>4. LoopToGo = IF ~StillScan THEN l + 2 + s
                   ELSE IF ~ShowsPlayer(report) THEN s ELSE 0
    BY <1>1, <1>3 DEF LoopToGo
  <1>5. /\ LoopToGo \in 0..(2 * l + 4)
        /\ LoopToGo = 0 <=> StillScan /\ ShowsPlayer(report)
    BY <1>1, <1>3, <1>4
  <1>6. /\ PollsToGo \in 0..2
        /\ PollsToGo = 0 => LoopToGo = 0 /\ ShowsPlayer(m_DMABuffer)
                                /\ ShowsPlayer(hostReport)
    BY DEF PollsToGo
  <1> QED
    BY <1>1, <1>3, <1>5, <1>6 DEF PathGoFacts

\* The reports of the pressed buttons show what they are made of.
LEMMA ShownIsParts == ASSUME NEW s PROVE ShownFor(s) = Parts(s)
  <1>1. ASSUME NEW p \in Parts(s) PROVE ~Conflict(p)
    BY <1>1, HalvesFacts DEF Parts
  <1>2. ASSUME NEW p \in Parts(s)
        PROVE  ReportedButtons(CreateDS4Report(p, 0)) = p
    BY <1>1, ReportMeansState
  <1> QED
    BY <1>2 DEF ShownFor

\* A scan in which no button has changed has found the pressed ones.
LEMMA StillScanIsRight ==
  ASSUME IInv, StillScan, pc # "Read"
  PROVE  state = pins
  <1>1. held \subseteq state /\ state \subseteq touched
    BY CompleteScan
  <1>2. held \subseteq pins /\ pins \subseteq touched /\ held = touched
    BY DEF StillScan, Scanning, IInv, ScanInv
  <1> QED
    BY <1>1, <1>2

\* A report made of such a scan, or of a half of it, shows the pressed buttons.
LEMMA StillReportIsRight ==
  ASSUME IInv, StillScan, pc # "Read",
         NEW s \in Parts(state), SendReportOf(s)
  PROVE  ShowsPlayer(report)'
  <1>1. state = pins /\ pins' = pins
    BY StillScanIsRight DEF SendReportOf
  <1>2. ~Conflict(s)
    BY HalvesFacts DEF Parts
  <1>3. ReportedButtons(report') = s
    BY <1>2, ReportMeansState DEF SendReportOf
  <1>4. ShownFor(pins') = Parts(state)
    BY <1>1, ShownIsParts
  <1> QED
    BY <1>3, <1>4 DEF ShowsPlayer

\* A step of the main loop leaves a still scan still and a right report right.
\* It brings the next scan nearer, or begins with it, and then has sent the
\* scan before it.
LEMMA LoopProceeds ==
  ASSUME IInv, MainLoop
  PROVE  /\ StillScan => StillScan'
         /\ StillScan /\ ShowsPlayer(report) => ShowsPlayer(report)'
         /\ \/ StepsToScan' < StepsToScan
            \/ StillScan' /\ (StillScan => ShowsPlayer(report)')
  <1>1. /\ Len(ScanOrder) \in Nat /\ next \in 1..(Len(ScanOrder) + 1)
    BY ScanOrderFacts DEF IInv, TypeOK
  <1>2. CASE ReadPin
    <2>1. /\ pc = "Read" /\ next <= Len(ScanOrder) /\ next' = next + 1
          /\ pc' = IF next = Len(ScanOrder) THEN "Send" ELSE "Read"
          /\ report' = report /\ pins' = pins
      BY <1>2 DEF ReadPin
    <2>2. StillScan => StillScan'
      <3>1. CASE next = 1
        BY <1>2, <3>1 DEF ReadPin, StillScan
      <3>2. CASE next # 1
        <4>1. Scanning
          BY <1>1, <3>2 DEF Scanning
        <4>2. held' = held /\ touched' = touched
          BY <1>2, <3>2 DEF ReadPin
        <4> QED
          BY <4>1, <4>2 DEF StillScan
      <3> QED
        BY <3>1, <3>2
    <2>3. StepsToScan' < StepsToScan
      <3>1. CASE next = Len(ScanOrder)
        <4>1. StepsToScan = 3 /\ StepsToScan' = 2
          BY <1>1, <2>1, <3>1 DEF StepsToScan
        <4> QED
          BY <4>1
      <3>2. CASE next # Len(ScanOrder)
        <4>1. /\ StepsToScan = Len(ScanOrder) - next + 3
              /\ StepsToScan' = Len(ScanOrder) - (next + 1) + 3
          BY <2>1, <3>2 DEF StepsToScan
        <4> QED
          BY <1>1, <4>1
      <3> QED
        BY <3>1, <3>2
    <2>4. ShowsPlayer(report) => ShowsPlayer(report)'
      BY <2>1 DEF ShowsPlayer
    <2> QED
      BY <2>2, <2>3, <2>4
  <1>3. ASSUME Send \/ SendSecondHalf
        PROVE  StillScan' /\ (StillScan => ShowsPlayer(report)')
    <2>1. pc # "Read" /\ pc' = "Read" /\ next' = 1
      BY <1>3 DEF Send, SendSecondHalf
    <2>2. StillScan'
      BY <2>1 DEF StillScan, Scanning
    <2>3. PICK s \in Parts(state) : SendReportOf(s)
      <3>1. CASE Send
        BY <3>1 DEF Send, Parts
      <3>2. CASE SendSecondHalf
        <4>1. Conflict(state)
          BY <3>2 DEF SendSecondHalf, IInv, ScanInv
        <4> QED
          BY <3>2, <4>1 DEF SendSecondHalf, Parts
      <3> QED
        BY <1>3, <3>1, <3>2
    <2> QED
      BY <2>1, <2>2, <2>3, StillReportIsRight
  <1>4. CASE SendFirstHalf
    <2>1. /\ pc = "Send" /\ pc' = "SendSecond"
          /\ held' = held /\ touched' = touched
      BY <1>4 DEF SendFirstHalf, SendReportOf
    <2>2. StillScan => StillScan'
      BY <2>1 DEF StillScan, Scanning
    <2>3. StepsToScan = 2 /\ StepsToScan' = 1
      BY <2>1 DEF StepsToScan
    <2>4. FirstHalf(state) \in Parts(state) /\ SendReportOf(FirstHalf(state))
      BY <1>4 DEF SendFirstHalf, Parts
    <2>5. StillScan => ShowsPlayer(report)'
      BY <2>1, <2>4, StillReportIsRight
    <2>6. StepsToScan' < StepsToScan
      BY <2>3
    <2> QED
      BY <2>2, <2>5, <2>6
  <1> QED
    BY <1>2, <1>3, <1>4 DEF MainLoop

\* A step of the main loop brings the report nearer, or finds it sent.
LEMMA LoopCounts ==
  ASSUME IInv, IInv', MainLoop
  PROVE  /\ LoopToGo # 0 => LoopToGo' < LoopToGo
         /\ LoopToGo = 0 => LoopToGo' = 0
  <1>1. PathGoFacts /\ PathGoFacts'
    BY PathGoHolds, PTL
  <1>2. PICK l \in Nat : l = Len(ScanOrder)
    BY ScanOrderFacts
  <1>3. PICK s \in 1..(l + 2) : s = StepsToScan
    BY <1>1, <1>2 DEF PathGoFacts
  <1>4. PICK t \in 1..(l + 2) : t = StepsToScan'
    BY <1>1, <1>2 DEF PathGoFacts
  <1>5. LoopToGo = IF ~StillScan THEN l + 2 + s
                   ELSE IF ~ShowsPlayer(report) THEN s ELSE 0
    BY <1>2, <1>3 DEF LoopToGo
  <1>6. LoopToGo' = IF ~StillScan' THEN l + 2 + t
                    ELSE IF ~ShowsPlayer(report)' THEN t ELSE 0
    BY <1>2, <1>4 DEF LoopToGo
  <1>7. /\ StillScan => StillScan'
        /\ StillScan /\ ShowsPlayer(report) => ShowsPlayer(report)'
        /\ \/ StepsToScan' < StepsToScan
           \/ StillScan' /\ (StillScan => ShowsPlayer(report)')
    BY LoopProceeds
  <1>8. StepsToScan' < StepsToScan <=> t < s
    BY <1>3, <1>4
  <1>9. CASE StepsToScan' < StepsToScan
    <2>1. t < s
      BY <1>8, <1>9
    <2> QED
      BY <1>2, <1>3, <1>4, <1>5, <1>6, <1>7, <2>1
  <1>10. CASE StillScan' /\ (StillScan => ShowsPlayer(report)')
    BY <1>2, <1>3, <1>4, <1>5, <1>6, <1>7, <1>10
  <1> QED
    BY <1>7, <1>9, <1>10

\* What the host and the buffer hold is right for as long as nobody moves.
LEMMA SameForPlayer ==
  ASSUME pins' = pins
  PROVE  /\ m_DMABuffer' = m_DMABuffer =>
                (ShowsPlayer(m_DMABuffer)' <=> ShowsPlayer(m_DMABuffer))
         /\ hostReport' = hostReport =>
                (ShowsPlayer(hostReport)' <=> ShowsPlayer(hostReport))
         /\ m_DMABuffer' = report =>
                (ShowsPlayer(m_DMABuffer)' <=> ShowsPlayer(report))
         /\ hostReport' = m_DMABuffer =>
                (ShowsPlayer(hostReport)' <=> ShowsPlayer(m_DMABuffer))
  BY DEF ShowsPlayer

\* The main loop takes no poll back.
LEMMA LoopKeepsPolls ==
  ASSUME IInv, IInv', Loop
  PROVE  PollsToGo' <= PollsToGo
  <1>1. LoopToGo = 0 => LoopToGo' = 0
    BY LoopCounts DEF Loop
  <1>2. /\ ShowsPlayer(m_DMABuffer)' <=> ShowsPlayer(m_DMABuffer)
        /\ ShowsPlayer(hostReport)' <=> ShowsPlayer(hostReport)
    <2>1. pins' = pins
      BY DEF Loop, MainLoop, ReadPin, Send, SendFirstHalf, SendSecondHalf,
             SendReportOf
    <2> QED
      BY <2>1, SameForPlayer DEF Loop
  <1> QED
    BY <1>1, <1>2 DEF PollsToGo

\* A poll takes nothing from the main loop, and the first poll after the report
\* arms it, if it is not yet armed, and the next one brings it.
LEMMA PollCounts ==
  ASSUME IInv, HostPoll
  PROVE  /\ LoopToGo' = LoopToGo
         /\ PollsToGo' <= PollsToGo
         /\ LoopToGo = 0 /\ PollsToGo # 0 => PollsToGo' < PollsToGo
  <1>1. /\ UNCHANGED <<pins, pc, next, held, touched, report>>
        /\ hostReport' = m_DMABuffer /\ m_DMABuffer' = report
    BY DEF HostPoll, vars, Rearmed
  <1>2. LoopToGo' = LoopToGo
    BY <1>1 DEF LoopToGo, StillScan, Scanning, StepsToScan, ShowsPlayer
  <1>3. /\ ShowsPlayer(m_DMABuffer)' <=> ShowsPlayer(report)
        /\ ShowsPlayer(hostReport)' <=> ShowsPlayer(m_DMABuffer)
    BY <1>1, SameForPlayer
  <1>4. LoopToGo = 0 => ShowsPlayer(report)
    BY PathGoHolds DEF PathGoFacts
  <1> QED
    BY <1>2, <1>3, <1>4 DEF PollsToGo

\* While the player keeps still, every step of the main loop brings the report
\* of the pressed buttons nearer, from at most two scans away, and nothing takes
\* it away again; after that every poll brings the host nearer, which has two
\* polls to wait at most.
THEOREM EveryStepBringsTheReportNearer ==
  PathSpec =>
      /\ []( /\ LoopToGo \in 0..(2 * Len(ScanOrder) + 4)
             /\ PollsToGo \in 0..2)
      /\ [][Loop \/ HostPoll =>
                LoopToGo' <= LoopToGo /\ PollsToGo' <= PollsToGo]_pathVars
      /\ [][Loop /\ LoopToGo # 0 => LoopToGo' < LoopToGo]_pathVars
      /\ [][HostPoll /\ LoopToGo = 0 /\ PollsToGo # 0 =>
                PollsToGo' < PollsToGo]_pathVars
  <1>1. IInv => /\ LoopToGo \in 0..(2 * Len(ScanOrder) + 4)
                /\ PollsToGo \in 0..2
    BY PathGoHolds DEF PathGoFacts
  <1>2. ASSUME IInv, IInv', [PathNext]_pathVars
        PROVE  /\ [Loop \/ HostPoll =>
                       LoopToGo' <= LoopToGo /\ PollsToGo' <= PollsToGo]_pathVars
               /\ [Loop /\ LoopToGo # 0 => LoopToGo' < LoopToGo]_pathVars
               /\ [HostPoll /\ LoopToGo = 0 /\ PollsToGo # 0 =>
                       PollsToGo' < PollsToGo]_pathVars
    <2>1. PICK a \in Nat : a = LoopToGo
      BY <1>2, PathGoHolds, ScanOrderFacts DEF PathGoFacts
    <2>2. PathGoFacts'
      BY <1>2, PathGoHolds, PTL
    <2>3. PICK b \in Nat : b = LoopToGo'
      BY <2>2, ScanOrderFacts DEF PathGoFacts
    <2>4. Loop => /\ a # 0 => b < a
                  /\ a = 0 => b = 0
                  /\ PollsToGo' <= PollsToGo
      BY <1>2, <2>1, <2>3, LoopCounts, LoopKeepsPolls DEF Loop
    <2>5. HostPoll => /\ b = a
                      /\ PollsToGo' <= PollsToGo
                      /\ a = 0 /\ PollsToGo # 0 => PollsToGo' < PollsToGo
      BY <1>2, <2>1, <2>3, PollCounts
    <2>6. Loop => b <= a /\ PollsToGo' <= PollsToGo
      BY <2>1, <2>3, <2>4
    <2>7. HostPoll => b <= a /\ PollsToGo' <= PollsToGo
      BY <2>1, <2>3, <2>5
    <2> QED
      BY <2>1, <2>3, <2>4, <2>5, <2>6, <2>7
  <1>3. PathSpec => []IInv
    BY PathImplementsScan, IInvHolds, PTL
  <1> QED
    BY <1>1, <1>2, <1>3, PTL DEF PathSpec

\* A host that has no poll to wait for reads the pressed buttons and nothing
\* else, and goes on to read them until the player moves.
THEOREM ThenTheHostSeesThePlayer ==
  PathSpec =>
      /\ [](PollsToGo = 0 => ReportedButtons(hostReport) \in ShownFor(pins))
      /\ [][PollsToGo = 0 /\ pins' = pins => PollsToGo' = 0]_pathVars
  <1>1. IInv => (PollsToGo = 0 => ReportedButtons(hostReport) \in ShownFor(pins))
    BY PathGoHolds DEF PathGoFacts, ShowsPlayer
  <1>2. ASSUME IInv, IInv', [PathNext]_pathVars
        PROVE  [PollsToGo = 0 /\ pins' = pins => PollsToGo' = 0]_pathVars
    <2> SUFFICES ASSUME PollsToGo = 0, pins' = pins, PathNext
                 PROVE  PollsToGo' = 0
      BY <1>2
    <2>1. PathGoFacts'
      BY <1>2, PathGoHolds, PTL
    <2>2. PollsToGo' \in 0..2
      BY <2>1 DEF PathGoFacts
    <2>3. CASE Player
      BY <2>3 DEF Player, PinChange
    <2>4. CASE Loop
      BY <1>2, <2>2, <2>4, LoopKeepsPolls
    <2>5. CASE HostPoll
      BY <1>2, <2>2, <2>5, PollCounts
    <2> QED
      BY <2>3, <2>4, <2>5 DEF PathNext
  <1>3. PathSpec => []IInv
    BY PathImplementsScan, IInvHolds, PTL
  <1> QED
    BY <1>1, <1>2, <1>3, PTL DEF PathSpec
=============================================================================
