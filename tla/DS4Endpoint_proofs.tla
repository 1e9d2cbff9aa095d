------------------------- MODULE DS4Endpoint_proofs -------------------------
(***************************************************************************)
(* Proofs about DS4Endpoint for every report size and every number of      *)
(* reports: IInv is inductive; it gives type correctness, NoTornReport,    *)
(* the action properties and the refinements of LatestReport and           *)
(* EndpointLife.                                                           *)
(***************************************************************************)
EXTENDS DS4Endpoint, TLAPS

\* The two assumptions on the constants, under one name.
LEMMA Constants == NBytes \in Nat \ {0} /\ MaxReports \in Nat
  BY NBytesAssumption, MaxReportsAssumption

\* Zero is a possible count of bytes and the number of a report.
LEMMA Zero == 0 \in 0..NBytes /\ 0 \in 0..MaxReports
  BY NBytesAssumption, MaxReportsAssumption

\* A buffer position is a natural number and the last one is a position.
LEMMA BytesFacts == NBytes \in Bytes /\ Bytes \subseteq Nat
  BY Constants DEF Bytes

\* The neutral report is a buffer, and every byte of it belongs to report 0.
LEMMA InitReportFacts ==
  InitDS4Report \in Buffer /\ \A b \in Bytes : InitDS4Report[b] = 0
  BY Constants DEF InitDS4Report, Buffer

\* The program starts with neutral buffers everywhere (CUSBDS4GadgetEndpoint's
\* constructor), which satisfies the inductive invariant.
LEMMA InitIInv == Init => IInv
  <1> SUFFICES ASSUME Init PROVE IInv
    OBVIOUS
  <1>1. TypeOK
    BY Zero, InitReportFacts DEF Init, TypeOK
  <1>2. CopyInv /\ FlightInv /\ AgeInv /\ NoTornReport
    BY InitReportFacts DEF Init, CopyInv, FlightInv, AgeInv, NoTornReport, Whole, InFlight
  <1> QED
    BY <1>1, <1>2 DEF IInv

\* One memcpy step writes the byte after those already copied, and only it.
LEMMA MemcpyByteFacts ==
  ASSUME NEW buf \in Buffer, made \in 0..MaxReports,
         copied \in 0..NBytes, copied < NBytes
  PROVE  /\ MemcpyByte(buf) \in Buffer
         /\ copied + 1 \in Bytes
         /\ \A b \in Bytes :
                MemcpyByte(buf)[b] = IF b = copied + 1 THEN made ELSE buf[b]
  BY Constants DEF MemcpyByte, Buffer, Bytes

-----------------------------------------------------------------------------
(* The steps of the main loop.                                             *)

\* A new report starts its way in m_CurrentState.
LEMMA SendStep == IInv /\ SendDS4Report => IInv'
  <1> SUFFICES ASSUME IInv, SendDS4Report PROVE IInv'
    OBVIOUS
  <1> USE DEF SendDS4Report, FirstBuffer, epVars, hwVars
  <1>1. TypeOK'
    BY Constants DEF IInv, TypeOK, Buffer
  <1>2. CopyInv'
    BY Constants, BytesFacts DEF IInv, TypeOK, CopyInv, Whole, Staged
  <1>3. \A b \in Bytes : m_CurrentState[b] <= made + 1
    BY DEF IInv, TypeOK, AgeInv, Buffer
  <1>4. FlightInv' /\ AgeInv' /\ NoTornReport'
    BY <1>3 DEF IInv, FlightInv, AgeInv, NoTornReport, Whole, InFlight
  <1> QED
    BY <1>1, <1>2, <1>4 DEF IInv

\* The memcpy into m_CurrentState only makes its bytes newer.
LEMMA CopyCurrentStep == IInv /\ CopyCurrentState => IInv'
  <1> SUFFICES ASSUME IInv, CopyCurrentState PROVE IInv'
    OBVIOUS
  <1> USE DEF CopyCurrentState, LastByte, epVars, hwVars
  <1>1. /\ m_CurrentState' \in Buffer
        /\ copied + 1 \in Bytes
        /\ \A b \in Bytes : m_CurrentState'[b]
                              = IF b = copied + 1 THEN made
                                                  ELSE m_CurrentState[b]
    BY MemcpyByteFacts DEF IInv, TypeOK, CopyInv
  <1>2. TypeOK'
    BY Constants, <1>1 DEF IInv, TypeOK, Bytes
  <1>3. CopyInv'
    BY Constants, <1>1, BytesFacts DEF IInv, TypeOK, CopyInv, Whole, Staged, Bytes
  <1>4. AgeInv'
    <2> SUFFICES ASSUME NEW b \in Bytes, NEW c \in Bytes
                 PROVE  /\ m_PendingBuffer[b] <= m_CurrentState'[c]
                        /\ m_CurrentState'[b] <= made
      BY DEF IInv, AgeInv, InFlight
    <2>1. m_PendingBuffer[b] \in 0..made
      <3>1. m_PendingBuffer[b] \in Nat /\ m_CurrentState[b] \in Nat
            /\ made \in Nat
        BY DEF IInv, TypeOK, Buffer
      <3>2. m_CurrentState[b] <= made
        BY DEF IInv, AgeInv
      <3> QED
        BY <3>1, <3>2 DEF IInv, AgeInv
    <2> QED
      BY <1>1, <2>1 DEF IInv, TypeOK, AgeInv
  <1>5. FlightInv' /\ NoTornReport'
    BY DEF IInv, FlightInv, NoTornReport, Whole, InFlight
  <1> QED
    BY <1>2, <1>3, <1>4, <1>5 DEF IInv

\* Taking the lock masks interrupts before the pending buffer is written.
LEMMA AcquireStep == IInv /\ SpinLockAcquire => IInv'
  <1> SUFFICES ASSUME IInv, SpinLockAcquire PROVE IInv'
    OBVIOUS
  <1> USE DEF SpinLockAcquire, epVars, hwVars
  <1>1. TypeOK'
    BY Zero DEF IInv, TypeOK
  <1>2. CopyInv'
    BY Constants, BytesFacts DEF IInv, TypeOK, CopyInv, Whole, Staged, Bytes
  <1>3. FlightInv' /\ AgeInv' /\ NoTornReport'
    BY DEF IInv, FlightInv, AgeInv, NoTornReport, Whole, InFlight
  <1> QED
    BY <1>1, <1>2, <1>3 DEF IInv

\* The memcpy into the pending buffer runs under the lock, on a report that
\* m_CurrentState already holds.
LEMMA CopyPendingStep == IInv /\ CopyPendingBuffer => IInv'
  <1> SUFFICES ASSUME IInv, CopyPendingBuffer PROVE IInv'
    OBVIOUS
  <1> USE DEF CopyPendingBuffer, LastByte, epVars, hwVars
  <1>1. /\ m_PendingBuffer' \in Buffer
        /\ copied + 1 \in Bytes
        /\ \A b \in Bytes : m_PendingBuffer'[b]
                              = IF b = copied + 1 THEN made
                                                  ELSE m_PendingBuffer[b]
    BY MemcpyByteFacts DEF IInv, TypeOK, CopyInv
  <1>2. TypeOK'
    BY Constants, <1>1 DEF IInv, TypeOK, Bytes
  <1>3. CopyInv'
    BY Constants, <1>1, BytesFacts DEF IInv, TypeOK, CopyInv, Whole, Staged, Bytes
  <1>4. AgeInv'
    <2>1. \A b \in Bytes : /\ m_PendingBuffer[b] <= made
                           /\ m_PendingBuffer'[b] >= m_PendingBuffer[b]
                           /\ m_PendingBuffer'[b] <= made
      BY <1>1, BytesFacts DEF IInv, TypeOK, CopyInv, AgeInv, Buffer
    <2> SUFFICES ASSUME NEW b \in Bytes, NEW c \in Bytes
                 PROVE  /\ m_DMABuffer[b] <= m_PendingBuffer'[c]
                        /\ m_PendingBuffer'[b] <= m_CurrentState[c]
                        /\ due <= m_PendingBuffer'[b]
      BY DEF IInv, AgeInv, InFlight
    <2>2. m_CurrentState[c] = made
      BY DEF IInv, CopyInv
    <2>3. /\ m_DMABuffer[b] <= m_PendingBuffer[c]
          /\ due <= m_PendingBuffer[b]
      BY DEF IInv, AgeInv
    <2>4. /\ m_DMABuffer[b] \in Nat /\ due \in Nat /\ made \in Nat
          /\ m_PendingBuffer[b] \in Nat /\ m_PendingBuffer[c] \in Nat
          /\ m_PendingBuffer'[b] \in Nat /\ m_PendingBuffer'[c] \in Nat
      BY <1>1 DEF IInv, TypeOK, Buffer
    <2> QED
      BY <2>1, <2>2, <2>3, <2>4
  <1>5. FlightInv' /\ NoTornReport'
    BY DEF IInv, FlightInv, NoTornReport, Whole, InFlight
  <1> QED
    BY <1>2, <1>3, <1>4, <1>5 DEF IInv

\* The lock is released on a whole pending buffer.
LEMMA ReleaseStep == IInv /\ SpinLockRelease => IInv'
  <1> SUFFICES ASSUME IInv, SpinLockRelease PROVE IInv'
    OBVIOUS
  <1> USE DEF SpinLockRelease, epVars, hwVars
  <1>1. TypeOK'
    BY Zero DEF IInv, TypeOK
  <1>2. CopyInv'
    BY Constants DEF IInv, TypeOK, CopyInv, Whole
  <1>3. FlightInv' /\ AgeInv' /\ NoTornReport'
    BY DEF IInv, FlightInv, AgeInv, NoTornReport, Whole, InFlight
  <1> QED
    BY <1>1, <1>2, <1>3 DEF IInv

\* The re-created endpoint starts over with neutral buffers.
LEMMA RecreateStep == IInv /\ RecreateEndpoint => IInv'
  <1> SUFFICES ASSUME IInv, RecreateEndpoint PROVE IInv'
    OBVIOUS
  <1> USE DEF RecreateEndpoint, taskVars
  <1>1. TypeOK'
    BY Zero, InitReportFacts DEF IInv, TypeOK
  <1>2. CopyInv'
    BY Constants, InitReportFacts DEF IInv, TypeOK, CopyInv, Whole
  <1>3. FlightInv' /\ NoTornReport'
    BY InitReportFacts DEF FlightInv, NoTornReport, Whole, InFlight
  <1>4. AgeInv'
    BY InitReportFacts DEF IInv, TypeOK, AgeInv, InFlight, Buffer
  <1> QED
    BY <1>1, <1>2, <1>3, <1>4 DEF IInv

-----------------------------------------------------------------------------
(* The interrupt handlers.                                                 *)

\* OnActivate arms the DMA buffer as it is.
LEMMA ActivateStep == IInv /\ OnActivate => IInv'
  <1> SUFFICES ASSUME IInv, OnActivate PROVE IInv'
    OBVIOUS
  <1> USE DEF OnActivate, FirstReport, InterruptsOn, taskVars
  <1>1. TypeOK'
    BY Zero DEF IInv, TypeOK
  <1>2. CopyInv'
    BY Constants DEF IInv, CopyInv, Whole, Staged
  <1>3. FlightInv' /\ NoTornReport'
    BY DEF IInv, FlightInv, NoTornReport, Whole, InFlight
  <1>4. AgeInv'
    BY DEF IInv, TypeOK, AgeInv, InFlight, Buffer
  <1> QED
    BY <1>1, <1>2, <1>3, <1>4 DEF IInv

\* OnDeactivate and OnSuspend leave nothing in flight.
LEMMA DeactivateStep == IInv /\ (OnDeactivate \/ OnSuspend) => IInv'
  <1> SUFFICES ASSUME IInv, OnDeactivate \/ OnSuspend PROVE IInv'
    OBVIOUS
  <1> USE DEF OnDeactivate, OnSuspend, Deactivated, taskVars
  <1>1. TypeOK'
    BY Zero DEF IInv, TypeOK
  <1>2. CopyInv'
    BY Constants DEF IInv, CopyInv, Whole, Staged
  <1>3. FlightInv' /\ NoTornReport'
    BY DEF IInv, FlightInv, NoTornReport, Whole, InFlight
  <1>4. AgeInv'
    BY DEF IInv, AgeInv, InFlight
  <1> QED
    BY <1>1, <1>2, <1>3, <1>4 DEF IInv

\* The handler runs only while interrupts are on, so the pending buffer it
\* copies is whole.
LEMMA TransferCompleteStep == IInv /\ OnTransferComplete => IInv'
  <1> SUFFICES ASSUME IInv, OnTransferComplete PROVE IInv'
    OBVIOUS
  <1> USE DEF OnTransferComplete, NextMode, NextReport, InterruptsOn, taskVars
  <1>1. m_bActive /\ m_TransferMode' = "DataIn"
        /\ m_DMABuffer' = m_PendingBuffer
    BY DEF IInv, FlightInv
  <1>2. TypeOK'
    BY Zero, <1>1 DEF IInv, TypeOK
  <1>3. CopyInv'
    BY Constants DEF IInv, CopyInv, Whole, Staged
  <1>4. Whole(m_PendingBuffer)
    BY DEF IInv, CopyInv
  <1>5. FlightInv' /\ NoTornReport'
    BY <1>1, <1>4 DEF IInv, TypeOK, FlightInv, NoTornReport, Whole, InFlight
  <1>6. AgeInv'
    <2> SUFFICES ASSUME NEW b \in Bytes, NEW c \in Bytes
                 PROVE  /\ hostReport[b] <= m_PendingBuffer[c]
                        /\ m_PendingBuffer[b] <= m_PendingBuffer[c]
      BY <1>1 DEF IInv, AgeInv
    <2>1. /\ hostReport[b] <= m_DMABuffer[b]
          /\ m_DMABuffer[b] <= m_PendingBuffer[c]
          /\ m_PendingBuffer[b] = m_PendingBuffer[c]
      BY <1>4 DEF IInv, AgeInv, Whole
    <2>2. hostReport[b] \in Nat /\ m_DMABuffer[b] \in Nat
          /\ m_PendingBuffer[c] \in Nat
      BY DEF IInv, TypeOK, Buffer
    <2> QED
      BY <2>1, <2>2
  <1> QED
    BY <1>2, <1>3, <1>5, <1>6 DEF IInv

\* The failed assert in FinishTransfer changes no buffer.
LEMMA AssertStep == IInv /\ FinishTransferAsserts => IInv'
  <1> SUFFICES ASSUME IInv, FinishTransferAsserts PROVE IInv'
    OBVIOUS
  <1> USE DEF FinishTransferAsserts, InterruptsOn, epVars
  <1>1. TypeOK'
    BY Zero DEF IInv, TypeOK
  <1>2. CopyInv'
    BY Constants DEF IInv, CopyInv, Whole
  <1>3. FlightInv' /\ AgeInv' /\ NoTornReport'
    BY DEF IInv, FlightInv, AgeInv, NoTornReport, Whole, InFlight
  <1> QED
    BY <1>1, <1>2, <1>3 DEF IInv

\* The answer to GET_REPORT is some mixture of reports, but a buffer.
LEMMA GetReportStep == IInv /\ GetReport => IInv'
  <1> SUFFICES ASSUME IInv, GetReport PROVE IInv'
    OBVIOUS
  <1> USE DEF GetReport, InputReport, taskVars, epVars, hwVars
  <1>1. TypeOK'
    BY Zero DEF IInv, TypeOK
  <1>2. CopyInv'
    BY Constants DEF IInv, CopyInv, Whole, Staged
  <1>3. FlightInv' /\ AgeInv' /\ NoTornReport'
    BY DEF IInv, FlightInv, AgeInv, NoTornReport, Whole, InFlight
  <1> QED
    BY <1>1, <1>2, <1>3 DEF IInv

-----------------------------------------------------------------------------
(* The controller and the host.                                            *)

\* The controller copies a DMA buffer that does not change under it.
LEMMA FetchStep == IInv /\ FetchByte => IInv'
  <1> SUFFICES ASSUME IInv, FetchByte PROVE IInv'
    OBVIOUS
  <1> USE DEF FetchByte, InFlight, taskVars, epVars
  <1>1. /\ fifo' \in Buffer
        /\ fetched + 1 \in Bytes
        /\ \A b \in Bytes : fifo'[b] = IF b = fetched + 1
                                       THEN m_DMABuffer[b] ELSE fifo[b]
    <2>1. fetched + 1 \in Bytes
      BY Constants DEF IInv, TypeOK, Bytes
    <2> QED
      BY <2>1 DEF IInv, TypeOK, Buffer
  <1>2. TypeOK'
    BY <1>1 DEF IInv, TypeOK, Bytes
  <1>3. CopyInv'
    BY DEF IInv, CopyInv, Whole, Staged
  <1>4. FlightInv'
    <2> SUFFICES ASSUME NEW b \in 1..(fetched + 1)
                 PROVE  fifo'[b] = m_DMABuffer[b]
      BY DEF IInv, FlightInv, Whole
    <2>1. b \in Bytes /\ (b = fetched + 1 \/ b \in 1..fetched)
      BY <1>1, Constants DEF IInv, TypeOK, Bytes
    <2> QED
      BY <1>1, <2>1 DEF IInv, FlightInv
  <1>5. AgeInv' /\ NoTornReport'
    BY DEF IInv, AgeInv, NoTornReport, Whole
  <1> QED
    BY <1>2, <1>3, <1>4, <1>5 DEF IInv

\* When a poll takes place the whole DMA buffer is in the FIFO.
LEMMA PollFacts == IInv /\ HostPoll => \A b \in Bytes :
                                           hostReport'[b] = m_DMABuffer[b]
  BY DEF IInv, FlightInv, HostPoll, InFlight, Bytes

\* The host receives the DMA buffer, and "due" is what is staged then.
LEMMA PollStep == IInv /\ HostPoll => IInv'
  <1> SUFFICES ASSUME IInv, HostPoll PROVE IInv'
    OBVIOUS
  <1> USE DEF HostPoll, InFlight, Staged, taskVars, epVars
  <1>1. \A b \in Bytes : hostReport'[b] = m_DMABuffer[b]
    BY PollFacts
  <1>2. TypeOK'
    BY BytesFacts DEF IInv, TypeOK, Buffer
  <1>3. CopyInv'
    BY DEF IInv, CopyInv, Whole
  <1>4. FlightInv' /\ NoTornReport'
    BY <1>1 DEF IInv, FlightInv, NoTornReport, Whole
  <1>5. \A b \in Bytes : due' <= m_PendingBuffer[b]
    <2> SUFFICES ASSUME NEW b \in Bytes
                 PROVE  m_PendingBuffer[NBytes] <= m_PendingBuffer[b]
      OBVIOUS
    <2>1. m_PendingBuffer[NBytes] \in Nat /\ made \in Nat
          /\ m_PendingBuffer[NBytes] <= made
      BY BytesFacts DEF IInv, TypeOK, AgeInv, Buffer
    <2>2. CASE pc = "pending"
      BY <2>1, <2>2 DEF IInv, CopyInv
    <2>3. CASE pc # "pending"
      BY <2>1, <2>3, BytesFacts DEF IInv, CopyInv, Whole
    <2> QED
      BY <2>2, <2>3
  <1>6. \A b, c \in Bytes : m_DMABuffer[b] = m_DMABuffer[c]
                            /\ m_DMABuffer[b] \in Nat
    BY DEF IInv, TypeOK, FlightInv, Whole, Buffer
  <1>7. AgeInv'
    BY <1>1, <1>5, <1>6 DEF IInv, AgeInv
  <1> QED
    BY <1>2, <1>3, <1>4, <1>7 DEF IInv

-----------------------------------------------------------------------------

\* Every step of the system preserves the inductive invariant.
LEMMA NextIInv == IInv /\ [Next]_vars => IInv'
  <1> SUFFICES ASSUME IInv, [Next]_vars PROVE IInv'
    OBVIOUS
  <1>1. CASE MainLoop
    BY <1>1, SendStep, CopyCurrentStep, AcquireStep, CopyPendingStep,
       ReleaseStep, RecreateStep DEF MainLoop
  <1>2. CASE Interrupt
    BY <1>2, ActivateStep, DeactivateStep, TransferCompleteStep, AssertStep,
       GetReportStep DEF Interrupt
  <1>3. CASE Controller
    BY <1>3, FetchStep, PollStep DEF Controller
  <1>4. CASE UNCHANGED vars
    BY <1>4 DEF vars, taskVars, epVars, hwVars, IInv, TypeOK, CopyInv,
                FlightInv, AgeInv, NoTornReport, Whole, InFlight, Staged
  <1> QED
    BY <1>1, <1>2, <1>3, <1>4 DEF Next

\* In every reachable state the reports age along the path from
\* m_CurrentState over the pending and DMA buffers to the host, and the
\* pending buffer is mixed only while its writer holds the lock.
THEOREM IInvHolds == Spec => []IInv
  <1> QED
    BY InitIInv, NextIInv, PTL DEF Spec

\* Every variable keeps to its type, for every report size and number of
\* reports: in particular no memcpy runs past a buffer's end.
THEOREM TypeCorrect == Spec => []TypeOK
  <1>1. IInv => TypeOK
    BY DEF IInv
  <1> QED
    BY <1>1, IInvHolds, PTL

\* The lock in SendReport is enough: no report that reaches the host on EP1
\* is a mixture, for every report size and every interleaving of the main
\* loop, the handlers and the controller.
THEOREM NoTornReportHolds == Spec => []NoTornReport
  <1>1. IInv => NoTornReport
    BY DEF IInv
  <1> QED
    BY <1>1, IInvHolds, PTL

\* Only HostPoll and RecreateEndpoint change what the host has.
LEMMA HostReportChanges ==
  ASSUME IInv, [Next]_vars
  PROVE  \/ HostPoll \/ RecreateEndpoint \/ UNCHANGED hostReport
  BY DEF Next, MainLoop, Interrupt, Controller, SendDS4Report,
         CopyCurrentState, SpinLockAcquire, CopyPendingBuffer,
         SpinLockRelease, OnActivate, OnDeactivate, OnSuspend,
         OnTransferComplete, FinishTransferAsserts, GetReport, FetchByte, vars

\* The host never receives an older report than it has, until the endpoint
\* object is replaced, also across deactivation and re-activation.
THEOREM HostNeverGoesBackHolds == Spec => HostNeverGoesBack
  <1>1. ASSUME IInv, [Next]_vars
        PROVE  [\/ suspended /\ ~suspended'
                \/ \A b \in Bytes : hostReport'[b] >= hostReport[b]]_vars
    <2>1. CASE HostPoll
      <3>1. \A b \in Bytes : /\ hostReport'[b] = m_DMABuffer[b]
                             /\ hostReport[b] <= m_DMABuffer[b]
                             /\ hostReport[b] \in Nat
                             /\ m_DMABuffer[b] \in Nat
        BY <1>1, <2>1, PollFacts DEF IInv, TypeOK, AgeInv, Buffer
      <3> QED
        BY <3>1
    <2>2. CASE RecreateEndpoint
      BY <2>2 DEF RecreateEndpoint
    <2>3. CASE UNCHANGED hostReport
      <3>1. \A b \in Bytes : hostReport[b] \in Nat
        BY <1>1 DEF IInv, TypeOK, Buffer
      <3> QED
        BY <2>3, <3>1
    <2> QED
      BY <1>1, <2>1, <2>2, <2>3, HostReportChanges
  <1> QED
    BY <1>1, IInvHolds, PTL DEF Spec, HostNeverGoesBack

\* Double buffering costs at most one poll.
THEOREM AtMostOnePollLateHolds == Spec => AtMostOnePollLate
  <1>1. ASSUME IInv
        PROVE  HostPoll => \A b \in Bytes : hostReport'[b] >= due
    <2> SUFFICES ASSUME HostPoll, NEW b \in Bytes
                 PROVE  hostReport'[b] >= due
      OBVIOUS
    <2>1. /\ hostReport'[b] = m_DMABuffer[b]
          /\ due <= m_DMABuffer[b]
          /\ due \in Nat /\ m_DMABuffer[b] \in Nat
      BY <1>1, PollFacts DEF IInv, TypeOK, AgeInv, HostPoll, Buffer
    <2> QED
      BY <2>1
  <1> QED
    BY <1>1, IInvHolds, PTL DEF AtMostOnePollLate

\* The answer to GET_REPORT on EP0 is never behind what EP1 has delivered.
THEOREM GetReportNotOlderHolds == Spec => []GetReportNotOlder
  <1>1. IInv => GetReportNotOlder
    <2> SUFFICES ASSUME IInv, NEW b \in Bytes, NEW c \in Bytes
                 PROVE  m_CurrentState[b] >= hostReport[c]
      BY DEF GetReportNotOlder, InputReport
    <2>1. /\ hostReport[c] <= m_DMABuffer[b]
          /\ m_DMABuffer[b] <= m_PendingBuffer[b]
          /\ m_PendingBuffer[b] <= m_CurrentState[b]
      BY DEF IInv, AgeInv
    <2>2. /\ hostReport[c] \in Nat /\ m_DMABuffer[b] \in Nat
          /\ m_PendingBuffer[b] \in Nat /\ m_CurrentState[b] \in Nat
      BY DEF IInv, TypeOK, Buffer
    <2> QED
      BY <2>1, <2>2
  <1> QED
    BY <1>1, IInvHolds, PTL

-----------------------------------------------------------------------------
(* Refinement.                                                             *)

\* Every step of the buffers, the lock and the handlers is a step of
\* LatestReport or leaves it alone.
THEOREM RefinesLatestReport == Spec => LatestReportSpec
  <1>1. Init => Latest!Init
    BY BytesFacts, InitReportFacts, Constants DEF Init, Latest!Init, Bytes
  <1>2. ASSUME IInv, [Next]_vars
        PROVE  [Latest!Next]_(Latest!vars)
    <2> USE DEF Latest!Next, Latest!vars
    <2>0. 1 \in Bytes /\ hostReport[1] \in Nat /\ m_DMABuffer[1] \in Nat
          /\ made \in Nat /\ hostReport[1] <= m_DMABuffer[1]
          /\ m_DMABuffer[1] <= made
      <3>1. 1 \in Bytes
        BY Constants DEF Bytes
      <3>2. /\ hostReport[1] \in Nat /\ m_DMABuffer[1] \in Nat
            /\ m_PendingBuffer[1] \in Nat /\ m_CurrentState[1] \in Nat
            /\ made \in Nat
        BY <1>2, <3>1 DEF IInv, TypeOK, Buffer
      <3>3. /\ hostReport[1] <= m_DMABuffer[1]
            /\ m_DMABuffer[1] <= m_PendingBuffer[1]
            /\ m_PendingBuffer[1] <= m_CurrentState[1]
            /\ m_CurrentState[1] <= made
        BY <1>2, <3>1 DEF IInv, AgeInv
      <3> QED
        BY <3>1, <3>2, <3>3
    <2>1. CASE SendDS4Report
      BY <2>1 DEF SendDS4Report, Latest!Put
    <2>2. CASE HostPoll
      <3>1. hostReport'[1] = m_DMABuffer[1]
        BY <1>2, <2>0, <2>2, PollFacts
      <3>2. ~suspended /\ UNCHANGED <<made, suspended>>
        BY <1>2, <2>2 DEF IInv, FlightInv, InFlight, HostPoll, taskVars
      <3> QED
        BY <2>0, <3>1, <3>2 DEF Latest!Observe
    <2>3. CASE RecreateEndpoint
      BY <2>0, <2>3, InitReportFacts
         DEF RecreateEndpoint, taskVars, Latest!Reconnect
    <2>4. CASE OnSuspend
      BY <2>4 DEF OnSuspend, InterruptsOn, taskVars, Latest!Suspend
    <2>5. CASE UNCHANGED <<made, hostReport, suspended>>
      BY <2>5
    <2>6. \/ SendDS4Report \/ HostPoll \/ RecreateEndpoint \/ OnSuspend
          \/ UNCHANGED <<made, hostReport, suspended>>
      BY <1>2 DEF Next, MainLoop, Interrupt, Controller, CopyCurrentState,
         SpinLockAcquire, CopyPendingBuffer, SpinLockRelease, OnActivate,
         OnDeactivate, OnTransferComplete, FinishTransferAsserts,
         GetReport, FetchByte, vars, taskVars
    <2> QED
      BY <2>1, <2>2, <2>3, <2>4, <2>5, <2>6
  <1> QED
    BY <1>1, <1>2, IInvHolds, PTL DEF Spec, LatestReportSpec, Latest!Spec

\* The endpoint keeps to its life-cycle for every report size: the main loop's
\* copying and the controller's reads of the buffer never disturb it.
THEOREM RefinesEndpointLife == Spec => EndpointLifeSpec
  <1>1. Init => Life!Init
    BY DEF Init, Life!Init
  <1>2. ASSUME IInv, [Next]_vars
        PROVE  [Life!Next]_(Life!vars)
    <2> USE DEF Life!Next, Life!vars
    <2>0. /\ m_bActive \in BOOLEAN /\ suspended \in BOOLEAN
          /\ xferComplete \in BOOLEAN
          /\ m_TransferMode \in {"DataIn", "Unknown"}
          /\ m_bActive <=> m_TransferMode = "DataIn"
          /\ suspended => ~m_bActive
      BY <1>2 DEF IInv, TypeOK, FlightInv
    <2>1. CASE OnActivate
      BY <2>0, <2>1 DEF OnActivate, InterruptsOn, taskVars, Life!Activate
    <2>2. CASE OnDeactivate
      BY <2>0, <2>2 DEF OnDeactivate, Deactivated, InterruptsOn, taskVars,
         Life!Deactivate, Life!Cancelled
    <2>3. CASE OnSuspend
      BY <2>0, <2>3 DEF OnSuspend, Deactivated, InterruptsOn, taskVars,
         Life!Delete, Life!Cancelled
    <2>4. CASE RecreateEndpoint
      BY <2>0, <2>4 DEF RecreateEndpoint, taskVars, Life!Create
    <2>5. CASE OnTransferComplete
      BY <2>0, <2>5 DEF OnTransferComplete, InterruptsOn, NextMode, taskVars,
         Life!NextTransfer
    <2>6. CASE FinishTransferAsserts
      BY <2>6 DEF FinishTransferAsserts, Life!Halt
    <2>7. CASE HostPoll
      BY <2>0, <2>7 DEF HostPoll, InFlight, taskVars, epVars, Life!Complete
    <2>8. CASE /\ UNCHANGED <<suspended, m_bActive, m_TransferMode, xferComplete>>
               /\ pc # "halted" /\ pc' # "halted"
      BY <2>8
    <2>9. CASE UNCHANGED <<pc, suspended, m_bActive, m_TransferMode, xferComplete>>
      BY <2>9
    <2>10. CASE SendDS4Report \/ CopyCurrentState \/ SpinLockAcquire
                \/ CopyPendingBuffer \/ SpinLockRelease
      <3>1. UNCHANGED <<suspended, m_bActive, m_TransferMode, xferComplete>>
        BY <2>10 DEF SendDS4Report, CopyCurrentState, SpinLockAcquire,
           CopyPendingBuffer, SpinLockRelease, epVars, hwVars
      <3>2. pc # "halted" /\ pc' # "halted"
        BY <2>10 DEF SendDS4Report, CopyCurrentState, SpinLockAcquire,
           CopyPendingBuffer, SpinLockRelease, FirstBuffer
      <3> QED
        BY <2>8, <3>1, <3>2
    <2>11. CASE GetReport \/ FetchByte \/ UNCHANGED vars
      BY <2>9, <2>11 DEF GetReport, FetchByte, taskVars, epVars, hwVars, vars
    <2> QED
      BY <1>2, <2>1, <2>2, <2>3, <2>4, <2>5, <2>6, <2>7, <2>10, <2>11
         DEF Next, MainLoop, Interrupt, Controller
  <1> QED
    BY <1>1, <1>2, IInvHolds, PTL DEF Spec, EndpointLifeSpec, Life!Spec
=============================================================================
