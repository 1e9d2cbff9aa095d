---------------------------- MODULE DS4Endpoint -----------------------------
(***************************************************************************)
(* The report path of the gadget: CUSBDS4Gadget::SendDS4Report in the main *)
(* loop, CUSBDS4GadgetEndpoint (pending buffer, DMA buffer, spin lock) and *)
(* the USB interrupt handlers that send the DMA buffer and answer          *)
(* GET_REPORT.                                                             *)
(*                                                                         *)
(* A report is abstracted to its number; a buffer is a function from byte  *)
(* positions to the number of the report each byte belongs to, so that a   *)
(* mixed ("torn") buffer can be told from a whole one.  memcpy runs one    *)
(* byte per step (circle/lib/util_fast.S copies 64 bytes with ldrb/strb).  *)
(* There is one core (ARM_ALLOW_MULTI_CORE is not defined), so the lock is *)
(* only a mask on interrupts and a handler is one step.                    *)
(***************************************************************************)
EXTENDS Integers

CONSTANTS
    NBytes,             \* DS4_REPORT_SIZE
    MaxReports          \* bound on the number of reports the main loop makes

ASSUME NBytesAssumption == NBytes \in Nat \ {0}
ASSUME MaxReportsAssumption == MaxReports \in Nat

Bytes == 1..NBytes
Buffer == [Bytes -> 0..MaxReports]

\* CUSBDS4GadgetEndpoint::InitDS4Report: the neutral report, number 0.
InitDS4Report == [b \in Bytes |-> 0]

VARIABLES
    pc,                 \* where the main loop is inside SendDS4Report
    copied,             \* bytes the running memcpy has written
    made,               \* number of the report passed to SendDS4Report
    m_CurrentState,     \* CUSBDS4Gadget: answers GET_REPORT
    m_PendingBuffer,    \* CUSBDS4GadgetEndpoint: staged by SendReport
    m_DMABuffer,        \* CUSBDS4GadgetEndpoint: sent by the controller
    m_bActive,          \* CUSBDS4GadgetEndpoint
    m_TransferMode,     \* CDWUSBGadgetEndpoint, of EP1
    irqMasked,          \* interrupts disabled by CSpinLock::Acquire
    suspended,          \* suspend handled, endpoint not yet re-created
    fetched,            \* controller: bytes read from the DMA buffer
    fifo,               \* controller: TX FIFO of EP1
    xferComplete,       \* controller: XFER_COMPLETE pending for EP1
    hostReport,         \* the last report the host received on EP1
    reply,              \* the last GET_REPORT answer
    due                 \* history: the report staged at the last poll

taskVars == <<pc, copied, made, m_CurrentState, irqMasked>>
epVars   == <<m_DMABuffer, m_bActive, m_TransferMode>>
hwVars   == <<fetched, fifo, xferComplete>>
vars     == <<taskVars, m_PendingBuffer, epVars, suspended, hwVars,
              hostReport, reply, due>>

TypeOK ==
    /\ pc \in {"loop", "current", "acquire", "pending", "release", "halted"}
    /\ copied \in 0..NBytes
    /\ made \in 0..MaxReports
    /\ m_CurrentState \in Buffer
    /\ m_PendingBuffer \in Buffer
    /\ m_DMABuffer \in Buffer
    /\ m_bActive \in BOOLEAN
    /\ m_TransferMode \in {"DataIn", "Unknown"}
    /\ irqMasked \in BOOLEAN
    /\ suspended \in BOOLEAN
    /\ fetched \in 0..NBytes
    /\ fifo \in Buffer
    /\ xferComplete \in BOOLEAN
    /\ hostReport \in Buffer
    /\ reply \in Buffer
    /\ due \in 0..MaxReports

\* The state in which the endpoint has been created but not activated.
Init ==
    /\ pc = "loop" /\ copied = 0 /\ made = 0 /\ irqMasked = FALSE
    /\ m_CurrentState = InitDS4Report
    /\ m_PendingBuffer = InitDS4Report
    /\ m_DMABuffer = InitDS4Report
    /\ m_bActive = FALSE /\ m_TransferMode = "Unknown"
    /\ suspended = FALSE
    /\ fetched = 0 /\ fifo = InitDS4Report /\ xferComplete = FALSE
    /\ hostReport = InitDS4Report /\ reply = InitDS4Report
    /\ due = 0

Whole(buf) == \A b, c \in Bytes : buf[b] = buf[c]

\* The last report that is wholly in the pending buffer: memcpy writes the
\* last byte last.
Staged == m_PendingBuffer[NBytes]

-----------------------------------------------------------------------------
(* The main loop, in CGPIOController::Send.                                *)

\* memcpy writes the next byte of the report into a buffer.
MemcpyByte(buf) == [buf EXCEPT ![copied + 1] = made]

LastByte(n) == n = NBytes

\* SendDS4Report saves the report for GET_REPORT before it stages it for EP1.
FirstBuffer_pendingOnly == "acquire"

FirstBuffer == "current"

\* pGadget->SendDS4Report (report) with the next report.
SendDS4Report ==
    /\ pc = "loop"
    /\ made < MaxReports
    /\ made' = made + 1
    /\ pc' = FirstBuffer /\ copied' = 0
    /\ UNCHANGED <<m_CurrentState, m_PendingBuffer, epVars, irqMasked,
                   suspended, hwVars, hostReport, reply, due>>

\* memcpy (m_CurrentState, pReport, DS4_REPORT_SIZE), one byte, no lock.
CopyCurrentState ==
    /\ pc = "current"
    /\ m_CurrentState' = MemcpyByte(m_CurrentState)
    /\ IF LastByte(copied + 1)
       THEN pc' = "acquire" /\ copied' = 0
       ELSE pc' = pc /\ copied' = copied + 1
    /\ UNCHANGED <<made, m_PendingBuffer, epVars, irqMasked,
                   suspended, hwVars, hostReport, reply, due>>

\* SendReport: m_SpinLock.Acquire () masks interrupts (EnterCritical).
SpinLockAcquire ==
    /\ pc = "acquire"
    /\ irqMasked' = TRUE
    /\ pc' = "pending"
    /\ UNCHANGED <<copied, made, m_CurrentState, m_PendingBuffer, epVars,
                   suspended, hwVars, hostReport, reply, due>>

\* SendReport: memcpy (m_PendingBuffer, pReport, DS4_REPORT_SIZE), one byte.
CopyPendingBuffer ==
    /\ pc = "pending"
    /\ m_PendingBuffer' = MemcpyByte(m_PendingBuffer)
    /\ IF LastByte(copied + 1)
       THEN pc' = "release" /\ copied' = 0
       ELSE pc' = pc /\ copied' = copied + 1
    /\ UNCHANGED <<made, m_CurrentState, epVars, irqMasked,
                   suspended, hwVars, hostReport, reply, due>>

\* SendReport: m_SpinLock.Release () unmasks them, SendDS4Report returns.
SpinLockRelease ==
    /\ pc = "release"
    /\ irqMasked' = FALSE
    /\ pc' = "loop"
    /\ UNCHANGED <<copied, made, m_CurrentState, m_PendingBuffer, epVars,
                   suspended, hwVars, hostReport, reply, due>>

\* UpdatePlugAndPlay after a suspend: the endpoint is deleted, the core is
\* reset and a new endpoint with neutral buffers takes its place; the host
\* meets a new device.  m_CurrentState belongs to the gadget and stays.
RecreateEndpoint ==
    /\ pc = "loop"
    /\ suspended
    /\ suspended' = FALSE
    /\ m_PendingBuffer' = InitDS4Report
    /\ m_DMABuffer' = InitDS4Report
    /\ m_bActive' = FALSE /\ m_TransferMode' = "Unknown"
    /\ fetched' = 0 /\ fifo' = InitDS4Report /\ xferComplete' = FALSE
    /\ hostReport' = InitDS4Report /\ due' = 0
    /\ UNCHANGED <<taskVars, reply>>

-----------------------------------------------------------------------------
(* Interrupt handlers: each is one step, and none runs while the lock is   *)
(* held or after HandleUSBSuspend has masked the controller.               *)

InterruptsOn_lockForgotten == pc # "halted" /\ ~suspended

InterruptsOn == pc # "halted" /\ ~irqMasked /\ ~suspended

\* OnActivate sends the DMA buffer as it is: it does not copy the staged report.
FirstReport_neutral == InitDS4Report

FirstReport == m_DMABuffer

\* SET_CONFIGURATION (1): OnActivate.  A completion raised before is handled
\* in the pass of InterruptHandler that deactivated the endpoint.
OnActivate ==
    /\ InterruptsOn
    /\ ~m_bActive /\ ~xferComplete
    /\ m_bActive' = TRUE
    /\ m_DMABuffer' = FirstReport
    /\ m_TransferMode' = "DataIn" /\ fetched' = 0
    /\ due' = 0
    /\ UNCHANGED <<taskVars, m_PendingBuffer, suspended, fifo,
                   xferComplete, hostReport, reply>>

\* OnDeactivate: m_bActive = FALSE; CancelTransfer ().  The controller stops
\* sending; a completion it has already raised stays pending.
Deactivated ==
    /\ m_bActive' = FALSE
    /\ m_TransferMode' = "Unknown"
    /\ fetched' = 0

\* SET_CONFIGURATION (0), or a bus reset of a configured device.
OnDeactivate ==
    /\ InterruptsOn
    /\ m_bActive
    /\ Deactivated
    /\ UNCHANGED <<taskVars, m_PendingBuffer, m_DMABuffer, suspended, fifo,
                   xferComplete, hostReport, reply, due>>

\* HandleUSBSuspend: OnSuspend deactivates, the controller is masked.
OnSuspend ==
    /\ InterruptsOn
    /\ Deactivated
    /\ suspended' = TRUE
    /\ UNCHANGED <<taskVars, m_PendingBuffer, m_DMABuffer, fifo,
                   xferComplete, hostReport, reply, due>>

\* OnTransferComplete: memcpy (m_DMABuffer, m_PendingBuffer, ...) if active.
NextReport_noCopy == m_DMABuffer

NextReport == IF m_bActive THEN m_PendingBuffer ELSE m_DMABuffer

\* BeginTransfer (TransferDataIn, m_DMABuffer, ...) if active.
NextMode_notRearmed == "Unknown"

NextMode == IF m_bActive THEN "DataIn" ELSE "Unknown"

\* HandleInInterrupt: FinishTransfer, then OnTransferComplete copies the
\* staged report and starts the next transfer.
OnTransferComplete ==
    /\ InterruptsOn
    /\ xferComplete /\ m_TransferMode = "DataIn"
    /\ xferComplete' = FALSE
    /\ m_TransferMode' = NextMode /\ fetched' = 0
    /\ m_DMABuffer' = NextReport
    /\ UNCHANGED <<taskVars, m_PendingBuffer, m_bActive, suspended, fifo,
                   hostReport, reply, due>>

\* HandleInInterrupt for a completion raised before the endpoint was
\* deactivated: "assert (m_TransferMode < TransferUnknown)" in FinishTransfer
\* fails and the program halts.
FinishTransferAsserts ==
    /\ InterruptsOn
    /\ xferComplete /\ m_TransferMode = "Unknown"
    /\ xferComplete' = FALSE
    /\ pc' = "halted"
    /\ UNCHANGED <<copied, made, m_CurrentState, irqMasked, m_PendingBuffer,
                   epVars, suspended, fetched, fifo, hostReport, reply, due>>

InputReport == m_CurrentState

\* OnClassOrVendorRequest, GET_REPORT of an input report:
\* memcpy (pData, m_CurrentState, nLen) into EP0's buffer, with no lock.
GetReport ==
    /\ InterruptsOn
    /\ reply' = InputReport
    /\ UNCHANGED <<taskVars, m_PendingBuffer, epVars, suspended, hwVars,
                   hostReport, due>>

-----------------------------------------------------------------------------
(* The USB controller and the host.                                        *)

InFlight == m_TransferMode = "DataIn" /\ ~xferComplete

\* The controller's DMA engine moves one byte of the buffer into the FIFO.
FetchByte ==
    /\ InFlight
    /\ fetched < NBytes
    /\ fifo' = [fifo EXCEPT ![fetched + 1] = m_DMABuffer[fetched + 1]]
    /\ fetched' = fetched + 1
    /\ UNCHANGED <<taskVars, m_PendingBuffer, epVars, suspended,
                   xferComplete, hostReport, reply, due>>

\* The host's IN token: the whole packet goes out, the transfer is complete.
HostPoll ==
    /\ InFlight
    /\ fetched = NBytes
    /\ hostReport' = fifo
    /\ xferComplete' = TRUE
    /\ due' = Staged
    /\ UNCHANGED <<taskVars, m_PendingBuffer, epVars, suspended, fetched,
                   fifo, reply>>

-----------------------------------------------------------------------------
MainLoop == \/ SendDS4Report \/ CopyCurrentState \/ SpinLockAcquire
            \/ CopyPendingBuffer \/ SpinLockRelease \/ RecreateEndpoint

Interrupt == \/ OnActivate \/ OnDeactivate \/ OnSuspend
             \/ OnTransferComplete \/ FinishTransferAsserts \/ GetReport

Controller == FetchByte \/ HostPoll

Next == MainLoop \/ Interrupt \/ Controller

Spec == Init /\ [][Next]_vars

\* The main loop never stops; a pending interrupt is taken as soon as the
\* lock is released, however often it is taken again (strong fairness); the
\* host polls the endpoint every bInterval (5 ms).
Fairness ==
    /\ WF_vars(MainLoop)
    /\ WF_vars(Controller)
    /\ SF_vars(OnTransferComplete)

FairSpec == Spec /\ Fairness

-----------------------------------------------------------------------------
(* Properties.                                                             *)

\* Where the main loop stands decides what the buffers hold: interrupts are
\* masked exactly while the pending buffer may be mixed, and a report is in
\* m_CurrentState before it enters the pending buffer.
CopyInv ==
    /\ irqMasked <=> pc \in {"pending", "release"}
    /\ pc \in {"current", "pending"} => copied < NBytes
    /\ pc = "acquire" => copied = 0
    /\ pc = "current" => \A b \in 1..copied : m_CurrentState[b] = made
    /\ pc \in {"acquire", "pending", "release"} =>
           \A b \in Bytes : m_CurrentState[b] = made
    /\ pc = "pending" =>
           \A b \in Bytes :
               m_PendingBuffer[b] = IF b <= copied THEN made ELSE Staged
    /\ pc # "pending" => Whole(m_PendingBuffer)

\* What is in flight is the DMA buffer, and it does not change.
FlightInv ==
    /\ m_bActive <=> m_TransferMode = "DataIn"
    /\ suspended => ~m_bActive
    /\ Whole(m_DMABuffer)
    /\ InFlight => \A b \in 1..fetched : fifo[b] = m_DMABuffer[b]

\* Reports age along the path: what the host has is no newer than what is
\* being sent, that no newer than what is staged, and so on up to "made".
AgeInv ==
    \A b, c \in Bytes :
        /\ hostReport[b] <= m_DMABuffer[c]
        /\ m_DMABuffer[b] <= m_PendingBuffer[c]
        /\ m_PendingBuffer[b] <= m_CurrentState[c]
        /\ m_CurrentState[b] <= made
        /\ due <= m_PendingBuffer[b]
        /\ InFlight => due <= m_DMABuffer[b]

\* Every report that reaches the host on EP1 is one whole report: the main
\* loop's memcpy into the pending buffer, the handler's memcpy out of it and
\* the controller's reads of the DMA buffer never mix two of them.
NoTornReport == Whole(hostReport)

\* The inductive invariant: it also says that reports only age on their way
\* from m_CurrentState over the pending and the DMA buffer to the host.
IInv == TypeOK /\ CopyInv /\ FlightInv /\ AgeInv /\ NoTornReport

\* Until the endpoint object is replaced, the host never receives a report
\* older than one it already has, also across SET_CONFIGURATION (0) and (1)
\* and bus resets (OnActivate sends the old DMA buffer once more).
HostNeverGoesBack ==
    [][\/ suspended /\ ~suspended'
       \/ \A b \in Bytes : hostReport'[b] >= hostReport[b]]_vars

\* Whenever a GET_REPORT may be answered, also in the middle of a memcpy, the
\* answer is at least as recent, byte by byte, as everything the host has
\* received on EP1: SendDS4Report writes m_CurrentState first.
GetReportNotOlder ==
    InterruptsOn => \A b, c \in Bytes : InputReport[b] >= hostReport[c]

\* Double buffering costs one poll: a poll delivers at least the report that
\* was staged when the previous poll of the same activation took place.
AtMostOnePollLate ==
    [][HostPoll => \A b \in Bytes : hostReport'[b] >= due]_vars

\* A staged report, or a later one, reaches the host while the endpoint stays
\* active (an assert can only fail on an endpoint that is not).
StagedIsDelivered ==
    \A n \in 1..MaxReports :
        (Staged = n /\ m_bActive)
            ~> (hostReport[1] >= n \/ ~m_bActive)

\* The whole path refines the one-step promise of LatestReport.
Latest == INSTANCE LatestReport WITH put <- made, seen <- hostReport[1],
                                  online <- ~suspended

LatestReportSpec == Latest!Spec

\* The endpoint keeps to the life that the rest of the device gives it (see
\* DWGadget), and does its own part of it: every completion of an active
\* endpoint is followed by the next transfer.
Life == INSTANCE EndpointLife WITH
    exists   <- pc # "halted" /\ ~suspended,
    active   <- pc # "halted" /\ m_bActive,
    transfer <- IF pc = "halted" THEN "none"
                ELSE IF xferComplete THEN "completed"
                ELSE IF m_TransferMode = "DataIn" THEN "armed" ELSE "none",
    halted   <- pc = "halted"

EndpointLifeSpec == Life!Spec

\* usbds4gadget.h:34: SendDS4Report is "Thread-safe to be called from
\* anywhere anytime", so no GET_REPORT answer mixes two reports.
GetReportNotTorn == Whole(reply)
=============================================================================
