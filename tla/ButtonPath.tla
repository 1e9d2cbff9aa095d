------------------------------ MODULE ButtonPath ------------------------------
(***************************************************************************)
(* From the button to the host: GPIOController with the DS4 endpoint of an *)
(* active device behind it.  "report" is what SendDS4Report has staged in  *)
(* m_PendingBuffer; DS4Endpoint and its theorems justify that a report is  *)
(* one value here, and that a poll and the interrupt that re-arms the      *)
(* transfer are one step.                                                  *)
(***************************************************************************)
EXTENDS GPIOController

CONSTANT MaxChanges     \* bound on the number of times a pin changes

VARIABLES
    m_DMABuffer,        \* the report the controller sends next
    hostReport,         \* the last report the host received
    changes             \* pin changes so far

pathVars == <<vars, m_DMABuffer, hostReport, changes>>

PathInit ==
    /\ Init
    /\ m_DMABuffer = Neutral /\ hostReport = Neutral
    /\ changes = 0

Player ==
    /\ changes < MaxChanges /\ changes' = changes + 1
    /\ PinChange
    /\ UNCHANGED <<m_DMABuffer, hostReport>>

\* CUSBDS4GadgetEndpoint::OnTransferComplete copies what is staged.
Rearmed_unchanged == m_DMABuffer

Rearmed == report

\* The host's IN poll and OnTransferComplete.
HostPoll ==
    /\ hostReport' = m_DMABuffer
    /\ m_DMABuffer' = Rearmed
    /\ UNCHANGED <<vars, changes>>

Loop == MainLoop /\ UNCHANGED <<m_DMABuffer, hostReport, changes>>

PathNext == Player \/ Loop \/ HostPoll

\* The main loop runs on and the host polls every bInterval.
PathSpec ==
    /\ PathInit /\ [][PathNext]_pathVars
    /\ WF_pathVars(Loop) /\ WF_pathVars(HostPoll)

\* The buttons in a report of the pressed buttons s.
ShownFor(s) == {ReportedButtons(CreateDS4Report(p, 0)) : p \in Parts(s)}

-----------------------------------------------------------------------------
(* Properties.                                                             *)

\* When the player keeps still, the host comes to receive reports of exactly
\* the pressed buttons and of nothing else from then on: in a conflict, of
\* one or the other half.
HostFollowsPlayer == <>[](ReportedButtons(hostReport) \in ShownFor(pins))
=============================================================================
