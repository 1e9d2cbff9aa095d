----------------------------- MODULE DWGadget -------------------------------
(***************************************************************************)
(* The life of the USB device: CDWUSBGadget with its control endpoint      *)
(* CDWUSBGadgetEndpoint0 (EP0) and the DS4 endpoint (EP1), as driven by    *)
(* the host, the USB controller, the interrupt handler and the main loop's *)
(* UpdatePlugAndPlay.                                                      *)
(*                                                                         *)
(* InterruptHandler reads the status once and then calls one handler per   *)
(* status bit in a fixed order; each of these calls is a step, and bus and *)
(* controller may act between two of them.  The main loop does not run     *)
(* while the handler does.  Reports are left out (see DS4Endpoint), and a  *)
(* data stage is one packet (see DWEndpoint0).                             *)
(***************************************************************************)
EXTENDS Integers

EPs == 0..1

\* The transfers an endpoint can be in (TTransferMode).
Modes == {"SetupOut", "DataOut", "DataIn", "Unknown"}

\* What the host asks for on EP0.  SetConfiguration2 stands for every request
\* that is answered with a STALL, NoData for SET_ADDRESS and the HID requests
\* without a data stage, GetData for descriptors, GET_STATUS and GET_REPORT,
\* SetData for SET_REPORT.
Requests == {"SetConfiguration0", "SetConfiguration1", "SetConfiguration2",
             "NoData", "GetData", "SetData"}

VARIABLES
    dev,            \* the driver's state, a record (see Drivers)
    pc,             \* where the main loop is inside UpdatePlugAndPlay
    latched,        \* nIntStatus: the handlers InterruptHandler has yet to call
    irqs,           \* controller: raised core interrupts
    done,           \* controller: completions raised on the endpoints
    armed,          \* controller: the transfer each endpoint is enabled for
    setup,          \* the SETUP packet in EP0's m_OutBuffer
    bus             \* what the host does with the bus

hwVars == <<irqs, done, armed, setup, bus>>
vars   == <<dev, pc, latched, hwVars>>

CoreIrqs    == {"Suspend", "Reset", "EnumDone"}
Completions == {"Setup0", "Out0", "In0", "In1"}

PlugAndPlayPCs == {"removeEP1", "removeEP0", "maskInterrupts", "initCore",
                   "createEP0", "addEndpoints", "setState",
                   "enableInterrupts"}

\* The driver's state.
Drivers ==
    [m_State : {"Powered", "Suspended", "ResetDone", "EnumDone", "Configured"},
     pnpSuspend : BOOLEAN,          \* m_bPnPEvent[PnPEventSuspend]
     pnpConfigured : BOOLEAN,       \* m_bPnPEvent[PnPEventConfigured]
     m_pEP : SUBSET EPs,            \* the endpoints that exist
     gint : BOOLEAN,                \* GLOBALINT_MASK of AHB_CFG
     m_bActive : BOOLEAN,           \* of EP1
     ep0 : {"Disconnect", "Idle", "InData", "OutData",
            "InStatus", "OutStatus"},   \* m_State of EP0
     mode : [EPs -> Modes],         \* m_TransferMode
     failed : {"", "InitCore", "BeginTransfer", "FinishTransfer",
               "SetConfiguration", "HandleInEPInterrupt",
               "HandleOutEPInterrupt", "HandleEnumerationDone",
               "OnTransferComplete", "AssignEndpoint",
               "m_pEP"}]            \* the assert or panic that halted

TypeOK ==
    /\ dev \in Drivers
    /\ pc \in PlugAndPlayPCs \cup {"loop"}
    /\ latched \subseteq CoreIrqs \cup {"OutEP", "InEP"}
    /\ irqs \subseteq CoreIrqs
    /\ done \subseteq Completions
    /\ armed \in [EPs -> Modes]
    /\ setup \in Requests
    /\ bus \in {"detached", "reset", "enabled", "suspended"}

\* In CDWUSBGadget::Initialize, before InitCore.
Init ==
    /\ dev = [m_State |-> "Powered", pnpSuspend |-> FALSE,
              pnpConfigured |-> FALSE, m_pEP |-> {}, gint |-> FALSE,
              m_bActive |-> FALSE, ep0 |-> "Disconnect",
              mode |-> [e \in EPs |-> "Unknown"], failed |-> ""]
    /\ pc = "initCore"
    /\ latched = {} /\ irqs = {} /\ done = {}
    /\ armed = [e \in EPs |-> "Unknown"]
    /\ setup = "NoData"
    /\ bus = "detached"

Running == dev.failed = ""
Interrupting == latched # {}

-----------------------------------------------------------------------------
(* Endpoint operations.  They act on g, the driver's state together with   *)
(* the transfers armed in the controller, so that a handler is the         *)
(* composition of the calls it makes.                                      *)

Whole == [drv |-> dev, armed |-> armed]

\* An assert or LOGPANIC: the first one is where the program halts.
Fail(g, where) ==
    IF g.drv.failed = "" THEN [g EXCEPT !.drv.failed = where] ELSE g

InitTransfer(g, e) == [g EXCEPT !.drv.mode[e] = "Unknown"]

BeginTransfer(g, e, m) ==
    IF g.drv.mode[e] # "Unknown" THEN Fail(g, "BeginTransfer")
    ELSE [g EXCEPT !.drv.mode[e] = m, !.armed[e] = m]

\* Sets EP_DISABLE if a transfer is known.
CancelTransfer(g, e) ==
    InitTransfer(IF g.drv.mode[e] = "Unknown" THEN g
                 ELSE [g EXCEPT !.armed[e] = "Unknown"], e)

FinishTransfer(g, e) ==
    IF g.drv.mode[e] = "Unknown" THEN Fail(g, "FinishTransfer")
    ELSE InitTransfer(g, e)

\* CUSBDS4GadgetEndpoint::OnActivate, OnDeactivate.
EP1OnActivate(g) ==
    BeginTransfer([g EXCEPT !.drv.m_bActive = TRUE], 1, "DataIn")

EP1OnDeactivate(g) == CancelTransfer([g EXCEPT !.drv.m_bActive = FALSE], 1)

\* CDWUSBGadgetEndpoint0::OnActivate, OnDeactivate.
EP0OnActivate(g) == BeginTransfer([g EXCEPT !.drv.ep0 = "Idle"], 0, "SetupOut")

EP0OnDeactivate(g) == CancelTransfer([g EXCEPT !.drv.ep0 = "Disconnect"], 0)

\* m_pEP[i]->OnX () for the endpoints that exist.
IfExists(g, e, h) == IF e \in g.drv.m_pEP THEN h ELSE g

\* CDWUSBGadget::SetConfiguration with 0 and with 1.
Deconfigure(g) ==
    IF g.drv.m_State = "EnumDone" THEN g
    ELSE LET h == [g EXCEPT !.drv.m_State = "EnumDone"]
         IN  IfExists(h, 1, EP1OnDeactivate(h))

Configure_twice(g) ==
    LET h == [g EXCEPT !.drv.m_State = "Configured"]
    IN  [IfExists(h, 1, EP1OnActivate(h)) EXCEPT !.drv.pnpConfigured = TRUE]

Configure(g) ==
    IF g.drv.m_State = "Configured" THEN g
    ELSE IF g.drv.m_State # "EnumDone" THEN Fail(g, "SetConfiguration")
    ELSE LET h == [g EXCEPT !.drv.m_State = "Configured"]
         IN  [IfExists(h, 1, EP1OnActivate(h))
                 EXCEPT !.drv.pnpConfigured = TRUE]

\* CDWUSBGadgetEndpoint0::OnControlMessage.
StatusIn(g) ==
    BeginTransfer([g EXCEPT !.drv.ep0 = "InStatus"], 0, "DataIn")

StallAndRearm_notRearmed(g) == g

StallAndRearm(g) == BeginTransfer(g, 0, "SetupOut")

OnControlMessage(g) ==
    CASE setup = "SetConfiguration0" -> StatusIn(Deconfigure(g))
      [] setup = "SetConfiguration1" -> StatusIn(Configure(g))
      [] setup = "SetConfiguration2" -> StallAndRearm(g)
      [] setup = "NoData" -> StatusIn(g)
      [] setup = "GetData" ->
            BeginTransfer([g EXCEPT !.drv.ep0 = "InData"], 0, "DataIn")
      [] setup = "SetData" ->
            BeginTransfer([g EXCEPT !.drv.ep0 = "OutData"], 0, "DataOut")

\* CDWUSBGadgetEndpoint0::OnTransferComplete.
EP0OnTransferComplete(g) ==
    CASE g.drv.ep0 = "InData" ->
            BeginTransfer([g EXCEPT !.drv.ep0 = "OutStatus"], 0, "DataOut")
      [] g.drv.ep0 = "OutData" -> StatusIn(g)
      [] g.drv.ep0 \in {"InStatus", "OutStatus"} -> EP0OnActivate(g)
      [] OTHER -> Fail(g, "OnTransferComplete")

\* CUSBDS4GadgetEndpoint::OnTransferComplete (TRUE, ...).
EP1OnTransferComplete(g) ==
    IF g.drv.m_bActive THEN BeginTransfer(g, 1, "DataIn") ELSE g

-----------------------------------------------------------------------------
(* The handlers that InterruptHandler calls.                               *)

\* SetConfiguration (0) and EP0's OnDeactivate, then OnUSBReset of every EP.
UsbReset_configurationKept(g) ==
    LET d == IF g.drv.m_State \in {"Configured", "EnumDone"}
             THEN EP0OnDeactivate(g) ELSE g
        i == InitTransfer(InitTransfer(d, 0), 1)
    IN  [i EXCEPT !.drv.m_State = "ResetDone"]

UsbReset(g) ==
    LET c == IF g.drv.m_State = "Configured" THEN Deconfigure(g) ELSE g
        d == IF c.drv.m_State = "EnumDone" THEN EP0OnDeactivate(c) ELSE c
        i == InitTransfer(InitTransfer(d, 0), 1)
    IN  [i EXCEPT !.drv.m_State = "ResetDone"]

EnumerationDone(g) ==
    LET r == IF g.drv.m_State = "Suspended" THEN UsbReset(g) ELSE g
    IN  IF r.drv.m_State = "ResetDone"
        THEN IF 0 \in r.drv.m_pEP
             THEN [EP0OnActivate(r) EXCEPT !.drv.m_State = "EnumDone"]
             ELSE Fail(r, "m_pEP")
        ELSE IF r.drv.m_State = "EnumDone" THEN r
        ELSE Fail(r, "HandleEnumerationDone")

\* Events PnPEventSuspend; every EP's OnSuspend (EP0 has none); GLOBALINT off.
Suspend_unmasked(g) ==
    IF g.drv.m_State \in {"Powered", "Suspended"} THEN g
    ELSE [IfExists(g, 1, EP1OnDeactivate(g)) EXCEPT !.drv.pnpSuspend = TRUE]

Suspend_eventLost(g) ==
    IF g.drv.m_State \in {"Powered", "Suspended"} THEN g
    ELSE [IfExists(g, 1, EP1OnDeactivate(g)) EXCEPT !.drv.gint = FALSE]

Suspend(g) ==
    IF g.drv.m_State \in {"Powered", "Suspended"} THEN g
    ELSE [IfExists(g, 1, EP1OnDeactivate(g))
             EXCEPT !.drv.pnpSuspend = TRUE, !.drv.gint = FALSE]

\* CDWUSBGadgetEndpoint::HandleOutInterrupt of EP0: SETUP_DONE goes first.
Out0Completions == done \cap {"Setup0", "Out0"}

HandleOut0(g) ==
    IF "Setup0" \in done THEN OnControlMessage(FinishTransfer(g, 0))
    ELSE EP0OnTransferComplete(FinishTransfer(g, 0))

OutEP(g) ==
    IF g.drv.m_State \notin {"Suspended", "EnumDone", "Configured"}
    THEN Fail(g, "HandleOutEPInterrupt")
    ELSE IF Out0Completions = {} \/ g.drv.m_State = "Suspended" THEN g
    ELSE IF 0 \notin g.drv.m_pEP THEN Fail(g, "m_pEP")
    ELSE HandleOut0(g)

\* The loop of HandleInEPInterrupt: every endpoint with a completion.
InHandled_firstOnly ==
    IF "In0" \in done THEN {"In0"} ELSE done \cap {"In1"}

InHandled == done \cap {"In0", "In1"}

\* CDWUSBGadgetEndpoint::HandleInInterrupt of EP0, then of EP1.
InEP(g) ==
    IF g.drv.m_State \notin {"EnumDone", "Configured"}
    THEN Fail(g, "HandleInEPInterrupt")
    ELSE LET h == IF "In0" \notin InHandled THEN g
                  ELSE IF 0 \notin g.drv.m_pEP THEN Fail(g, "m_pEP")
                  ELSE EP0OnTransferComplete(FinishTransfer(g, 0))
         IN  IF "In1" \notin InHandled THEN h
             ELSE IF 1 \notin h.drv.m_pEP THEN Fail(h, "m_pEP")
             ELSE EP1OnTransferComplete(FinishTransfer(h, 1))

\* IntStatus.Read () & IntMask.Read ().
Status == irqs \cup (IF Out0Completions # {} THEN {"OutEP"} ELSE {})
               \cup (IF done \cap {"In0", "In1"} # {} THEN {"InEP"} ELSE {})

\* The order of the calls in InterruptHandler.
Before == [Suspend |-> 1, Reset |-> 2, EnumDone |-> 3, OutEP |-> 4, InEP |-> 5]

Turn(irq) ==
    irq \in latched /\ \A other \in latched : Before[irq] <= Before[other]

\* Takes over the state a handler leaves behind.
Becomes(g) == dev' = g.drv /\ armed' = g.armed

-----------------------------------------------------------------------------
(* Actions of the interrupt handler.                                       *)

InterruptHandler ==
    /\ Running /\ ~Interrupting
    /\ dev.gint
    /\ Status # {}
    /\ latched' = Status
    /\ UNCHANGED <<dev, pc, hwVars>>

\* "nIntStatus = 0": what else was latched is not handled in this pass.
HandleUSBSuspend ==
    /\ Running /\ Turn("Suspend")
    /\ Becomes(Suspend(Whole))
    /\ irqs' = irqs \ {"Suspend"}
    /\ latched' = {}
    /\ UNCHANGED <<pc, done, setup, bus>>

HandleUSBReset ==
    /\ Running /\ Turn("Reset")
    /\ Becomes(UsbReset(Whole))
    /\ irqs' = irqs \ {"Reset"}
    /\ latched' = latched \ {"Reset"}
    /\ UNCHANGED <<pc, done, setup, bus>>

\* From StateSuspended this goes through HandleUSBReset, which acknowledges
\* a reset as well.
HandleEnumerationDone ==
    /\ Running /\ Turn("EnumDone")
    /\ Becomes(EnumerationDone(Whole))
    /\ irqs' = irqs \ (IF dev.m_State = "Suspended" THEN {"EnumDone", "Reset"}
                       ELSE {"EnumDone"})
    /\ latched' = latched \ {"EnumDone"}
    /\ UNCHANGED <<pc, done, setup, bus>>

HandleOutEPInterrupt ==
    /\ Running /\ Turn("OutEP")
    /\ Becomes(OutEP(Whole))
    /\ done' = done \ (IF dev.m_State # "Suspended" /\ "Setup0" \in done
                       THEN {"Setup0"} ELSE {"Setup0", "Out0"})
    /\ latched' = latched \ {"OutEP"}
    /\ UNCHANGED <<pc, irqs, setup, bus>>

HandleInEPInterrupt ==
    /\ Running /\ Turn("InEP")
    /\ Becomes(InEP(Whole))
    /\ done' = done \ InHandled
    /\ latched' = latched \ {"InEP"}
    /\ UNCHANGED <<pc, irqs, setup, bus>>

-----------------------------------------------------------------------------
(* Actions of the main loop: UpdatePlugAndPlay.  Initialize runs the same  *)
(* steps from "initCore" on.                                               *)

Task(at, next) ==
    /\ Running /\ ~Interrupting
    /\ pc = at /\ pc' = next
    /\ UNCHANGED latched

TakeSuspendEvent ==
    /\ Task("loop", "removeEP1")
    /\ dev.pnpSuspend
    /\ dev' = [dev EXCEPT !.pnpSuspend = FALSE]
    /\ UNCHANGED hwVars

\* CreateDevice does nothing in CUSBDS4Gadget.
TakeConfiguredEvent ==
    /\ Task("loop", "loop")
    /\ ~dev.pnpSuspend /\ dev.pnpConfigured
    /\ dev' = [dev EXCEPT !.pnpConfigured = FALSE]
    /\ UNCHANGED hwVars

\* CUSBDS4Gadget::OnSuspend: OnSuspend of EP1 again, then delete.
RemoveEP1 ==
    /\ Task("removeEP1", "removeEP0")
    /\ LET g == IfExists(Whole, 1, EP1OnDeactivate(Whole))
       IN  Becomes([g EXCEPT !.drv.m_pEP = @ \ {1}])
    /\ UNCHANGED <<irqs, done, setup, bus>>

\* delete m_pEP[0]: no transfer is cancelled.
RemoveEP0 ==
    /\ Task("removeEP0", "maskInterrupts")
    /\ dev' = [dev EXCEPT !.m_pEP = @ \ {0}]
    /\ UNCHANGED hwVars

MaskInterrupts ==
    /\ Task("maskInterrupts", "initCore")
    /\ dev' = [dev EXCEPT !.gint = FALSE]
    /\ UNCHANGED hwVars

DisarmedByReset_noReset == armed

DisarmedByReset == [e \in EPs |-> "Unknown"]

\* The soft reset forgets every transfer and interrupt; the host sees the
\* device leave the bus.
InitCore ==
    /\ Task("initCore", "createEP0")
    /\ dev' = [dev EXCEPT !.gint = FALSE]
    /\ irqs' = {} /\ done' = {}
    /\ armed' = DisarmedByReset
    /\ bus' = "detached"
    /\ UNCHANGED setup

\* Reset times out: Initialize returns FALSE, UpdatePlugAndPlay panics.
InitCoreFails ==
    /\ Task("initCore", "initCore")
    /\ dev' = [dev EXCEPT !.failed = "InitCore"]
    /\ UNCHANGED hwVars

\* The constructors: AssignEndpoint panics if the number is taken.
NewEndpoint_next(e) == [dev EXCEPT !.m_pEP = @ \cup {e + 1}]

NewEndpoint(e) ==
    LET g == IF e \in dev.m_pEP THEN Fail(Whole, "AssignEndpoint")
             ELSE InitTransfer(Whole, e)
    IN  [g.drv EXCEPT !.m_pEP = @ \cup {e}]

CreateEP0 ==
    /\ Task("createEP0", "addEndpoints")
    /\ dev' = [NewEndpoint(0) EXCEPT !.ep0 = "Disconnect"]
    /\ UNCHANGED hwVars

AddEndpoints ==
    /\ Task("addEndpoints", "setState")
    /\ dev' = [NewEndpoint(1) EXCEPT !.m_bActive = FALSE]
    /\ UNCHANGED hwVars

SetStateSuspended ==
    /\ Task("setState", "enableInterrupts")
    /\ dev' = [dev EXCEPT !.m_State = "Suspended"]
    /\ UNCHANGED hwVars

EnableInterrupts ==
    /\ Task("enableInterrupts", "loop")
    /\ dev' = [dev EXCEPT !.gint = TRUE]
    /\ UNCHANGED hwVars

-----------------------------------------------------------------------------
(* The host and the controller.                                            *)

\* A reset lasts at least 10 ms and the host waits as long after it, while an
\* interrupt that is on is handled sooner: at worst a handler logs one line
\* (SetConfiguration, Stall) over the polled serial port, about 5 ms.
ResetHandled == irqs \cap {"Reset", "EnumDone"} = {}
HandlerIdle  == dev.gint => ResetHandled /\ ~Interrupting

BusReset ==
    /\ Running
    /\ bus # "reset"
    /\ bus' = "reset"
    /\ irqs' = irqs \cup {"Reset"}
    /\ UNCHANGED <<dev, pc, latched, done, armed, setup>>

\* The end of the reset.
SpeedEnumerated ==
    /\ Running
    /\ bus = "reset" /\ HandlerIdle
    /\ bus' = "enabled"
    /\ irqs' = irqs \cup {"EnumDone"}
    /\ UNCHANGED <<dev, pc, latched, done, armed, setup>>

BusSuspend ==
    /\ Running
    /\ bus = "enabled"
    /\ bus' = "suspended"
    /\ irqs' = irqs \cup {"Suspend"}
    /\ UNCHANGED <<dev, pc, latched, done, armed, setup>>

BusResume ==
    /\ Running
    /\ bus = "suspended"
    /\ bus' = "enabled"
    /\ UNCHANGED <<dev, pc, latched, irqs, done, armed, setup>>

\* One transaction on an enabled endpoint ends the transfer.  A host that has
\* reset the device has forgotten what it had begun on it.
Transaction(e, m, completion) ==
    /\ Running
    /\ bus = "enabled" /\ ResetHandled
    /\ armed[e] = m
    /\ armed' = [armed EXCEPT ![e] = "Unknown"]
    /\ done' = done \cup {completion}
    /\ UNCHANGED <<dev, pc, latched, irqs, bus>>

HostSetup ==
    /\ Transaction(0, "SetupOut", "Setup0")
    /\ \E r \in Requests : setup' = r

HostOut0  == Transaction(0, "DataOut", "Out0") /\ UNCHANGED setup
HostIn0   == Transaction(0, "DataIn", "In0") /\ UNCHANGED setup
HostPoll1 == Transaction(1, "DataIn", "In1") /\ UNCHANGED setup

-----------------------------------------------------------------------------
Handler ==
    \/ InterruptHandler \/ HandleUSBSuspend \/ HandleUSBReset
    \/ HandleEnumerationDone \/ HandleOutEPInterrupt \/ HandleInEPInterrupt

MainLoop ==
    \/ TakeSuspendEvent \/ TakeConfiguredEvent \/ RemoveEP1 \/ RemoveEP0
    \/ MaskInterrupts \/ InitCore \/ InitCoreFails \/ CreateEP0
    \/ AddEndpoints \/ SetStateSuspended \/ EnableInterrupts

Host ==
    \/ BusReset \/ SpeedEnumerated \/ BusSuspend \/ BusResume
    \/ HostSetup \/ HostOut0 \/ HostIn0 \/ HostPoll1

Next == Handler \/ MainLoop \/ Host

Spec == Init /\ [][Next]_vars

\* Interrupts are taken, the main loop runs on, and the host continues the
\* control transfers it has begun.
Fairness ==
    /\ WF_vars(Handler)
    /\ WF_vars(MainLoop)
    /\ WF_vars(HostOut0) /\ WF_vars(HostIn0)

FairSpec == Spec /\ Fairness

-----------------------------------------------------------------------------
(* Properties.                                                             *)

\* No handler ever runs while an endpoint is missing: GLOBALINT is off from
\* HandleUSBSuspend until every endpoint has been created again.
HandlersSeeEndpoints == dev.gint \/ Interrupting => dev.m_pEP = EPs

\* EP1 is active exactly in the configured device, its transfer is known to
\* the driver while the controller may send, and the controller only sends
\* for an endpoint that exists.
EP1FollowsConfiguration ==
    Running =>
    /\ dev.m_bActive =>
           dev.m_State = "Configured" /\ 1 \in dev.m_pEP /\ ~dev.pnpSuspend
    /\ dev.m_State = "Configured" /\ dev.gint => dev.m_bActive
    /\ armed[1] # "Unknown" => dev.m_bActive /\ dev.mode[1] = "DataIn"

\* Of all the asserts on this path only those the README names can fail:
\* a transfer is never begun twice, no endpoint is missing or created twice,
\* EP0 never completes a transfer outside of a control transfer.
OnlyKnownAsserts ==
    dev.failed \in {"", "InitCore", "FinishTransfer", "HandleInEPInterrupt",
                    "HandleOutEPInterrupt"}

\* An endpoint that is gone has no transfer left in the controller, which
\* would write into freed memory: EP1 is deactivated before it is deleted, and
\* EP0, which has no OnSuspend, is disarmed by the core reset that follows.
DeletedEndpointIsDisarmed ==
    \A e \in EPs \ dev.m_pEP :
        \/ armed[e] = "Unknown"
        \/ e = 0 /\ pc \in {"maskInterrupts", "initCore"}

\* EP1 as the report path sees it: activated only when no completion of an
\* earlier activation is pending, whatever resets, suspends and configurations
\* came in between, and re-armed after each completion while it is active.
Life == INSTANCE EndpointLife WITH
    exists   <- Running /\ 1 \in dev.m_pEP,
    active   <- Running /\ dev.m_bActive,
    transfer <- IF ~Running THEN "none"
                ELSE IF "In1" \in done THEN "completed"
                ELSE IF armed[1] # "Unknown" THEN "armed" ELSE "none",
    halted   <- ~Running

EndpointLifeSpec == Life!Spec

\* A suspended device always comes back with interrupts on, unless the core
\* does not reset or an assert fails.
SuspendIsDealtWith == ~dev.gint ~> (dev.gint \/ ~Running)

\* EP0 is never left without a transfer: on an enabled bus it gets back to
\* waiting for a SETUP packet whatever the request was.
EP0ComesBack ==
    bus = "enabled" ~> (armed[0] = "SetupOut" \/ bus # "enabled" \/ ~Running)

\* dwusbgadget.cpp:654: the state in which an IN endpoint interrupt arrives.
InEPAssertHolds == dev.failed # "HandleInEPInterrupt"
-----------------------------------------------------------------------------
(* The inductive invariant.                                                *)

\* Interrupts are on only while the main loop is in its loop, with no suspend
\* to deal with, and only then is there anything latched.
InterruptsInv ==
    /\ dev.gint => pc = "loop" /\ ~dev.pnpSuspend
    /\ pc = "loop" => dev.gint \/ dev.pnpSuspend
    /\ pc # "loop" => ~dev.pnpSuspend
    /\ Interrupting => dev.gint
    /\ latched \cap CoreIrqs \subseteq irqs
    /\ "OutEP" \in latched => Out0Completions # {}
    /\ "InEP" \in latched => done \cap {"In0", "In1"} # {}

\* The endpoints that exist, by how far UpdatePlugAndPlay is.
EndpointsInv ==
    /\ pc \in {"loop", "removeEP1", "setState", "enableInterrupts"} => dev.m_pEP = EPs
    /\ pc \in {"removeEP0", "addEndpoints"} => dev.m_pEP = {0}
    /\ pc \in {"maskInterrupts", "initCore", "createEP0"} => dev.m_pEP = {}

\* The transfer of EP0 in each of its states, and the completion that ends it.
ModeOf(s) ==
    CASE s = "Idle" -> "SetupOut"
      [] s \in {"InData", "InStatus"} -> "DataIn"
      [] s \in {"OutData", "OutStatus"} -> "DataOut"
      [] OTHER -> "Unknown"

CompletionOf(m) ==
    CASE m = "SetupOut" -> "Setup0" [] m = "DataOut" -> "Out0" [] OTHER -> "In0"

Connected == dev.m_State \in {"EnumDone", "Configured"}

\* EP0 is in a control transfer in a connected device and only there; its
\* transfer is armed or its completion is pending.
EP0Inv ==
    dev.gint =>
    /\ dev.m_State # "Powered"
    /\ Connected <=> dev.ep0 # "Disconnect"
    /\ dev.mode[0] = ModeOf(dev.ep0)
    /\ armed[0] \in {"Unknown", dev.mode[0]}
    /\ Connected =>
           done \ {"In1"} = IF armed[0] = "Unknown" THEN {CompletionOf(dev.mode[0])} ELSE {}

\* EP1 is active in a configured device that takes interrupts and only there;
\* its transfer is armed or its completion is pending.
EP1Inv ==
    /\ dev.m_bActive <=> dev.m_State = "Configured" /\ dev.gint
    /\ dev.mode[1] = IF dev.m_bActive THEN "DataIn" ELSE "Unknown"
    /\ armed[1] \in {"Unknown", dev.mode[1]}
    /\ dev.m_bActive => (armed[1] = "Unknown" <=> "In1" \in done)

\* What is still pending when a reset or SET_CONFIGURATION (0) ends a
\* transfer.  After a reset the same pass of InterruptHandler comes to it, and
\* no enumeration is done before; without one EP0 is in the status stage.
PendingInv ==
    dev.gint =>
    /\ dev.m_State = "Suspended" => done = {}
    /\ dev.m_State = "ResetDone" \/ "Reset" \in latched =>
           /\ Out0Completions # {} => "OutEP" \in latched
           /\ done \cap {"In0", "In1"} # {} => "InEP" \in latched
    /\ dev.m_State = "EnumDone" /\ "In1" \in done => dev.ep0 = "InStatus"
    /\ "EnumDone" \in irqs => done = {} /\ dev.m_State # "Configured"
    /\ bus = "reset" /\ "Reset" \notin irqs =>
           dev.m_State = "ResetDone" \/ (dev.m_State = "EnumDone" /\ done = {})

\* From the core reset on nothing is armed or pending; EP0 is disconnected.
FreshInv ==
    /\ pc \in {"createEP0", "addEndpoints", "setState", "enableInterrupts"} =>
           /\ done = {} /\ armed[0] = "Unknown"
           /\ bus = "reset" => "Reset" \in irqs
           /\ pc # "createEP0" => dev.mode[0] = "Unknown" /\ dev.ep0 = "Disconnect"
    /\ pc = "enableInterrupts" => dev.m_State = "Suspended"

\* A failed assert leaves the driver in the middle of a handler.
IInv ==
    /\ TypeOK
    /\ OnlyKnownAsserts
    /\ InterruptsInv
    /\ EndpointsInv
    /\ dev.failed \in {"", "InitCore"} => EP0Inv /\ EP1Inv /\ PendingInv /\ FreshInv
    /\ dev.failed \notin {"", "InitCore"} => dev.gint

=============================================================================
