--------------------------- MODULE DWGadget_proofs ---------------------------
(***************************************************************************)
(* Proofs about DWGadget, which has no constants: IInv is inductive; it    *)
(* gives the invariants and, with each step, that EP1 lives as             *)
(* EndpointLife says.                                                      *)
(***************************************************************************)
EXTENDS DWGadget, TLAPS

\* The driver's state with the transfers armed in the controller, which the
\* operations of an endpoint act on.
Wholes == [drv : Drivers, armed : [EPs -> Modes]]

Fields == {"m_State", "pnpSuspend", "pnpConfigured", "m_pEP", "gint", "m_bActive",
           "ep0", "mode", "failed"}

\* What an operation leaves alone.
Keeps(h, g, changed) ==
  /\ h \in Wholes
  /\ \A f \in Fields \ changed : h.drv[f] = g.drv[f]

SameTransfer(h, g, e) == h.drv.mode[e] = g.drv.mode[e] /\ h.armed[e] = g.armed[e]

Idle(g, e) == g.drv.mode[e] = "Unknown" /\ g.armed[e] = "Unknown"

Begun(g, e, m) == g.drv.mode[e] = m /\ g.armed[e] = m

\* The operations of an endpoint.
LEMMA InitTransferEffect ==
  ASSUME NEW g \in Wholes, NEW e \in EPs, NEW h, h = InitTransfer(g, e)
  PROVE  /\ Keeps(h, g, {"mode"})
         /\ h.drv.mode[e] = "Unknown" /\ h.armed = g.armed
         /\ \A k \in EPs : k # e => SameTransfer(h, g, k)
  BY DEF Wholes, Drivers, Fields, Keeps, EPs, Modes, InitTransfer,
     SameTransfer

\* An idle endpoint's new transfer is known and armed; nothing else changes.
LEMMA BeginTransferEffect ==
  ASSUME NEW g \in Wholes, NEW e \in EPs, NEW m \in Modes, g.drv.mode[e] = "Unknown",
         NEW h, h = BeginTransfer(g, e, m)
  PROVE  /\ Keeps(h, g, {"mode"})
         /\ Begun(h, e, m)
         /\ \A k \in EPs : k # e => SameTransfer(h, g, k)
  BY DEF Wholes, Drivers, Fields, Keeps, EPs, Modes, BeginTransfer,
     SameTransfer, Begun

\* A cancelled transfer is neither known nor armed; nothing else changes.
LEMMA CancelTransferEffect ==
  ASSUME NEW g \in Wholes, NEW e \in EPs, g.armed[e] \in {"Unknown", g.drv.mode[e]},
         NEW h, h = CancelTransfer(g, e)
  PROVE  /\ Keeps(h, g, {"mode"})
         /\ Idle(h, e)
         /\ \A k \in EPs : k # e => SameTransfer(h, g, k)
  BY DEF Wholes, Drivers, Fields, Keeps, EPs, Modes, CancelTransfer,
     InitTransfer, SameTransfer, Idle

\* A failed assert leaves its name and nothing else.
LEMMA FailEffect ==
  ASSUME NEW g \in Wholes, g.drv.failed = "",
         NEW w \in {"FinishTransfer", "HandleInEPInterrupt", "HandleOutEPInterrupt"},
         NEW h, h = Fail(g, w)
  PROVE  Keeps(h, g, {"failed"}) /\ h.drv.failed = w
  BY DEF Wholes, Drivers, Fields, Keeps, EPs, Modes, Fail

\* Assignments to one member.
LEMMA AssignActive ==
  ASSUME NEW g \in Wholes, NEW b \in BOOLEAN, NEW h, h = [g EXCEPT !.drv.m_bActive = b]
  PROVE  Keeps(h, g, {"m_bActive"}) /\ h.armed = g.armed /\ h.drv.m_bActive = b
  BY DEF Wholes, Drivers, Fields, Keeps, EPs, Modes

\* EP1 is marked inactive.
LEMMA ClearActive ==
  ASSUME NEW g \in Wholes, NEW h, h = [g EXCEPT !.drv.m_bActive = FALSE]
  PROVE  Keeps(h, g, {"m_bActive"}) /\ h.armed = g.armed /\ ~h.drv.m_bActive
  BY AssignActive, Zenon

\* The configured event is set or taken.
LEMMA AssignConfigured ==
  ASSUME NEW g \in Wholes, NEW b \in BOOLEAN, NEW h, h = [g EXCEPT !.drv.pnpConfigured = b]
  PROVE  Keeps(h, g, {"pnpConfigured"}) /\ h.armed = g.armed /\ h.drv.pnpConfigured = b
  BY DEF Wholes, Drivers, Fields, Keeps, EPs, Modes

\* The suspend event and the interrupt mask, as HandleUSBSuspend sets them.
LEMMA AssignSuspend ==
  ASSUME NEW g \in Wholes, NEW a \in BOOLEAN, NEW b \in BOOLEAN,
         NEW h, h = [g EXCEPT !.drv.pnpSuspend = a, !.drv.gint = b]
  PROVE  /\ Keeps(h, g, {"pnpSuspend", "gint"}) /\ h.armed = g.armed
         /\ h.drv.pnpSuspend = a /\ h.drv.gint = b
  BY DEF Wholes, Drivers, Fields, Keeps, EPs, Modes

\* The device's state is set.
LEMMA AssignState ==
  ASSUME NEW g \in Wholes,
         NEW s \in {"Powered", "Suspended", "ResetDone", "EnumDone", "Configured"},
         NEW h, h = [g EXCEPT !.drv.m_State = s]
  PROVE  Keeps(h, g, {"m_State"}) /\ h.armed = g.armed /\ h.drv.m_State = s
  BY DEF Wholes, Drivers, Fields, Keeps, EPs, Modes

\* The state of the control transfer is set.
LEMMA AssignEP0 ==
  ASSUME NEW g \in Wholes,
         NEW s \in {"Disconnect", "Idle", "InData", "OutData", "InStatus", "OutStatus"},
         NEW h, h = [g EXCEPT !.drv.ep0 = s]
  PROVE  Keeps(h, g, {"ep0"}) /\ h.armed = g.armed /\ h.drv.ep0 = s
  BY DEF Wholes, Drivers, Fields, Keeps, EPs, Modes

\* A deactivated EP1 has no transfer.
LEMMA EP1OnDeactivateEffect ==
  ASSUME NEW g \in Wholes, g.armed[1] \in {"Unknown", g.drv.mode[1]},
         NEW h, h = EP1OnDeactivate(g)
  PROVE  /\ Keeps(h, g, {"mode", "m_bActive"})
         /\ ~h.drv.m_bActive /\ Idle(h, 1) /\ SameTransfer(h, g, 0)
  <1>1. PICK b : b = [g EXCEPT !.drv.m_bActive = FALSE]
    OBVIOUS
  <1>2. Keeps(b, g, {"m_bActive"}) /\ b.armed = g.armed /\ ~b.drv.m_bActive
    BY <1>1, ClearActive
  <1>3. h = CancelTransfer(b, 1)
    BY <1>1, Zenon DEF EP1OnDeactivate
  <1>4. /\ b \in Wholes /\ 1 \in EPs /\ 0 \in EPs
        /\ b.armed[1] \in {"Unknown", b.drv.mode[1]}
    BY <1>2 DEF Keeps, EPs, Fields
  <1> QED
    BY <1>2, <1>3, <1>4, CancelTransferEffect DEF Keeps, Fields, SameTransfer

\* An activated EP1 has its first transfer armed.
LEMMA EP1OnActivateEffect ==
  ASSUME NEW g \in Wholes, g.drv.mode[1] = "Unknown",
         NEW h, h = EP1OnActivate(g)
  PROVE  /\ Keeps(h, g, {"mode", "m_bActive"})
         /\ h.drv.m_bActive /\ Begun(h, 1, "DataIn") /\ SameTransfer(h, g, 0)
  <1>1. PICK b : b = [g EXCEPT !.drv.m_bActive = TRUE]
    OBVIOUS
  <1>2. Keeps(b, g, {"m_bActive"}) /\ b.armed = g.armed /\ b.drv.m_bActive
    BY <1>1, AssignActive, Zenon
  <1>3. h = BeginTransfer(b, 1, "DataIn")
    BY <1>1, Zenon DEF EP1OnActivate
  <1>4. /\ b \in Wholes /\ 1 \in EPs /\ 0 \in EPs
        /\ b.drv.mode[1] = "Unknown" /\ "DataIn" \in Modes
    BY <1>2 DEF Keeps, EPs, Fields, Modes
  <1> QED
    BY <1>2, <1>3, <1>4, BeginTransferEffect DEF Keeps, Fields, SameTransfer

\* EP0 goes on to the transfer of another of its states, or of the same.
GoesOn(h, g, s) ==
  /\ Keeps(h, g, {"mode", "ep0"})
  /\ h.drv.ep0 = s /\ Begun(h, 0, ModeOf(s)) /\ SameTransfer(h, g, 1)

\* EP0 goes to the next stage with the transfer of that stage armed.
LEMMA BeginEP0 ==
  ASSUME NEW g \in Wholes, g.drv.mode[0] = "Unknown",
         NEW s \in {"Idle", "InData", "OutData", "InStatus", "OutStatus"},
         NEW m, m = ModeOf(s),
         NEW h, h = BeginTransfer([g EXCEPT !.drv.ep0 = s], 0, m)
  PROVE  GoesOn(h, g, s)
  <1>1. PICK b : b = [g EXCEPT !.drv.ep0 = s]
    OBVIOUS
  <1>2. Keeps(b, g, {"ep0"}) /\ b.armed = g.armed /\ b.drv.ep0 = s
    BY <1>1, AssignEP0
  <1>3. h = BeginTransfer(b, 0, m)
    BY <1>1, Zenon
  <1>4. /\ b \in Wholes /\ 1 \in EPs /\ 0 \in EPs
        /\ b.drv.mode[0] = "Unknown" /\ m \in Modes
    BY <1>2 DEF Keeps, EPs, Fields, Modes, ModeOf
  <1>5. /\ Keeps(h, b, {"mode"}) /\ Begun(h, 0, m) /\ SameTransfer(h, b, 1)
    BY <1>3, <1>4, BeginTransferEffect
  <1> QED
    BY <1>2, <1>5 DEF Keeps, Fields, SameTransfer, GoesOn

\* A disconnected EP0 has no transfer.
LEMMA EP0OnDeactivateEffect ==
  ASSUME NEW g \in Wholes, g.armed[0] \in {"Unknown", g.drv.mode[0]},
         NEW h, h = EP0OnDeactivate(g)
  PROVE  /\ Keeps(h, g, {"mode", "ep0"})
         /\ h.drv.ep0 = "Disconnect" /\ Idle(h, 0) /\ SameTransfer(h, g, 1)
  <1>1. PICK b : b = [g EXCEPT !.drv.ep0 = "Disconnect"]
    OBVIOUS
  <1>2. Keeps(b, g, {"ep0"}) /\ b.armed = g.armed /\ b.drv.ep0 = "Disconnect"
    BY <1>1, AssignEP0
  <1>3. h = CancelTransfer(b, 0)
    BY <1>1, Zenon DEF EP0OnDeactivate
  <1>4. /\ b \in Wholes /\ 1 \in EPs /\ 0 \in EPs
        /\ b.armed[0] \in {"Unknown", b.drv.mode[0]}
    BY <1>2 DEF Keeps, EPs, Fields
  <1> QED
    BY <1>2, <1>3, <1>4, CancelTransferEffect DEF Keeps, Fields, SameTransfer

\* FinishTransfer of a known transfer.
LEMMA FinishTransferEffect ==
  ASSUME NEW g \in Wholes, NEW e \in EPs, g.drv.mode[e] # "Unknown",
         NEW h, h = FinishTransfer(g, e)
  PROVE  /\ Keeps(h, g, {"mode"})
         /\ h.drv.mode[e] = "Unknown" /\ h.armed = g.armed
         /\ \A k \in EPs : k # e => SameTransfer(h, g, k)
  BY InitTransferEffect DEF FinishTransfer

-----------------------------------------------------------------------------
(* The operations of the device.                                           *)

\* SET_CONFIGURATION (0) leaves EP1 inactive without a transfer, whether or not
\* the device was configured.
LEMMA DeconfigureEffect ==
  ASSUME NEW g \in Wholes, g.drv.m_pEP = EPs,
         g.drv.m_State \in {"EnumDone", "Configured"},
         g.drv.m_State = "EnumDone" => ~g.drv.m_bActive /\ Idle(g, 1),
         g.armed[1] \in {"Unknown", g.drv.mode[1]},
         NEW h, h = Deconfigure(g)
  PROVE  /\ Keeps(h, g, {"m_State", "mode", "m_bActive"})
         /\ h.drv.m_State = "EnumDone"
         /\ ~h.drv.m_bActive /\ Idle(h, 1) /\ SameTransfer(h, g, 0)
  <1>1. CASE g.drv.m_State = "EnumDone"
    BY <1>1 DEF Deconfigure, Keeps, SameTransfer
  <1>2. CASE g.drv.m_State = "Configured"
    <2>1. PICK b : b = [g EXCEPT !.drv.m_State = "EnumDone"]
      OBVIOUS
    <2>2. Keeps(b, g, {"m_State"}) /\ b.armed = g.armed /\ b.drv.m_State = "EnumDone"
      BY <2>1, AssignState
    <2>3. 1 \in b.drv.m_pEP /\ b \in Wholes /\ b.armed[1] \in {"Unknown", b.drv.mode[1]}
      BY <2>2 DEF Keeps, Fields, EPs
    <2>4. h = EP1OnDeactivate(b)
      BY <1>2, <2>1, <2>3 DEF Deconfigure, IfExists
    <2> QED
      BY <2>2, <2>3, <2>4, EP1OnDeactivateEffect DEF Keeps, Fields, SameTransfer
  <1> QED
    BY <1>1, <1>2

\* SET_CONFIGURATION (1) of a device that is not configured activates EP1.
LEMMA ConfigureEffect ==
  ASSUME NEW g \in Wholes, g.drv.m_pEP = EPs, g.drv.m_State = "EnumDone",
         g.drv.mode[1] = "Unknown",
         NEW h, h = Configure(g)
  PROVE  /\ Keeps(h, g, {"m_State", "mode", "m_bActive", "pnpConfigured"})
         /\ h.drv.m_State = "Configured"
         /\ h.drv.m_bActive /\ Begun(h, 1, "DataIn") /\ SameTransfer(h, g, 0)
  <1>1. PICK b : b = [g EXCEPT !.drv.m_State = "Configured"]
    OBVIOUS
  <1>2. Keeps(b, g, {"m_State"}) /\ b.armed = g.armed /\ b.drv.m_State = "Configured"
    BY <1>1, AssignState
  <1>3. 1 \in b.drv.m_pEP /\ b \in Wholes /\ b.drv.mode[1] = "Unknown"
    BY <1>2 DEF Keeps, Fields, EPs
  <1>4. PICK c : c = EP1OnActivate(b)
    OBVIOUS
  <1>5. /\ Keeps(c, b, {"mode", "m_bActive"})
        /\ c.drv.m_bActive /\ Begun(c, 1, "DataIn") /\ SameTransfer(c, b, 0)
    BY <1>3, <1>4, EP1OnActivateEffect
  <1>6. h = [c EXCEPT !.drv.pnpConfigured = TRUE]
    <2>1. IfExists(b, 1, EP1OnActivate(b)) = c
      BY <1>3, <1>4 DEF IfExists
    <2>2. g.drv.m_State # "Configured"
      OBVIOUS
    <2> QED
      BY <1>1, <2>1, <2>2, Zenon DEF Configure
  <1>7. c \in Wholes
    BY <1>5 DEF Keeps
  <1>8. Keeps(h, c, {"pnpConfigured"}) /\ h.armed = c.armed
    BY <1>6, <1>7, AssignConfigured, Zenon
  <1> QED
    BY <1>2, <1>5, <1>8 DEF Keeps, Fields, SameTransfer, Begun

\* What the state of the device says about its endpoints.
Consistent(g) ==
  /\ g \in Wholes
  /\ g.drv.m_pEP = EPs
  /\ g.drv.m_State # "Powered"
  /\ g.drv.m_State \in {"EnumDone", "Configured"} <=> g.drv.ep0 # "Disconnect"
  /\ g.drv.mode[0] = ModeOf(g.drv.ep0)
  /\ g.armed[0] \in {"Unknown", g.drv.mode[0]}
  /\ g.drv.m_bActive <=> g.drv.m_State = "Configured"
  /\ g.drv.mode[1] = IF g.drv.m_bActive THEN "DataIn" ELSE "Unknown"
  /\ g.armed[1] \in {"Unknown", g.drv.mode[1]}

\* A reset leaves no transfer behind.
LEMMA UsbResetEffect ==
  ASSUME NEW g, Consistent(g), NEW h, h = UsbReset(g)
  PROVE  /\ Keeps(h, g, {"m_State", "mode", "m_bActive", "ep0"})
         /\ h.drv.m_State = "ResetDone" /\ h.drv.ep0 = "Disconnect" /\ ~h.drv.m_bActive
         /\ Idle(h, 0) /\ Idle(h, 1)
  <1>1. PICK c : c = IF g.drv.m_State = "Configured" THEN Deconfigure(g) ELSE g
    OBVIOUS
  <1>2. /\ Keeps(c, g, {"m_State", "mode", "m_bActive"})
        /\ c.drv.m_State = (IF g.drv.m_State = "Configured" THEN "EnumDone" ELSE g.drv.m_State)
        /\ ~c.drv.m_bActive /\ Idle(c, 1) /\ SameTransfer(c, g, 0)
    <2>1. CASE g.drv.m_State = "Configured"
      BY <1>1, <2>1, DeconfigureEffect DEF Consistent
    <2>2. CASE g.drv.m_State # "Configured"
      BY <1>1, <2>2 DEF Consistent, Keeps, SameTransfer, Idle
    <2> QED
      BY <2>1, <2>2
  <1>3. PICK d : d = IF c.drv.m_State = "EnumDone" THEN EP0OnDeactivate(c) ELSE c
    OBVIOUS
  <1>4. /\ Keeps(d, c, {"mode", "ep0"})
        /\ d.drv.ep0 = "Disconnect" /\ Idle(d, 0) /\ SameTransfer(d, c, 1)
    <2>1. c \in Wholes /\ c.armed[0] \in {"Unknown", c.drv.mode[0]} /\ c.drv.ep0 = g.drv.ep0
      BY <1>2 DEF Consistent, Keeps, SameTransfer, Fields
    <2>2. CASE c.drv.m_State = "EnumDone"
      BY <1>3, <2>1, <2>2, EP0OnDeactivateEffect
    <2>3. CASE c.drv.m_State # "EnumDone"
      <3>1. g.drv.ep0 = "Disconnect" /\ g.drv.mode[0] = "Unknown"
        BY <1>2, <2>3 DEF Consistent, Wholes, Drivers, ModeOf
      <3> QED
        BY <1>2, <1>3, <2>1, <2>3, <3>1 DEF Keeps, SameTransfer, Idle
    <2> QED
      BY <2>2, <2>3
  <1>5. PICK j : j = InitTransfer(d, 0)
    OBVIOUS
  <1>6. PICK k : k = InitTransfer(j, 1)
    OBVIOUS
  <1>7. h = [k EXCEPT !.drv.m_State = "ResetDone"]
    BY <1>1, <1>3, <1>5, <1>6, Zenon DEF UsbReset
  <1>8. Keeps(j, d, {"mode"}) /\ Idle(j, 0) /\ SameTransfer(j, d, 1)
    BY <1>4, <1>5, InitTransferEffect DEF Keeps, EPs, Idle
  <1>9. Keeps(k, j, {"mode"}) /\ Idle(k, 1) /\ SameTransfer(k, j, 0)
    BY <1>2, <1>4, <1>6, <1>8, InitTransferEffect DEF Keeps, EPs, Idle, SameTransfer
  <1>10. Keeps(h, k, {"m_State"}) /\ h.armed = k.armed /\ h.drv.m_State = "ResetDone"
    BY <1>7, <1>9, AssignState DEF Keeps
  <1>11. Keeps(k, g, {"m_State", "mode", "m_bActive", "ep0"})
    BY <1>2, <1>4, <1>8, <1>9 DEF Keeps, Fields
  <1>12. k.drv.ep0 = "Disconnect" /\ ~k.drv.m_bActive /\ Idle(k, 0) /\ Idle(k, 1)
    BY <1>2, <1>4, <1>8, <1>9 DEF Keeps, Fields, SameTransfer, Idle
  <1> QED
    BY <1>10, <1>11, <1>12 DEF Keeps, Fields, Idle

\* From the reset on EP0 waits for a SETUP packet.
LEMMA EnumerationDoneEffect ==
  ASSUME NEW g, Consistent(g), g.drv.m_State \in {"Suspended", "ResetDone"},
         NEW h, h = EnumerationDone(g)
  PROVE  /\ Keeps(h, g, {"m_State", "mode", "m_bActive", "ep0"})
         /\ h.drv.m_State = "EnumDone" /\ h.drv.ep0 = "Idle" /\ ~h.drv.m_bActive
         /\ Begun(h, 0, "SetupOut") /\ Idle(h, 1)
  <1>1. PICK r : r = IF g.drv.m_State = "Suspended" THEN UsbReset(g) ELSE g
    OBVIOUS
  <1>2. /\ Keeps(r, g, {"m_State", "mode", "m_bActive", "ep0"})
        /\ r.drv.m_State = "ResetDone" /\ ~r.drv.m_bActive
        /\ r.drv.mode[0] = "Unknown" /\ Idle(r, 1)
    <2>1. CASE g.drv.m_State = "Suspended"
      BY <1>1, <2>1, UsbResetEffect DEF Idle
    <2>2. CASE g.drv.m_State = "ResetDone"
      BY <1>1, <2>2 DEF Consistent, Keeps, Idle, ModeOf
    <2> QED
      BY <2>1, <2>2
  <1>3. r \in Wholes /\ 0 \in r.drv.m_pEP
    BY <1>2 DEF Consistent, Keeps, Fields, EPs
  <1>4. PICK b : b = EP0OnActivate(r)
    OBVIOUS
  <1>5. GoesOn(b, r, "Idle") /\ Begun(b, 0, "SetupOut")
    <2>1. "SetupOut" = ModeOf("Idle")
      BY DEF ModeOf
    <2>2. b = BeginTransfer([r EXCEPT !.drv.ep0 = "Idle"], 0, "SetupOut")
      BY <1>4, Zenon DEF EP0OnActivate
    <2>3. GoesOn(b, r, "Idle")
      BY <1>2, <1>3, <2>1, <2>2, BeginEP0, Zenon
    <2> QED
      BY <2>1, <2>3 DEF GoesOn
  <1>6. h = [b EXCEPT !.drv.m_State = "EnumDone"]
    BY <1>1, <1>2, <1>3, <1>4, Zenon DEF EnumerationDone
  <1>7. Keeps(h, b, {"m_State"}) /\ h.armed = b.armed /\ h.drv.m_State = "EnumDone"
    BY <1>5, <1>6, AssignState DEF Keeps, GoesOn
  <1> QED
    BY <1>2, <1>5, <1>7 DEF Keeps, Fields, GoesOn, SameTransfer, Begun, Idle

\* A suspend deactivates EP1, masks the interrupts and leaves an event.
LEMMA SuspendEffect ==
  ASSUME NEW g \in Wholes, g.drv.m_pEP = EPs,
         g.drv.m_State \notin {"Powered", "Suspended"},
         g.armed[1] \in {"Unknown", g.drv.mode[1]},
         NEW h, h = Suspend(g)
  PROVE  /\ Keeps(h, g, {"mode", "m_bActive", "gint", "pnpSuspend"})
         /\ ~h.drv.m_bActive /\ ~h.drv.gint /\ h.drv.pnpSuspend
         /\ Idle(h, 1) /\ SameTransfer(h, g, 0)
  <1>1. PICK b : b = EP1OnDeactivate(g)
    OBVIOUS
  <1>2. /\ Keeps(b, g, {"mode", "m_bActive"})
        /\ ~b.drv.m_bActive /\ Idle(b, 1) /\ SameTransfer(b, g, 0)
    BY <1>1, EP1OnDeactivateEffect
  <1>3. IfExists(g, 1, EP1OnDeactivate(g)) = b
    BY <1>1 DEF IfExists, EPs
  <1>4. h = [b EXCEPT !.drv.pnpSuspend = TRUE, !.drv.gint = FALSE]
    BY <1>3, Zenon DEF Suspend
  <1>5. b \in Wholes
    BY <1>2 DEF Keeps
  <1>6. /\ Keeps(h, b, {"pnpSuspend", "gint"}) /\ h.armed = b.armed
        /\ h.drv.pnpSuspend /\ ~h.drv.gint
    BY <1>4, <1>5, AssignSuspend, Zenon
  <1> QED
    BY <1>2, <1>6 DEF Keeps, Fields, SameTransfer, Idle

-----------------------------------------------------------------------------
(* What the endpoint interrupts do.                                        *)

ControlStates == {"Idle", "InData", "OutData", "InStatus", "OutStatus"}

\* The three outcomes for the device of an interrupt of EP0.
Answered(h, g) == \E s \in ControlStates : GoesOn(h, g, s)

Deconfigured(h, g) ==
  /\ Keeps(h, g, {"m_State", "mode", "m_bActive", "ep0"})
  /\ h.drv.m_State = "EnumDone" /\ h.drv.ep0 = "InStatus"
  /\ ~h.drv.m_bActive /\ Begun(h, 0, "DataIn") /\ Idle(h, 1)

Configured(h, g) ==
  /\ g.drv.m_State = "EnumDone"
  /\ Keeps(h, g, {"m_State", "mode", "m_bActive", "ep0", "pnpConfigured"})
  /\ h.drv.m_State = "Configured" /\ h.drv.ep0 = "InStatus"
  /\ h.drv.m_bActive /\ Begun(h, 0, "DataIn") /\ Begun(h, 1, "DataIn")

\* The status stage of a control transfer to the host.
LEMMA StatusInEffect ==
  ASSUME NEW g \in Wholes, g.drv.mode[0] = "Unknown", NEW h, h = StatusIn(g)
  PROVE  GoesOn(h, g, "InStatus") /\ Begun(h, 0, "DataIn")
  <1>1. "DataIn" = ModeOf("InStatus")
    BY DEF ModeOf
  <1>2. GoesOn(h, g, "InStatus")
    BY <1>1, BeginEP0, Zenon DEF StatusIn
  <1> QED
    BY <1>1, <1>2 DEF GoesOn

\* A SETUP packet is answered, and takes EP1 with it if it sets the
\* configuration.
LEMMA OnControlMessageEffect ==
  ASSUME NEW g \in Wholes, g.drv.m_pEP = EPs, setup \in Requests,
         g.drv.m_State \in {"EnumDone", "Configured"},
         g.drv.mode[0] = "Unknown", g.drv.ep0 = "Idle",
         g.drv.m_State = "EnumDone" => ~g.drv.m_bActive /\ Idle(g, 1),
         g.armed[1] \in {"Unknown", g.drv.mode[1]},
         NEW h, h = OnControlMessage(g)
  PROVE  Answered(h, g) \/ Deconfigured(h, g) \/ Configured(h, g)
  <1>1. CASE setup = "SetConfiguration0"
    <2>1. PICK d : d = Deconfigure(g)
      OBVIOUS
    <2>2. /\ Keeps(d, g, {"m_State", "mode", "m_bActive"})
          /\ d.drv.m_State = "EnumDone"
          /\ ~d.drv.m_bActive /\ Idle(d, 1) /\ SameTransfer(d, g, 0)
      BY <2>1, DeconfigureEffect
    <2>3. h = StatusIn(d)
      BY <1>1, <2>1 DEF OnControlMessage
    <2>4. GoesOn(h, d, "InStatus") /\ Begun(h, 0, "DataIn")
      BY <2>2, <2>3, StatusInEffect DEF Keeps, SameTransfer
    <2>5. Deconfigured(h, g)
      BY <2>2, <2>4 DEF Deconfigured, GoesOn, Keeps, Fields, SameTransfer, Idle
    <2> QED
      BY <2>5
  <1>2. CASE setup = "SetConfiguration1" /\ g.drv.m_State = "EnumDone"
    <2>1. PICK d : d = Configure(g)
      OBVIOUS
    <2>2. /\ Keeps(d, g, {"m_State", "mode", "m_bActive", "pnpConfigured"})
          /\ d.drv.m_State = "Configured"
          /\ d.drv.m_bActive /\ Begun(d, 1, "DataIn") /\ SameTransfer(d, g, 0)
      BY <1>2, <2>1, ConfigureEffect DEF Idle
    <2>3. h = StatusIn(d)
      BY <1>2, <2>1 DEF OnControlMessage
    <2>4. GoesOn(h, d, "InStatus") /\ Begun(h, 0, "DataIn")
      BY <2>2, <2>3, StatusInEffect DEF Keeps, SameTransfer
    <2>5. Configured(h, g)
      BY <1>2, <2>2, <2>4 DEF Configured, GoesOn, Keeps, Fields, SameTransfer, Begun
    <2> QED
      BY <2>5
  <1>3. CASE setup = "SetConfiguration1" /\ g.drv.m_State = "Configured"
    <2>1. h = StatusIn(g)
      BY <1>3 DEF OnControlMessage, Configure
    <2> QED
      BY <2>1, StatusInEffect DEF Answered, ControlStates
  <1>4. CASE setup = "SetConfiguration2"
    <2>1. h = BeginTransfer(g, 0, "SetupOut")
      BY <1>4 DEF OnControlMessage, StallAndRearm
    <2>2. Keeps(h, g, {"mode"}) /\ Begun(h, 0, "SetupOut") /\ SameTransfer(h, g, 1)
      BY <2>1, BeginTransferEffect DEF EPs, Modes
    <2>3. "SetupOut" = ModeOf("Idle")
      BY DEF ModeOf
    <2>4. GoesOn(h, g, "Idle")
      BY <2>2, <2>3 DEF GoesOn, Keeps, Fields
    <2> QED
      BY <2>4 DEF Answered, ControlStates
  <1>5. CASE setup = "NoData"
    <2>1. h = StatusIn(g)
      BY <1>5 DEF OnControlMessage
    <2> QED
      BY <2>1, StatusInEffect DEF Answered, ControlStates
  <1>6. CASE setup = "GetData"
    <2>1. h = BeginTransfer([g EXCEPT !.drv.ep0 = "InData"], 0, "DataIn")
      BY <1>6, Zenon DEF OnControlMessage
    <2>2. "DataIn" = ModeOf("InData")
      BY DEF ModeOf
    <2>3. GoesOn(h, g, "InData")
      BY <2>1, <2>2, BeginEP0, Zenon
    <2> QED
      BY <2>3 DEF Answered, ControlStates
  <1>7. CASE setup = "SetData"
    <2>1. h = BeginTransfer([g EXCEPT !.drv.ep0 = "OutData"], 0, "DataOut")
      BY <1>7, Zenon DEF OnControlMessage
    <2>2. "DataOut" = ModeOf("OutData")
      BY DEF ModeOf
    <2>3. GoesOn(h, g, "OutData")
      BY <2>1, <2>2, BeginEP0, Zenon
    <2> QED
      BY <2>3 DEF Answered, ControlStates
  <1> QED
    BY <1>1, <1>2, <1>3, <1>4, <1>5, <1>6, <1>7 DEF Requests

\* A completed stage is followed by the next one.
LEMMA EP0OnTransferCompleteEffect ==
  ASSUME NEW g \in Wholes, g.drv.mode[0] = "Unknown",
         g.drv.ep0 \in ControlStates \ {"Idle"},
         NEW h, h = EP0OnTransferComplete(g)
  PROVE  Answered(h, g)
  <1>1. CASE g.drv.ep0 = "InData"
    <2>1. h = BeginTransfer([g EXCEPT !.drv.ep0 = "OutStatus"], 0, "DataOut")
      BY <1>1, Zenon DEF EP0OnTransferComplete
    <2>2. "DataOut" = ModeOf("OutStatus")
      BY DEF ModeOf
    <2>3. GoesOn(h, g, "OutStatus")
      BY <2>1, <2>2, BeginEP0, Zenon
    <2> QED
      BY <2>3 DEF Answered, ControlStates
  <1>2. CASE g.drv.ep0 = "OutData"
    <2>1. h = StatusIn(g)
      BY <1>2 DEF EP0OnTransferComplete
    <2> QED
      BY <2>1, StatusInEffect DEF Answered, ControlStates
  <1>3. CASE g.drv.ep0 \in {"InStatus", "OutStatus"}
    <2>1. h = EP0OnActivate(g)
      BY <1>3 DEF EP0OnTransferComplete
    <2>2. h = BeginTransfer([g EXCEPT !.drv.ep0 = "Idle"], 0, "SetupOut")
      BY <2>1, Zenon DEF EP0OnActivate
    <2>3. "SetupOut" = ModeOf("Idle")
      BY DEF ModeOf
    <2>4. GoesOn(h, g, "Idle")
      BY <2>2, <2>3, BeginEP0, Zenon
    <2> QED
      BY <2>4 DEF Answered, ControlStates
  <1> QED
    BY <1>1, <1>2, <1>3 DEF ControlStates

\* The driver between two of its steps.
LEMMA WholeIsConsistent ==
  ASSUME IInv, Running, dev.gint
  PROVE  /\ Consistent(Whole) /\ Whole.drv = dev /\ Whole.armed = armed
         /\ EP0Inv /\ EP1Inv /\ PendingInv /\ InterruptsInv /\ TypeOK
  <1>1. /\ EP0Inv /\ EP1Inv /\ PendingInv
        /\ InterruptsInv /\ EndpointsInv /\ TypeOK
    BY DEF IInv, Running
  <1>2. Whole.drv = dev /\ Whole.armed = armed /\ Whole \in Wholes
    BY <1>1 DEF Whole, Wholes, TypeOK
  <1>3. dev.m_pEP = EPs
    BY <1>1 DEF InterruptsInv, EndpointsInv
  <1> QED
    BY <1>1, <1>2, <1>3 DEF Consistent, EP0Inv, EP1Inv, Connected

-----------------------------------------------------------------------------
(* The life of EP1.                                                        *)

LifeStep == [Life!Next]_(Life!vars)

Pending1 == "In1" \in done

\* A step that EP1 does not notice.
LEMMA LifeStutters ==
  ASSUME dev'.m_bActive <=> dev.m_bActive,
         1 \in dev'.m_pEP <=> 1 \in dev.m_pEP,
         Running' <=> Running, Pending1' <=> Pending1, armed'[1] = armed[1]
  PROVE  LifeStep
  <1>1. /\ (Running /\ 1 \in dev.m_pEP)' = (Running /\ 1 \in dev.m_pEP)
        /\ (Running /\ dev.m_bActive)' = (Running /\ dev.m_bActive)
        /\ (~Running)' = (~Running)
    OBVIOUS
  <1>2. (IF ~Running THEN "none" ELSE IF "In1" \in done THEN "completed"
         ELSE IF armed[1] # "Unknown" THEN "armed" ELSE "none")'
        = (IF ~Running THEN "none" ELSE IF "In1" \in done THEN "completed"
           ELSE IF armed[1] # "Unknown" THEN "armed" ELSE "none")
    BY DEF Pending1
  <1> QED
    BY <1>1, <1>2, Zenon DEF LifeStep, Life!vars

\* A failed assert.
LEMMA LifeHalts ==
  ASSUME ~Running'
  PROVE  LifeStep
  BY DEF LifeStep, Life!Next, Life!Halt

\* EP1 is deactivated, or was not active.
LEMMA LifeDeactivates ==
  ASSUME Running, Running', 1 \in dev.m_pEP, 1 \in dev'.m_pEP,
         ~dev'.m_bActive, Pending1' <=> Pending1, armed'[1] = "Unknown",
         ~dev.m_bActive => armed[1] = "Unknown"
  PROVE  LifeStep
  <1>1. CASE dev.m_bActive
    BY <1>1
    DEF LifeStep, Life!Next, Life!Deactivate, Life!Cancelled, Pending1
  <1>2. CASE ~dev.m_bActive
    BY <1>2, LifeStutters
  <1> QED
    BY <1>1, <1>2

\* An activation with a transfer armed is a step of EP1's life.
LEMMA LifeActivates ==
  ASSUME Running, Running', 1 \in dev.m_pEP, 1 \in dev'.m_pEP,
         ~dev.m_bActive, ~Pending1, armed[1] = "Unknown",
         dev'.m_bActive, ~Pending1', armed'[1] = "DataIn"
  PROVE  LifeStep
  BY DEF LifeStep, Life!Next, Life!Activate, Pending1

\* A completed transfer that is followed by the next is a step of EP1's life.
LEMMA LifeGoesOn ==
  ASSUME Running, Running', 1 \in dev.m_pEP, 1 \in dev'.m_pEP,
         dev.m_bActive, Pending1,
         dev'.m_bActive, ~Pending1', armed'[1] = "DataIn"
  PROVE  LifeStep
  BY DEF LifeStep, Life!Next, Life!NextTransfer, Pending1

\* The completion of an armed transfer is a step of EP1's life.
LEMMA LifeCompletes ==
  ASSUME Running, Running', UNCHANGED dev,
         ~Pending1, armed[1] # "Unknown", Pending1'
  PROVE  LifeStep
  BY DEF LifeStep, Life!Next, Life!Complete, Pending1

\* What has happened on EP0 when its interrupt comes.
LEMMA OutEPEffect ==
  ASSUME IInv, Running, "OutEP" \in latched, NEW h, h = OutEP(Whole)
  PROVE  \/ /\ Keeps(h, Whole, {"failed"}) /\ h.drv.failed = "HandleOutEPInterrupt"
         \/ /\ dev.m_State \in {"EnumDone", "Configured"}
            /\ armed[0] = "Unknown" /\ done \ {"In1"} \in {{"Setup0"}, {"Out0"}}
            /\ dev.m_State = "EnumDone" => ~Pending1 /\ armed[1] = "Unknown"
            /\ Answered(h, Whole) \/ Deconfigured(h, Whole) \/ Configured(h, Whole)
  <1>1. dev.gint /\ Out0Completions # {} /\ done # {}
    BY DEF IInv, InterruptsInv, Interrupting, Out0Completions
  <1>2. /\ Consistent(Whole) /\ Whole.drv = dev /\ Whole.armed = armed
        /\ EP0Inv /\ EP1Inv /\ PendingInv /\ TypeOK
    BY <1>1, WholeIsConsistent
  <1>3. dev.m_State \in {"ResetDone", "EnumDone", "Configured"}
    BY <1>1, <1>2 DEF PendingInv, TypeOK, Drivers, Consistent
  <1>4. CASE dev.m_State = "ResetDone"
    <2>1. h = Fail(Whole, "HandleOutEPInterrupt")
      BY <1>2, <1>4 DEF OutEP
    <2> QED
      BY <1>2, <2>1, FailEffect DEF Running, Consistent
  <1>5. CASE dev.m_State \in {"EnumDone", "Configured"}
    <2>1. h = HandleOut0(Whole)
      BY <1>1, <1>2, <1>5 DEF OutEP, Consistent, EPs
    <2>2. done \ {"In1"} = {CompletionOf(dev.mode[0])} /\ armed[0] = "Unknown"
      BY <1>1, <1>2, <1>5 DEF EP0Inv, Connected, Out0Completions
    <2>3. dev.ep0 \in ControlStates /\ dev.mode[0] = ModeOf(dev.ep0)
      BY <1>1, <1>2, <1>5
      DEF EP0Inv, Connected, TypeOK, Drivers, ControlStates
    <2>4. /\ dev.mode[0] \in {"SetupOut", "DataOut"}
          /\ done \ {"In1"} = IF dev.mode[0] = "SetupOut" THEN {"Setup0"} ELSE {"Out0"}
      BY <1>1, <2>2, <2>3
      DEF CompletionOf, ModeOf, ControlStates, Out0Completions
    <2>5. dev.m_State = "EnumDone" => ~Pending1 /\ armed[1] = "Unknown"
      <3>1. dev.ep0 # "InStatus"
        BY <2>3, <2>4 DEF ModeOf
      <3> QED
        BY <1>1, <1>2, <3>1 DEF PendingInv, Pending1, EP1Inv
    <2>6. PICK f : f = FinishTransfer(Whole, 0)
      OBVIOUS
    <2>7. /\ Keeps(f, Whole, {"mode"}) /\ f.drv.mode[0] = "Unknown" /\ f.armed = armed
          /\ SameTransfer(f, Whole, 1)
      BY <1>2, <2>4, <2>6, FinishTransferEffect DEF EPs, Consistent
    <2>8. /\ f \in Wholes /\ f.drv.m_pEP = EPs /\ f.drv.m_State = dev.m_State
          /\ f.drv.ep0 = dev.ep0 /\ (f.drv.m_bActive <=> dev.m_bActive)
          /\ f.drv.mode[1] = dev.mode[1]
      BY <1>2, <2>7 DEF Keeps, Fields, Consistent, SameTransfer
    <2>9. Answered(h, f) \/ Deconfigured(h, f) \/ Configured(h, f)
      <3>1. CASE dev.mode[0] = "SetupOut"
        <4>1. h = OnControlMessage(f) /\ dev.ep0 = "Idle"
          BY <2>1, <2>3, <2>4, <2>6, <3>1 DEF HandleOut0, ModeOf, ControlStates
        <4>2. f.drv.m_State = "EnumDone" => ~f.drv.m_bActive /\ Idle(f, 1)
          BY <1>2, <2>5, <2>7, <2>8 DEF Idle, Consistent, SameTransfer
        <4>3. f.armed[1] \in {"Unknown", f.drv.mode[1]} /\ setup \in Requests
          BY <1>2, <2>7, <2>8 DEF Consistent, TypeOK
        <4> QED
          BY <1>5, <2>7, <2>8, <4>1, <4>2, <4>3, OnControlMessageEffect
      <3>2. CASE dev.mode[0] = "DataOut"
        <4>1. h = EP0OnTransferComplete(f) /\ dev.ep0 \in ControlStates \ {"Idle"}
          BY <2>1, <2>3, <2>4, <2>6, <3>2 DEF HandleOut0, ModeOf
        <4> QED
          BY <2>7, <2>8, <4>1, EP0OnTransferCompleteEffect
      <3> QED
        BY <2>4, <3>1, <3>2
    <2>10. Answered(h, f) => Answered(h, Whole)
      BY <2>7 DEF Answered, GoesOn, Keeps, Fields, SameTransfer
    <2>11. Deconfigured(h, f) => Deconfigured(h, Whole)
      BY <2>7 DEF Deconfigured, Keeps, Fields
    <2>12. Configured(h, f) => Configured(h, Whole)
      BY <2>7 DEF Configured, Keeps, Fields
    <2> QED
      BY <1>5, <2>2, <2>4, <2>5, <2>9, <2>10, <2>11, <2>12
  <1> QED
    BY <1>3, <1>4, <1>5

\* The loop of HandleInEPInterrupt: EP0 first, then EP1.
AfterIn0(b) ==
  \/ "In0" \in done /\ Answered(b, Whole) /\ done \ {"In1"} = {"In0"}
  \/ "In0" \notin done /\ b = Whole

\* HandleInEPInterrupt stops at its assert, or completes EP0's transfer and then
\* begins EP1's next one if there is one to follow.
LEMMA InEPEffect ==
  ASSUME IInv, Running, "InEP" \in latched, NEW h, h = InEP(Whole)
  PROVE  \/ /\ Keeps(h, Whole, {"failed"}) /\ h.drv.failed = "HandleInEPInterrupt"
         \/ /\ dev.m_State \in {"EnumDone", "Configured"}
            /\ \E b :
                /\ AfterIn0(b)
                /\ \/ ~Pending1 /\ h = b
                   \/ /\ Pending1 /\ dev.m_bActive
                      /\ Keeps(h, b, {"mode"}) /\ Begun(h, 1, "DataIn")
                      /\ SameTransfer(h, b, 0)
                   \/ /\ Pending1 /\ ~dev.m_bActive
                      /\ Keeps(h, b, {"failed"}) /\ h.drv.failed = "FinishTransfer"
  <1>1. dev.gint /\ done \cap {"In0", "In1"} # {} /\ done # {}
    BY DEF IInv, InterruptsInv, Interrupting
  <1>2. /\ Consistent(Whole) /\ Whole.drv = dev /\ Whole.armed = armed
        /\ EP0Inv /\ EP1Inv /\ PendingInv /\ TypeOK
    BY <1>1, WholeIsConsistent
  <1>3. dev.m_State \in {"ResetDone", "EnumDone", "Configured"}
    BY <1>1, <1>2 DEF PendingInv, TypeOK, Drivers, Consistent
  <1>4. CASE dev.m_State = "ResetDone"
    <2>1. h = Fail(Whole, "HandleInEPInterrupt")
      BY <1>2, <1>4 DEF InEP
    <2> QED
      BY <1>2, <2>1, FailEffect DEF Running, Consistent
  <1>5. CASE dev.m_State \in {"EnumDone", "Configured"}
    <2>1. PICK b : b = IF "In0" \notin done THEN Whole
                       ELSE EP0OnTransferComplete(FinishTransfer(Whole, 0))
      OBVIOUS
    <2>2. ASSUME "In0" \in done
          PROVE  Answered(b, Whole) /\ done \ {"In1"} = {"In0"}
      <3>1. done \ {"In1"} = {CompletionOf(dev.mode[0])} /\ armed[0] = "Unknown"
        BY <1>1, <1>2, <1>5, <2>2 DEF EP0Inv, Connected
      <3>2. dev.ep0 \in ControlStates /\ dev.mode[0] = ModeOf(dev.ep0)
        BY <1>1, <1>2, <1>5
        DEF EP0Inv, Connected, TypeOK, Drivers, ControlStates
      <3>3. /\ dev.mode[0] = "DataIn" /\ dev.ep0 # "Idle" /\ done \ {"In1"} = {"In0"}
        BY <2>2, <3>1, <3>2 DEF CompletionOf, ModeOf, ControlStates
      <3>4. PICK f : f = FinishTransfer(Whole, 0)
        OBVIOUS
      <3>5. /\ Keeps(f, Whole, {"mode"}) /\ f.drv.mode[0] = "Unknown" /\ f.armed = armed
            /\ SameTransfer(f, Whole, 1)
        BY <1>2, <3>3, <3>4, FinishTransferEffect DEF EPs, Consistent
      <3>6. f \in Wholes /\ f.drv.ep0 = dev.ep0
        BY <1>2, <3>5 DEF Keeps, Fields
      <3>7. Answered(b, f)
        BY <2>1, <2>2, <3>2, <3>3, <3>4, <3>5, <3>6, EP0OnTransferCompleteEffect
      <3>8. Answered(b, Whole)
        BY <3>5, <3>7 DEF Answered, GoesOn, Keeps, Fields, SameTransfer
      <3> QED
        BY <2>2, <3>3, <3>8
    <2>3. AfterIn0(b)
      BY <2>1, <2>2 DEF AfterIn0
    <2>4. /\ b \in Wholes /\ b.drv.m_pEP = EPs /\ b.drv.failed = dev.failed
          /\ (b.drv.m_bActive <=> dev.m_bActive) /\ b.drv.mode[1] = dev.mode[1]
      <3>1. CASE b = Whole
        BY <1>2, <3>1 DEF Consistent
      <3>2. CASE Answered(b, Whole)
        BY <1>2, <3>2 DEF Answered, GoesOn, Keeps, Fields, SameTransfer, Consistent
      <3> QED
        BY <2>3, <3>1, <3>2 DEF AfterIn0
    <2>5. h = IF ~Pending1 THEN b ELSE EP1OnTransferComplete(FinishTransfer(b, 1))
      <3>1. 0 \in Whole.drv.m_pEP /\ 1 \in b.drv.m_pEP
        BY <1>2, <2>4 DEF Consistent, EPs
      <3>2. /\ "In0" \in InHandled <=> "In0" \in done
            /\ "In1" \in InHandled <=> Pending1
        BY DEF InHandled, Pending1
      <3>3. (IF "In0" \notin InHandled THEN Whole
             ELSE IF 0 \notin Whole.drv.m_pEP THEN Fail(Whole, "m_pEP")
             ELSE EP0OnTransferComplete(FinishTransfer(Whole, 0))) = b
        BY <2>1, <3>1, <3>2
      <3>4. Whole.drv.m_State \in {"EnumDone", "Configured"}
        BY <1>2, <1>5
      <3> QED
        BY <3>1, <3>2, <3>3, <3>4 DEF InEP
    <2>6. CASE ~Pending1
      BY <1>5, <2>3, <2>5, <2>6
    <2>7. CASE Pending1 /\ dev.m_bActive
      <3>1. dev.mode[1] = "DataIn"
        BY <1>2, <2>7 DEF EP1Inv
      <3>2. PICK f : f = FinishTransfer(b, 1)
        OBVIOUS
      <3>3. /\ Keeps(f, b, {"mode"}) /\ f.drv.mode[1] = "Unknown" /\ f.armed = b.armed
            /\ SameTransfer(f, b, 0)
        BY <2>4, <3>1, <3>2, FinishTransferEffect DEF EPs
      <3>4. f \in Wholes /\ f.drv.m_bActive
        BY <2>4, <2>7, <3>3 DEF Keeps, Fields
      <3>5. h = BeginTransfer(f, 1, "DataIn")
        BY <2>5, <2>7, <3>2, <3>4 DEF EP1OnTransferComplete
      <3>6. Keeps(h, f, {"mode"}) /\ Begun(h, 1, "DataIn") /\ SameTransfer(h, f, 0)
        BY <3>3, <3>4, <3>5, BeginTransferEffect DEF EPs, Modes
      <3>7. Keeps(h, b, {"mode"}) /\ SameTransfer(h, b, 0)
        BY <3>3, <3>6 DEF Keeps, Fields, SameTransfer
      <3> QED
        BY <1>5, <2>3, <2>7, <3>6, <3>7
    <2>8. CASE Pending1 /\ ~dev.m_bActive
      <3>1. dev.mode[1] = "Unknown"
        BY <1>2, <2>8 DEF EP1Inv
      <3>2. PICK f : f = FinishTransfer(b, 1)
        OBVIOUS
      <3>3. f = Fail(b, "FinishTransfer")
        BY <2>4, <3>1, <3>2 DEF FinishTransfer
      <3>4. Keeps(f, b, {"failed"}) /\ f.drv.failed = "FinishTransfer"
        BY <2>4, <3>3, FailEffect DEF Running
      <3>5. ~f.drv.m_bActive
        BY <2>4, <2>8, <3>4 DEF Keeps, Fields
      <3>6. h = f
        BY <2>5, <2>8, <3>2, <3>5 DEF EP1OnTransferComplete
      <3> QED
        BY <1>5, <2>3, <2>8, <3>4, <3>6
    <2> QED
      BY <2>6, <2>7, <2>8
  <1> QED
    BY <1>3, <1>4, <1>5

-----------------------------------------------------------------------------
(* The steps of the interrupt handler.                                     *)

Sound == EP0Inv /\ EP1Inv /\ PendingInv /\ FreshInv

\* While no assert has failed, all parts of the invariant hold.
LEMMA RunningIsSound ==
  ASSUME IInv, Running
  PROVE  TypeOK /\ OnlyKnownAsserts /\ InterruptsInv /\ EndpointsInv /\ Sound
  BY Zenon DEF IInv, Running, Sound

\* A step on which no assert fails has to preserve the parts.
LEMMA SoundSuffices ==
  ASSUME Running, OnlyKnownAsserts, dev'.failed = dev.failed,
         TypeOK', InterruptsInv', EndpointsInv', Sound'
  PROVE  IInv'
  <1>1. OnlyKnownAsserts'
    BY Zenon DEF OnlyKnownAsserts
  <1> QED
    BY <1>1, Zenon DEF IInv, Sound, Running

\* Only a failed assert stops the device.
LEMMA StillRunning ==
  ASSUME dev'.failed = dev.failed
  PROVE  Running' <=> Running
  BY Zenon DEF Running

\* A handler runs in the main loop's loop with interrupts on.
LEMMA HandlerIsCalled ==
  ASSUME IInv, Running, Interrupting
  PROVE  /\ dev.gint /\ ~dev.pnpSuspend /\ pc = "loop" /\ dev.m_pEP = EPs
         /\ Consistent(Whole) /\ Whole.drv = dev /\ Whole.armed = armed
         /\ TypeOK /\ OnlyKnownAsserts /\ InterruptsInv
         /\ EP0Inv /\ EP1Inv /\ PendingInv
  <1>1. TypeOK /\ OnlyKnownAsserts /\ InterruptsInv /\ EndpointsInv /\ Sound
    BY RunningIsSound
  <1>2. dev.gint /\ ~dev.pnpSuspend /\ pc = "loop" /\ dev.m_pEP = EPs
    BY <1>1 DEF InterruptsInv, EndpointsInv
  <1> QED
    BY <1>1, <1>2, WholeIsConsistent DEF Sound

\* What is left to show for a handler of a completed status bit: it only takes
\* from the interrupts and completions, and it leaves the endpoints in place.
LEMMA HandlerStep ==
  ASSUME IInv, Running, Interrupting,
         NEW h \in Wholes, Becomes(h), h.drv.m_pEP = dev.m_pEP, h.drv.failed = dev.failed,
         UNCHANGED <<pc, setup, bus>>,
         irqs' \subseteq irqs, done' \subseteq done, latched' \subseteq latched,
         InterruptsInv', EP0Inv', EP1Inv', PendingInv'
  PROVE  IInv'
  <1>1. TypeOK /\ OnlyKnownAsserts /\ pc = "loop" /\ dev.m_pEP = EPs
    BY HandlerIsCalled
  <1>2. dev' = h.drv /\ armed' = h.armed
    BY DEF Becomes
  <1>3. TypeOK'
    BY <1>1, <1>2 DEF TypeOK, Wholes
  <1>4. EndpointsInv'
    BY <1>1, <1>2 DEF EndpointsInv
  <1>5. FreshInv'
    BY <1>1 DEF FreshInv
  <1> QED
    BY <1>1, <1>2, <1>3, <1>4, <1>5, SoundSuffices DEF Sound

\* A handler that fails an assert.
LEMMA HandlerFails ==
  ASSUME IInv, Running, Interrupting,
         NEW h \in Wholes, Becomes(h),
         \A f \in {"m_pEP", "gint", "pnpSuspend"} : h.drv[f] = dev[f],
         h.drv.failed \in {"FinishTransfer", "HandleInEPInterrupt", "HandleOutEPInterrupt"},
         UNCHANGED <<pc, setup, bus>>,
         irqs' \subseteq irqs, done' \subseteq done, latched' \subseteq latched,
         latched' \cap (CoreIrqs \cup {"OutEP", "InEP"}) \subseteq {"InEP"},
         "InEP" \in latched' => done' \cap {"In0", "In1"} # {}
  PROVE  IInv' /\ LifeStep
  <1>1. TypeOK /\ pc = "loop" /\ dev.m_pEP = EPs /\ dev.gint /\ ~dev.pnpSuspend
    BY HandlerIsCalled
  <1>2. dev' = h.drv /\ armed' = h.armed
    BY DEF Becomes
  <1>3. dev'.m_pEP = EPs /\ dev'.gint /\ ~dev'.pnpSuspend
    BY <1>1, <1>2
  <1>4. TypeOK'
    BY <1>1, <1>2 DEF TypeOK, Wholes
  <1>5. EndpointsInv'
    BY <1>1, <1>3 DEF EndpointsInv
  <1>6. InterruptsInv'
    BY <1>1, <1>3 DEF InterruptsInv, CoreIrqs, Interrupting
  <1>7. OnlyKnownAsserts' /\ ~(dev'.failed \in {"", "InitCore"}) /\ ~Running'
    BY <1>2, Zenon DEF OnlyKnownAsserts, Running
  <1>8. IInv'
    BY <1>3, <1>4, <1>5, <1>6, <1>7, Zenon DEF IInv
  <1> QED
    BY <1>7, <1>8, LifeHalts

\* The handlers are called in the order of Before.
LEMMA TurnOrder ==
  ASSUME TypeOK
  PROVE  /\ Turn("OutEP") => latched \cap CoreIrqs = {}
         /\ Turn("InEP") => latched = {"InEP"}
  <1>1. /\ Before["Suspend"] = 1 /\ Before["Reset"] = 2 /\ Before["EnumDone"] = 3
        /\ Before["OutEP"] = 4 /\ Before["InEP"] = 5
    BY DEF Before
  <1>2. ASSUME NEW irq \in {"OutEP", "InEP"}, Turn(irq), NEW other \in latched
        PROVE  other \notin CoreIrqs /\ (irq = "InEP" => other = "InEP")
    <2>1. Before[irq] <= Before[other] /\ other \in CoreIrqs \cup {"OutEP", "InEP"}
      BY <1>2 DEF Turn, TypeOK
    <2> QED
      BY <1>1, <2>1 DEF CoreIrqs
  <1>3. \A irq \in {"OutEP", "InEP"} : Turn(irq) => irq \in latched
    BY DEF Turn
  <1> QED
    BY <1>2, <1>3

\* Latching the status changes nothing else.
LEMMA InterruptHandlerStep ==
  ASSUME IInv, InterruptHandler
  PROVE  IInv' /\ LifeStep
  <1>1. TypeOK /\ OnlyKnownAsserts /\ InterruptsInv /\ EndpointsInv /\ Sound
    BY RunningIsSound DEF InterruptHandler
  <1> USE DEF InterruptHandler, hwVars
  <1>2. TypeOK'
    BY <1>1 DEF TypeOK, Status
  <1>3. InterruptsInv'
    BY <1>1
    DEF InterruptsInv, TypeOK, Status, Out0Completions,
        Interrupting, CoreIrqs
  <1>4. EP0Inv' /\ EP1Inv' /\ FreshInv' /\ EndpointsInv'
    BY <1>1
    DEF Sound, EP0Inv, Connected, EP1Inv, FreshInv, EndpointsInv
  <1>5. PendingInv'
    BY <1>1 DEF Sound, PendingInv, Status, Out0Completions
  <1>6. IInv'
    BY <1>1, <1>2, <1>3, <1>4, <1>5, SoundSuffices DEF Sound
  <1>7. LifeStep
    BY LifeStutters, StillRunning DEF Pending1
  <1> QED
    BY <1>6, <1>7

\* A suspend deactivates EP1 and masks the interrupts until the main loop has
\* dealt with it.
LEMMA HandleUSBSuspendStep ==
  ASSUME IInv, HandleUSBSuspend
  PROVE  IInv' /\ LifeStep
  <1> USE DEF HandleUSBSuspend
  <1>1. Running /\ Interrupting
    BY DEF Turn, Interrupting
  <1>2. /\ dev.gint /\ ~dev.pnpSuspend /\ pc = "loop" /\ dev.m_pEP = EPs
        /\ Consistent(Whole) /\ Whole.drv = dev /\ Whole.armed = armed
        /\ InterruptsInv /\ EP0Inv /\ EP1Inv /\ PendingInv
    BY <1>1, HandlerIsCalled
  <1>3. PICK h : h = Suspend(Whole)
    OBVIOUS
  <1>4. dev' = h.drv /\ armed' = h.armed /\ latched' = {} /\ done' = done /\ bus' = bus
        /\ irqs' = irqs \ {"Suspend"} /\ pc' = pc /\ setup' = setup
    BY <1>3 DEF Becomes
  <1>5. CASE dev.m_State = "Suspended"
    <2>1. h = Whole
      BY <1>2, <1>3, <1>5 DEF Suspend
    <2>2. dev' = dev /\ armed' = armed
      BY <1>2, <1>4, <2>1
    <2>3. InterruptsInv'
      BY <1>2, <1>4, <2>2 DEF InterruptsInv, Interrupting
    <2>4. EP0Inv' /\ EP1Inv'
      BY <1>2, <1>4, <2>2 DEF EP0Inv, EP1Inv, Connected
    <2>5. PendingInv'
      BY <1>2, <1>4, <1>5, <2>2 DEF PendingInv
    <2>6. h \in Wholes
      BY <1>2, <2>1 DEF Consistent
    <2>7. IInv'
      BY <1>1, <1>2, <1>3, <1>4, <2>1, <2>3, <2>4, <2>5, <2>6, HandlerStep
    <2>8. LifeStep
      BY <1>4, <2>2, LifeStutters, StillRunning DEF Pending1
    <2> QED
      BY <2>7, <2>8
  <1>6. CASE dev.m_State # "Suspended"
    <2>1. /\ Keeps(h, Whole, {"mode", "m_bActive", "gint", "pnpSuspend"})
          /\ ~h.drv.m_bActive /\ ~h.drv.gint /\ h.drv.pnpSuspend /\ Idle(h, 1)
      BY <1>2, <1>3, <1>6, SuspendEffect DEF Consistent
    <2>2. /\ h \in Wholes /\ h.drv.m_pEP = dev.m_pEP /\ h.drv.failed = dev.failed
          /\ h.drv.m_State = dev.m_State
      BY <1>2, <2>1 DEF Keeps, Fields
    <2>3. InterruptsInv'
      BY <1>2, <1>4, <2>1 DEF InterruptsInv, Interrupting
    <2>4. EP0Inv' /\ PendingInv'
      BY <1>4, <2>1 DEF EP0Inv, PendingInv
    <2>5. EP1Inv'
      BY <1>4, <2>1 DEF EP1Inv, Idle
    <2>6. IInv'
      BY <1>1, <1>3, <1>4, <2>2, <2>3, <2>4, <2>5, HandlerStep
    <2>7. LifeStep
      <3>1. Running' /\ 1 \in dev.m_pEP /\ 1 \in dev'.m_pEP /\ (Pending1' <=> Pending1)
        BY <1>1, <1>2, <1>4, <2>2, StillRunning DEF Pending1, EPs
      <3>2. ~dev'.m_bActive /\ armed'[1] = "Unknown"
            /\ (~dev.m_bActive => armed[1] = "Unknown")
        BY <1>2, <1>4, <2>1 DEF Idle, EP1Inv
      <3> QED
        BY <1>1, <3>1, <3>2, LifeDeactivates
    <2> QED
      BY <2>6, <2>7
  <1> QED
    BY <1>5, <1>6

\* A bus reset ends all transfers; what they left pending is in the same pass.
LEMMA HandleUSBResetStep ==
  ASSUME IInv, HandleUSBReset
  PROVE  IInv' /\ LifeStep
  <1> USE DEF HandleUSBReset
  <1>1. Running /\ Interrupting /\ "Reset" \in latched
    BY DEF Turn, Interrupting
  <1>2. /\ dev.gint /\ ~dev.pnpSuspend /\ pc = "loop" /\ dev.m_pEP = EPs
        /\ Consistent(Whole) /\ Whole.drv = dev /\ Whole.armed = armed
        /\ InterruptsInv /\ EP0Inv /\ EP1Inv /\ PendingInv
    BY <1>1, HandlerIsCalled
  <1>3. PICK h : h = UsbReset(Whole)
    OBVIOUS
  <1>4. dev' = h.drv /\ armed' = h.armed /\ latched' = latched \ {"Reset"} /\ done' = done
        /\ bus' = bus /\ irqs' = irqs \ {"Reset"} /\ pc' = pc /\ setup' = setup
    BY <1>3 DEF Becomes
  <1>5. /\ Keeps(h, Whole, {"m_State", "mode", "m_bActive", "ep0"})
        /\ h.drv.m_State = "ResetDone" /\ h.drv.ep0 = "Disconnect" /\ ~h.drv.m_bActive
        /\ Idle(h, 0) /\ Idle(h, 1)
    BY <1>2, <1>3, UsbResetEffect
  <1>6. /\ h \in Wholes /\ h.drv.m_pEP = dev.m_pEP /\ h.drv.failed = dev.failed
        /\ h.drv.gint = dev.gint /\ h.drv.pnpSuspend = dev.pnpSuspend
    BY <1>2, <1>5 DEF Keeps, Fields
  <1>7. InterruptsInv'
    BY <1>2, <1>4, <1>6
    DEF InterruptsInv, Interrupting, Out0Completions, CoreIrqs
  <1>8. EP0Inv'
    BY <1>4, <1>5 DEF EP0Inv, Connected, Idle, ModeOf
  <1>9. EP1Inv'
    BY <1>4, <1>5 DEF EP1Inv, Idle
  <1>10. PendingInv'
    BY <1>1, <1>2, <1>4, <1>5 DEF PendingInv, Out0Completions
  <1>11. IInv'
    BY <1>1, <1>3, <1>4, <1>6, <1>7, <1>8, <1>9, <1>10, HandlerStep
  <1>12. LifeStep
    <2>1. Running' /\ 1 \in dev.m_pEP /\ 1 \in dev'.m_pEP /\ (Pending1' <=> Pending1)
      BY <1>1, <1>2, <1>4, <1>6, StillRunning DEF Pending1, EPs
    <2>2. ~dev'.m_bActive /\ armed'[1] = "Unknown"
          /\ (~dev.m_bActive => armed[1] = "Unknown")
      BY <1>2, <1>4, <1>5 DEF Idle, EP1Inv
    <2> QED
      BY <1>1, <2>1, <2>2, LifeDeactivates
  <1> QED
    BY <1>11, <1>12

\* The end of the enumeration finds nothing pending and arms EP0 for a SETUP.
LEMMA HandleEnumerationDoneStep ==
  ASSUME IInv, HandleEnumerationDone
  PROVE  IInv' /\ LifeStep
  <1> USE DEF HandleEnumerationDone
  <1>1. Running /\ Interrupting /\ "EnumDone" \in latched
    BY DEF Turn, Interrupting
  <1>2. /\ dev.gint /\ ~dev.pnpSuspend /\ pc = "loop" /\ dev.m_pEP = EPs
        /\ Consistent(Whole) /\ Whole.drv = dev /\ Whole.armed = armed
        /\ InterruptsInv /\ EP0Inv /\ EP1Inv /\ PendingInv /\ TypeOK
    BY <1>1, HandlerIsCalled
  <1>3. done = {} /\ dev.m_State \in {"Suspended", "ResetDone", "EnumDone"}
    BY <1>1, <1>2
    DEF InterruptsInv, PendingInv, CoreIrqs, EP0Inv, TypeOK,
        Drivers
  <1>4. PICK h : h = EnumerationDone(Whole)
    OBVIOUS
  <1>5. /\ dev' = h.drv /\ armed' = h.armed /\ latched' = latched \ {"EnumDone"}
        /\ done' = done /\ bus' = bus /\ pc' = pc /\ setup' = setup
        /\ irqs' \subseteq irqs \ {"EnumDone"}
    BY <1>4 DEF Becomes
  <1>6. /\ Keeps(h, Whole, {"m_State", "mode", "m_bActive", "ep0"})
        /\ h.drv.m_State = "EnumDone" /\ ~h.drv.m_bActive /\ Idle(h, 1)
        /\ h.drv.ep0 # "Disconnect" /\ h.drv.mode[0] = ModeOf(h.drv.ep0)
        /\ h.armed[0] = h.drv.mode[0] /\ h.armed[0] # "Unknown"
    <2>1. CASE dev.m_State = "EnumDone"
      <3>1. h = Whole
        BY <1>2, <1>4, <2>1 DEF EnumerationDone
      <3>2. ~dev.m_bActive /\ armed[1] = "Unknown" /\ dev.mode[1] = "Unknown"
        BY <1>2, <2>1 DEF EP1Inv
      <3>3. dev.ep0 # "Disconnect" /\ dev.mode[0] = ModeOf(dev.ep0) /\ armed[0] # "Unknown"
            /\ armed[0] = dev.mode[0]
        BY <1>2, <1>3, <2>1 DEF EP0Inv, Connected
      <3> QED
        BY <1>2, <2>1, <3>1, <3>2, <3>3 DEF Keeps, Idle, Consistent
    <2>2. CASE dev.m_State \in {"Suspended", "ResetDone"}
      BY <1>2, <1>4, <2>2, EnumerationDoneEffect DEF Begun, ModeOf
    <2> QED
      BY <1>3, <2>1, <2>2
  <1>7. /\ h \in Wholes /\ h.drv.m_pEP = dev.m_pEP /\ h.drv.failed = dev.failed
        /\ h.drv.gint = dev.gint /\ h.drv.pnpSuspend = dev.pnpSuspend
    BY <1>2, <1>6 DEF Keeps, Fields
  <1>8. InterruptsInv'
    <2>1. latched' \cap CoreIrqs \subseteq irqs'
      <3>1. latched' \cap CoreIrqs \subseteq irqs \ {"EnumDone"}
        BY <1>2, <1>5 DEF InterruptsInv
      <3>2. CASE dev.m_State = "Suspended"
        <4>1. irqs' = irqs \ {"EnumDone", "Reset"} /\ "Reset" \notin latched
          BY <1>1, <3>2 DEF Turn, Before
        <4> QED
          BY <1>5, <3>1, <4>1
      <3>3. CASE dev.m_State # "Suspended"
        BY <3>1, <3>3
      <3> QED
        BY <3>2, <3>3
    <2> QED
      BY <1>2, <1>5, <1>7, <2>1
      DEF InterruptsInv, Interrupting, Out0Completions
  <1>9. EP0Inv'
    BY <1>3, <1>5, <1>6 DEF EP0Inv, Connected
  <1>10. EP1Inv'
    BY <1>5, <1>6 DEF EP1Inv, Idle
  <1>11. PendingInv'
    BY <1>3, <1>5, <1>6 DEF PendingInv, Out0Completions
  <1>12. IInv'
    BY <1>1, <1>4, <1>5, <1>7, <1>8, <1>9, <1>10, <1>11, HandlerStep
  <1>13. LifeStep
    <2>1. Running' /\ 1 \in dev.m_pEP /\ 1 \in dev'.m_pEP /\ (Pending1' <=> Pending1)
      BY <1>1, <1>2, <1>5, <1>7, StillRunning DEF Pending1, EPs
    <2>2. ~dev'.m_bActive /\ armed'[1] = "Unknown"
          /\ (~dev.m_bActive => armed[1] = "Unknown")
      BY <1>2, <1>5, <1>6 DEF Idle, EP1Inv
    <2> QED
      BY <1>1, <2>1, <2>2, LifeDeactivates
  <1> QED
    BY <1>12, <1>13

\* A transaction that has ended on a connected device: no enumeration or
\* reset is under way.
LEMMA NoResetWhilePending ==
  ASSUME PendingInv, dev.gint, done # {}, dev.m_State \in {"EnumDone", "Configured"}
  PROVE  "EnumDone" \notin irqs /\ ~(bus = "reset" /\ "Reset" \notin irqs)
  BY DEF PendingInv

\* A SETUP packet or OUT data is handled, SET_CONFIGURATION included.
LEMMA HandleOutEPInterruptStep ==
  ASSUME IInv, HandleOutEPInterrupt
  PROVE  IInv' /\ LifeStep
  <1> USE DEF HandleOutEPInterrupt
  <1>1. Running /\ Interrupting /\ "OutEP" \in latched
    BY DEF Turn, Interrupting
  <1>2. /\ dev.gint /\ ~dev.pnpSuspend /\ pc = "loop" /\ dev.m_pEP = EPs
        /\ Consistent(Whole) /\ Whole.drv = dev /\ Whole.armed = armed
        /\ InterruptsInv /\ EP0Inv /\ EP1Inv /\ PendingInv /\ TypeOK
    BY <1>1, HandlerIsCalled
  <1>3. latched \cap CoreIrqs = {} /\ done # {}
    BY <1>1, <1>2, TurnOrder DEF InterruptsInv, Out0Completions
  <1>4. PICK h : h = OutEP(Whole)
    OBVIOUS
  <1>5. /\ dev' = h.drv /\ armed' = h.armed /\ latched' = latched \ {"OutEP"}
        /\ irqs' = irqs /\ bus' = bus /\ pc' = pc /\ setup' = setup
        /\ done' \subseteq done /\ done \ {"Setup0", "Out0"} \subseteq done'
        /\ (dev.m_State # "Suspended" /\ "Setup0" \in done => done' = done \ {"Setup0"})
        /\ ("Setup0" \notin done => done' = done \ {"Setup0", "Out0"})
    BY <1>4 DEF Becomes
  <1>6. latched' \cap (CoreIrqs \cup {"OutEP", "InEP"}) \subseteq {"InEP"}
        /\ ("InEP" \in latched' => done' \cap {"In0", "In1"} # {})
    BY <1>2, <1>3, <1>5 DEF InterruptsInv
  <1>7. CASE Keeps(h, Whole, {"failed"}) /\ h.drv.failed = "HandleOutEPInterrupt"
    <2>1. h \in Wholes /\ \A f \in {"m_pEP", "gint", "pnpSuspend"} : h.drv[f] = dev[f]
      BY <1>2, <1>7 DEF Keeps, Fields
    <2> QED
      BY <1>1, <1>4, <1>5, <1>6, <1>7, <2>1, HandlerFails
  <1>8. CASE /\ dev.m_State \in {"EnumDone", "Configured"}
             /\ armed[0] = "Unknown" /\ done \ {"In1"} \in {{"Setup0"}, {"Out0"}}
             /\ dev.m_State = "EnumDone" => ~Pending1 /\ armed[1] = "Unknown"
             /\ Answered(h, Whole) \/ Deconfigured(h, Whole) \/ Configured(h, Whole)
    <2>1. done' = done \cap {"In1"} /\ (Pending1' <=> Pending1)
      BY <1>5, <1>8 DEF Pending1
    <2>2. "EnumDone" \notin irqs /\ ~(bus = "reset" /\ "Reset" \notin irqs)
      BY <1>2, <1>3, <1>8, NoResetWhilePending
    <2>3. /\ h \in Wholes /\ h.drv.m_pEP = dev.m_pEP /\ h.drv.failed = dev.failed
          /\ h.drv.gint = dev.gint /\ h.drv.pnpSuspend = dev.pnpSuspend
          /\ h.drv.m_State \in {"EnumDone", "Configured"}
          /\ h.drv.ep0 # "Disconnect" /\ h.drv.mode[0] = ModeOf(h.drv.ep0)
          /\ h.armed[0] = h.drv.mode[0] /\ h.armed[0] # "Unknown"
      <3>1. CASE Answered(h, Whole)
        BY <1>2, <1>8, <3>1
        DEF Answered, GoesOn, ControlStates, ModeOf, Begun, Keeps, Fields
      <3>2. CASE Deconfigured(h, Whole)
        BY <1>2, <3>2 DEF Deconfigured, ModeOf, Begun, Keeps, Fields
      <3>3. CASE Configured(h, Whole)
        BY <1>2, <3>3 DEF Configured, ModeOf, Begun, Keeps, Fields
      <3> QED
        BY <1>8, <3>1, <3>2, <3>3
    <2>4. InterruptsInv'
      BY <1>2, <1>3, <1>5, <1>6, <2>3 DEF InterruptsInv, Interrupting
    <2>5. EP0Inv'
      BY <1>5, <2>1, <2>3 DEF EP0Inv, Connected
    <2>6. EP1Inv' /\ (dev'.m_State = "EnumDone" /\ "In1" \in done' => dev'.ep0 = "InStatus")
          /\ LifeStep
      <3>1. Running' /\ 1 \in dev.m_pEP /\ 1 \in dev'.m_pEP
        BY <1>1, <1>2, <1>5, <2>3, StillRunning DEF EPs
      <3>2. CASE Answered(h, Whole)
        <4>1. /\ dev'.m_State = dev.m_State /\ dev'.gint = dev.gint
              /\ (dev'.m_bActive <=> dev.m_bActive)
              /\ dev'.mode[1] = dev.mode[1] /\ armed'[1] = armed[1]
          BY <1>2, <1>5, <3>2 DEF Answered, GoesOn, Keeps, Fields, SameTransfer
        <4> QED
          BY <1>1, <1>2, <1>8, <2>1, <3>1, <4>1, LifeStutters DEF EP1Inv, Pending1
      <3>3. CASE Deconfigured(h, Whole)
        <4>1. /\ dev'.m_State = "EnumDone" /\ dev'.ep0 = "InStatus" /\ ~dev'.m_bActive
              /\ dev'.mode[1] = "Unknown" /\ armed'[1] = "Unknown"
          BY <1>5, <3>3 DEF Deconfigured, Idle
        <4>2. ~dev.m_bActive => armed[1] = "Unknown"
          BY <1>2 DEF EP1Inv
        <4>3. EP1Inv'
          BY <4>1 DEF EP1Inv
        <4> QED
          BY <1>1, <2>1, <3>1, <4>1, <4>2, <4>3, LifeDeactivates
      <3>4. CASE Configured(h, Whole)
        <4>1. /\ dev'.m_State = "Configured" /\ dev'.gint /\ dev'.m_bActive
              /\ dev'.mode[1] = "DataIn" /\ armed'[1] = "DataIn"
          BY <1>2, <1>5, <2>3, <3>4 DEF Configured, Begun
        <4>2. dev.m_State = "EnumDone" /\ ~dev.m_bActive /\ ~Pending1 /\ armed[1] = "Unknown"
          BY <1>2, <1>8, <3>4 DEF Configured, EP1Inv
        <4>3. EP1Inv'
          BY <2>1, <4>1, <4>2 DEF EP1Inv, Pending1
        <4> QED
          BY <1>1, <2>1, <3>1, <4>1, <4>2, <4>3, LifeActivates
      <3> QED
        BY <1>8, <3>2, <3>3, <3>4
    <2>7. PendingInv'
      <3>1. "Reset" \notin latched' /\ dev'.m_State \in {"EnumDone", "Configured"}
        BY <1>3, <1>5, <2>3 DEF CoreIrqs
      <3> QED
        BY <1>5, <2>2, <2>6, <3>1 DEF PendingInv
    <2> QED
      BY <1>1, <1>4, <1>5, <2>3, <2>4, <2>5, <2>6, <2>7, HandlerStep
  <1> QED
    BY <1>1, <1>4, <1>7, <1>8, OutEPEffect

\* A completion of EP0, of EP1, or of both, is handled in this order.
LEMMA HandleInEPInterruptStep ==
  ASSUME IInv, HandleInEPInterrupt
  PROVE  IInv' /\ LifeStep
  <1> USE DEF HandleInEPInterrupt
  <1>1. Running /\ Interrupting /\ "InEP" \in latched
    BY DEF Turn, Interrupting
  <1>2. /\ dev.gint /\ ~dev.pnpSuspend /\ pc = "loop" /\ dev.m_pEP = EPs
        /\ Consistent(Whole) /\ Whole.drv = dev /\ Whole.armed = armed
        /\ InterruptsInv /\ EP0Inv /\ EP1Inv /\ PendingInv /\ TypeOK
    BY <1>1, HandlerIsCalled
  <1>3. latched = {"InEP"} /\ done # {}
    BY <1>1, <1>2, TurnOrder DEF InterruptsInv
  <1>4. PICK h : h = InEP(Whole)
    OBVIOUS
  <1>5. /\ dev' = h.drv /\ armed' = h.armed /\ latched' = {}
        /\ irqs' = irqs /\ bus' = bus /\ pc' = pc /\ setup' = setup
        /\ done' = done \ {"In0", "In1"} /\ ~Pending1'
    BY <1>3, <1>4 DEF Becomes, InHandled, Pending1
  <1>6. ASSUME Keeps(h, Whole, {"failed", "mode", "ep0"}),
               h.drv.failed \in {"FinishTransfer", "HandleInEPInterrupt"}
        PROVE  IInv' /\ LifeStep
    <2>1. h \in Wholes /\ \A f \in {"m_pEP", "gint", "pnpSuspend"} : h.drv[f] = dev[f]
      BY <1>2, <1>6 DEF Keeps, Fields
    <2> QED
      BY <1>1, <1>4, <1>5, <1>6, <2>1, HandlerFails
  <1>7. CASE Keeps(h, Whole, {"failed"}) /\ h.drv.failed = "HandleInEPInterrupt"
    BY <1>6, <1>7 DEF Keeps
  <1>8. ASSUME dev.m_State \in {"EnumDone", "Configured"}, NEW b, AfterIn0(b),
               \/ ~Pending1 /\ h = b
               \/ /\ Pending1 /\ dev.m_bActive
                  /\ Keeps(h, b, {"mode"}) /\ Begun(h, 1, "DataIn")
                  /\ SameTransfer(h, b, 0)
               \/ /\ Pending1 /\ ~dev.m_bActive
                  /\ Keeps(h, b, {"failed"}) /\ h.drv.failed = "FinishTransfer"
        PROVE  IInv' /\ LifeStep
    <2>1. Keeps(b, Whole, {"mode", "ep0"}) /\ SameTransfer(b, Whole, 1)
      BY <1>2, <1>8 DEF AfterIn0, Answered, GoesOn, Keeps, SameTransfer, Consistent
    <2>2. CASE Keeps(h, b, {"failed"}) /\ h.drv.failed = "FinishTransfer"
      BY <1>6, <2>1, <2>2 DEF Keeps
    <2>3. CASE Keeps(h, b, {"mode"}) /\ SameTransfer(h, b, 0)
               /\ (IF Pending1 THEN dev.m_bActive /\ Begun(h, 1, "DataIn")
                   ELSE SameTransfer(h, b, 1))
      <3>1. "EnumDone" \notin irqs /\ ~(bus = "reset" /\ "Reset" \notin irqs)
        BY <1>2, <1>3, <1>8, NoResetWhilePending
      <3>2. /\ h \in Wholes /\ h.drv.m_pEP = dev.m_pEP /\ h.drv.failed = dev.failed
            /\ h.drv.gint = dev.gint /\ h.drv.pnpSuspend = dev.pnpSuspend
            /\ h.drv.m_State = dev.m_State /\ (h.drv.m_bActive <=> dev.m_bActive)
            /\ h.drv.ep0 = b.drv.ep0
        BY <1>2, <2>1, <2>3 DEF Keeps, Fields
      <3>3. /\ b.drv.ep0 # "Disconnect" /\ b.drv.mode[0] = ModeOf(b.drv.ep0)
            /\ b.armed[0] \in {"Unknown", b.drv.mode[0]}
            /\ done' \ {"In1"} = IF b.armed[0] = "Unknown"
                                 THEN {CompletionOf(b.drv.mode[0])} ELSE {}
        <4>1. CASE Answered(b, Whole) /\ done \ {"In1"} = {"In0"}
          BY <1>5, <4>1 DEF Answered, GoesOn, ControlStates, ModeOf, Begun
        <4>2. CASE "In0" \notin done /\ b = Whole
          <5>1. done' \ {"In1"} = done \ {"In1"}
            BY <1>5, <4>2
          <5> QED
            BY <1>2, <1>8, <4>2, <5>1 DEF EP0Inv, Connected
        <4> QED
          BY <1>8, <4>1, <4>2 DEF AfterIn0
      <3>4. EP0Inv'
        BY <1>2, <1>5, <1>8, <2>3, <3>2, <3>3
        DEF EP0Inv, Connected, SameTransfer
      <3>5. InterruptsInv'
        BY <1>2, <1>5, <3>2 DEF InterruptsInv, Interrupting
      <3>6. EP1Inv' /\ LifeStep
        <4>1. Running' /\ 1 \in dev.m_pEP /\ 1 \in dev'.m_pEP
              /\ (dev'.m_bActive <=> dev.m_bActive) /\ dev'.m_State = dev.m_State
              /\ dev'.gint = dev.gint
          BY <1>1, <1>2, <1>5, <3>2, StillRunning DEF EPs
        <4>2. CASE Pending1
          <5>1. dev.m_bActive /\ dev'.mode[1] = "DataIn" /\ armed'[1] = "DataIn"
            BY <1>5, <2>3, <4>2 DEF Begun
          <5> QED
            BY <1>1, <1>2, <1>5, <4>1, <4>2, <5>1, LifeGoesOn DEF EP1Inv, Pending1
        <4>3. CASE ~Pending1
          <5>1. dev'.mode[1] = dev.mode[1] /\ armed'[1] = armed[1]
            BY <1>2, <1>5, <2>1, <2>3, <4>3 DEF SameTransfer
          <5> QED
            BY <1>1, <1>2, <1>5, <4>1, <4>3, <5>1, LifeStutters DEF EP1Inv, Pending1
        <4> QED
          BY <4>2, <4>3
      <3>7. PendingInv'
        BY <1>5, <1>8, <3>1, <3>2 DEF PendingInv, Pending1
      <3> QED
        BY <1>1, <1>4, <1>5, <3>2, <3>4, <3>5, <3>6, <3>7, HandlerStep
    <2> QED
      BY <1>8, <2>1, <2>2, <2>3 DEF Keeps, SameTransfer
  <1> QED
    BY <1>1, <1>4, <1>7, <1>8, InEPEffect

-----------------------------------------------------------------------------
(* The steps of the main loop.                                             *)

\* What an assignment to the driver's state leaves alone.
Stays(h, d, changed) ==
  /\ h \in Drivers
  /\ \A f \in Fields \ changed : h[f] = d[f]

\* Assignments to single fields of the driver's state.
LEMMA SetSuspendEvent ==
  ASSUME NEW d \in Drivers, NEW b \in BOOLEAN, NEW h, h = [d EXCEPT !.pnpSuspend = b]
  PROVE  Stays(h, d, {"pnpSuspend"}) /\ h.pnpSuspend = b
  BY DEF Drivers, Fields, Stays

\* The configured event is taken.
LEMMA SetConfiguredEvent ==
  ASSUME NEW d \in Drivers, NEW b \in BOOLEAN, NEW h, h = [d EXCEPT !.pnpConfigured = b]
  PROVE  Stays(h, d, {"pnpConfigured"})
  BY DEF Drivers, Fields, Stays

\* The interrupt mask is set.
LEMMA SetInterruptMask ==
  ASSUME NEW d \in Drivers, NEW b \in BOOLEAN, NEW h, h = [d EXCEPT !.gint = b]
  PROVE  Stays(h, d, {"gint"}) /\ h.gint = b
  BY DEF Drivers, Fields, Stays

\* Endpoints are created or removed.
LEMMA SetEndpoints ==
  ASSUME NEW d \in Drivers, NEW s \in SUBSET EPs, NEW h, h = [d EXCEPT !.m_pEP = s]
  PROVE  Stays(h, d, {"m_pEP"}) /\ h.m_pEP = s
  BY DEF Drivers, Fields, Stays

Assigned(h, g, s) == Keeps(h, g, {"m_pEP"}) /\ h.armed = g.armed /\ h.drv.m_pEP = s

\* An endpoint is entered into the table.
LEMMA AssignEndpoints ==
  ASSUME NEW g \in Wholes, NEW s \in SUBSET EPs, NEW h, h = [g EXCEPT !.drv.m_pEP = s]
  PROVE  Assigned(h, g, s)
  BY DEF Wholes, Drivers, Fields, Keeps, EPs, Modes, Assigned

\* The device's state is set by the main loop.
LEMMA SetState ==
  ASSUME NEW d \in Drivers,
         NEW s \in {"Powered", "Suspended", "ResetDone", "EnumDone", "Configured"},
         NEW h, h = [d EXCEPT !.m_State = s]
  PROVE  Stays(h, d, {"m_State"}) /\ h.m_State = s
  BY DEF Drivers, Fields, Stays

\* A new EP1 is inactive.
LEMMA SetActive ==
  ASSUME NEW d \in Drivers, NEW b \in BOOLEAN, NEW h, h = [d EXCEPT !.m_bActive = b]
  PROVE  Stays(h, d, {"m_bActive"}) /\ h.m_bActive = b
  BY DEF Drivers, Fields, Stays

\* A new EP0 is disconnected.
LEMMA SetEP0 ==
  ASSUME NEW d \in Drivers,
         NEW s \in {"Disconnect", "Idle", "InData", "OutData", "InStatus", "OutStatus"},
         NEW h, h = [d EXCEPT !.ep0 = s]
  PROVE  Stays(h, d, {"ep0"}) /\ h.ep0 = s
  BY DEF Drivers, Fields, Stays

\* A step of UpdatePlugAndPlay runs with nothing latched; outside of its loop
\* with interrupts off.
LEMMA TaskIsSound ==
  ASSUME IInv, NEW p, NEW n, Task(p, n)
  PROVE  /\ Running /\ latched = {} /\ latched' = {} /\ pc = p /\ pc' = n
         /\ TypeOK /\ OnlyKnownAsserts /\ InterruptsInv /\ EndpointsInv
         /\ EP0Inv /\ EP1Inv /\ PendingInv /\ FreshInv
         /\ p # "loop" => ~dev.gint /\ ~dev.pnpSuspend
  <1>1. Running /\ latched = {} /\ latched' = {} /\ pc = p /\ pc' = n
    BY DEF Task, Interrupting
  <1>2. TypeOK /\ OnlyKnownAsserts /\ InterruptsInv /\ EndpointsInv /\ Sound
    BY <1>1, RunningIsSound
  <1>3. p # "loop" => ~dev.gint /\ ~dev.pnpSuspend
    BY <1>1, <1>2 DEF InterruptsInv
  <1> QED
    BY <1>1, <1>2, <1>3 DEF Sound

\* With interrupts off EP1 is inactive and nothing is required of EP0.
LEMMA MaskedStep ==
  ASSUME Running, TypeOK, OnlyKnownAsserts,
         dev' \in Drivers, dev'.failed = dev.failed,
         ~dev'.gint, ~dev'.pnpSuspend, ~dev'.m_bActive, dev'.mode[1] = "Unknown",
         armed' \in [EPs -> Modes], armed'[1] = "Unknown",
         NEW n \in PlugAndPlayPCs, pc' = n,
         latched' = {}, irqs' \subseteq irqs, done' \subseteq done,
         setup' = setup, bus' \in {"detached", bus},
         EndpointsInv', FreshInv'
  PROVE  IInv'
  <1>1. TypeOK'
    BY DEF TypeOK
  <1>2. InterruptsInv'
    BY DEF InterruptsInv, Interrupting, PlugAndPlayPCs
  <1>3. EP0Inv' /\ EP1Inv' /\ PendingInv'
    BY DEF EP0Inv, EP1Inv, PendingInv
  <1> QED
    BY <1>1, <1>2, <1>3, SoundSuffices DEF Sound

\* While interrupts are masked EP1 is inactive and has no transfer.
LEMMA MaskedIsInactive ==
  ASSUME TypeOK, EP1Inv, ~dev.gint
  PROVE  /\ dev \in Drivers /\ armed \in [EPs -> Modes]
         /\ ~dev.m_bActive /\ dev.mode[1] = "Unknown" /\ armed[1] = "Unknown"
  BY DEF TypeOK, EP1Inv

\* UpdatePlugAndPlay takes the suspend event, which the mask goes with.
LEMMA TakeSuspendEventStep ==
  ASSUME IInv, TakeSuspendEvent
  PROVE  IInv' /\ LifeStep
  <1> USE DEF TakeSuspendEvent, hwVars
  <1>1. /\ Running /\ latched = {} /\ latched' = {} /\ pc = "loop" /\ pc' = "removeEP1"
        /\ TypeOK /\ OnlyKnownAsserts /\ InterruptsInv /\ EndpointsInv
        /\ EP1Inv
    BY TaskIsSound
  <1>2. ~dev.gint
    BY <1>1 DEF InterruptsInv
  <1>3. Stays(dev', dev, {"pnpSuspend"}) /\ ~dev'.pnpSuspend
    <2>1. dev \in Drivers /\ dev' = [dev EXCEPT !.pnpSuspend = FALSE]
      BY <1>1 DEF TypeOK
    <2> QED
      BY <2>1, SetSuspendEvent, Zenon
  <1>4. /\ dev'.m_pEP = dev.m_pEP /\ dev'.failed = dev.failed
        /\ (dev'.m_bActive <=> dev.m_bActive) /\ dev' \in Drivers
        /\ dev'.gint = dev.gint /\ dev'.mode = dev.mode
    BY <1>3 DEF Stays, Fields
  <1>5. EndpointsInv' /\ FreshInv'
    BY <1>1, <1>4 DEF EndpointsInv, FreshInv
  <1>6. IInv'
    BY <1>1, <1>2, <1>3, <1>4, <1>5, MaskedIsInactive, MaskedStep DEF PlugAndPlayPCs
  <1>7. LifeStep
    BY <1>4, LifeStutters, StillRunning DEF Pending1
  <1> QED
    BY <1>6, <1>7

\* UpdatePlugAndPlay takes the configured event.
LEMMA TakeConfiguredEventStep ==
  ASSUME IInv, TakeConfiguredEvent
  PROVE  IInv' /\ LifeStep
  <1> USE DEF TakeConfiguredEvent, hwVars
  <1>1. /\ Running /\ latched = {} /\ latched' = {} /\ pc = "loop" /\ pc' = "loop"
        /\ TypeOK /\ OnlyKnownAsserts /\ InterruptsInv /\ EndpointsInv
        /\ EP0Inv /\ EP1Inv /\ PendingInv /\ FreshInv
    BY TaskIsSound
  <1>2. Stays(dev', dev, {"pnpConfigured"})
    <2>1. dev \in Drivers /\ dev' = [dev EXCEPT !.pnpConfigured = FALSE]
      BY <1>1 DEF TypeOK
    <2> QED
      BY <2>1, SetConfiguredEvent, Zenon
  <1>3. /\ dev' \in Drivers /\ dev'.m_pEP = dev.m_pEP /\ dev'.failed = dev.failed
        /\ (dev'.m_bActive <=> dev.m_bActive) /\ dev'.m_State = dev.m_State
        /\ dev'.gint = dev.gint /\ dev'.pnpSuspend = dev.pnpSuspend
        /\ dev'.mode = dev.mode /\ dev'.ep0 = dev.ep0
    BY <1>2 DEF Stays, Fields
  <1>4. TypeOK' /\ EndpointsInv' /\ FreshInv'
    BY <1>1, <1>3 DEF TypeOK, EndpointsInv, FreshInv
  <1>5. InterruptsInv'
    BY <1>1, <1>3 DEF InterruptsInv, Interrupting
  <1>6. EP0Inv'
    BY <1>1, <1>3 DEF EP0Inv, Connected
  <1>7. EP1Inv'
    BY <1>1, <1>3 DEF EP1Inv
  <1>8. PendingInv'
    BY <1>1, <1>3 DEF PendingInv, Out0Completions
  <1>9. IInv'
    BY <1>1, <1>3, <1>4, <1>5, <1>6, <1>7, <1>8, SoundSuffices DEF Sound
  <1>10. LifeStep
    BY <1>3, LifeStutters, StillRunning DEF Pending1
  <1> QED
    BY <1>9, <1>10

\* OnSuspend deletes EP1, which has been deactivated.
LEMMA RemoveEP1Step ==
  ASSUME IInv, RemoveEP1
  PROVE  IInv' /\ LifeStep
  <1>1. /\ Running /\ latched = {} /\ latched' = {} /\ pc = "removeEP1" /\ pc' = "removeEP0"
        /\ TypeOK /\ OnlyKnownAsserts /\ EndpointsInv /\ EP1Inv
        /\ ~dev.gint /\ ~dev.pnpSuspend
        /\ UNCHANGED <<irqs, done, setup, bus>>
    BY TaskIsSound DEF RemoveEP1
  <1>2. dev.m_pEP = EPs /\ ~dev.m_bActive /\ dev.mode[1] = "Unknown" /\ armed[1] = "Unknown"
    BY <1>1 DEF EndpointsInv, EP1Inv
  <1>3. Whole.drv = dev /\ Whole.armed = armed /\ Whole \in Wholes
    BY <1>1 DEF Whole, Wholes, TypeOK
  <1>4. PICK g : g = EP1OnDeactivate(Whole)
    OBVIOUS
  <1>5. /\ Keeps(g, Whole, {"mode", "m_bActive"})
        /\ ~g.drv.m_bActive /\ Idle(g, 1) /\ SameTransfer(g, Whole, 0)
    BY <1>2, <1>3, <1>4, EP1OnDeactivateEffect
  <1>6. g \in Wholes /\ g.drv.m_pEP = EPs /\ g.drv.failed = dev.failed
        /\ g.drv.gint = dev.gint /\ g.drv.pnpSuspend = dev.pnpSuspend
    BY <1>2, <1>3, <1>5 DEF Keeps, Fields
  <1>7. PICK h : h = [g EXCEPT !.drv.m_pEP = @ \ {1}]
    OBVIOUS
  <1>8. h \in Wholes /\ h.drv.m_pEP = {0} /\ h.armed = g.armed
        /\ \A f \in Fields \ {"m_pEP"} : h.drv[f] = g.drv[f]
    <2>1. PICK s \in SUBSET EPs : s = g.drv.m_pEP \ {1} /\ s = {0}
      <3>1. EPs \ {1} = {0} /\ {0} \in SUBSET EPs
        BY DEF EPs
      <3> QED
        BY <1>6, <3>1
    <2>2. h = [g EXCEPT !.drv.m_pEP = s]
      BY <1>7, <2>1, Zenon
    <2>3. g \in Wholes /\ s \in SUBSET EPs
      BY <1>6, <2>1
    <2>4. Assigned(h, g, s)
      BY <2>2, <2>3, AssignEndpoints, Zenon
    <2> QED
      BY <2>1, <2>4 DEF Keeps, Assigned
  <1>9. dev' = h.drv /\ armed' = h.armed
    BY <1>2, <1>3, <1>4, <1>7 DEF RemoveEP1, Becomes, IfExists, EPs
  <1>10. /\ dev' \in Drivers /\ armed' \in [EPs -> Modes] /\ dev'.m_pEP = {0}
         /\ ~dev'.gint /\ ~dev'.pnpSuspend /\ ~dev'.m_bActive
         /\ dev'.mode[1] = "Unknown" /\ armed'[1] = "Unknown" /\ dev'.failed = dev.failed
    BY <1>1, <1>5, <1>6, <1>8, <1>9 DEF Wholes, Fields, Idle
  <1>11. EndpointsInv' /\ FreshInv'
    BY <1>1, <1>10 DEF EndpointsInv, FreshInv
  <1>12. IInv'
    BY <1>1, <1>10, <1>11, MaskedStep DEF PlugAndPlayPCs
  <1>13. LifeStep
    <2>1. Running' /\ 1 \in dev.m_pEP /\ 1 \notin dev'.m_pEP /\ (Pending1' <=> Pending1)
      BY <1>1, <1>2, <1>10, StillRunning DEF Pending1, EPs
    <2> QED
      BY <1>1, <1>2, <1>10, <2>1
      DEF LifeStep, Life!Next, Life!Delete, Life!Cancelled, Pending1
  <1> QED
    BY <1>12, <1>13

\* EP0 is deleted, possibly while it is armed.
LEMMA RemoveEP0Step ==
  ASSUME IInv, RemoveEP0
  PROVE  IInv' /\ LifeStep
  <1>1. /\ Running /\ latched = {} /\ latched' = {}
        /\ pc = "removeEP0" /\ pc' = "maskInterrupts"
        /\ TypeOK /\ OnlyKnownAsserts /\ EndpointsInv /\ EP1Inv
        /\ ~dev.gint /\ ~dev.pnpSuspend
        /\ dev' = [dev EXCEPT !.m_pEP = @ \ {0}]
        /\ UNCHANGED hwVars
    BY TaskIsSound DEF RemoveEP0
  <1>2. dev.m_pEP = {0} /\ dev \in Drivers
    BY <1>1 DEF EndpointsInv, TypeOK
  <1>3. Stays(dev', dev, {"m_pEP"}) /\ dev'.m_pEP = {}
    <2>1. PICK s \in SUBSET EPs : s = dev.m_pEP \ {0} /\ s = {}
      BY <1>2 DEF EPs
    <2>2. dev' = [dev EXCEPT !.m_pEP = s]
      BY <1>1, <2>1, Zenon
    <2> QED
      BY <1>2, <2>1, <2>2, SetEndpoints
  <1>4. /\ dev' \in Drivers /\ dev'.failed = dev.failed
        /\ dev'.gint = dev.gint /\ dev'.pnpSuspend = dev.pnpSuspend
        /\ (dev'.m_bActive <=> dev.m_bActive) /\ dev'.mode = dev.mode
    BY <1>3 DEF Stays, Fields
  <1>5. EndpointsInv' /\ FreshInv'
    BY <1>1, <1>3 DEF EndpointsInv, FreshInv
  <1>6. IInv'
    BY <1>1, <1>4, <1>5, MaskedIsInactive, MaskedStep DEF PlugAndPlayPCs, hwVars
  <1>7. LifeStep
    BY <1>1, <1>2, <1>3, <1>4, LifeStutters, StillRunning DEF Pending1, hwVars
  <1> QED
    BY <1>6, <1>7

\* The interrupts are masked already when UpdatePlugAndPlay masks them.
LEMMA MaskInterruptsStep ==
  ASSUME IInv, MaskInterrupts
  PROVE  IInv' /\ LifeStep
  <1>1. /\ Running /\ latched = {} /\ latched' = {}
        /\ pc = "maskInterrupts" /\ pc' = "initCore"
        /\ TypeOK /\ OnlyKnownAsserts /\ EndpointsInv /\ EP1Inv
        /\ ~dev.gint /\ ~dev.pnpSuspend
        /\ dev' = [dev EXCEPT !.gint = FALSE]
        /\ UNCHANGED hwVars
    BY TaskIsSound DEF MaskInterrupts
  <1>2. Stays(dev', dev, {"gint"}) /\ ~dev'.gint
    <2>1. dev \in Drivers
      BY <1>1 DEF TypeOK
    <2> QED
      BY <1>1, <2>1, SetInterruptMask, Zenon
  <1>3. /\ dev' \in Drivers /\ dev'.failed = dev.failed /\ dev'.m_pEP = dev.m_pEP
        /\ dev'.pnpSuspend = dev.pnpSuspend
        /\ (dev'.m_bActive <=> dev.m_bActive) /\ dev'.mode = dev.mode
    BY <1>2 DEF Stays, Fields
  <1>4. EndpointsInv' /\ FreshInv'
    BY <1>1, <1>3 DEF EndpointsInv, FreshInv
  <1>5. IInv'
    BY <1>1, <1>2, <1>3, <1>4, MaskedIsInactive, MaskedStep
    DEF PlugAndPlayPCs, hwVars
  <1>6. LifeStep
    BY <1>1, <1>3, LifeStutters, StillRunning DEF Pending1, hwVars
  <1> QED
    BY <1>5, <1>6

\* The core reset disarms everything and drops what is pending.
LEMMA InitCoreStep ==
  ASSUME IInv, InitCore
  PROVE  IInv' /\ LifeStep
  <1>1. /\ Running /\ latched = {} /\ latched' = {}
        /\ pc = "initCore" /\ pc' = "createEP0"
        /\ TypeOK /\ OnlyKnownAsserts /\ EndpointsInv /\ EP1Inv
        /\ ~dev.gint /\ ~dev.pnpSuspend
        /\ dev' = [dev EXCEPT !.gint = FALSE]
        /\ irqs' = {} /\ done' = {} /\ bus' = "detached" /\ setup' = setup
        /\ armed' = [e \in EPs |-> "Unknown"]
    BY TaskIsSound DEF InitCore, DisarmedByReset
  <1>2. Stays(dev', dev, {"gint"}) /\ ~dev'.gint
    <2>1. dev \in Drivers
      BY <1>1 DEF TypeOK
    <2> QED
      BY <1>1, <2>1, SetInterruptMask, Zenon
  <1>3. /\ dev' \in Drivers /\ dev'.failed = dev.failed /\ dev'.m_pEP = dev.m_pEP
        /\ dev'.pnpSuspend = dev.pnpSuspend
        /\ (dev'.m_bActive <=> dev.m_bActive) /\ dev'.mode = dev.mode
    BY <1>2 DEF Stays, Fields
  <1>4. armed' \in [EPs -> Modes] /\ armed'[0] = "Unknown" /\ armed'[1] = "Unknown"
    BY <1>1 DEF EPs, Modes
  <1>5. EndpointsInv' /\ FreshInv' /\ dev.m_pEP = {}
    BY <1>1, <1>3, <1>4 DEF EndpointsInv, FreshInv
  <1>6. IInv'
    BY <1>1, <1>2, <1>3, <1>4, <1>5, MaskedIsInactive, MaskedStep DEF PlugAndPlayPCs
  <1>7. LifeStep
    <2>1. ~(1 \in dev.m_pEP) /\ ~(1 \in dev'.m_pEP) /\ ~dev.m_bActive /\ ~dev'.m_bActive
          /\ Running' /\ ~Pending1'
      BY <1>1, <1>3, <1>5, MaskedIsInactive, StillRunning DEF Pending1
    <2> QED
      BY <1>1, <1>4, <2>1 DEF LifeStep, Life!Next, Life!Forget, Pending1
  <1> QED
    BY <1>6, <1>7

\* A core reset that times out stops the device.
LEMMA InitCoreFailsStep ==
  ASSUME IInv, InitCoreFails
  PROVE  IInv' /\ LifeStep
  <1>1. /\ latched' = latched /\ pc' = pc
        /\ TypeOK /\ InterruptsInv /\ EndpointsInv
        /\ EP0Inv /\ EP1Inv /\ PendingInv /\ FreshInv
        /\ dev' = [dev EXCEPT !.failed = "InitCore"]
        /\ UNCHANGED hwVars
    BY TaskIsSound DEF InitCoreFails
  <1>2. /\ dev' \in Drivers /\ dev'.m_pEP = dev.m_pEP /\ dev'.m_bActive = dev.m_bActive
        /\ dev'.m_State = dev.m_State /\ dev'.gint = dev.gint
        /\ dev'.pnpSuspend = dev.pnpSuspend
        /\ dev'.mode = dev.mode /\ dev'.ep0 = dev.ep0 /\ dev'.failed = "InitCore"
    BY <1>1, Zenon DEF TypeOK, Drivers
  <1>3. TypeOK' /\ EndpointsInv' /\ FreshInv'
    BY <1>1, <1>2 DEF TypeOK, EndpointsInv, FreshInv, hwVars
  <1>4. InterruptsInv'
    BY <1>1, <1>2
    DEF InterruptsInv, Interrupting, Out0Completions, hwVars
  <1>5. EP0Inv'
    BY <1>1, <1>2 DEF EP0Inv, Connected, hwVars
  <1>6. EP1Inv'
    BY <1>1, <1>2 DEF EP1Inv, hwVars
  <1>7. PendingInv'
    BY <1>1, <1>2 DEF PendingInv, Out0Completions, hwVars
  <1>8. OnlyKnownAsserts' /\ ~Running'
    BY <1>2, Zenon DEF OnlyKnownAsserts, Running
  <1>9. dev'.failed \in {"", "InitCore"}
    BY <1>2, Zenon
  <1>10. IInv'
    BY <1>3, <1>4, <1>5, <1>6, <1>7, <1>8, <1>9, Zenon DEF IInv
  <1> QED
    BY <1>8, <1>10, LifeHalts

\* The constructor of an endpoint whose number is free.
LEMMA NewEndpointEffect ==
  ASSUME TypeOK, NEW e \in EPs, e \notin dev.m_pEP, NEW d, d = NewEndpoint(e)
  PROVE  /\ Stays(d, dev, {"mode", "m_pEP"})
         /\ d.m_pEP = dev.m_pEP \cup {e} /\ d.mode[e] = "Unknown"
         /\ \A k \in EPs : k # e => d.mode[k] = dev.mode[k]
  <1>1. Whole \in Wholes /\ Whole.drv = dev /\ dev \in Drivers
    BY DEF TypeOK, Whole, Wholes
  <1>2. PICK g : g = InitTransfer(Whole, e)
    OBVIOUS
  <1>3. /\ Keeps(g, Whole, {"mode"}) /\ g.drv.mode[e] = "Unknown"
        /\ \A k \in EPs : k # e => g.drv.mode[k] = dev.mode[k]
    BY <1>1, <1>2, InitTransferEffect DEF SameTransfer
  <1>4. g.drv \in Drivers /\ \A f \in Fields \ {"mode"} : g.drv[f] = dev[f]
    BY <1>1, <1>3 DEF Keeps, Wholes
  <1>5. PICK s \in SUBSET EPs : s = g.drv.m_pEP \cup {e} /\ s = dev.m_pEP \cup {e}
    <2>1. g.drv.m_pEP = dev.m_pEP /\ dev.m_pEP \in SUBSET EPs
      BY <1>1, <1>4 DEF Fields, Drivers
    <2> QED
      BY <2>1
  <1>6. d = [g.drv EXCEPT !.m_pEP = s]
    BY <1>2, <1>5, Zenon DEF NewEndpoint
  <1>7. Stays(d, g.drv, {"m_pEP"}) /\ d.m_pEP = s
    <2>1. PICK c \in Drivers : c = g.drv
      BY <1>4
    <2>2. d = [c EXCEPT !.m_pEP = s] /\ s \in SUBSET EPs
      BY <1>5, <1>6, <2>1
    <2>3. Stays(d, c, {"m_pEP"}) /\ d.m_pEP = s
      BY <2>1, <2>2, SetEndpoints
    <2> QED
      BY <2>1, <2>3
  <1> QED
    BY <1>3, <1>4, <1>5, <1>7 DEF Stays, Fields

\* EP0 is created disconnected and without a transfer.
LEMMA CreateEP0Step ==
  ASSUME IInv, CreateEP0
  PROVE  IInv' /\ LifeStep
  <1>1. /\ Running /\ latched = {} /\ latched' = {}
        /\ pc = "createEP0" /\ pc' = "addEndpoints"
        /\ TypeOK /\ OnlyKnownAsserts /\ EndpointsInv /\ EP1Inv /\ FreshInv
        /\ ~dev.gint /\ ~dev.pnpSuspend
        /\ dev' = [NewEndpoint(0) EXCEPT !.ep0 = "Disconnect"]
        /\ UNCHANGED hwVars
    BY TaskIsSound DEF CreateEP0
  <1>2. dev.m_pEP = {} /\ 0 \in EPs /\ 1 \in EPs
    BY <1>1 DEF EndpointsInv, EPs
  <1>3. PICK d : d = NewEndpoint(0)
    OBVIOUS
  <1>4. /\ Stays(d, dev, {"mode", "m_pEP"})
        /\ d.m_pEP = {0} /\ d.mode[0] = "Unknown" /\ d.mode[1] = dev.mode[1]
    BY <1>1, <1>2, <1>3, NewEndpointEffect
  <1>5. Stays(dev', d, {"ep0"}) /\ dev'.ep0 = "Disconnect"
    <2>1. dev' = [d EXCEPT !.ep0 = "Disconnect"] /\ d \in Drivers
      BY <1>1, <1>3, <1>4, Zenon DEF Stays
    <2> QED
      BY <2>1, SetEP0
  <1>6. /\ dev' \in Drivers /\ dev'.failed = dev.failed /\ dev'.m_pEP = {0}
        /\ dev'.gint = dev.gint /\ dev'.pnpSuspend = dev.pnpSuspend
        /\ (dev'.m_bActive <=> dev.m_bActive)
        /\ dev'.mode[0] = "Unknown" /\ dev'.mode[1] = dev.mode[1]
    BY <1>4, <1>5 DEF Stays, Fields
  <1>7. EndpointsInv' /\ FreshInv'
    BY <1>1, <1>5, <1>6 DEF EndpointsInv, FreshInv, hwVars
  <1>8. IInv'
    BY <1>1, <1>6, <1>7, MaskedIsInactive, MaskedStep DEF PlugAndPlayPCs, hwVars
  <1>9. LifeStep
    BY <1>1, <1>2, <1>6, LifeStutters, StillRunning DEF Pending1, hwVars
  <1> QED
    BY <1>8, <1>9

\* EP1 is created inactive and without a transfer.
LEMMA AddEndpointsStep ==
  ASSUME IInv, AddEndpoints
  PROVE  IInv' /\ LifeStep
  <1>1. /\ Running /\ latched = {} /\ latched' = {}
        /\ pc = "addEndpoints" /\ pc' = "setState"
        /\ TypeOK /\ OnlyKnownAsserts /\ EndpointsInv /\ EP1Inv /\ FreshInv
        /\ ~dev.gint /\ ~dev.pnpSuspend
        /\ dev' = [NewEndpoint(1) EXCEPT !.m_bActive = FALSE]
        /\ UNCHANGED hwVars
    BY TaskIsSound DEF AddEndpoints
  <1>2. dev.m_pEP = {0} /\ 0 \in EPs /\ 1 \in EPs
    BY <1>1 DEF EndpointsInv, EPs
  <1>3. PICK d : d = NewEndpoint(1)
    OBVIOUS
  <1>4. /\ Stays(d, dev, {"mode", "m_pEP"})
        /\ d.m_pEP = EPs /\ d.mode[1] = "Unknown" /\ d.mode[0] = dev.mode[0]
    <2>1. {0} \cup {1} = EPs /\ 1 \notin {0}
      BY DEF EPs
    <2> QED
      BY <1>1, <1>2, <1>3, <2>1, NewEndpointEffect, SMTT(60)
  <1>5. Stays(dev', d, {"m_bActive"}) /\ ~dev'.m_bActive
    <2>1. dev' = [d EXCEPT !.m_bActive = FALSE] /\ d \in Drivers
      BY <1>1, <1>3, <1>4, Zenon DEF Stays
    <2> QED
      BY <2>1, SetActive, Zenon
  <1>6. /\ dev' \in Drivers /\ dev'.failed = dev.failed /\ dev'.m_pEP = EPs
        /\ dev'.gint = dev.gint /\ dev'.pnpSuspend = dev.pnpSuspend
        /\ dev'.mode[0] = dev.mode[0] /\ dev'.mode[1] = "Unknown" /\ dev'.ep0 = dev.ep0
    BY <1>4, <1>5 DEF Stays, Fields
  <1>7. EndpointsInv' /\ FreshInv'
    BY <1>1, <1>6 DEF EndpointsInv, FreshInv, hwVars
  <1>8. IInv'
    BY <1>1, <1>5, <1>6, <1>7, MaskedIsInactive, MaskedStep
    DEF PlugAndPlayPCs, hwVars
  <1>9. LifeStep
    <2>1. /\ ~(1 \in dev.m_pEP) /\ 1 \in dev'.m_pEP /\ ~dev.m_bActive /\ ~dev'.m_bActive
          /\ Running' /\ ~Pending1' /\ armed'[1] = "Unknown"
      BY <1>1, <1>2, <1>5, <1>6, MaskedIsInactive, StillRunning
      DEF Pending1, FreshInv, hwVars
    <2> QED
      BY <1>1, <2>1 DEF LifeStep, Life!Next, Life!Create, Pending1
  <1> QED
    BY <1>8, <1>9

\* The device waits for a bus reset.
LEMMA SetStateSuspendedStep ==
  ASSUME IInv, SetStateSuspended
  PROVE  IInv' /\ LifeStep
  <1>1. /\ Running /\ latched = {} /\ latched' = {}
        /\ pc = "setState" /\ pc' = "enableInterrupts"
        /\ TypeOK /\ OnlyKnownAsserts /\ EndpointsInv /\ EP1Inv /\ FreshInv
        /\ ~dev.gint /\ ~dev.pnpSuspend
        /\ dev' = [dev EXCEPT !.m_State = "Suspended"]
        /\ UNCHANGED hwVars
    BY TaskIsSound DEF SetStateSuspended
  <1>2. Stays(dev', dev, {"m_State"}) /\ dev'.m_State = "Suspended"
    BY <1>1, SetState DEF TypeOK
  <1>3. /\ dev' \in Drivers /\ dev'.failed = dev.failed /\ dev'.m_pEP = dev.m_pEP
        /\ dev'.gint = dev.gint /\ dev'.pnpSuspend = dev.pnpSuspend
        /\ (dev'.m_bActive <=> dev.m_bActive) /\ dev'.mode = dev.mode /\ dev'.ep0 = dev.ep0
    BY <1>2 DEF Stays, Fields
  <1>4. EndpointsInv' /\ FreshInv'
    BY <1>1, <1>2, <1>3 DEF EndpointsInv, FreshInv, hwVars
  <1>5. IInv'
    BY <1>1, <1>3, <1>4, MaskedIsInactive, MaskedStep DEF PlugAndPlayPCs, hwVars
  <1>6. LifeStep
    BY <1>1, <1>3, LifeStutters, StillRunning DEF Pending1, hwVars
  <1> QED
    BY <1>5, <1>6

\* What the steps before have prepared is what the handlers rely on.
LEMMA EnableInterruptsStep ==
  ASSUME IInv, EnableInterrupts
  PROVE  IInv' /\ LifeStep
  <1>1. /\ Running /\ latched = {} /\ latched' = {}
        /\ pc = "enableInterrupts" /\ pc' = "loop"
        /\ TypeOK /\ OnlyKnownAsserts /\ EndpointsInv /\ EP1Inv /\ FreshInv
        /\ ~dev.gint /\ ~dev.pnpSuspend
        /\ dev' = [dev EXCEPT !.gint = TRUE]
        /\ UNCHANGED hwVars
    BY TaskIsSound DEF EnableInterrupts
  <1>2. Stays(dev', dev, {"gint"}) /\ dev'.gint
    <2>1. dev \in Drivers
      BY <1>1 DEF TypeOK
    <2> QED
      BY <1>1, <2>1, SetInterruptMask, Zenon
  <1>3. /\ dev' \in Drivers /\ dev'.failed = dev.failed /\ dev'.m_pEP = dev.m_pEP
        /\ dev'.pnpSuspend = dev.pnpSuspend /\ dev'.m_State = dev.m_State
        /\ (dev'.m_bActive <=> dev.m_bActive) /\ dev'.mode = dev.mode /\ dev'.ep0 = dev.ep0
    BY <1>2 DEF Stays, Fields
  <1>4. /\ dev.m_State = "Suspended" /\ dev.ep0 = "Disconnect" /\ dev.mode[0] = "Unknown"
        /\ done = {} /\ armed[0] = "Unknown" /\ (bus = "reset" => "Reset" \in irqs)
        /\ dev.m_pEP = EPs
        /\ ~dev.m_bActive /\ dev.mode[1] = "Unknown" /\ armed[1] = "Unknown"
    BY <1>1, MaskedIsInactive DEF FreshInv, EndpointsInv
  <1>5. TypeOK' /\ EndpointsInv' /\ FreshInv'
    BY <1>1, <1>3, <1>4 DEF TypeOK, EndpointsInv, FreshInv, hwVars
  <1>6. InterruptsInv'
    BY <1>1, <1>2, <1>3 DEF InterruptsInv, Interrupting
  <1>7. EP0Inv'
    BY <1>1, <1>3, <1>4 DEF EP0Inv, Connected, ModeOf, hwVars
  <1>8. EP1Inv'
    BY <1>1, <1>3, <1>4 DEF EP1Inv, hwVars
  <1>9. PendingInv'
    BY <1>1, <1>3, <1>4 DEF PendingInv, Out0Completions, hwVars
  <1>10. IInv'
    BY <1>1, <1>3, <1>5, <1>6, <1>7, <1>8, <1>9, SoundSuffices DEF Sound
  <1>11. LifeStep
    BY <1>1, <1>3, LifeStutters, StillRunning DEF Pending1, hwVars
  <1> QED
    BY <1>10, <1>11

-----------------------------------------------------------------------------
(* The steps of the host and the controller.                               *)

\* A step that leaves the driver alone.
LEMMA HostStep ==
  ASSUME IInv, Running, UNCHANGED <<dev, pc, latched>>, TypeOK', InterruptsInv',
         EP0Inv', EP1Inv', PendingInv', FreshInv'
  PROVE  IInv'
  <1>1. OnlyKnownAsserts /\ EndpointsInv
    BY RunningIsSound
  <1>2. EndpointsInv'
    BY <1>1 DEF EndpointsInv
  <1> QED
    BY <1>1, <1>2, SoundSuffices DEF Sound

\* The bus changes and may raise an interrupt.
LEMMA BusStep ==
  ASSUME IInv, BusReset \/ SpeedEnumerated \/ BusSuspend \/ BusResume
  PROVE  IInv' /\ LifeStep
  <1>1. /\ Running /\ UNCHANGED <<dev, pc, latched, done, armed, setup>>
        /\ irqs \subseteq irqs' /\ bus' \in {"reset", "enabled", "suspended"}
        /\ irqs' \subseteq irqs \cup CoreIrqs
        /\ (bus' = "reset" => "Reset" \in irqs')
    BY DEF BusReset, SpeedEnumerated, BusSuspend, BusResume,
       CoreIrqs
  <1>2. TypeOK /\ InterruptsInv /\ EndpointsInv /\ Sound
    BY <1>1, RunningIsSound
  <1>3. TypeOK' /\ InterruptsInv'
    BY <1>1, <1>2
    DEF TypeOK, InterruptsInv, Interrupting, Out0Completions
  <1>4. EP0Inv' /\ EP1Inv' /\ FreshInv'
    BY <1>1, <1>2 DEF Sound, EP0Inv, Connected, EP1Inv, FreshInv
  <1>5. PendingInv'
    <2>1. CASE SpeedEnumerated
      <3>1. SUFFICES ASSUME dev.gint
                     PROVE  done = {} /\ dev.m_State # "Configured" /\ bus' = "enabled"
        BY <1>1, <1>2, <2>1
        DEF Sound, PendingInv, SpeedEnumerated, Out0Completions
      <3>2. /\ bus = "reset" /\ "Reset" \notin irqs /\ latched = {} /\ bus' = "enabled"
        BY <2>1, <3>1
        DEF SpeedEnumerated, HandlerIdle, ResetHandled, Interrupting
      <3> QED
        BY <1>2, <3>1, <3>2
        DEF Sound, PendingInv, Out0Completions, TypeOK, Completions
    <2>2. CASE BusReset \/ BusSuspend \/ BusResume
      <3>1. "EnumDone" \in irqs' => "EnumDone" \in irqs
        BY <2>2 DEF BusReset, BusSuspend, BusResume
      <3> QED
        BY <1>1, <1>2, <3>1 DEF Sound, PendingInv, Out0Completions
    <2> QED
      BY <2>1, <2>2
  <1>6. IInv'
    BY <1>1, <1>3, <1>4, <1>5, HostStep
  <1>7. LifeStep
    BY <1>1, LifeStutters, StillRunning DEF Pending1
  <1> QED
    BY <1>6, <1>7

\* A transaction on EP0 is the one its driver waits for.
LEMMA Transaction0Step ==
  ASSUME IInv, NEW m \in {"SetupOut", "DataOut", "DataIn"}, NEW c, c = CompletionOf(m),
         Transaction(0, m, c), setup' \in Requests
  PROVE  IInv' /\ LifeStep
  <1>1. /\ Running /\ UNCHANGED <<dev, pc, latched, irqs, bus>>
        /\ bus = "enabled" /\ irqs \cap {"Reset", "EnumDone"} = {}
        /\ armed[0] = m /\ armed' = [armed EXCEPT ![0] = "Unknown"]
        /\ done' = done \cup {c}
    BY DEF Transaction, ResetHandled
  <1>2. TypeOK /\ InterruptsInv /\ Sound
    BY <1>1, RunningIsSound
  <1>3. /\ armed' \in [EPs -> Modes] /\ armed'[0] = "Unknown" /\ armed'[1] = armed[1]
    BY <1>1, <1>2 DEF TypeOK, EPs, Modes
  <1>4. c \in {"Setup0", "Out0", "In0"}
    BY DEF CompletionOf
  <1>5. (Pending1' <=> Pending1) /\ ("In1" \in done' <=> "In1" \in done)
    BY <1>1, <1>4 DEF Pending1
  <1>6. TypeOK' /\ InterruptsInv'
    BY <1>1, <1>2, <1>3, <1>4
    DEF TypeOK, InterruptsInv, Interrupting, Out0Completions,
        Completions
  <1>7. EP1Inv'
    BY <1>1, <1>2, <1>3, <1>5 DEF Sound, EP1Inv
  <1>8. FreshInv'
    BY <1>1, <1>2 DEF Sound, FreshInv
  <1>9. ASSUME dev.gint
        PROVE  dev.mode[0] = m /\ dev.m_State \in {"EnumDone", "Configured"}
               /\ done \ {"In1"} = {}
    BY <1>1, <1>2, <1>9 DEF Sound, EP0Inv, Connected, ModeOf
  <1>10. EP0Inv'
    <2>1. SUFFICES ASSUME dev.gint
                   PROVE  done' \ {"In1"} = {c} /\ dev.mode[0] = m
      BY <1>1, <1>2, <1>3 DEF Sound, EP0Inv, Connected
    <2> QED
      BY <1>1, <1>4, <1>9, <2>1
  <1>11. PendingInv'
    <2>1. SUFFICES ASSUME dev.gint
                   PROVE  /\ dev.m_State \notin {"Suspended", "ResetDone"}
                          /\ "Reset" \notin latched /\ "EnumDone" \notin irqs
      BY <1>1, <1>2, <1>5 DEF Sound, PendingInv
    <2> QED
      BY <1>1, <1>2, <1>9, <2>1 DEF InterruptsInv, CoreIrqs
  <1>12. IInv'
    BY <1>1, <1>6, <1>7, <1>8, <1>10, <1>11, HostStep
  <1>13. LifeStep
    BY <1>1, <1>3, <1>5, LifeStutters, StillRunning
  <1> QED
    BY <1>12, <1>13

\* EP1 is polled only while it is active.
LEMMA HostPoll1Step ==
  ASSUME IInv, HostPoll1
  PROVE  IInv' /\ LifeStep
  <1>1. /\ Running /\ UNCHANGED <<dev, pc, latched, irqs, bus, setup>>
        /\ bus = "enabled" /\ irqs \cap {"Reset", "EnumDone"} = {}
        /\ armed[1] = "DataIn" /\ armed' = [armed EXCEPT ![1] = "Unknown"]
        /\ done' = done \cup {"In1"}
    BY DEF HostPoll1, Transaction, ResetHandled
  <1>2. TypeOK /\ InterruptsInv /\ Sound
    BY <1>1, RunningIsSound
  <1>3. /\ armed' \in [EPs -> Modes] /\ armed'[1] = "Unknown" /\ armed'[0] = armed[0]
    BY <1>1, <1>2 DEF TypeOK, EPs, Modes
  <1>4. /\ dev.m_bActive /\ dev.m_State = "Configured" /\ dev.gint /\ "In1" \notin done
    BY <1>1, <1>2 DEF Sound, EP1Inv
  <1>5. TypeOK' /\ InterruptsInv'
    BY <1>1, <1>2, <1>3
    DEF TypeOK, InterruptsInv, Interrupting, Out0Completions,
        Completions
  <1>6. EP0Inv'
    <2>1. done' \ {"In1"} = done \ {"In1"}
      BY <1>1
    <2> QED
      BY <1>1, <1>2, <1>3, <2>1 DEF Sound, EP0Inv, Connected
  <1>7. EP1Inv'
    BY <1>1, <1>2, <1>3, <1>4 DEF Sound, EP1Inv
  <1>8. FreshInv'
    BY <1>1, <1>2, <1>4 DEF FreshInv, InterruptsInv
  <1>9. PendingInv'
    BY <1>1, <1>2, <1>4 DEF PendingInv, InterruptsInv, CoreIrqs
  <1>10. IInv'
    BY <1>1, <1>5, <1>6, <1>7, <1>8, <1>9, HostStep
  <1>11. LifeStep
    BY <1>1, <1>4, LifeCompletes, StillRunning DEF Pending1
  <1> QED
    BY <1>10, <1>11

\* A transaction completes EP0's armed transfer.
LEMMA HostEndpoint0Step ==
  ASSUME IInv, HostSetup \/ HostOut0 \/ HostIn0
  PROVE  IInv' /\ LifeStep
  <1>1. setup \in Requests
    BY DEF IInv, TypeOK
  <1>2. CASE HostSetup
    <2>1. Transaction(0, "SetupOut", "Setup0") /\ setup' \in Requests
      BY <1>2 DEF HostSetup
    <2>2. "Setup0" = CompletionOf("SetupOut")
      BY DEF CompletionOf
    <2> QED
      BY <2>1, <2>2, Transaction0Step
  <1>3. CASE HostOut0
    <2>1. Transaction(0, "DataOut", "Out0") /\ setup' \in Requests
      BY <1>1, <1>3 DEF HostOut0
    <2>2. "Out0" = CompletionOf("DataOut")
      BY DEF CompletionOf
    <2> QED
      BY <2>1, <2>2, Transaction0Step
  <1>4. CASE HostIn0
    <2>1. Transaction(0, "DataIn", "In0") /\ setup' \in Requests
      BY <1>1, <1>4 DEF HostIn0
    <2>2. "In0" = CompletionOf("DataIn")
      BY DEF CompletionOf
    <2> QED
      BY <2>1, <2>2, Transaction0Step
  <1> QED
    BY <1>2, <1>3, <1>4

-----------------------------------------------------------------------------
(* The theorems.                                                           *)

\* The program starts before InitCore, with nothing armed.
LEMMA InitIInv ==
  ASSUME Init
  PROVE  IInv
  <1>1. dev \in Drivers
    BY DEF Init, Drivers, EPs, Modes
  <1>2. /\ dev.m_State = "Powered" /\ ~dev.pnpSuspend /\ dev.m_pEP = {} /\ ~dev.gint
        /\ ~dev.m_bActive /\ dev.mode = [e \in EPs |-> "Unknown"] /\ dev.failed = ""
    BY Zenon DEF Init
  <1>3. /\ pc = "initCore" /\ latched = {} /\ irqs = {} /\ done = {}
        /\ armed = [e \in EPs |-> "Unknown"] /\ setup = "NoData" /\ bus = "detached"
    BY DEF Init
  <1>4. armed \in [EPs -> Modes] /\ armed[1] = "Unknown" /\ dev.mode[1] = "Unknown"
    <2>1. /\ [e \in EPs |-> "Unknown"] \in [EPs -> Modes]
          /\ [e \in EPs |-> "Unknown"][1] = "Unknown"
      BY DEF EPs, Modes
    <2> QED
      BY <1>2, <1>3, <2>1, Zenon
  <1>5. TypeOK
    BY <1>1, <1>3, <1>4 DEF TypeOK, PlugAndPlayPCs, Requests
  <1>6. InterruptsInv /\ EndpointsInv
    BY <1>2, <1>3 DEF InterruptsInv, EndpointsInv, Interrupting
  <1>7. EP0Inv /\ PendingInv /\ FreshInv
    BY <1>2, <1>3 DEF EP0Inv, PendingInv, FreshInv
  <1>8. EP1Inv
    BY <1>2, <1>4 DEF EP1Inv
  <1>9. OnlyKnownAsserts
    BY <1>2, Zenon DEF OnlyKnownAsserts
  <1>10. dev.failed \in {"", "InitCore"}
    BY <1>2, Zenon
  <1> QED
    BY <1>5, <1>6, <1>7, <1>8, <1>9, <1>10, Zenon DEF IInv

\* A stuttering step changes no part.
LEMMA UnchangedIInv ==
  ASSUME IInv, UNCHANGED vars
  PROVE  IInv' /\ LifeStep
  <1>1. dev' = dev /\ pc' = pc /\ latched' = latched /\ irqs' = irqs /\ done' = done
        /\ armed' = armed /\ setup' = setup /\ bus' = bus
    BY DEF vars, hwVars
  <1>2. TypeOK' /\ OnlyKnownAsserts'
    BY <1>1, Zenon DEF IInv, TypeOK, OnlyKnownAsserts
  <1>3. InterruptsInv' /\ EndpointsInv'
    BY <1>1
    DEF IInv, InterruptsInv, EndpointsInv, Interrupting,
        Out0Completions
  <1>4. /\ EP0Inv' <=> EP0Inv
        /\ EP1Inv' <=> EP1Inv
        /\ PendingInv' <=> PendingInv
        /\ FreshInv' <=> FreshInv
    BY <1>1
    DEF EP0Inv, Connected, EP1Inv, PendingInv, Out0Completions,
        FreshInv
  <1>5. dev'.failed = dev.failed /\ dev'.gint = dev.gint
    BY <1>1
  <1>6. IInv'
    BY <1>2, <1>3, <1>4, <1>5, Zenon DEF IInv
  <1>7. LifeStep
    BY <1>1, LifeStutters, StillRunning DEF Pending1
  <1> QED
    BY <1>6, <1>7

\* Every step preserves the invariant and is a step of EP1's life or none.
LEMMA NextIInv ==
  ASSUME IInv, [Next]_vars
  PROVE  IInv' /\ LifeStep
  <1>1. CASE Handler
    BY <1>1, InterruptHandlerStep, HandleUSBSuspendStep, HandleUSBResetStep,
       HandleEnumerationDoneStep, HandleOutEPInterruptStep, HandleInEPInterruptStep
    DEF Handler
  <1>2. CASE MainLoop
    BY <1>2, TakeSuspendEventStep, TakeConfiguredEventStep, RemoveEP1Step,
       RemoveEP0Step,
       MaskInterruptsStep, InitCoreStep, InitCoreFailsStep, CreateEP0Step,
       AddEndpointsStep, SetStateSuspendedStep, EnableInterruptsStep
    DEF MainLoop
  <1>3. CASE Host
    BY <1>3, BusStep, HostEndpoint0Step, HostPoll1Step DEF Host
  <1>4. CASE UNCHANGED vars
    BY <1>4, UnchangedIInv
  <1> QED
    BY <1>1, <1>2, <1>3, <1>4 DEF Next

\* The inductive invariant of the device: endpoints, transfers, completions and
\* interrupt mask fit together at every point of the handler and the main loop,
\* whatever the bus and the host do.
THEOREM IInvHolds == Spec => []IInv
  <1>1. Init => IInv
    BY InitIInv
  <1>2. IInv /\ [Next]_vars => IInv'
    BY NextIInv
  <1> QED
    BY <1>1, <1>2, PTL DEF Spec

\* Every variable keeps to its type.
THEOREM TypeCorrect == Spec => []TypeOK
  <1>1. IInv => TypeOK
    BY DEF IInv
  <1> QED
    BY <1>1, IInvHolds, PTL

\* No assert or panic but the four named ones stops the device, in whatever order
\* resets, suspends, configurations and control transfers come.
THEOREM OnlyKnownAssertsHolds == Spec => []OnlyKnownAsserts
  <1>1. IInv => OnlyKnownAsserts
    BY DEF IInv
  <1> QED
    BY <1>1, IInvHolds, PTL

\* The interrupt handler runs only while both endpoints exist, although the main
\* loop deletes and creates them without a lock (UpdatePlugAndPlay).
THEOREM HandlersSeeEndpointsHolds == Spec => []HandlersSeeEndpoints
  <1>1. IInv => HandlersSeeEndpoints
    BY DEF IInv, InterruptsInv, EndpointsInv, HandlersSeeEndpoints
  <1> QED
    BY <1>1, IInvHolds, PTL

\* EP1 is active only in a configured device with no suspend waiting, active in
\* every configured device that takes interrupts, and armed only when active.
THEOREM EP1FollowsConfigurationHolds == Spec => []EP1FollowsConfiguration
  <1>1. ASSUME IInv, Running
        PROVE  /\ dev.m_bActive =>
                      dev.m_State = "Configured" /\ 1 \in dev.m_pEP /\ ~dev.pnpSuspend
               /\ dev.m_State = "Configured" /\ dev.gint => dev.m_bActive
               /\ armed[1] # "Unknown" => dev.m_bActive /\ dev.mode[1] = "DataIn"
    <2>1. InterruptsInv /\ EndpointsInv /\ EP1Inv
      BY <1>1, RunningIsSound DEF Sound
    <2> QED
      BY <2>1 DEF InterruptsInv, EndpointsInv, EP1Inv, EPs
  <1>2. IInv => EP1FollowsConfiguration
    BY <1>1 DEF EP1FollowsConfiguration
  <1> QED
    BY <1>2, IInvHolds, PTL

\* The controller holds a transfer of a deleted endpoint only for EP0, and only
\* until the core reset of InitCore.
THEOREM DeletedEndpointIsDisarmedHolds == Spec => []DeletedEndpointIsDisarmed
  <1>1. ASSUME IInv, NEW e \in EPs \ dev.m_pEP
        PROVE  armed[e] = "Unknown" \/ (e = 0 /\ pc \in {"maskInterrupts", "initCore"})
    <2>1. InterruptsInv /\ EndpointsInv /\ TypeOK
      BY <1>1 DEF IInv
    <2>2. pc # "loop" /\ ~dev.gint /\ (e = 0 \/ e = 1)
      BY <2>1 DEF InterruptsInv, EndpointsInv, EPs
    <2>3. EP1Inv /\ FreshInv
      BY <1>1, <2>2, Zenon DEF IInv
    <2>4. armed[1] = "Unknown"
      BY <2>1, <2>2, <2>3, MaskedIsInactive
    <2> QED
      BY <2>1, <2>2, <2>3, <2>4
      DEF EndpointsInv, FreshInv, TypeOK, PlugAndPlayPCs
  <1>2. IInv => DeletedEndpointIsDisarmed
    BY <1>1 DEF DeletedEndpointIsDisarmed
  <1> QED
    BY <1>2, IInvHolds, PTL

\* The refinement: initial states map to initial states, steps to steps.
LEMMA InitLife == Init => Life!Init
  <1>1. ASSUME Init
        PROVE  ~(1 \in dev.m_pEP) /\ ~dev.m_bActive /\ armed[1] = "Unknown"
               /\ "In1" \notin done /\ dev.failed = ""
    <2>1. dev.m_pEP = {} /\ ~dev.m_bActive /\ done = {} /\ dev.failed = ""
      BY <1>1, Zenon DEF Init
    <2>2. armed[1] = "Unknown"
      <3>1. [e \in EPs |-> "Unknown"][1] = "Unknown"
        BY DEF EPs
      <3> QED
        BY <1>1, <3>1, Zenon DEF Init
    <2> QED
      BY <2>1, <2>2, Zenon
  <1> QED
    BY <1>1, Zenon DEF Life!Init, Running

\* The device provides the life of EP1 that DS4Endpoint relies on.
THEOREM RefinesEndpointLife == Spec => EndpointLifeSpec
  <1>1. IInv /\ [Next]_vars => [Life!Next]_(Life!vars)
    BY NextIInv DEF LifeStep
  <1> QED
    BY <1>1, InitLife, IInvHolds, PTL
    DEF Spec, EndpointLifeSpec, Life!Spec
=============================================================================
