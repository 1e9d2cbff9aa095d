----------------------------- MODULE EndpointLife -----------------------------
(***************************************************************************)
(* The life of EP1: what the device (CDWUSBGadget, see DWGadget) promises  *)
(* of the endpoint that the report path (see DS4Endpoint) works with.  The *)
(* endpoint is activated only with no completion of an earlier activation  *)
(* pending, its transfer ends only by completing or by its deactivation,   *)
(* each completion of an active endpoint is answered with a new transfer,  *)
(* and it comes and goes with no transfer armed.                           *)
(***************************************************************************)

VARIABLES
    exists,             \* the endpoint object
    active,             \* m_bActive
    transfer,           \* "none", "armed" or "completed", not yet handled
    halted              \* an assert or panic: nothing is promised any more

vars == <<exists, active, transfer, halted>>

Init == exists \in BOOLEAN /\ ~active /\ transfer = "none" /\ ~halted

\* A new object starts with a controller that knows nothing of the old one.
Create ==
    /\ ~exists
    /\ exists' = TRUE /\ transfer' = "none"
    /\ UNCHANGED <<active, halted>>

Activate ==
    /\ exists /\ ~active /\ transfer = "none"
    /\ active' = TRUE /\ transfer' = "armed"
    /\ UNCHANGED <<exists, halted>>

Complete ==
    /\ transfer = "armed" /\ transfer' = "completed"
    /\ UNCHANGED <<exists, active, halted>>

NextTransfer ==
    /\ active /\ transfer = "completed" /\ transfer' = "armed"
    /\ UNCHANGED <<exists, active, halted>>

\* A completion that has been raised stays pending.
Cancelled == IF transfer = "armed" THEN "none" ELSE transfer

Deactivate ==
    /\ active
    /\ active' = FALSE /\ transfer' = Cancelled
    /\ UNCHANGED <<exists, halted>>

Delete ==
    /\ exists
    /\ exists' = FALSE /\ active' = FALSE /\ transfer' = Cancelled
    /\ UNCHANGED halted

\* The reset of the controller.
Forget ==
    /\ ~exists
    /\ transfer' = "none"
    /\ UNCHANGED <<exists, active, halted>>

Halt == halted' /\ ~exists' /\ ~active' /\ transfer' = "none"

Next ==
    \/ Create \/ Activate \/ Complete \/ NextTransfer
    \/ Deactivate \/ Delete \/ Forget \/ Halt

Spec == Init /\ [][Next]_vars
=============================================================================
