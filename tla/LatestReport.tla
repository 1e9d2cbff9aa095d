---------------------------- MODULE LatestReport ----------------------------
(***************************************************************************)
(* What the DS4 gadget promises about input reports, with no buffer, lock  *)
(* or interrupt in it.  Reports are numbered in the order in which the     *)
(* main loop hands them to SendDS4Report; 0 is the neutral report every    *)
(* endpoint object starts with.  The host, at any moment of its choice,    *)
(* observes ONE whole report, which is never older than the one it saw     *)
(* before and never newer than the last one put.  Only a new endpoint      *)
(* object (after a bus suspend) takes it back to the neutral report.       *)
(***************************************************************************)
EXTENDS Integers

CONSTANT MaxReports     \* bound on the number of reports put

VARIABLES
    put,                \* number of the last report handed over
    seen,               \* number of the last report the host observed
    online              \* FALSE while the device is suspended

vars == <<put, seen, online>>

Init == put = 0 /\ seen = 0 /\ online = TRUE

\* The main loop hands over one more report.
Put == put < MaxReports /\ put' = put + 1 /\ UNCHANGED <<seen, online>>

\* The host polls and receives a report that is no older than its last one.
Observe == online /\ seen' \in seen..put /\ UNCHANGED <<put, online>>

Suspend == online /\ online' = FALSE /\ UNCHANGED <<put, seen>>

\* The suspended device comes back with a fresh endpoint.
Reconnect == ~online /\ online' = TRUE /\ seen' = 0 /\ UNCHANGED put

Next == Put \/ Observe \/ Suspend \/ Reconnect

Spec == Init /\ [][Next]_vars
=============================================================================
