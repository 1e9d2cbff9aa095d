----------------------------- MODULE ByteTransfer -----------------------------
(***************************************************************************)
(* What an I2C master promises about a transfer, with no FIFO, register or *)
(* interrupt in it: from Begin to End the device receives the bytes of the *)
(* buffer one by one from the first, nothing else reaches it, and the      *)
(* transfer ends when the buffer is complete or a byte (or the address) is *)
(* not acknowledged.                                                       *)
(***************************************************************************)
EXTENDS Sequences, Integers

CONSTANT Payloads       \* the buffers that can be sent

VARIABLES
    busy,               \* the buffer belongs to the master
    payload,            \* the buffer of the last transfer begun
    wire,               \* what the device has received of it
    nacked              \* the device has refused the transfer

vars == <<busy, payload, wire, nacked>>

Init == ~busy /\ payload \in Payloads /\ wire = <<>> /\ ~nacked

Begin ==
    /\ ~busy /\ busy'
    /\ payload' \in Payloads
    /\ wire' = <<>> /\ ~nacked'

Send ==
    /\ busy /\ ~nacked
    /\ Len(wire) < Len(payload)
    /\ wire' = SubSeq(payload, 1, Len(wire) + 1)
    /\ nacked' \in BOOLEAN
    /\ UNCHANGED <<busy, payload>>

RefuseAddress ==
    /\ busy /\ ~nacked
    /\ wire = <<>>
    /\ nacked'
    /\ UNCHANGED <<busy, payload, wire>>

End ==
    /\ busy /\ ~busy'
    /\ nacked \/ wire = payload
    /\ UNCHANGED <<payload, wire, nacked>>

Next == Begin \/ Send \/ RefuseAddress \/ End

Spec == Init /\ [][Next]_vars
=============================================================================
