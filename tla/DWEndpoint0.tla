----------------------------- MODULE DWEndpoint0 -----------------------------
(***************************************************************************)
(* A control transfer on EP0, byte by byte: CDWUSBGadgetEndpoint0 splits   *)
(* the data stage into transfers of one packet, the host takes or sends    *)
(* packets until the data stage is over for it.                            *)
(*                                                                         *)
(* A byte is its offset in the buffer; moved is the sequence of offsets    *)
(* the controller has used in this control transfer.  The device's life    *)
(* around EP0 (suspend, configuration) is in DWGadget.                     *)
(***************************************************************************)
EXTENDS Integers, Sequences

CONSTANTS
    MaxPacket,      \* bMaxPacketSize0
    BufferSize,     \* the size of m_OutBuffer and of m_InBuffer
    Answers,        \* the lengths of the gadget's descriptors and reports
    MaxLength       \* bound on the host's wLength

ASSUME SizesAssumption ==
    /\ MaxPacket \in Nat \ {0} /\ MaxLength \in Nat
    /\ BufferSize \in Nat /\ BufferSize >= 2       \* GET_STATUS answers with 2
    /\ Answers \subseteq 1..BufferSize

\* Up to 127 = 2 * 64 - 1 bytes fit into one transfer of EP0.
TransferLimit == 2 * MaxPacket - 1

\* A SETUP packet and what the gadget makes of it: the length of its answer,
\* or 0 if it refuses.  "StandardOut" has no data stage.
InKinds  == {"GetDescriptor", "GetStatus", "ClassIn"}
Requests ==
    [kind : {"GetDescriptor", "ClassIn"}, wLength : 1..MaxLength,
     answer : Answers \cup {0}]
      \cup [kind : {"GetStatus"}, wLength : 1..MaxLength, answer : {2}]
      \cup [kind : {"ClassOut"}, wLength : 0..MaxLength, answer : {0}]
      \cup [kind : {"StandardOut"}, wLength : {0}, answer : 0..1]

\* No request, and what the data of a request leaves of its SETUP packet.
NoRequest   == [kind |-> "None", wLength |-> 0, answer |-> 0]
Overwritten == [kind |-> "Data", wLength |-> 0, answer |-> 0]

VARIABLES
    ep,         \* the driver's endpoint, a record (see TypeOK)
    armed,      \* controller: the transfer EP0 is enabled for
    stalled,    \* controller: the directions that answer with STALL
    done,       \* controller: the completion raised, with its bytes
    moved,      \* offsets of the bytes moved in this control transfer
    host        \* the host's side of the control transfer

vars == <<ep, armed, stalled, done, moved, host>>

NoTransfer == [mode |-> "Unknown", ptr |-> 0, len |-> 0]
NoDone     == [mode |-> "Unknown", bytes |-> 0]
Modes      == {"SetupOut", "DataOut", "DataIn", "Unknown"}

TypeOK ==
    /\ ep \in [m_State : {"Idle", "InData", "OutData", "InStatus",
                          "OutStatus"},
               m_nBytesLeft : 0..BufferSize,
               m_pBufPtr : 0..BufferSize,
               m_TransferMode : Modes,
               m_SetupData : Requests,
               out : Requests \cup {Overwritten},     \* m_OutBuffer
               served : Requests \cup {NoRequest},    \* in this transfer
               failed : BOOLEAN]                      \* an assert failed
    /\ armed \in [mode : Modes, ptr : 0..BufferSize, len : 0..TransferLimit]
    /\ stalled \subseteq {"In", "Out"}
    /\ done \in [mode : Modes, bytes : 0..MaxPacket]
    /\ moved \in Seq(0..BufferSize - 1)
    /\ host \in [phase : {"idle", "inData", "outData", "inStatus",
                          "outStatus"},
                 req : Requests, left : 0..MaxLength]

AnyRequest == [kind |-> "StandardOut", wLength |-> 0, answer |-> 1]

\* After OnActivate.
Init ==
    /\ ep = [m_State |-> "Idle", m_nBytesLeft |-> 0, m_pBufPtr |-> 0,
             m_TransferMode |-> "SetupOut", m_SetupData |-> AnyRequest,
             out |-> AnyRequest, served |-> NoRequest, failed |-> FALSE]
    /\ armed = [NoTransfer EXCEPT !.mode = "SetupOut"]
    /\ stalled = {} /\ done = NoDone /\ moved = <<>>
    /\ host = [phase |-> "idle", req |-> AnyRequest, left |-> 0]

Lesser(a, b) == IF a <= b THEN a ELSE b

-----------------------------------------------------------------------------
(* The driver.  A state is g = [ep, armed, stalled].                       *)

Whole == [ep |-> ep, armed |-> armed, stalled |-> stalled]

Becomes(g) == ep' = g.ep /\ armed' = g.armed /\ stalled' = g.stalled

Fail(g) == [g EXCEPT !.ep.failed = TRUE]

BeginTransfer(g, mode, ptr, len) ==
    IF g.ep.m_TransferMode # "Unknown" \/ len > TransferLimit THEN Fail(g)
    ELSE [g EXCEPT !.ep.m_TransferMode = mode,
                   !.armed = [mode |-> mode, ptr |-> ptr, len |-> len]]

\* After FinishTransfer, which the handlers call first.
Finished ==
    IF ep.m_TransferMode = "Unknown" THEN Fail(Whole)
    ELSE [Whole EXCEPT !.ep.m_TransferMode = "Unknown"]

\* The next transfer of a data stage: one packet at most.
NextPacket_fromTheStart(g, mode) ==
    BeginTransfer(g, mode, 0, Lesser(g.ep.m_nBytesLeft, MaxPacket))

NextPacket_unsplit(g, mode) ==
    BeginTransfer(g, mode, g.ep.m_pBufPtr, g.ep.m_nBytesLeft)

NextPacket(g, mode) ==
    BeginTransfer(g, mode, g.ep.m_pBufPtr,
                  Lesser(g.ep.m_nBytesLeft, MaxPacket))

DataStage(g, state, mode, n) ==
    NextPacket([g EXCEPT !.ep.m_State = state, !.ep.m_nBytesLeft = n,
                         !.ep.m_pBufPtr = 0], mode)

StatusStage(g, state, mode) ==
    BeginTransfer([g EXCEPT !.ep.m_State = state], mode, 0, 0)

StatusIn(g) == StatusStage(g, "InStatus", "DataIn")

Rearm(g) == BeginTransfer(g, "SetupOut", 0, 0)


Stall(g, dir) == Rearm([g EXCEPT !.stalled = @ \cup {dir}])

\* Requests with more data than the buffers hold are refused.
Fits_always(r) == TRUE

Fits(r) == r.wLength <= BufferSize

\* The length of an answer to r, 0 to refuse.  FillFeatureReport and the copy
\* of an input report limit it to wLength as well.
AnswerLength_unlimited(r) ==
    CASE r.kind = "GetDescriptor" -> r.answer
      [] r.kind = "GetStatus" -> IF r.wLength = 2 THEN 2 ELSE 0
      [] r.kind = "ClassIn" -> IF Fits(r) THEN r.answer ELSE 0

AnswerLength(r) ==
    CASE r.kind = "GetDescriptor" -> Lesser(r.answer, r.wLength)
      [] r.kind = "GetStatus" -> IF r.wLength = 2 THEN 2 ELSE 0
      [] r.kind = "ClassIn" ->
            IF Fits(r) THEN Lesser(r.answer, r.wLength) ELSE 0

OnControlMessage(g) ==
    LET r == g.ep.out
        c == [g EXCEPT !.ep.m_SetupData = r]
    IN  CASE r.kind \in InKinds /\ AnswerLength(r) > 0 ->
                 DataStage(c, "InData", "DataIn", AnswerLength(r))
          [] r.kind \in InKinds /\ AnswerLength(r) = 0 -> Stall(c, "In")
          [] r.kind = "StandardOut" ->
                 IF r.answer = 0 THEN Stall(c, "In") ELSE StatusIn(c)
          [] r.kind = "ClassOut" /\ r.wLength = 0 -> StatusIn(c)
          [] r.kind = "ClassOut" /\ r.wLength > 0 ->
                 IF Fits(r) THEN DataStage(c, "OutData", "DataOut", r.wLength)
                 ELSE Stall(c, "Out")

\* The data stage goes on behind the n bytes moved, or ends with last.
DataMoved(g, n, mode, last) ==
    IF n > g.ep.m_nBytesLeft THEN Fail(g)
    ELSE LET h == [g EXCEPT !.ep.m_nBytesLeft = @ - n]
         IN  IF h.ep.m_nBytesLeft = 0 THEN last
             ELSE NextPacket([h EXCEPT !.ep.m_pBufPtr = @ + n], mode)

\* OnClassOrVendorRequest gets the SETUP packet of the transfer; it refuses
\* no OUT request.
Served_fromOutBuffer(g) == [g EXCEPT !.ep.served = g.ep.out]

Served(g) == [g EXCEPT !.ep.served = g.ep.m_SetupData]

OnTransferComplete(g, n) ==
    LET h    == [g EXCEPT !.ep.m_nBytesLeft = @ - n]
        idle == [g EXCEPT !.ep.m_State = "Idle"]
    IN  CASE g.ep.m_State = "InData" ->
                 DataMoved(g, n, "DataIn",
                           StatusStage(h, "OutStatus", "DataOut"))
          [] g.ep.m_State = "OutData" ->
                 DataMoved(g, n, "DataOut", StatusIn(h))
          [] g.ep.m_State = "InStatus" ->
                 Rearm(IF g.ep.m_SetupData.kind = "ClassOut"
                       THEN Served(idle) ELSE idle)
          [] g.ep.m_State = "OutStatus" -> Rearm(idle)
          [] OTHER -> Fail(g)

\* HandleOutInterrupt and HandleInInterrupt.
Handle ==
    /\ ~ep.failed
    /\ done # NoDone
    /\ done' = NoDone
    /\ Becomes(IF done.mode = "SetupOut" THEN OnControlMessage(Finished)
               ELSE OnTransferComplete(Finished, done.bytes))
    /\ UNCHANGED <<moved, host>>

\* HandleUSBReset and HandleEnumerationDone: EP0 is deactivated, its
\* transfer forgotten, and activated again.  The host starts over.
BusReset ==
    /\ ~ep.failed
    /\ LET g == [Whole EXCEPT !.ep.m_State = "Idle",
                              !.ep.m_TransferMode = "Unknown"]
       IN  Becomes(Rearm(g))
    /\ done' = NoDone
    /\ moved' = <<>>
    /\ host' = [host EXCEPT !.phase = "idle", !.left = 0]

-----------------------------------------------------------------------------
(* The host and the controller.                                            *)

Offsets(ptr, n) == [i \in 1..n |-> ptr + i - 1]

\* The controller has moved n bytes of its transfer and raises completion.
Complete(n) ==
    /\ moved' = moved \o Offsets(armed.ptr, n)
    /\ done' = [mode |-> armed.mode, bytes |-> n]
    /\ armed' = NoTransfer

Phase(p, mode) == ~ep.failed /\ host.phase = p /\ armed.mode = mode

\* A SETUP packet goes into m_OutBuffer and ends every STALL.
HostSetup ==
    /\ Phase("idle", "SetupOut")
    /\ \E r \in Requests :
          /\ host' = [req |-> r, left |-> r.wLength,
                      phase |-> IF r.wLength = 0 THEN "inStatus"
                                ELSE IF r.kind \in InKinds THEN "inData"
                                ELSE "outData"]
          /\ ep' = [ep EXCEPT !.out = r, !.served = NoRequest]
    /\ moved' = <<>>
    /\ done' = [mode |-> "SetupOut", bytes |-> 0]
    /\ armed' = NoTransfer
    /\ stalled' = {}

\* For the host the data stage ends with wLength bytes or a short packet.
HostInData ==
    /\ Phase("inData", "DataIn")
    /\ Complete(armed.len)
    /\ LET left == host.left - Lesser(armed.len, host.left)
       IN  host' = [host EXCEPT
                       !.left = left,
                       !.phase = IF left = 0 \/ armed.len < MaxPacket
                                 THEN "outStatus" ELSE @]
    /\ UNCHANGED <<ep, stalled>>

HostOutData ==
    /\ Phase("outData", "DataOut")
    /\ LET n == Lesser(Lesser(host.left, MaxPacket), armed.len)
       IN  /\ Complete(n)
           /\ host' = [host EXCEPT !.left = @ - n,
                                   !.phase = IF host.left = n THEN "inStatus"
                                             ELSE @]
    /\ ep' = [ep EXCEPT !.out = Overwritten]
    /\ UNCHANGED stalled

HostStatus ==
    /\ Phase("inStatus", "DataIn") \/ Phase("outStatus", "DataOut")
    /\ armed.len = 0
    /\ Complete(0)
    /\ host' = [host EXCEPT !.phase = "idle"]
    /\ UNCHANGED <<ep, stalled>>

\* A STALL ends the transfer for the host.
HostSeesStall ==
    /\ \/ host.phase \in {"inData", "inStatus"} /\ "In" \in stalled
       \/ host.phase \in {"outData", "outStatus"} /\ "Out" \in stalled
    /\ host' = [host EXCEPT !.phase = "idle"]
    /\ UNCHANGED <<ep, armed, stalled, done, moved>>

-----------------------------------------------------------------------------
HostGoesOn == HostInData \/ HostOutData \/ HostStatus \/ HostSeesStall

Next == Handle \/ BusReset \/ HostSetup \/ HostGoesOn

Spec == Init /\ [][Next]_vars

\* Interrupts are taken; the host goes on with the transfer it has begun.
FairSpec == Spec /\ WF_vars(Handle) /\ WF_vars(HostGoesOn)

-----------------------------------------------------------------------------
(* Properties.                                                             *)

\* The bytes of a data stage leave or enter the buffer from its first byte
\* on, each once and in order, never beyond the buffer, however the stage is
\* split into transfers.
BytesInOrder ==
    /\ Len(moved) <= BufferSize
    /\ \A i \in 1..Len(moved) : moved[i] = i - 1

\* The length the host expects in answer to r.
Expected(r) == Lesser(r.answer, r.wLength)

\* A host that ends an IN data stage has the whole answer or the part it
\* asked for, and no byte more; one that has sent data has sent all of it to
\* the device.
WholeAnswer ==
    /\ host.phase = "outStatus" => Len(moved) = Expected(host.req)
    /\ host.req.kind = "ClassOut" /\ host.phase = "inStatus" /\ stalled = {}
           => Len(moved) = host.req.wLength

\* No assert of the control transfer fails: never two transfers at once,
\* never more bytes than EP0 takes at once or than were left.
NoAssertFails == ~ep.failed

\* The request the gadget serves in the status stage is the one the host has
\* sent, although its data has overwritten the SETUP packet in m_OutBuffer.
ServesTheHostsRequest == ep.served \in {NoRequest, host.req}

\* The driver has told the controller to make this transfer, and the controller
\* has not begun it or has completed n bytes of it.
Begun(mode, ptr, len) ==
    /\ ep.m_TransferMode = mode
    /\ armed = [mode |-> mode, ptr |-> ptr, len |-> len]
    /\ done = NoDone

Completed(mode, n) ==
    /\ ep.m_TransferMode = mode
    /\ armed = NoTransfer
    /\ done = [mode |-> mode, bytes |-> n]

\* The direction in which the host goes on.
Direction == IF host.phase \in {"inData", "inStatus"} THEN "In" ELSE "Out"

\* EP0 waits for a SETUP packet; so does the host, or it will see the STALL.
Waiting ==
    /\ ep.m_State = "Idle" /\ Begun("SetupOut", 0, 0)
    /\ \/ host.phase = "idle"
       \/ host.phase # "outStatus" /\ Direction \in stalled

FirstPhase(r) ==
    IF r.wLength = 0 THEN "inStatus"
    ELSE IF r.kind \in InKinds THEN "inData" ELSE "outData"

SetupReceived ==
    /\ ep.m_State = "Idle" /\ Completed("SetupOut", 0)
    /\ ep.out = host.req /\ moved = <<>> /\ stalled = {}
    /\ host.phase = FirstPhase(host.req) /\ host.left = host.req.wLength

\* The driver works on the host's request, n of the bytes of its data stage
\* have been moved.
Serving(kinds, n) ==
    /\ ep.m_SetupData = host.req /\ host.req.kind \in kinds
    /\ Len(moved) = n
    /\ stalled = {}

\* The length of the data stage of the host's request.
DataLength ==
    IF host.req.kind \in InKinds THEN AnswerLength(host.req)
    ELSE host.req.wLength

Packet == Lesser(ep.m_nBytesLeft, MaxPacket)

\* What is left begins where the bytes moved so far end.
DataLeft ==
    /\ ep.m_nBytesLeft > 0
    /\ ep.m_pBufPtr + ep.m_nBytesLeft = DataLength
    /\ DataLength <= BufferSize
    /\ host.left = host.req.wLength - Len(moved)

InData ==
    /\ ep.m_State = "InData" /\ DataLeft
    /\ \/ /\ Begun("DataIn", ep.m_pBufPtr, Packet)
          /\ Serving(InKinds, ep.m_pBufPtr)
          /\ host.phase = "inData"
       \/ /\ Completed("DataIn", Packet)
          /\ Serving(InKinds, ep.m_pBufPtr + Packet)
          /\ host.phase = (IF host.left = 0 \/ Packet < MaxPacket
                           THEN "outStatus" ELSE "inData")

OutData ==
    /\ ep.m_State = "OutData" /\ DataLeft
    /\ \/ /\ Begun("DataOut", ep.m_pBufPtr, Packet)
          /\ Serving({"ClassOut"}, ep.m_pBufPtr)
          /\ host.phase = "outData"
       \/ /\ Completed("DataOut", Packet)
          /\ Serving({"ClassOut"}, ep.m_pBufPtr + Packet)
          /\ host.phase = (IF host.left = 0 THEN "inStatus" ELSE "outData")

\* A host that waits for a zero-length packet is still in its data stage.
OutStatus ==
    /\ ep.m_State = "OutStatus"
    /\ Serving(InKinds, DataLength) /\ DataLength > 0
    /\ \/ Begun("DataOut", 0, 0) /\ host.phase \in {"outStatus", "inData"}
       \/ Completed("DataOut", 0) /\ host.phase = "idle"

InStatus ==
    /\ ep.m_State = "InStatus"
    /\ Serving({"ClassOut", "StandardOut"}, DataLength)
    /\ \/ Begun("DataIn", 0, 0) /\ host.phase = "inStatus"
       \/ Completed("DataIn", 0) /\ host.phase = "idle"

\* The inductive invariant: the driver, the controller and the host are at the
\* same point of the control transfer, which is one of these.
IInv ==
    /\ TypeOK /\ NoAssertFails /\ BytesInOrder /\ ServesTheHostsRequest
    /\ \/ Waiting \/ SetupReceived
       \/ InData \/ OutData \/ OutStatus \/ InStatus

\* The answer ends on a packet boundary before wLength bytes: the host waits
\* for a zero-length packet, which EP0 never sends.
AwaitsZeroPacket ==
    /\ host.req.kind \in InKinds
    /\ AnswerLength(host.req) \in 1..host.req.wLength - 1
    /\ AnswerLength(host.req) % MaxPacket = 0

=============================================================================
