--------------------------- MODULE DWEndpoint0_proofs ---------------------------
(***************************************************************************)
(* Proofs about DWEndpoint0 for every packet size, every buffer size,      *)
(* every set of answers and every length the host may ask for: IInv is     *)
(* inductive, every step of a transfer leaves less to do of it, and until  *)
(* its end the driver and the host never both wait.                        *)
(***************************************************************************)
EXTENDS DWEndpoint0, SequenceTheorems, TLAPS

-----------------------------------------------------------------------------
(* The driver's state as a record.                                         *)

Endpoint(state, left, ptr, mode, setup, out, served, failed) ==
  [m_State |-> state, m_nBytesLeft |-> left, m_pBufPtr |-> ptr,
   m_TransferMode |-> mode, m_SetupData |-> setup, out |-> out,
   served |-> served, failed |-> failed]

Driver(e, a, s) == [ep |-> e, armed |-> a, stalled |-> s]

Transfer(mode, ptr, len) == [mode |-> mode, ptr |-> ptr, len |-> len]

Also(s, dir) == s \cup {dir}

\* What it holds, and what setting a field makes of it.
LEMMA Fields ==
  ASSUME NEW st, NEW left, NEW ptr, NEW mode, NEW setup, NEW out, NEW served,
         NEW f, NEW a, NEW s, NEW g,
         g = Driver(Endpoint(st, left, ptr, mode, setup, out, served, f), a, s)
  PROVE  /\ g.ep = Endpoint(st, left, ptr, mode, setup, out, served, f)
         /\ g.armed = a /\ g.stalled = s
         /\ g.ep.m_State = st /\ g.ep.m_nBytesLeft = left
         /\ g.ep.m_pBufPtr = ptr /\ g.ep.m_TransferMode = mode
         /\ g.ep.m_SetupData = setup /\ g.ep.out = out
         /\ \A v : [g EXCEPT !.ep.m_State = v]
                = Driver(Endpoint(v, left, ptr, mode, setup, out, served, f), a, s)
         /\ \A v : [g EXCEPT !.ep.m_nBytesLeft = v]
                = Driver(Endpoint(st, v, ptr, mode, setup, out, served, f), a, s)
         /\ \A v : [g EXCEPT !.ep.m_pBufPtr = v]
                = Driver(Endpoint(st, left, v, mode, setup, out, served, f), a, s)
         /\ \A v : [g EXCEPT !.ep.m_TransferMode = v]
                = Driver(Endpoint(st, left, ptr, v, setup, out, served, f), a, s)
         /\ \A v : [g EXCEPT !.ep.m_SetupData = v]
                = Driver(Endpoint(st, left, ptr, mode, v, out, served, f), a, s)
         /\ \A v : [g EXCEPT !.ep.served = v]
                = Driver(Endpoint(st, left, ptr, mode, setup, out, v, f), a, s)
         /\ \A v : [g EXCEPT !.stalled = v]
                = Driver(Endpoint(st, left, ptr, mode, setup, out, served, f), a, v)
  BY DEF Driver, Endpoint

\* The whole state of the driver, as a record of its fields.
LEMMA WholeIs ==
  ASSUME TypeOK
  PROVE  Whole = Driver(Endpoint(ep.m_State, ep.m_nBytesLeft, ep.m_pBufPtr,
                                 ep.m_TransferMode, ep.m_SetupData, ep.out,
                                 ep.served, ep.failed), armed, stalled)
  BY DEF TypeOK, Whole, Driver, Endpoint

\* FinishTransfer of a transfer that is known.
LEMMA FinishedIs ==
  ASSUME TypeOK, ep.m_TransferMode # "Unknown"
  PROVE  Finished = Driver(Endpoint(ep.m_State, ep.m_nBytesLeft, ep.m_pBufPtr,
                                    "Unknown", ep.m_SetupData, ep.out,
                                    ep.served, ep.failed), armed, stalled)
  BY WholeIs, Fields DEF Finished

\* What the assumption on the sizes says.
LEMMA LimitFacts ==
  /\ MaxPacket \in Nat \ {0} /\ BufferSize \in Nat /\ MaxLength \in Nat
  /\ BufferSize >= 2 /\ Answers \subseteq 1..BufferSize
  /\ TransferLimit \in Nat /\ MaxPacket <= TransferLimit
  BY SizesAssumption DEF TransferLimit

\* A packet is at most what is left and what EP0 can transfer.
LEMMA PacketFits ==
  ASSUME NEW n \in Nat
  PROVE  /\ Lesser(n, MaxPacket) \in 0..MaxPacket
         /\ Lesser(n, MaxPacket) \in 0..TransferLimit
         /\ Lesser(n, MaxPacket) <= n
         /\ n > 0 => Lesser(n, MaxPacket) > 0
  BY LimitFacts DEF Lesser

-----------------------------------------------------------------------------
(* What the operations of the driver return when no transfer is known.     *)

\* A transfer begun on an idle EP0, within its limit.
LEMMA BeginTransferIs ==
  ASSUME NEW st, NEW left, NEW ptr, NEW setup, NEW out, NEW served, NEW f,
         NEW a, NEW s, NEW mode, NEW p, NEW len \in 0..TransferLimit, NEW g,
         g = Driver(Endpoint(st, left, ptr, "Unknown", setup, out, served, f), a, s)
  PROVE  BeginTransfer(g, mode, p, len)
           = Driver(Endpoint(st, left, ptr, mode, setup, out, served, f),
                    Transfer(mode, p, len), s)
  <1>1. ~(len > TransferLimit)
    BY LimitFacts
  <1> QED
    BY <1>1 DEF BeginTransfer, Driver, Endpoint, Transfer

\* EP0 waits for a SETUP packet.
LEMMA RearmIs ==
  ASSUME NEW st, NEW left, NEW ptr, NEW setup, NEW out, NEW served, NEW f,
         NEW a, NEW s, NEW g,
         g = Driver(Endpoint(st, left, ptr, "Unknown", setup, out, served, f), a, s)
  PROVE  Rearm(g)
           = Driver(Endpoint(st, left, ptr, "SetupOut", setup, out, served, f),
                    Transfer("SetupOut", 0, 0), s)
  <1>1. 0 \in 0..TransferLimit
    BY LimitFacts
  <1> QED
    BY <1>1, BeginTransferIs DEF Rearm

\* A status stage is a transfer without data.
LEMMA StatusStageIs ==
  ASSUME NEW st, NEW left, NEW ptr, NEW setup, NEW out, NEW served, NEW f,
         NEW a, NEW s, NEW state, NEW mode, NEW g,
         g = Driver(Endpoint(st, left, ptr, "Unknown", setup, out, served, f), a, s)
  PROVE  StatusStage(g, state, mode)
           = Driver(Endpoint(state, left, ptr, mode, setup, out, served, f),
                    Transfer(mode, 0, 0), s)
  <1>1. 0 \in 0..TransferLimit
    BY LimitFacts
  <1>2. [g EXCEPT !.ep.m_State = state]
          = Driver(Endpoint(state, left, ptr, "Unknown", setup, out, served, f), a, s)
    BY Fields
  <1> QED
    BY <1>1, <1>2, BeginTransferIs DEF StatusStage

\* The next packet begins at m_pBufPtr and is full or the last.
LEMMA NextPacketIs ==
  ASSUME NEW st, NEW left \in Nat, NEW ptr, NEW setup, NEW out, NEW served,
         NEW f, NEW a, NEW s, NEW mode, NEW g,
         g = Driver(Endpoint(st, left, ptr, "Unknown", setup, out, served, f), a, s)
  PROVE  NextPacket(g, mode)
           = Driver(Endpoint(st, left, ptr, mode, setup, out, served, f),
                    Transfer(mode, ptr, Lesser(left, MaxPacket)), s)
  <1>1. g.ep.m_nBytesLeft = left /\ g.ep.m_pBufPtr = ptr
    BY Fields
  <1> QED
    BY <1>1, PacketFits, BeginTransferIs DEF NextPacket

\* A data stage begins at the start of the buffer.
LEMMA DataStageIs ==
  ASSUME NEW st, NEW left, NEW ptr, NEW setup, NEW out, NEW served,
         NEW f, NEW a, NEW s, NEW state, NEW mode, NEW n, n \in Nat, NEW g,
         g = Driver(Endpoint(st, left, ptr, "Unknown", setup, out, served, f), a, s)
  PROVE  DataStage(g, state, mode, n)
           = Driver(Endpoint(state, n, 0, mode, setup, out, served, f),
                    Transfer(mode, 0, Lesser(n, MaxPacket)), s)
  <1> DEFINE first == 0
             g1 == [g EXCEPT !.ep.m_State = state]
             g2 == [g1 EXCEPT !.ep.m_nBytesLeft = n]
             g3 == [g2 EXCEPT !.ep.m_pBufPtr = first]
  <1> HIDE DEF first
  <1>1. g1 = Driver(Endpoint(state, left, ptr, "Unknown", setup, out, served, f), a, s)
    BY Fields
  <1> HIDE DEF g1
  <1>2. g2 = Driver(Endpoint(state, n, ptr, "Unknown", setup, out, served, f), a, s)
    BY <1>1, Fields
  <1> HIDE DEF g2
  <1>3. g3 = Driver(Endpoint(state, n, first, "Unknown", setup, out, served, f), a, s)
    BY <1>2, Fields
  <1> HIDE DEF g3
  <1>4. DataStage(g, state, mode, n) = NextPacket(g3, mode)
    BY DEF DataStage, g1, g2, g3, first
  <1> QED
    BY <1>3, <1>4, NextPacketIs DEF first

\* After a STALL EP0 waits for a SETUP packet.
LEMMA StallIs ==
  ASSUME NEW st, NEW left, NEW ptr, NEW setup, NEW out, NEW served, NEW f,
         NEW a, NEW s, NEW dir, NEW g,
         g = Driver(Endpoint(st, left, ptr, "Unknown", setup, out, served, f), a, s)
  PROVE  Stall(g, dir)
           = Driver(Endpoint(st, left, ptr, "SetupOut", setup, out, served, f),
                    Transfer("SetupOut", 0, 0), Also(s, dir))
  <1>1. g.stalled = s
    BY Fields
  <1> DEFINE t == s \cup {dir}
  <1> HIDE DEF t
  <1>2. [g EXCEPT !.stalled = t]
          = Driver(Endpoint(st, left, ptr, "Unknown", setup, out, served, f), a, t)
    BY Fields
  <1> QED
    BY <1>1, <1>2, RearmIs DEF Stall, Also, t

\* What the gadget answers fits into the buffer and is what the host expects.
LEMMA AnswerLengthFacts ==
  ASSUME NEW r \in Requests, r.kind \in InKinds
  PROVE  /\ AnswerLength(r) \in 0..BufferSize
         /\ AnswerLength(r) > 0 => /\ AnswerLength(r) = Expected(r)
                                   /\ AnswerLength(r) <= r.wLength
         /\ r.wLength \in 1..MaxLength
  <1>1. CASE r.kind = "GetDescriptor"
    BY <1>1, LimitFacts DEF Requests, AnswerLength, Expected, Lesser
  <1>2. CASE r.kind = "GetStatus"
    BY <1>2, LimitFacts DEF Requests, AnswerLength, Expected, Lesser
  <1>3. CASE r.kind = "ClassIn"
    BY <1>3, LimitFacts DEF Requests, AnswerLength, Expected, Lesser, Fits
  <1> QED
    BY <1>1, <1>2, <1>3 DEF InKinds

\* A request is of one of these kinds.
LEMMA Kinds ==
  ASSUME NEW r \in Requests
  PROVE  /\ r.kind \in InKinds \cup {"ClassOut", "StandardOut"}
         /\ r.wLength \in 0..MaxLength
         /\ r.kind \in InKinds => r.wLength > 0
         /\ r.kind = "StandardOut" => r.wLength = 0
  BY LimitFacts DEF Requests, InKinds

\* OnControlMessage begins a data stage, begins the status stage or stalls.
LEMMA OnControlMessageIs ==
  ASSUME NEW st, NEW left, NEW ptr, NEW setup, NEW out \in Requests,
         NEW served, NEW f, NEW a, NEW s, NEW g,
         g = Driver(Endpoint(st, left, ptr, "Unknown", setup, out, served, f), a, s)
  PROVE  \/ /\ out.kind \in InKinds /\ AnswerLength(out) > 0
            /\ OnControlMessage(g)
                 = Driver(Endpoint("InData", AnswerLength(out), 0, "DataIn",
                                   out, out, served, f),
                          Transfer("DataIn", 0, Lesser(AnswerLength(out), MaxPacket)), s)
         \/ /\ out.kind = "ClassOut" /\ out.wLength > 0 /\ Fits(out)
            /\ OnControlMessage(g)
                 = Driver(Endpoint("OutData", out.wLength, 0, "DataOut",
                                   out, out, served, f),
                          Transfer("DataOut", 0, Lesser(out.wLength, MaxPacket)), s)
         \/ /\ out.kind \in {"ClassOut", "StandardOut"} /\ out.wLength = 0
            /\ OnControlMessage(g)
                 = Driver(Endpoint("InStatus", left, ptr, "DataIn",
                                   out, out, served, f),
                          Transfer("DataIn", 0, 0), s)
         \/ \E dir \in {"In", "Out"} :
              /\ dir = "Out" => out.kind = "ClassOut" /\ out.wLength > 0
              /\ dir = "In" => out.kind # "ClassOut"
              /\ OnControlMessage(g)
                   = Driver(Endpoint(st, left, ptr, "SetupOut",
                                     out, out, served, f),
                            Transfer("SetupOut", 0, 0), Also(s, dir))
  <1> DEFINE c == [g EXCEPT !.ep.m_SetupData = out]
  <1>1. g.ep.out = out
    BY Fields
  <1>2. c = Driver(Endpoint(st, left, ptr, "Unknown", out, out, served, f), a, s)
    BY Fields
  <1>3. OnControlMessage(g) =
          CASE out.kind \in InKinds /\ AnswerLength(out) > 0 ->
                 DataStage(c, "InData", "DataIn", AnswerLength(out))
            [] out.kind \in InKinds /\ AnswerLength(out) = 0 -> Stall(c, "In")
            [] out.kind = "StandardOut" ->
                 IF out.answer = 0 THEN Stall(c, "In") ELSE StatusIn(c)
            [] out.kind = "ClassOut" /\ out.wLength = 0 -> StatusIn(c)
            [] out.kind = "ClassOut" /\ out.wLength > 0 ->
                 IF Fits(out) THEN DataStage(c, "OutData", "DataOut", out.wLength)
                 ELSE Stall(c, "Out")
    BY <1>1 DEF OnControlMessage
  <1> HIDE DEF c
  <1>4. /\ out.kind \in InKinds => AnswerLength(out) \in Nat
        /\ out.wLength \in Nat
    BY AnswerLengthFacts, Kinds, LimitFacts
  <1>5. StatusIn(c) = Driver(Endpoint("InStatus", left, ptr, "DataIn",
                                      out, out, served, f),
                             Transfer("DataIn", 0, 0), s)
    BY <1>2, StatusStageIs DEF StatusIn
  <1>6. CASE out.kind \in InKinds /\ AnswerLength(out) > 0
    <2>1. OnControlMessage(g) = DataStage(c, "InData", "DataIn", AnswerLength(out))
      BY <1>3, <1>4, <1>6 DEF InKinds
    <2> QED
      BY <1>2, <1>4, <1>6, <2>1, DataStageIs
  <1>7. CASE out.kind \in InKinds /\ ~(AnswerLength(out) > 0)
    <2>1. OnControlMessage(g) = Stall(c, "In")
      BY <1>3, <1>4, <1>7 DEF InKinds
    <2> QED
      BY <1>2, <1>7, <2>1, StallIs DEF InKinds
  <1>8. CASE out.kind = "StandardOut"
    <2>1. OnControlMessage(g) = IF out.answer = 0 THEN Stall(c, "In") ELSE StatusIn(c)
      BY <1>3, <1>8 DEF InKinds
    <2> QED
      BY <1>2, <1>5, <1>8, <2>1, StallIs, Kinds
  <1>9. CASE out.kind = "ClassOut" /\ out.wLength = 0
    <2>1. OnControlMessage(g) = StatusIn(c)
      BY <1>3, <1>9 DEF InKinds
    <2> QED
      BY <1>5, <1>9, <2>1
  <1>10. CASE out.kind = "ClassOut" /\ out.wLength > 0
    <2>1. OnControlMessage(g) =
            IF Fits(out) THEN DataStage(c, "OutData", "DataOut", out.wLength)
            ELSE Stall(c, "Out")
      BY <1>3, <1>10 DEF InKinds
    <2>2. CASE Fits(out)
      BY <1>2, <1>4, <1>10, <2>1, <2>2, DataStageIs
    <2>3. CASE ~Fits(out)
      BY <1>2, <1>10, <2>1, <2>3, StallIs
    <2> QED
      BY <2>2, <2>3
  <1> QED
    BY <1>4, <1>6, <1>7, <1>8, <1>9, <1>10, Kinds

\* The transfers of a data stage, the status stage that follows and its transfer.
DataMode(st)   == IF st = "InData" THEN "DataIn" ELSE "DataOut"
StatusOf(st)   == IF st = "InData" THEN "OutStatus" ELSE "InStatus"
StatusMode(st) == IF st = "InData" THEN "DataOut" ELSE "DataIn"

\* OnTransferComplete of a data stage takes the next packet or ends the stage.
LEMMA OnDataIs ==
  ASSUME NEW left \in Nat, NEW ptr \in Nat, NEW setup, NEW out, NEW served,
         NEW f, NEW a, NEW s, NEW n \in 0..left,
         NEW rest \in Nat, rest + n = left, NEW next \in Nat, next - n = ptr,
         NEW st \in {"InData", "OutData"}, NEW g,
         g = Driver(Endpoint(st, left, ptr, "Unknown", setup, out, served, f), a, s)
  PROVE  OnTransferComplete(g, n) =
           IF n = left
           THEN Driver(Endpoint(StatusOf(st), rest, ptr, StatusMode(st), setup, out, served, f),
                       Transfer(StatusMode(st), 0, 0), s)
           ELSE Driver(Endpoint(st, rest, next, DataMode(st), setup, out, served, f),
                       Transfer(DataMode(st), next, Lesser(rest, MaxPacket)), s)
  <1> DEFINE h == [g EXCEPT !.ep.m_nBytesLeft = @ - n]
             mode == DataMode(st)
             last == StatusOf(st)
             lastMode == StatusMode(st)
             k == [h EXCEPT !.ep.m_pBufPtr = @ + n]
  <1>1. rest = left - n /\ next = ptr + n /\ (rest = 0 <=> n = left) /\ ~(n > left)
    OBVIOUS
  <1>2. /\ g.ep.m_State = st /\ g.ep.m_nBytesLeft = left
    BY Fields
  <1>3. OnTransferComplete(g, n) =
          DataMoved(g, n, mode, StatusStage(h, last, lastMode))
    BY <1>2 DEF OnTransferComplete, StatusIn, StatusOf, StatusMode, DataMode
  <1>4. DataMoved(g, n, mode, StatusStage(h, last, lastMode)) =
          IF n > g.ep.m_nBytesLeft THEN Fail(g)
          ELSE IF h.ep.m_nBytesLeft = 0 THEN StatusStage(h, last, lastMode)
          ELSE NextPacket(k, mode)
    BY Zenon DEF DataMoved
  <1>5. h = [g EXCEPT !.ep.m_nBytesLeft = rest]
    BY <1>1, <1>2
  <1> HIDE DEF h, mode, last, lastMode
  <1>6. h = Driver(Endpoint(st, rest, ptr, "Unknown", setup, out, served, f), a, s)
    BY <1>5, Fields
  <1>7. h.ep.m_nBytesLeft = rest /\ h.ep.m_pBufPtr = ptr
    BY <1>6, Fields
  <1>8. k = [h EXCEPT !.ep.m_pBufPtr = next]
    BY <1>1, <1>7
  <1> HIDE DEF k
  <1>9. k = Driver(Endpoint(st, rest, next, "Unknown", setup, out, served, f), a, s)
    BY <1>6, <1>8, Fields
  <1>10. StatusStage(h, last, lastMode)
          = Driver(Endpoint(last, rest, ptr, lastMode, setup, out, served, f),
                   Transfer(lastMode, 0, 0), s)
    BY <1>6, StatusStageIs
  <1>11. NextPacket(k, mode)
          = Driver(Endpoint(st, rest, next, mode, setup, out, served, f),
                   Transfer(mode, next, Lesser(rest, MaxPacket)), s)
    BY <1>1, <1>9, NextPacketIs
  <1> QED
    BY <1>1, <1>2, <1>3, <1>4, <1>7, <1>10, <1>11 DEF mode, last, lastMode

\* OnTransferComplete of a status stage waits for the next SETUP packet.
LEMMA OnStatusIs ==
  ASSUME NEW left, NEW ptr, NEW setup, NEW out, NEW served,
         NEW f, NEW a, NEW s, NEW n, NEW st \in {"InStatus", "OutStatus"}, NEW g,
         g = Driver(Endpoint(st, left, ptr, "Unknown", setup, out, served, f), a, s)
  PROVE  \E now \in {served, setup} :
           OnTransferComplete(g, n) =
             Driver(Endpoint("Idle", left, ptr, "SetupOut", setup, out, now, f),
                    Transfer("SetupOut", 0, 0), s)
  <1> DEFINE idle == [g EXCEPT !.ep.m_State = "Idle"]
  <1>1. g.ep.m_State = st
    BY Fields
  <1>2. idle = Driver(Endpoint("Idle", left, ptr, "Unknown", setup, out, served, f), a, s)
    BY Fields
  <1>3. \/ OnTransferComplete(g, n) = Rearm(idle)
        \/ OnTransferComplete(g, n) = Rearm(Served(idle))
    BY <1>1 DEF OnTransferComplete
  <1> HIDE DEF idle
  <1>4. Served(idle)
          = Driver(Endpoint("Idle", left, ptr, "Unknown", setup, out, setup, f), a, s)
    <2>1. idle.ep.m_SetupData = setup
      BY <1>2, Fields
    <2>2. [idle EXCEPT !.ep.served = setup]
            = Driver(Endpoint("Idle", left, ptr, "Unknown", setup, out, setup, f), a, s)
      BY <1>2, Fields
    <2> QED
      BY <2>1, <2>2 DEF Served
  <1> QED
    BY <1>2, <1>3, <1>4, RearmIs

-----------------------------------------------------------------------------
(* The bytes moved.                                                        *)

\* The next n bytes of the buffer follow those moved so far.
LEMMA AppendOffsets ==
  ASSUME moved \in Seq(0..BufferSize - 1), BytesInOrder,
         NEW ptr, ptr = Len(moved), NEW n \in Nat, ptr + n <= BufferSize
  PROVE  /\ moved \o Offsets(ptr, n) \in Seq(0..BufferSize - 1)
         /\ Len(moved \o Offsets(ptr, n)) = ptr + n
         /\ \A i \in 1..ptr + n : (moved \o Offsets(ptr, n))[i] = i - 1
  <1> DEFINE o == Offsets(ptr, n)
             m == moved \o o
  <1>1. ptr \in Nat
    OBVIOUS
  <1>2. o \in Seq(0..BufferSize - 1) /\ Len(o) = n
    BY <1>1, LimitFacts DEF Offsets
  <1>3. \A i \in 1..n : o[i] = ptr + i - 1
    BY DEF Offsets
  <1> HIDE DEF o
  <1>4. m \in Seq(0..BufferSize - 1) /\ Len(m) = ptr + n
    BY <1>2, ConcatProperties, SMTT(60) DEF o
  <1>5. ASSUME NEW i \in 1..Len(m) PROVE m[i] = i - 1
    <2>1. CASE i <= ptr
      <3>1. m[i] = moved[i]
        BY <1>1, <1>2, <1>4, <2>1 DEF o
      <3> QED
        BY <2>1, <3>1 DEF BytesInOrder
    <2>2. CASE i > ptr
      <3>1. m[i] = o[i - ptr]
        BY <1>1, <1>2, <1>4, <2>2 DEF o
      <3>2. i - ptr \in 1..n
        BY <1>1, <1>4, <2>2
      <3> QED
        BY <1>1, <1>3, <3>1, <3>2
    <2> QED
      BY <1>1, <1>4, <2>1, <2>2
  <1> HIDE DEF m
  <1>6. \A i \in 1..ptr + n : m[i] = i - 1
    BY <1>4, <1>5
  <1> QED
    BY <1>4, <1>6 DEF m, o

-----------------------------------------------------------------------------
(* Steps.                                                                  *)

\* EP0 begins with a transfer armed for a SETUP packet.
LEMMA InitIInv == Init => IInv
  <1> SUFFICES ASSUME Init PROVE IInv
    OBVIOUS
  <1>1. AnyRequest \in Requests
    BY DEF AnyRequest, Requests
  <1>2. TypeOK
    BY <1>1, LimitFacts DEF Init, TypeOK, Modes, NoTransfer, NoDone
  <1>3. NoAssertFails /\ BytesInOrder /\ ServesTheHostsRequest
    BY LimitFacts DEF Init, NoAssertFails, BytesInOrder, ServesTheHostsRequest
  <1>4. armed = [mode |-> "SetupOut", ptr |-> 0, len |-> 0]
    BY <1>2 DEF Init, TypeOK, NoTransfer
  <1>5. ep.m_State = "Idle" /\ ep.m_TransferMode = "SetupOut"
    BY Zenon DEF Init
  <1>6. host.phase = "idle" /\ done = NoDone
    BY DEF Init
  <1>7. Waiting
    BY <1>4, <1>5, <1>6 DEF Waiting, Begun
  <1> QED
    BY <1>2, <1>3, <1>7 DEF IInv

\* The state that an operation of the driver leaves behind.
LEMMA DriverStep ==
  ASSUME NEW st, NEW left, NEW ptr, NEW mode, NEW setup, NEW out, NEW served,
         NEW f, NEW a, NEW s,
         Becomes(Driver(Endpoint(st, left, ptr, mode, setup, out, served, f), a, s))
  PROVE  /\ ep' = Endpoint(st, left, ptr, mode, setup, out, served, f)
         /\ armed' = a /\ stalled' = s
         /\ ep'.m_State = st /\ ep'.m_nBytesLeft = left /\ ep'.m_pBufPtr = ptr
         /\ ep'.m_TransferMode = mode /\ ep'.m_SetupData = setup
         /\ ep'.served = served /\ ep'.failed = f
  BY DEF Becomes, Driver, Endpoint

EndpointStates == {"Idle", "InData", "OutData", "InStatus", "OutStatus"}

\* What TypeOK and NoAssertFails say of that state.
LEMMA DriverType ==
  ASSUME TypeOK, NoAssertFails, ep'.failed = ep.failed,
         NEW st, NEW left, NEW ptr, NEW mode, NEW setup, NEW served, NEW p, NEW len,
         st \in EndpointStates, left \in 0..BufferSize, ptr \in 0..BufferSize,
         mode \in Modes, setup \in Requests, served \in Requests \cup {NoRequest},
         p \in 0..BufferSize, len \in 0..TransferLimit,
         ep' = Endpoint(st, left, ptr, mode, setup, ep.out, served, ep.failed),
         armed' = Transfer(mode, p, len), stalled' \in SUBSET {"In", "Out"},
         done' \in [mode : Modes, bytes : 0..MaxPacket],
         moved' \in Seq(0..BufferSize - 1),
         host' \in [phase : {"idle", "inData", "outData", "inStatus", "outStatus"},
                    req : Requests, left : 0..MaxLength]
  PROVE  TypeOK' /\ NoAssertFails'
  <1>1. ep.out \in Requests \cup {Overwritten} /\ ep.failed \in BOOLEAN
    BY DEF TypeOK
  <1>2. ep' \in [m_State : EndpointStates,
                 m_nBytesLeft : 0..BufferSize, m_pBufPtr : 0..BufferSize,
                 m_TransferMode : Modes, m_SetupData : Requests,
                 out : Requests \cup {Overwritten},
                 served : Requests \cup {NoRequest}, failed : BOOLEAN]
    BY <1>1 DEF Endpoint
  <1>3. armed' \in [mode : Modes, ptr : 0..BufferSize, len : 0..TransferLimit]
    BY DEF Transfer
  <1>4. NoAssertFails'
    BY DEF NoAssertFails
  <1> QED
    BY <1>2, <1>3, <1>4 DEF TypeOK, EndpointStates

\* A SETUP packet is answered with the first transfer of the next stage.
LEMMA HandleSetup == IInv /\ SetupReceived /\ Handle => IInv'
  <1> SUFFICES ASSUME IInv, SetupReceived, Handle PROVE IInv'
    OBVIOUS
  <1> DEFINE r == ep.out
             g == Finished
             c == OnControlMessage(g)
             zero == 0
  <1>1. TypeOK /\ NoAssertFails /\ BytesInOrder /\ ServesTheHostsRequest
    BY DEF IInv
  <1>2. /\ ep.m_State = "Idle" /\ ep.m_TransferMode = "SetupOut"
        /\ done.mode = "SetupOut" /\ host.req = r /\ moved = <<>> /\ stalled = {}
        /\ host.phase = FirstPhase(r) /\ host.left = r.wLength
    BY DEF SetupReceived, Completed
  <1>3. r \in Requests
    BY <1>1, <1>2 DEF TypeOK
  <1>4. g = Driver(Endpoint("Idle", ep.m_nBytesLeft, ep.m_pBufPtr, "Unknown",
                            ep.m_SetupData, r, ep.served, ep.failed), armed, stalled)
    BY <1>1, <1>2, FinishedIs
  <1>5. /\ Becomes(c) /\ done' = NoDone /\ moved' = moved /\ host' = host
    BY <1>2 DEF Handle
  <1>6. /\ ep.m_nBytesLeft \in 0..BufferSize /\ ep.m_pBufPtr \in 0..BufferSize
        /\ ep.served \in Requests \cup {NoRequest}
        /\ Len(moved) = 0
    BY <1>1, <1>2 DEF TypeOK
  <1>7. /\ done' \in [mode : Modes, bytes : 0..MaxPacket]
        /\ moved' \in Seq(0..BufferSize - 1)
        /\ host' \in [phase : {"idle", "inData", "outData", "inStatus", "outStatus"},
                      req : Requests, left : 0..MaxLength]
    BY <1>1, <1>5, LimitFacts DEF TypeOK, NoDone, Modes
  <1>8. BytesInOrder'
    BY <1>1, <1>5 DEF BytesInOrder
  <1>9. zero \in 0..BufferSize /\ zero \in 0..TransferLimit /\ zero = 0
    BY LimitFacts
  <1> HIDE DEF g, c, zero
  <1>10. ASSUME r.kind \in InKinds, NEW n, n = AnswerLength(r), n > 0,
                NEW len, len = Lesser(n, MaxPacket),
                c = Driver(Endpoint("InData", n, zero, "DataIn",
                                    r, r, ep.served, ep.failed),
                           Transfer("DataIn", zero, len), stalled)
         PROVE  IInv'
    <2>1. n \in 0..BufferSize /\ len \in 0..TransferLimit
      BY <1>3, <1>10, AnswerLengthFacts, PacketFits, LimitFacts
    <2>2. /\ ep' = Endpoint("InData", n, zero, "DataIn", r, r, ep.served, ep.failed)
          /\ armed' = Transfer("DataIn", zero, len) /\ stalled' = stalled
          /\ ep'.m_State = "InData" /\ ep'.m_nBytesLeft = n
          /\ ep'.m_pBufPtr = zero /\ ep'.m_TransferMode = "DataIn"
          /\ ep'.m_SetupData = r /\ ep'.served = ep.served /\ ep'.failed = ep.failed
      BY <1>5, <1>10, DriverStep
    <2>3. TypeOK' /\ NoAssertFails'
      BY <1>1, <1>2, <1>3, <1>6, <1>7, <1>9, <2>1, <2>2, DriverType
         DEF Modes, EndpointStates
    <2>4. host.phase = "inData"
      BY <1>2, <1>3, <1>10, Kinds DEF FirstPhase
    <2>5. InData'
      BY <1>2, <1>3, <1>5, <1>6, <1>9, <1>10, <2>1, <2>2, <2>4, Kinds, LimitFacts
         DEF InData, DataLeft, DataLength, Begun, Serving, Packet, Transfer
    <2> QED
      BY <1>1, <1>2, <1>5, <1>8, <2>2, <2>3, <2>5 DEF IInv, ServesTheHostsRequest
  <1>11. ASSUME r.kind = "ClassOut", NEW n, n = r.wLength, n > 0, Fits(r),
                NEW len, len = Lesser(n, MaxPacket),
                c = Driver(Endpoint("OutData", n, zero, "DataOut",
                                    r, r, ep.served, ep.failed),
                           Transfer("DataOut", zero, len), stalled)
         PROVE  IInv'
    <2>1. n \in 0..BufferSize /\ len \in 0..TransferLimit
      BY <1>3, <1>11, Kinds, PacketFits, LimitFacts DEF Fits
    <2>2. /\ ep' = Endpoint("OutData", n, zero, "DataOut", r, r, ep.served, ep.failed)
          /\ armed' = Transfer("DataOut", zero, len) /\ stalled' = stalled
          /\ ep'.m_State = "OutData" /\ ep'.m_nBytesLeft = n
          /\ ep'.m_pBufPtr = zero /\ ep'.m_TransferMode = "DataOut"
          /\ ep'.m_SetupData = r /\ ep'.served = ep.served /\ ep'.failed = ep.failed
      BY <1>5, <1>11, DriverStep
    <2>3. TypeOK' /\ NoAssertFails'
      BY <1>1, <1>2, <1>3, <1>6, <1>7, <1>9, <2>1, <2>2, DriverType
         DEF Modes, EndpointStates
    <2>4. host.phase = "outData" /\ r.kind \notin InKinds
      BY <1>2, <1>11 DEF FirstPhase, InKinds
    <2>5. OutData'
      BY <1>2, <1>3, <1>5, <1>6, <1>9, <1>11, <2>1, <2>2, <2>4, LimitFacts
         DEF OutData, DataLeft, DataLength, Begun, Serving, Packet, Transfer
    <2> QED
      BY <1>1, <1>2, <1>5, <1>8, <2>2, <2>3, <2>5 DEF IInv, ServesTheHostsRequest
  <1>12. ASSUME r.kind \in {"ClassOut", "StandardOut"}, r.wLength = 0,
                c = Driver(Endpoint("InStatus", ep.m_nBytesLeft, ep.m_pBufPtr,
                                    "DataIn", r, r, ep.served, ep.failed),
                           Transfer("DataIn", zero, zero), stalled)
         PROVE  IInv'
    <2>2. /\ ep' = Endpoint("InStatus", ep.m_nBytesLeft, ep.m_pBufPtr, "DataIn",
                            r, r, ep.served, ep.failed)
          /\ armed' = Transfer("DataIn", zero, zero) /\ stalled' = stalled
          /\ ep'.m_State = "InStatus" /\ ep'.m_TransferMode = "DataIn"
          /\ ep'.m_SetupData = r /\ ep'.served = ep.served /\ ep'.failed = ep.failed
      BY <1>5, <1>12, DriverStep
    <2>3. TypeOK' /\ NoAssertFails'
      BY <1>1, <1>2, <1>3, <1>6, <1>7, <1>9, <2>2, DriverType
         DEF Modes, EndpointStates
    <2>4. host.phase = "inStatus" /\ r.kind \notin InKinds
      BY <1>2, <1>12 DEF FirstPhase, InKinds
    <2>5. InStatus'
      BY <1>2, <1>5, <1>6, <1>9, <1>12, <2>2, <2>4
         DEF InStatus, DataLength, Begun, Serving, Transfer
    <2> QED
      BY <1>1, <1>2, <1>5, <1>8, <2>2, <2>3, <2>5 DEF IInv, ServesTheHostsRequest
  <1>13. ASSUME NEW dir \in {"In", "Out"},
                dir = "Out" => r.kind = "ClassOut" /\ r.wLength > 0,
                dir = "In" => r.kind # "ClassOut",
                NEW s, s = Also(stalled, dir),
                c = Driver(Endpoint("Idle", ep.m_nBytesLeft, ep.m_pBufPtr,
                                    "SetupOut", r, r, ep.served, ep.failed),
                           Transfer("SetupOut", zero, zero), s)
         PROVE  IInv'
    <2>1. s \in SUBSET {"In", "Out"} /\ dir \in s
      BY <1>2, <1>13 DEF Also
    <2>2. /\ ep' = Endpoint("Idle", ep.m_nBytesLeft, ep.m_pBufPtr, "SetupOut",
                            r, r, ep.served, ep.failed)
          /\ armed' = Transfer("SetupOut", zero, zero) /\ stalled' = s
          /\ ep'.m_State = "Idle" /\ ep'.m_TransferMode = "SetupOut"
          /\ ep'.served = ep.served /\ ep'.failed = ep.failed
      BY <1>5, <1>13, DriverStep
    <2>3. TypeOK' /\ NoAssertFails'
      BY <1>1, <1>2, <1>3, <1>6, <1>7, <1>9, <2>1, <2>2, DriverType
         DEF Modes, EndpointStates
    <2>4. host.phase # "outStatus" /\ Direction = dir
      BY <1>2, <1>3, <1>13, Kinds DEF FirstPhase, Direction, InKinds
    <2>5. Waiting'
      BY <1>5, <1>9, <2>1, <2>2, <2>4 DEF Waiting, Begun, Direction, Transfer
    <2> QED
      BY <1>1, <1>2, <1>5, <1>8, <2>2, <2>3, <2>5 DEF IInv, ServesTheHostsRequest
  <1>14. \/ /\ r.kind \in InKinds /\ AnswerLength(r) > 0
            /\ c = Driver(Endpoint("InData", AnswerLength(r), 0, "DataIn",
                                   r, r, ep.served, ep.failed),
                          Transfer("DataIn", 0, Lesser(AnswerLength(r), MaxPacket)), stalled)
         \/ /\ r.kind = "ClassOut" /\ r.wLength > 0 /\ Fits(r)
            /\ c = Driver(Endpoint("OutData", r.wLength, 0, "DataOut",
                                   r, r, ep.served, ep.failed),
                          Transfer("DataOut", 0, Lesser(r.wLength, MaxPacket)), stalled)
         \/ /\ r.kind \in {"ClassOut", "StandardOut"} /\ r.wLength = 0
            /\ c = Driver(Endpoint("InStatus", ep.m_nBytesLeft, ep.m_pBufPtr,
                                   "DataIn", r, r, ep.served, ep.failed),
                          Transfer("DataIn", 0, 0), stalled)
         \/ \E dir \in {"In", "Out"} :
              /\ dir = "Out" => r.kind = "ClassOut" /\ r.wLength > 0
              /\ dir = "In" => r.kind # "ClassOut"
              /\ c = Driver(Endpoint("Idle", ep.m_nBytesLeft, ep.m_pBufPtr,
                                     "SetupOut", r, r, ep.served, ep.failed),
                            Transfer("SetupOut", 0, 0), Also(stalled, dir))
    BY <1>3, <1>4, OnControlMessageIs DEF c
  <1>15. CASE \E dir \in {"In", "Out"} :
                /\ dir = "Out" => r.kind = "ClassOut" /\ r.wLength > 0
                /\ dir = "In" => r.kind # "ClassOut"
                /\ c = Driver(Endpoint("Idle", ep.m_nBytesLeft, ep.m_pBufPtr,
                                       "SetupOut", r, r, ep.served, ep.failed),
                              Transfer("SetupOut", 0, 0), Also(stalled, dir))
    <2>1. PICK dir \in {"In", "Out"} :
                /\ dir = "Out" => r.kind = "ClassOut" /\ r.wLength > 0
                /\ dir = "In" => r.kind # "ClassOut"
                /\ c = Driver(Endpoint("Idle", ep.m_nBytesLeft, ep.m_pBufPtr,
                                       "SetupOut", r, r, ep.served, ep.failed),
                              Transfer("SetupOut", 0, 0), Also(stalled, dir))
      BY <1>15
    <2> DEFINE s == Also(stalled, dir)
    <2>2. c = Driver(Endpoint("Idle", ep.m_nBytesLeft, ep.m_pBufPtr,
                              "SetupOut", r, r, ep.served, ep.failed),
                     Transfer("SetupOut", 0, 0), s)
      BY <2>1
    <2>3. s = Also(stalled, dir)
      OBVIOUS
    <2> HIDE DEF s
    <2> QED
      BY <1>13, <2>1, <2>2, <2>3 DEF zero
  <1> QED
    BY <1>10, <1>11, <1>12, <1>14, <1>15, Zenon DEF zero

\* What every step of Handle but that of a SETUP packet begins with.
LEMMA HandleCompleted ==
  ASSUME IInv, Handle, NEW mode, mode \in {"DataIn", "DataOut"},
         NEW n, Completed(mode, n)
  PROVE  /\ Becomes(OnTransferComplete(Finished, n))
         /\ Finished = Driver(Endpoint(ep.m_State, ep.m_nBytesLeft, ep.m_pBufPtr,
                                       "Unknown", ep.m_SetupData, ep.out,
                                       ep.served, ep.failed), armed, stalled)
         /\ done' = NoDone /\ moved' = moved /\ host' = host
         /\ BytesInOrder'
         /\ done' \in [mode : Modes, bytes : 0..MaxPacket]
         /\ moved' \in Seq(0..BufferSize - 1)
         /\ host' \in [phase : {"idle", "inData", "outData", "inStatus", "outStatus"},
                       req : Requests, left : 0..MaxLength]
  <1>1. TypeOK /\ BytesInOrder
    BY DEF IInv
  <1>2. /\ ep.m_TransferMode # "Unknown"
        /\ done.mode = mode /\ done.bytes = n /\ mode # "SetupOut"
    BY DEF Completed
  <1>3. /\ Becomes(OnTransferComplete(Finished, n)) /\ done' = NoDone
        /\ moved' = moved /\ host' = host
    BY <1>2 DEF Handle
  <1>4. BytesInOrder'
    BY <1>1, <1>3 DEF BytesInOrder
  <1>5. done' \in [mode : Modes, bytes : 0..MaxPacket]
    BY <1>3, LimitFacts DEF NoDone, Modes
  <1> QED
    BY <1>1, <1>2, <1>3, <1>4, <1>5, FinishedIs DEF TypeOK

\* The completion of a packet takes the next one or ends the data stage.
LEMMA HandleData == IInv /\ (InData \/ OutData) /\ Handle => IInv'
  <1> SUFFICES ASSUME IInv, InData \/ OutData, Handle PROVE IInv'
    OBVIOUS
  <1>1. TypeOK /\ NoAssertFails /\ BytesInOrder /\ ServesTheHostsRequest
    BY DEF IInv
  <1> DEFINE left == ep.m_nBytesLeft
             ptr == ep.m_pBufPtr
             n == Packet
             rest == left - n
             next == ptr + n
             len == Lesser(rest, MaxPacket)
             zero == 0
             g == Finished
             c == OnTransferComplete(g, n)
             st == ep.m_State
             mode == DataMode(st)
             last == StatusOf(st)
             lastMode == StatusMode(st)
             kinds == IF st = "InData" THEN InKinds ELSE {"ClassOut"}
  <1>2. /\ st \in {"InData", "OutData"} /\ DataLeft /\ Completed(mode, n)
        /\ Serving(kinds, next)
    BY DEF Handle, InData, OutData, Begun, DataMode
  <1>3. /\ mode \in {"DataIn", "DataOut"} /\ lastMode \in Modes /\ mode \in Modes
        /\ st \in EndpointStates /\ last \in EndpointStates
    BY <1>2 DEF Modes, EndpointStates, DataMode, StatusOf, StatusMode
  <1>4. /\ left \in 0..BufferSize /\ left > 0 /\ ptr \in 0..BufferSize
        /\ ptr + left = DataLength /\ DataLength <= BufferSize
        /\ host.left = host.req.wLength - next
        /\ ep.m_SetupData \in Requests
        /\ ep.served \in Requests \cup {NoRequest}
        /\ stalled = {} /\ ep.m_SetupData = host.req /\ host.req.kind \in kinds
        /\ Len(moved) = next
    BY <1>1, <1>2 DEF TypeOK, DataLeft, Serving
  <1>5. n \in 0..left /\ n \in Nat /\ n > 0 /\ n <= MaxPacket
    BY <1>4, LimitFacts, PacketFits DEF Packet
  <1>6. /\ rest \in 0..BufferSize /\ next \in 0..BufferSize
        /\ len \in 0..TransferLimit /\ (rest = 0 <=> n = left)
        /\ next + rest = DataLength
        /\ n # left => n = MaxPacket /\ rest > 0
    <2>1. rest \in 0..BufferSize /\ next \in 0..BufferSize /\ rest \in Nat
          /\ (rest = 0 <=> n = left) /\ next + rest = DataLength
          /\ (n # left => rest > 0)
      BY <1>4, <1>5, LimitFacts, SMTT(60)
    <2>2. n # left => n = MaxPacket
      BY DEF Packet, Lesser
    <2> HIDE DEF rest, n
    <2> QED
      BY <2>1, <2>2, PacketFits
  <1>7. /\ Becomes(c)
        /\ g = Driver(Endpoint(st, left, ptr, "Unknown", ep.m_SetupData, ep.out,
                               ep.served, ep.failed), armed, stalled)
        /\ done' = NoDone /\ moved' = moved /\ host' = host
        /\ BytesInOrder'
        /\ done' \in [mode : Modes, bytes : 0..MaxPacket]
        /\ moved' \in Seq(0..BufferSize - 1)
        /\ host' \in [phase : {"idle", "inData", "outData", "inStatus", "outStatus"},
                      req : Requests, left : 0..MaxLength]
    BY <1>2, <1>3, HandleCompleted
  <1>8. zero \in 0..BufferSize /\ zero \in 0..TransferLimit /\ zero = 0
    BY LimitFacts
  <1>9. c = IF n = left
            THEN Driver(Endpoint(last, rest, ptr, lastMode, ep.m_SetupData, ep.out,
                                 ep.served, ep.failed),
                        Transfer(lastMode, zero, zero), stalled)
            ELSE Driver(Endpoint(st, rest, next, mode, ep.m_SetupData, ep.out,
                                 ep.served, ep.failed),
                        Transfer(mode, next, len), stalled)
    <2>1. left \in Nat /\ ptr \in Nat
      BY <1>4, LimitFacts
    <2>2. st \in {"InData", "OutData"}
      BY <1>2
    <2>3. n \in 0..left
      BY <1>5
    <2>4. g = Driver(Endpoint(st, left, ptr, "Unknown", ep.m_SetupData, ep.out,
                               ep.served, ep.failed), armed, stalled)
      BY <1>7
    <2> DEFINE setup == ep.m_SetupData
               out == ep.out
               served == ep.served
               f == ep.failed
    <2>5. g = Driver(Endpoint(st, left, ptr, "Unknown", setup, out, served, f),
                     armed, stalled)
      BY <2>4
    <2>6. rest \in Nat /\ rest + n = left /\ next \in Nat /\ next - n = ptr
      BY <1>5, <1>6, <2>1, LimitFacts
    <2> HIDE DEF n, g, left, ptr, setup, out, served, f, rest, next, st
    <2> QED
      BY <2>1, <2>2, <2>3, <2>5, <2>6, OnDataIs DEF setup, out, served, f
  <1>12. /\ st = "InData" => /\ mode = "DataIn" /\ last = "OutStatus"
                             /\ lastMode = "DataOut" /\ kinds = InKinds
         /\ st = "OutData" => /\ mode = "DataOut" /\ last = "InStatus"
                              /\ lastMode = "DataIn" /\ kinds = {"ClassOut"}
    BY DEF DataMode, StatusOf, StatusMode
  <1> HIDE DEF n, g, left, ptr, rest, next, len, zero, c, st, mode, last, lastMode, kinds
  <1>10. CASE n = left
    <2>1. /\ ep' = Endpoint(last, rest, ptr, lastMode, ep.m_SetupData, ep.out,
                            ep.served, ep.failed)
          /\ armed' = Transfer(lastMode, zero, zero) /\ stalled' = stalled
          /\ ep'.m_State = last /\ ep'.m_TransferMode = lastMode
          /\ ep'.m_SetupData = ep.m_SetupData
          /\ ep'.served = ep.served /\ ep'.failed = ep.failed
      BY <1>7, <1>9, <1>10, DriverStep
    <2>2. TypeOK' /\ NoAssertFails'
      BY <1>1, <1>3, <1>4, <1>6, <1>7, <1>8, <2>1, DriverType, SMTT(60)
    <2>3. Len(moved) = DataLength
      BY <1>4, <1>6, <1>10, LimitFacts
    <2>4. CASE st = "InData"
      <3>1. host.phase \in {"outStatus", "inData"}
        BY <1>2, <1>12, <2>4 DEF InData, OutData, st
      <3>2. OutStatus'
        <4>1. /\ ep'.m_State = "OutStatus" /\ ep'.m_TransferMode = "DataOut"
              /\ armed' = [mode |-> "DataOut", ptr |-> 0, len |-> 0]
          BY <1>8, <1>12, <2>1, <2>4 DEF Transfer
        <4>2. Serving(InKinds, DataLength)'
          BY <1>4, <1>7, <1>12, <2>1, <2>3, <2>4 DEF Serving, DataLength
        <4>3. DataLength' = DataLength /\ DataLength > 0
          BY <1>4, <1>7, LimitFacts DEF DataLength
        <4> QED
          BY <1>7, <3>1, <4>1, <4>2, <4>3 DEF OutStatus, Begun
      <3> QED
        BY <1>1, <1>7, <2>1, <2>2, <3>2 DEF IInv, ServesTheHostsRequest
    <2>5. CASE st = "OutData"
      <3>1. host.left = 0
        <4>1. host.req.kind = "ClassOut" /\ host.req \in Requests
          BY <1>2, <1>12, <1>4, <2>5
        <4>2. DataLength = host.req.wLength /\ host.req.wLength \in Nat
          BY <4>1, Kinds, LimitFacts DEF DataLength, InKinds
        <4>3. host.left = host.req.wLength - Len(moved) /\ Len(moved) = host.req.wLength
          BY <1>4, <2>3, <4>2
        <4> QED
          BY <4>2, <4>3
      <3>2. host.phase = "inStatus"
        BY <1>2, <1>12, <2>5, <3>1 DEF InData, OutData, Handle, Begun, st
      <3>3. InStatus'
        <4>1. /\ ep'.m_State = "InStatus" /\ ep'.m_TransferMode = "DataIn"
              /\ armed' = [mode |-> "DataIn", ptr |-> 0, len |-> 0]
          BY <1>8, <1>12, <2>1, <2>5 DEF Transfer
        <4>2. Serving({"ClassOut", "StandardOut"}, DataLength)'
          BY <1>4, <1>7, <1>12, <2>1, <2>3, <2>5 DEF Serving, DataLength
        <4> QED
          BY <1>7, <3>2, <4>1, <4>2 DEF InStatus, Begun
      <3> QED
        BY <1>1, <1>7, <2>1, <2>2, <3>3 DEF IInv, ServesTheHostsRequest
    <2> QED
      BY <1>2, <1>12, <2>4, <2>5
  <1>11. CASE n # left
    <2>1. /\ ep' = Endpoint(st, rest, next, mode, ep.m_SetupData, ep.out,
                            ep.served, ep.failed)
          /\ armed' = Transfer(mode, next, len) /\ stalled' = stalled
          /\ ep'.m_State = st /\ ep'.m_TransferMode = mode
          /\ ep'.m_nBytesLeft = rest /\ ep'.m_pBufPtr = next
          /\ ep'.m_SetupData = ep.m_SetupData
          /\ ep'.served = ep.served /\ ep'.failed = ep.failed
      BY <1>7, <1>9, <1>11, DriverStep
    <2>2. TypeOK' /\ NoAssertFails'
      BY <1>1, <1>3, <1>4, <1>6, <1>7, <2>1, DriverType
    <2>3. Packet' = len /\ DataLength' = DataLength
      BY <1>7, <2>1 DEF Packet, len, DataLength
    <2>4. DataLeft'
      BY <1>4, <1>6, <1>7, <1>11, <2>1, <2>3, LimitFacts DEF DataLeft
    <2>5. /\ ep'.m_TransferMode = mode /\ done' = NoDone
          /\ armed' = [mode |-> mode, ptr |-> ep'.m_pBufPtr, len |-> Packet']
      BY <1>7, <2>1, <2>3 DEF Transfer
    <2>6. host.left > 0
      <3>1. DataLength <= host.req.wLength
        <4>1. host.req \in Requests
          BY <1>4
        <4>2. CASE st = "InData"
          BY <1>2, <1>12, <1>4, <1>6, <1>11, <2>4, <4>1, <4>2, AnswerLengthFacts, LimitFacts
             DEF DataLength
        <4>3. CASE st = "OutData"
          BY <1>2, <1>12, <1>4, <4>1, <4>3, Kinds, LimitFacts DEF DataLength, InKinds
        <4> QED
          BY <1>2, <1>12, <4>2, <4>3
      <3>2. host.req.wLength \in Nat
        BY <1>4, Kinds, LimitFacts
      <3> QED
        BY <1>4, <1>6, <1>11, <3>1, <3>2, LimitFacts, SMTT(60)
    <2>7. CASE st = "InData"
      <3>1. host.phase = "inData"
        <4>1. host.phase = IF host.left = 0 \/ n < MaxPacket
                           THEN "outStatus" ELSE "inData"
          BY <1>2, <1>12, <2>7 DEF InData, OutData, Handle, Begun, n, st
        <4> QED
          BY <1>6, <1>11, <2>6, <4>1, LimitFacts
      <3>2. Serving(InKinds, ep.m_pBufPtr)'
        BY <1>4, <1>7, <1>12, <2>1, <2>7 DEF Serving
      <3>3. InData'
        BY <1>7, <1>12, <2>1, <2>4, <2>5, <2>7, <3>1, <3>2 DEF InData, Begun
      <3> QED
        BY <1>1, <1>7, <2>1, <2>2, <3>3 DEF IInv, ServesTheHostsRequest
    <2>8. CASE st = "OutData"
      <3>1. host.phase = "outData"
        BY <1>2, <1>12, <2>6, <2>8 DEF InData, OutData, Handle, Begun, st
      <3>2. Serving({"ClassOut"}, ep.m_pBufPtr)'
        BY <1>4, <1>7, <1>12, <2>1, <2>8 DEF Serving
      <3>3. OutData'
        BY <1>7, <1>12, <2>1, <2>4, <2>5, <2>8, <3>1, <3>2 DEF OutData, Begun
      <3> QED
        BY <1>1, <1>7, <2>1, <2>2, <3>3 DEF IInv, ServesTheHostsRequest
    <2> QED
      BY <1>2, <1>12, <2>7, <2>8
  <1> QED
    BY <1>10, <1>11

\* The completion of a status stage ends the control transfer.
LEMMA HandleStatus == IInv /\ (OutStatus \/ InStatus) /\ Handle => IInv'
  <1> SUFFICES ASSUME IInv, OutStatus \/ InStatus, Handle PROVE IInv'
    OBVIOUS
  <1> DEFINE st == ep.m_State
             g == Finished
             zero == 0
             c == OnTransferComplete(g, zero)
  <1>1. TypeOK /\ NoAssertFails /\ BytesInOrder /\ ServesTheHostsRequest
    BY DEF IInv
  <1>2. PICK mode \in {"DataIn", "DataOut"} : Completed(mode, zero)
    BY DEF Handle, OutStatus, InStatus, Begun
  <1>3. /\ st \in {"InStatus", "OutStatus"} /\ host.phase = "idle"
        /\ ep.m_SetupData = host.req
    BY DEF Handle, OutStatus, InStatus, Begun, Serving
  <1>4. /\ Becomes(c)
        /\ g = Driver(Endpoint(st, ep.m_nBytesLeft, ep.m_pBufPtr, "Unknown",
                               ep.m_SetupData, ep.out, ep.served, ep.failed),
                      armed, stalled)
        /\ done' = NoDone /\ moved' = moved /\ host' = host
        /\ BytesInOrder'
        /\ done' \in [mode : Modes, bytes : 0..MaxPacket]
        /\ moved' \in Seq(0..BufferSize - 1)
        /\ host' \in [phase : {"idle", "inData", "outData", "inStatus", "outStatus"},
                      req : Requests, left : 0..MaxLength]
    BY <1>2, HandleCompleted
  <1>5. zero \in 0..BufferSize /\ zero \in 0..TransferLimit /\ zero = 0
    BY LimitFacts
  <1> HIDE DEF st, g, zero
  <1>6. PICK now \in {ep.served, ep.m_SetupData} :
          c = Driver(Endpoint("Idle", ep.m_nBytesLeft, ep.m_pBufPtr, "SetupOut",
                              ep.m_SetupData, ep.out, now, ep.failed),
                     Transfer("SetupOut", zero, zero), stalled)
    BY <1>3, <1>4, OnStatusIs DEF zero
  <1> HIDE DEF c
  <1>7. /\ ep' = Endpoint("Idle", ep.m_nBytesLeft, ep.m_pBufPtr, "SetupOut",
                          ep.m_SetupData, ep.out, now, ep.failed)
        /\ armed' = Transfer("SetupOut", zero, zero) /\ stalled' = stalled
        /\ ep'.m_State = "Idle" /\ ep'.m_TransferMode = "SetupOut"
        /\ ep'.served = now /\ ep'.failed = ep.failed
    BY <1>4, <1>6, DriverStep
  <1>8. /\ ep.m_nBytesLeft \in 0..BufferSize /\ ep.m_pBufPtr \in 0..BufferSize
        /\ ep.m_SetupData \in Requests /\ now \in Requests \cup {NoRequest}
        /\ stalled \in SUBSET {"In", "Out"}
    BY <1>1 DEF TypeOK
  <1>9. TypeOK' /\ NoAssertFails'
    BY <1>1, <1>4, <1>5, <1>7, <1>8, DriverType DEF Modes, EndpointStates
  <1>10. ServesTheHostsRequest'
    BY <1>1, <1>3, <1>4, <1>6, <1>7 DEF ServesTheHostsRequest
  <1>11. Waiting'
    BY <1>3, <1>4, <1>5, <1>7 DEF Waiting, Begun, Transfer
  <1> QED
    BY <1>4, <1>9, <1>10, <1>11 DEF IInv

\* The handler of a completed transfer.
LEMMA HandleStep == IInv /\ Handle => IInv'
  <1> SUFFICES ASSUME IInv, Handle PROVE IInv'
    OBVIOUS
  <1>1. ~Waiting
    BY DEF Handle, Waiting, Begun
  <1> QED
    BY <1>1, HandleSetup, HandleData, HandleStatus DEF IInv

\* A bus reset forgets the transfer and waits for a SETUP packet.
LEMMA ResetStep == IInv /\ BusReset => IInv'
  <1> SUFFICES ASSUME IInv, BusReset PROVE IInv'
    OBVIOUS
  <1> DEFINE zero == 0
             idle == "Idle"
             unknown == "Unknown"
             g == [Whole EXCEPT !.ep.m_State = idle, !.ep.m_TransferMode = unknown]
             h == [Whole EXCEPT !.ep.m_State = idle]
             k == [h EXCEPT !.ep.m_TransferMode = unknown]
  <1>1. TypeOK /\ NoAssertFails /\ ServesTheHostsRequest
    BY DEF IInv
  <1>2. /\ Becomes(Rearm(g)) /\ done' = NoDone /\ moved' = <<>>
        /\ host' = [host EXCEPT !.phase = "idle", !.left = 0]
    BY Zenon DEF BusReset
  <1>3. host'.phase = "idle" /\ host'.req = host.req
        /\ host' \in [phase : {"idle", "inData", "outData", "inStatus", "outStatus"},
                      req : Requests, left : 0..MaxLength]
    <2>1. host \in [phase : {"idle", "inData", "outData", "inStatus", "outStatus"},
                    req : Requests, left : 0..MaxLength]
      BY <1>1 DEF TypeOK
    <2>2. 0 \in 0..MaxLength
      BY LimitFacts
    <2> QED
      BY <1>2, <2>1, <2>2
  <1>4. g = k
    BY <1>1, WholeIs DEF Driver, Endpoint
  <1> HIDE DEF g, h, idle, unknown
  <1>5. h = Driver(Endpoint(idle, ep.m_nBytesLeft, ep.m_pBufPtr, ep.m_TransferMode,
                            ep.m_SetupData, ep.out, ep.served, ep.failed),
                   armed, stalled)
    BY <1>1, WholeIs, Fields DEF h
  <1>6. g = Driver(Endpoint(idle, ep.m_nBytesLeft, ep.m_pBufPtr, unknown,
                            ep.m_SetupData, ep.out, ep.served, ep.failed),
                   armed, stalled)
    BY <1>4, <1>5, Fields
  <1>7. Rearm(g)
          = Driver(Endpoint(idle, ep.m_nBytesLeft, ep.m_pBufPtr, "SetupOut",
                            ep.m_SetupData, ep.out, ep.served, ep.failed),
                   Transfer("SetupOut", 0, 0), stalled)
    BY <1>6, RearmIs DEF unknown
  <1>8. zero \in 0..BufferSize /\ zero \in 0..TransferLimit /\ zero = 0
    BY LimitFacts
  <1>9. /\ ep' = Endpoint(idle, ep.m_nBytesLeft, ep.m_pBufPtr, "SetupOut",
                          ep.m_SetupData, ep.out, ep.served, ep.failed)
        /\ armed' = Transfer("SetupOut", zero, zero) /\ stalled' = stalled
        /\ ep'.m_State = idle /\ ep'.m_TransferMode = "SetupOut"
        /\ ep'.served = ep.served /\ ep'.failed = ep.failed
    BY <1>2, <1>7, DriverStep
  <1> HIDE DEF zero
  <1>10. /\ ep.m_nBytesLeft \in 0..BufferSize /\ ep.m_pBufPtr \in 0..BufferSize
         /\ ep.m_SetupData \in Requests /\ ep.served \in Requests \cup {NoRequest}
         /\ stalled \in SUBSET {"In", "Out"}
         /\ done' \in [mode : Modes, bytes : 0..MaxPacket]
         /\ moved' \in Seq(0..BufferSize - 1)
         /\ idle \in EndpointStates
    BY <1>1, <1>2, LimitFacts DEF TypeOK, NoDone, Modes, EndpointStates, idle
  <1>11. TypeOK' /\ NoAssertFails'
    BY <1>1, <1>3, <1>8, <1>9, <1>10, DriverType DEF Modes
  <1>12. BytesInOrder'
    BY <1>2, LimitFacts DEF BytesInOrder
  <1>13. Waiting'
    BY <1>2, <1>3, <1>8, <1>9 DEF Waiting, Begun, Transfer, idle
  <1> QED
    BY <1>1, <1>3, <1>9, <1>11, <1>12, <1>13 DEF IInv, ServesTheHostsRequest

\* The parts of TypeOK that the steps of the host change.
LEMMA TypeParts ==
  ASSUME TypeOK
  PROVE  /\ host \in [phase : {"idle", "inData", "outData", "inStatus", "outStatus"},
                      req : Requests, left : 0..MaxLength]
         /\ host.req \in Requests /\ host.left \in 0..MaxLength
         /\ moved \in Seq(0..BufferSize - 1)
         /\ armed.len \in 0..TransferLimit
         /\ NoTransfer \in [mode : Modes, ptr : 0..BufferSize, len : 0..TransferLimit]
  BY LimitFacts DEF TypeOK, NoTransfer, Modes

\* A SETUP packet begins the control transfer on both sides.
LEMMA SetupStep == IInv /\ HostSetup => IInv'
  <1> SUFFICES ASSUME IInv, HostSetup PROVE IInv'
    OBVIOUS
  <1>1. TypeOK /\ NoAssertFails
    BY DEF IInv
  <1>2. PICK r \in Requests :
          /\ host' = [req |-> r, left |-> r.wLength, phase |-> FirstPhase(r)]
          /\ ep' = [ep EXCEPT !.out = r, !.served = NoRequest]
          /\ moved' = <<>>
          /\ done' = [mode |-> "SetupOut", bytes |-> 0]
          /\ armed' = NoTransfer /\ stalled' = {}
    BY ZenonT(60) DEF HostSetup, FirstPhase
  <1>3. armed.mode = "SetupOut"
    BY DEF HostSetup, Phase
  <1>4. Waiting
    BY <1>3 DEF IInv, SetupReceived, InData, OutData, OutStatus, InStatus, Begun,
                Completed, NoTransfer
  <1>5. ep.m_State = "Idle" /\ ep.m_TransferMode = "SetupOut"
    BY <1>4 DEF Waiting, Begun
  <1>6. /\ ep' \in [m_State : {"Idle", "InData", "OutData", "InStatus", "OutStatus"},
                    m_nBytesLeft : 0..BufferSize, m_pBufPtr : 0..BufferSize,
                    m_TransferMode : Modes, m_SetupData : Requests,
                    out : Requests \cup {Overwritten},
                    served : Requests \cup {NoRequest}, failed : BOOLEAN]
        /\ ep'.m_State = "Idle" /\ ep'.m_TransferMode = "SetupOut"
        /\ ep'.out = r /\ ep'.served = NoRequest /\ ep'.failed = ep.failed
    BY <1>1, <1>2, <1>5 DEF TypeOK
  <1>7. /\ host'.req = r /\ host'.left = r.wLength /\ host'.phase = FirstPhase(r)
        /\ host' \in [phase : {"idle", "inData", "outData", "inStatus", "outStatus"},
                      req : Requests, left : 0..MaxLength]
    BY <1>2, Kinds DEF FirstPhase
  <1>8. done' \in [mode : Modes, bytes : 0..MaxPacket]
    BY <1>2, LimitFacts DEF Modes
  <1>9. TypeOK'
    BY <1>1, <1>2, <1>6, <1>7, <1>8, TypeParts DEF TypeOK
  <1>10. NoAssertFails' /\ BytesInOrder' /\ ServesTheHostsRequest'
    BY <1>1, <1>2, <1>6, LimitFacts DEF NoAssertFails, BytesInOrder, ServesTheHostsRequest
  <1>11. SetupReceived'
    BY <1>2, <1>6, <1>7 DEF SetupReceived, Completed
  <1> QED
    BY <1>9, <1>10, <1>11 DEF IInv

\* What the controller has moved of a data stage follows the bytes before.
LEMMA CompletePacket ==
  ASSUME IInv, DataLeft, NEW kinds, Serving(kinds, ep.m_pBufPtr),
         NEW mode, mode \in Modes, Begun(mode, ep.m_pBufPtr, Packet), Complete(Packet)
  PROVE  /\ armed' = NoTransfer /\ done' = [mode |-> mode, bytes |-> Packet]
         /\ armed' \in [mode : Modes, ptr : 0..BufferSize, len : 0..TransferLimit]
         /\ done' \in [mode : Modes, bytes : 0..MaxPacket]
         /\ moved' \in Seq(0..BufferSize - 1)
         /\ Len(moved') = ep.m_pBufPtr + Packet /\ BytesInOrder'
         /\ Packet \in 1..MaxPacket /\ Packet <= ep.m_nBytesLeft
  <1> DEFINE ptr == ep.m_pBufPtr
             n == Packet
  <1>1. TypeOK /\ BytesInOrder
    BY DEF IInv
  <1>2. /\ ep.m_nBytesLeft \in Nat /\ ep.m_nBytesLeft > 0 /\ ptr \in Nat
        /\ ptr + ep.m_nBytesLeft <= BufferSize
    BY <1>1, LimitFacts DEF TypeOK, DataLeft
  <1>3. n \in 1..MaxPacket /\ n <= ep.m_nBytesLeft /\ n \in Nat
    BY <1>2, PacketFits, LimitFacts DEF Packet
  <1>4. /\ armed.ptr = ptr /\ armed.mode = mode
        /\ moved' = moved \o Offsets(ptr, n)
        /\ done' = [mode |-> mode, bytes |-> n] /\ armed' = NoTransfer
    BY DEF Complete, Begun
  <1>5. ptr = Len(moved) /\ ptr + n <= BufferSize
    BY <1>2, <1>3, LimitFacts DEF Serving
  <1> HIDE DEF ptr, n
  <1>6. /\ moved' \in Seq(0..BufferSize - 1) /\ Len(moved') = ptr + n
        /\ \A i \in 1..Len(moved') : moved'[i] = i - 1
    <2>1. moved \in Seq(0..BufferSize - 1)
      BY <1>1 DEF TypeOK
    <2>2. /\ moved \o Offsets(ptr, n) \in Seq(0..BufferSize - 1)
          /\ Len(moved \o Offsets(ptr, n)) = ptr + n
          /\ \A i \in 1..ptr + n : (moved \o Offsets(ptr, n))[i] = i - 1
      BY <1>1, <1>3, <1>5, <2>1, AppendOffsets, Zenon
    <2> QED
      BY <1>4, <2>2
  <1>7. BytesInOrder'
    BY <1>5, <1>6 DEF BytesInOrder
  <1>8. done' \in [mode : Modes, bytes : 0..MaxPacket]
    BY <1>3, <1>4, LimitFacts
  <1> QED
    BY <1>1, <1>3, <1>4, <1>6, <1>7, <1>8, TypeParts DEF ptr, n

\* The host takes a packet of the answer.
LEMMA InDataStep == IInv /\ HostInData => IInv'
  <1> SUFFICES ASSUME IInv, HostInData PROVE IInv'
    OBVIOUS
  <1> DEFINE n == Packet
             ptr == ep.m_pBufPtr
             rest == host.left - Lesser(n, host.left)
  <1>1. TypeOK /\ NoAssertFails /\ ServesTheHostsRequest
    BY DEF IInv
  <1>2. /\ InData /\ Begun("DataIn", ptr, n) /\ Serving(InKinds, ptr)
        /\ host.phase = "inData"
    BY DEF IInv, HostInData, Phase, Waiting, SetupReceived, InData, OutData,
           OutStatus, InStatus, Begun, Completed, NoTransfer
  <1>3. /\ armed.len = n /\ Complete(n) /\ ep' = ep /\ stalled' = stalled
        /\ host' = [host EXCEPT
                      !.left = rest,
                      !.phase = IF rest = 0 \/ n < MaxPacket THEN "outStatus" ELSE @]
    BY <1>2 DEF HostInData, Begun
  <1>4. DataLeft /\ ep.m_State = "InData"
    BY <1>2 DEF InData
  <1>5. /\ armed' = NoTransfer /\ done' = [mode |-> "DataIn", bytes |-> n]
        /\ armed' \in [mode : Modes, ptr : 0..BufferSize, len : 0..TransferLimit]
        /\ done' \in [mode : Modes, bytes : 0..MaxPacket]
        /\ moved' \in Seq(0..BufferSize - 1)
        /\ Len(moved') = ptr + n /\ BytesInOrder'
        /\ n \in 1..MaxPacket /\ n <= ep.m_nBytesLeft
    <2>1. "DataIn" \in Modes
      BY DEF Modes
    <2> QED
      BY <1>2, <1>3, <1>4, <2>1, CompletePacket
  <1>6. /\ host.req \in Requests /\ host.req.kind \in InKinds
        /\ ep.m_nBytesLeft \in Nat /\ ptr \in Nat
        /\ ptr + ep.m_nBytesLeft = DataLength
        /\ host.left = host.req.wLength - ptr
        /\ host.left \in 0..MaxLength
    BY <1>1, <1>2, <1>4, TypeParts, LimitFacts, SMTT(60) DEF TypeOK, DataLeft, Serving
  <1>7. DataLength <= host.req.wLength /\ host.req.wLength \in Nat
    <2>1. AnswerLength(host.req) = DataLength /\ AnswerLength(host.req) > 0
      BY <1>4, <1>6 DEF DataLength, DataLeft
    <2> QED
      BY <1>6, <2>1, AnswerLengthFacts, LimitFacts
  <1>8. n <= host.left /\ n \in Nat
    <2>1. n \in Nat /\ n <= ep.m_nBytesLeft
      BY <1>5, LimitFacts
    <2> HIDE DEF n, ptr
    <2> QED
      BY <1>6, <1>7, <2>1
  <1>9. rest = host.req.wLength - (ptr + n) /\ rest \in 0..MaxLength
    BY <1>6, <1>7, <1>8, LimitFacts DEF Lesser
  <1> HIDE DEF n, ptr, rest
  <1>10. /\ host' \in [phase : {"idle", "inData", "outData", "inStatus", "outStatus"},
                       req : Requests, left : 0..MaxLength]
         /\ host'.left = rest /\ host'.req = host.req
         /\ host'.phase = IF rest = 0 \/ n < MaxPacket THEN "outStatus" ELSE "inData"
    BY <1>1, <1>2, <1>3, <1>9, TypeParts
  <1>11. TypeOK'
    BY <1>1, <1>3, <1>5, <1>10 DEF TypeOK
  <1>12. NoAssertFails' /\ ServesTheHostsRequest'
    BY <1>1, <1>3, <1>10 DEF NoAssertFails, ServesTheHostsRequest
  <1>13. DataLeft'
    BY <1>3, <1>4, <1>5, <1>9, <1>10 DEF DataLeft, DataLength
  <1>14. Completed("DataIn", Packet)' /\ Packet' = n
    BY <1>2, <1>3, <1>5 DEF Completed, Begun, Packet, n
  <1>15. Serving(InKinds, ep.m_pBufPtr + Packet)'
    BY <1>2, <1>3, <1>5, <1>10, <1>14 DEF Serving, ptr
  <1>16. InData'
    BY <1>3, <1>4, <1>10, <1>13, <1>14, <1>15 DEF InData
  <1> QED
    BY <1>5, <1>11, <1>12, <1>16 DEF IInv

\* The host sends a packet of its data.
LEMMA OutDataStep == IInv /\ HostOutData => IInv'
  <1> SUFFICES ASSUME IInv, HostOutData PROVE IInv'
    OBVIOUS
  <1> DEFINE n == Packet
             ptr == ep.m_pBufPtr
             rest == host.left - n
  <1>1. TypeOK /\ NoAssertFails /\ ServesTheHostsRequest
    BY DEF IInv
  <1>2. /\ OutData /\ Begun("DataOut", ptr, n) /\ Serving({"ClassOut"}, ptr)
        /\ host.phase = "outData"
    BY DEF IInv, HostOutData, Phase, Waiting, SetupReceived, InData, OutData,
           OutStatus, InStatus, Begun, Completed, NoTransfer
  <1>3. DataLeft /\ ep.m_State = "OutData" /\ armed.len = n
    BY <1>2 DEF OutData, Begun
  <1>4. /\ host.req \in Requests /\ host.req.kind = "ClassOut"
        /\ ep.m_nBytesLeft \in Nat /\ ep.m_nBytesLeft > 0 /\ ptr \in Nat
        /\ host.left = host.req.wLength - ptr
        /\ ptr + ep.m_nBytesLeft = DataLength
        /\ host.left \in 0..MaxLength
    BY <1>1, <1>2, <1>3, TypeParts, LimitFacts, SMTT(60) DEF TypeOK, DataLeft, Serving
  <1>5. host.left = ep.m_nBytesLeft /\ host.req.wLength \in Nat
    <2>1. DataLength = host.req.wLength /\ host.req.wLength \in Nat
      BY <1>4, Kinds, LimitFacts DEF DataLength, InKinds
    <2> QED
      BY <1>4, <2>1
  <1>6. Lesser(Lesser(host.left, MaxPacket), armed.len) = n
    BY <1>3, <1>5 DEF Lesser, Packet
  <1>7. /\ Complete(n) /\ ep' = [ep EXCEPT !.out = Overwritten] /\ stalled' = stalled
        /\ host' = [host EXCEPT !.left = rest,
                                !.phase = IF host.left = n THEN "inStatus" ELSE @]
    BY <1>1, <1>6, TypeParts DEF HostOutData
  <1>8. /\ armed' = NoTransfer /\ done' = [mode |-> "DataOut", bytes |-> n]
        /\ armed' \in [mode : Modes, ptr : 0..BufferSize, len : 0..TransferLimit]
        /\ done' \in [mode : Modes, bytes : 0..MaxPacket]
        /\ moved' \in Seq(0..BufferSize - 1)
        /\ Len(moved') = ptr + n /\ BytesInOrder'
        /\ n \in 1..MaxPacket /\ n <= ep.m_nBytesLeft
    <2>1. "DataOut" \in Modes
      BY DEF Modes
    <2> QED
      BY <1>2, <1>3, <1>7, <2>1, CompletePacket
  <1>9. /\ rest = host.req.wLength - (ptr + n) /\ rest \in 0..MaxLength
        /\ (rest = 0 <=> host.left = n)
    <2>1. n \in Nat /\ n <= ep.m_nBytesLeft
      BY <1>8, LimitFacts
    <2> HIDE DEF n, ptr
    <2> QED
      BY <1>4, <1>5, <2>1, LimitFacts
  <1> HIDE DEF n, ptr, rest
  <1>10. /\ host' \in [phase : {"idle", "inData", "outData", "inStatus", "outStatus"},
                       req : Requests, left : 0..MaxLength]
         /\ host'.left = rest /\ host'.req = host.req
         /\ host'.phase = IF rest = 0 THEN "inStatus" ELSE "outData"
    BY <1>1, <1>2, <1>7, <1>9, TypeParts
  <1>11. /\ ep' \in [m_State : {"Idle", "InData", "OutData", "InStatus", "OutStatus"},
                     m_nBytesLeft : 0..BufferSize, m_pBufPtr : 0..BufferSize,
                     m_TransferMode : Modes, m_SetupData : Requests,
                     out : Requests \cup {Overwritten},
                     served : Requests \cup {NoRequest}, failed : BOOLEAN]
         /\ ep'.m_State = ep.m_State /\ ep'.m_TransferMode = ep.m_TransferMode
         /\ ep'.m_nBytesLeft = ep.m_nBytesLeft /\ ep'.m_pBufPtr = ep.m_pBufPtr
         /\ ep'.m_SetupData = ep.m_SetupData
         /\ ep'.served = ep.served /\ ep'.failed = ep.failed
    BY <1>1, <1>7 DEF TypeOK
  <1>12. TypeOK'
    BY <1>1, <1>7, <1>8, <1>10, <1>11 DEF TypeOK
  <1>13. NoAssertFails' /\ ServesTheHostsRequest'
    BY <1>1, <1>10, <1>11 DEF NoAssertFails, ServesTheHostsRequest
  <1>14. DataLeft'
    BY <1>3, <1>8, <1>9, <1>10, <1>11 DEF DataLeft, DataLength
  <1>15. Completed("DataOut", Packet)' /\ Packet' = n
    BY <1>2, <1>8, <1>11 DEF Completed, Begun, Packet, n
  <1>16. Serving({"ClassOut"}, ep.m_pBufPtr + Packet)'
    BY <1>2, <1>7, <1>8, <1>10, <1>11, <1>15 DEF Serving, ptr
  <1>17. OutData'
    BY <1>3, <1>10, <1>11, <1>14, <1>15, <1>16 DEF OutData
  <1> QED
    BY <1>8, <1>12, <1>13, <1>17 DEF IInv

\* The zero-length packet of a status stage ends the transfer for the host.
LEMMA StatusStep == IInv /\ HostStatus => IInv'
  <1> SUFFICES ASSUME IInv, HostStatus PROVE IInv'
    OBVIOUS
  <1>1. TypeOK /\ NoAssertFails /\ BytesInOrder /\ ServesTheHostsRequest
    BY DEF IInv
  <1>2. PICK mode \in {"DataIn", "DataOut"} :
          /\ Begun(mode, 0, 0)
          /\ \/ /\ mode = "DataOut" /\ ep.m_State = "OutStatus"
                /\ Serving(InKinds, DataLength) /\ DataLength > 0
             \/ /\ mode = "DataIn" /\ ep.m_State = "InStatus"
                /\ Serving({"ClassOut", "StandardOut"}, DataLength)
    BY DEF IInv, HostStatus, Phase, Waiting, SetupReceived, InData, OutData,
           OutStatus, InStatus, Begun, Completed, NoTransfer
  <1>3. /\ Complete(0) /\ host' = [host EXCEPT !.phase = "idle"]
        /\ ep' = ep /\ stalled' = stalled
    BY DEF HostStatus
  <1>4. moved' = moved
    <2>1. moved \in Seq(0..BufferSize - 1) /\ Len(moved) <= BufferSize
      BY <1>1, TypeParts DEF BytesInOrder
    <2>2. moved' = moved \o Offsets(0, 0)
      BY <1>2, <1>3 DEF Complete, Begun
    <2>3. Offsets(0, 0) = << >>
      BY DEF Offsets
    <2> QED
      BY <2>1, <2>2, <2>3, ConcatEmptySeq
  <1>5. /\ done' = [mode |-> mode, bytes |-> 0] /\ armed' = NoTransfer
        /\ done' \in [mode : Modes, bytes : 0..MaxPacket]
    BY <1>2, <1>3, LimitFacts DEF Complete, Begun, Modes
  <1>6. /\ host' \in [phase : {"idle", "inData", "outData", "inStatus", "outStatus"},
                      req : Requests, left : 0..MaxLength]
        /\ host'.phase = "idle" /\ host'.req = host.req
    BY <1>1, <1>3, TypeParts
  <1>7. TypeOK'
    BY <1>1, <1>3, <1>4, <1>5, <1>6, TypeParts DEF TypeOK
  <1>8. NoAssertFails' /\ BytesInOrder' /\ ServesTheHostsRequest'
    BY <1>1, <1>3, <1>4, <1>6 DEF NoAssertFails, BytesInOrder, ServesTheHostsRequest
  <1>9. Completed(mode, 0)'
    BY <1>2, <1>3, <1>5 DEF Completed, Begun
  <1>10. OutStatus' \/ InStatus'
    BY <1>2, <1>3, <1>4, <1>6, <1>9 DEF OutStatus, InStatus, Serving, DataLength
  <1> QED
    BY <1>7, <1>8, <1>10 DEF IInv

\* A STALL ends the transfer for the host; EP0 waits already.
LEMMA StallStep == IInv /\ HostSeesStall => IInv'
  <1> SUFFICES ASSUME IInv, HostSeesStall PROVE IInv'
    OBVIOUS
  <1>1. TypeOK /\ NoAssertFails /\ BytesInOrder /\ ServesTheHostsRequest
    BY DEF IInv
  <1>2. /\ host' = [host EXCEPT !.phase = "idle"] /\ stalled # {}
        /\ UNCHANGED <<ep, armed, stalled, done, moved>>
    BY DEF HostSeesStall
  <1>3. Waiting
    BY <1>2 DEF IInv, SetupReceived, InData, OutData, OutStatus, InStatus, Serving
  <1>4. /\ host' \in [phase : {"idle", "inData", "outData", "inStatus", "outStatus"},
                      req : Requests, left : 0..MaxLength]
        /\ host'.phase = "idle" /\ host'.req = host.req
    BY <1>1, <1>2, TypeParts
  <1>5. TypeOK' /\ NoAssertFails' /\ BytesInOrder' /\ ServesTheHostsRequest'
    BY <1>1, <1>2, <1>4
       DEF TypeOK, NoAssertFails, BytesInOrder, ServesTheHostsRequest
  <1>6. Waiting'
    BY <1>2, <1>3, <1>4 DEF Waiting, Begun
  <1> QED
    BY <1>5, <1>6 DEF IInv

\* A stuttering step.
LEMMA UnchangedStep == IInv /\ UNCHANGED vars => IInv'
  BY DEF IInv, TypeOK, NoAssertFails, BytesInOrder, ServesTheHostsRequest, Waiting,
         SetupReceived, InData, OutData, OutStatus, InStatus, Begun, Completed,
         Serving, DataLeft, DataLength, Packet, Direction, vars

\* Every step preserves the invariant.
LEMMA NextIInv == IInv /\ [Next]_vars => IInv'
  <1> SUFFICES ASSUME IInv, [Next]_vars PROVE IInv'
    OBVIOUS
  <1>1. CASE Handle
    BY <1>1, HandleStep
  <1>2. CASE BusReset
    BY <1>2, ResetStep
  <1>3. CASE HostSetup
    BY <1>3, SetupStep
  <1>4. CASE HostInData
    BY <1>4, InDataStep
  <1>5. CASE HostOutData
    BY <1>5, OutDataStep
  <1>6. CASE HostStatus
    BY <1>6, StatusStep
  <1>7. CASE HostSeesStall
    BY <1>7, StallStep
  <1>8. CASE UNCHANGED vars
    BY <1>8, UnchangedStep
  <1> QED
    BY <1>1, <1>2, <1>3, <1>4, <1>5, <1>6, <1>7, <1>8 DEF Next, HostGoesOn

\* For the host a data stage ends when all of the answer or of its data is moved.
LEMMA IInvWholeAnswer == IInv => WholeAnswer
  <1> SUFFICES ASSUME IInv PROVE WholeAnswer
    OBVIOUS
  <1>1. TypeOK /\ host.req \in Requests
    BY TypeParts DEF IInv
  <1>2. ASSUME host.phase = "outStatus" PROVE Len(moved) = Expected(host.req)
    <2>1. (InData /\ Completed("DataIn", Packet)) \/ OutStatus
      BY <1>1, <1>2, Kinds DEF IInv, Waiting, SetupReceived, FirstPhase, InData,
                               OutData, OutStatus, InStatus
    <2>2. host.req.kind \in InKinds
      BY <2>1 DEF InData, OutStatus, Serving
    <2>3. DataLength > 0
      <3>1. CASE InData
        BY <1>1, <3>1, LimitFacts, SMTT(60) DEF InData, DataLeft, TypeOK
      <3>2. CASE OutStatus
        BY <3>2 DEF OutStatus
      <3> QED
        BY <2>1, <3>1, <3>2
    <2>4. /\ DataLength = Expected(host.req) /\ DataLength \in Nat
          /\ DataLength <= host.req.wLength /\ host.req.wLength \in Nat
      <3>1. DataLength = AnswerLength(host.req) /\ AnswerLength(host.req) > 0
        BY <2>2, <2>3 DEF DataLength
      <3> QED
        BY <1>1, <2>2, <3>1, AnswerLengthFacts, LimitFacts
    <2>5. CASE InData /\ Completed("DataIn", Packet)
      <3>1. /\ ep.m_nBytesLeft \in Nat /\ ep.m_pBufPtr \in Nat
            /\ ep.m_pBufPtr + ep.m_nBytesLeft = DataLength
            /\ host.left = host.req.wLength - Len(moved)
        BY <1>1, <2>5, LimitFacts DEF InData, DataLeft, TypeOK
      <3>2. /\ Len(moved) = ep.m_pBufPtr + Packet
            /\ host.left = 0 \/ Packet < MaxPacket
        BY <1>2, <2>5 DEF InData, Begun, Completed, NoDone, Serving
      <3>3. /\ Packet \in Nat /\ Packet <= ep.m_nBytesLeft
            /\ Packet < MaxPacket => Packet = ep.m_nBytesLeft
        BY <3>1, LimitFacts DEF Packet, Lesser
      <3>4. Len(moved) = DataLength
        BY <2>4, <3>1, <3>2, <3>3, SMTT(60)
      <3> QED
        BY <2>4, <3>4
    <2>6. CASE OutStatus
      BY <2>4, <2>6 DEF OutStatus, Serving
    <2> QED
      BY <2>1, <2>5, <2>6
  <1>3. ASSUME host.req.kind = "ClassOut", host.phase = "inStatus", stalled = {}
        PROVE  Len(moved) = host.req.wLength
    <2>1. /\ host.req.wLength \in Nat /\ host.req.kind \notin InKinds
          /\ DataLength = host.req.wLength
      BY <1>1, <1>3, Kinds, LimitFacts DEF InKinds, DataLength
    <2>2. SetupReceived \/ OutData \/ InStatus
      BY <1>3, <2>1 DEF IInv, Waiting, InData, OutStatus, Serving
    <2>3. CASE SetupReceived
      BY <1>3, <2>1, <2>3 DEF SetupReceived, FirstPhase
    <2>4. CASE OutData
      <3>1. host.left = 0 /\ host.left = host.req.wLength - Len(moved)
        BY <1>3, <2>4 DEF OutData, DataLeft
      <3>2. Len(moved) \in Nat
        BY <1>1, TypeParts
      <3> QED
        BY <2>1, <3>1, <3>2
    <2>5. CASE InStatus
      BY <2>1, <2>5 DEF InStatus, Serving
    <2> QED
      BY <2>2, <2>3, <2>4, <2>5
  <1> QED
    BY <1>2, <1>3 DEF WholeAnswer

-----------------------------------------------------------------------------
(* Theorems.                                                               *)

\* For every packet size, buffer and answer: the driver, the controller and
\* the host are at the same point of the control transfer.
THEOREM IInvHolds == Spec => []IInv
  <1> QED
    BY InitIInv, NextIInv, PTL DEF Spec

\* Every variable keeps to its type; no transfer is longer than EP0 allows
\* and none begins outside the buffer.
THEOREM TypeCorrect == Spec => []TypeOK
  <1>1. IInv => TypeOK
    BY DEF IInv
  <1> QED
    BY <1>1, IInvHolds, PTL

\* The bytes of a data stage leave or enter the buffer from its first byte on,
\* each once and in order, however DataStage splits them into packets.
THEOREM BytesInOrderHolds == Spec => []BytesInOrder
  <1>1. IInv => BytesInOrder
    BY DEF IInv
  <1> QED
    BY <1>1, IInvHolds, PTL

\* A host that ends a data stage has had exactly the answer the gadget has for
\* its request, or has sent exactly the bytes it announced.
THEOREM WholeAnswerHolds == Spec => []WholeAnswer
  <1> QED
    BY IInvWholeAnswer, IInvHolds, PTL

\* No assert of the control transfer fails, whatever the host requests and
\* wherever it resets the bus.
THEOREM NoAssertFailsHolds == Spec => []NoAssertFails
  <1>1. IInv => NoAssertFails
    BY DEF IInv
  <1> QED
    BY <1>1, IInvHolds, PTL

\* OnClassOrVendorRequest serves the request the host has sent, although its
\* data has overwritten the SETUP packet in m_OutBuffer.
THEOREM ServesTheHostsRequestHolds == Spec => []ServesTheHostsRequest
  <1>1. IInv => ServesTheHostsRequest
    BY DEF IInv
  <1> QED
    BY <1>1, IInvHolds, PTL

-----------------------------------------------------------------------------
(* Every control transfer comes to its end.                                *)

\* What an answer leaves that ends on a packet boundary: packets before the
\* current one were full ones, and a host that still waits for data when EP0 has
\* none left waits for a zero-length packet.
PacketInv ==
    /\ ep.m_State = "InData" => \E k \in Nat : ep.m_pBufPtr = k * MaxPacket
    /\ ep.m_State = "OutStatus" /\ host.phase = "inData" => AwaitsZeroPacket

\* What is left to do of a control transfer: the SETUP packet, two steps for
\* each packet, of which there are no more than bytes, and the status stage.
TransferToGo ==
    CASE ep.m_State = "Idle" /\ done # NoDone -> 2 * BufferSize + 5
      [] ep.m_State = "Idle" /\ done = NoDone ->
             IF host.phase = "idle" THEN 0 ELSE 1
      [] ep.m_State \in {"InData", "OutData"} ->
             2 * ep.m_nBytesLeft + (IF done = NoDone THEN 4 ELSE 3)
      [] ep.m_State \in {"InStatus", "OutStatus"} ->
             IF done = NoDone THEN 3 ELSE 2

\* The completion of a transfer is not that of none.
LEMMA DoneFacts ==
  ASSUME NEW mode, mode \in {"SetupOut", "DataOut", "DataIn"}, NEW n
  PROVE  /\ NoDone # [mode |-> mode, bytes |-> n]
         /\ NoTransfer # [mode |-> mode, ptr |-> n, len |-> n]
  BY DEF NoDone, NoTransfer

\* Where the driver is, and what is left there.
LEMMA WaitingToGo ==
  ASSUME Waiting
  PROVE  /\ done = NoDone /\ TransferToGo = IF host.phase = "idle" THEN 0 ELSE 1
         /\ armed.mode = "SetupOut"
  BY DEF Waiting, Begun, TransferToGo

\* A SETUP packet that has come leaves everything to do.
LEMMA SetupToGo ==
  ASSUME SetupReceived
  PROVE  done # NoDone /\ TransferToGo = 2 * BufferSize + 5 /\ armed.mode # "SetupOut"
  BY DoneFacts DEF SetupReceived, Completed, TransferToGo, NoTransfer

\* A packet has at least one byte of those left, and is full unless it is the last.
LEMMA PacketOf ==
  ASSUME NEW n \in 1..BufferSize
  PROVE  /\ Lesser(n, MaxPacket) \in 1..n
         /\ Lesser(n, MaxPacket) <= MaxPacket /\ MaxPacket \in Nat
         /\ Lesser(n, MaxPacket) < n => Lesser(n, MaxPacket) = MaxPacket
  BY LimitFacts DEF Lesser

\* In a data stage: the packet on its way, and the bytes left, moved and asked for.
LEMMA DataToGo ==
  ASSUME IInv, InData \/ OutData
  PROVE  /\ ep.m_nBytesLeft \in 1..BufferSize /\ ep.m_pBufPtr \in Nat
         /\ Packet \in 1..ep.m_nBytesLeft /\ Packet <= MaxPacket /\ MaxPacket \in Nat
         /\ Packet = Lesser(ep.m_nBytesLeft, MaxPacket)
         /\ TransferToGo = 2 * ep.m_nBytesLeft + (IF done = NoDone THEN 4 ELSE 3)
         /\ Len(moved) = ep.m_pBufPtr + (IF done = NoDone THEN 0 ELSE Packet)
         /\ DataLength = ep.m_pBufPtr + ep.m_nBytesLeft
         /\ host.left = host.req.wLength - Len(moved)
         /\ armed.mode # "SetupOut" /\ stalled = {}
  <1>1. /\ ep.m_nBytesLeft \in 1..BufferSize /\ ep.m_pBufPtr \in Nat
        /\ DataLength = ep.m_pBufPtr + ep.m_nBytesLeft
        /\ host.left = host.req.wLength - Len(moved)
    BY LimitFacts DEF IInv, TypeOK, InData, OutData, DataLeft
  <1>2. /\ Packet \in 1..ep.m_nBytesLeft /\ Packet <= MaxPacket /\ MaxPacket \in Nat
        /\ Packet = Lesser(ep.m_nBytesLeft, MaxPacket)
    BY <1>1, PacketOf DEF Packet
  <1>3. TransferToGo = 2 * ep.m_nBytesLeft + (IF done = NoDone THEN 4 ELSE 3)
    BY DEF InData, OutData, TransferToGo
  <1>4. /\ Len(moved) = ep.m_pBufPtr + (IF done = NoDone THEN 0 ELSE Packet)
        /\ stalled = {}
    <2>1. CASE done = NoDone
      <3>1. ~Completed("DataIn", Packet) /\ ~Completed("DataOut", Packet)
        BY <2>1, DoneFacts DEF Completed
      <3>2. Len(moved) = ep.m_pBufPtr /\ stalled = {}
        BY <3>1 DEF InData, OutData, Serving
      <3> QED
        BY <1>1, <2>1, <3>2
    <2>2. CASE done # NoDone
      <3>1. ~Begun("DataIn", ep.m_pBufPtr, Packet) /\ ~Begun("DataOut", ep.m_pBufPtr, Packet)
        BY <2>2 DEF Begun
      <3>2. Len(moved) = ep.m_pBufPtr + Packet /\ stalled = {}
        BY <3>1 DEF InData, OutData, Serving
      <3> QED
        BY <2>2, <3>2
    <2> QED
      BY <2>1, <2>2
  <1>5. armed.mode # "SetupOut"
    BY DEF InData, OutData, Begun, Completed, NoTransfer
  <1> QED
    BY <1>1, <1>2, <1>3, <1>4, <1>5

\* In a status stage every byte has been moved.
LEMMA StatusToGo ==
  ASSUME OutStatus \/ InStatus
  PROVE  /\ TransferToGo = IF done = NoDone THEN 3 ELSE 2
         /\ done # NoDone <=> host.phase = "idle"
         /\ armed.mode # "SetupOut" /\ stalled = {}
         /\ Len(moved) = DataLength
  <1>1. TransferToGo = IF done = NoDone THEN 3 ELSE 2
    BY DEF OutStatus, InStatus, TransferToGo
  <1>2. done # NoDone <=> host.phase = "idle"
    BY DoneFacts DEF OutStatus, InStatus, Begun, Completed
  <1> QED
    BY <1>1, <1>2 DEF OutStatus, InStatus, Begun, Completed, Serving, NoTransfer

\* What is left at each point of a control transfer, in one formula: it holds
\* before a step and after it.
ToGoFacts ==
    /\ Waiting => TransferToGo \in 0..1 /\ (TransferToGo = 0 <=> host.phase = "idle")
    /\ SetupReceived => done # NoDone /\ TransferToGo = 2 * BufferSize + 5
    /\ InData \/ OutData =>
           /\ ep.m_nBytesLeft \in 1..BufferSize /\ ep.m_pBufPtr \in Nat
           /\ TransferToGo = 2 * ep.m_nBytesLeft + (IF done = NoDone THEN 4 ELSE 3)
           /\ Len(moved) = ep.m_pBufPtr + (IF done = NoDone THEN 0 ELSE Packet)
           /\ DataLength = ep.m_pBufPtr + ep.m_nBytesLeft
           /\ done = NoDone => host.phase # "idle"
    /\ OutStatus \/ InStatus =>
           /\ TransferToGo = IF done = NoDone THEN 3 ELSE 2
           /\ done # NoDone <=> host.phase = "idle"
           /\ Len(moved) = DataLength
    /\ Waiting \/ SetupReceived \/ InData \/ OutData \/ OutStatus \/ InStatus

\* These facts hold in every state of the inductive invariant.
LEMMA ToGoIs == IInv => ToGoFacts
  <1> SUFFICES ASSUME IInv PROVE ToGoFacts
    OBVIOUS
  <1>1. Waiting => TransferToGo \in 0..1 /\ (TransferToGo = 0 <=> host.phase = "idle")
    BY WaitingToGo
  <1>2. SetupReceived => done # NoDone /\ TransferToGo = 2 * BufferSize + 5
    BY SetupToGo
  <1>3. InData \/ OutData =>
           /\ ep.m_nBytesLeft \in 1..BufferSize /\ ep.m_pBufPtr \in Nat
           /\ TransferToGo = 2 * ep.m_nBytesLeft + (IF done = NoDone THEN 4 ELSE 3)
           /\ Len(moved) = ep.m_pBufPtr + (IF done = NoDone THEN 0 ELSE Packet)
           /\ DataLength = ep.m_pBufPtr + ep.m_nBytesLeft
    BY DataToGo
  <1>4. (InData \/ OutData) /\ done = NoDone => host.phase # "idle"
    BY DoneFacts DEF InData, OutData, Completed
  <1>5. OutStatus \/ InStatus =>
           /\ TransferToGo = IF done = NoDone THEN 3 ELSE 2
           /\ done # NoDone <=> host.phase = "idle"
           /\ Len(moved) = DataLength
    BY StatusToGo
  <1> QED
    BY <1>1, <1>2, <1>3, <1>4, <1>5 DEF IInv, ToGoFacts

\* What is left is bounded by the size of the buffer, and nothing is left exactly
\* when the host is idle and EP0 waits for a SETUP packet.
LEMMA ToGoBound ==
  ASSUME IInv
  PROVE  /\ TransferToGo \in 0..(2 * BufferSize + 5)
         /\ done = NoDone => TransferToGo < 2 * BufferSize + 5
         /\ TransferToGo = 0 <=> host.phase = "idle" /\ armed.mode = "SetupOut"
  <1>1. BufferSize \in Nat
    BY LimitFacts
  <1>2. CASE Waiting
    BY <1>1, <1>2, WaitingToGo
  <1>3. CASE SetupReceived
    BY <1>1, <1>3, SetupToGo
  <1>4. CASE InData \/ OutData
    <2>1. /\ ep.m_nBytesLeft \in 1..BufferSize
          /\ TransferToGo = 2 * ep.m_nBytesLeft + (IF done = NoDone THEN 4 ELSE 3)
          /\ armed.mode # "SetupOut"
      BY <1>4, DataToGo
    <2>2. PICK l \in Nat : l = ep.m_nBytesLeft /\ l > 0 /\ l <= BufferSize
      BY <1>1, <2>1
    <2>3. TransferToGo \in {2 * l + 3, 2 * l + 4}
      BY <2>1, <2>2
    <2> QED
      BY <1>1, <2>1, <2>2, <2>3, SMTT(60)
  <1>5. CASE OutStatus \/ InStatus
    BY <1>1, <1>5, StatusToGo
  <1> QED
    BY <1>2, <1>3, <1>4, <1>5 DEF IInv

\* Full packets make up a multiple of the packet size.
LEMMA Multiples ==
  ASSUME NEW k \in Nat
  PROVE  /\ k * MaxPacket + MaxPacket = (k + 1) * MaxPacket
         /\ (k * MaxPacket) % MaxPacket = 0
  <1>1. PICK p \in Nat \ {0} : p = MaxPacket
    BY LimitFacts
  <1>2. k * p + p = (k + 1) * p
    BY <1>1
  <1>3. (k * p) % p = 0
    BY <1>1
  <1> QED
    BY <1>1, <1>2, <1>3

\* What Handle leaves alone.
LEMMA HandleLeaves ==
  ASSUME Handle
  PROVE  /\ done # NoDone /\ done' = NoDone
         /\ moved' = moved /\ host' = host
         /\ Packet' = Lesser(ep'.m_nBytesLeft, MaxPacket) /\ DataLength' = DataLength
  BY DEF Handle, Packet, DataLength

\* Two steps for each packet are less than two for each byte.
LEMMA PacketCounts ==
  ASSUME NEW l \in Nat, NEW p \in Nat, NEW n \in Nat, NEW m \in Nat, NEW q \in Nat,
         n > 0, q = p + n, p + l = q + m
  PROVE  2 * m + 4 < 2 * l + 3 /\ (m > 0 => n < l)
  OBVIOUS

\* The handler of a completion: less is left.
LEMMA HandleCounts ==
  ASSUME IInv, IInv', Handle
  PROVE  TransferToGo' < TransferToGo
  <1>1. done # NoDone /\ done' = NoDone /\ moved' = moved /\ host' = host /\ DataLength' = DataLength
    BY HandleLeaves
  <1>2. ToGoFacts /\ BufferSize \in Nat
    BY ToGoIs, LimitFacts
  <1>3. ToGoFacts'
    BY ToGoIs, PTL
  <1>4. ~SetupReceived'
    BY <1>1, <1>3 DEF ToGoFacts
  <1>5. (InData \/ OutData)' =>
            /\ ep'.m_nBytesLeft \in 1..BufferSize /\ ep'.m_pBufPtr \in Nat
            /\ TransferToGo' = 2 * ep'.m_nBytesLeft + 4
            /\ Len(moved) = ep'.m_pBufPtr
            /\ DataLength = ep'.m_pBufPtr + ep'.m_nBytesLeft
            /\ host.phase # "idle"
    BY <1>1, <1>3 DEF ToGoFacts
  <1>6. (OutStatus \/ InStatus)' => TransferToGo' = 3 /\ host.phase # "idle"
    BY <1>1, <1>3 DEF ToGoFacts
  <1>7. Waiting' => TransferToGo' \in 0..1
    BY <1>3 DEF ToGoFacts
  <1>8. (Waiting \/ InData \/ OutData \/ OutStatus \/ InStatus)'
    BY <1>3, <1>4 DEF ToGoFacts
  <1>9. CASE SetupReceived
    <2>1. TransferToGo = 2 * BufferSize + 5
      BY <1>2, <1>9 DEF ToGoFacts
    <2> QED
      BY <1>2, <1>5, <1>6, <1>7, <1>8, <2>1
  <1>10. CASE InData \/ OutData
    <2>1. /\ ep.m_nBytesLeft \in 1..BufferSize /\ ep.m_pBufPtr \in Nat
          /\ TransferToGo = 2 * ep.m_nBytesLeft + 3
          /\ Len(moved) = ep.m_pBufPtr + Packet
          /\ DataLength = ep.m_pBufPtr + ep.m_nBytesLeft
          /\ Packet \in 1..ep.m_nBytesLeft
      BY <1>1, <1>2, <1>10, DataToGo DEF ToGoFacts
    <2>2. CASE (InData \/ OutData)'
      <3>1. PICK l \in Nat, p \in Nat, n \in Nat :
               /\ l = ep.m_nBytesLeft /\ p = ep.m_pBufPtr /\ n = Packet /\ n > 0
               /\ TransferToGo = 2 * l + 3 /\ Len(moved) = p + n /\ DataLength = p + l
        BY <1>2, <2>1, SMTT(60)
      <3>2. PICK m \in Nat, q \in Nat :
               /\ m = ep'.m_nBytesLeft /\ q = ep'.m_pBufPtr
               /\ TransferToGo' = 2 * m + 4 /\ Len(moved) = q /\ DataLength = q + m
        BY <1>2, <1>5, <2>2
      <3>3. q = p + n /\ p + l = q + m
        BY <3>1, <3>2
      <3>4. 2 * m + 4 < 2 * l + 3
        BY <3>1, <3>2, <3>3, PacketCounts
      <3> QED
        BY <3>1, <3>2, <3>4
    <2> QED
      BY <1>2, <1>6, <1>7, <1>8, <2>1, <2>2
  <1>11. CASE OutStatus \/ InStatus
    <2>1. host.phase = "idle" /\ TransferToGo = 2
      BY <1>1, <1>2, <1>11 DEF ToGoFacts
    <2> QED
      BY <1>5, <1>6, <1>7, <1>8, <2>1
  <1>12. CASE Waiting
    BY <1>1, <1>12, WaitingToGo
  <1> QED
    BY <1>2, <1>9, <1>10, <1>11, <1>12 DEF ToGoFacts

\* Where the host goes on with a transfer of the driver.
LEMMA HostAt ==
  ASSUME IInv
  PROVE  /\ HostInData => InData /\ done = NoDone
         /\ HostOutData => OutData /\ done = NoDone
         /\ HostStatus => (OutStatus \/ InStatus) /\ done = NoDone
         /\ HostSeesStall => Waiting /\ host.phase # "idle"
  <1>1. HostSeesStall => stalled # {} /\ host.phase # "idle"
    BY DEF HostSeesStall
  <1>2. HostSeesStall => Waiting
    BY <1>1, DataToGo, StatusToGo DEF IInv, SetupReceived
  <1>3. HostInData => InData /\ done = NoDone
    BY DEF IInv, HostInData, Phase, Waiting, SetupReceived, InData, OutData,
           OutStatus, InStatus, Begun, Completed, NoTransfer
  <1>4. HostOutData => OutData /\ done = NoDone
    BY DEF IInv, HostOutData, Phase, Waiting, SetupReceived, InData, OutData,
           OutStatus, InStatus, Begun, Completed, NoTransfer
  <1>5. HostStatus => (OutStatus \/ InStatus) /\ done = NoDone
    BY DEF IInv, HostStatus, Phase, Waiting, SetupReceived, InData, OutData,
           OutStatus, InStatus, Begun, Completed, NoTransfer
  <1> QED
    BY <1>1, <1>2, <1>3, <1>4, <1>5

\* A packet, a status stage or a STALL that the host has seen: less is left.
LEMMA HostCounts ==
  ASSUME IInv, HostGoesOn
  PROVE  TransferToGo' < TransferToGo
  <1>1. CASE HostInData \/ HostOutData
    <2>1. /\ InData \/ OutData
          /\ done = NoDone /\ ep'.m_State = ep.m_State /\ ep'.m_nBytesLeft = ep.m_nBytesLeft
      <3>1. HostOutData => ep'.m_State = ep.m_State /\ ep'.m_nBytesLeft = ep.m_nBytesLeft
        BY DEF HostOutData, IInv, TypeOK
      <3> QED
        BY <1>1, <3>1, HostAt DEF HostInData
    <2>2. done' # NoDone
      <3>1. armed.mode \in {"DataIn", "DataOut"}
        BY <1>1 DEF HostInData, HostOutData, Phase
      <3> QED
        BY <1>1, <3>1, DoneFacts DEF HostInData, HostOutData, Complete
    <2>3. ep.m_nBytesLeft \in Nat /\ ep.m_State \in {"InData", "OutData"}
      BY <2>1, DataToGo, LimitFacts DEF InData, OutData
    <2>4. TransferToGo = 2 * ep.m_nBytesLeft + 4 /\ TransferToGo' = 2 * ep.m_nBytesLeft + 3
      BY <2>1, <2>2, <2>3 DEF TransferToGo
    <2> QED
      BY <2>3, <2>4
  <1>2. CASE HostStatus
    <2>1. /\ done = NoDone /\ ep' = ep /\ ep.m_State \in {"InStatus", "OutStatus"}
      BY <1>2, HostAt DEF HostStatus, OutStatus, InStatus
    <2>2. done' # NoDone
      <3>1. armed.mode \in {"DataIn", "DataOut"}
        BY <1>2 DEF HostStatus, Phase
      <3> QED
        BY <1>2, <3>1, DoneFacts DEF HostStatus, Complete
    <2>3. TransferToGo = 3 /\ TransferToGo' = 2
      BY <2>1, <2>2 DEF TransferToGo
    <2> QED
      BY <2>3
  <1>3. CASE HostSeesStall
    <2>1. Waiting /\ host.phase # "idle" /\ host'.phase = "idle" /\ ep' = ep /\ done' = done
      BY <1>3, HostAt DEF HostSeesStall, IInv, TypeOK
    <2>2. TransferToGo = 1 /\ TransferToGo' = 0
      BY <2>1 DEF Waiting, Begun, TransferToGo
    <2> QED
      BY <2>2
  <1> QED
    BY <1>1, <1>2, <1>3 DEF HostGoesOn

\* The packets of an answer, and where a host that waits is.
LEMMA PacketInvInit == Init => PacketInv
  BY DEF Init, PacketInv

\* The handler goes on behind a full packet only, and ends an answer whose last
\* packet was full only when that is all the host wants or the host waits.
LEMMA HandlePacket ==
  ASSUME IInv, IInv', PacketInv, Handle
  PROVE  PacketInv'
  <1>1. /\ done # NoDone /\ done' = NoDone /\ moved' = moved /\ host' = host
        /\ DataLength' = DataLength
    BY HandleLeaves
  <1>2. ToGoFacts /\ ~Waiting
    BY <1>1, ToGoIs, WaitingToGo
  <1>3. ToGoFacts'
    BY ToGoIs, PTL
  <1>4. ASSUME ep'.m_State = "InData"
        PROVE  \E k \in Nat : ep'.m_pBufPtr = k * MaxPacket
    <2>1. InData'
      BY <1>3, <1>4 DEF ToGoFacts, Waiting, SetupReceived, OutData, OutStatus, InStatus
    <2>2. /\ Len(moved) = ep'.m_pBufPtr /\ ep'.m_nBytesLeft \in 1..BufferSize
          /\ DataLength = ep'.m_pBufPtr + ep'.m_nBytesLeft
          /\ host.phase = "inData"
      BY <1>1, <1>3, <2>1, DoneFacts DEF ToGoFacts, InData, Completed
    <2>3. CASE SetupReceived
      <3>1. ep'.m_pBufPtr = 0
        BY <2>2, <2>3 DEF SetupReceived
      <3> QED
        BY <3>1, LimitFacts
    <2>4. CASE InData
      <3>1. PICK k \in Nat : ep.m_pBufPtr = k * MaxPacket
        BY <2>4 DEF InData, PacketInv
      <3>2. PICK l \in Nat, p \in Nat, n \in Nat :
               /\ l = ep.m_nBytesLeft /\ p = ep.m_pBufPtr /\ n = Packet /\ n > 0
               /\ Len(moved) = p + n /\ DataLength = p + l
               /\ n < l => n = MaxPacket
        <4>1. /\ ep.m_nBytesLeft \in 1..BufferSize /\ ep.m_pBufPtr \in Nat
              /\ Packet \in 1..ep.m_nBytesLeft
              /\ Packet = Lesser(ep.m_nBytesLeft, MaxPacket)
              /\ Len(moved) = ep.m_pBufPtr + Packet
              /\ DataLength = ep.m_pBufPtr + ep.m_nBytesLeft
          BY <1>1, <2>4, DataToGo
        <4>2. Packet < ep.m_nBytesLeft => Packet = MaxPacket
          BY <4>1, PacketOf
        <4>3. ep.m_nBytesLeft \in Nat /\ Packet \in Nat
          BY <4>1, LimitFacts
        <4> QED
          BY <4>1, <4>2, <4>3
      <3>3. PICK m \in Nat, q \in Nat :
               /\ m = ep'.m_nBytesLeft /\ q = ep'.m_pBufPtr /\ m > 0
               /\ Len(moved) = q /\ DataLength = q + m
        BY <2>2, LimitFacts
      <3>6. q = p + n /\ p + l = q + m
        BY <3>2, <3>3
      <3>4. q = p + n /\ n < l
        BY <3>2, <3>3, <3>6, PacketCounts
      <3>5. ep'.m_pBufPtr = (k + 1) * MaxPacket
        BY <3>1, <3>2, <3>3, <3>4, Multiples
      <3> QED
        BY <3>1, <3>5, k + 1 \in Nat
    <2>5. CASE OutData
      BY <1>1, <2>2, <2>5, DoneFacts DEF OutData, Begun, Completed
    <2>6. CASE OutStatus \/ InStatus
      BY <1>1, <1>2, <2>2, <2>6 DEF ToGoFacts
    <2> QED
      BY <1>2, <2>3, <2>4, <2>5, <2>6 DEF ToGoFacts
  <1>5. ASSUME ep'.m_State = "OutStatus", host'.phase = "inData"
        PROVE  AwaitsZeroPacket'
    <2>1. OutStatus'
      BY <1>3, <1>5 DEF ToGoFacts, Waiting, SetupReceived, OutData, InData, InStatus
    <2>2. /\ Len(moved) = DataLength /\ DataLength > 0 /\ host.phase = "inData"
          /\ host.req.kind \in InKinds /\ DataLength = AnswerLength(host.req)
      BY <1>1, <1>3, <1>5, <2>1 DEF ToGoFacts, OutStatus, Serving, DataLength
    <2>3. CASE SetupReceived
      <3>1. Len(moved) = 0
        BY <2>3 DEF SetupReceived
      <3> QED
        BY <2>2, <3>1
    <2>4. CASE InData
      <3>1. PICK k \in Nat : ep.m_pBufPtr = k * MaxPacket
        BY <2>4 DEF InData, PacketInv
      <3>2. /\ host.left # 0 /\ Packet = MaxPacket
            /\ Len(moved) = ep.m_pBufPtr + Packet
            /\ host.left = host.req.wLength - Len(moved)
            /\ host.left \in 0..MaxLength /\ host.req \in Requests
        <4>1. host.left # 0 /\ ~(Packet < MaxPacket)
          BY <1>1, <2>2, <2>4 DEF InData, Begun
        <4>2. /\ Packet \in Nat /\ Packet <= MaxPacket /\ MaxPacket \in Nat
              /\ Len(moved) = ep.m_pBufPtr + Packet
              /\ host.left = host.req.wLength - Len(moved)
          BY <1>1, <2>4, DataToGo, LimitFacts
        <4>3. Packet = MaxPacket
          BY <4>1, <4>2
        <4> QED
          BY <4>1, <4>2, <4>3, TypeParts DEF IInv
      <3>3. DataLength = (k + 1) * MaxPacket
        BY <2>2, <3>1, <3>2, Multiples
      <3>4. DataLength % MaxPacket = 0
        BY <3>1, <3>3, Multiples, k + 1 \in Nat
      <3>5. DataLength \in 1..host.req.wLength - 1
        <4>1. host.req.wLength \in Nat
          BY <3>2, Kinds, LimitFacts
        <4>2. DataLength \in Int
          BY <1>1, <2>4, DataToGo, LimitFacts
        <4> QED
          BY <2>2, <3>2, <4>1, <4>2, LimitFacts
      <3> QED
        BY <1>1, <2>2, <3>4, <3>5 DEF AwaitsZeroPacket
    <2>5. CASE OutData
      BY <1>1, <2>2, <2>5, DoneFacts DEF OutData, Begun, Completed
    <2>6. CASE OutStatus \/ InStatus
      BY <1>1, <1>2, <2>2, <2>6 DEF ToGoFacts
    <2> QED
      BY <1>2, <2>3, <2>4, <2>5, <2>6 DEF ToGoFacts
  <1> QED
    BY <1>4, <1>5 DEF PacketInv

\* The steps of the host and a reset keep to it.
LEMMA OthersPacket ==
  ASSUME IInv, IInv', PacketInv, BusReset \/ HostSetup \/ HostGoesOn
  PROVE  PacketInv'
  <1>1. CASE BusReset
    <2>1. done' = NoDone /\ host'.phase = "idle"
      BY <1>1 DEF BusReset, IInv, TypeOK
    <2>2. ToGoFacts'
      BY ToGoIs, PTL
    <2>3. Waiting'
      BY <2>1, <2>2 DEF ToGoFacts
    <2> QED
      BY <2>3 DEF PacketInv, Waiting
  <1>2. CASE HostSetup
    <2>1. armed.mode = "SetupOut" /\ \E r : ep' = [ep EXCEPT !.out = r, !.served = NoRequest]
      BY <1>2, ZenonT(60) DEF HostSetup, Phase
    <2>2. Waiting
      BY <2>1, SetupToGo, DataToGo, StatusToGo DEF IInv
    <2>3. ep'.m_State = "Idle"
      BY <2>1, <2>2 DEF Waiting, IInv, TypeOK
    <2> QED
      BY <2>3 DEF PacketInv
  <1>3. CASE HostInData \/ HostOutData
    <2>1. (InData \/ OutData) /\ ep'.m_State = ep.m_State /\ ep'.m_pBufPtr = ep.m_pBufPtr
      <3>1. HostOutData => ep'.m_State = ep.m_State /\ ep'.m_pBufPtr = ep.m_pBufPtr
        BY DEF HostOutData, IInv, TypeOK
      <3> QED
        BY <1>3, <3>1, HostAt DEF HostInData
    <2> QED
      BY <2>1 DEF PacketInv, InData, OutData
  <1>4. CASE HostStatus \/ HostSeesStall
    <2>1. ep' = ep /\ host'.phase = "idle"
      BY <1>4 DEF HostStatus, HostSeesStall, IInv, TypeOK
    <2> QED
      BY <2>1 DEF PacketInv
  <1> QED
    BY <1>1, <1>2, <1>3, <1>4 DEF HostGoesOn

\* So every state has the two invariants.
LEMMA PacketInvHolds == Spec => [](IInv /\ PacketInv)
  <1>1. IInv /\ PacketInv /\ [Next]_vars => PacketInv'
    <2> SUFFICES ASSUME IInv, PacketInv, [Next]_vars PROVE PacketInv'
      OBVIOUS
    <2>1. IInv'
      BY NextIInv
    <2>2. CASE UNCHANGED vars
      BY <2>2 DEF vars, PacketInv, AwaitsZeroPacket
    <2> QED
      BY <2>1, <2>2, HandlePacket, OthersPacket DEF Next
  <1> QED
    BY <1>1, PacketInvInit, InitIInv, NextIInv, PTL DEF Spec

\* The guards of Handle and of the steps of the host.
CompletionPending == ~ep.failed /\ done # NoDone

HostCanGoOn ==
    \/ Phase("inData", "DataIn") \/ Phase("outData", "DataOut")
    \/ /\ Phase("inStatus", "DataIn") \/ Phase("outStatus", "DataOut")
       /\ armed.len = 0
    \/ host.phase \in {"inData", "inStatus"} /\ "In" \in stalled
    \/ host.phase \in {"outData", "outStatus"} /\ "Out" \in stalled

\* While something is left, the driver or the host goes on.
LEMMA SomeoneGoesOn ==
  ASSUME IInv, PacketInv, TransferToGo # 0, ~AwaitsZeroPacket
  PROVE  CompletionPending \/ HostCanGoOn
  <1>1. ~ep.failed /\ ToGoFacts
    BY ToGoIs DEF IInv, NoAssertFails
  <1>2. CASE done # NoDone
    BY <1>1, <1>2 DEF CompletionPending
  <1>3. CASE Waiting
    <2>1. /\ host.phase \in {"inData", "outData", "inStatus"}
          /\ Direction \in stalled
      BY <1>1, <1>3, TypeParts DEF ToGoFacts, Waiting, IInv
    <2> QED
      BY <2>1 DEF HostCanGoOn, Direction
  <1>4. CASE done = NoDone /\ InData
    <2>1. host.phase = "inData" /\ armed.mode = "DataIn"
      BY <1>4, DoneFacts DEF InData, Begun, Completed
    <2> QED
      BY <1>1, <2>1 DEF HostCanGoOn, Phase
  <1>5. CASE done = NoDone /\ OutData
    <2>1. host.phase = "outData" /\ armed.mode = "DataOut"
      BY <1>5, DoneFacts DEF OutData, Begun, Completed
    <2> QED
      BY <1>1, <2>1 DEF HostCanGoOn, Phase
  <1>6. CASE done = NoDone /\ OutStatus
    <2>1. host.phase \in {"outStatus", "inData"} /\ armed.mode = "DataOut" /\ armed.len = 0
      BY <1>6, DoneFacts DEF OutStatus, Begun, Completed
    <2>2. host.phase = "outStatus"
      BY <1>6, <2>1 DEF PacketInv, OutStatus
    <2> QED
      BY <1>1, <2>1, <2>2 DEF HostCanGoOn, Phase
  <1>7. CASE done = NoDone /\ InStatus
    <2>1. host.phase = "inStatus" /\ armed.mode = "DataIn" /\ armed.len = 0
      BY <1>7, DoneFacts DEF InStatus, Begun, Completed
    <2> QED
      BY <1>1, <2>1 DEF HostCanGoOn, Phase
  <1> QED
    BY <1>1, <1>2, <1>3, <1>4, <1>5, <1>6, <1>7 DEF ToGoFacts

\* Every completion that is handled, every packet and every STALL leaves less to
\* do of the control transfer, which takes at most two steps for each byte of the
\* buffer and five.
THEOREM EveryStepOfATransferCounts ==
  Spec => /\ [](TransferToGo \in 0..(2 * BufferSize + 5))
          /\ [][Handle \/ HostGoesOn => TransferToGo' < TransferToGo]_vars
  <1>1. IInv => TransferToGo \in 0..(2 * BufferSize + 5)
    BY ToGoBound
  <1>2. IInv /\ IInv' /\ [Next]_vars => [Handle \/ HostGoesOn => TransferToGo' < TransferToGo]_vars
    BY HandleCounts, HostCounts
  <1> QED
    BY <1>1, <1>2, IInvHolds, PTL DEF Spec

\* The driver and the host never both wait: until the host is idle and EP0 waits
\* for a SETUP packet, a completion is pending or the host can go on with the
\* transfer the driver has begun. Only a host that waits for a zero-length packet
\* after an answer of full packets waits in vain.
THEOREM NoTransferIsStuck ==
  Spec => /\ [](TransferToGo # 0 /\ ~AwaitsZeroPacket => CompletionPending \/ HostCanGoOn)
          /\ [](TransferToGo = 0 <=> host.phase = "idle" /\ armed.mode = "SetupOut")
  <1>1. IInv /\ PacketInv =>
            (TransferToGo # 0 /\ ~AwaitsZeroPacket => CompletionPending \/ HostCanGoOn)
    BY SomeoneGoesOn
  <1>2. IInv => (TransferToGo = 0 <=> host.phase = "idle" /\ armed.mode = "SetupOut")
    BY ToGoBound
  <1> QED
    BY <1>1, <1>2, PacketInvHolds, PTL
=============================================================================
