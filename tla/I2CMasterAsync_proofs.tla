---------------------------- MODULE I2CMasterAsync_proofs ----------------------------
(***************************************************************************)
(* Proofs about I2CMasterAsync for every FIFO and every length of a        *)
(* command and a frame: IInv is inductive, the main loop owns the          *)
(* controller while it sets it up, the master implements ByteTransfer, and *)
(* every step leaves less to do of a transfer that never gets stuck.       *)
(***************************************************************************)
EXTENDS I2CMasterAsync, TLAPS

\* The lengths, under one name.
LEMMA Lengths ==
  /\ FIFOSize \in Nat \ {0}
  /\ CommandLength \in Nat \ {0} /\ FrameLength \in Nat \ {0}
  /\ Commands \in Nat
  BY LengthsAssumption

\* A byte that is put into the FIFO or on the wire.
LEMMA AppendFacts ==
  ASSUME NEW S, NEW s \in Seq(S), NEW e \in S
  PROVE  /\ Append(s, e) \in Seq(S)
         /\ Len(Append(s, e)) = Len(s) + 1
         /\ Len(s) \in Nat
         /\ \A i \in 1..Len(s) : Append(s, e)[i] = s[i]
         /\ Append(s, e)[Len(s) + 1] = e
  OBVIOUS

\* A byte that is taken out of the FIFO.
LEMMA TailFacts ==
  ASSUME NEW S, NEW s \in Seq(S), s # <<>>
  PROVE  /\ Len(s) \in Nat \ {0}
         /\ Head(s) \in S /\ Head(s) = s[1]
         /\ Tail(s) \in Seq(S)
         /\ Len(Tail(s)) = Len(s) - 1
         /\ \A i \in 1..(Len(s) - 1) : Tail(s)[i] = s[i + 1]
  OBVIOUS

\* The initial state: nothing is being sent.
LEMMA InitIInv == Init => IInv
  <1> SUFFICES ASSUME Init PROVE IInv
    OBVIOUS
  <1>1. TypeOK
    <2>1. <<>> \in Seq(Numbers \X Positions) /\ Len(<<>>) = 0
      OBVIOUS
    <2>2. /\ 0 \in 0..Commands /\ 0 \in 0..CommandLength /\ 0 \in 0..FrameLength
          /\ 0 \in 0..(CommandLength + FrameLength) /\ 0 <= FIFOSize
          /\ commands \in 0..Commands
      BY Lengths DEF Init
    <2> QED
      <3>1. /\ 0 \in Numbers /\ {} \subseteq StatusBits
            /\ {} \subseteq {"INTT", "INTD"}
        BY DEF Numbers
      <3> QED
        BY <2>1, <2>2, <3>1 DEF Init, TypeOK
  <1>2. TurnInv
    BY DEF Init, TurnInv, WritePCs, WriteAsyncPCs
  <1>3. BusInv
    BY DEF Init, BusInv, Busy, Started, WritePCs
  <1>4. ByteInv
    BY Lengths DEF Init, ByteInv
  <1> QED
    BY <1>1, <1>2, <1>3, <1>4 DEF IInv

\* What the sequences' types give.
LEMMA SequenceFacts ==
  ASSUME TypeOK
  PROVE  /\ fifo \in Seq(Numbers \X Positions) /\ Len(fifo) \in Nat
         /\ wire \in Seq(Numbers \X Positions) /\ Len(wire) \in Nat
         /\ number \in Numbers /\ nCount \in Nat /\ toSend \in Nat
         /\ nLeft \in Nat /\ m_nRemaining \in Nat
  BY Lengths DEF TypeOK

-----------------------------------------------------------------------------
(* The main loop.                                                          *)

\* A command begins with nothing of it on the wire.
LEMMA SendCommandStep == IInv /\ SendCommand => IInv'
  <1> SUFFICES ASSUME IInv, SendCommand PROVE IInv'
    OBVIOUS
  <1>1. /\ irq = "none" /\ pc = "loop" /\ pc' = "Write"
        /\ commands > 0 /\ commands' = commands - 1
        /\ number' = (number + 1) % 3 /\ nCount' = CommandLength
        /\ nLeft' = CommandLength /\ wire' = <<>> /\ nacked' = FALSE
        /\ UNCHANGED <<m_bBusy, m_nRemaining, irq, nStatus, fifo, bus, toSend, ERR>>
        /\ UNCHANGED <<DONE, interrupts>>
    BY DEF SendCommand, Task, NewTransfer
  <1>6. ~m_bBusy /\ interrupts = {} /\ bus # "sending"
    BY <1>1, Lengths DEF IInv, TypeOK, TurnInv, BusInv, Busy, WritePCs
  <1>2. TypeOK'
    <2>1. number' \in Numbers /\ commands' \in 0..Commands
      BY <1>1, Lengths DEF IInv, TypeOK, Numbers
    <2>2. /\ <<>> \in Seq(Numbers \X Positions) /\ wire' = <<>>
          /\ CommandLength \in 0..CommandLength
      BY <1>1, Lengths
    <2> QED
      BY <1>1, <2>1, <2>2 DEF IInv, TypeOK, WritePCs
  <1>3. TurnInv'
    BY <1>1, <1>6 DEF IInv, TurnInv, WritePCs, WriteAsyncPCs
  <1>4. BusInv'
    BY <1>1, <1>6 DEF IInv, BusInv, TurnInv, Busy, Started, WritePCs, WriteAsyncPCs
  <1>5. ByteInv'
    BY <1>1, <1>6, Lengths DEF ByteInv
  <1> QED
    BY <1>2, <1>3, <1>4, <1>5 DEF IInv

\* Write waits until the last transfer has stopped.
LEMMA WriteWaitStep == IInv /\ WriteWait => IInv'
  <1> SUFFICES ASSUME IInv, WriteWait PROVE IInv'
    OBVIOUS
  <1>1. /\ irq = "none" /\ pc = "Write" /\ pc' = "WritePrepare" /\ bus = "idle"
        /\ ERR' = FALSE /\ DONE' = FALSE
        /\ UNCHANGED <<commands, number, nCount, nLeft, m_bBusy, m_nRemaining>>
        /\ UNCHANGED <<irq, nStatus>>
        /\ UNCHANGED <<fifo, bus, toSend, interrupts, wire, nacked>>
    BY DEF WriteWait, WaitForBus, Task, TransferInactive, TA, ClearStatus
  <1>2. TypeOK'
    BY <1>1, Lengths DEF IInv, TypeOK, WritePCs, WriteAsyncPCs
  <1>3. TurnInv'
    BY <1>1 DEF IInv, TurnInv, WritePCs, WriteAsyncPCs
  <1>4. BusInv'
    BY <1>1 DEF IInv, BusInv, TurnInv, Busy, Started, WritePCs, WriteAsyncPCs
  <1>5. ByteInv'
    BY <1>1, SequenceFacts DEF IInv, ByteInv, TurnInv, BusInv,
       Remaining, WritePCs, WriteAsyncPCs
  <1> QED
    BY <1>2, <1>3, <1>4, <1>5 DEF IInv

\* The transfer is started with an empty FIFO.
LEMMA WritePrepareStep == IInv /\ WritePrepare => IInv'
  <1> SUFFICES ASSUME IInv, WritePrepare PROVE IInv'
    OBVIOUS
  <1>1. /\ irq = "none" /\ pc = "WritePrepare" /\ pc' = "WritePoll"
        /\ fifo' = <<>> /\ bus' = "sending" /\ toSend' = nCount /\ interrupts' = {}
        /\ UNCHANGED <<commands, number, nCount, nLeft, m_bBusy, m_nRemaining>>
        /\ UNCHANGED <<irq, nStatus>>
        /\ UNCHANGED <<ERR, DONE, wire, nacked>>
    BY DEF WritePrepare, Task, ClearedFIFO
  <1>6. /\ wire = <<>> /\ Len(wire) = 0 /\ ~nacked /\ ~ERR /\ ~DONE /\ ~m_bBusy
        /\ nCount = CommandLength /\ nCount \in Nat \ {0} /\ nLeft = nCount
    BY <1>1, Lengths DEF IInv, BusInv, TurnInv, ByteInv, Started, WritePCs
  <1>7. Len(fifo') = 0 /\ toSend' > 0 /\ Len(wire') + toSend' = nCount'
    BY <1>1, <1>6
  <1>2. TypeOK'
    BY <1>1, Lengths DEF IInv, TypeOK, WritePCs, WriteAsyncPCs
  <1>3. TurnInv'
    BY <1>1 DEF IInv, TurnInv, WritePCs, WriteAsyncPCs
  <1>4. BusInv'
    BY <1>1, <1>6, <1>7 DEF IInv, BusInv, TurnInv, Busy, Started, WritePCs, WriteAsyncPCs
  <1>5. ByteInv'
    BY <1>1, <1>6, <1>7 DEF IInv, ByteInv, Remaining
  <1> QED
    BY <1>2, <1>3, <1>4, <1>5 DEF IInv

\* Write returns when it finds DONE.
LEMMA WritePollStep == IInv /\ WritePoll => IInv'
  <1> SUFFICES ASSUME IInv, WritePoll PROVE IInv'
    OBVIOUS
  <1>1. /\ irq = "none" /\ pc = "WritePoll" /\ pc' = IF DONE THEN "loop" ELSE "WriteFill"
        /\ DONE' = FALSE
        /\ UNCHANGED <<commands, number, nCount, nLeft, m_bBusy, m_nRemaining>>
        /\ UNCHANGED <<irq, nStatus>>
        /\ UNCHANGED <<fifo, bus, toSend, ERR, interrupts, wire, nacked>>
    BY DEF WritePoll, Task
  <1>2. TypeOK'
    BY <1>1, Lengths DEF IInv, TypeOK, WritePCs, WriteAsyncPCs
  <1>3. TurnInv'
    BY <1>1 DEF IInv, TurnInv, WritePCs, WriteAsyncPCs
  <1>4. BusInv'
    BY <1>1 DEF IInv, BusInv, TurnInv, Busy, Started, WritePCs, WriteAsyncPCs
  <1>5. ByteInv'
    BY <1>1, SequenceFacts DEF IInv, ByteInv, TurnInv, BusInv,
       Remaining, WritePCs, WriteAsyncPCs
  <1> QED
    BY <1>2, <1>3, <1>4, <1>5 DEF IInv

\* The byte that is due goes behind those in the FIFO.
LEMMA FillByte ==
  ASSUME IInv, NEW n \in Nat, n = Remaining, n > 0, Len(fifo) < FIFOSize, Busy,
         fifo' = Append(fifo, <<number, nCount - n + 1>>), Remaining' = n - 1,
         UNCHANGED <<number, nCount, bus, wire>>, pc' = pc,
         UNCHANGED <<nLeft, m_nRemaining>>
             \/ pc \notin {"Write", "WritePrepare", "WriteAsync", "Clear"}
  PROVE  /\ fifo' \in Seq(Numbers \X Positions) /\ Len(fifo') <= FIFOSize
         /\ ByteInv'
  <1>1. /\ fifo \in Seq(Numbers \X Positions) /\ Len(fifo) \in Nat
        /\ Len(wire) \in Nat /\ number \in Numbers /\ nCount \in Nat
    BY SequenceFacts DEF IInv
  <1>2. n <= nCount /\ nCount <= CommandLength + FrameLength
    BY Lengths DEF IInv, TypeOK, TurnInv, Remaining, Busy
  <1>3. PICK p \in Positions : p = nCount - n + 1
    BY <1>1, <1>2, Lengths DEF Positions
  <1>4. <<number, p>> \in Numbers \X Positions
    BY <1>1
  <1>5. /\ fifo' \in Seq(Numbers \X Positions)
        /\ Len(fifo') = Len(fifo) + 1
        /\ \A i \in 1..Len(fifo) : fifo'[i] = fifo[i]
        /\ fifo'[Len(fifo) + 1] = <<number, p>>
    BY <1>1, <1>3, <1>4, AppendFacts
  <1>6. Len(fifo') <= FIFOSize
    BY <1>1, <1>5, Lengths
  <1>7. ASSUME bus = "sending" \/ pc \in {"FillFIFO", "Start"}
        PROVE  /\ Len(wire) + Len(fifo') + (n - 1) = nCount
               /\ \A i \in 1..Len(fifo') : fifo'[i] = <<number, Len(wire) + i>>
    <2>1. /\ Len(wire) + Len(fifo) + n = nCount
          /\ \A i \in 1..Len(fifo) : fifo[i] = <<number, Len(wire) + i>>
      BY <1>7 DEF IInv, ByteInv
    <2>5. PICK w \in Nat, f \in Nat, c \in Nat :
             w = Len(wire) /\ f = Len(fifo) /\ c = nCount
      BY <1>1
    <2>6. w + f + n = c /\ p = c - n + 1
      BY <1>3, <2>1, <2>5
    <2>2. p = w + (f + 1) /\ w + (f + 1) + (n - 1) = c
      BY <2>6
    <2>3. \A i \in 1..(f + 1) : i \in 1..f \/ i = f + 1
      OBVIOUS
    <2>4. \A i \in 1..Len(fifo') : fifo'[i] = <<number, Len(wire) + i>>
      BY <1>5, <2>1, <2>2, <2>3, <2>5
    <2> QED
      BY <1>5, <2>2, <2>4, <2>5
  <1>8. ByteInv'
    BY <1>7 DEF IInv, ByteInv
  <1> QED
    BY <1>5, <1>6, <1>8

\* Write fills the FIFO with the next bytes.
LEMMA WriteFillStep == IInv /\ WriteFill => IInv'
  <1> SUFFICES ASSUME IInv, WriteFill PROVE IInv'
    OBVIOUS
  <1>1. /\ irq = "none" /\ pc = "WriteFill" /\ pc' \in {"WriteFill", "WritePoll"}
        /\ UNCHANGED <<commands, number, nCount, m_bBusy, m_nRemaining, bus>>
        /\ UNCHANGED <<toSend, ERR, DONE, interrupts, wire, nacked, irq, nStatus>>
    BY DEF WriteFill, Task
  <1>2. TurnInv' /\ BusInv'
    BY <1>1 DEF IInv, TurnInv, BusInv, Busy, Started, WritePCs, WriteAsyncPCs
  <1>3. CASE nLeft > 0 /\ TXD
    <2>1. /\ fifo' = Append(fifo, <<number, nCount - nLeft + 1>>)
          /\ nLeft' = nLeft - 1 /\ pc' = pc /\ Len(fifo) < FIFOSize
      BY <1>1, <1>3 DEF WriteFill, Task, TXD
    <2>2. nLeft \in Nat /\ nLeft' \in 0..CommandLength
      BY <1>3, <2>1, Lengths DEF IInv, TypeOK
    <2>3. Remaining = nLeft /\ Remaining' = nLeft' /\ Busy
      BY <1>1 DEF IInv, TurnInv, Remaining, Busy, WritePCs
    <2>4. /\ fifo' \in Seq(Numbers \X Positions) /\ Len(fifo') <= FIFOSize
          /\ ByteInv'
      BY <1>1, <1>3, <2>1, <2>2, <2>3, FillByte
    <2>5. TypeOK'
      BY <1>1, <2>1, <2>2, <2>4 DEF IInv, TypeOK, WritePCs
    <2> QED
      BY <1>2, <2>4, <2>5 DEF IInv
  <1>4. CASE ~(nLeft > 0 /\ TXD)
    <2>1. UNCHANGED <<fifo, nLeft>> /\ pc' = "WritePoll"
      BY <1>4 DEF WriteFill, Task
    <2>2. TypeOK'
      BY <1>1, <2>1 DEF IInv, TypeOK, WritePCs
    <2>3. ByteInv'
      BY <1>1, <2>1 DEF IInv, ByteInv, Remaining
    <2> QED
      BY <1>2, <2>2, <2>3 DEF IInv
  <1> QED
    BY <1>3, <1>4

\* A frame begins with nothing of it on the wire.
LEMMA ShowAsyncStep == IInv /\ ShowAsync => IInv'
  <1> SUFFICES ASSUME IInv, ShowAsync PROVE IInv'
    OBVIOUS
  <1>1. /\ irq = "none" /\ pc = "loop" /\ pc' = "WriteAsync"
        /\ commands = 0 /\ ~m_bBusy /\ m_bBusy' = TRUE
        /\ number' = (number + 1) % 3 /\ nCount' = FrameLength
        /\ m_nRemaining' = FrameLength /\ wire' = <<>> /\ nacked' = FALSE
        /\ UNCHANGED <<commands, nLeft, irq, nStatus, fifo, bus, toSend, ERR>>
        /\ UNCHANGED <<DONE, interrupts>>
    BY DEF ShowAsync, Task, NewTransfer
  <1>6. interrupts = {} /\ bus # "sending"
    BY <1>1 DEF IInv, TurnInv, BusInv, Busy, WritePCs
  <1>2. TypeOK'
    <2>1. number' \in Numbers /\ FrameLength \in 0..FrameLength
      BY <1>1, Lengths DEF IInv, TypeOK, Numbers
    <2>2. <<>> \in Seq(Numbers \X Positions)
      OBVIOUS
    <2> QED
      BY <1>1, <2>1, <2>2 DEF IInv, TypeOK, WriteAsyncPCs
  <1>3. TurnInv'
    BY <1>1, <1>6 DEF IInv, TurnInv, WritePCs, WriteAsyncPCs
  <1>4. BusInv'
    BY <1>1, <1>6 DEF IInv, BusInv, TurnInv, Busy, Started, WritePCs, WriteAsyncPCs
  <1>5. ByteInv'
    BY <1>1, <1>6, Lengths DEF ByteInv
  <1> QED
    BY <1>2, <1>3, <1>4, <1>5 DEF IInv

\* WriteAsync waits for the stop of a refused frame.
LEMMA WriteAsyncWaitStep == IInv /\ WriteAsyncWait => IInv'
  <1> SUFFICES ASSUME IInv, WriteAsyncWait PROVE IInv'
    OBVIOUS
  <1>1. /\ irq = "none" /\ pc = "WriteAsync" /\ pc' = "Clear" /\ bus = "idle"
        /\ ERR' = FALSE /\ DONE' = FALSE
        /\ UNCHANGED <<commands, number, nCount, nLeft, m_bBusy, m_nRemaining>>
        /\ UNCHANGED <<irq, nStatus>>
        /\ UNCHANGED <<fifo, bus, toSend, interrupts, wire, nacked>>
    BY DEF WriteAsyncWait, WaitForBus, Task, TransferInactive, TA, ClearStatus
  <1>2. TypeOK'
    BY <1>1, Lengths DEF IInv, TypeOK, WritePCs, WriteAsyncPCs
  <1>3. TurnInv'
    BY <1>1 DEF IInv, TurnInv, WritePCs, WriteAsyncPCs
  <1>4. BusInv'
    BY <1>1 DEF IInv, BusInv, TurnInv, Busy, Started, WritePCs, WriteAsyncPCs
  <1>5. ByteInv'
    BY <1>1, SequenceFacts DEF IInv, ByteInv, TurnInv, BusInv,
       Remaining, WritePCs, WriteAsyncPCs
  <1> QED
    BY <1>2, <1>3, <1>4, <1>5 DEF IInv

\* What a refused frame has left is dropped.
LEMMA ClearFIFOStep == IInv /\ ClearFIFO => IInv'
  <1> SUFFICES ASSUME IInv, ClearFIFO PROVE IInv'
    OBVIOUS
  <1>1. /\ irq = "none" /\ pc = "Clear" /\ pc' = "FillFIFO"
        /\ fifo' = <<>> /\ interrupts' = {}
        /\ UNCHANGED <<commands, number, nCount, nLeft, m_bBusy, m_nRemaining>>
        /\ UNCHANGED <<irq, nStatus>>
        /\ UNCHANGED <<bus, toSend, ERR, DONE, wire, nacked>>
    BY DEF ClearFIFO, Task, ClearedFIFO
  <1>6. /\ wire = <<>> /\ Len(wire) = 0 /\ m_bBusy /\ bus = "idle"
        /\ m_nRemaining = nCount /\ nCount \in Nat
    BY <1>1, SequenceFacts DEF IInv, BusInv, TurnInv, ByteInv, Started, WriteAsyncPCs
  <1>7. Len(fifo') = 0
    BY <1>1
  <1>2. TypeOK'
    BY <1>1, Lengths DEF IInv, TypeOK, WritePCs, WriteAsyncPCs
  <1>3. TurnInv'
    BY <1>1 DEF IInv, TurnInv, WritePCs, WriteAsyncPCs
  <1>4. BusInv'
    BY <1>1 DEF IInv, BusInv, TurnInv, Busy, Started, WritePCs, WriteAsyncPCs
  <1>5. ByteInv'
    BY <1>1, <1>6, <1>7 DEF IInv, ByteInv, Remaining
  <1> QED
    BY <1>2, <1>3, <1>4, <1>5 DEF IInv

\* The transfer is started, with interrupts.
LEMMA StartStep == IInv /\ Start => IInv'
  <1> SUFFICES ASSUME IInv, Start PROVE IInv'
    OBVIOUS
  <1>1. /\ irq = "none" /\ pc = "Start" /\ pc' = "loop"
        /\ bus' = "sending" /\ toSend' = nCount /\ interrupts' = {"INTT", "INTD"}
        /\ UNCHANGED <<commands, number, nCount, nLeft, m_bBusy, m_nRemaining>>
        /\ UNCHANGED <<irq, nStatus>>
        /\ UNCHANGED <<fifo, ERR, DONE, wire, nacked>>
    BY DEF Start, Task, StartInterrupts
  <1>6. /\ wire = <<>> /\ Len(wire) = 0 /\ ~nacked /\ ~ERR /\ ~DONE /\ m_bBusy
        /\ nCount = FrameLength /\ nCount \in Nat \ {0}
    BY <1>1, Lengths DEF IInv, BusInv, TurnInv, Started, WriteAsyncPCs
  <1>7. toSend' > 0 /\ Len(wire') + toSend' = nCount'
    BY <1>1, <1>6
  <1>2. TypeOK'
    BY <1>1, Lengths DEF IInv, TypeOK, WritePCs, WriteAsyncPCs
  <1>3. TurnInv'
    BY <1>1 DEF IInv, TurnInv, WritePCs, WriteAsyncPCs
  <1>4. BusInv'
    BY <1>1, <1>6, <1>7 DEF IInv, BusInv, TurnInv, Busy, Started, WritePCs, WriteAsyncPCs
  <1>5. ByteInv'
    BY <1>1, SequenceFacts DEF IInv, ByteInv, TurnInv, BusInv,
       Remaining, WritePCs, WriteAsyncPCs
  <1> QED
    BY <1>2, <1>3, <1>4, <1>5 DEF IInv

\* WriteAsync fills the FIFO before the start.
LEMMA TaskFillFIFOStep == IInv /\ TaskFillFIFO => IInv'
  <1> SUFFICES ASSUME IInv, TaskFillFIFO PROVE IInv'
    OBVIOUS
  <1>1. /\ UNCHANGED <<commands, number, nCount, nLeft, m_bBusy, bus, toSend>>
        /\ UNCHANGED <<ERR, DONE, interrupts, wire, nacked, nStatus>>
        /\ irq = "none" /\ irq' = "none" /\ pc = "FillFIFO"
        /\ pc' \in {"FillFIFO", "Start"}
    BY DEF TaskFillFIFO, Task, Fill, Filled, ctlVars
  <1>2. m_bBusy /\ Busy
    BY <1>1 DEF IInv, TurnInv, WriteAsyncPCs, Busy
  <1>3. TurnInv' /\ BusInv'
    BY <1>1 DEF IInv, TurnInv, BusInv, Busy, Started, WritePCs, WriteAsyncPCs
  <1>4. CASE Fill
    <2>1. /\ fifo' = Append(fifo, <<number, nCount - m_nRemaining + 1>>)
          /\ m_nRemaining' = m_nRemaining - 1 /\ m_nRemaining > 0
          /\ Len(fifo) < FIFOSize
      BY <1>4 DEF Fill, TXD
    <2>5. pc' = pc
      BY <1>4, <1>1, <2>1, Lengths DEF TaskFillFIFO, Task, Filled, TXD, IInv, TypeOK
    <2>2. m_nRemaining \in Nat /\ m_nRemaining' \in 0..FrameLength
      BY <2>1, Lengths DEF IInv, TypeOK
    <2>3. Remaining = m_nRemaining /\ Remaining' = m_nRemaining'
      BY <1>1, <1>2 DEF Remaining
    <2>6. pc \notin {"Write", "WritePrepare", "WriteAsync", "Clear"}
      BY <1>1 DEF IInv, TurnInv
    <2>4. /\ fifo' \in Seq(Numbers \X Positions) /\ Len(fifo') <= FIFOSize
          /\ ByteInv'
      BY <1>1, <1>2, <2>1, <2>2, <2>3, <2>5, <2>6, FillByte
    <2>7. TypeOK'
      BY <1>1, <2>2, <2>4, <2>5 DEF IInv, TypeOK
    <2> QED
      BY <1>3, <2>4, <2>7 DEF IInv
  <1>5. CASE Filled
    <2>1. UNCHANGED <<fifo, m_nRemaining>>
      BY <1>5 DEF Filled, ctlVars
    <2>2. TypeOK'
      BY <1>1, <2>1 DEF IInv, TypeOK, WriteAsyncPCs
    <2>3. ByteInv'
      BY <1>1, <1>2, <2>1 DEF IInv, ByteInv, Remaining
    <2> QED
      BY <1>3, <2>2, <2>3 DEF IInv
  <1> QED
    BY <1>4, <1>5 DEF TaskFillFIFO

-----------------------------------------------------------------------------
(* IRQHandler.                                                             *)

\* The handler is entered only for a frame.
LEMMA EnterIRQHandlerStep == IInv /\ EnterIRQHandler => IInv'
  <1> SUFFICES ASSUME IInv, EnterIRQHandler PROVE IInv'
    OBVIOUS
  <1>1. /\ irq = "none" /\ interrupts # {} /\ nStatus' \subseteq StatusBits
        /\ irq' \in {"error", "fill", "checkDone"}
        /\ irq' = "error" => ERR
        /\ "DONE" \in nStatus' => DONE
        /\ UNCHANGED <<pc, commands, number, nCount, nLeft, m_bBusy, m_nRemaining, fifo>>
        /\ UNCHANGED <<bus, toSend, ERR, DONE, interrupts, wire, nacked>>
    BY DEF EnterIRQHandler, InterruptPending, ReadStatus, taskVars, ctlVars
  <1>2. TypeOK'
    BY <1>1, Lengths DEF IInv, TypeOK, WritePCs, WriteAsyncPCs
  <1>3. TurnInv'
    BY <1>1 DEF IInv, TurnInv, WritePCs, WriteAsyncPCs
  <1>4. BusInv'
    BY <1>1 DEF IInv, BusInv, TurnInv, Busy, Started, WritePCs, WriteAsyncPCs
  <1>5. ByteInv'
    BY <1>1, SequenceFacts DEF IInv, ByteInv, TurnInv, BusInv,
       Remaining, WritePCs, WriteAsyncPCs
  <1> QED
    BY <1>2, <1>3, <1>4, <1>5 DEF IInv

\* A refusal ends the frame.
LEMMA IRQErrorStep == IInv /\ IRQError => IInv'
  <1> SUFFICES ASSUME IInv, IRQError PROVE IInv'
    OBVIOUS
  <1>1. /\ irq = "error" /\ irq' = "off" /\ m_bBusy' = FALSE /\ ERR' = FALSE
        /\ UNCHANGED <<pc, commands, number, nCount, nLeft, m_nRemaining, nStatus, fifo>>
        /\ UNCHANGED <<bus, toSend, DONE, interrupts, wire, nacked>>
    BY DEF IRQError, IRQ
  <1>2. TypeOK'
    BY <1>1, Lengths DEF IInv, TypeOK, WritePCs, WriteAsyncPCs
  <1>3. TurnInv'
    BY <1>1 DEF IInv, TurnInv, WritePCs, WriteAsyncPCs
  <1>4. BusInv'
    BY <1>1 DEF IInv, BusInv, TurnInv, Busy, Started, WritePCs, WriteAsyncPCs
  <1>5. ByteInv'
    BY <1>1, SequenceFacts DEF IInv, ByteInv, TurnInv, BusInv,
       Remaining, WritePCs, WriteAsyncPCs
  <1> QED
    BY <1>2, <1>3, <1>4, <1>5 DEF IInv

\* The handler fills the FIFO on.
LEMMA IRQFillFIFOStep == IInv /\ IRQFillFIFO => IInv'
  <1> SUFFICES ASSUME IInv, IRQFillFIFO PROVE IInv'
    OBVIOUS
  <1>1. /\ UNCHANGED <<commands, number, nCount, nLeft, m_bBusy, bus, toSend>>
        /\ UNCHANGED <<ERR, DONE, interrupts, wire, nacked, nStatus>>
        /\ irq = "fill" /\ irq' \in {"fill", "checkDone"} /\ pc' = pc
    BY DEF IRQFillFIFO, IRQ, Fill, Filled, ctlVars
  <1>2. m_bBusy /\ Busy
    BY <1>1 DEF IInv, TurnInv, WriteAsyncPCs, Busy
  <1>3. TurnInv' /\ BusInv'
    BY <1>1 DEF IInv, TurnInv, BusInv, Busy, Started, WritePCs, WriteAsyncPCs
  <1>4. CASE Fill
    <2>1. /\ fifo' = Append(fifo, <<number, nCount - m_nRemaining + 1>>)
          /\ m_nRemaining' = m_nRemaining - 1 /\ m_nRemaining > 0
          /\ Len(fifo) < FIFOSize
      BY <1>4 DEF Fill, TXD
    <2>5. pc' = pc
      BY <1>4, <1>1, <2>1, Lengths DEF IRQFillFIFO, IRQ, Filled, TXD, IInv, TypeOK
    <2>2. m_nRemaining \in Nat /\ m_nRemaining' \in 0..FrameLength
      BY <2>1, Lengths DEF IInv, TypeOK
    <2>3. Remaining = m_nRemaining /\ Remaining' = m_nRemaining'
      BY <1>1, <1>2 DEF Remaining
    <2>6. pc \notin {"Write", "WritePrepare", "WriteAsync", "Clear"}
      BY <1>1 DEF IInv, TurnInv
    <2>4. /\ fifo' \in Seq(Numbers \X Positions) /\ Len(fifo') <= FIFOSize
          /\ ByteInv'
      BY <1>1, <1>2, <2>1, <2>2, <2>3, <2>5, <2>6, FillByte
    <2>7. TypeOK'
      BY <1>1, <2>2, <2>4, <2>5 DEF IInv, TypeOK
    <2> QED
      BY <1>3, <2>4, <2>7 DEF IInv
  <1>5. CASE Filled
    <2>1. UNCHANGED <<fifo, m_nRemaining>>
      BY <1>5 DEF Filled, ctlVars
    <2>2. TypeOK'
      BY <1>1, <2>1 DEF IInv, TypeOK, WriteAsyncPCs
    <2>3. ByteInv'
      BY <1>1, <1>2, <2>1 DEF IInv, ByteInv, Remaining
    <2> QED
      BY <1>3, <2>2, <2>3 DEF IInv
  <1> QED
    BY <1>4, <1>5 DEF IRQFillFIFO

\* The frame goes on.
LEMMA IRQNotDoneStep == IInv /\ IRQNotDone => IInv'
  <1> SUFFICES ASSUME IInv, IRQNotDone PROVE IInv'
    OBVIOUS
  <1>1. /\ irq = "checkDone" /\ irq' = "none"
        /\ UNCHANGED <<pc, commands, number, nCount, nLeft, m_bBusy, m_nRemaining, nStatus>>
        /\ UNCHANGED <<fifo, bus, toSend, ERR, DONE, interrupts, wire, nacked>>
    BY DEF IRQNotDone, IRQ, ctlVars
  <1>2. TypeOK'
    BY <1>1, Lengths DEF IInv, TypeOK, WritePCs, WriteAsyncPCs
  <1>3. TurnInv'
    BY <1>1 DEF IInv, TurnInv, WritePCs, WriteAsyncPCs
  <1>4. BusInv'
    BY <1>1 DEF IInv, BusInv, TurnInv, Busy, Started, WritePCs, WriteAsyncPCs
  <1>5. ByteInv'
    BY <1>1, SequenceFacts DEF IInv, ByteInv, TurnInv, BusInv,
       Remaining, WritePCs, WriteAsyncPCs
  <1> QED
    BY <1>2, <1>3, <1>4, <1>5 DEF IInv

\* The completion ends it.
LEMMA IRQDoneStep == IInv /\ IRQDone => IInv'
  <1> SUFFICES ASSUME IInv, IRQDone PROVE IInv'
    OBVIOUS
  <1>1. /\ irq = "checkDone" /\ irq' = "off" /\ m_bBusy' = FALSE /\ DONE' = FALSE
        /\ "DONE" \in nStatus
        /\ UNCHANGED <<pc, commands, number, nCount, nLeft, m_nRemaining, nStatus, fifo>>
        /\ UNCHANGED <<bus, toSend, ERR, interrupts, wire, nacked>>
    BY DEF IRQDone, IRQ
  <1>2. TypeOK'
    BY <1>1, Lengths DEF IInv, TypeOK, WritePCs, WriteAsyncPCs
  <1>3. TurnInv'
    BY <1>1 DEF IInv, TurnInv, WritePCs, WriteAsyncPCs
  <1>4. BusInv'
    BY <1>1 DEF IInv, BusInv, TurnInv, Busy, Started, WritePCs, WriteAsyncPCs
  <1>5. ByteInv'
    BY <1>1, SequenceFacts DEF IInv, ByteInv, TurnInv, BusInv,
       Remaining, WritePCs, WriteAsyncPCs
  <1> QED
    BY <1>2, <1>3, <1>4, <1>5 DEF IInv

\* No interrupt is left on.
LEMMA IRQOffStep == IInv /\ IRQOff => IInv'
  <1> SUFFICES ASSUME IInv, IRQOff PROVE IInv'
    OBVIOUS
  <1>1. /\ irq = "off" /\ irq' = "none" /\ interrupts' = {}
        /\ UNCHANGED <<pc, commands, number, nCount, nLeft, m_bBusy, m_nRemaining, nStatus>>
        /\ UNCHANGED <<fifo, bus, toSend, ERR, DONE, wire, nacked>>
    BY DEF IRQOff, IRQ, InterruptsAtEnd
  <1>2. TypeOK'
    BY <1>1, Lengths DEF IInv, TypeOK, WritePCs, WriteAsyncPCs
  <1>3. TurnInv'
    BY <1>1 DEF IInv, TurnInv, WritePCs, WriteAsyncPCs
  <1>4. BusInv'
    BY <1>1 DEF IInv, BusInv, TurnInv, Busy, Started, WritePCs, WriteAsyncPCs
  <1>5. ByteInv'
    BY <1>1, SequenceFacts DEF IInv, ByteInv, TurnInv, BusInv,
       Remaining, WritePCs, WriteAsyncPCs
  <1> QED
    BY <1>2, <1>3, <1>4, <1>5 DEF IInv

-----------------------------------------------------------------------------
(* The controller.                                                         *)

\* No display answers: nothing is sent.
LEMMA AddressNotAcknowledgedStep == IInv /\ AddressNotAcknowledged /\ UNCHANGED <<taskVars, m_bBusy, m_nRemaining, irq, nStatus>> => IInv'
  <1> SUFFICES ASSUME IInv, AddressNotAcknowledged /\ UNCHANGED <<taskVars, m_bBusy, m_nRemaining, irq, nStatus>> PROVE IInv'
    OBVIOUS
  <1>1. /\ bus = "sending" /\ wire = <<>> /\ bus' = "stopping"
        /\ nacked' = TRUE /\ ERR' = TRUE
        /\ UNCHANGED <<pc, commands, number, nCount, nLeft, m_bBusy, m_nRemaining, irq>>
        /\ UNCHANGED <<nStatus, fifo, toSend, DONE, interrupts, wire>>
    BY DEF AddressNotAcknowledged, taskVars
  <1>2. TypeOK'
    BY <1>1, Lengths DEF IInv, TypeOK, WritePCs, WriteAsyncPCs
  <1>3. TurnInv'
    BY <1>1 DEF IInv, TurnInv, WritePCs, WriteAsyncPCs
  <1>4. BusInv'
    BY <1>1 DEF IInv, BusInv, TurnInv, Busy, Started, WritePCs, WriteAsyncPCs
  <1>5. ByteInv'
    BY <1>1, SequenceFacts DEF IInv, ByteInv, TurnInv, BusInv,
       Remaining, WritePCs, WriteAsyncPCs
  <1> QED
    BY <1>2, <1>3, <1>4, <1>5 DEF IInv

\* The bus is free again.
LEMMA StopConditionStep == IInv /\ StopCondition /\ UNCHANGED <<taskVars, m_bBusy, m_nRemaining, irq, nStatus>> => IInv'
  <1> SUFFICES ASSUME IInv, StopCondition /\ UNCHANGED <<taskVars, m_bBusy, m_nRemaining, irq, nStatus>> PROVE IInv'
    OBVIOUS
  <1>1. /\ bus = "stopping" /\ bus' = "idle" /\ DONE' = TRUE
        /\ UNCHANGED <<pc, commands, number, nCount, nLeft, m_bBusy, m_nRemaining, irq>>
        /\ UNCHANGED <<nStatus, fifo, toSend, ERR, interrupts, wire, nacked>>
    BY DEF StopCondition, taskVars
  <1>2. TypeOK'
    BY <1>1, Lengths DEF IInv, TypeOK, WritePCs, WriteAsyncPCs
  <1>3. TurnInv'
    BY <1>1 DEF IInv, TurnInv, WritePCs, WriteAsyncPCs
  <1>4. BusInv'
    BY <1>1 DEF IInv, BusInv, TurnInv, Busy, Started, WritePCs, WriteAsyncPCs
  <1>5. ByteInv'
    BY <1>1, SequenceFacts DEF IInv, ByteInv, TurnInv, BusInv,
       Remaining, WritePCs, WriteAsyncPCs
  <1> QED
    BY <1>2, <1>3, <1>4, <1>5 DEF IInv

\* The byte on the wire is the next one of the buffer.
LEMMA SentByte ==
  ASSUME IInv, SendByte, UNCHANGED <<taskVars, m_bBusy, m_nRemaining, irq, nStatus>>
  PROVE  /\ bus = "sending" /\ Busy /\ Started /\ ~nacked /\ ~ERR /\ toSend > 0
         /\ Len(wire) \in Nat /\ Len(wire) + toSend = nCount
         /\ Len(wire') = Len(wire) + 1
         /\ wire' \in Seq(Numbers \X Positions)
         /\ \A i \in 1..Len(wire) : wire'[i] = <<number, i>>
         /\ wire'[Len(wire) + 1] = <<number, Len(wire) + 1>>
         /\ fifo' \in Seq(Numbers \X Positions)
         /\ Len(fifo) \in Nat \ {0} /\ Len(fifo') = Len(fifo) - 1
         /\ \A i \in 1..(Len(fifo) - 1) : fifo'[i] = fifo[i + 1]
         /\ wire' = Append(wire, <<number, Len(wire) + 1>>)
  <1>1. /\ bus = "sending" /\ Busy /\ Started /\ ~nacked /\ ~ERR /\ toSend > 0
        /\ Len(wire) + toSend = nCount /\ fifo # <<>>
        /\ wire' = Append(wire, Head(fifo)) /\ fifo' = Tail(fifo)
    BY DEF SendByte, IInv, BusInv
  <1>2. /\ fifo \in Seq(Numbers \X Positions) /\ wire \in Seq(Numbers \X Positions)
        /\ Len(wire) \in Nat
    BY SequenceFacts DEF IInv
  <1>3. /\ Len(fifo) \in Nat \ {0}
        /\ Head(fifo) \in Numbers \X Positions /\ Head(fifo) = fifo[1]
        /\ Tail(fifo) \in Seq(Numbers \X Positions)
        /\ Len(Tail(fifo)) = Len(fifo) - 1
        /\ \A i \in 1..(Len(fifo) - 1) : Tail(fifo)[i] = fifo[i + 1]
    BY <1>1, <1>2, TailFacts
  <1>4. Head(fifo) = <<number, Len(wire) + 1>>
    <2>1. 1 \in 1..Len(fifo)
      BY <1>3
    <2> QED
      BY <1>1, <1>3, <2>1 DEF IInv, ByteInv
  <1>5. /\ wire' \in Seq(Numbers \X Positions) /\ Len(wire') = Len(wire) + 1
        /\ \A i \in 1..Len(wire) : wire'[i] = wire[i]
        /\ wire'[Len(wire) + 1] = Head(fifo)
    BY <1>1, <1>2, <1>3, AppendFacts
  <1>6. \A i \in 1..Len(wire) : wire'[i] = <<number, i>>
    BY <1>5 DEF IInv, ByteInv
  <1> QED
    BY <1>1, <1>2, <1>3, <1>4, <1>5, <1>6

\* Sending a byte moves it from the FIFO to the wire.
LEMMA SendByteStep ==
  ASSUME IInv, SendByte, UNCHANGED <<taskVars, m_bBusy, m_nRemaining, irq, nStatus>>
  PROVE  IInv'
  <1>1. /\ UNCHANGED <<pc, commands, number, nCount, nLeft, m_bBusy, m_nRemaining>>
        /\ UNCHANGED <<irq, nStatus, DONE, interrupts>>
        /\ toSend' = toSend - 1 /\ nacked' \in BOOLEAN
        /\ ERR' = (ERR \/ nacked')
        /\ bus' = IF nacked' \/ toSend = 1 THEN "stopping" ELSE "sending"
    BY DEF SendByte, taskVars
  <1>2. /\ bus = "sending" /\ Busy /\ Started /\ ~nacked /\ ~ERR /\ toSend > 0
        /\ Len(wire) \in Nat /\ Len(wire) + toSend = nCount
        /\ Len(wire') = Len(wire) + 1
        /\ wire' \in Seq(Numbers \X Positions)
        /\ \A i \in 1..Len(wire) : wire'[i] = <<number, i>>
        /\ wire'[Len(wire) + 1] = <<number, Len(wire) + 1>>
        /\ fifo' \in Seq(Numbers \X Positions)
        /\ Len(fifo) \in Nat \ {0} /\ Len(fifo') = Len(fifo) - 1
        /\ \A i \in 1..(Len(fifo) - 1) : fifo'[i] = fifo[i + 1]
    BY SentByte
  <1>3. PICK w \in Nat, f \in Nat, s \in Nat, c \in Nat, r \in Nat :
           /\ w = Len(wire) /\ f + 1 = Len(fifo) /\ s = toSend' /\ c = nCount
           /\ r = Remaining
    <2>1. nCount \in Nat /\ Remaining \in Nat /\ toSend' \in Nat /\ Len(fifo') \in Nat
      BY <1>1, <1>2, SequenceFacts, SMTT(60) DEF IInv, Remaining
    <2> QED
      BY <1>2, <2>1
  <1>4. /\ Len(wire') = w + 1 /\ Len(fifo') = f /\ toSend = s + 1 /\ w + 1 + s = c
        /\ bus' \in {"sending", "stopping"}
        /\ bus' = "sending" => s > 0 /\ ~nacked'
        /\ bus' = "stopping" => nacked' \/ s = 0
    <2>1. toSend \in Nat
      BY SequenceFacts DEF IInv
    <2>4. toSend = s + 1
      BY <1>1, <1>3, <2>1
    <2>5. Len(wire') = w + 1 /\ Len(fifo') = f
      BY <1>2, <1>3, SMTT(60)
    <2>6. w + (s + 1) = c
      BY <1>2, <1>3, <2>4
    <2>2. Len(wire') = w + 1 /\ Len(fifo') = f /\ toSend = s + 1 /\ w + 1 + s = c
      BY <2>4, <2>5, <2>6
    <2>3. toSend = 1 <=> s = 0
      BY <2>2
    <2> QED
      BY <1>1, <2>2, <2>3
  <1>5. TypeOK'
    <2>1. /\ Len(fifo') <= FIFOSize
          /\ toSend' \in 0..(CommandLength + FrameLength)
      BY <1>1, <1>2, <1>3, <1>4, Lengths, SMTT(60) DEF IInv, TypeOK
    <2>2. ERR' \in BOOLEAN /\ bus' \in {"idle", "sending", "stopping"}
      BY <1>1, <1>4
    <2> QED
      BY <1>1, <1>2, <2>1, <2>2 DEF IInv, TypeOK
  <1>6. TurnInv'
    BY <1>1 DEF IInv, TurnInv
  <1>7. BusInv'
    <2>1. Len(wire') + toSend' = nCount' /\ (s = 0 => Len(wire') = nCount')
      BY <1>1, <1>3, <1>4
    <2> QED
      BY <1>1, <1>2, <1>3, <1>4, <2>1 DEF IInv, BusInv, Busy, Started
  <1>8. ByteInv'
    <2>1. /\ w + (f + 1) + r = c
          /\ \A i \in 1..(f + 1) : fifo[i] = <<number, w + i>>
      BY <1>2, <1>3 DEF IInv, ByteInv
    <2>2. \A i \in 1..f : fifo'[i] = <<number, (w + 1) + i>>
      <3>1. \A i \in 1..f : fifo'[i] = fifo[i + 1]
        BY <1>2, <1>3
      <3>2. \A i \in 1..f : i + 1 \in 1..(f + 1) /\ w + (i + 1) = (w + 1) + i
        OBVIOUS
      <3> QED
        BY <2>1, <3>1, <3>2
    <2>3. (w + 1) + f + r = c /\ w + 1 <= c
      BY <1>4, <2>1
    <2>4. \A i \in 1..(w + 1) : wire'[i] = <<number, i>>
      <3>1. \A i \in 1..(w + 1) : i \in 1..w \/ i = w + 1
        OBVIOUS
      <3> QED
        BY <1>2, <1>3, <3>1
    <2>5. Remaining' = r
      BY <1>1, <1>3 DEF Remaining
    <2>6. pc \notin {"Write", "WritePrepare", "WriteAsync", "Clear"}
      BY <1>2 DEF Started
    <2> QED
      BY <1>1, <1>3, <1>4, <2>2, <2>3, <2>4, <2>5, <2>6 DEF ByteInv
  <1> QED
    BY <1>5, <1>6, <1>7, <1>8 DEF IInv

-----------------------------------------------------------------------------
\* Every step preserves the invariant.
LEMMA NextIInv == IInv /\ [Next]_vars => IInv'
  <1> SUFFICES ASSUME IInv, [Next]_vars PROVE IInv'
    OBVIOUS
  <1>1. CASE SendCommand \/ ShowAsync
    BY <1>1, SendCommandStep, ShowAsyncStep
  <1>2. CASE Write
    BY <1>2, WriteWaitStep, WritePrepareStep, WritePollStep, WriteFillStep DEF Write
  <1>3. CASE WriteAsync
    BY <1>3, WriteAsyncWaitStep, ClearFIFOStep, TaskFillFIFOStep, StartStep
       DEF WriteAsync
  <1>4. CASE IRQHandler
    BY <1>4, EnterIRQHandlerStep, IRQErrorStep, IRQFillFIFOStep, IRQNotDoneStep,
       IRQDoneStep, IRQOffStep DEF IRQHandler
  <1>5. CASE Controller
    BY <1>5, SendByteStep, AddressNotAcknowledgedStep, StopConditionStep
       DEF Controller
  <1>6. CASE UNCHANGED vars
    <2>1. /\ UNCHANGED <<pc, commands, number, nCount, nLeft, m_bBusy, m_nRemaining>>
          /\ UNCHANGED <<irq, nStatus, fifo, bus, toSend, ERR, DONE, interrupts>>
          /\ UNCHANGED <<wire, nacked>>
      BY <1>6 DEF vars, taskVars, ctlVars
    <2>2. TypeOK' /\ TurnInv'
      BY <2>1 DEF IInv, TypeOK, TurnInv
    <2>3. BusInv' /\ ByteInv'
      BY <2>1 DEF IInv, BusInv, ByteInv, Busy, Started, Remaining
    <2> QED
      BY <2>2, <2>3 DEF IInv
  <1> QED
    BY <1>1, <1>2, <1>3, <1>4, <1>5, <1>6 DEF Next

\* For every FIFO and every length: whose turn it is, what the bus does and
\* where each byte of the buffer is.
THEOREM IInvHolds == Spec => []IInv
  <1> QED
    BY InitIInv, NextIInv, PTL DEF Spec

\* Every variable keeps to its type; the FIFO never overflows.
THEOREM TypeCorrect == Spec => []TypeOK
  <1>1. IInv => TypeOK
    BY DEF IInv
  <1> QED
    BY <1>1, IInvHolds, PTL

\* WriteAsync sets the controller up undisturbed by the handler and by the
\* transfer before.
THEOREM TaskOwnsControllerHolds == Spec => []TaskOwnsController
  <1>1. IInv => TaskOwnsController
    BY DEF IInv, TurnInv, BusInv, TaskOwnsController, InterruptPending, TA
  <1> QED
    BY <1>1, IInvHolds, PTL

-----------------------------------------------------------------------------
(* Refinement.                                                             *)

\* The buffer of the transfer is one of those that can be sent.
LEMMA PayloadIsKnown ==
  ASSUME NEW n \in Numbers, NEW l \in {CommandLength, FrameLength}
  PROVE  Payload(n, l) \in {Payload(m, k) : m \in Numbers,
                                            k \in {CommandLength, FrameLength}}
  OBVIOUS

\* Its bytes.
LEMMA PayloadFacts ==
  ASSUME NEW n \in Numbers, NEW l \in {CommandLength, FrameLength}
  PROVE  /\ Len(Payload(n, l)) = l /\ l \in Nat
         /\ Payload(n, l) \in Seq(Numbers \X (1..l))
         /\ \A i \in 1..l : Payload(n, l)[i] = <<n, i>>
  BY Lengths DEF Payload

\* A sequence that agrees with the buffer is a prefix of it.
LEMMA PrefixOf ==
  ASSUME NEW S, NEW T, NEW s \in Seq(S), NEW p \in Seq(T), Len(s) <= Len(p),
         \A i \in 1..Len(s) : s[i] = p[i]
  PROVE  s = SubSeq(p, 1, Len(s))
  OBVIOUS

\* SendCommand and ShowAsync begin a transfer.
LEMMA BeginMapped ==
  ASSUME IInv, SendCommand \/ ShowAsync
  PROVE  Transfer!Begin
  <1>1. ~Busy
    BY Lengths DEF IInv, TypeOK, TurnInv, Busy, SendCommand, ShowAsync, Task, WritePCs
  <1>2. Busy'
    BY DEF SendCommand, ShowAsync, Task, Busy, WritePCs
  <1>3. number' \in Numbers /\ nCount' \in {CommandLength, FrameLength}
    BY DEF SendCommand, ShowAsync, NewTransfer, Numbers, IInv, TypeOK
  <1>4. Payload(number, nCount)' \in {Payload(m, k) : m \in Numbers,
                                          k \in {CommandLength, FrameLength}}
    BY <1>3, PayloadIsKnown DEF Payload
  <1>5. wire' = <<>> /\ nacked' = FALSE
    BY DEF SendCommand, ShowAsync, NewTransfer
  <1> QED
    BY <1>1, <1>2, <1>4, <1>5 DEF Transfer!Begin, Busy

\* The controller sends a byte, or is refused the address.
LEMMA SendMapped ==
  ASSUME IInv, SendByte, UNCHANGED <<taskVars, m_bBusy, m_nRemaining, irq, nStatus>>
  PROVE  Transfer!Send
  <1>1. /\ Busy /\ ~nacked /\ toSend > 0 /\ toSend \in Nat
        /\ Len(wire) \in Nat /\ Len(wire) + toSend = nCount
        /\ Len(wire') = Len(wire) + 1
        /\ wire' \in Seq(Numbers \X Positions)
        /\ \A i \in 1..Len(wire) : wire'[i] = <<number, i>>
        /\ wire'[Len(wire) + 1] = <<number, Len(wire) + 1>>
    BY SentByte, SequenceFacts DEF IInv
  <1>2. UNCHANGED <<pc, m_bBusy, number, nCount>> /\ nacked' \in BOOLEAN
    BY DEF SendByte, taskVars
  <1>8. number \in Numbers /\ nCount \in {CommandLength, FrameLength} /\ nCount \in Nat
    BY SequenceFacts DEF IInv, TypeOK
  <1>9. /\ Payload(number, nCount) \in Seq(Numbers \X (1..nCount))
        /\ Len(Payload(number, nCount)) = nCount
        /\ \A i \in 1..nCount : Payload(number, nCount)[i] = <<number, i>>
    BY <1>8, PayloadFacts
  <1>3. PICK p \in Seq(Numbers \X (1..nCount)) :
           /\ p = Payload(number, nCount) /\ Len(p) = nCount
           /\ \A i \in 1..nCount : p[i] = <<number, i>>
    BY <1>9
  <1>4. PICK w \in Nat : w = Len(wire) /\ w < nCount /\ nCount \in Nat
    <2>1. Len(wire) < nCount
      BY <1>1, <1>8
    <2> QED
      BY <1>1, <1>8, <2>1
  <1>5. \A i \in 1..(w + 1) : wire'[i] = p[i]
    <2>1. \A i \in 1..(w + 1) : (i \in 1..w \/ i = w + 1) /\ i \in 1..nCount
      BY <1>4
    <2> QED
      BY <1>1, <1>3, <1>4, <2>1
  <1>6. wire' = SubSeq(p, 1, w + 1)
    <2>1. Len(wire') = w + 1 /\ Len(wire') <= Len(p)
      BY <1>1, <1>3, <1>4
    <2> QED
      BY <1>1, <1>5, <2>1, PrefixOf
  <1>7. Payload(number, nCount)' = Payload(number, nCount)
    BY <1>2 DEF Payload
  <1> QED
    BY <1>1, <1>2, <1>3, <1>4, <1>6, <1>7 DEF Transfer!Send, Busy

\* A transfer that ends has been refused or is complete.
LEMMA EndMapped ==
  ASSUME IInv, IInv', Busy, ~Busy', nacked \/ Len(wire) = nCount,
         UNCHANGED <<number, nCount, wire, nacked>>
  PROVE  Transfer!End
  <1>1. nacked \/ wire = Payload(number, nCount)
    <2> SUFFICES ASSUME Len(wire) = nCount PROVE wire = Payload(number, nCount)
      OBVIOUS
    <2>1. wire \in Seq(Numbers \X Positions)
      BY SequenceFacts DEF IInv
    <2>4. number \in Numbers /\ nCount \in {CommandLength, FrameLength}
      BY DEF IInv, TypeOK
    <2>5. /\ Payload(number, nCount) \in Seq(Numbers \X (1..nCount))
          /\ Len(Payload(number, nCount)) = nCount
          /\ \A i \in 1..nCount : Payload(number, nCount)[i] = <<number, i>>
      BY <2>4, PayloadFacts
    <2>2. PICK p \in Seq(Numbers \X (1..nCount)) :
             /\ p = Payload(number, nCount) /\ Len(p) = nCount
             /\ \A i \in 1..nCount : p[i] = <<number, i>>
      BY <2>5
    <2>3. \A i \in 1..Len(wire) : wire[i] = p[i]
      BY <2>2 DEF IInv, ByteInv
    <2> QED
      BY <2>1, <2>2, <2>3
  <1>2. Payload(number, nCount)' = Payload(number, nCount)
    BY DEF Payload
  <1> QED
    BY <1>1, <1>2 DEF Transfer!End, Busy

\* What neither begins, sends nor ends leaves what ByteTransfer sees alone.
LEMMA StutterMapped ==
  ASSUME UNCHANGED <<number, nCount, wire, nacked>>, Busy' = Busy
  PROVE  UNCHANGED Transfer!vars
  <1>1. Payload(number, nCount)' = Payload(number, nCount)
    BY DEF Payload
  <1> QED
    BY <1>1 DEF Transfer!vars, Busy

\* The master implements ByteTransfer: with a FIFO, status bits, two
\* interrupts and a refusal anywhere, the display receives exactly the buffer.
THEOREM RefinesByteTransfer == Spec => TransferSpec
  <1>1. Init => Transfer!Init
    <2> SUFFICES ASSUME Init PROVE Transfer!Init
      OBVIOUS
    <2>1. ~Busy /\ number \in Numbers /\ nCount \in {CommandLength, FrameLength}
      BY DEF Init, Busy, WritePCs, Numbers
    <2> QED
      BY <2>1, PayloadIsKnown DEF Init, Transfer!Init, Busy
  <1>2. IInv /\ IInv' /\ [Next]_vars => [Transfer!Next]_Transfer!vars
    <2> SUFFICES ASSUME IInv, IInv', [Next]_vars
                 PROVE  Transfer!Next \/ UNCHANGED Transfer!vars
      OBVIOUS
    <2>1. CASE SendCommand \/ ShowAsync
      BY <2>1, BeginMapped DEF Transfer!Next
    <2>2. CASE WritePoll /\ DONE
      <3>1. /\ Busy /\ ~Busy'
            /\ nacked \/ Len(wire) = nCount
            /\ UNCHANGED <<number, nCount, wire, nacked>>
        BY <2>2 DEF WritePoll, Task, Busy, WritePCs, IInv, TurnInv, BusInv, Started
      <3> QED
        BY <3>1, EndMapped DEF Transfer!Next
    <2>3. CASE IRQError \/ IRQDone
      <3>1. /\ Busy /\ ~Busy' /\ pc = "loop"
            /\ UNCHANGED <<number, nCount, wire, nacked>>
        BY <2>3 DEF IRQError, IRQDone, IRQ, Busy, WritePCs, IInv, TurnInv
      <3>2. nacked \/ Len(wire) = nCount
        BY <2>3, <3>1 DEF IRQError, IRQDone, IRQ, IInv, BusInv, Started
      <3> QED
        BY <3>1, <3>2, EndMapped DEF Transfer!Next
    <2>4. CASE Controller /\ SendByte
      BY <2>4, SendMapped DEF Controller, Transfer!Next
    <2>5. CASE Controller /\ AddressNotAcknowledged
      <3>1. Busy /\ ~nacked
        BY <2>5 DEF AddressNotAcknowledged, IInv, BusInv
      <3>2. /\ UNCHANGED <<pc, m_bBusy, number, nCount, wire>>
            /\ wire = <<>> /\ nacked' = TRUE
        BY <2>5 DEF Controller, AddressNotAcknowledged, taskVars
      <3>3. Payload(number, nCount)' = Payload(number, nCount)
        BY <3>2 DEF Payload
      <3> QED
        BY <3>1, <3>2, <3>3 DEF Transfer!Next, Transfer!RefuseAddress, Busy
    <2>6. CASE Controller /\ StopCondition
      <3>1. UNCHANGED <<pc, m_bBusy, number, nCount, wire, nacked>>
        BY <2>6 DEF Controller, StopCondition, taskVars
      <3> QED
        BY <3>1, StutterMapped DEF Busy
    <2>7. CASE (Write /\ ~(WritePoll /\ DONE)) \/ WriteAsync
      <3>1. UNCHANGED <<m_bBusy, number, nCount, wire, nacked>>
        BY <2>7 DEF Write, WriteAsync, WriteWait, WriteAsyncWait, WaitForBus,
           WritePrepare, WritePoll, WriteFill, ClearFIFO, TaskFillFIFO, Fill,
           Filled, Start, Task, ctlVars
      <3>2. pc \in WritePCs <=> pc' \in WritePCs
        BY <2>7 DEF Write, WriteAsync, WriteWait, WriteAsyncWait, WaitForBus,
           WritePrepare, WritePoll, WriteFill, ClearFIFO, TaskFillFIFO, Start,
           Task, WritePCs
      <3> QED
        BY <3>1, <3>2, StutterMapped DEF Busy
    <2>8. CASE EnterIRQHandler \/ IRQFillFIFO \/ IRQNotDone \/ IRQOff
      <3>1. UNCHANGED <<pc, m_bBusy, number, nCount, wire, nacked>>
        BY <2>8 DEF EnterIRQHandler, IRQFillFIFO, IRQNotDone, IRQOff, IRQ, Fill,
           Filled, taskVars, ctlVars
      <3> QED
        BY <3>1, StutterMapped DEF Busy
    <2>9. CASE UNCHANGED vars
      <3>1. UNCHANGED <<pc, m_bBusy, number, nCount, wire, nacked>>
        BY <2>9 DEF vars, taskVars, ctlVars
      <3> QED
        BY <3>1, StutterMapped DEF Busy
    <2> QED
      BY <2>1, <2>2, <2>3, <2>4, <2>5, <2>6, <2>7, <2>8, <2>9
         DEF Next, Write, IRQHandler, Controller
  <1> QED
    BY <1>1, <1>2, IInvHolds, PTL DEF Spec, TransferSpec, Transfer!Spec

-----------------------------------------------------------------------------
(* Every transfer comes to its end: nothing waits for ever, and every step  *)
(* leaves less to do.                                                      *)

\* A transfer that has been started and is still busy: its interrupts are on,
\* a refusal and the end of the transfer have not been seen yet, and while the
\* bus is at work the controller wants exactly the bytes that are left.
EndInv ==
    /\ m_bBusy /\ Started =>
           /\ interrupts = StartInterrupts
           /\ nacked => ERR
           /\ bus # "idle" => toSend = Len(fifo) + m_nRemaining
    /\ Busy /\ Started => toSend <= nCount
    /\ Busy /\ Started /\ bus = "idle" => DONE

\* What an action of the main loop leaves alone.
LEMMA TaskFacts ==
  ASSUME NEW a, NEW b, Task(a, b)
  PROVE  irq = "none" /\ pc = a /\ pc' = b /\ irq' = irq /\ nStatus' = nStatus
  BY DEF Task

\* A byte more in the FIFO.
LEMMA FillFacts ==
  ASSUME TypeOK, Fill
  PROVE  /\ Len(fifo') = Len(fifo) + 1 /\ m_nRemaining' = m_nRemaining - 1
         /\ Len(fifo) \in Nat /\ m_nRemaining \in Nat \ {0}
         /\ UNCHANGED <<commands, number, nCount, nLeft, m_bBusy, bus, toSend>>
         /\ UNCHANGED <<ERR, DONE, interrupts, wire, nacked>>
  <1>1. fifo' = Append(fifo, <<number, nCount - m_nRemaining + 1>>)
    BY DEF Fill
  <1>2. fifo \in Seq(Numbers \X Positions) /\ Len(fifo) \in Nat /\ m_nRemaining \in Nat
    BY SequenceFacts
  <1>3. Len(fifo') = Len(fifo) + 1
    BY <1>1, <1>2
  <1> QED
    BY <1>2, <1>3 DEF Fill

\* The main loop keeps to it.
LEMMA TaskEnd == IInv /\ EndInv /\ (SendCommand \/ ShowAsync \/ Write \/ WriteAsync) => EndInv'
  <1> SUFFICES ASSUME IInv, EndInv PROVE (SendCommand \/ ShowAsync \/ Write \/ WriteAsync) => EndInv'
    OBVIOUS
  <1> USE DEF IInv
  <1>1. CASE SendCommand \/ ShowAsync
    BY <1>1 DEF SendCommand, ShowAsync, Task, EndInv, TurnInv, Started, Busy, WritePCs
  <1>2. CASE WriteWait \/ WriteAsyncWait \/ ClearFIFO
    BY <1>2 DEF WriteWait, WriteAsyncWait, WaitForBus, ClearFIFO, Task, EndInv, Started
  <1>3. CASE WritePrepare
    BY <1>3, SequenceFacts DEF WritePrepare, Task, EndInv, TurnInv, Started, WritePCs
  <1>4. CASE WritePoll
    BY <1>4 DEF WritePoll, Task, EndInv, TurnInv, Started, Busy, WritePCs
  <1>5. CASE WriteFill
    BY <1>5 DEF WriteFill, Task, EndInv, TurnInv, Started, Busy, WritePCs
  <1>6. CASE TaskFillFIFO
    BY <1>6 DEF TaskFillFIFO, Fill, Filled, Task, EndInv, Started
  <1>7. CASE Start
    <2>1. /\ pc = "Start" /\ m_bBusy /\ ~nacked /\ wire = <<>>
          /\ Len(wire) + Len(fifo) + Remaining = nCount
      BY <1>7 DEF Start, Task, TurnInv, BusInv, ByteInv, Started, WriteAsyncPCs
    <2>2. nCount = Len(fifo) + m_nRemaining /\ nCount <= nCount
      <3>1. Len(wire) = 0 /\ Remaining = m_nRemaining
        BY <2>1 DEF Remaining
      <3> QED
        BY <2>1, <3>1, SequenceFacts
    <2> QED
      BY <1>7, <2>1, <2>2, SequenceFacts DEF Start, Task, EndInv, Started
  <1> QED
    BY <1>1, <1>2, <1>3, <1>4, <1>5, <1>6, <1>7 DEF Write, WriteAsync

\* So does the handler.
LEMMA HandlerEnd == IInv /\ EndInv /\ IRQHandler => EndInv'
  <1> SUFFICES ASSUME IInv, EndInv PROVE IRQHandler => EndInv'
    OBVIOUS
  <1> USE DEF IInv
  <1>1. CASE EnterIRQHandler
    BY <1>1 DEF EnterIRQHandler, taskVars, ctlVars, EndInv, Started, Busy
  <1>2. CASE IRQError \/ IRQDone \/ IRQOff
    BY <1>2 DEF IRQError, IRQDone, IRQOff, IRQ, EndInv, TurnInv, Started, Busy, WritePCs
  <1>3. CASE IRQNotDone
    BY <1>3 DEF IRQNotDone, IRQ, ctlVars, EndInv, Started, Busy
  <1>4. CASE IRQFillFIFO
    <2>1. pc' = pc
      BY <1>4 DEF IRQFillFIFO, IRQ
    <2>2. CASE Fill
      BY <2>1, <2>2, FillFacts DEF EndInv, Started, Busy
    <2>3. CASE Filled
      BY <2>1, <2>3 DEF Filled, ctlVars, EndInv, Started, Busy
    <2> QED
      BY <1>4, <2>2, <2>3 DEF IRQFillFIFO
  <1> QED
    BY <1>1, <1>2, <1>3, <1>4 DEF IRQHandler

\* And the controller.
LEMMA ControllerEnd == IInv /\ EndInv /\ Controller => EndInv'
  <1> SUFFICES ASSUME IInv, EndInv, Controller PROVE EndInv'
    OBVIOUS
  <1>1. UNCHANGED <<pc, commands, number, nCount, nLeft, m_bBusy, m_nRemaining, irq, nStatus>>
    BY DEF Controller, taskVars
  <1>2. CASE SendByte
    <2>1. Len(fifo) \in Nat \ {0} /\ Len(fifo') = Len(fifo) - 1 /\ bus = "sending" /\ ~ERR
      BY <1>2, SentByte DEF Controller
    <2>2. toSend \in Nat /\ m_nRemaining \in Nat /\ nCount \in Nat
      BY SequenceFacts DEF IInv
    <2>3. bus' # "idle" /\ toSend' = toSend - 1 /\ (nacked' => ERR') /\ interrupts' = interrupts
      BY <1>2 DEF SendByte
    <2> QED
      BY <1>1, <2>1, <2>2, <2>3 DEF EndInv, Started, Busy
  <1>3. CASE AddressNotAcknowledged
    BY <1>1, <1>3 DEF AddressNotAcknowledged, EndInv, Started, Busy
  <1>4. CASE StopCondition
    BY <1>1, <1>4 DEF StopCondition, EndInv, Started, Busy
  <1> QED
    BY <1>2, <1>3, <1>4 DEF Controller

\* So every state has the two invariants.
LEMMA EndInvHolds == Spec => [](IInv /\ EndInv)
  <1>1. Init => EndInv
    BY DEF Init, EndInv, Busy, WritePCs
  <1>2. IInv /\ EndInv /\ [Next]_vars => EndInv'
    <2> SUFFICES ASSUME IInv, EndInv, [Next]_vars PROVE EndInv'
      OBVIOUS
    <2>1. CASE UNCHANGED vars
      BY <2>1 DEF vars, taskVars, ctlVars, EndInv, Started, Busy
    <2> QED
      BY <2>1, TaskEnd, HandlerEnd, ControllerEnd DEF Next
  <1> QED
    BY <1>1, <1>2, InitIInv, NextIInv, PTL DEF Spec

\* How much of an interrupt is still to be dealt with.
Handling ==
    CASE irq = "none" -> IF InterruptPending THEN 3 ELSE 0
      [] irq = "fill" -> IF DONE THEN 5 ELSE 2
      [] irq = "checkDone" ->
             IF "DONE" \notin nStatus /\ InterruptPending THEN 4 ELSE 1
      [] OTHER -> 1

\* How much of the transfer is still to be done on the bus.
OnTheBus == CASE bus = "sending" -> 2
              [] bus = "stopping" -> 1
              [] bus = "idle" -> 0

\* How much of WriteAsync is still to be done.
SettingUp == CASE pc = "WriteAsync" -> 3
               [] pc = "Clear" -> 2
               [] pc = "FillFIFO" -> 1
               [] pc = "Start" -> 0

\* What is left to do of a frame: bytes for the FIFO, bytes for the bus, the end
\* of the transfer, the interrupts; before its start, the setup as well.
FrameToGo ==
    IF pc = "loop" THEN m_nRemaining + 4 * (toSend + OnTheBus) + Handling
    ELSE m_nRemaining + 4 * (FrameLength + 3 + OnTheBus) + SettingUp

\* The range of what is left, by its parts.
LEMMA HandlingFacts ==
  ASSUME IInv
  PROVE  /\ Handling \in 0..5
         /\ irq = "none" => Handling = IF InterruptPending THEN 3 ELSE 0
         /\ irq = "fill" => Handling = IF DONE THEN 5 ELSE 2
         /\ irq = "checkDone" =>
                Handling = IF "DONE" \notin nStatus /\ InterruptPending THEN 4 ELSE 1
         /\ irq = "error" => Handling = 1
  <1>1. irq \in {"none", "error", "fill", "checkDone", "off"}
    BY DEF IInv, TypeOK
  <1> QED
    BY <1>1 DEF Handling

\* How much is left for the bus.
LEMMA BusFacts ==
  ASSUME IInv
  PROVE  /\ OnTheBus \in 0..2
         /\ bus = "sending" => OnTheBus = 2
         /\ bus = "stopping" => OnTheBus = 1
         /\ bus = "idle" => OnTheBus = 0
         /\ bus \in {"idle", "sending", "stopping"}
  BY DEF OnTheBus, IInv, TypeOK

\* What is left of a frame is bounded by its length, and each step of the main
\* loop leaves less.
LEMMA FrameBound ==
  ASSUME IInv, EndInv, m_bBusy
  PROVE  FrameToGo \in 0..(5 * FrameLength + 19)
  <1>1. /\ pc \in WriteAsyncPCs \cup {"loop"} /\ nCount = FrameLength
        /\ bus = "sending" => Started
    BY DEF IInv, TypeOK, TurnInv, BusInv
  <1>2. /\ Handling \in 0..5 /\ OnTheBus \in 0..2
        /\ bus # "sending" => OnTheBus \in 0..1
        /\ bus \in {"idle", "sending", "stopping"}
    BY HandlingFacts, BusFacts
  <1>3. m_nRemaining \in 0..FrameLength /\ FrameLength \in Nat /\ toSend \in Nat
    BY Lengths, SequenceFacts DEF IInv, TypeOK
  <1>4. CASE pc = "loop"
    <2>1. toSend <= FrameLength
      BY <1>1, <1>4 DEF EndInv, Started, Busy
    <2> QED
      BY <1>2, <1>3, <1>4, <2>1 DEF FrameToGo
  <1>5. CASE pc # "loop"
    <2>1. SettingUp \in 0..3
      BY <1>1, <1>5 DEF SettingUp, WriteAsyncPCs
    <2>2. OnTheBus \in 0..1
      BY <1>1, <1>2, <1>5 DEF Started, WriteAsyncPCs
    <2> QED
      BY <1>3, <1>5, <2>1, <2>2 DEF FrameToGo
  <1> QED
    BY <1>4, <1>5

\* A frame's setup goes on.
LEMMA SetupCounts ==
  ASSUME IInv, EndInv, m_bBusy, Write \/ WriteAsync \/ SendCommand \/ ShowAsync, IInv'
  PROVE  FrameToGo' < FrameToGo
  <1>1. WriteAsync /\ pc \in WriteAsyncPCs /\ nCount = FrameLength
    BY DEF IInv, TurnInv, Write, WriteWait, WritePrepare, WritePoll, WriteFill,
           SendCommand, ShowAsync, WaitForBus, Task, WriteAsync, WriteAsyncWait,
           ClearFIFO, TaskFillFIFO, Start, WritePCs, WriteAsyncPCs
  <1>2. /\ m_nRemaining \in Nat /\ FrameLength \in Nat /\ OnTheBus \in 0..2
        /\ FrameToGo = m_nRemaining + 4 * (FrameLength + 3 + OnTheBus) + SettingUp
    BY <1>1, Lengths, BusFacts, SequenceFacts DEF IInv, FrameToGo, WriteAsyncPCs
  <1>7. ASSUME bus' = bus, pc' \in WriteAsyncPCs
        PROVE  FrameToGo' = m_nRemaining' + 4 * (FrameLength + 3 + OnTheBus) + SettingUp'
    BY <1>7 DEF FrameToGo, OnTheBus, WriteAsyncPCs
  <1>8. ASSUME NEW r \in Nat, NEW n \in Nat, NEW k \in Nat, r + n < m_nRemaining + k
        PROVE  r + 4 * (FrameLength + 3 + OnTheBus) + n
                   < m_nRemaining + 4 * (FrameLength + 3 + OnTheBus) + k
    BY <1>2, <1>8
  <1>3. CASE WriteAsyncWait
    <2>1. bus' = bus /\ pc' = "Clear" /\ m_nRemaining' = m_nRemaining /\ pc = "WriteAsync"
      BY <1>3 DEF WriteAsyncWait, WaitForBus, Task
    <2>2. SettingUp = 3 /\ SettingUp' = 2
      BY <2>1 DEF SettingUp
    <2> QED
      BY <1>2, <1>7, <1>8, <2>1, <2>2 DEF WriteAsyncPCs
  <1>4. CASE ClearFIFO
    <2>1. bus' = bus /\ pc' = "FillFIFO" /\ m_nRemaining' = m_nRemaining /\ pc = "Clear"
      BY <1>4 DEF ClearFIFO, Task
    <2>2. SettingUp = 2 /\ SettingUp' = 1
      BY <2>1 DEF SettingUp
    <2> QED
      BY <1>2, <1>7, <1>8, <2>1, <2>2 DEF WriteAsyncPCs
  <1>5. CASE TaskFillFIFO
    <2>1. pc = "FillFIFO" /\ SettingUp = 1 /\ bus' = bus
      BY <1>5 DEF TaskFillFIFO, Task, SettingUp, Fill, Filled, ctlVars
    <2>2. CASE Fill
      <3>1. pc' = "FillFIFO" /\ m_nRemaining' = m_nRemaining - 1 /\ m_nRemaining > 0
        BY <1>5, <2>2 DEF TaskFillFIFO, Task, Filled, Fill
      <3>2. SettingUp' = 1
        BY <3>1 DEF SettingUp
      <3> QED
        BY <1>2, <1>7, <1>8, <2>1, <3>1, <3>2 DEF WriteAsyncPCs
    <2>3. CASE Filled
      <3>1. pc' = "Start" /\ m_nRemaining' = m_nRemaining
        BY <1>5, <2>3 DEF TaskFillFIFO, Task, Filled, Fill, ctlVars
      <3>2. SettingUp' = 0
        BY <3>1 DEF SettingUp
      <3> QED
        BY <1>2, <1>7, <1>8, <2>1, <3>1, <3>2 DEF WriteAsyncPCs
    <2> QED
      BY <1>5, <2>2, <2>3 DEF TaskFillFIFO
  <1>6. CASE Start
    <2>1. /\ pc' = "loop" /\ bus = "idle" /\ bus' = "sending" /\ toSend' = FrameLength
          /\ m_nRemaining' = m_nRemaining /\ pc = "Start" /\ irq' = "none"
      BY <1>1, <1>6 DEF Start, Task, IInv, BusInv
    <2>2. OnTheBus = 0 /\ OnTheBus' = 2 /\ SettingUp = 0
      BY <2>1 DEF OnTheBus, SettingUp
    <2>3. Handling' \in Nat /\ Handling' <= 3
      BY <2>1 DEF Handling
    <2>4. FrameToGo' = m_nRemaining' + 4 * (toSend' + OnTheBus') + Handling'
      BY <2>1 DEF FrameToGo
    <2>5. FrameToGo' = m_nRemaining + 4 * (FrameLength + 2) + Handling'
      BY <2>1, <2>2, <2>4
    <2>6. FrameToGo = m_nRemaining + 4 * (FrameLength + 3) + 0
      BY <1>2, <2>2
    <2> QED
      BY <1>2, <2>3, <2>5, <2>6
  <1> QED
    BY <1>1, <1>3, <1>4, <1>5, <1>6 DEF WriteAsync

\* The handler runs only for a frame that has been started.
LEMMA HandlerAtLoop ==
  ASSUME IInv, m_bBusy, IRQHandler
  PROVE  /\ pc = "loop" /\ pc' = pc /\ toSend' = toSend /\ bus' = bus
         /\ FrameToGo = m_nRemaining + 4 * (toSend + OnTheBus) + Handling
         /\ FrameToGo' = m_nRemaining' + 4 * (toSend + OnTheBus) + Handling'
         /\ m_nRemaining \in Nat /\ toSend \in Nat /\ OnTheBus \in 0..2
  <1>1. pc = "loop"
    BY DEF IInv, TurnInv, IRQHandler, EnterIRQHandler, InterruptPending, IRQError, IRQFillFIFO,
           IRQNotDone, IRQDone, IRQOff, IRQ
  <1>2. pc' = pc /\ toSend' = toSend /\ bus' = bus
    <2>1. CASE EnterIRQHandler
      BY <2>1, Zenon DEF EnterIRQHandler, taskVars, ctlVars
    <2>2. CASE IRQError \/ IRQFillFIFO \/ IRQNotDone \/ IRQDone \/ IRQOff
      BY <2>2 DEF IRQError, IRQFillFIFO, IRQNotDone, IRQDone, IRQOff, IRQ, Fill, Filled, ctlVars
    <2> QED
      BY <2>1, <2>2 DEF IRQHandler
  <1>3. OnTheBus' = OnTheBus
    BY <1>2 DEF OnTheBus
  <1>4. FrameToGo' = m_nRemaining' + 4 * (toSend' + OnTheBus') + Handling'
    BY <1>1, <1>2 DEF FrameToGo
  <1> QED
    BY <1>1, <1>2, <1>3, <1>4, SequenceFacts, BusFacts DEF FrameToGo, IInv

\* With the FIFO filled as far as it goes no more data is asked for.
LEMMA FilledAsksNoMore ==
  ASSUME IInv, EndInv, m_bBusy, pc = "loop", Filled
  PROVE  ~TXW
  <1>1. /\ Len(fifo) \in Nat /\ m_nRemaining \in Nat /\ toSend \in Nat
        /\ FIFOSize \in Nat \ {0}
    BY Lengths, SequenceFacts DEF IInv
  <1>2. m_nRemaining = 0 \/ Len(fifo) >= FIFOSize
    BY <1>1 DEF Filled, TXD
  <1>3. bus # "idle" => toSend = Len(fifo) + m_nRemaining
    BY DEF EndInv, Started
  <1> QED
    BY <1>1, <1>2, <1>3 DEF TXW

\* What is left is less if one part of it is.
LEMMA LessOfOnePart ==
  ASSUME NEW r \in Nat, NEW w \in Nat, NEW a \in Int, NEW c \in Int, a < c
  PROVE  r + w + a < r + w + c
  OBVIOUS

\* An entry of the handler, a round of FillFIFO, a return: each counts.
LEMMA HandlerCounts ==
  ASSUME IInv, EndInv, m_bBusy, IRQHandler, IInv'
  PROVE  m_bBusy' => FrameToGo' < FrameToGo
  <1>1. /\ pc = "loop" /\ pc' = pc /\ toSend' = toSend /\ bus' = bus
        /\ FrameToGo = m_nRemaining + 4 * (toSend + OnTheBus) + Handling
        /\ FrameToGo' = m_nRemaining' + 4 * (toSend + OnTheBus) + Handling'
        /\ m_nRemaining \in Nat /\ toSend \in Nat /\ OnTheBus \in 0..2
    BY HandlerAtLoop
  <1>6. PICK r \in Nat, w \in Nat :
            /\ r = m_nRemaining /\ r \in Nat /\ w \in Nat
            /\ FrameToGo = r + w + Handling
            /\ FrameToGo' = m_nRemaining' + w + Handling'
    BY <1>1, 4 * (toSend + OnTheBus) \in Nat
  <1>2. CASE EnterIRQHandler
    <2>1. UNCHANGED <<m_nRemaining, DONE, ERR>> /\ nStatus' = ReadStatus
      BY <1>2, Zenon DEF EnterIRQHandler, ctlVars
    <2>2. Handling = 3
      BY <1>2, HandlingFacts DEF EnterIRQHandler
    <2>3. Handling' \in Nat /\ Handling' <= 2
      <3>1. CASE "ERR" \in ReadStatus
        <4>1. irq' = "error"
          <5>1. \E x : /\ x = irq'
                       /\ x = CASE "ERR" \in ReadStatus -> "error"
                               [] ReadStatus \cap {"ERR", "TXW"} = {"TXW"} -> "fill"
                               [] OTHER -> "checkDone"
            BY <1>2, Zenon DEF EnterIRQHandler
          <5>2. ReadStatus \cap {"ERR", "TXW"} # {"TXW"}
            BY <3>1
          <5> QED
            BY <3>1, <5>1, <5>2, Zenon
        <4> QED
          BY <4>1 DEF Handling
      <3>2. CASE "ERR" \notin ReadStatus /\ TXW
        <4>1. irq' = "fill"
          <5>1. ReadStatus \cap {"ERR", "TXW"} = {"TXW"}
            BY <3>2 DEF ReadStatus, StatusBits
          <5> QED
            BY <1>2, <3>2, <5>1, Zenon DEF EnterIRQHandler
        <4>2. ~DONE'
          BY <2>1, <3>2 DEF IInv, BusInv, TXW
        <4> QED
          BY <4>1, <4>2 DEF Handling
      <3>3. CASE "ERR" \notin ReadStatus /\ ~TXW
        <4>1. irq' = "checkDone"
          <5>1. ReadStatus \cap {"ERR", "TXW"} # {"TXW"}
            BY <3>3 DEF ReadStatus
          <5> QED
            BY <1>2, <3>3, <5>1, Zenon DEF EnterIRQHandler
        <4>2. "DONE" \in nStatus'
          BY <1>2, <2>1, <3>3 DEF EnterIRQHandler, InterruptPending, ReadStatus, StatusBits
        <4> QED
          BY <4>1, <4>2 DEF Handling
      <3> QED
        BY <3>1, <3>2, <3>3
    <2>4. m_nRemaining' = m_nRemaining
      BY <2>1
    <2>5. FrameToGo = r + w + 3
      BY <1>6, <2>2
    <2>6. PICK n \in Nat : n = Handling' /\ n <= 2
      BY <2>3
    <2>7. FrameToGo' = r + w + n
      BY <1>6, <2>4, <2>6
    <2>8. r + w + n < r + w + 3
      BY <1>6, <2>6, LessOfOnePart, n \in Int, 3 \in Int, n < 3
    <2>9. FrameToGo' < FrameToGo
      BY <2>5, <2>7, <2>8
    <2> QED
      BY <2>9
  <1>3. CASE IRQError \/ IRQDone \/ IRQOff
    BY <1>3 DEF IRQError, IRQDone, IRQOff, IRQ, IInv, TurnInv
  <1>4. CASE IRQNotDone
    <2>1. /\ irq = "checkDone" /\ irq' = "none" /\ "DONE" \notin nStatus
          /\ UNCHANGED <<m_nRemaining, fifo, DONE, interrupts>>
      BY <1>4 DEF IRQNotDone, IRQ, ctlVars
    <2>2. InterruptPending' <=> InterruptPending
      BY <1>1, <2>1 DEF InterruptPending, TXW
    <2>3. Handling = IF InterruptPending THEN 4 ELSE 1
      BY <2>1, HandlingFacts
    <2>4. Handling' = IF InterruptPending THEN 3 ELSE 0
      BY <2>1, <2>2 DEF Handling
    <2> QED
      BY <1>1, <2>1, <2>3, <2>4
  <1>5. CASE IRQFillFIFO
    <2>1. irq = "fill" /\ DONE' = DONE
      BY <1>5 DEF IRQFillFIFO, IRQ, Fill, Filled, ctlVars
    <2>2. Handling = IF DONE THEN 5 ELSE 2
      BY <2>1, HandlingFacts
    <2>3. CASE Fill
      <3>1. irq' = "fill" /\ m_nRemaining' = m_nRemaining - 1
        BY <1>5, <2>3 DEF IRQFillFIFO, IRQ, Fill, Filled
      <3>2. Handling' = Handling
        BY <2>1, <2>2, <3>1 DEF Handling
      <3>3. Handling \in 0..5
        BY HandlingFacts
      <3> QED
        BY <1>1, <3>1, <3>2, <3>3
    <2>4. CASE Filled
      <3>1. /\ irq' = "checkDone"
            /\ UNCHANGED <<m_nRemaining, fifo, DONE, interrupts>>
        BY <1>5, <2>4 DEF IRQFillFIFO, IRQ, Fill, Filled, ctlVars
      <3>2. ~TXW'
        BY <1>1, <2>4, <3>1, FilledAsksNoMore DEF TXW
      <3>3. InterruptPending' => DONE
        BY <3>1, <3>2 DEF InterruptPending
      <3>4. Handling' < Handling
        BY <2>2, <3>1, <3>3 DEF Handling
      <3>5. Handling \in Int /\ Handling' \in Int
        BY <3>1, HandlingFacts DEF Handling
      <3>6. m_nRemaining' = m_nRemaining
        BY <3>1
      <3>7. FrameToGo' = r + w + Handling'
        BY <1>6, <3>6
      <3>8. r + w + Handling' < r + w + Handling
        BY <1>6, <3>4, <3>5, LessOfOnePart
      <3>9. FrameToGo' < FrameToGo
        BY <1>6, <3>7, <3>8
      <3> QED
        BY <3>9
    <2> QED
      BY <1>5, <2>3, <2>4 DEF IRQFillFIFO
  <1> QED
    BY <1>2, <1>3, <1>4, <1>5 DEF IRQHandler

\* So does a byte on the bus, a refusal and the end of the transfer, whatever
\* the handler is at.
LEMMA ControllerCounts ==
  ASSUME IInv, EndInv, m_bBusy, Controller, IInv'
  PROVE  FrameToGo' < FrameToGo
  <1>1. UNCHANGED <<pc, nCount, m_bBusy, m_nRemaining, irq, nStatus>>
    BY DEF Controller, taskVars
  <1>2. /\ m_nRemaining \in Nat /\ toSend \in Nat /\ OnTheBus \in 0..2 /\ FrameLength \in Nat
        /\ Handling \in 0..5 /\ Handling' \in 0..5
    BY Lengths, SequenceFacts, BusFacts, HandlingFacts DEF IInv, Handling
  <1>3. toSend' + OnTheBus' < toSend + OnTheBus /\ toSend' + OnTheBus' \in Nat
    <2>1. CASE SendByte
      BY <1>2, <2>1 DEF SendByte, OnTheBus
    <2>2. CASE AddressNotAcknowledged
      BY <1>2, <2>2 DEF AddressNotAcknowledged, OnTheBus
    <2>3. CASE StopCondition
      BY <1>2, <2>3 DEF StopCondition, OnTheBus
    <2> QED
      BY <2>1, <2>2, <2>3 DEF Controller
  <1>4. CASE pc = "loop"
    <2>1. Handling' <= Handling + 3
      <3>1. irq \in {"none", "error", "fill", "checkDone", "off"}
        BY DEF IInv, TypeOK
      <3> QED
        BY <1>1, <3>1 DEF Handling
    <2>2. /\ FrameToGo = m_nRemaining + 4 * (toSend + OnTheBus) + Handling
          /\ FrameToGo' = m_nRemaining + 4 * (toSend' + OnTheBus') + Handling'
      BY <1>1, <1>4 DEF FrameToGo
    <2> QED
      BY <1>2, <1>3, <2>1, <2>2
  <1>5. CASE pc # "loop"
    <2>1. StopCondition
      BY <1>5 DEF IInv, TypeOK, TurnInv, BusInv, Started, WriteAsyncPCs, Controller,
                  SendByte, AddressNotAcknowledged
    <2>2. OnTheBus = 1 /\ OnTheBus' = 0 /\ SettingUp' = SettingUp
      BY <1>1, <2>1 DEF StopCondition, OnTheBus, SettingUp
    <2>3. SettingUp \in 0..3
      BY <1>5 DEF SettingUp, IInv, TypeOK, TurnInv, WriteAsyncPCs
    <2> QED
      BY <1>1, <1>2, <1>5, <2>2, <2>3 DEF FrameToGo
  <1> QED
    BY <1>4, <1>5

\* Every step while a frame is being sent, of whichever actor.
LEMMA FrameCounts ==
  IInv /\ EndInv /\ IInv' /\ [Next]_vars => [m_bBusy /\ m_bBusy' => FrameToGo' < FrameToGo]_vars
  <1> SUFFICES ASSUME IInv, EndInv, IInv', Next, m_bBusy, m_bBusy' PROVE FrameToGo' < FrameToGo
    OBVIOUS
  <1> QED
    BY SetupCounts, HandlerCounts, ControllerCounts DEF Next

\* What is left to do of a command: before its start, the setup as well.
CommandToGo ==
    IF Started THEN nLeft + (toSend + OnTheBus)
    ELSE nLeft + (CommandLength + 3 + OnTheBus) + (IF pc = "Write" THEN 1 ELSE 0)

\* Write looks at the status, or at the FIFO, and finds nothing to do.
Polling == \/ WritePoll /\ ~DONE
           \/ WriteFill /\ ~(nLeft > 0 /\ TXD)

\* A step for a command: Write returns, or less is left, or it polls in vain.
CommandGoesOn ==
    \/ pc' = "loop"
    \/ CommandToGo' < CommandToGo
    \/ Polling /\ CommandToGo' = CommandToGo

\* What is left of a command is bounded by its length.
LEMMA CommandBound ==
  ASSUME IInv, EndInv, pc \in WritePCs
  PROVE  /\ CommandToGo \in 0..(2 * CommandLength + 5)
         /\ nCount = CommandLength /\ irq = "none" /\ interrupts = {} /\ ~m_bBusy
         /\ nLeft \in 0..CommandLength /\ toSend \in Nat /\ OnTheBus \in 0..2
  <1>1. nCount = CommandLength /\ irq = "none" /\ interrupts = {} /\ ~m_bBusy
    BY DEF IInv, TurnInv, WritePCs
  <1>2. nLeft \in 0..CommandLength /\ toSend \in Nat /\ OnTheBus \in 0..2 /\ CommandLength \in Nat
    BY Lengths, SequenceFacts, BusFacts DEF IInv, TypeOK
  <1>3. CASE Started
    <2>1. toSend <= CommandLength
      BY <1>1, <1>3 DEF EndInv, Busy
    <2> QED
      BY <1>1, <1>2, <1>3, <2>1 DEF CommandToGo
  <1>4. CASE ~Started
    <2>1. OnTheBus \in 0..1
      BY <1>4, BusFacts DEF IInv, BusInv
    <2> QED
      BY <1>1, <1>2, <1>4, <2>1 DEF CommandToGo
  <1> QED
    BY <1>3, <1>4

\* Every step while a command is being sent is one of these.
LEMMA CommandCounts ==
  IInv /\ EndInv /\ [Next]_vars => [(pc \in WritePCs) => CommandGoesOn]_vars
  <1> SUFFICES ASSUME IInv, EndInv, Next, pc \in WritePCs, pc' # "loop"
               PROVE  \/ CommandToGo' < CommandToGo
                      \/ Polling /\ CommandToGo' = CommandToGo
    BY DEF CommandGoesOn
  <1>1. /\ nCount = CommandLength /\ irq = "none" /\ interrupts = {} /\ ~m_bBusy
        /\ nLeft \in 0..CommandLength /\ toSend \in Nat /\ OnTheBus \in 0..2
        /\ CommandLength \in Nat
    BY CommandBound, Lengths
  <1>2. CASE Write
    <2>1. CASE WriteWait
      <3>1. /\ pc = "Write" /\ pc' = "WritePrepare" /\ bus = "idle" /\ bus' = bus
            /\ nLeft' = nLeft
        BY <2>1 DEF WriteWait, WaitForBus, Task, TransferInactive, TA
      <3>2. OnTheBus = 0 /\ OnTheBus' = 0
        BY <3>1 DEF OnTheBus
      <3> QED
        BY <1>1, <3>1, <3>2 DEF CommandToGo, Started
    <2>2. CASE WritePrepare
      <3>1. /\ bus = "idle" /\ bus' = "sending" /\ toSend' = nCount /\ nLeft' = nLeft
            /\ pc = "WritePrepare" /\ pc' = "WritePoll"
        BY <2>2 DEF WritePrepare, Task, IInv, BusInv
      <3>2. OnTheBus = 0 /\ OnTheBus' = 2
        BY <3>1 DEF OnTheBus
      <3> QED
        BY <1>1, <3>1, <3>2 DEF CommandToGo, Started
    <2>3. CASE WritePoll
      <3>1. /\ pc = "WritePoll" /\ pc' = "WriteFill" /\ bus' = bus
            /\ nLeft' = nLeft /\ toSend' = toSend
        BY <2>3 DEF WritePoll, Task
      <3>2. Polling
        BY <2>3, <3>1 DEF WritePoll, Task, Polling
      <3>3. /\ CommandToGo = nLeft + (toSend + OnTheBus)
            /\ CommandToGo' = nLeft + (toSend + OnTheBus)
        BY <3>1 DEF CommandToGo, Started, OnTheBus
      <3> QED
        BY <3>2, <3>3
    <2>4. CASE WriteFill
      <3>1. /\ pc = "WriteFill" /\ pc' \in {"WritePoll", "WriteFill"} /\ bus' = bus
            /\ toSend' = toSend
        BY <2>4 DEF WriteFill, Task
      <3>2. /\ CommandToGo = nLeft + (toSend + OnTheBus)
            /\ CommandToGo' = nLeft' + (toSend + OnTheBus)
        BY <3>1 DEF CommandToGo, Started, OnTheBus
      <3>3. CASE nLeft > 0 /\ TXD
        <4>1. nLeft' = nLeft - 1
          BY <2>4, <3>3 DEF WriteFill
        <4> QED
          BY <1>1, <3>2, <4>1
      <3>4. CASE ~(nLeft > 0 /\ TXD)
        <4>1. nLeft' = nLeft
          BY <2>4, <3>4 DEF WriteFill
        <4>2. Polling
          BY <2>4, <3>4 DEF Polling
        <4> QED
          BY <3>2, <4>1, <4>2
      <3> QED
        BY <3>3, <3>4
    <2> QED
      BY <1>2, <2>1, <2>2, <2>3, <2>4 DEF Write
  <1>3. CASE Controller
    <2>1. UNCHANGED <<pc, nLeft>>
      BY <1>3 DEF Controller, taskVars
    <2>2. toSend' + OnTheBus' < toSend + OnTheBus /\ toSend' + OnTheBus' \in Nat
      <3>1. CASE SendByte
        BY <1>1, <3>1 DEF SendByte, OnTheBus
      <3>2. CASE AddressNotAcknowledged
        BY <1>1, <3>2 DEF AddressNotAcknowledged, OnTheBus
      <3>3. CASE StopCondition
        BY <1>1, <3>3 DEF StopCondition, OnTheBus
      <3> QED
        BY <1>3, <3>1, <3>2, <3>3 DEF Controller
    <2>3. CASE Started
      BY <1>1, <2>1, <2>2, <2>3 DEF CommandToGo, Started
    <2>4. CASE ~Started
      <3>1. StopCondition
        BY <1>3, <2>4 DEF IInv, BusInv, Controller, SendByte, AddressNotAcknowledged
      <3>2. OnTheBus = 1 /\ OnTheBus' = 0
        BY <3>1 DEF StopCondition, OnTheBus
      <3> QED
        BY <1>1, <2>1, <2>4, <3>2 DEF CommandToGo, Started
    <2> QED
      BY <2>3, <2>4
  <1>4. ~(SendCommand \/ ShowAsync \/ WriteAsync)
    BY DEF SendCommand, ShowAsync, WriteAsync, WriteAsyncWait, WaitForBus, ClearFIFO,
           TaskFillFIFO, Start, Task, WritePCs
  <1>5. ~IRQHandler
    BY <1>1 DEF IRQHandler, EnterIRQHandler, InterruptPending, IRQError, IRQFillFIFO,
                IRQNotDone, IRQDone, IRQOff, IRQ
  <1> QED
    BY <1>2, <1>3, <1>4, <1>5 DEF Next

\* The bus has something to do.
BusCanGoOn == bus = "stopping" \/ (bus = "sending" /\ fifo # <<>>)

\* The handler or the main loop has something to do for a frame.
FrameCanGoOn ==
    \/ irq # "none" \/ InterruptPending
    \/ pc \in WriteAsyncPCs /\ bus = "idle"

\* Write has something to do: not only to poll.
CommandCanGoOn ==
    \/ bus = "idle" /\ (pc \in {"Write", "WritePrepare"} \/ DONE)
    \/ bus = "sending" /\ nLeft > 0 /\ TXD

\* A bus that has nothing to send lacks data, which its writer still has.
LEMMA SomeoneGoesOn ==
  ASSUME IInv, EndInv
  PROVE  /\ m_bBusy => BusCanGoOn \/ FrameCanGoOn
         /\ pc \in WritePCs => BusCanGoOn \/ CommandCanGoOn
  <1>1. /\ Len(fifo) \in Nat /\ m_nRemaining \in Nat /\ nLeft \in Nat /\ toSend \in Nat
        /\ FIFOSize \in Nat \ {0} /\ bus \in {"idle", "sending", "stopping"}
        /\ fifo = <<>> => Len(fifo) = 0
    BY Lengths, SequenceFacts, BusFacts DEF IInv
  <1>2. CASE bus = "sending" /\ fifo = <<>>
    <2>1. /\ Busy /\ Started /\ toSend > 0 /\ Len(wire) + toSend = nCount
          /\ Len(wire) + Len(fifo) + Remaining = nCount /\ Len(wire) \in Nat
      BY <1>2, SequenceFacts DEF IInv, BusInv, ByteInv
    <2>2. Len(fifo) = 0 /\ Remaining = toSend /\ TXD /\ TXW
      <3>1. Len(fifo) = 0
        BY <1>1, <1>2
      <3>2. Remaining \in Nat
        BY <1>1 DEF Remaining
      <3>3. Remaining = toSend
        BY <1>1, <2>1, <3>1, <3>2
      <3> QED
        BY <1>1, <1>2, <2>1, <3>1, <3>3 DEF TXD, TXW
    <2>3. CASE m_bBusy
      <3>1. "INTT" \in interrupts
        BY <2>1, <2>3 DEF EndInv, StartInterrupts
      <3> QED
        BY <2>2, <2>3, <3>1 DEF FrameCanGoOn, InterruptPending, IInv, TurnInv
    <2>4. CASE ~m_bBusy
      BY <1>1, <1>2, <2>1, <2>2, <2>4 DEF CommandCanGoOn, Remaining
    <2> QED
      BY <2>3, <2>4
  <1>3. CASE bus = "idle"
    <2>1. ASSUME m_bBusy PROVE FrameCanGoOn
      <3>1. CASE Started
        <4>1. DONE /\ "INTD" \in interrupts
          BY <1>3, <2>1, <3>1 DEF EndInv, Busy, StartInterrupts
        <4> QED
          BY <4>1 DEF FrameCanGoOn, InterruptPending
      <3>2. CASE ~Started
        BY <1>3, <2>1, <3>2 DEF FrameCanGoOn, Started, IInv, TypeOK, TurnInv
      <3> QED
        BY <3>1, <3>2
    <2>2. ASSUME pc \in WritePCs PROVE CommandCanGoOn
      BY <1>3, <2>2 DEF CommandCanGoOn, EndInv, Busy, Started, WritePCs
    <2> QED
      BY <2>1, <2>2
  <1>4. CASE bus = "stopping" \/ (bus = "sending" /\ fifo # <<>>)
    BY <1>4 DEF BusCanGoOn
  <1>5. bus \in {"idle", "sending", "stopping"}
    BY <1>1
  <1> QED
    BY <1>2, <1>3, <1>4, <1>5

\* No step of the main loop, the handler or the controller is wasted on a frame:
\* each leaves less to do than before or ends the frame, which takes no more
\* than five steps a byte and nineteen.
THEOREM EveryStepOfAFrameCounts ==
  Spec => /\ [](m_bBusy => FrameToGo \in 0..(5 * FrameLength + 19))
          /\ [][m_bBusy /\ m_bBusy' => FrameToGo' < FrameToGo]_vars
  <1>1. IInv /\ EndInv => (m_bBusy => FrameToGo \in 0..(5 * FrameLength + 19))
    BY FrameBound
  <1> QED
    BY <1>1, FrameCounts, EndInvHolds, PTL DEF Spec

\* Of a command only the polls of Write are, and these leave alone what is left.
THEOREM EveryStepOfACommandCounts ==
  Spec => /\ [](pc \in WritePCs => CommandToGo \in 0..(2 * CommandLength + 5))
          /\ [][(pc \in WritePCs) => CommandGoesOn]_vars
  <1>1. IInv /\ EndInv => (pc \in WritePCs => CommandToGo \in 0..(2 * CommandLength + 5))
    BY CommandBound
  <1> QED
    BY <1>1, CommandCounts, EndInvHolds, PTL DEF Spec

\* The main loop, the handler and the bus never all wait for each other: while a
\* frame or a command is being sent one of them has something to do for it.
THEOREM NoTransferIsStuck ==
  Spec => /\ [](m_bBusy => BusCanGoOn \/ FrameCanGoOn)
          /\ [](pc \in WritePCs => BusCanGoOn \/ CommandCanGoOn)
  <1>1. IInv /\ EndInv => (m_bBusy => BusCanGoOn \/ FrameCanGoOn)
    BY SomeoneGoesOn
  <1>2. IInv /\ EndInv => (pc \in WritePCs => BusCanGoOn \/ CommandCanGoOn)
    BY SomeoneGoesOn
  <1> QED
    BY <1>1, <1>2, EndInvHolds, PTL
=============================================================================
