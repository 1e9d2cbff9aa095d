---------------------------- MODULE I2CMasterAsync ----------------------------
(***************************************************************************)
(* CI2CMasterAsync: the blocking Write that COLED::Initialize sends its    *)
(* commands with, the interrupt driven WriteAsync that COLED::ShowAsync    *)
(* sends frames with, and the BSC controller of the BCM2835 with its FIFO, *)
(* status bits and interrupts.                                             *)
(*                                                                         *)
(* The main loop (pc) does not run while the interrupt handler (irq) does; *)
(* the controller runs beside both.  A byte is the number of its transfer  *)
(* and its position in the buffer; transfers are numbered in a circle, so  *)
(* that a byte left over from an earlier one can be told from a new one.   *)
(* Clock stretching (CLKT) is left out: no code looks at it.               *)
(***************************************************************************)
EXTENDS Integers, Sequences

CONSTANTS
    FIFOSize,           \* BSC_FIFO_SIZE
    CommandLength,      \* nCount of COLED::SendCommand
    FrameLength,        \* nCount of COLED::ShowAsync
    Commands            \* commands sent by COLED::Initialize

ASSUME LengthsAssumption ==
    /\ FIFOSize \in Nat \ {0}
    /\ CommandLength \in Nat \ {0} /\ FrameLength \in Nat \ {0}
    /\ Commands \in Nat

\* How many transfers are told apart.
Numbers == 0..2

VARIABLES
    pc,                 \* where the main loop is
    commands,           \* commands COLED::Initialize has yet to send
    number, nCount,     \* the last transfer begun and its length
    nLeft,              \* of Write
    m_bBusy,
    m_nRemaining,       \* m_pBuf points to the byte nCount - m_nRemaining
    irq,                \* where IRQHandler is
    nStatus,            \* of IRQHandler: the status bits it has read
    fifo,               \* controller: the FIFO
    bus,                \* controller: the transfer on the bus
    toSend,             \* controller: bytes of DLEN still to send
    ERR, DONE,          \* controller: S_ERR and S_DONE
    interrupts,         \* controller: C_INTT and C_INTD
    wire,               \* what the display has received of this transfer
    nacked              \* the display has not acknowledged a byte

taskVars == <<pc, commands, number, nCount, nLeft>>
ctlVars  == <<fifo, bus, toSend, ERR, DONE, interrupts, wire, nacked>>
vars     == <<taskVars, m_bBusy, m_nRemaining, irq, nStatus, ctlVars>>

Payload(n, length) == [i \in 1..length |-> <<n, i>>]

Positions == 1..(CommandLength + FrameLength)

StatusBits == {"ERR", "TXW", "DONE"}

WritePCs == {"Write", "WritePrepare", "WritePoll", "WriteFill"}
WriteAsyncPCs == {"WriteAsync", "Clear", "FillFIFO", "Start"}

TypeOK ==
    /\ pc \in WritePCs \cup WriteAsyncPCs \cup {"loop"}
    /\ commands \in 0..Commands
    /\ number \in Numbers
    /\ nCount \in {CommandLength, FrameLength}
    /\ nLeft \in 0..CommandLength
    /\ m_bBusy \in BOOLEAN
    /\ m_nRemaining \in 0..FrameLength
    /\ irq \in {"none", "error", "fill", "checkDone", "off"}
    /\ nStatus \subseteq StatusBits
    /\ fifo \in Seq(Numbers \X Positions) /\ Len(fifo) <= FIFOSize
    /\ bus \in {"idle", "sending", "stopping"}
    /\ toSend \in 0..(CommandLength + FrameLength)
    /\ ERR \in BOOLEAN /\ DONE \in BOOLEAN
    /\ interrupts \subseteq {"INTT", "INTD"}
    /\ wire \in Seq(Numbers \X Positions)
    /\ nacked \in BOOLEAN

\* After CI2CMasterAsync::Initialize.
Init ==
    /\ pc = "loop" /\ commands = Commands
    /\ number = 0 /\ nCount = CommandLength /\ nLeft = 0
    /\ m_bBusy = FALSE /\ m_nRemaining = 0
    /\ irq = "none" /\ nStatus = {}
    /\ fifo = <<>> /\ bus = "idle" /\ toSend = 0
    /\ ERR = FALSE /\ DONE = FALSE /\ interrupts = {}
    /\ wire = <<>> /\ nacked = FALSE

-----------------------------------------------------------------------------
(* Status bits.                                                            *)

TXD_ignored == TRUE

TXD == Len(fifo) < FIFOSize

\* The FIFO is less than a quarter full and more data is needed.
TXW == bus # "idle" /\ 4 * Len(fifo) < FIFOSize /\ toSend > Len(fifo)

TA == bus # "idle"

\* "while (read32 (BSC_BASE + S_OFF) & S_TA)" is left.
TransferInactive_notAwaited == TRUE

TransferInactive == ~TA

ReadStatus == {b \in StatusBits : \/ b = "ERR" /\ ERR
                                  \/ b = "TXW" /\ TXW
                                  \/ b = "DONE" /\ DONE}

-----------------------------------------------------------------------------
(* The main loop.                                                          *)

Task(at, next) ==
    /\ irq = "none"
    /\ pc = at /\ pc' = next
    /\ UNCHANGED <<irq, nStatus>>

\* A new transfer gets the next number; nothing of it is on the wire.
NewTransfer(length) ==
    /\ number' = (number + 1) % 3
    /\ nCount' = length
    /\ wire' = <<>> /\ nacked' = FALSE

\* COLED::SendCommand: Write (I2CAddress, buf, 2).
SendCommand ==
    /\ Task("loop", "Write")
    /\ commands > 0 /\ commands' = commands - 1
    /\ NewTransfer(CommandLength)
    /\ nLeft' = CommandLength
    /\ UNCHANGED <<m_bBusy, m_nRemaining, fifo, bus, toSend, ERR, DONE,
                   interrupts>>

\* Write and WriteAsync clear the status and set A and DLEN.
ClearStatus == ERR' = FALSE /\ DONE' = FALSE

WaitForBus(at, next) ==
    /\ Task(at, next)
    /\ TransferInactive
    /\ ClearStatus
    /\ UNCHANGED <<commands, number, nCount, nLeft, m_bBusy, m_nRemaining,
                   fifo, bus, toSend, interrupts, wire, nacked>>

WriteWait == WaitForBus("Write", "WritePrepare")

\* C_CLEAR: what an earlier transfer has left in the FIFO is dropped.
ClearedFIFO_kept == fifo

ClearedFIFO == <<>>

\* C_I2CEN | C_CLEAR | C_ST
WritePrepare ==
    /\ Task("WritePrepare", "WritePoll")
    /\ fifo' = ClearedFIFO
    /\ bus' = "sending" /\ toSend' = nCount
    /\ interrupts' = {}
    /\ UNCHANGED <<commands, number, nCount, nLeft, m_bBusy, m_nRemaining,
                   ERR, DONE, wire, nacked>>

\* "while (!(read32 (BSC_BASE + S_OFF) & S_DONE))", then DONE is cleared.
WritePoll ==
    /\ Task("WritePoll", IF DONE THEN "loop" ELSE "WriteFill")
    /\ DONE' = FALSE
    /\ UNCHANGED <<commands, number, nCount, nLeft, m_bBusy, m_nRemaining,
                   fifo, bus, toSend, ERR, interrupts, wire, nacked>>

\* The inner loop of Write.
WriteFill ==
    /\ IF nLeft > 0 /\ TXD
       THEN /\ Task("WriteFill", "WriteFill")
            /\ fifo' = Append(fifo, <<number, nCount - nLeft + 1>>)
            /\ nLeft' = nLeft - 1
       ELSE /\ Task("WriteFill", "WritePoll")
            /\ UNCHANGED <<fifo, nLeft>>
    /\ UNCHANGED <<commands, number, nCount, m_bBusy, m_nRemaining, bus,
                   toSend, ERR, DONE, interrupts, wire, nacked>>

\* COLED::ShowAsync: WriteAsync unless the master is busy.
ShowAsync ==
    /\ Task("loop", "WriteAsync")
    /\ commands = 0
    /\ ~m_bBusy
    /\ m_bBusy' = TRUE
    /\ NewTransfer(FrameLength)
    /\ m_nRemaining' = FrameLength
    /\ UNCHANGED <<commands, nLeft, fifo, bus, toSend, ERR, DONE, interrupts>>

WriteAsyncWait == WaitForBus("WriteAsync", "Clear")

\* C_I2CEN | C_CLEAR
ClearFIFO ==
    /\ Task("Clear", "FillFIFO")
    /\ fifo' = ClearedFIFO
    /\ interrupts' = {}
    /\ UNCHANGED <<commands, number, nCount, nLeft, m_bBusy, m_nRemaining,
                   bus, toSend, ERR, DONE, wire, nacked>>

\* One round of FillFIFO, which the main loop and the handler share.
Fill ==
    /\ m_nRemaining > 0 /\ TXD
    /\ fifo' = Append(fifo, <<number, nCount - m_nRemaining + 1>>)
    /\ m_nRemaining' = m_nRemaining - 1
    /\ UNCHANGED <<commands, number, nCount, nLeft, m_bBusy, bus, toSend,
                   ERR, DONE, interrupts, wire, nacked>>

Filled ==
    /\ ~(m_nRemaining > 0 /\ TXD)
    /\ UNCHANGED <<commands, number, nCount, nLeft, m_bBusy, m_nRemaining,
                   ctlVars>>

TaskFillFIFO ==
    \/ Task("FillFIFO", "FillFIFO") /\ Fill
    \/ Task("FillFIFO", "Start") /\ Filled

StartInterrupts_noDone == {"INTT"}

StartInterrupts == {"INTT", "INTD"}

\* C_I2CEN | C_ST | C_INTT | C_INTD
Start ==
    /\ Task("Start", "loop")
    /\ bus' = "sending" /\ toSend' = nCount
    /\ interrupts' = StartInterrupts
    /\ UNCHANGED <<commands, number, nCount, nLeft, m_bBusy, m_nRemaining,
                   fifo, ERR, DONE, wire, nacked>>

-----------------------------------------------------------------------------
(* IRQHandler.                                                             *)

InterruptPending ==
    \/ "INTT" \in interrupts /\ TXW
    \/ "INTD" \in interrupts /\ DONE

EnterIRQHandler ==
    /\ irq = "none"
    /\ InterruptPending
    /\ nStatus' = ReadStatus
    /\ irq' = CASE "ERR" \in ReadStatus -> "error"
                [] ReadStatus \cap {"ERR", "TXW"} = {"TXW"} -> "fill"
                [] OTHER -> "checkDone"
    /\ UNCHANGED <<taskVars, m_bBusy, m_nRemaining, ctlVars>>

IRQ(at, next) ==
    /\ irq = at /\ irq' = next
    /\ UNCHANGED <<pc, nStatus>>

IRQError ==
    /\ IRQ("error", "off")
    /\ m_bBusy' = FALSE
    /\ ERR' = FALSE
    /\ UNCHANGED <<commands, number, nCount, nLeft, m_nRemaining, fifo, bus,
                   toSend, DONE, interrupts, wire, nacked>>

IRQFillFIFO ==
    \/ IRQ("fill", "fill") /\ Fill
    \/ IRQ("fill", "checkDone") /\ Filled

IRQNotDone ==
    /\ IRQ("checkDone", "none")
    /\ "DONE" \notin nStatus
    /\ UNCHANGED <<commands, number, nCount, nLeft, m_bBusy, m_nRemaining,
                   ctlVars>>

IRQDone ==
    /\ IRQ("checkDone", "off")
    /\ "DONE" \in nStatus
    /\ m_bBusy' = FALSE
    /\ DONE' = FALSE
    /\ UNCHANGED <<commands, number, nCount, nLeft, m_nRemaining, fifo, bus,
                   toSend, ERR, interrupts, wire, nacked>>

InterruptsAtEnd == {}

\* C_I2CEN: interrupts are disabled and the handler returns.
IRQOff ==
    /\ IRQ("off", "none")
    /\ interrupts' = InterruptsAtEnd
    /\ UNCHANGED <<commands, number, nCount, nLeft, m_bBusy, m_nRemaining,
                   fifo, bus, toSend, ERR, DONE, wire, nacked>>

-----------------------------------------------------------------------------
(* The controller and the display.                                         *)

\* The first byte of the FIFO goes out; the display may refuse it.
SendByte ==
    /\ bus = "sending" /\ toSend > 0 /\ fifo # <<>>
    /\ wire' = Append(wire, Head(fifo))
    /\ fifo' = Tail(fifo)
    /\ toSend' = toSend - 1
    /\ \E ack \in BOOLEAN :
           /\ nacked' = ~ack
           /\ ERR' = (ERR \/ ~ack)
           /\ bus' = IF ~ack \/ toSend = 1 THEN "stopping" ELSE "sending"
    /\ UNCHANGED <<DONE, interrupts>>

\* No display answers.
AddressNotAcknowledged ==
    /\ bus = "sending" /\ wire = <<>>
    /\ nacked' = TRUE /\ ERR' = TRUE
    /\ bus' = "stopping"
    /\ UNCHANGED <<fifo, toSend, DONE, interrupts, wire>>

StopCondition ==
    /\ bus = "stopping"
    /\ bus' = "idle" /\ DONE' = TRUE
    /\ UNCHANGED <<fifo, toSend, ERR, interrupts, wire, nacked>>

-----------------------------------------------------------------------------
Write == WriteWait \/ WritePrepare \/ WritePoll \/ WriteFill

WriteAsync == WriteAsyncWait \/ ClearFIFO \/ TaskFillFIFO \/ Start

IRQHandler ==
    \/ EnterIRQHandler \/ IRQError \/ IRQFillFIFO \/ IRQNotDone \/ IRQDone
    \/ IRQOff

Controller ==
    /\ SendByte \/ AddressNotAcknowledged \/ StopCondition
    /\ UNCHANGED <<taskVars, m_bBusy, m_nRemaining, irq, nStatus>>

Next ==
    \/ SendCommand \/ ShowAsync \/ Write \/ WriteAsync \/ IRQHandler
    \/ Controller

Spec == Init /\ [][Next]_vars

\* The program runs on, the controller clocks bytes out and a pending
\* interrupt is taken: nothing keeps interrupts off for good.
Fairness ==
    /\ WF_vars(Write) /\ WF_vars(WriteAsync) /\ WF_vars(IRQHandler)
    /\ WF_vars(Controller)

FairSpec == Spec /\ Fairness

-----------------------------------------------------------------------------
(* Properties.                                                             *)

\* While WriteAsync sets the controller up and fills the FIFO, neither the
\* handler, which shares FillFIFO, m_pBuf and m_nRemaining with it, nor a
\* transfer that is still stopping can interfere.
TaskOwnsController ==
    pc \in {"Clear", "FillFIFO", "Start"} =>
        irq = "none" /\ ~InterruptPending /\ ~TA /\ ~ERR /\ ~DONE

\* Every transfer, refused or not, ends: Write returns and m_bBusy is cleared.
EveryTransferEnds ==
    /\ m_bBusy ~> ~m_bBusy
    /\ pc \in WritePCs ~> pc = "loop"

\* The display receives exactly the bytes of the current buffer in order, and
\* a transfer ends only when it is complete or refused.
Transfer == INSTANCE ByteTransfer WITH
    Payloads <- {Payload(n, l) : n \in Numbers,
                                 l \in {CommandLength, FrameLength}},
    busy     <- m_bBusy \/ pc \in WritePCs,
    payload  <- Payload(number, nCount)

TransferSpec == Transfer!Spec

Busy == m_bBusy \/ pc \in WritePCs

\* The controller has been told to send the buffer.
Started == pc \in {"WritePoll", "WriteFill", "loop"}

\* Bytes of the buffer that are not in the FIFO yet.
Remaining == IF m_bBusy THEN m_nRemaining ELSE nLeft

\* Whose turn it is: commands come before frames, the handler runs only for a
\* frame that has been started.
TurnInv ==
    /\ m_bBusy => commands = 0 /\ nCount = FrameLength /\ pc \notin WritePCs
    /\ pc \in WriteAsyncPCs => m_bBusy
    /\ pc \in WritePCs => nCount = CommandLength
    /\ pc # "loop" => irq = "none" /\ interrupts = {}
    /\ irq = "none" /\ ~m_bBusy => interrupts = {}
    /\ irq \in {"error", "fill", "checkDone"} => m_bBusy
    /\ irq = "off" => ~m_bBusy

\* What the bus does follows the transfer of the main loop; what the handler
\* has read of the status still holds when it acts on it.
BusInv ==
    /\ bus = "sending" => /\ Busy /\ Started /\ ~nacked /\ ~ERR
                          /\ toSend > 0 /\ Len(wire) + toSend = nCount
    /\ bus # "sending" /\ Busy /\ Started => nacked \/ Len(wire) = nCount
    /\ Busy /\ Started /\ ERR => nacked
    /\ DONE => bus = "idle"
    /\ pc \in {"WritePrepare", "Clear", "FillFIFO", "Start"} =>
           bus = "idle" /\ ~ERR /\ ~DONE
    /\ ~Started => wire = <<>> /\ ~nacked
    /\ irq = "error" => nacked
    /\ irq \in {"fill", "checkDone"} /\ "DONE" \in nStatus => bus = "idle"

\* Wire, FIFO and the rest make up the buffer.
ByteInv ==
    /\ Len(wire) <= nCount
    /\ \A i \in 1..Len(wire) : wire[i] = <<number, i>>
    /\ bus = "sending" \/ pc \in {"FillFIFO", "Start"} =>
           /\ Len(wire) + Len(fifo) + Remaining = nCount
           /\ \A i \in 1..Len(fifo) : fifo[i] = <<number, Len(wire) + i>>
    /\ pc \in {"Write", "WritePrepare"} => nLeft = nCount
    /\ pc \in {"WriteAsync", "Clear"} => m_nRemaining = nCount

\* The inductive invariant: whose turn it is, what the bus does, and where each
\* byte of the buffer is (Write, WriteAsync, FillFIFO, IRQHandler).
IInv == TypeOK /\ TurnInv /\ BusInv /\ ByteInv
=============================================================================
