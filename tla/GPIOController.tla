---------------------------- MODULE GPIOController ----------------------------
(***************************************************************************)
(* CGPIOController: Read scans the button pins one after the other while   *)
(* the player moves, Send turns the scan into one DS4 report, or into two  *)
(* if opposite directions of the D-pad are pressed, and passes each to     *)
(* SendDS4Report.  A report is its hat, its face buttons and its counter   *)
(* (CUSBDS4GadgetEndpoint::CreateDS4Report); the bytes that are always the *)
(* same are left out.                                                      *)
(***************************************************************************)
EXTENDS Integers, Sequences

CONSTANTS
    ScanOrder,          \* the buttons in the order in which Read reads them
    CounterSize,        \* values of the u8 nCounter: 256
    CounterField        \* values of the counter in a report: 64

DPad == {"Up", "Right", "Down", "Left"}

Buttons == {ScanOrder[i] : i \in 1..Len(ScanOrder)}

ASSUME ScanOrderAssumption == ScanOrder \in Seq(STRING) /\ DPad \subseteq Buttons
ASSUME CounterAssumption ==
    /\ CounterField \in Nat \ {0}
    /\ \E k \in 1..CounterSize : CounterSize = k * CounterField

VARIABLES
    pins,               \* the buttons the player presses right now
    pc,                 \* Read, Send, or between the two reports of Send
    next,               \* the next button of ScanOrder to read
    state,              \* TDS4ButtonState: the buttons read as pressed
    nCounter,
    report,             \* the last report passed to SendDS4Report
    previous,           \* history: the counter of the report before
    held, touched,      \* history: pressed all the time, or at some time,
                        \* since the scan began
    sent                \* history: the buttons in the reports of this scan

vars == <<pins, pc, next, state, nCounter, report, previous, held, touched,
          sent>>

-----------------------------------------------------------------------------
(* CUSBDS4GadgetEndpoint::CreateDS4Report.                                 *)

\* The hat of the pressed buttons s: diagonals before single directions.
Hat(s) ==
    IF      {"Up", "Right"} \subseteq s   THEN 1
    ELSE IF {"Right", "Down"} \subseteq s THEN 3
    ELSE IF {"Down", "Left"} \subseteq s  THEN 5
    ELSE IF {"Left", "Up"} \subseteq s    THEN 7
    ELSE IF "Up" \in s    THEN 0
    ELSE IF "Right" \in s THEN 2
    ELSE IF "Down" \in s  THEN 4
    ELSE IF "Left" \in s  THEN 6
    ELSE 8

CreateDS4Report(s, n) ==
    [hat |-> Hat(s), faces |-> s \ DPad, counter |-> n % CounterField]

\* InitDS4Report: nothing pressed.
Neutral == [hat |-> 8, faces |-> {}, counter |-> 0]

\* What a hat means to the host: "0=N 1=NE 2=E 3=SE 4=S 5=SW 6=W 7=NW".
HatDirections ==
    [h \in 0..8 |-> CASE h = 0 -> {"Up"}
                      [] h = 1 -> {"Up", "Right"}
                      [] h = 2 -> {"Right"}
                      [] h = 3 -> {"Right", "Down"}
                      [] h = 4 -> {"Down"}
                      [] h = 5 -> {"Down", "Left"}
                      [] h = 6 -> {"Left"}
                      [] h = 7 -> {"Left", "Up"}
                      [] h = 8 -> {}]

\* The buttons a report tells the host are pressed.
ReportedButtons(r) == HatDirections[r.hat] \cup r.faces

-----------------------------------------------------------------------------
(* CGPIOController::Send.                                                  *)

Conflict_vertical(s) == {"Up", "Down"} \subseteq s

Conflict(s) ==
    {"Up", "Down"} \subseteq s \/ {"Left", "Right"} \subseteq s

\* state1 and state2 of a conflict.
FirstHalf(s) == s \ {"Right", "Down"}
SecondHalf_leftKept(s) == s \ {"Up"}

SecondHalf(s) == s \ {"Up", "Left"}

\* What the reports of the pressed buttons s are made of.
Parts(s) == IF Conflict(s) THEN {FirstHalf(s), SecondHalf(s)} ELSE {s}

-----------------------------------------------------------------------------
TypeOK ==
    /\ pins \subseteq Buttons
    /\ pc \in {"Read", "Send", "SendSecond"}
    /\ next \in 1..(Len(ScanOrder) + 1)
    /\ state \subseteq Buttons
    /\ nCounter \in 0..(CounterSize - 1)
    /\ report \in [hat : 0..8, faces : SUBSET (Buttons \ DPad),
                   counter : 0..(CounterField - 1)]
    /\ previous \in 0..(CounterField - 1)
    /\ held \subseteq Buttons /\ touched \subseteq Buttons
    /\ sent \subseteq Buttons

\* No constructor initialises nCounter.
Init ==
    /\ pins = {}
    /\ pc = "Read" /\ next = 1 /\ state = {}
    /\ nCounter \in 0..(CounterSize - 1)
    /\ report = Neutral
    /\ previous = (nCounter + CounterField - 1) % CounterField
    /\ held = {} /\ touched = {} /\ sent = {}

\* The player presses or releases a button (or its contact bounces).
PinChange ==
    \E b \in Buttons :
        /\ pins' = IF b \in pins THEN pins \ {b} ELSE pins \cup {b}
        /\ held' = held \ {b}
        /\ touched' = touched \cup {b}
        /\ UNCHANGED <<pc, next, state, nCounter, report, previous, sent>>

PinRead_inverted == {ScanOrder[next]} \ pins

\* Pressed = read 0 (pull-up): CGPIOPin::Read is negated.
PinRead == {ScanOrder[next]} \cap pins

\* Read: the next pin.  The scan begins with the first one.
ReadPin ==
    /\ pc = "Read" /\ next <= Len(ScanOrder)
    /\ state' = (IF next = 1 THEN {} ELSE state) \cup PinRead
    /\ next' = next + 1
    /\ pc' = IF next = Len(ScanOrder) THEN "Send" ELSE "Read"
    /\ IF next = 1
       THEN held' = pins /\ touched' = pins /\ sent' = {}
       ELSE UNCHANGED <<held, touched, sent>>
    /\ UNCHANGED <<pins, nCounter, report, previous>>

NextCounter_saturated == IF nCounter = CounterSize - 1 THEN nCounter ELSE nCounter + 1

NextCounter == (nCounter + 1) % CounterSize

\* CreateDS4Report (report, &s, nCounter++); SendDS4Report (report).
SendReportOf(s) ==
    /\ report' = CreateDS4Report(s, nCounter)
    /\ nCounter' = NextCounter
    /\ previous' = report'.counter
    /\ sent' = sent \cup ReportedButtons(report')
    /\ UNCHANGED <<pins, state, held, touched>>

Send ==
    /\ pc = "Send" /\ ~Conflict(state)
    /\ SendReportOf(state)
    /\ pc' = "Read" /\ next' = 1

SendFirstHalf ==
    /\ pc = "Send" /\ Conflict(state)
    /\ SendReportOf(FirstHalf(state))
    /\ pc' = "SendSecond" /\ UNCHANGED next

SendSecondHalf ==
    /\ pc = "SendSecond"
    /\ SendReportOf(SecondHalf(state))
    /\ pc' = "Read" /\ next' = 1

MainLoop == ReadPin \/ Send \/ SendFirstHalf \/ SendSecondHalf

Next == PinChange \/ MainLoop

Spec == Init /\ [][Next]_vars

-----------------------------------------------------------------------------
(* Properties.                                                             *)

\* The buttons this scan has read.
Scanned == {ScanOrder[i] : i \in 1..(next - 1)}

Scanning == pc # "Read" \/ next > 1

\* What is held is pressed and what is pressed is touched; a scan contains
\* what was held, and nothing that was not touched; the first report of a conflict has shown its half of it.
ScanInv ==
    /\ held \subseteq pins /\ pins \subseteq touched
    /\ pc = "Read" => next <= Len(ScanOrder)
    /\ pc # "Read" => next = Len(ScanOrder) + 1
    /\ Scanning => held \cap Scanned \subseteq state /\ state \subseteq touched
    /\ pc = "SendSecond" => Conflict(state) /\ FirstHalf(state) \subseteq sent

\* However the pins change during the scan, a report never shows a button
\* that was not pressed at any time since the scan began.
NoPhantomButton == sent \subseteq touched

\* When a scan has been sent, every button that was pressed all the time has
\* been in one of its reports, with opposite directions as well.
HeldButtonsAreSent == pc = "Read" /\ next = 1 => held \subseteq sent

\* The next report carries the counter after the last one's.
CounterInv == nCounter % CounterField = (previous + 1) % CounterField

\* The inductive invariant.
IInv ==
    TypeOK /\ ScanInv /\ CounterInv /\ NoPhantomButton /\ HeldButtonsAreSent

\* What the host reads in a report is what the report was made of: no hat
\* hides a pressed direction or shows another one, and the two reports of a
\* conflict add up to the scan.
ReportsMeanTheirState ==
    pc = "Send" =>
        /\ UNION Parts(state) = state
        /\ \A part \in Parts(state) :
               ReportedButtons(CreateDS4Report(part, nCounter)) = part

\* Report counters go up by one modulo CounterField, for both reports of a
\* conflict and across the wrap of the u8.
CounterCountsReports ==
    [][report' # report =>
           report'.counter = (previous + 1) % CounterField]_vars
=============================================================================
