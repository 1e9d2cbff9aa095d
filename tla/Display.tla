-------------------------------- MODULE Display --------------------------------
(***************************************************************************)
(* The display: CKernel::Run draws the button state into the frame buffer  *)
(* of COLED and sends it with ShowAsync, while the I2C handler may still   *)
(* be reading the buffer for the frame before.  The transfer itself is the *)
(* one of ByteTransfer, which I2CMasterAsync implements.                   *)
(*                                                                         *)
(* A frame is cut into NParts parts; a part holds the button state it was  *)
(* drawn for and where in the picture it belongs.  The SSD1306 stores what *)
(* it receives at an address that goes up by itself and wraps after the    *)
(* last part (horizontal addressing mode); no command sets the address.    *)
(***************************************************************************)
EXTENDS Integers

CONSTANTS
    States,             \* the button states
    NoButton,           \* the state in which none is pressed
    NParts,             \* parts of a frame
    MaxRefusals         \* bound on the bytes the display does not acknowledge

ASSUME StatesAssumption == NoButton \in States
ASSUME NPartsAssumption == NParts \in Nat \ {0} /\ MaxRefusals \in Nat

Blank == "blank"
Parts == 1..NParts
Contents == (States \cup {Blank}) \X Parts

VARIABLES
    buttons,            \* the buttons pressed right now
    runAt,              \* where CKernel::Run is
    state, prevState,   \* of CKernel::Run
    drawn,              \* the parts DrawOLEDButtons has drawn
    frame,              \* m_DisplayBuffer of COLED
    m_bBusy,            \* a transfer is running
    sent,               \* the parts it has sent
    refused,            \* the last transfer was refused
    refusals,           \* refusals so far
    screen,             \* what the display shows
    address             \* where it stores the next part

loopVars    == <<runAt, state, prevState, drawn, frame>>
busVars     == <<m_bBusy, sent, refused, refusals, screen, address>>
displayVars == <<buttons, loopVars, busVars>>

BlankFrame == [p \in Parts |-> <<Blank, p>>]

TypeOK ==
    /\ buttons \in States
    /\ runAt \in {"gadget", "Read", "check", "Clear", "Draw", "Show"}
    /\ state \in States /\ prevState \in States
    /\ drawn \in 0..NParts
    /\ frame \in [Parts -> Contents]
    /\ m_bBusy \in BOOLEAN
    /\ sent \in 0..NParts
    /\ refused \in BOOLEAN /\ refusals \in 0..MaxRefusals
    /\ screen \in [Parts -> Contents]
    /\ address \in Parts

\* COLED::Initialize has begun to send an empty frame.
DisplayInit ==
    /\ buttons \in States
    /\ runAt = "gadget"
    /\ state = NoButton /\ prevState = NoButton
    /\ drawn = 0
    /\ frame = BlankFrame
    /\ m_bBusy = TRUE /\ sent = 0 /\ refused = FALSE /\ refusals = 0
    /\ screen = BlankFrame /\ address = 1

-----------------------------------------------------------------------------
(* CKernel::Run and DrawOLEDButtons.                                       *)

Loop(at, next) ==
    /\ runAt = at /\ runAt' = next
    /\ UNCHANGED buttons

\* m_PS4Gadget.Initialize: the delays in it (100 ms in Reset, 25 and 40 ms in
\* InitCore) outlast the first frame (1025 bytes at 400 kHz: 23 ms).  Run
\* then draws the state without buttons without asking IsShowDone.
InitializeGadget ==
    /\ Loop("gadget", "Clear")
    /\ ~m_bBusy
    /\ UNCHANGED <<state, prevState, drawn, frame, busVars>>

Read ==
    /\ Loop("Read", "check")
    /\ state' = buttons
    /\ UNCHANGED <<prevState, drawn, frame, busVars>>

ShowDone_ignored == TRUE

ShowDone == ~m_bBusy

\* m_OLED.IsShowDone () && memcmp (&state, &prevState, sizeof state)
CheckChange ==
    /\ Loop("check", IF ShowDone /\ state # prevState THEN "Clear" ELSE "Read")
    /\ UNCHANGED <<state, prevState, drawn, frame, busVars>>

ClearFrame ==
    /\ Loop("Clear", "Draw")
    /\ frame' = BlankFrame /\ drawn' = 0
    /\ UNCHANGED <<state, prevState, busVars>>

LastPart == drawn + 1 = NParts

\* DrawLine and DrawButton, a part of the frame at a time.
DrawPart ==
    /\ Loop("Draw", IF LastPart THEN "Show" ELSE "Draw")
    /\ drawn' = drawn + 1
    /\ frame' = [frame EXCEPT ![drawn + 1] =
                              <<state, drawn + 1>>]
    /\ UNCHANGED <<state, prevState, busVars>>

PreviousState_beforeRead == buttons

PreviousState == state

\* ShowAsync, which does nothing if the master is busy; prevState = state.
Show ==
    /\ Loop("Show", "Read")
    /\ m_bBusy' = TRUE
    /\ IF m_bBusy THEN UNCHANGED <<sent, refused>>
       ELSE sent' = 0 /\ refused' = FALSE
    /\ prevState' = PreviousState
    /\ UNCHANGED <<state, drawn, frame, refusals, screen, address>>

-----------------------------------------------------------------------------
(* The player, the I2C master and the display.                             *)

Press ==
    /\ buttons' \in States
    /\ UNCHANGED <<loopVars, busVars>>

SendPart ==
    /\ m_bBusy /\ sent < NParts
    /\ sent' = sent + 1
    /\ screen' = [screen EXCEPT ![address] = frame[sent + 1]]
    /\ address' = (address % NParts) + 1
    /\ UNCHANGED <<buttons, loopVars, m_bBusy, refused, refusals>>

EndTransfer ==
    /\ m_bBusy /\ sent = NParts
    /\ m_bBusy' = FALSE
    /\ UNCHANGED <<buttons, loopVars, sent, refused, refusals, screen, address>>

\* The address or a byte is not acknowledged: the handler gives the frame up.
Refuse ==
    /\ m_bBusy /\ refusals < MaxRefusals
    /\ refusals' = refusals + 1
    /\ m_bBusy' = FALSE /\ refused' = TRUE
    /\ UNCHANGED <<buttons, loopVars, sent, screen, address>>

-----------------------------------------------------------------------------
Run == \/ InitializeGadget \/ Read \/ CheckChange \/ ClearFrame \/ DrawPart \/ Show

Transfer == SendPart \/ EndTransfer

DisplayNext == Run \/ Press \/ Transfer \/ Refuse

DisplaySpec == DisplayInit /\ [][DisplayNext]_displayVars

\* The main loop runs on, and a transfer comes to its end because the
\* controller clocks it out (EveryTransferEnds in I2CMasterAsync).
DisplayFairSpec == DisplaySpec /\ WF_displayVars(Run) /\ WF_displayVars(Transfer)

-----------------------------------------------------------------------------
(* Properties.                                                             *)

\* Where part p is shown when the first one is shown shift places too late.
Place(p, shift) == ((p - 1 + shift) % NParts) + 1

\* The shifts there may be: none unless a frame has been refused.
Shifts == {shift \in 0..NParts - 1 : refusals = 0 => shift = 0}

ScreenShows(s) == \A p \in Parts : screen[p][1] = s

\* A frame that the display has taken whole is one drawing, the one the main
\* loop believes to be shown, with every part once and in order: the buffer is
\* never redrawn under a transfer and never sent half drawn.  It is where it
\* belongs unless a frame has been refused before; then it may be rotated,
\* since no command sets the address back.
AcceptedFrameIsOneDrawing ==
    ~m_bBusy /\ ~refused /\ runAt \in {"Read", "check"} =>
        \E shift \in Shifts :
            \A p \in Parts : screen[Place(p, shift)] = <<prevState, p>>

\* The buffer holds what the main loop has drawn so far.
BufferInv ==
    /\ runAt = "Draw" => /\ drawn < NParts
                      /\ \A p \in 1..drawn : frame[p] = <<state, p>>
    /\ runAt = "Show" => \A p \in Parts : frame[p] = <<state, p>>
    /\ runAt \in {"Read", "check"} =>
          \A p \in Parts : frame[p] = <<prevState, p>>

\* No transfer runs while the main loop draws; one that is over and was not
\* refused is complete; without a refusal the address is back at the start.
TransferInv ==
    /\ runAt \in {"Clear", "Draw", "Show"} => ~m_bBusy
    /\ refused => ~m_bBusy /\ refusals > 0
    /\ ~m_bBusy /\ ~refused => sent = NParts
    /\ ~m_bBusy /\ refusals = 0 => address = 1

\* Until the main loop draws again, the parts sent are on the screen, from the
\* place on at which the transfer began.
ScreenInv ==
    m_bBusy \/ (~refused /\ runAt \in {"Read", "check"}) =>
        \E shift \in Shifts :
            /\ address = Place(sent + 1, shift)
            /\ \A p \in 1..sent : screen[Place(p, shift)] = frame[p]

\* The inductive invariant: what the buffer holds, when it is read, and what
\* has come of it to the screen of the display (DrawOLEDButtons, ShowAsync).
DisplayInv == TypeOK /\ BufferInv /\ TransferInv /\ ScreenInv

\* A change during a transfer is not forgotten: when the player keeps still,
\* the display comes to show the pressed buttons, unless it has refused the
\* last frame.
DisplayFollowsButtons ==
    <>[][FALSE]_buttons => <>[](refused \/ ScreenShows(buttons))

\* kernel.cpp:105: "Update OLED on state change": the display comes to show
\* the pressed buttons, also if it has refused a byte before.
DisplayIsUpdated == <>[][FALSE]_buttons => <>[]ScreenShows(buttons)
=============================================================================
