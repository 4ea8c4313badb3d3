-------------------------------- MODULE Window --------------------------------
(***************************************************************************)
(* GTSL::Window (Window.hpp) on Linux, between the X server, which queues  *)
(* events for it, and the application, whose delegate is called with what  *)
(* Update makes of them.  The server and the user are external: they press *)
(* and release at any time, move the pointer, show and hide the window,    *)
(* give the keyboard to other windows, and may go away.                    *)
(***************************************************************************)
EXTENDS Integers, Sequences, FiniteSets

CONSTANTS
  Symbols,      \* what the keyboard's codes stand for
  Known,        \* the key of each symbol that xcb_keysimToKey knows
  Details,      \* buttons of the mouse, as X numbers them: "1", ...
  Points,       \* where the pointer goes, in pixels: <<x, y>>
  Extent,       \* of the window, in pixels: <<width, height>>
  Scale,        \* of the positions in -1..1: 2 * Scale * a pixel divides by Extent
  NaN,
  MaxQueue,     \* events waiting: bounds the runs
  MaxActs       \* what the user does: bounds the runs

VARIABLES
  bound,        \* connection: "no", "error" as xcb_connect left it, or "yes"
  lastMousePosition,
  queue,        \* external: events that were not polled
  up,           \* external: the server answers
  mapped,       \* external: the window is shown
  focused,      \* external: the keyboard belongs to the window
  held,         \* external: symbols and buttons that are down
  turned,       \* external: where the wheel is
  acts,         \* history: how often the user did something
  missed,       \* history: what went up or down while the window had no keyboard
  down,         \* the application's view, made from the calls: keys and buttons
  wheel, at, moved, origin, focus, closing,
  crashed       \* an answer that did not come was used

windowVars == <<bound, lastMousePosition>>
serverVars == <<queue, up, mapped, focused, held, turned, missed, acts>>
viewVars == <<down, wheel, at, moved, origin, focus, closing, crashed>>
vars == <<windowVars, serverVars, viewVars>>

Wheel == {"4", "5"}

Inputs == Symbols \union (Details \ Wheel)

Nowhere == <<NaN, NaN>>

Init ==
  /\ bound = "no" /\ lastMousePosition = Nowhere
  /\ queue = <<>> /\ up = TRUE /\ mapped = FALSE /\ focused = FALSE /\ held = {}
  /\ turned = 0 /\ missed = {} /\ acts = 0
  /\ down = {} /\ wheel = 0 /\ at = Nowhere /\ moved = <<0, 0>> /\ origin = Nowhere
  /\ focus = FALSE /\ closing = FALSE /\ crashed = FALSE

-----------------------------------------------------------------------------
\* xcb_keysimToKey: letters in both cases are one key; what it does not know, as the
\* key of deletion, is the control key.
KeyOf(symbol) == IF symbol \in DOMAIN Known THEN Known[symbol] ELSE "LEFT_CONTROL"

\* xcb_mouseButtonToMouseButton.
ButtonOf(detail) ==
  CASE detail = "1" -> "LEFT_BUTTON" [] detail = "3" -> "RIGHT_BUTTON" [] OTHER -> "MIDDLE_BUTTON"

\* What the application is told that i is.
NameOf(i) == IF i \in Symbols THEN KeyOf(i) ELSE ButtonOf(i)

\* xcb_calculateMousePosition: from the upper left corner, down, to -1..1, upwards.
Normalized(p) == <<(2 * Scale * p[1]) \div Extent[1] - Scale, Scale - (2 * Scale * p[2]) \div Extent[2]>>

Minus(a, b) == [d \in 1..2 |-> IF NaN \in {a[d], b[d]} THEN NaN ELSE a[d] - b[d]]

-----------------------------------------------------------------------------
\* BindToOS: the connection may fail, and is kept.
BindToOS ==
  /\ bound = "no" /\ bound' = IF up THEN "yes" ELSE "error"
  /\ UNCHANGED <<lastMousePosition, serverVars, viewVars>>

\* ~Window destroys the window and disconnects; another Window starts anew.
Destroy ==
  /\ bound # "no" /\ bound' = "no" /\ lastMousePosition' = Nowhere
  /\ queue' = <<>> /\ mapped' = FALSE /\ focused' = FALSE /\ held' = {} /\ turned' = 0 /\ missed' = {} /\ UNCHANGED acts
  /\ down' = {} /\ wheel' = 0 /\ at' = Nowhere /\ moved' = <<0, 0>> /\ origin' = Nowhere
  /\ focus' = FALSE /\ closing' = FALSE
  /\ UNCHANGED <<up, crashed>>

\* What the server sends arrives in order, at a window that exists.
Send(events) ==
  /\ up /\ bound = "yes" /\ Len(queue) + Len(events) <= MaxQueue
  /\ queue' = queue \o events

Acts == acts < MaxActs /\ acts' = acts + 1

Event(type, of) == <<[type |-> type, of |-> of]>>

\* SetWindowVisibility shows the window, whether visible is true or not.
SetWindowVisibility(visible) ==
  /\ IF mapped THEN UNCHANGED <<queue, mapped>> ELSE Send(Event("map", mapped)) /\ mapped' = TRUE
  /\ UNCHANGED <<windowVars, up, focused, held, turned, missed, acts, viewVars>>

\* The window manager hides it; the keyboard goes elsewhere.
Hide ==
  /\ Acts /\ mapped /\ Send(Event("unmap", mapped)) /\ mapped' = FALSE /\ focused' = FALSE
  /\ UNCHANGED <<windowVars, up, held, turned, missed, viewVars>>

Focus ==
  /\ Acts /\ mapped /\ bound = "yes" /\ up /\ focused' = ~focused
  /\ UNCHANGED <<windowVars, queue, up, mapped, held, turned, missed, viewVars>>

\* Keys are told to the window that has the keyboard; a button that went down in the
\* window comes up in it.
Toggle(i) ==
  /\ Acts /\ up /\ bound = "yes"
  /\ held' = IF i \in held THEN held \ {i} ELSE held \union {i}
  /\ IF IF i \in Symbols THEN focused ELSE mapped \/ i \in held
     THEN Send(Event(IF i \in held THEN "release" ELSE "press", i)) /\ missed' = missed \ {i}
     ELSE i \in Symbols /\ missed' = missed \union {i} /\ UNCHANGED queue
  /\ UNCHANGED <<windowVars, up, mapped, focused, turned, viewVars>>

\* A key that is held repeats as a release and a press.
Repeat(i) ==
  /\ Acts /\ i \in held \cap Symbols /\ focused /\ Send(Event("release", i) \o Event("press", i))
  /\ missed' = missed \ {i}
  /\ UNCHANGED <<windowVars, up, mapped, focused, held, turned, viewVars>>

\* The wheel is the buttons 4 and 5.
Turn(i) ==
  /\ Acts /\ mapped /\ Send(Event("press", i) \o Event("release", i))
  /\ turned' = turned + (IF i = "4" THEN 1 ELSE -1)
  /\ UNCHANGED <<windowVars, up, mapped, focused, held, missed, viewVars>>

\* The pointer moves, on the screen of the window or on another one.
Move(p, sameScreen) ==
  /\ Acts /\ mapped /\ Send(Event(IF sameScreen THEN "motion" ELSE "elsewhere", p))
  /\ UNCHANGED <<windowVars, up, mapped, focused, held, turned, missed, viewVars>>

\* Another client wants the window closed.
AskToClose ==
  /\ Acts /\ Send(Event("client", "wmDeleteWin"))
  /\ UNCHANGED <<windowVars, up, mapped, focused, held, turned, missed, viewVars>>

ServerGoes == up /\ up' = FALSE /\ UNCHANGED <<windowVars, queue, mapped, focused, held, turned, missed, acts, viewVars>>

-----------------------------------------------------------------------------
Say(viewed) == UNCHANGED viewed /\ UNCHANGED lastMousePosition

\* Update takes the events one after the other until there is none; those that had
\* arrived when the server went are still there.
Polled(type) ==
  /\ bound = "yes" /\ ~crashed /\ queue # <<>> /\ Head(queue).type = type
  /\ queue' = Tail(queue)
  /\ UNCHANGED <<bound, up, mapped, focused, held, turned, missed, acts>>

What == Head(queue).of

Visibility ==
  /\ \/ Polled("map") /\ focus' = TRUE
     \/ Polled("unmap") /\ focus' = FALSE
  /\ Say(<<down, wheel, at, moved, origin, closing, crashed>>)

\* Mutant: the wheel's buttons are buttons.
PressAll ==
  /\ Polled("press") /\ down' = down \union {NameOf(What)}
  /\ Say(<<wheel, at, moved, origin, focus, closing, crashed>>)

\* XCB_BUTTON_PRESS and XCB_KEY_PRESS.
Press ==
  /\ Polled("press")
  /\ IF What \in Wheel
     THEN wheel' = wheel + (IF What = "4" THEN 1 ELSE -1) /\ UNCHANGED down
     ELSE down' = down \union {NameOf(What)} /\ UNCHANGED wheel
  /\ Say(<<at, moved, origin, focus, closing, crashed>>)

\* XCB_BUTTON_RELEASE and XCB_KEY_RELEASE.
Release ==
  /\ Polled("release")
  /\ down' = IF What \in Wheel THEN down ELSE down \ {NameOf(What)}
  /\ Say(<<wheel, at, moved, origin, focus, closing, crashed>>)

\* XCB_MOTION_NOTIFY: the position is of the extent that the server answers with,
\* and nobody looks whether it does.  No position equals NAN, so the first move is
\* not told from the others and its delta is not a number.
MotionNotify ==
  /\ Polled("motion")
  /\ IF ~up
     THEN crashed' = TRUE /\ UNCHANGED <<lastMousePosition, at, moved, origin>>
     ELSE LET delta == Minus(Normalized(What), lastMousePosition)
          IN  /\ lastMousePosition' = Normalized(What) /\ at' = Normalized(What)
              /\ IF NaN \in {delta[1], delta[2]}
                 THEN origin' = Normalized(What) /\ UNCHANGED moved
                 ELSE moved' = [d \in 1..2 |-> moved[d] + delta[d]] /\ UNCHANGED origin
              /\ UNCHANGED crashed
  /\ UNCHANGED <<down, wheel, focus, closing>>

\* Motion on other screens is passed over.
Elsewhere == Polled("elsewhere") /\ Say(viewVars)

ClientMessage ==
  /\ Polled("client") /\ closing' = TRUE
  /\ Say(<<down, wheel, at, moved, origin, focus, crashed>>)

\* GetWindowExtent, called by the application.
GetWindowExtent ==
  /\ bound # "no" /\ crashed' = ~(up /\ bound = "yes") /\ ~crashed
  /\ UNCHANGED <<windowVars, serverVars, down, wheel, at, moved, origin, focus, closing>>

Update == Visibility \/ Press \/ Release \/ MotionNotify \/ Elsewhere \/ ClientMessage

Next ==
  \/ BindToOS \/ Destroy \/ Update \/ GetWindowExtent
  \/ \E visible \in BOOLEAN : SetWindowVisibility(visible)
  \/ \E i \in Inputs : Toggle(i) \/ Repeat(i)
  \/ \E i \in Wheel : Turn(i)
  \/ \E p \in Points, sameScreen \in BOOLEAN : Move(p, sameScreen)
  \/ Hide \/ Focus \/ AskToClose \/ ServerGoes

Spec == Init /\ [][Next]_vars

-----------------------------------------------------------------------------
\* When all events were taken, the application knows what the user does: the wheel,
\* whether the window is shown, what is held.  A key or button of several codes may be
\* called up while another code of it is held, never down while none is; what changed
\* while the keyboard was elsewhere is not known.  The moves that were told add up to
\* the way from the first position to the last.
SeesTheUser ==
  /\ bound = "yes" /\ ~crashed /\ queue = <<>> =>
       /\ wheel = turned
       /\ focus = mapped
       /\ \A name \in down : \E i \in held \union missed : NameOf(i) = name
       /\ \A i \in Inputs \ missed :
            (\A j \in Inputs \ {i} : NameOf(j) # NameOf(i)) => (NameOf(i) \in down <=> i \in held)
  /\ at # Nowhere => at = [d \in 1..2 |-> origin[d] + moved[d]]
  /\ crashed => ~up
=============================================================================
