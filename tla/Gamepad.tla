-------------------------------- MODULE Gamepad --------------------------------
(***************************************************************************)
(* GTSL::Gamepad (Gamepad.h, its Windows side): Update asks the system for *)
(* the state of a pad and calls the application for each control that      *)
(* changed.  The pads, which number their states, are external: they are   *)
(* moved, unplugged and replaced at any time.                              *)
(***************************************************************************)
EXTENDS Naturals

CONSTANTS
  Analog,       \* triggers and thumb sticks
  Buttons,      \* dpad, start, back, thumbs, shoulders, a, b, x, y
  Positions,    \* of a trigger or stick; one of them is Rest
  Rest,
  PacketModulus \* there are so many packet numbers

VARIABLES
  packetNumber, \* of the last state that was taken
  stored,       \* the controls of that state
  pad,          \* external: the controls as they are
  packet,       \* external: the number of the pad's state
  connected,    \* external
  view,         \* the application's controls, made from the calls
  since         \* history: changes of this pad since a state was taken; no more are
                \* counted when the number may be the same again

vars == <<packetNumber, stored, pad, packet, connected, view, since>>

Controls == Analog \union Buttons

Values(c) == IF c \in Analog THEN Positions ELSE {"up", "down"}

Neutral == [c \in Controls |-> IF c \in Analog THEN Rest ELSE "up"]

States == {s \in [Controls -> UNION {Values(c) : c \in Controls}] : \A c \in Controls : s[c] \in Values(c)}

Init ==
  /\ packetNumber = 0 /\ stored = Neutral /\ view = Neutral
  /\ pad \in States /\ packet \in 0..(PacketModulus - 1) /\ connected = TRUE
  /\ since = PacketModulus

\* The user moves a control, which numbers the state anew.
Act(c, value) ==
  /\ connected /\ pad[c] # value
  /\ pad' = [pad EXCEPT ![c] = value] /\ packet' = (packet + 1) % PacketModulus
  /\ since' = IF since < PacketModulus THEN since + 1 ELSE since
  /\ UNCHANGED <<packetNumber, stored, connected, view>>

\* A pad is unplugged; one that comes in its place has its own state and number.
Unplug == connected /\ connected' = FALSE /\ UNCHANGED <<packetNumber, stored, pad, packet, view, since>>

Plug(state, number) ==
  /\ ~connected /\ connected' = TRUE /\ pad' = state /\ packet' = number /\ since' = PacketModulus
  /\ UNCHANGED <<packetNumber, stored, view>>

\* Update does nothing without a pad, or when the number is the last one.
UpdateNothing == (~connected \/ packet = packetNumber) /\ UNCHANGED vars

Changed == {c \in Controls : pad[c] # stored[c]}

\* Mutant: triggers and sticks are told and not stored.
UpdateUnstored ==
  /\ connected /\ packet # packetNumber
  /\ packetNumber' = packet /\ since' = 0
  /\ view' = [c \in Controls |-> IF c \in Changed THEN pad[c] ELSE view[c]]
  /\ stored' = [c \in Controls |-> IF c \in Buttons THEN pad[c] ELSE stored[c]]
  /\ UNCHANGED <<pad, packet, connected>>

\* Each control that changed is told, and stored.
Update ==
  /\ connected /\ packet # packetNumber
  /\ packetNumber' = packet /\ since' = 0
  /\ view' = [c \in Controls |-> IF c \in Changed THEN pad[c] ELSE view[c]]
  /\ stored' = [c \in Controls |-> IF c \in Changed THEN pad[c] ELSE stored[c]]
  /\ UNCHANGED <<pad, packet, connected>>

Next ==
  \/ \E c \in Controls : \E value \in Values(c) : Act(c, value)
  \/ \E state \in States, number \in 0..(PacketModulus - 1) : Plug(state, number)
  \/ Unplug \/ UpdateNothing \/ Update

Spec == Init /\ [][Next]_vars

-----------------------------------------------------------------------------
\* The application, which is told of changes only, never parts from what Gamepad
\* stores, through reconnections and with every pad; and when Update finds no other
\* number the two are the state of the pad, unless the numbers went round or another
\* pad came with this one.
ChangesAddUp ==
  /\ view = stored
  /\ connected /\ packet = packetNumber /\ since < PacketModulus => view = pad
=============================================================================
