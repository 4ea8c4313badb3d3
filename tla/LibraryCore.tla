------------------------------ MODULE LibraryCore ------------------------------
(***************************************************************************)
(* Components of the library that share no state with one another, with    *)
(* what their correctness takes of the constants: LibraryProofs proves it. *)
(* MCLibrary adds the others.                                              *)
(***************************************************************************)
EXTENDS Integers, Sequences

CONSTANTS
  Pointers, Objects, Allocators, Null,                  \* SmartPointer
  PageLengths, PageCounts, PageValues, Unwritten, MaxLength, \* PagedVector
  MaxBuffer, MaxFile, LengthModulus, Unset,             \* Buffer, File
  Symbols, Details, PositionScale, NaN, MaxQueue, MaxActs, \* Window
  Analog, Buttons, StickPositions, Rest, PacketModulus, \* Gamepad
  Waiters, Workers, MaxAdds,                            \* Notification
  MaxGroups, PositionModulus,                           \* SparseVector
  Minima, MaxRows,                                      \* MultiVector
  MaxNodes,                                             \* Tree
  Keys, Sizes, MaxCount, MaxEmplaced                    \* KeyMap

VARIABLES
  focus,                                                \* the component used
  alive, data, allocator, home, freed, mixed,           \* SmartPointer
  pages, pageLength, length, at, list, lost,            \* PagedVector
  memory, bufferCapacity, bufferLength, readPos, written, read, beyond, odd,
  handle, pointer, content,                             \* Buffer, File
  bound, lastMousePosition, queue, up, mapped, focused, held, turned, acts, missed,
  down, wheel, cursor, moved, origin, keyboard, closing, crashed, \* Window
  packetNumber, stored, pad, packet, connected, shown, since, \* Gamepad
  outstanding, pc, waiting, adds, overtaken,            \* Notification
  groups, groupCount, placed, living, ended,            \* SparseVector
  aos, rowBytes, rowCapacity, rowCount, rowList, astray, \* MultiVector
  nodes, room, parent, destroyed,                       \* Tree
  count, capacity, buckets, emplaced                    \* KeyMap

\* What is written to buffers and files.
ByteStrings == {<<0, 1>>}

\* The symbols of the keyboard that the window knows.
KnownKeys == [s \in {"a", "Control_L"} |-> IF s = "a" THEN "A" ELSE "LEFT_CONTROL"]

\* Types of one, two and one byte, and rows of them.
SizesOfTypes == <<1, 2, 1>>
RowsUsed == {<<"a", "b", "c">>, <<"d", "e", "f">>}

WindowExtent == <<4, 2>>
CursorPoints == {<<0, 0>>, <<4, 1>>}

\* What the components' correctness takes of the constants.
ASSUME SmartPointerAssumption == Null \notin Objects /\ Null \notin Allocators
ASSUME PagedVectorAssumption == PageLengths \subseteq Nat \ {0} /\ PageCounts \subseteq Nat
ASSUME FileAssumption == ByteStrings \subseteq Seq(Nat) /\ LengthModulus \in Nat \ {0}
ASSUME WindowAssumption ==
  /\ Symbols \intersect (Details \union {"4", "5"}) = {}
  /\ NaN \notin Int /\ PositionScale \in Int
  /\ WindowExtent[1] \in Nat \ {0} /\ WindowExtent[2] \in Nat \ {0}
  /\ \A p \in CursorPoints : p[1] \in Int /\ p[2] \in Int
ASSUME GamepadAssumption == PacketModulus \in Nat \ {0} /\ Rest \in StickPositions
ASSUME NotificationAssumption == Waiters \intersect Workers = {}
ASSUME SparseVectorAssumption == PositionModulus \in Nat \ {0} /\ MaxGroups \in Nat
ASSUME MultiVectorAssumption == SizesOfTypes \in Seq(Nat \ {0}) /\ Minima \subseteq Nat
ASSUME KeyMapAssumption == Keys \subseteq Nat /\ Sizes \subseteq Nat \ {0}

S == INSTANCE SmartPointer
P == INSTANCE PagedVector WITH Values <- PageValues, Raw <- Unwritten
B == INSTANCE File WITH capacity <- bufferCapacity, length <- bufferLength, taken <- read,
                        wild <- beyond, Raw <- Unwritten, Values <- ByteStrings,
                        MaxLength <- MaxBuffer
W == INSTANCE Window WITH at <- cursor, focus <- keyboard, Known <- KnownKeys,
                          Points <- CursorPoints, Extent <- WindowExtent,
                          Scale <- PositionScale
G == INSTANCE Gamepad WITH view <- shown, Positions <- StickPositions
N == INSTANCE Notification WITH count <- outstanding
V == INSTANCE SparseVector WITH Empty <- Unwritten, Modulus <- PositionModulus
Y == INSTANCE MultiVector WITH data <- rowBytes, capacity <- rowCapacity, length <- rowCount,
                               list <- rowList, beyond <- astray, TypeSizes <- SizesOfTypes,
                               Rows <- RowsUsed, NoByte <- Unwritten
T == INSTANCE Tree
K == INSTANCE KeyMap WITH calls <- emplaced, MaxCalls <- MaxEmplaced

smartPointer == <<alive, data, allocator, home, freed, mixed>>
pagedVector == <<pages, pageLength, length, at, list, lost>>
file == <<memory, bufferCapacity, bufferLength, readPos, written, read, beyond, odd,
          handle, pointer, content>>
window == <<bound, lastMousePosition, queue, up, mapped, focused, held, turned, acts, missed,
            down, wheel, cursor, moved, origin, keyboard, closing, crashed>>
gamepad == <<packetNumber, stored, pad, packet, connected, shown, since>>
notification == <<outstanding, pc, waiting, adds, overtaken>>
sparseVector == <<groups, groupCount, placed, living, ended>>
multiVector == <<aos, rowBytes, rowCapacity, rowCount, rowList, astray>>
tree == <<nodes, room, parent, destroyed>>
keyMap == <<count, capacity, buckets, emplaced>>

CoreComponents == {"SmartPointer", "PagedVector", "File", "Window", "Gamepad", "Notification",
                   "SparseVector", "MultiVector", "Tree", "KeyMap"}

coreVars == <<smartPointer, pagedVector, file, window, gamepad, notification, sparseVector,
              multiVector, tree, keyMap>>

CoreInit ==
  /\ S!Init
  /\ P!Init /\ (focus = "PagedVector" \/ <<pageLength, Len(pages)>> = <<1, 1>>)
  /\ B!Init
  /\ W!Init
  /\ G!Init /\ (focus = "Gamepad" \/ <<pad, packet>> = <<stored, 0>>)
  /\ N!Init
  /\ V!Init
  /\ Y!Init /\ (focus = "MultiVector" \/ <<aos, rowCapacity>> = <<TRUE, 0>>)
  /\ T!Init
  /\ K!Init /\ (focus = "KeyMap" \/ count = 1)

\* Only a component in focus changes.
Rests(component, state) == IF focus = component THEN TRUE ELSE UNCHANGED state

\* Of these components.
CoreRests ==
  /\ UNCHANGED focus
  /\ Rests("SmartPointer", smartPointer) /\ Rests("PagedVector", pagedVector)
  /\ Rests("File", file) /\ Rests("Window", window) /\ Rests("Gamepad", gamepad)
  /\ Rests("Notification", notification) /\ Rests("SparseVector", sparseVector)
  /\ Rests("MultiVector", multiVector) /\ Rests("Tree", tree)
  /\ Rests("KeyMap", keyMap)

CoreNext ==
  /\ \/ focus = "SmartPointer" /\ S!Next
     \/ focus = "PagedVector" /\ P!Next
     \/ focus = "File" /\ B!Next
     \/ focus = "Window" /\ W!Next
     \/ focus = "Gamepad" /\ G!Next
     \/ focus = "Notification" /\ N!Next
     \/ focus = "SparseVector" /\ V!Next
     \/ focus = "MultiVector" /\ Y!Next
     \/ focus = "Tree" /\ T!Next
     \/ focus = "KeyMap" /\ K!Next
  /\ CoreRests

\* The library, as far as these components can tell.
CoreSpec == CoreInit /\ [][CoreNext]_<<focus, coreVars>>

-----------------------------------------------------------------------------
\* SmartPointer: one owner, with the allocator of the object.
OneOwnerItsAllocator == focus = "SmartPointer" => S!OneOwnerItsAllocator

\* PagedVector and SparseVector: index and iterator find the same objects, in the order
\* of their emplacement, and none is lost; MultiVector: every value of every row is found.
IndexAndIteratorAgree ==
  /\ focus = "PagedVector" => P!IndexAndIteratorAgree
  /\ focus = "SparseVector" => V!FindsTheFirst
  /\ focus = "MultiVector" => Y!RowsReadBack

\* Buffer: what is read is what was written, in its order.
StreamOfBytes == focus = "File" => B!StreamOfBytes

\* Window: the application's view of keys, buttons, pointer and focus is the user's.
SeesTheUser == focus = "Window" => W!SeesTheUser

\* Gamepad: the changes that were reported add up to the pad's state.
ChangesAddUp == focus = "Gamepad" => G!ChangesAddUp

\* Notification: only a Post between a waiter's test and its wait is missed.
OnlyTheGapIsMissed == focus = "Notification" => N!OnlyTheGapIsMissed

\* Tree: ForEach, iteration and the history agree.
WalksAgree == focus = "Tree" => T!WalksAgree

\* KeyMap: Find is exact through resizes, and no bucket overflows.
FindsWhatWasEmplaced == focus = "KeyMap" => K!FindsWhatWasEmplaced
=============================================================================
