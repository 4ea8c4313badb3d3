--------------------------------- MODULE File ---------------------------------
(***************************************************************************)
(* GTSL::File (File.hpp, the Linux side) with the Buffer that it fills and *)
(* empties.  The kernel may take or give fewer bytes than it is asked for, *)
(* it may fail, and other processes append to the file at any time.        *)
(***************************************************************************)
EXTENDS Buffer

CONSTANTS
  MaxFile,      \* bytes in the file: bounds the runs
  LengthModulus, \* there are so many lengths
  Unset         \* OptionalParameter without a value

VARIABLES
  handle,       \* fileHandle: "none" is 0, "bad" -1, and a descriptor the access it is open for
  pointer,      \* external: the position of the descriptor
  content       \* external: the bytes of the file

fileVars == <<handle, pointer, content>>
vars == <<bufferVars, fileVars>>

Init == InitBuffer /\ handle = "none" /\ pointer = 0 /\ content = <<>>

Given(size, otherwise) == IF size = Unset THEN otherwise ELSE size

\* Open: the descriptor it had, if any, is forgotten without being closed.
Open(access) ==
  /\ handle' \in {access, "bad"} /\ pointer' = 0
  /\ UNCHANGED <<bufferVars, content>>

\* ~File closes every handle but 0, and there is a new one.
Close ==
  /\ handle # "none" /\ handle' = "none" /\ pointer' = 0
  /\ UNCHANGED <<bufferVars, content>>

\* write(2) of an O_APPEND descriptor: a part of v goes to the end.
Appends(v) ==
  /\ content' = content \o v /\ Len(content') <= MaxFile
  /\ pointer' = Len(content')
  /\ UNCHANGED handle

GetSize == Len(content)

\* Calls of the kernel succeed on open files, writing only where it was asked for.
IsOpen == handle \in {"READ", "WRITE"}
MayWrite == handle = "WRITE"

\* Write(size, data) and Write(range) hand their bytes on.
WriteRange(v) ==
  /\ MayWrite /\ \E n \in 1..Len(v) : Appends(SubSeq(v, 1, n))
  /\ UNCHANGED bufferVars

\* Write(buffer) gives the kernel the bytes from the beginning on, and takes the
\* given size, or else what the kernel says, from the length: the other bytes stay
\* where they are, so it is the first ones that remain.
Removed(n) == (length - n) % LengthModulus

WriteBuffer(size) ==
  LET asked == Given(size, length)
      bytes == [i \in 1..asked |-> Cell(i - 1)]
  IN  /\ Goes /\ MayWrite /\ asked <= capacity
      /\ \E n \in 0..asked :
           /\ n = 0 => asked = 0
           /\ Appends(SubSeq(bytes, 1, n))
           /\ length' = Removed(Given(size, n))
           /\ written' = SubSeq(written, n + 1, Len(written))
           /\ odd' = IF n = length /\ Given(size, n) = n /\ readPos = 0 THEN odd ELSE odd \union {"part"}
      /\ UNCHANGED <<memory, capacity, readPos, taken, wild>>

\* The kernel says -1, and the buffer grows by a byte.
WriteBufferFails(size) ==
  /\ Goes /\ handle # "none" /\ length < capacity
  /\ length' = Removed(Given(size, -1)) /\ odd' = odd \union {"failed"}
  /\ UNCHANGED <<memory, capacity, readPos, written, taken, wild, fileVars>>

\* The bytes from the pointer on, no more than asked for.
From(bytes, asked) ==
  SubSeq(bytes, pointer + 1, IF pointer + asked > Len(bytes) THEN Len(bytes) ELSE pointer + asked)

\* Read(buffer) makes room for the size of the file, or the one given, and asks for
\* the size a second time: what others appended in between, more, has no room.
ReadBuffer(size, more) ==
  LET asked == Given(size, Len(content \o more))
      all == From(content \o more, asked)
  IN  /\ Goes /\ IsOpen /\ Len(content) + Len(more) <= MaxFile
      /\ \E n \in 0..Len(all) :
           /\ n = 0 => all = <<>>
           /\ AppendBytes(SubSeq(all, 1, n), DeltaSize(Given(size, GetSize)))
           /\ pointer' = pointer + n
      /\ odd' = IF size = Unset /\ more # <<>> THEN odd \union {"grown"} ELSE odd
      /\ content' = content \o more /\ UNCHANGED handle

\* The kernel says -1, and the buffer loses a byte.
ReadBufferFails(size) ==
  /\ Goes /\ handle = "bad"
  /\ memory' = Moved(DeltaSize(Given(size, 0)), length) /\ capacity' = DeltaSize(Given(size, 0))
  /\ length' = Removed(1) /\ odd' = odd \union {"failed"}
  /\ UNCHANGED <<readPos, written, taken, wild, fileVars>>

\* Read(size, T*): the pointer moves by what there is.
ReadRange(n) ==
  /\ IsOpen /\ pointer < Len(content)
  /\ pointer' \in (pointer + 1)..(IF pointer + n > Len(content) THEN Len(content) ELSE pointer + n)
  /\ UNCHANGED <<bufferVars, handle, content>>

\* Resize: ftruncate cuts the file or fills it with zeros.
ResizeFile(size) ==
  /\ MayWrite /\ content' = [i \in 1..size |-> IF i <= Len(content) THEN content[i] ELSE 0]
  /\ UNCHANGED <<bufferVars, handle, pointer>>

SetPointer(byte) == IsOpen /\ pointer' = byte /\ UNCHANGED <<bufferVars, handle, content>>

\* Another process appends to the file.
OtherAppends(v) ==
  /\ content' = content \o v /\ Len(content') <= MaxFile
  /\ UNCHANGED <<bufferVars, handle, pointer>>

\* What a buffer may be filled with: bounds the runs.
Fits(v) == length + Len(v) <= MaxLength

Next ==
  \/ BufferNext /\ UNCHANGED fileVars
  \/ /\ odd = {}
     /\ \/ \E access \in {"READ", "WRITE"} : Open(access)
        \/ Close
        \/ \E v \in Values : WriteRange(v) \/ OtherAppends(v)
        \/ \E size \in {Unset, 1} :
             \/ WriteBuffer(size) \/ WriteBufferFails(size) \/ ReadBufferFails(size)
             \/ \E more \in {<<>>} \union Values :
                  Fits(content \o more) /\ ReadBuffer(size, more)
        \/ \E n \in 0..MaxFile : ReadRange(n) \/ ResizeFile(n) \/ SetPointer(n)

Spec == Init /\ [][Next]_vars
=============================================================================
