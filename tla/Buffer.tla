-------------------------------- MODULE Buffer --------------------------------
(***************************************************************************)
(* GTSL::Buffer (Buffer.hpp): bytes in memory that grows, written at one   *)
(* end and read from the other; values are written and read as the bytes   *)
(* they consist of (Serialize.hpp).                                        *)
(***************************************************************************)
EXTENDS Integers, Sequences

CONSTANTS
  Raw,          \* memory that was not written
  Values,       \* the values that are written: sequences of bytes
  MaxLength     \* bytes in the buffer: bounds the runs

VARIABLES
  memory,       \* data: a function of the positions below capacity, or of none
  capacity, length, readPos,
  written,      \* history: what was written since the buffer was cleared
  taken,        \* history: what was read of it
  wild,         \* history: bytes were written where there is no memory
  odd           \* history: the uses the buffer is not made for that happened

bufferVars == <<memory, capacity, length, readPos, written, taken, wild, odd>>

InitBuffer ==
  /\ memory = <<>> /\ capacity = 0 /\ length = 0 /\ readPos = 0
  /\ written = <<>> /\ taken = <<>> /\ wild = FALSE /\ odd = {}

\* Nothing is said of a buffer after it was used as it is not made for.
Goes == odd = {} /\ ~wild /\ length <= capacity

\* What the memory holds, byte by byte.
Cell(i) == IF i \in DOMAIN memory THEN memory[i] ELSE Raw

\* Memory of a new size with the bytes below n of the old one.
Copied(size, n) == [i \in 0..(size - 1) |-> IF i < n THEN Cell(i) ELSE Raw]

\* Mutant: grows by what is asked for, whatever there is.
DeltaSizeShort(delta) == IF length + delta > capacity THEN delta * 2 ELSE capacity

\* tryDeltaResize: the capacity when there shall be room for delta more bytes.
DeltaSize(delta) == IF length + delta > capacity THEN (capacity + delta) * 2 ELSE capacity

\* tryResize: the same for a number of bytes.
NewSize(size) == IF size > capacity THEN (capacity + size) * 2 ELSE capacity

\* Another size brings other memory, with the bytes below n.
Moved(size, n) == IF size = capacity THEN memory ELSE Copied(size, n)

\* Bytes v behind the others, in memory of a size.
AppendBytes(v, size) ==
  /\ memory' = LET old == Moved(size, length)
               IN  [i \in DOMAIN old |-> IF i - length + 1 \in DOMAIN v THEN v[i - length + 1] ELSE old[i]]
  /\ capacity' = size
  /\ length' = length + Len(v)
  /\ written' = written \o v
  /\ wild' = (\E i \in DOMAIN v : length + i - 1 \notin DOMAIN memory')
  /\ UNCHANGED <<readPos, taken>>

\* Write, AllocateStructure, operator<< and the Inserts of Serialize.hpp.
Write(v) == Goes /\ AppendBytes(v, DeltaSize(Len(v))) /\ UNCHANGED odd

\* PushBytes, and the bytes that its caller writes there: nothing grows.
PushBytes(v) ==
  /\ Goes /\ AppendBytes(v, capacity)
  /\ odd' = IF length + Len(v) > capacity THEN odd \union {"pushed"} ELSE odd

\* Read, operator>> and the Extracts: n bytes from the read position on, which is
\* all that is checked.
Read(n) ==
  /\ Goes /\ readPos <= length
  /\ readPos' = readPos + n
  /\ taken' = taken \o [i \in 1..n |-> Cell(readPos + i - 1)]
  /\ odd' = IF readPos + n > length THEN odd \union {"beyond"} ELSE odd
  /\ UNCHANGED <<memory, capacity, length, written, wild>>

Emptied == length' = 0 /\ readPos' = 0 /\ written' = <<>> /\ taken' = <<>>

Clear == Goes /\ Emptied /\ UNCHANGED <<memory, capacity, wild, odd>>

\* Resize and DeltaResize: room, and the bytes as they were.
Room(size) ==
  /\ Goes /\ memory' = Moved(size, length) /\ capacity' = size
  /\ UNCHANGED <<length, readPos, written, taken, wild, odd>>

Resize(size) == Room(NewSize(size))

DeltaResize(delta) == Room(DeltaSize(delta))

\* Allocate copies all there is when there is memory, and starts anew when there
\* is none.
Allocate(bytes) ==
  /\ Goes /\ UNCHANGED <<wild, odd>>
  /\ IF memory # <<>>
     THEN LET size == IF bytes > capacity THEN bytes ELSE capacity
          IN  /\ memory' = Moved(size, capacity) /\ capacity' = size
              /\ UNCHANGED <<length, readPos, written, taken>>
     ELSE /\ memory' = [i \in 0..(bytes - 1) |-> Raw] /\ capacity' = bytes /\ Emptied

\* The move constructor leaves the other buffer its capacity and its length, but
\* not the memory.
MoveAway ==
  /\ Goes /\ memory # <<>>
  /\ memory' = <<>> /\ odd' = odd \union {"moved"}
  /\ UNCHANGED <<capacity, length, readPos, written, taken, wild>>

\* ~Buffer, and a new one.
Renew == memory' = <<>> /\ capacity' = 0 /\ Emptied /\ wild' = FALSE /\ odd' = {}

BufferNext ==
  \/ \E v \in Values : length + Len(v) <= MaxLength /\ (Write(v) \/ PushBytes(v) \/ DeltaResize(Len(v)))
  \/ \E v \in Values : readPos + Len(v) <= MaxLength /\ Read(Len(v))
  \/ \E n \in 1..MaxLength : capacity <= MaxLength /\ (Resize(n) \/ Allocate(n))
  \/ Clear \/ MoveAway \/ Renew

BufferSpec == InitBuffer /\ [][BufferNext]_bufferVars

-----------------------------------------------------------------------------
\* Unless it was used as it is not made for, a buffer writes within its memory and
\* holds what was written, in the order and at the place it was written at, through
\* every move to larger memory; what was read is the beginning of it.
StreamOfBytes ==
  odd = {} =>
    /\ Goes /\ length = Len(written)
    /\ \A i \in DOMAIN written : Cell(i - 1) = written[i]
    /\ taken = SubSeq(written, 1, readPos)
=============================================================================
