------------------------------ MODULE MultiVector ------------------------------
(***************************************************************************)
(* GTSL::MultiVector (Vector.hpp): rows of values of several types in one  *)
(* block of bytes, either row after row (AOS) or type after type.          *)
(***************************************************************************)
EXTENDS Naturals, Sequences

CONSTANTS
  TypeSizes,    \* sizeof each of the types, in their order
  Rows,         \* rows: sequences of values, one for each type
  Minima,       \* numbers of elements given to the constructor
  NoByte,       \* a byte that was not written
  MaxRows       \* bound

VARIABLES
  aos,          \* the template's parameter
  data,         \* the bytes of the block
  capacity,     \* in rows
  length,
  list,         \* history: the rows that were emplaced
  beyond        \* history: a byte beyond the block was written

vars == <<aos, data, capacity, length, list, beyond>>

Types == DOMAIN TypeSizes

\* The sum of the sizes of the first n types.
SizeOf[n \in 0..Len(TypeSizes)] == IF n = 0 THEN 0 ELSE SizeOf[n - 1] + TypeSizes[n]

PackSize == SizeOf[Len(TypeSizes)]

\* The sum of the sizes of the types before m.
PackSizeAt(m) == SizeOf[m - 1]

\* Where the value of type m in row i is, in a block for so many rows.
GetPointer(m, rows, i) ==
  IF aos THEN PackSize * i + PackSizeAt(m) ELSE rows * PackSizeAt(m) + i * TypeSizes[m]

Blank(rows) == [b \in 0..rows * PackSize - 1 |-> NoByte]

Init ==
  /\ aos \in BOOLEAN /\ capacity \in Minima /\ data = Blank(capacity)
  /\ length = 0 /\ list = << >> /\ beyond = FALSE

\* The bytes of row i: the k-th of each value.
BytesOf(i) == {<<m, i, k>> : m \in Types, k \in 0..PackSize - 1}

Existing(x) == x[3] < TypeSizes[x[1]]

\* Where such a byte is.
Place(x, rows) == GetPointer(x[1], rows, x[2]) + x[3]

\* The rows that there are, in a block for more: for AOS one copy, else one for each type.
Moved(rows) ==
  LET Kept(b) == {x \in UNION {BytesOf(i) : i \in 0..length - 1} : Existing(x) /\ Place(x, rows) = b}
  IN  [b \in 0..rows * PackSize - 1 |->
         CASE aos /\ b < length * PackSize -> data[b]
           [] ~aos /\ Kept(b) # {} -> data[Place(CHOOSE x \in Kept(b) : TRUE, capacity)]
           [] OTHER -> NoByte]

\* tryResize: room for one row, or twice as much.
RoomFor(delta) ==
  IF length + delta <= capacity THEN capacity
  ELSE IF capacity > 0 THEN 2 * capacity ELSE delta

\* EmplaceBack computes the places by itself, as GetPointer does.
EmplaceBack(row) ==
  LET room == RoomFor(1)
      old == IF room = capacity THEN data ELSE Moved(room)
      new == {x \in BytesOf(length) : Existing(x)}
      At(b) == CHOOSE x \in new : Place(x, room) = b
  IN  /\ length < MaxRows
      /\ capacity' = room
      /\ data' = [b \in DOMAIN old |->
                    IF \E x \in new : Place(x, room) = b
                    THEN <<row[At(b)[1]], At(b)[3]>> ELSE old[b]]
      /\ beyond' = (beyond \/ \E x \in new : Place(x, room) \notin DOMAIN old)
      /\ length' = length + 1 /\ list' = Append(list, row)
      /\ UNCHANGED aos

Next == \E row \in Rows : EmplaceBack(row)

-----------------------------------------------------------------------------
\* Every value is found, whole, where At looks for it, through all growth and in both
\* layouts, and nothing is written beyond the block.
RowsReadBack ==
  /\ ~beyond
  /\ \A m \in Types, i \in 0..length - 1 : \A k \in 0..TypeSizes[m] - 1 :
       data[GetPointer(m, capacity, i) + k] = <<list[i + 1][m], k>>
=============================================================================
