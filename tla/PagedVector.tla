------------------------------ MODULE PagedVector ------------------------------
(***************************************************************************)
(* GTSL::PagedVector (PagedVector.h): pages of equal length that never     *)
(* move; when all are full one more is added.                              *)
(***************************************************************************)
EXTENDS Naturals, Sequences

CONSTANTS
  PageLengths,  \* the minimal lengths of a page given to the constructor
  PageCounts,   \* the numbers of pages given to the constructor
  Values,       \* the objects
  Raw,          \* stands for a cell without an object
  MaxLength     \* bound on the number of objects

VARIABLES
  pages,        \* each page a function from 0..PAGE_LENGTH - 1 to cells
  pageLength,   \* PAGE_LENGTH
  length,
  at,           \* the iterator: position, page and element
  list,         \* history: what was emplaced
  lost          \* history: objects were written over or not destroyed

vars == <<pages, pageLength, length, at, list, lost>>

NextPowerOfTwo(n) ==
  LET power[i \in 0..n] == IF i = 0 THEN 1 ELSE 2 * power[i - 1]
  IN  CHOOSE p \in {power[i] : i \in 0..n} : n <= p /\ p < 2 * n

Page(n) == [e \in 0..n - 1 |-> Raw]

Begin == [pos |-> 0, page |-> 0, element |-> 0]

Init ==
  /\ \E n \in PageLengths, c \in PageCounts :
       /\ pageLength = NextPowerOfTwo(n)
       /\ pages = [p \in 1..c |-> Page(pageLength)]
  /\ length = 0 /\ at = Begin /\ list = << >> /\ lost = FALSE

\* Construction of v in a cell, the page counted from zero.
Put(ps, page, element, v) ==
  /\ pages' = [ps EXCEPT ![page + 1][element] = v]
  /\ lost' = (lost \/ ps[page + 1][element] # Raw)

\* Mutant: a new page is added when the last one is entered.
EmplaceEarly(v) ==
  /\ length < MaxLength
  /\ IF length + 1 = pageLength * Len(pages)
     THEN Put(Append(pages, Page(pageLength)), Len(pages), 0, v)
     ELSE Put(pages, length \div pageLength, length % pageLength, v)
  /\ length' = length + 1 /\ list' = Append(list, v)
  /\ UNCHANGED <<pageLength, at>>

\* The first object of a page that was added goes to its beginning.
EmplaceBack(v) ==
  /\ length < MaxLength
  /\ IF length = pageLength * Len(pages)
     THEN Put(Append(pages, Page(pageLength)), Len(pages), 0, v)
     ELSE Put(pages, length \div pageLength, length % pageLength, v)
  /\ length' = length + 1 /\ list' = Append(list, v)
  /\ UNCHANGED <<pageLength, at>>

\* destroyAllChildren: all of the full pages, and the beginning of the next.
Destroyed ==
  [p \in DOMAIN pages |-> [e \in DOMAIN pages[p] |->
     IF p <= length \div pageLength \/ (p = length \div pageLength + 1 /\ e < length % pageLength)
     THEN Raw ELSE pages[p][e]]]

\* Clear keeps the pages; iterators are not used any more.
Clear ==
  /\ pages' = Destroyed
  /\ lost' = (lost \/ Destroyed # [p \in DOMAIN pages |-> Page(pageLength)])
  /\ length' = 0 /\ list' = << >> /\ at' = Begin
  /\ UNCHANGED pageLength

\* Free, and the destructor of one that has pages: nothing can be done with it after.
Free ==
  /\ pages # <<>>
  /\ lost' = (lost \/ Destroyed # [p \in DOMAIN pages |-> Page(pageLength)])
  /\ pages' = <<>> /\ list' = <<>>
  /\ UNCHANGED <<pageLength, length, at>>

\* operator++ of an iterator, as long as it differs from the end.
Advance ==
  /\ at.pos # length
  /\ at' = [pos |-> at.pos + 1, page |-> (at.pos + 1) \div pageLength, element |-> (at.pos + 1) % pageLength]
  /\ UNCHANGED <<pages, pageLength, length, list, lost>>

Next == Free \/ (pages # <<>> /\ ((\E v \in Values : EmplaceBack(v)) \/ Clear \/ Advance))

Spec == Init /\ [][Next]_vars

-----------------------------------------------------------------------------
\* The object with index i is found by operator[] and by an iterator, also one
\* that was at the end before a page was added, and Clear and Free destroy every
\* object whether or not the last page is full.
IndexAndIteratorAgree ==
  /\ ~lost
  /\ pages # <<>> => \A i \in 0..length - 1 : pages[i \div pageLength + 1][i % pageLength] = list[i + 1]
  /\ pages # <<>> /\ at.pos < length => pages[at.page + 1][at.element] = list[at.pos + 1]
=============================================================================
