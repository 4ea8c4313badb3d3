# Verification of the Game-Tek Standard Library (GTSL)

GTSL is a header-only C++20 library (`GTSL/*.h`, `GTSL/*.hpp`) of containers,
strings, serializers, threading primitives and wrappers of the operating
system. This directory holds TLA+ models of its stateful parts, TLC
configurations that check them on small instances, and proofs that TLAPS checks
for every instance.

`PROJECT.json` lists the components, the runs, the mutants (a plausible bug in
one definition for each property, which TLC must find), the source lines behind
every definition, the findings, the hazards and the theorems.

## 1. Inventory

| component | state | operations | what is hard |
|---|---|---|---|
| `Mutex`, `ConditionVariable` | owner; threads that wait | Lock, TryLock, Unlock, Wait, NotifyOne, NotifyAll | spurious wakeups; a woken thread competes for the lock |
| `BlockingQueue` | `std::queue`, flags `done` and `working` | Push, TryPush, Pop, TryPop, Done, End, IsEmpty, GetSize | notification after unlock, End racing a Pop, several consumers behind one flag |
| `Semaphore` | a count of outstanding work | Add, Post, Wait | several Posts and a waiter; notification after unlock |
| `Notification` | an atomic count | Add, Post, Wait | test without a lock, then wait with a mutex of one's own |
| `Vector`, `MultiVector`, `StaticVector` | memory, length, capacity | EmplaceBack, EmplaceGroup, PushBack, Insert, Pop, PopBack, Resize, SetLength, assignment | growth by one doubling, boundaries, objects in the right cells |
| `DoubleAllocator` | a buffer, a flag, an inner allocator | Allocate, Deallocate, moves | two allocations at a time behind one flag |
| `FixedVector`, `BitTracker` | slots and a bit for each | Emplace, EmplaceAt, Pop, Clear, iteration | indices that last through growth, words of bits at their ends |
| `HashMap`, `KeyMap` | buckets of sorted hashes, values | Emplace, TryEmplace, EmplaceOrUpdate, At, Remove, Clear, copy, iteration, Insert, Extract | a resize within an emplacement, iteration over empty buckets |
| `Tree` | nodes with links to the first child and right sibling | Emplace, Remove, iteration, ForEach | a traversal that counts instead of following links |
| `MultiTree` | nodes of several types in one block, an indirection table | Emplace (4 kinds), UpdateNodeKey, SetIsMergeable, ToggleBranch, Optimize, ForEach | merging nodes while traversing them, handles that outlive the merge |
| `JSONSerializer`, `ParseJSON`, `JSON` | a text; stacks; a buffer of records | Start/End of objects and arrays, Insert, parsing, `operator[]` | commas, keys and nesting in any order; records without lengths |
| `SmartPointer` | an object and its allocator | construction, moves, two assignments, Free | who frees, and with which allocator |
| `PagedVector` | pages of equal length | EmplaceBack, Clear, index, iteration | lengths that are a multiple of the page |
| `Buffer`, `Serialize`, `File` | bytes, a write and a read position; a file and its position | Allocate, PushBytes, Write, Read, Resize, moves; open, read, write, seek | reading behind what was written; a kernel that takes or gives less than it is asked for; files that grow meanwhile |
| `String`, `ShortString`, `StringCommon`, `Unicode` | bytes and codepoints | append, insert, cut, search, substrings, conversions of numbers | two lengths of one text, zeros at its end, boundaries of substrings and of numbers |
| `MultiVector` | rows of several types in one block | EmplaceBack, At | the same places computed twice, for two layouts |
| `SparseVector` | a group for every object | EmplaceAt, Clear, look-up, iteration | two objects at one position, the end of the number range |
| `IndirectionMap` | ranges of keys, a free list | Insert, Remove, look-up | unfinished |
| `Window`, `Gamepad` | mouse position, focus, size; the last state of a pad | Update, events to callbacks | what is kept between events, several keys of one meaning, events that come while the window has no focus, packet numbers that go round |
| `TTF` | a font made of tables | MakeFont, MakePath | glyphs made of glyphs, offsets, flags that repeat, order of parsing |
| `Math`, `Matrix`, `SIMD` | a matrix; four lanes | transformations, inverses, projections, closest points | order of products, which of seven regions a point is in |
| `Thread`, `Atomic`, `Filesystem`, `MappedFile`, `System`, `DLL`, `Application`, `Network` | handles of the system | one system call each | outside of the program |
| small value types, templates | none or plain data | expressions | arithmetic, not behaviour |

How they interact. BlockingQueue and Semaphore are each one Mutex and one
ConditionVariable around plain data; threads meet only there. Vector, HashMap,
FixedVector, Tree, String, JSON and SmartPointer are templates over an allocator,
which they call to grow and to free; DoubleAllocator stands between a container
and an inner allocator, and JSON puts one below its buffer. MultiTree uses Vectors
and HashMaps for its tables. JSON is written into a String by free functions that
share the serializer's stack, and is read by ParseJSON through callbacks. File fills
and empties Buffers. Window stands between the queue of the X server and the
application's delegate, Gamepad between a pad and it. MakeFont reads a Buffer with
the bytes of a font and calls itself for the parts of a glyph. None of the
containers is meant for several threads at a time.

What makes each one correct: a queue loses, repeats and overtakes nothing, and no
thread sleeps while there is work for it; a latch opens exactly when no work is
left; a container has objects in exactly the cells it says, never touches memory
outside, and behaves as the mathematical object (list, finite map, set) it stands
for; every block of memory has one owner, who gives it back once, where it came
from; a traversal meets everything once; what was written is what is read; a text has
the bytes and codepoints that its calls give it; the application knows of the user
what the events say; a product of transformations does what they do in their order.

## 2. Modules

| module | models | remarks |
|---|---|---|
| `Monitor` | `Mutex.h`, `ConditionVariable.h` | extended by the two below |
| `BlockingQueue` | `BlockingQueue.h` | implements `Channel` |
| `Semaphore` | `Semaphore.h` | implements `Latch` |
| `HashMap` | `HashMap.hpp` | implements `Dictionary` |
| `KeyMap` | `HashMap<K, void>` of `HashMap.hpp` | |
| `Vector` | `Vector.hpp` | |
| `DoubleAllocator` | `Allocator.hpp` and the vectors on top | |
| `FixedVector` | `FixedVector.hpp`, `BitTracker.h` | |
| `MultiTree`, `Tree` | `Tree.hpp` | |
| `JSONSerializer`, `JSON` | `JSON.hpp` | JSON extends the serializer: what one writes the other parses |
| `SmartPointer`, `PagedVector`, `SparseVector` | the files of that name | |
| `MultiVector` | `MultiVector` of `Vector.hpp`, `TypeTraits.hpp` | |
| `Notification` | `Notification` of `Semaphore.h`, `Atomic.hpp` | threads, but no mutex: nobody shares one |
| `Unicode` | `Unicode.hpp`, the counting of `StringCommon.h` | operators only; extended by the three below |
| `StringCommon` | `StringCommon.h` | a text is written, then a SubstringIterator runs over it |
| `Strings`, `ShortString` | `String.hpp`, `ShortString.hpp` | |
| `Buffer`, `File` | `Buffer.hpp`, `Serialize.hpp`, `File.hpp` | File extends Buffer and adds the kernel |
| `Window`, `Gamepad` | `Window.hpp` (Linux), `Gamepad.h` | with the server, the user, the pads |
| `TTF`, `FontFile` | `TTF.hpp` | FontFile makes the bytes that TTF parses: it is external |
| `SIMD`, `Matrix`, `Geometry` | `SIMD.hpp`, `Vectors.hpp`, `Matrix.hpp`, `Quaternion.h`, `Math.hpp` | Matrix and Geometry extend SIMD |
| `Channel`, `Latch`, `Dictionary` | nothing: what BlockingQueue, Semaphore and HashMap promise | a closable FIFO channel; a latch; a finite map |
| `MCContainers` | nothing: one instance of HashMap, Vector, FixedVector and DoubleAllocator | they share no state, `focus` picks the one that moves |
| `LibraryCore` | nothing: the ten of these components that `LibraryProofs` is about | with the assumptions on their constants |
| `MC...` | nothing: instances for TLC | `MCLibrary` extends `LibraryCore` with the other components without a run of their own, and has their texts, matrices and fonts; modules whose constants fit into a `.cfg` need none |
| `...Proofs` | nothing: theorems | |

Correspondence. `PROJECT.json` `map` has the lines of every definition; in general:

* A method that takes a lock is an action that enters its critical section, an
  action for the section, and one for what it does after unlocking. `pc[t]` says
  where each thread is. Waiting for the lock has no state of its own: a thread
  that has called a method and has not got the lock is indistinguishable from
  one that has not called it yet.
* A method without locks is one action, with everything it calls.
* Memory is a function from cells to objects or `Raw`. Assignment to raw memory,
  destruction of it, or access outside of it is noted in a history variable
  (`overrun`, `wild`, `lost`, `untidy`), after which the model stops, because
  the program has no defined behaviour from there on.
* History variables are commented as such; they are never read by a guard,
  except where a guard says that the behaviour ends.
* A hash is the key itself where the key is an integer, and the properties of
  HashMap do not depend on which number it is.
* In JSON a quote, a bracket, a word or the content of a string is one token. Texts of
  Strings, buffers and fonts are sequences of bytes, because the code counts them.
* Numbers of Math are whole. Rotations are by quarters and thirds of a circle, whose
  quaternions are halves of whole numbers, so that products are exact; a quotient is
  kept as a pair or multiplied out. What rounding does is not modelled.
* The surroundings (kernel, X server, user, pads, font makers) are variables and
  actions marked external, and they act between any two steps of the program.
* Names are those of the code where TLA+ and the community modules allow them.

What each property says, and the code it is about, stands above its definition.

## 3. Runs

| run | instance | shows |
|---|---|---|
| `blocking_queue` | 2 workers in Pop/Done, 1 thread with all other methods, 2 items | FIFO, no lost wakeup, End reaches all waiters, everything accepted before End is taken, every Pop returns after End, refinement of `Channel` |
| `semaphore` | 1 waiter, 2 workers, count 2, 3 Adds | count is the outstanding work, the waiter is notified, Wait returns, refinement of `Latch` |
| `containers` | 4 containers, each by itself, below | one property or more for each |
| `hashmap_copy` | HashMap as in `containers` | finding: the copy loses the last key of a bucket |
| `vector_resize` | Vector as in `containers`, with groups of 2, too | finding: Resize does not accommodate |
| `double_allocator_grow` | DoubleAllocator as in `containers` | finding: a vector that grows out of the buffer gives it to the heap (`OnlyHeapIsFreed`) |
| `double_allocator_move` | the same | finding: a moved vector points into the buffer of its source (`MemoryIsThere`) |
| `multitree` | 5 nodes, 2 keys, 2 sizes, 2 changes | children in order also under the handles of merged nodes, memory suffices and each object is destroyed once (`EachLivesOnce`), Optimize merges all |
| `multitree_merge` | the same | finding: a leftmost node that is not mergeable loses its children and is linked to itself |
| `library` | 17 components, each by itself: they share no state, so `focus` picks the one that moves | one property for each, below |
| `json_commas` | the instance of `library` | finding: with a character of two bytes, the comma before a closing bracket stays (`CommasSeparate`) |
| `inverse_singular` | the same | finding: `Inverse` by cofactors refuses matrices that are not singular (`RefusesTheSingular`) |

The properties of `containers`:

| property | component | instance | says |
|---|---|---|---|
| `LookupsAgree` | HashMap | 5 colliding hashes, 2 values, sizes 1-3, up to 8 buckets (3 resizes) | look-ups that stop early find exactly the keys of the map |
| `NothingStranded` | HashMap | the same | every key is in its bucket once, sorted, and no bucket overflows, through all resizes |
| `IterationIsComplete` | HashMap | the same | an iteration meets each pair once |
| `RoundTrip` | HashMap | and targets with as many or twice as many buckets, of any capacity that suffices | what Insert writes Extract reads, into a target that keeps its own shape: all of it if that has as many buckets, and otherwise exactly the keys whose bucket has the same number |
| `DictionarySpec` | HashMap | the same | refinement of `Dictionary` |
| `ExactlyTheLiving` | Vector | capacity up to 8, groups of 1 and 3 | objects in exactly the first cells, unless the owner was careless |
| `ActsAsList` | Vector | the same | every method acts as on a list |
| `IndicesLast` | FixedVector | words of 2 bits, up to 2 words and growth | an index finds its object until it is popped |
| `IterationMeetsTheSteady` | FixedVector | the same | an iteration meets whatever lives throughout |
| `OneOwnerEach` | DoubleAllocator | 3 vectors, buffer of 2, heap of 4 blocks | no heap block is leaked, shared or freed twice, though vectors outgrow their buffers and are moved |

The properties of `library`, with the bounds that matter:

| property | components | instance | says |
|---|---|---|---|
| `FindsWhatWasEmplaced` | KeyMap | 3 keys that collide, two resizes | Find is exact |
| `ReadsWhatWasWritten` | JSONSerializer, JSON | texts of up to three values, some with wide characters | what is parsed is what was written, also with a comma left over; members are found by index and name; commas stand between members and nowhere else if the text is ASCII |
| `WalksAgree` | Tree | 6 nodes | ForEach, iteration and history agree; one Remove destroys the subtree once |
| `OneOwnerItsAllocator` | SmartPointer | 3 pointers, 2 objects, 2 allocators | one owner, with the right allocator but for conversions |
| `IndexAndIteratorAgree` | PagedVector, SparseVector, MultiVector | pages of 1 to 4; 4 positions in 3 groups; 5 rows in both layouts | index and iterator find what was emplaced |
| `SubstringsAreRuns` | StringCommon | all texts of 4 characters of 1 to 4 bytes | substrings are the runs between dividers, IsIn is exact for characters |
| `NumbersReadBack` | StringCommon | 8-bit numbers, three digits of a fraction | numbers survive their conversions, but for fractions that begin with a zero; what is no number is refused |
| `HoldsItsText` | Strings, ShortString | 2 strings of at most 5 bytes, 3 calls; an array of 6 | the text that the calls make, its zero, and its two lengths |
| `StreamOfBytes` | Buffer, File | buffer of 3, file of 2 bytes | what is read is what was written, in order, through files too |
| `SeesTheUser` | Window | 4 acts of the user, 2 events in the queue | when the queue is empty the application knows keys, wheel, pointer and visibility |
| `ChangesAddUp` | Gamepad | 3 controls, packet numbers modulo 4 | the reported changes add up to the pad's state |
| `FontIsRead` | TTF | 3 glyphs of ten shapes, deficient fonts | simple glyphs, the places of the points of composite ones, widths, names, kerning are what the file says; what a font is refused for; contours close |
| `TransformsCompose` | Matrix | 3 moves of each kind | matrices do what their transformations do one after the other |
| `InversesAgree` | Matrix | the same and 3 other matrices | both inverses are inverses, that by cofactors where the determinant is whole and not 0 |
| `ClosestIsClosest` | Geometry | tetrahedra of 5 corners, 60 points | the closest point belongs to the shape and none is nearer |
| `OnlyTheGapIsMissed` | Notification | 2 waiters, 2 workers, 3 Adds | who sleeps at zero is told of, or tested before a Post and slept after it |

Its 462,000 states take TLC two minutes; collecting coverage doubles that. Several of these
properties name, in their comments, the calls after which the code promises nothing:
a String appended to itself, a conversion of SmartPointers, composite glyphs before their
parts, products of a matrix with a translation. The models go through those calls all
the same and note them in a history variable.

Bounds. All are CONSTANTS of the modules (`Items`, `MaxAdds`, `MaxCount`,
`MaxCapacity`, `MaxChanges`, `MaxCalls`, `MaxNodes`, `MaxLength`) and are set in the
`.cfg` files. They are chosen so that the boundaries are crossed more than once:
three resizes of a table, two growths of a vector, a group larger than the
capacity and one that is not, a word of bits that fills up, pages that fill up
exactly, merges of merged nodes, texts of three levels. Two workers and one other
thread have all the pairwise races that the queue can have; three or more
threads of a kind are covered by the proofs, which hold for every set of threads.
Two items suffice for order, and for a push that finds the queue not empty.
`DoubleAllocator` needs no more heap blocks than vectors plus the one that a
growing vector holds twice. Text in `library` has one character of each length in
UTF-8, two dividers, and the characters of numbers; 8-bit numbers have all of the
boundaries of wider ones. Three glyphs are enough for a part of a part, and
for a glyph that is parsed before its turn. Corners of tetrahedra include sharp ones, and
points lie within, on the borders and on every side, so that each of the regions is
entered.

In `MultiTree`, `SYMMETRY` permutes the keys of nodes: no definition compares a key
otherwise than for equality, and the run checks no liveness. `OptimizeMergesAll` is
a property of single steps.

`CHECK_DEADLOCK FALSE` stands where a model stops on purpose: at a bound, after an
overrun, after memory was passed to the wrong allocator, or when the object is destroyed.
BlockingQueue and Semaphore are checked for deadlock.

Fairness. A thread inside a method that does not wait goes on (weak fairness of
each thread's next step): the operating system schedules it. A thread that wants
the mutex, for a new call or after a wakeup, gets it eventually if it is free
again and again (strong fairness of those actions); pthread mutexes do not
promise it, schedulers provide it, and without it no method of any monitor is
live. Workers call Pop again as long as it returned true: that is how a worker
loop is written, and it is what `AcceptedIsTaken` needs. Notifications are not
assumed to be fair among waiters, spurious wakeups may or may not happen, and
nothing is assumed of the thread that pushes: it may stop anywhere outside of a
method. `Notification` has no liveness property, because it has none: the run shows which
waiters sleep for ever. The single-threaded components have no liveness properties but
termination of loops, which the operators have by construction.

## 4. Proofs

TLAPS proves, for all values of the constants:

| module | theorems | inductive invariant |
|---|---|---|
| `BlockingQueueProofs` | `Typing`, `Discipline`, `EndIsHeard`, `WorkingIsJustified`, `InOrder`, `ImplementsChannel`, `WakeupsSuffice` | types; then each property is inductive relative to the types and to `LockDiscipline` (the thread in a critical section owns the mutex, waiters are at "wait") |
| `SemaphoreProofs` | `Typing`, `CountIsExact`, `ImplementsLatch`, `SoleWaiterIsSafe` | types; the count is the tasks plus the Posts that have begun |
| `VectorProofs` | `MemorySafe`, `StepsOfAList` | `IInv`: shape of the memory (only `Wide`, its types, once a SetLength went beyond it), the flags, and, unless the owner was careless, objects in exactly the first `length` cells |
| `DoubleAllocatorProofs` | `NoLeakNoDoubleFree` | `IInv`: the flag tells where the memory is, who has a heap block has more room than the buffer, no two vectors share a block, every block in use has an owner |
| `FixedVectorProofs` | `IndicesAreStable`, `IterationIsExhaustive` | `Objects` (bits, slots and the owner's view agree until an overrun); `IterationInv` (all that has lived since begin() and lies behind the cursor was visited) |
| `HashMapProofs` | `Invariant`, `LookupsAlwaysAgree`, `NothingEverStranded`, `IterationsAreComplete`, `ImplementsDictionary`, `RoundTrips` | `IInv`: `Sound(table)` (buckets ascend strictly, lie within their capacity, hold only hashes of their own, and have as many values as hashes), `Placed(cursor)`, `Visited` (what the iteration has met is what lies before the cursor) |
| `MultiTreeProofs` | `Invariance`, `ChildrenStayInOrder`, `EachObjectLivesOnce`, `AllIsMerged` | `IInv`: `Memory` (room in the block), `Ended` (what was destroyed was destroyed once) and, until a merge is untidy, `Forest`: `Shape` (tables of one length, parents older than their children), `Lists` (lists of children share nothing), `Links` (the links are those of the lists), `Levels` (handles merged into one place are of one level); while Optimize runs, also `Optimizing`: the way from the root to where it is, what it is done with, and that it has not touched what lies ahead |
| `LibraryProofs` | for SmartPointer `OwnersAreSole`, for Notification `GapIsAll`, for Gamepad `ControlsAreThePads`, for PagedVector `PagesKeepOrder`, for SparseVector `GroupsFindTheFirst`, for MultiVector `RowsAreWhole`, for Buffer and File `BytesStream`, for Window `ApplicationSees`, for Tree `TreeWalks`, for KeyMap `KeysAreFound` | one for each, below |
| | and, of the composed `CoreSpec`, `LibraryOwnersAreSole`, `LibraryGapIsAll`, `LibraryControlsAreThePads`, `LibraryContainersAgree`, `LibraryBytesStream`, `LibraryApplicationSees`, `LibraryWalksAgree`, `LibraryFindsKeys` | the same, while the component is in focus |

The arguments that are not routine:

* *No lost wakeup.* While a thread waits, there are at least as many committed
  threads as items in the queue. Committed is a push that has not notified yet,
  or a Pop that is awake and has still to look at the queue. A notification turns
  a pushing thread into a woken Pop; a Pop takes one item with it and waits only
  if there is none. This is a statement about cardinalities, proved for any
  finite set of threads (`ThreadsAssumption`) with the lemmas on finite sets.
* *FIFO.* `pushed = popped \o queue`; every step of the program does one of three
  things to the ends of the queue (lemma `Ends`), so that the two theorems about
  the order look at three cases and not at sixteen actions.
* *Vector.* One doubling of the capacity makes room only for what is no larger
  than the capacity (`ReallocationFits`). That is why `careless` is part of the
  invariant: owners that append larger groups overrun the memory, as the run
  `vector_resize` shows.
* *Steps of a list.* Only the shape of the memory is needed. Each method is reduced
  to one of three facts about sequences: something joined at the end (`Joined`), an element
  inserted (`Inserted`), a part cut out (`Cut`); what a reallocation moves stays in its
  place (`ReallocationMoves`).
* *HashMap.* An ascending bucket in which each hash is less than the next holds no hash
  twice, so that `Find`, `At` and iteration cannot disagree, and a hash is nowhere but in
  `BucketOf(hash, count)`. An insertion into a sequence at its lower bound keeps it ascending
  (`AscendingInsertion`), a removal too. A resize walks through all pairs of all buckets;
  `Partial(t, x, b, i)` says that the new table `x` has exactly the entries of `t` before
  pair `i` of bucket `b`, and `MovesOne`, `MovesBucket` and `ResizeIs` carry it from the
  empty table to the whole. Insert and Extract are followed in the same way, bucket by
  bucket through the text (`Chunk`, `WritesBucket`, `ExtractInsert`): bucket `b` of the target
gets what bucket `b` of the writer had, whatever the target's number of buckets and capacity,
so that `RoundTrips` is about every target that has the room. The refinement maps
  the entries to the finite map of `Dictionary`.
* *MultiTree.* `ChildrenInOrder` compares what the loops over `TreeRight` come past with
  the history of the lists. It is not inductive: a chain is a function of all links, so
  a step on one of them could change any. With `Links`, each link is that of one element
  of one list, and by `Lists` no two elements share a place, so that a step that sets a
  link spoils no other; `ChainIs` leads back to the chains, since a list of different
  handles is shorter than the bound of the loop (`FewDistinct`). The four ways of
  Emplace are one lemma about an insertion behind the k-th child (`AddedKeeps`).
* *Merging.* A merge that is not untidy has a form: from the first sibling of its key and
  type on, the first `K` are merged, those up to `L` are not, and at most the last one is
  merged again (`Siblings`, `SiblingsAre`). `Midway` says what the links, the places and
  the loop's variables are behind the i-th node; `LoopBegins`, `LoopMerges`, `LoopPasses` and
  `Finishing` carry it through mergeNodes to `Mergence`. The history makes the same of
  the lists (`Regroupment`), and `RegroupedLists`, `RegroupedLinks` and `VisitKeeps` show that
  the outcome is a tree again. `Levels` is what excludes that a node is merged with one
  below itself: their places would be of two levels.
* *Destruction.* The traversal is bounded in the model by the number of nodes. By `Levels`
  what lies below two different nodes lies at different places (`DeepTurn`), so that no place
  comes twice, and the bound is never met before the leaves (`CompleteTurn`): that each
  node is destroyed, and once, is `VisitedIs`.
* *Optimize.* `Optimizing` names a set `D` of nodes the traversal is done with. What lies on
  the stack is a way down from the root (`Path`), what has been come past is done
  (`Reached`, `Finished`), and the places of all that lies ahead are as they were when
  Optimize began (`Untouched`). A node that is visited is the first of its key and type or is merged with nothing
  behind it (`VisitedBehind`), hence, when the loop over a list of children ends, no two of them
  could still be merged (`Closing`), and a later visit, at another place, leaves it
  so (`VisitAdvances`). At the end everything below the root is done (`AllDone`), which with `IInv`
  is `OptimizeMergesAll`.
* *Induction.* The library's induction theorems cannot be used (they take an operator), so
  the three modules that need induction have it for sets of numbers: a set that is not empty
  has a least member (`Least`), hence a set with 0 and all successors is Nat (`Induction`).
  Recursive functions, as the models write loops, are unfolded with it.
* *Notification.* `GapInv`: whoever tested the count or sleeps is told of or overtaken when
  the count is zero. A Post that notifies wakes whoever sleeps and overtakes whoever is
  between test and wait, so that no case is left in which somebody sleeps at zero, untold.
  Waiters and workers are assumed to be different threads, as the module's action for each
  needs.
* *SmartPointer.* `OwnerInv`: the objects held are those constructed and not given back, each
  by one pointer that is alive, with its allocator. Both assignments between different
  pointers are one lemma (`HandingOver`), and the assignment of a pointer to itself, Free and
  the destructor another (`GivingBack`). Null is assumed to be no object and no allocator.
* *Gamepad.* `PacketInv`: the pad's number is as many changes ahead of the stored one as
  there were, modulo the numbers. While fewer changes went by than there are numbers, the
  number differs from the stored one exactly if there was a change. Assumed: there is a
  packet number, and rest is a position.
* *PagedVector.* `PagedInv`: object `i` is in cell `i % pageLength` of page `i \div pageLength`,
  cells from `length` on are raw, and `at` is the place of its position. Index and iterator
  compute the two numbers in different ways; page lengths need not be powers of two.
* *SparseVector.* `SparseInv`: group `g` holds the one object placed by call `g`, at its
  position, and what lives is what was placed. The first group that holds a position is
  then the first call for it (`HoldsIs`), except at the highest number, where the end is 0.
* *MultiVector.* `MultiInv`: the bytes of value `m` of row `i` are at the place that the layout
  gives it. That no two values overlap is arithmetic: a place is determined by two numbers
  below their bounds in one way only (`OneWay`, `PlacesDiffer`), for any sizes of types and
  both layouts. What a growth moves is moved place by place (`RowsMovedIs`).
* *Buffer and File.* `StreamInv`: the memory holds the bytes written up to `bufferLength`, and
  what was read is their beginning up to `readPos`, until the history `odd` says that the
  caller did what the code does not cover. Lengths are numbers modulo any
  `LengthModulus`, which stands for the width of the code's integers.
* *Window.* `WindowInv`: applying the events that are still in the queue to what the
  application knows gives what the user sees. `LeadsOn` and `LeadsFurther` say how one more
  event, or one less, changes where a queue leads to.
* *Tree.* `TreeInv`: the links of every node are those of the history of its children, and
  children have higher numbers than their parents. A traversal is a function of the tree
  that is determined by its value at the children (`Walks`), so that two traversals agree by
  induction from the highest number downward (`WalkUnique`). ForEach takes the next child
  from a variable that all levels share; `VisitLoopIs` shows that, whatever is below a
  child, it leads to the child's right sibling afterwards. That Remove comes to no node
  twice is that the walks of two children have nothing in common (`WalksApart`): a node in
  both would have a least ancestor in both, which would have two parents.
* *KeyMap.* `KeysInv`: every key in a bucket has its remainder, and is there as often as it
  was emplaced. Twice as many buckets split each bucket in two (`BucketSplits`), so that after a
  resize a bucket has as many keys as of its kind were in one bucket before (`RehashIs`), and
  fits into the old capacity: the new one has room for one more, copies or not. Keys
  are counted in lists (`Occurs`), since a resize does not keep their order.
* *DoubleAllocator.* Nothing is assumed of growth and moves: vectors leave their
  buffers and take them along. The flag is still true of the memory that a vector has
  (`FlagIsTrue`) after every method: Allocate sets it with the pointer, and a move copies
  both. It is wrong only within Resize, where it stands for the new memory while the old
  one is given back; but then the old memory is the buffer, or the new one is of the heap
  too, because a heap block is larger than the buffer and twice of it is as well. So what the heap wrongly
  receives is never one of its blocks. What goes wrong instead, that it receives a
  buffer or that a vector points into another's, is what the runs `double_allocator_grow`
  and `double_allocator_move` find. Assumed: `NullIsNoMemory`.

Assumptions on constants are the named ASSUMEs of the modules, which TLC evaluates in
every run. Those of the modules that `library` instantiates are in `LibraryCore`, because
an instance would have to prove its own; MCLibrary extends it, so that the run evaluates them.

How `LibraryProofs` reaches the run. The theorems about a component are about the module's
own Spec, in the instance of `LibraryCore`. `CoreSpec` composes the ten of them with
`focus`, as `MCLibrary` composes all 17; the conjuncts of MCLibrary's Init and Next that are about
these ten are `CoreInit` and `CoreNext \/ CoreRests`, and `CoreRests` with a component of
the others in focus leaves all of these unchanged, so that MCLibrary's Spec implies CoreSpec. The run checks the
properties under the same definitions. (The two modules are separate because a prover has all instances
before it at each leaf; with 17 of them it takes ten times as long.)

The type invariants of BlockingQueue and Semaphore are proved (`Typing`) and no longer
among the invariants of the runs.

Only model-checked: the JSON modules, the
texts (StringCommon, Strings, ShortString), TTF, Matrix and Geometry, and all liveness, which
is out of the prover's reach. Most of these compute with recursion over data (jumps over records, glyphs
in glyphs, texts cut up by codepoints) or with products of numbers that the solver does not
finish.

## 5. Findings

1. `HashMap(const HashMap&)` copies the length word as the first key and not the
   last key of each bucket (`HashMap.hpp:57`; run `hashmap_copy`).
2. `Vector::Resize`, `EmplaceGroup` and `PushBack` of a range double the capacity once,
   whatever is asked for (`Vector.hpp:401`; run `vector_resize`).
3. A vector on a `DoubleAllocator` that outgrows the buffer gives the buffer to the
   inner allocator (`Allocator.hpp:125`; run `double_allocator_grow`).
4. `MultiTree::Optimize` drops the children of a leftmost node that is not mergeable
   and links the node to itself (`Tree.hpp:507`; run `multitree_merge`).
5. A vector on a `DoubleAllocator` that is moved keeps pointing into the buffer of the
   source, since the allocator has no move constructor (`Vector.hpp:75`, `Allocator.hpp:111`;
   run `double_allocator_move`).
6. `RTrimLast` uses the byte that `FindLast` returns as a codepoint: with a character of
   two bytes before it, the serializer's last comma stays, `{"é":1,}` (`String.hpp:279`; run
   `json_commas`). ParseJSON does not mind.
7. `Inverse` by cofactors cuts the determinant to an int and so refuses matrices whose determinant is
   between -1 and 1, where its comment says singular (`Math/Math.hpp:1533`; run
   `inverse_singular`).
8. `ToString` of a float loses the zeros that a fraction begins with, though the comment at
   `StringCommon.h:322-324` says that a step is there "to handle cases like 233.007":
   that becomes 233.7003, the six digits being those of an int. No run of its own; `NumbersReadBack` leaves out exactly
   these fractions, and `FloatToString` of the model is what the code does.

Other places where the code does what its author may not want are listed as hazards with
a note: merges that `mergeNodes` does not get right otherwise, JSON records that do not fit into
the buffer, `SmartPointer` assignments that change the allocator, the first
`Emplace` of a default-constructed `FixedVector`, a second waiter of `Semaphore`. For these no
text says which use is meant. For others a text does, and the hazard says so: `PopBack`
leaks the last object and `Pop` of a range keeps objects behind it (`Vector.hpp:221`, `:251`). Found while
modelling, and modelled as it is unless section 6 says otherwise:

* `String`: appending a view of itself reads memory that was given back; a cut at the end
  writes four zeros where three are left; `operator+=(char8_t)` asks for four bytes in all and not
  for four more than there are, so that it writes beyond the memory of a full string
  (`String.hpp:132`); `FindLast` returns the index of a byte, which the trims use as that of
  a codepoint; assignment of a string to itself clears it; move assignment and Extract leak.
* `ShortString`: `operator=` sets the remaining bytes to `SIZE`, one more than an empty string
  has, so that the first byte of the text is written in front of the array and the rest one
  too far to the front (`ShortString.hpp:51`).
* `StringCommon`: `Substrings` loses a run that lies within the last two bytes.
* `Notification`: a Post between the test and the wait is lost; on Linux the waiters of one
  condition variable use different mutexes.
* `Buffer`: `Read` checks where it starts and not where it ends.
* `Window`: the first position of the mouse is recognized by a comparison with NAN, which is
  never equal, so that the first movement is not a number.
* `TTF`: a glyph that is parsed early, as a part of another, has the advance width
  of the glyph in whose turn it was parsed; the points of a composite glyph lose their control
  flags (`TTF.hpp:975`), and a scale of two by two is applied to X twice and to Y twice, as if its
  rows did not mix them (976-977); a font whose last glyph is blank is refused;
  cyclic glyphs recur without end.
* `Matrix`: `Matrix4 += float` subtracts; the inverse by cofactors divides by the determinant
  cut to an int; the product of two `Matrix3x4` has a row of ones where the last row should be 0 0 0 1; SetRotation multiplies for three of its argument
  types; the orthographic
  projection keeps its translation in the last row, unlike all others.
* `SparseVector`: `Clear` keeps the memory of its groups for ever; the end of a group at the
  highest position is 0.

## 6. What is left out, and why

* Sizes of a table or vector of 0 where the code does not survive them: the
  assumptions on the constants name them.
* Moves of `HashMap`, `FixedVector` and `SparseVector`, the destructors of `PagedVector` and
  `MultiVector`, copies of `JSON`: they hand on or give back the memory as a whole.
* `Skim` (`Vector.hpp:549`): it pops ascending indices without correcting them for what
  it popped before.
* Nesting in JSON beyond the 16 and 32 levels of the stacks, quotes within
  strings, and texts that the serializer does not write.
* The payload of `MultiTree` nodes and their destructors.
* Hashes and cases of letters, hexadecimal numbers, the adaptors of `Range.hpp`.
* `MappedFile`, queries of files and directories, handles that are not open.
* The Win32 side of `Window`, which does not compile as it is written; icons, the cursor,
  vibration of gamepads, whose identifier is never set.
* The other formats of the table cmap, colour tables and the fixed fields of fonts.
* Rounding, roots and trigonometry. GJK and EPA (`Math/Collision.hpp`):
  `Simplex.Remove` ignores its argument and the search has no bound, so that there is
  nothing to state that holds.
* `IndirectionMap`: unfinished; nothing uses it, its tests are commented out, and its
  free list hands out an index again that a longer entry has taken.
* `ReadWriteMutex` and the Windows-only `ConditionalLock`: no client in the library.
* The components with status `not_modelled` in `PROJECT.json`, for the reasons given
  there: wrappers of the operating system, fragments that do not compile, and templates
  without state.

## 7. Plan

Done, in this order: Monitor, BlockingQueue, Semaphore with their abstract
specifications and proofs; HashMap, KeyMap; Vector, DoubleAllocator, FixedVector
with proofs; MultiTree; JSON, Tree, SmartPointer, PagedVector; the texts; Buffer and File;
Window and Gamepad; TTF; Matrix and Geometry; Notification; MultiVector and SparseVector;
the proofs about the steps of Vector; the proofs about HashMap with its refinement; those
about the components of `LibraryCore`; those about MultiTree.

Next:

1. Theorems: commas of JSONSerializer from "the text ends in a
   comma exactly if the count of the innermost level is positive"; the two lengths of Strings.
2. `StaticAllocator` below Vector, the moves of Vector, `MultiVector`'s destructor.
3. `MappedFile` and the queries, once their clients say what they expect.
