# A TLA+ verification of c4stl

c4stl is a C++ library of containers and the parts they are built from: memory
resources, allocators, raw storage, index-based lists, spans, strings and
streams. It is a library: apart from a few global variables and the log's
mutexes nothing in it runs concurrently. What is hard in it are *long sequences
of legal calls*, each of which leaves state behind that a later call trusts
(links, capacities, a saved global), object *lifetimes* in memory that is
allocated and filled separately, *globals that scopes set and restore* while
allocators hold on to them, the *interleavings* of threads that log, and
*arithmetic in a narrow size type*.

Paths below are relative to the repository.

## Inventory

| Component | State | Operations | What makes it correct |
|---|---|---|---|
| **Lists** `src/c4/list.hpp`: `flat_list`, `split_list`, `flat_fwd_list`, `split_fwd_list` | `m_head`, `m_tail`, `m_size`, `m_fhead`, and `next`/`prev` indices beside the elements of a raw storage | constructors, `push_back`, `emplace_back`, `reserve`, `clear`, destructor, iterators | the used chain holds what was put in, in order; the free list holds every other slot; no assertion fails; each element is destroyed once; iterators survive growth |
| **Raw storage, contiguous and fixed** `storage/raw.hpp`: `raw_fixed`, `raw`, `raw_small` and their `_soa` forms | pointer, capacity, in-place array (a union with the pointer in `raw_small`) | `_raw_reserve`, `_raw_reserve_allocate`/`_replace`, `_raw_resize`, `_raw_make_room`, `_raw_destroy_room` | elements are preserved, memory is freed once, capacity is what is allocated |
| **Raw storage, paged** `storage/raw.hpp`: `raw_paged`, `raw_paged_soa`, `raw_paged_rt` | array of pages, number of pages | the same, page by page | as above, with capacity a whole number of pages in the width of the size type |
| **Growth policies** `storage/growth.hpp` | none | `growth_least`, `_two`, `_phi`, `_chunks`, `_composed`, `_watermark` | the next capacity is at least what is wanted and follows the policy |
| **Range construction** `ctor_dtor.hpp` | none (works on raw memory) | `construct_n`, `move_construct_n`, `make_room`, `destroy_room` | each object is constructed once before use and destroyed once |
| **Memory resources** `memory_resource.hpp/.cpp` | the global resource, the allocation functions, counters | `set/get_memory_resource`, `ScopedMemoryResource`, `ScopedMemoryResourceCounts`, `AllocationCounts` | scopes restore what they found; counts balance |
| **Allocators** `allocator.hpp` | a resource captured at construction; `SmallAllocator`: an in-place buffer | allocate, deallocate, reallocate | memory returns to the resource it came from |
| **Contiguous containers** `storage/contiguous.hpp` | work in progress: constructors, destructor and growth are `C4_NOT_IMPLEMENTED`, and what inserts does not compile | – | – |
| **Spans** `span.hpp` | pointer, size (and capacity, and the original range in `etched_span`) | `subspan`, `range`, `first`, `last`, `compll`, `complr`, trims | results lie inside the source; `etched_span` can recover it |
| **String streams** `sstream.hpp`, `sstream.def.hpp` | string, put and get positions, status | `write`, `read`, `printf`, `scanf`, seeks | positions stay inside; what is read is what was written |
| **Strings** `string.hpp/.cpp` | character range, length, capacity | substring, search, trim, erase, interop | results lie inside the source |
| **Log** `log.hpp/.cpp` | channels, levels, mode, string buffer with a mutex | channels, write, pump, read back | all that is written is pumped; no deadlock |
| **Errors** `error.hpp/.cpp` | global flags and callback | `handle_error`, `ScopedErrorSettings`, the assertion macros | a scope restores the settings; the actions run in the stated order |
| **Memory utilities, hash** `memory_util.*`, `hash.hpp` | none | `mem_overlaps`, `mem_repeat`, hashes | pure functions |
| **Size conversion** `szconv.hpp` | none | `szconv` | a narrowing keeps the value, asserted |
| **Time, types, traits, configuration, natvis** | none | – | – |

How they interact. A list owns a raw storage (the split lists one per array) and
grows it by asking it for a temporary storage: `_raw_reserve_allocate` either
extends the storage where it is (paged) or fills a temporary one (contiguous),
into which the list moves its elements before `_raw_reserve_replace`. A raw
storage asks a growth policy how far to grow and owns an allocator, which holds a
pointer to the memory resource that was global when it was constructed. That
resource may be the counter of a scope, which latches onto the resource that was
global before. An allocation that fails goes to `handle_error`, and the error
settings, which have scopes of their own, decide whether it throws, aborts or
returns. A stream owns a string and keeps its size at the capacity. A thread logs
from a buffer of its own into a string that all share, under a mutex; errors are
logged there too, from whatever state their thread is in. Assertions everywhere
end in `handle_error`.

`PROJECT.json` lists each component with its files and whether it is modelled,
and under `hazards` what is hard to test in this code, each at its line.

| Part | Modules | Run | Proved |
|---|---|---|---|
| lists | `IndexList`, `ListSpec`, `MCIndexList`, `IndexListProofs`, `IndexListChainProofs` | `list_*`, `reserve_walk`, `clear_begin`, `max_capacity` | yes |
| raw storages, range construction, growth | `RawStorage`, `PagedRoom`, `GrowthPolicies`, `MCRawStorage`, `RawStorageProofs` | `raw_room`, `reserve_same`, `room_asserts` | without pages |
| memory resources, allocators, error settings | `MemoryResources`, `Errors`, `ScopedGlobals`, `MCMemoryResources`, `MemoryResourcesProofs` | `resources` | yes |
| log | `Log`, `Errors`, `SharedText`, `MCLog`, `LogProofs` | `log` | yes |
| strings, streams, substrings | `Strings`, `StringStream`, `Substrings`, `MCStringStream`, `StringStreamProofs` | `text` | yes |
| spans | `Spans`, `SpansProofs` | none | yes |

Three conventions hold throughout. A definition marked *Variant* is not part of
the specification: it replaces the definition after it by a plausible slip, and
each property of a passing run is known to fail under one of them. `Careful` is a
constant that says whether clients keep away from what the code does not support;
each module lists what that is, and what fails without it is under its
*Disagreements*. Variables called `contents`, `line`, `said`, `got`, `taken`
and the like are what a client remembers, never read by the modelled code: the
reference its state is compared with.

## The lists

### `IndexList`: the model

One module models the four list classes. `Doubly` tells the doubly linked from
the forward ones; flat and split classes differ in *where* an index is stored and
not in its value. `Storage` selects what the raw storage under the list does when
it must grow:

* `"paged"`: whole pages are added, no element moves; `capacity()` is pages times
  page size, computed in the size type (`StorageCap`, `Narrow`);
* `"contiguous"`: `raw` (`Inplace = 0`) and `raw_small` (`Inplace > 0`) give a
  new buffer into which the list moves its elements, one step per node;
* `"fixed"`: `raw_fixed` has `Inplace` slots and cannot grow.

| Variable | Code |
|---|---|
| `list` | the list object, a record: `cap` = `capacity()`, `head`, `tail`, `size`, `fhead` = the four members, `next`, `prev`, `elm` = the slots of the storage. An element is one of `Values`, or `Raw` (no object) or `Moved` (moved from) |
| `pc` | `idle` between calls, `moving` in the loop of `_growto`, `dtor` in the destructor, `done` after it, `abort` after a failed assertion |
| `pending` | the argument of the `push_back` that had to grow, or `None` in `reserve` |
| `cursor`, `tmp` | `i` in those loops; the temporary storage of `_growto` |
| `faults` | what a lifetime checker would report: `ub` (a slot without an object moved from or destroyed), `leak` (an object lost without its destructor) |
| `it`, `itpos` | the index in a client's iterator; how many steps it is from `begin()` |
| `contents` | what the client has put in: the reference the list is compared with |

| Action | Code |
|---|---|
| `Construct` (initial) | the three constructors, with `_init_initlist` |
| `Push` | `push_back`, `emplace_back`: `_append`, `_claim`, `_make_room_for`, and the construction of the element |
| `Reserve` | `reserve` where it does something: above the capacity |
| `Grow`, `MoveNode`, `Replace` | `_growto`: the growth in place in one step; or its start, one node of its loop, and its end, with the rest of the call that needed it |
| `Clear` | `clear` of a list that is not empty |
| `Destroy`, `DestroyNode`, `Destroyed` | the destructor, node by node |
| `Begin`, `Increment`, `Decrement` | `begin()`, `++` and `--` of an iterator |

The four classes have the same functions up to the links they write; the map in
`PROJECT.json` points each definition at one of them, so that between them the
four `_growto`s, destructors and constructors are all named. Assertions are
modelled as the code has them in a build with assertions enabled and the default
error flags: `abort`.

### `ListSpec`: what a list promises

A sequence that is appended to or emptied, and a cursor that moves along it from
the first element to the end and is not disturbed. `MCIndexList` maps the list to
it: the sequence is read off the used chain, and the cursor is `End` where the
iterator is `npos`.

### Runs

| Run | Question | Bounds |
|---|---|---|
| `list_paged` | Do pushes, clears and reserves in any order keep both chains complete (`UsedChain`, `FreeListComplete`) and in memory order (`MemoryOrder`), without a failed assertion (`NeverAborts`) or a cycle (`LoopsEnd`)? | doubly linked, pages of 2, up to 6 elements, capacities 0, 1, 3 |
| `list_contiguous` | Does a list that moves to new buffers stay an appended sequence (`ImplementsList`), with iterators that survive the moves (`IteratorStable`) and walks that end where they should (`DistanceIsSize`, `BeginIsEnd`), and without a slot moved from or destroyed that has no object (`NoUndefined`)? | forward list on `raw_small` with 2 in-place slots, up to 6 elements |
| `list_fixed` | Are the backward links right (`PrevMirrorsNext`, `FreeListPrev`), do iterators work both ways (`ImplementsList`), and are all elements destroyed once (`Lifetimes`)? | doubly linked, 4 slots |
| `reserve_walk`, `clear_begin`, `max_capacity` | the disagreements below | |

*Why the bounds are enough.* A list is at one of few stages: empty, partly full,
full; fresh, grown, cleared; with a free list older or newer than its last growth.
Six elements over pages of two (three growths) and over a buffer of two (growths
at 3, 4, 5 and 6) reach every combination of these, and the proofs below show that the invariants
found here do not depend on the bounds. `MaxRequest` (no client asks for more
elements), `Capacities` and the guard on `itpos` (no walk is longer than there
are slots) are the only bounds. Two values suffice to see elements exchanged.
The lists' actions may stop for good (destroyed, aborted), so deadlock is not
checked.

*Which clients.* `list_paged` clears and reserves at will; its chains survive,
but a walk does not (next section), so the properties of walks are checked in the
other two runs, in which lists are reserved only while empty and not cleared.

*Fairness.* `FairSpec` is weakly fair to the steps of a loop that has begun
(`MoveNode \/ Replace`, `DestroyNode \/ Destroyed`): a call in a sequential
program runs to its end. Clients need not call anything. `LoopsEnd` is then the
claim that no chain holds a cycle.

### Disagreements

Three are runs of their own, each with the sentence it contradicts in
`PROJECT.json`:

1. `reserve_walk`. `reserve()` on a list with elements relinks from the tail, so
   that a walk goes on from the last element into the free slots, until the next
   `push_back` ends the chain again (`list.hpp:300`).
2. `clear_begin`. `clear()` leaves `m_head`: `begin()` of the emptied list is not
   `end()` but the head of the free list (`list.hpp:239-245`).
3. `max_capacity`. The capacity of paged storage wraps to 0 when the last page
   that `max_size()` allows for is added: with `uint8_t` and the default pages of
   64 a list aborts at the 193rd element (`raw.hpp:2400`).

Others were met while modelling; the properties named fail in the configurations
described, and the runs avoid those:

* a growth of a doubly linked list cuts the backward chain at the old tail, which
  `_init_seq` gives the `prev` `npos` (`list.hpp:309`; `PrevMirrorsNext` with
  `Doubly` and paged or contiguous storage);
* after `reserve()` on a doubly linked list that has free slots, `prev` of the
  old head of the free list denotes the tail (`list.hpp:203`, `311`; `FreeListPrev`);
* contiguous growth frees the old buffer without destroying the objects moved
  from, and `clear()` destroys nothing (`list.hpp:484`, `243`; `Lifetimes`).
  `list_contiguous` therefore checks `NoUndefined`, which leaves leaks out, and with
  them an element constructed over an object that `clear()` left alive;
* over contiguous storage, a growth after `reserve()` or `clear()` of a list that
  had elements walks into the free list and fails the assertion `pos == m_size`
  (`list.hpp:483`; `NeverAborts` with `Clearing` or `Reserving = "always"`).

The remark "this is not true, need to fix" in `test/c4/test/list.hpp:55`, that
`m_fhead` may not be `npos` in a full list, is out of date: `FreeListComplete`
holds.

### Proofs: `IndexListProofs`, `IndexListChainProofs`

The theorems hold for all values of the constants that satisfy `ListAssumption`
and these assumptions on the clients:

* `WithinWidth`: the capacity the storage gives for a request is at least the
  request and within the size type. `PagedWidth` proves it for paged storage whose
  pages divide the range of the size type and that asks for all pages but one;
* `MovableClients`: over contiguous storage, lists are reserved only while empty and
  not cleared (otherwise the assertion above fails);
* `Appending`, `~Reversing`: the same restriction for the theorems about walks;
* `Tidy`: lists are not cleared and, where the storage can grow, reserved only while
  empty (otherwise the chain leads on from the last element, disagreement 1, or
  objects are left alive);
* `SureFooted`: iterators of a doubly linked list step back only over fixed storage (a
  growth cuts the backward chain, below).

| Theorem | Property |
|---|---|
| `TypeCorrect` | `TypeOK` |
| `NoAssertionFails` | `NeverAborts` |
| `AlwaysInMemoryOrder` | `MemoryOrder` |
| `IteratorsSurviveGrowth` | `IteratorStable` |
| `WalksAreComplete` | `DistanceIsSize` |
| `EmptyBeginsAtEnd` | `BeginIsEnd` |
| `ChainHoldsContents` | `UsedChain` |
| `FreeListHasTheRest` | `FreeListComplete` |
| `BackwardMirrorsForward` | `PrevMirrorsNext`, over fixed storage |
| `FreeListLinkedBack` | `FreeListPrev`, over fixed storage and without `clear()` |
| `NoUndefinedBehaviour` | `NoUndefined`, if `Tidy` |
| `EveryObjectDestroyed` | `Lifetimes`, if `Tidy` and the elements do not move |
| `ListRefinesSequence` | `ImplementsList`, if `Tidy` and `SureFooted` |

*The argument.* None of the properties is inductive: that a push finds a free slot
depends on the shape of the whole free list, which depends on what every growth
and clear did to it. What makes them provable is an observation that TLC confirmed
first: a list is always in *memory order*. The nodes are the slots
`0 .. size - 1`, the free list is the rest, in order. `clear` keeps this because
the used chain it puts before the free list is a prefix of the slots; a growth
keeps it because what it relinks begins at the last node. So the inductive
invariant `IInv` says, without recursion or reachability: at rest the list is
`Linked` (memory order, and indices inside the storage), `Stored` (slot `k` holds
the `k+1`-st value) and, where the client only appends, `Closed` (the last node's
`next` is `npos`, and an empty list has no head); during a move, the first `n`
slots of the new buffer are in memory order and the cursor is at node `n`; and an
iterator is at slot `itpos`.

`InitSeqLemma`, `SetFheadLemma`, `GrowthLemma`, `AppendLemma`, `EmptyLemma` and
`InitlistLemma` say what each member function of the list returns; a lemma per
action (`PushLemma`, `MoveNodeLemma`, `ReplaceLemma`, ...) carries the invariant
through it; `StepLemma` puts them together and `Inductive` is `Spec => []IInv`.

`IndexListChainProofs` draws on that. `UsedChain` and `FreeListComplete` are stated
with the recursive `Walk` along the links, which says nothing of memory order:
`WalkDef` shows that the recursion has a solution, `WalkChain` by induction on its
steps that a walk along links that lead from each slot to the next visits them
in order, and `UsedTrail` and `FreeTrail` what that makes of the two chains. For the
backward links, `BackInv` gives `prev` of every slot, which only fixed storage keeps.
For lifetimes, `LifeInv` says that at rest exactly the nodes hold objects (over
contiguous storage: at least they do), and in the destructor exactly those from the
cursor on; that the walk of the destructor ends where the objects do is the part
that needs `Tidy`. The refinement adds where the iterator is (`PlaceInv`):
`ClientSees` reduces a step of the list to what it does to the sequence and the
cursor, and `AbstractStep` maps each to a step of `ListSpec` or none.

*Model-checked only.* `LoopsEnd`, which is liveness.

### Not modelled in the lists

`push_front` is `C4_NOT_IMPLEMENTED`. `_claim(n)` calls a function that does not
exist and cannot be instantiated. `_grow_at_end` has no caller.

Elements whose constructor throws, allocations that fail, and a `push_back` of the
list's own element that makes it move are not modelled. In each the code leaves
something that no client can use: `push_back` links the node before it constructs
the element (`list.hpp:262`), the split lists grow their arrays one after the
other (`614`), and `v` refers into the block that `_growto` has freed (`264`). A
push of an own element that does not move the list is a push of an equal value.

## The raw storages

### `RawStorage`, `PagedRoom`, `GrowthPolicies`: the models

`RawStorage` is a storage under a container that keeps the size and constructs the
objects it inserts. `kind` is one of `fixed` (`raw_fixed`, `raw_fixed_soa`), `raw`,
`soa` (`raw_soa`), `small`, `small_soa` and `paged`; `build` says whether assertions
are enabled. A structure of arrays has the same done to each of its arrays, so that
one array stands for all; the soa kinds differ in the capacity they then set. The
loops that move or destroy objects take one step per object, so that an object
overwritten before it has moved is seen.

| Variable | Code |
|---|---|
| `cap` | `m_value`, what `capacity()` returns (`N` in `raw_fixed`, pages times page size in the paged ones) |
| `mem` | `arr`: the in-place `m_arr`; `heap`: the block at `m_ptr`, or the pages one after the other; `fresh`: the local `tmp` that is being filled. A slot holds an object, `Moved` or `Raw` |
| `pc`, `call`, `i` | the call in progress, its arguments, and the index of its loop |
| `faults` | `ub`: an object moved from, assigned to or destroyed where none is alive, or outside the block; `size`: a block deallocated with another size than it has |
| `size`, `contents` | the container's size, and the sequence it should hold: the reference |

| Action | Code |
|---|---|
| `Reserve` | `_raw_reserve` (`ReserveRaw`, `ReserveSmall` up to their loop; `ReservePaged` whole) |
| `MakeRoom`, `DestroyRoom` | `_raw_resize`, which calls `_raw_make_room` or `_raw_destroy_room`, up to the loop of `make_room` or `destroy_room`; a failed assertion aborts |
| `MakePagedRoom` | the same over pages, in one step |
| `MoveOut` | one object of `move_construct_n`, or of `make_room` to a new buffer (which copies: its source is const) |
| `Shift`, `Close`, `Drop` | one object of `make_room` in place, and of the two branches of `destroy_room` |
| `Replace`, `ReplaceInplace`, `RoomMade`, `RoomClosed` | the end of those calls, and the container's construction of what it inserts |
| `Destroy` | the container's destructor and then the storage's |

`PagedRoom` is `_raw_make_room` of the paged storages with all it calls, as an
operator on the pages: room at the end, whole pages of room, room within the last
page, and room across pages, where what spills from a page moves to the next. The
pages are one memory in the order of `m_pages`, so that a page is what its number
says. The result also says whether objects were moved only from where there are
some and to within a page (`ok`), and whether the assertions on the way hold.

`GrowthPolicies` has every policy that compiles. Each kind grows by one of them
(`Policy`): in the runs `small` by phi, `small_soa` by least with a watermark and the
others by the default, whose threshold is set so that up to four objects are
doubled and five grow by phi. `growth_chunks` calls `next_size` with an argument
too few (`growth.hpp:104`).

The container is the environment here: it inserts at most up to `MaxSize` (`N` in
`raw_fixed`, `MaxPaged` over pages) and removes only what it has. It is the client
that `contiguous` is meant to be; the lists use only `_raw_reserve_allocate` and
`_raw_reserve_replace`, which are in `IndexList`.

### Runs

| Run | Question | Bounds |
|---|---|---|
| `raw_room` | Do insertions anywhere, removals, reserves and growths keep the objects and their order (`ContentsKept`), with memory for the whole capacity (`CapacityBacked`) and no undefined behaviour (`NoUndefined`)? `TypeOK` also bounds each block by twice what was asked for | six kinds, both builds, 2 slots in place, up to 5 objects of 2 interchangeable values; over pages up to 10 in pages of 4 |
| `reserve_same`, `room_asserts` | the disagreements 1 and 2 below | `raw`, up to 3 objects |

Five objects give overlapping and separate shifts of up to four objects in each
direction, growths from the array to the heap and from block to block, and every
position of an insertion relative to the ends. Ten objects in pages of four are
two full pages and part of a third: rooms of less than, exactly and more than a
page, before, in and behind any page. A destroyed or aborted storage stops, so
deadlock is not checked.

`Careful` clients do not reserve the present capacity, go back from the heap to the
array only when empty and to exactly `N`, leave out calls of the soa kinds that
set a wrong capacity (`RoomCounted`), start `small_soa` with at least `N`, and over
pages make room only where `RoomSupported` says that it works.

### What is proved

`RawStorageProofs`, for every `N`, `MaxSize`, element size and build and every
growth policy of each kind, from `RawAssumption`, `PagedAssumption`,
`GrowthAssumption` and `Contiguous`: careful clients, and no paged storage. What
room over pages comes to is a recursion over them, which is not proved yet and
stays with TLC.

| Theorem | Property |
|---|---|
| `Inductive` | the invariant below |
| `TypeCorrect` | `TypeOK`: no block is larger than twice what was asked for, whichever the policy |
| `ContentsAlwaysKept` | `ContentsKept` |
| `CapacityAlwaysBacked` | `CapacityBacked` |
| `NothingUndefined` | `NoUndefined` |

None of the four is inductive: that the objects are in place when a call returns
follows from where they are in the middle of its loop. `IInv` says so, with
`Kept(b, c, lo, hi, shift)`: the objects `lo` up to `hi` are in block `b`, `shift`
slots further. `Backed` gives each block its exact size and the in-place kinds at
least `N`. `ReserveInv` and `GrowInv` say which objects have arrived in the new
block; `ShiftInv` splits the block in what has been shifted and what has not, for
each direction in which `make_room` runs; `CloseInv` and `DropInv` do so for
`destroy_room`, with an object alive wherever one is assigned to. `KeptElsewhere` and
`KeptArrived` are the heart of each step: an object moved within its block
overwrites none that is still to move, which is what the direction is for.
`PolicySuffices` is what a policy must give: what is wanted, and at most twice that.

### Disagreements

1. `reserve_same`. `raw::_raw_reserve` with the present capacity allocates
   nothing, frees the block and keeps the capacity (`raw.hpp:1285-1296`).
2. `room_asserts`. The assertions of `_raw_make_room` demand that the room fits
   with a slot to spare, before the code that grows when it does not fit
   (`raw.hpp:1485-1488`): with assertions enabled these storages never grow, and
   the debug build of `raw_room` reaches no growth. Over pages `_raw_resize` asserts
   `pos < capacity` (`3268`), so that an append to full pages aborts, and
   `idcurr > idpos` fails for an insertion before the last object of a page (`3469`).
3. `raw_small` going back from the heap to its array, which shares its memory with
   the pointer to that heap block (`raw.hpp:1921`): with an object the pointer is
   overwritten before it is freed (`NoUndefined` fails without `Careful`), and
   without one the capacity becomes what was asked for, which may be less than the
   array, so that later `make_room` puts the size above it (`CapacityBacked`).
4. `destroy_room` leaves the objects it moved from alive behind the moved tail
   (`ctor_dtor.hpp:400-405`). `NoUndefined` has no leaks.
5. Room over pages, outside `RoomSupported`. With spare pages, an insertion before
   the end moves the wrong objects. A whole number of pages of room makes none, or
   adds a negative number of pages, unless the last page is full. A room that
   spills into a partly full last page loses objects. When what is before `pos` in
   its page and the rest of the room together exceed a page, an object from
   before `pos` is moved away: inserting two at 3 into five
   `raw_paged<std::string,int,4>` elements empties element 2. The tests use `int`,
   which a move leaves as it was.
6. `raw_soa` sets `next_capacity(...)` even when nothing was reallocated
   (`raw.hpp:1563`): harmless with phi, which returns the present capacity where it
   suffices, wrong with doubling. `raw_small_soa` sets the wanted size though it
   allocated `next_capacity` (`2310`), so that the block is later deallocated with a
   wrong size; its `_raw_reserve` sets the capacity also where each of its arrays
   returned early, to less than `N`; its `_raw_reserve_replace` (`2097`) does not
   compile with GCC.
7. Paged `_raw_reserve` below the size passes the old size to `_raw_destroy_n` where
   a count is expected (`3163`). It is not modelled; clients reserve at least the size.

## Memory resources, allocators and error settings

### `MemoryResources`: the model

One stack of scopes: `ScopedMemoryResource`, `ScopedMemoryResourceCounts` and
`ScopedErrorSettings`. A counter is named by its place in the stack, as an address in
the code that a later counter has again. Containers own an `Allocator` or a
`SmallAllocator` and one block, two while they move their objects. `Errors` holds the
error settings and what `handle_error` comes to under them: `throw`, `abort` or `return`.

| Variable | Code |
|---|---|
| `global`, `errors` | the global memory resource; the error flags and callback |
| `scopes` | for each open scope what it restores and, if it is a counter, its current and largest counts and the counters a call of it passes through |
| `owner` | per container the resource of its allocator, its block and the one it moves to: `via` the resource that gave it |
| `balance` | `curr` of the thread's `s_counts`, to which counters that close add |
| `pc`, `handler` | an exception on its way, and the scope that catches it |
| `faults` | `ub`: a call of a resource that is gone, or undefined behaviour of the code; `foreign`: a block given to another resource than it is from |

| Action | Code |
|---|---|
| `EnterResource`, `EnterCounts`, `EnterErrors`, `Leave`, `Catch` | the constructors and destructors of the three scopes, left by their end or by an exception |
| `SetResource`, `SetErrors` | `set_memory_resource`, `set_error_flags`, `set_error_callback` |
| `Construct`, `MoveAssign`, `Destroy` | a container with its allocator |
| `First`, `Relocate`, `Settle`, `Free` | `allocate` and `deallocate`, with the failure of the allocation and `handle_error` |
| `Reallocate` | `reallocate` of both allocators, `do_reallocate` of counters, `arealloc_impl` |

`ScopedGlobals` is what the three classes promise, without resources or allocators:
globals that may be set at any time, and scopes that nest, each of which puts back
what it found.

### Run

| Run | Question | Bounds |
|---|---|---|
| `resources` | Do scopes restore what they found whatever was set in between and however they are left (`ImplementsScopes`)? Do pointers to counters never dangle (`NoDangling`), blocks return to where they came from (`BlocksGoHome`), counters balance and track the peak (`CountsBalance`, `MaxTracksPeak`, `ClosedBalanced`)? | 2 resources, 2 interchangeable containers with `SmallAllocator<1>`, blocks of up to 2 objects, 2 open scopes, errors that abort by default or a callback that throws |

Two scopes are a counter within a counter, a resource set within a counter and an
error scope around or within either. Blocks of one and of two objects are in and
outside the array of a `SmallAllocator`. Two containers move blocks between each
other.

`Careful` clients let counters latch onto the global resource only, destroy containers
before the counter they allocate from, and reallocate from heap to heap only where
errors abort. What a block holds is not modelled.

### Disagreements

The property named fails without the part of `Careful` that excludes the call.

* `ScopedMemoryResourceCounts(m)` with another `m` than the global resource makes `m`
  global when it ends (`ImplementsScopes`).
* A container that outlives its counter deallocates through a pointer to a counter
  that is gone (`NoDangling`, `BlocksGoHome`), and the counter hands on counts that are
  not zero (`ClosedBalanced`).
* `SmallAllocator::allocate` gives its array as often as it is asked (`allocator.hpp:176`):
  a container that moves its objects between two small blocks has both in the same
  place. `SmallAllocator::reallocate` between the array and the heap copies nothing
  (`259`). The run's clients do both; as the code promises nothing of what a block
  then holds, no property is about it.
* `propagate_on_container_move_assignment` is misspelled (`allocator.hpp:112`, `194`), so that
  a standard container would not take an allocator over by a move assignment.
  `MoveAssign` is a container that does.
* A reallocation that throws has already been taken off the counts, though the old
  block is still there (`CountsBalance`, `MaxTracksPeak`). Where the error settings let
  `handle_error` return, `arealloc_impl` copies into a null pointer and `aalloc_impl` uses
  an uninitialised one (`BlocksGoHome`).
* `handle_error` itself allocates from the global resource when it logs: out of memory,
  it comes back to itself. `ON_ERROR_THROW` names a class that does not exist. The
  globals are not synchronised between threads. None of these is modelled: the
  model's clients are one thread.

### Proofs: `MemoryResourcesProofs`

For any resources, containers, block sizes and depth of scopes, under
`ResourcesAssumption` (among others: finitely many containers), `Careful` and
`ClientsStop` (every error setting in use has the abort flag; a callback may throw
before it takes effect):

| Theorem | Property |
|---|---|
| `TypeCorrect` | `TypeOK` |
| `ScopesRestore` | `ImplementsScopes`, the refinement of `ScopedGlobals` |
| `NeverDangling`, `BlocksAlwaysGoHome` | `NoDangling`, `BlocksGoHome` |
| `CountersBalance` | `CountsBalance` |
| `CountersCloseEmpty` | `ClosedBalanced` |
| `MaximaArePeaks` | `MaxTracksPeak`, an action property |

*The argument.* A scope restores what it saved, which is what it found only if the
counter latched onto the global resource; and what it found may itself be a
counter, which must be older than the scope, or it would be gone before. So `IInv`
says of every scope that its `original` is what it found and a resource or an
*older* counter (`SoundScope`), of every container that its resource can be reached,
that its blocks came from that resource or are in its array, by their size
(`SoundOwner`), that the global resource can be reached, and that nothing
undefined has happened. That containers are gone before their counter is what
keeps `SoundOwner` when a scope is left. Counting leaves all of this alone
(`CountedAlike`); a lemma per action carries it on. `Simulation` maps each step to one
of `ScopedGlobals`.

The counts are sums over the blocks of all containers. `Tally` is such a sum, over
the places where a container keeps a block, of what the block there weighs on a
counter: one allocation and its size if it came through that counter, which
includes the counters that one calls, and nothing otherwise. `LiveTally` shows that
the counts of the property are that sum. `BInv` says that every counter has its
`Tally` and a maximum no less. Each action of a container changes one place, or two
where blocks move; `SomeEffect` describes what it adds to and takes from the counts,
and `EffectLemma` shows that the sums change by as much, by the lemmas on sums of
`Recursion`. A scope that opens has a sum of zero, for nothing can have come
through a counter that is not there (`ViasReachable`), and the counter that closes has
one for the same reason. `Peak` is the step form of `MaxTracksPeak`: it needs the
balance before and after the step. There is no liveness here, and nothing is
model-checked only.

## The log

### `Log`: the model

Threads print to channels from buffers of their own, pump these into the terminal
and the shared log string, read the string under its mutex, and raise errors, which
log too. A character is `<<thread, call, k>>`: the `k`-th of what that call prints,
`0` for the prefix, so that anything lost, torn or out of order shows.

| Variable | Code |
|---|---|
| `mode`, `channels`, `added` | `m_mode`, `m_channels` with their levels, and those that were added |
| `store`, `pos`, `mutex`, `reader` | `m_strbuf`, `m_strbuf_mtx` and who holds a `StrReader` |
| `term`, `shown` | what was printed to the terminal, and how much of it flushed |
| `buf`, `size`, `proxy` | a thread's `s_log_buffer`, what it gave to `pump()`, and its `Proxy` |
| `error` | in `handle_error`: the settings, and the lines yet to log |
| `pc`, `status`, `calls` | where each thread is, whether the program was aborted, and a bound |
| `said`, `taken`, `cut` | history: what each thread had to log, what readers cleared, and the proxies printed in parts |

| Action | Code |
|---|---|
| `PrintTo`, `Write` | the `printf`, `print`, `cat`, `catsep` and the `write` families, which differ in the size they pump |
| `OpenProxy`, `Stream`, `CloseProxy` | a `Proxy`, which prints when it ends or when the buffer gets big |
| `PumpTerm`, `Lock`, `Copy`, `Advance` | `pump()`: the terminal, the `lock_guard`, and `LogBuffer::write`, whose copy and whose `pos` are two steps |
| `Str`, `StrLock`, `Take`, `Release` | `str()`, `StrReader::clear`, and the end of the reader |
| `Fail`, `ErrorLine`, `EndError` | `handle_error`: the lines it logs, the flush, the callback and the abort |
| `AddChannel`, `SetLevel`, `FindMissing` | channels, whose configuration is one thread's business |

`SharedText` is what readers are promised: a text that grows at its end, and that
stands still while someone reads it.

### Run

| Run | Question | Bounds |
|---|---|---|
| `log` | Is nothing lost or doubled (`NothingLost`), no message torn by another thread, in the terminal or in the string (`WholeMessages`), or taken half by a reader (`TakenWhole`), everything shown before an abort (`AbortShown`)? Do readers see a `SharedText` (`ImplementsSharedText`)? Does everyone get through (`GetsThrough`)? | 2 threads with 2 calls each, 2 characters per call, 1 channel, 2 lines per error (3 in the code), a buffer that gets big at 2, modes {string} and {timestamp, terminal} |

Two threads are enough for every pair of steps to meet; a second call of a thread
sees what the first left in its buffer. What goes to the terminal does not depend
on the string, so the modes need not be combined. With one channel, adding a
second is the error of `add_channel`. Threads stop calling, so deadlock is not checked
as such; `GetsThrough` is the stronger claim.

*Fairness.* `WF` of each thread's `Step`: a thread that is running goes on, and one that
holds a reader lets it go. Threads need not begin calls. Weak fairness suffices for
the mutex because each thread makes finitely many calls, so that it is free for
good at last; with calls without end the code relies on a mutex that starves no one.

`Careful` clients pass `write` nothing it would lose (below) and do not log while they
read.

### Disagreements

* `write`, `writel` and `writecl` give `pump()` the size of what was written: with a prefix,
  which the default mode `SHOW_TIMESTAMP` prints, or text of a proxy in the buffer,
  as much of the end is lost (`log.cpp:148`; `NothingLost`).
* A thread that logs, or fails an assertion, while it holds a `StrReader` waits for
  itself (`GetsThrough`).
* `level()` "set the level of all channels" (`log.cpp:47`) leaves the main channel alone
  before any channel was added; the first `add_channel` initialises the main channel
  anew, and with settings that let `handle_error` return, one more than there is room for
  is written past `m_channels` (`83-86`; no error in the run returns there);
  `channel("netio")` finds the channel `net`, and `channel_exists` denies the main
  channel before others are added.

### Proofs: `LogProofs`

For any threads, channels, buffers and error settings:

| Theorem | Property |
|---|---|
| `TypeCorrect` | `TypeOK` |
| `ReadersSeeSharedText` | `ImplementsSharedText` |
| `MessagesStayWhole` | `WholeMessages`, in the terminal and in the string |
| `TakenStaysWhole` | `TakenWhole` |
| `NothingIsLost` | `NothingLost`, if `Careful` |
| `AbortsAreShown` | `AbortShown`, if `Careful` |

*The argument.* That the text stands still under a reader needs that no writer is
between its lock and the end of its `write`; that it only grows, that what is behind
`pos` is what the writer has copied there and nothing else. `IInv` has these as
`WritersLock` (who is copying or advancing has the mutex, and there is no reader),
`PosIsBehind` (`pos` is the end of the string, but for a thread between its copy and
its advance), `SizesFit` (no buffer is pumped beyond its end) and `ReadersLock`.

That nothing is lost says of every thread that what it said is what is in a sink,
what readers took and what its buffer still has. `Of` filters a thread's characters
from a text by recursion on its length; `OfDef` shows that the recursion has a
solution, `OfConcat` that it goes through texts joined, and `OfOwn` and `OfOthers` what it
makes of a buffer, which has characters of its thread alone (`BuffersAreOwn`). The
invariant adds that a buffer is pumped whole (`PumpsAll`, which `write` breaks without
`Careful`) and that what is behind `pos` is all of the writer's buffer (`CopiedOwn`).
An abort follows: its thread is past its own pumping, and its buffer, also of a proxy
that it has not ended, has gone out with the lines of the error, unless the main
channel skips these (`ErrorsInv`).

That messages stay whole needs an order among calls: `CallsFit` says that what a
thread has in its buffer is of its latest call, or of the proxy it has open, and
later than all of its that was logged, so that a message that is appended starts
anew or continues the last one (`TogetherConcat`). `TermInv` says so of the terminal,
which gets a buffer before the string does and while other threads write there, and `TakenInv` of what readers took away: it shares no call with the string,
so that with `CallsFit` none is still to come. Careless clients lose text, but tear none.

*Model-checked only.* `GetsThrough`, which is liveness.

## Strings and streams

### `Strings`, `StringStream`, `Substrings`: the models

`Strings` has the memory of `basic_string` and the functions of `_str_crtp` that write, as
operators on the string and the heap. A string is in the array of the object while
it fits there; `ArrSize` (23 in the code) and the growth factor 1.618 are as there.
Three facts stand for what a function leaves behind the end of the text: whether a
NUL follows (`ended`), whether a short string's array is still blank (`blank`, for its
bytes become the size of a long string), and whether `size()` is right (`sized`).

`StringStream` is a stream over a string of its own, and a client with a string that
it edits, makes streams of, writes to them and reads from them.

| Variable | Code |
|---|---|
| `str`, `heap` | the client's string; the blocks allocated, with their sizes |
| `ss`, `open` | the `sstream`: its string, put and get positions, `EOFG`, `FAIL` and whether errors are ignored |
| `halted` | an error was raised and has aborted |
| `line`, `said`, `got` | what the client's string, the stream's text and its get position should be |

| Action | Code |
|---|---|
| `AssignPiece`, `AppendPiece`, `Double`, `PrependPiece`, `PushChar`, `JoinRight`, `JoinLeft`, `EraseChar`, `ResizeLine`, `ReserveLine`, `ClearLine`, `Shrink` | `assign`, `append` (also of itself), `prepend`, `push_back`, `pushr`, `pushl`, `erase`, `resize`, `reserve`, `clear`, `shrink_to_fit` |
| `Open`, `Close` | the constructors from a copy or by moving, and the destructor |
| `WritePiece`, `ReserveStream` | `write` and `printf` with `growto_`; `reserve` |
| `Read`, `Word`, `Number`, `Peek` | `read`, `operator>>` of a string and of a number, `peek` |
| `SeekP`, `SeekG`, `Reset`, `ClearErr`, `IgnoreErr` | positions and flags |

`Substrings` has the searches, trims, splits and pops of `_str_crtp` for one character,
as ranges of positions, as the code compares where ranges are and not only what
they hold. `MCStringStream` evaluates its claims on every text the client's string comes to hold.

### Run

| Run | Question | Bounds |
|---|---|---|
| `text` | Does every block have one owner that knows its size (`BlocksOwned`)? Is the string what the edits and reads made it (`StringKept`), the stream what was written (`StreamKept`)? Do the splits, pops and trims part a text without loss, and agree with each other (`SplitsJoin`, `PopsAgree`)? | arrays of 2, three characters (a digit, a space, a slash), pieces of 1 and 2, strings up to 5, up to 2 while a stream is open (which is made of a string of a capacity of at most 3), streams up to 3 |

An array of 2 makes strings of one character short and of two long, so that every
edit is tried within the array, out of it and back. Up to 5 characters give texts
of up to six parts, with separators at the ends and next to each other. Three
blocks are enough for a string, a stream and the block one of them moves to.
`IgnoreErr` is only turned on. A program that has halted stops, so deadlock is not
checked. Memory does not run out (`BlocksAssumption`): the default resource aborts
where it does.

`Careful` clients keep to the guards named `May...`; each is explained there and below.

### Disagreements

Those with a property were seen by TLC without the guard. Some were confirmed by
running the code.

* `reserve()` that makes a written short string long sets the flag for "long" in bytes
  that hold its characters, and `size()` becomes garbage (`string.hpp:3474`; 16 becomes
  1953042823151917072). A stream made of a short string of 15 to 22 characters
  aborts (`StringKept`, `StreamKept`; `MayReserve`, `MayStream`).
* `_resizebuf` of an empty long string leaks its block and writes no terminator
  (`3459-3464`; `BlocksOwned`; `MayGrow`). A `resize` that shrinks may reallocate, and
  `resize(capacity())` always does, so that a stream allocates twice when it grows.
* `append` of a string to itself reads freed memory when it reallocates (`2364-2378`,
  whose test for overlap is inverted; `StringKept`; `MayAppendSelf`).
* `seekp` before the get position breaks `remg()`, and the next read aborts (`TypeOK`;
  `MaySeekP`). After a seek back and a write, a NUL is put inside the old text, and
  words or numbers are read past the put position (`MayReadWord`, `MayScan`).
* `peek` looks one past the next character (`sstream.hpp:229`); `EOFP` is never set for
  `char`; `read_` ignores `FAIL`, and after `EOFG` returns without a word, and the scans do not
  check `EOFG`, where `sstream.hpp:44-52` promises `C4_ERROR`; `scanp_` advances unchecked;
  `wchar_t` writes clear at `b + sz` and not `b + putpos`.
* `move_out` (`sstream.def.hpp:33`) and `put` (`sstream.hpp:227`) do not compile;
  `move_in` is not defined.
* `basic_text::grow` sets the size to 1.618 times what it was, so that `push_back` adds
  junk (`3041-3049`, `3094-3099`); `append_expr` and `push_expr` write past the new size
  (`2544-2562`); `pushr` writes a slash whatever its separator (`2440`); `popr` of a text
  that is just the separator loses it; `prevdiff` never looks at position 0 (`1989`);
  `count` with a range ends at `sz - first` (`1509-1512`); `compare` goes up to the longer
  size. These are in functions that are not modelled, but for `pushr`, whose
  clients here join with a slash, and `popr`, whose claim leaves that text out.

### Proofs: `StringStreamProofs`

For any characters, pieces, array size and bounds, under the named assumptions and
`Careful`:

| Theorem | Property |
|---|---|
| `TypeCorrect` | `TypeOK` |
| `BlocksNeverLost` | `BlocksOwned` |
| `StringAlwaysKept`, `StreamAlwaysKept` | `StringKept`, `StreamKept` |
| `SplitsAlwaysJoin` | `SplitsJoin` |
| `PopsAlwaysAgree` | `PopsAgree` |

*The argument.* The invariants are nearly inductive together: `IInv` adds that every
capacity is above the size, that a short string has the array's capacity, and that
the stream's size is one less than its capacity, so that the put position plus a
terminator is always inside (`LineSound`, `StreamSound`), and states ownership as one
formula on the two strings and the heap (`Owns`), symmetric in them, so that a lemma
about one string serves both. `Reserved`, `Resized`, `WrittenFits`, `Prepared` and `Shrunk`
say what the memory functions return; `LeftJoined` is the hard one among the edits, for
`pushl` writes into the text it reads from. The lemmas on runs of characters
(`RunProperties`, `RunInPrefix`, `RunStops`) show that what a read finds up to the
terminator is what was written up to the put position.

`SplitsAlwaysJoin` is a fact about every text (`SplitsJoinAlways`). The iterators visit
parts by a recursion that jumps from a position to a later one (`NextIs`), which has a
solution by `JumpsExist`. From each position that a part may start at, the parts from
there on are free of the separator, as many as there are separators plus one, and
join to the rest of the text: `PartsFromStart`, by the last position of which that
could be false.

`PopsAlwaysAgree` is one too (`PopsAgreeAlways`). What makes it provable is that a text
is parted by its separators in one way (`OnePartition`), so that the splits of two texts
with a separator between them are those of the one and then those of the other
(`StepsApart`), and what holds only separators has none (`WithinAllSeps`, `WithinGap`).
It is then enough to know where the pops cut: `PopRPiece` and `PopLPiece` have the
last and the first part that hold something, with the separators outside of it, by
every case of `popr` and `popl`; `RightPop` and `LeftPop` have what the reciprocals leave,
and `DirnameIs` that `dirname` adds only separators to it. Where empty splits are kept,
`Rejoined` puts the text together again at the separator that was found.

No invariant of this run is left to model checking alone.

## Spans

`Spans` is a client that takes parts of a span over a block of `Total` elements, trims
and resizes them, keeps one aside and goes on with either. A span is its kind
(`span`, `spanrs`, `etched_span`), pointer, size, capacity and offset; pointers are
positions in the block; sizes are computed in a size type of `Width` values, and the
assertions are those of an assertive build. Each function of `span.hpp` that makes or
changes a span is an action: `Subspan`, `SubspanFrom`, `Range`, `First`, `Last`, `Complement`,
`Resize`, `Clear`, `RTrim`, `LTrim`, `Recover` (`original`), `Convert`.

There is little here that an instance would show and the theorems of `SpansProofs` do
not, so that no run repeats them. They hold for every block that the size type can
count (`Countable`) and clients whose `first + num` is a size (`Careful`):

| Theorem | What it says |
|---|---|
| `AlwaysInside` | a span and all that its capacity promises lie in the block, and reach to its end where the kind keeps a capacity |
| `OriginalRecovers` | "the full capacity span can always be recovered by calling original()" (`span.hpp:409`): the whole block, from any etched span derived from it |
| `ComplementsPart` | `compll`, a span inside another and `complr` part the other, without gap or overlap |

The invariant is that a span is inside the block, up to its end, and an etched one
as far from where it began as it says (`Sound`); `SelectSound`, `OverSound`, `ResizeSound` and
`ComplementsSound` say which of the ways to make a span keep that.

*Disagreement.* `subspan(first, num)` asserts `first + num <= size()` in the size type,
where the sum wraps: `subspan(1, npos)` passes the assertions and lies far outside
(`span.hpp:124`). Without `Careful`, `Inside` fails in the second state.

*Left out*: `assign`, the constructor that is given an offset, element access and
comparisons.

## Recursion and induction: `Recursion`

The provers take no induction theorem whose parameter is an operator. `Recursion`
states induction with sets instead: a set of numbers that has 0 and the successor of
each of its members has all of them (`SetInduction`, `IntervalInduction`), from the least
member of a set of numbers (`LeastElement`); `AppendInduction` and `FiniteInduction` do so for
sequences and finite sets. A recursive function is `CHOOSE` of one that satisfies its
equation, so that nothing can be said of it before there is one: `Iteration` and
`JumpsExist` give it, for recursions that go up step by step and that go on from a
later place. `Total` is the sum of numbers over a finite set, with what a change of
one of them does to it (`TotalChange`), how it parts (`TotalPart`) and its relation to
cardinality (`CardinalitySum`). Recursive definitions of the models are functions for
this reason.

## What is not modelled, and why

* **Most of the repository's lines.** Over half of them are generated benchmarks, and
  most of the rest tests; of the 15.6 thousand lines of `src/c4` most are the same
  function for another container, character type or constness, of which the map
  names one, and definitions without state: traits, types, comparisons, accessors,
  platform macros.
* **Contiguous containers** (`contiguous.hpp`). No container can be made, grown or
  destroyed: constructors, destructor and `_growto` are `C4_NOT_IMPLEMENTED`, and what inserts
  calls a `_resizeto` with two arguments that does not exist.
* **Strings**: `basic_text`, wide characters, sets of characters, comparison, the
  expression templates. **Streams**: `printp` and `scanp`, which are sequences of what is
  modelled; the failure of `vsnprintf` for a bad format (`sstream.def.hpp:273-278`); and the
  check of `advg` for a word that runs on past the put position, which only careless
  clients meet. **Log**: logging into a file, changing the mode while threads log, and
  how a `LogBuffer` formats and grows, which only its thread sees.
* **Raw storage**: `_raw_reserve` below the size, copies and moves of whole storages,
  `_raw_destroy_room` and `_raw_rem_pages` over pages (`C4_NOT_IMPLEMENTED`).
* **Elements and allocations that fail** under lists and storages; failing
  allocations are in `MemoryResources`.
* **Memory utilities, hashes, size conversion, time**: no state.

## Plan

1. `PagedRoom`: that the rooms at the end, of whole pages and within a page are insertions
   into a sequence, for any page size; the room across pages stays with TLC.
2. Models: elements whose construction throws under `RawStorage`; `basic_text`; sets of
   characters in `Substrings`.
