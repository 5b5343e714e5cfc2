----------------------------- MODULE RawStorage -----------------------------
(***************************************************************************)
(* The raw storages of storage/raw.hpp under a container that reserves,    *)
(* inserts and removes: raw_fixed and raw_fixed_soa (kind "fixed"), raw    *)
(* ("raw"), raw_soa ("soa"), raw_small ("small"), raw_small_soa            *)
(* ("small_soa") and the paged ones ("paged").  The container keeps the    *)
(* size and constructs the objects it inserts; the storage moves the       *)
(* others out of the way.  The loops that move objects (make_room,         *)
(* destroy_room and move_construct_n of ctor_dtor.hpp) take a step per     *)
(* object, except over pages, where PagedRoom says what they come to.      *)
(*                                                                         *)
(* A structure of arrays has the same done to each of its arrays, and then *)
(* sets the capacity: one array stands for all.                            *)
(*                                                                         *)
(* In a release build C4_ASSERT is void.                                   *)
(*                                                                         *)
(* A definition introduced by "Variant:" is no part of the specification:  *)
(* it is the definition that follows it as a slip in the code would have   *)
(* it.                                                                     *)
(***************************************************************************)
EXTENDS Sequences, PagedRoom, GrowthPolicies

CONSTANTS
  Kinds,      \* the kinds of storage looked at
  N,          \* slots in place of raw_fixed and raw_small
  MaxSize,    \* bound: no client asks for more slots than this
  MaxPaged,   \* bound: nor for more than this of paged storage
  Policy,     \* the growth policy of each kind
  Builds,     \* the builds looked at: "debug", "release"
  Careful     \* whether clients avoid the calls that break a storage

ASSUME RawAssumption ==
  /\ Kinds \subseteq {"fixed", "raw", "soa", "small", "small_soa", "paged"}
  /\ Policy \in [Kinds -> Policies]
  /\ N \in Nat \ {0} /\ MaxSize \in Nat /\ MaxPaged \in Nat
  /\ Builds \subseteq {"debug", "release"} /\ Careful \in BOOLEAN

VARIABLES
  kind,      \* which storage
  build,     \* which build
  cap,       \* m_value: its capacity()
  mem,       \* its memory: m_arr, the block at m_ptr, the block being filled
  pc, call,  \* the call in progress
  i,         \* the index of the loop it is in
  faults,    \* what a memory checker would have reported
  size,      \* the container's size
  contents   \* the objects the container has inserted and not removed

vars == <<kind, build, cap, mem, pc, call, i, faults, size, contents>>

Null == Block(0)

InPlace(k) == k \in {"small", "small_soa"}

Content == Values \cup {Raw, Moved}

(* data(): the in-place array, the block at m_ptr, or the pages.           *)
DataOf(k, c) == IF k = "fixed" \/ (InPlace(k) /\ c <= N) THEN "arr" ELSE "heap"
Data == DataOf(kind, cap)

(* Variant: the policy adds what is wanted to twice the capacity.          *)
SummedCapacity(want) == 2 * cap + want

(* next_capacity() of a storage that grows by a policy.                    *)
NextCapacity(want) == NextSize(Policy[kind], cap, want)

-----------------------------------------------------------------------------
NoCall == [op |-> "none", pos |-> 0, room |-> 0, new |-> <<>>, cap |-> 0]

(* The capacity that a storage constructed for c objects has.              *)
FirstCapacity(k, c) ==
  CASE k = "fixed" \/ (k = "small" /\ c <= N) -> N
    [] k = "paged" -> PagesFor(c) * PageSize
    [] k \in {"raw", "soa", "small_soa"} \/ (k = "small" /\ c > N) -> c

Init ==
  \E k \in Kinds, c \in 0 .. IF "paged" \in Kinds THEN MaxPaged ELSE MaxSize :
    /\ kind = k /\ build \in Builds
    /\ c <= IF k = "paged" THEN MaxPaged ELSE IF k = "fixed" THEN N ELSE MaxSize
    /\ Careful /\ k = "small_soa" => c >= N
    /\ cap = FirstCapacity(k, c)
    /\ mem = [arr |-> Block(N),
              heap |-> IF DataOf(k, cap) = "heap" THEN Block(cap) ELSE Null,
              fresh |-> Null]
    /\ pc = "idle" /\ call = NoCall /\ i = 0 /\ faults = {}
    /\ size = 0 /\ contents = <<>>

Abort == pc' = "abort" /\ UNCHANGED <<kind, build, cap, mem, call, i, faults, size, contents>>

Start(c, m) ==
  /\ pc' = "loop" /\ call' = c /\ i' = 0 /\ mem' = m
  /\ UNCHANGED <<kind, build, cap, faults, size, contents>>

Return == pc' = "idle" /\ call' = NoCall /\ i' = 0

(* The block at m_ptr is deallocated, as one of capacity() objects.        *)
Deallocated(fs) ==
  IF mem.heap # Null /\ mem.heap \notin [Slots(cap) -> Content] THEN fs \cup {"size"} ELSE fs

(* _raw_reserve(currsz, cap) of raw and raw_soa: a block of the present    *)
(* capacity is not allocated, only the old one deallocated.                *)
ReserveRaw(c) ==
  \/ /\ c # cap /\ c # 0
     /\ Start([NoCall EXCEPT !.op = "reserve", !.cap = c], [mem EXCEPT !.fresh = Block(c)])
  \/ /\ c = cap \/ c = 0
     /\ mem' = [mem EXCEPT !.heap = Null] /\ cap' = c
     /\ faults' = Deallocated(faults)
     /\ UNCHANGED <<kind, build, pc, call, i, size, contents>>

(* _raw_reserve(currsz, cap) of raw_small, where it does not return;       *)
(* raw_small_soa returns only from what it does for an array, and sets the *)
(* capacity.                                                               *)
ReserveSmall(c) ==
  /\ c # cap
  /\ \/ /\ c > N
        /\ Start([NoCall EXCEPT !.op = "reserve", !.cap = c], [mem EXCEPT !.fresh = Block(c)])
     \/ /\ c <= N /\ cap > N
        /\ Start([NoCall EXCEPT !.op = "inplace", !.cap = c], mem)
     \/ /\ kind = "small_soa" /\ c <= N /\ cap <= N /\ cap' = c
        /\ UNCHANGED <<kind, build, mem, pc, call, i, faults, size, contents>>

(* _raw_reserve(currsz, cap) of paged storage, where it does not return.   *)
ReservePaged(c) ==
  /\ PagesFor(c) # NumPages(mem.heap)
  /\ mem' = [mem EXCEPT !.heap = Extended(@, size, PagesFor(c))]
  /\ cap' = PagesFor(c) * PageSize
  /\ UNCHANGED <<kind, build, pc, call, i, faults, size, contents>>

Reserve(c) ==
  /\ pc = "idle" /\ c >= size
  /\ \/ kind \in {"raw", "soa"} /\ (Careful => c # cap) /\ ReserveRaw(c)
     \/ InPlace(kind) /\ (Careful => c > N \/ (c = N /\ size = 0)) /\ ReserveSmall(c)
     \/ kind = "paged" /\ ReservePaged(c)

(* Whether _raw_make_room finds the room in the memory it has.             *)
RoomFits(next) ==
  \/ kind = "fixed" \/ next <= cap
  \/ InPlace(kind) /\ cap <= N /\ next <= N

(* The assertions of _raw_make_room and _raw_destroy_room.                 *)
RoomAsserted(pos, room) == size < cap /\ room < cap /\ pos < cap /\ size + room < cap
CloseAsserted(pos) == size < cap /\ pos < cap

(* The objects that the container constructs in the room.                  *)
Filled(b, pos, new) ==
  [s \in DOMAIN b |-> IF s \in pos .. pos + Len(new) - 1 THEN new[s - pos + 1] ELSE b[s]]

Inserted(c, pos, new) ==
  [k \in 1 .. Len(c) + Len(new) |->
     IF k <= pos THEN c[k] ELSE IF k <= pos + Len(new) THEN new[k - pos] ELSE c[k - Len(new)]]

(* Whether a soa storage sets its capacity to what its arrays then have:   *)
(* raw_soa had to grow, or its policy does not where it need not;          *)
(* raw_small_soa need not, or grew to no more than what was wanted.        *)
RoomCounted(next) ==
  /\ kind = "soa" => ~RoomFits(next) \/ NextCapacity(next) = cap
  /\ kind = "small_soa" => RoomFits(next) \/ NextCapacity(next) = next

(* The container inserts new before pos.                                   *)
MakeRoom(pos, new) ==
  LET room == Len(new)
      c == [NoCall EXCEPT !.pos = pos, !.room = room, !.new = new]
      grown == NextCapacity(size + room)
  IN /\ pc = "idle" /\ kind # "paged"
     /\ pos <= size /\ room > 0 /\ size + room <= MaxSize
     /\ kind = "fixed" => size + room <= N
     /\ Careful => RoomCounted(size + room)
     /\ \/ /\ build = "debug" => RoomAsserted(pos, room)
           /\ \/ RoomFits(size + room) /\ Start([c EXCEPT !.op = "shift"], mem)
              \/ /\ ~RoomFits(size + room)
                 /\ Start([c EXCEPT !.op = "grow", !.cap = grown],
                          [mem EXCEPT !.fresh = Block(grown)])
        \/ build = "debug" /\ ~RoomAsserted(pos, room) /\ Abort

(* The same over pages, whose _raw_resize takes no pos that is the         *)
(* capacity.                                                               *)
MakePagedRoom(pos, new) ==
  LET more == Len(new)
      r == PagedRoom(mem.heap, size, pos, more)
  IN /\ pc = "idle" /\ kind = "paged" /\ size + more <= MaxPaged
     /\ Careful => RoomSupported(mem.heap, size, pos, more)
     /\ \/ /\ build = "debug" => pos < cap /\ r.asserted
           /\ mem' = [mem EXCEPT !.heap = Filled(r.mem, pos, new)]
           /\ cap' = NumPages(r.mem) * PageSize
           /\ faults' = IF r.ok THEN faults ELSE faults \cup {"ub"}
           /\ size' = size + more
           /\ contents' = Inserted(contents, pos, new)
           /\ UNCHANGED <<kind, build, pc, call, i>>
        \/ build = "debug" /\ ~(pos < cap /\ r.asserted) /\ Abort

(* Variant: the number removed is compared with those behind them.         *)
DestroysBehind(pos, less) == less >= size - pos

(* Whether destroy_room has nothing to move: room is not below n.          *)
DestroysOnly(pos, less) == less >= size - (pos - less)

(* The container removes the less objects to the left of pos.  Only if     *)
(* they are the last ones does the storage destroy them.  Over pages this  *)
(* is C4_NOT_IMPLEMENTED.                                                  *)
DestroyRoom(pos, less) ==
  /\ pc = "idle" /\ kind # "paged" /\ pos <= size /\ less > 0 /\ less <= pos
  /\ \/ /\ build = "debug" => CloseAsserted(pos)
        /\ Start([NoCall EXCEPT !.op = IF DestroysOnly(pos, less) THEN "drop" ELSE "close",
                                !.pos = pos, !.room = less], mem)
     \/ build = "debug" /\ ~CloseAsserted(pos) /\ Abort

-----------------------------------------------------------------------------
(* The loops.  Moving an object out of a slot leaves it moved from.        *)

(* How often the loop of a call runs.                                      *)
Count ==
  CASE call.op \in {"reserve", "inplace"} -> IF mem[Data] = Null \/ cap = 0 THEN 0 ELSE size
    [] call.op = "grow" -> IF mem[Data] = Null THEN 0 ELSE size
    [] call.op \in {"shift", "close"} -> size - call.pos
    [] call.op = "drop" -> call.room
    [] call.op = "none" -> 0

Looping(ops) == pc = "loop" /\ call.op \in ops /\ i < Count

Stepped == i' = i + 1 /\ UNCHANGED <<kind, build, cap, pc, call, size, contents>>

Checked(ok) == faults' = IF ok THEN faults ELSE faults \cup {"ub"}

(* To another block: move_construct_n, and make_room to a buffer, which    *)
(* takes its source as const and so copies.                                *)
MoveOut ==
  LET to == IF call.op = "inplace" THEN "arr" ELSE "fresh"
      d == IF call.op = "grow" /\ i >= call.pos THEN i + call.room ELSE i
      left == IF call.op = "grow" THEN mem
              ELSE [mem EXCEPT ![Data] = [@ EXCEPT ![i] = Moved]]
  IN /\ Looping({"reserve", "grow", "inplace"})
     /\ mem' = [left EXCEPT ![to] = [@ EXCEPT ![d] = mem[Data][i]]]
     /\ Checked(mem[Data][i] \in Values)
     /\ Stepped

(* Variant: the loop runs upwards also where the ranges overlap.           *)
ShiftedUpwards == call.pos + i

(* The next object that make_room shifts within its block: from the end    *)
(* down if the room is smaller than what is shifted.                       *)
Shifted == IF call.room >= size - call.pos THEN call.pos + i ELSE size - 1 - i

MovedWithin(b, from, to) == [b EXCEPT ![to] = b[from], ![from] = Moved]

Shift ==
  /\ Looping({"shift"})
  /\ mem' = [mem EXCEPT ![Data] = MovedWithin(@, Shifted, Shifted + call.room)]
  /\ Checked(mem[Data][Shifted] \in Values /\ Shifted + call.room \in DOMAIN mem[Data])
  /\ Stepped

(* destroy_room: the objects behind the removed ones are assigned down.    *)
Close ==
  LET k == call.pos + i
  IN /\ Looping({"close"})
     /\ mem' = [mem EXCEPT ![Data] = MovedWithin(@, k, k - call.room)]
     /\ Checked(mem[Data][k] \in Values /\ mem[Data][k - call.room] # Raw)
     /\ Stepped

(* destroy_room, at the end: the removed objects are destroyed.            *)
Drop ==
  LET k == call.pos - call.room + i
  IN /\ Looping({"drop"})
     /\ mem' = [mem EXCEPT ![Data] = [@ EXCEPT ![k] = Raw]]
     /\ Checked(mem[Data][k] # Raw)
     /\ Stepped

-----------------------------------------------------------------------------
(* The ends of the calls.                                                  *)

Ending(ops) == pc = "loop" /\ call.op \in ops /\ i = Count

Removed(c, pos, less) ==
  [k \in 1 .. Len(c) - less |-> IF k <= pos - less THEN c[k] ELSE c[k + less]]

(* Variant: the storage keeps the capacity of the block it has left.       *)
SameCapacity == cap

(* What the capacity becomes with the new block: raw_small_soa takes what  *)
(* was wanted of make_room for what was allocated.                         *)
GrownCapacity ==
  IF kind = "small_soa" /\ call.op = "grow" THEN size + call.room ELSE call.cap

(* m_ptr and m_arr share their memory in raw_small.                        *)
Pointed(arr) == [arr EXCEPT ![0] = Raw]

(* The new block takes the place of the old one.                           *)
Replace ==
  /\ Ending({"reserve", "grow"})
  /\ mem' = [arr |-> Pointed(mem.arr),
             heap |-> Filled(mem.fresh, call.pos, call.new),
             fresh |-> Null]
  /\ cap' = GrownCapacity
  /\ faults' = Deallocated(faults)
  /\ size' = size + Len(call.new)
  /\ contents' = Inserted(contents, call.pos, call.new)
  /\ Return /\ UNCHANGED <<kind, build>>

(* raw_small goes back to its array, which shares its memory with m_ptr:   *)
(* an object moved there overwrites the pointer before the deallocation,   *)
(* and the assignment of the pointer overwrites the first object.          *)
ReplaceInplace ==
  /\ Ending({"inplace"})
  /\ mem' = [mem EXCEPT !.heap = Null, !.arr = Pointed(@)]
  /\ cap' = GrownCapacity
  /\ faults' = IF size > 0 THEN faults \cup {"ub"} ELSE Deallocated(faults)
  /\ Return /\ UNCHANGED <<kind, build, size, contents>>

(* raw_soa asks for the next capacity also where nothing has grown.        *)
RoomMade ==
  /\ Ending({"shift"})
  /\ cap' = IF kind = "soa" THEN NextCapacity(size + call.room) ELSE cap
  /\ mem' = [mem EXCEPT ![Data] = Filled(@, call.pos, call.new)]
  /\ size' = size + Len(call.new)
  /\ contents' = Inserted(contents, call.pos, call.new)
  /\ Return /\ UNCHANGED <<kind, build, faults>>

RoomClosed ==
  /\ Ending({"close", "drop"})
  /\ size' = size - call.room
  /\ contents' = Removed(contents, call.pos, call.room)
  /\ Return /\ UNCHANGED <<kind, build, cap, mem, faults>>

(* The container destroys its objects, the storage frees its block.        *)
Destroy ==
  /\ pc = "idle" /\ pc' = "done"
  /\ mem' = [arr |-> Block(N), heap |-> Null, fresh |-> Null]
  /\ faults' = Deallocated(IF \E s \in Slots(size) : mem[Data][s] = Raw
                           THEN faults \cup {"ub"} ELSE faults)
  /\ size' = 0 /\ contents' = <<>>
  /\ UNCHANGED <<kind, build, cap, call, i>>

Next ==
  \/ \E c \in 0 .. IF kind = "paged" THEN MaxPaged ELSE MaxSize : Reserve(c)
  \/ \E pos \in 0 .. MaxSize, n \in 1 .. MaxSize : \E new \in [1 .. n -> Values] :
        MakeRoom(pos, new)
  \/ \E pos \in 0 .. size, n \in 1 .. MaxPaged - size : \E new \in [1 .. n -> Values] :
        MakePagedRoom(pos, new)
  \/ \E pos, less \in 0 .. MaxSize : DestroyRoom(pos, less)
  \/ MoveOut \/ Shift \/ Close \/ Drop
  \/ Replace \/ ReplaceInplace \/ RoomMade \/ RoomClosed
  \/ Destroy

Spec == Init /\ [][Next]_vars

-----------------------------------------------------------------------------
Ops == {"none", "reserve", "grow", "inplace", "shift", "close", "drop"}

(* No block is larger than twice what a client has asked for, nor are      *)
(* there more pages than that takes.                                       *)
IsBlock(b) ==
  \E n \in 0 .. IF kind = "paged" THEN PagesFor(MaxPaged) * PageSize ELSE 2 * MaxSize :
    b \in [Slots(n) -> Content]

(* Every variable holds what the code can store in it.                     *)
TypeOK ==
  /\ kind \in Kinds /\ build \in Builds /\ cap \in Nat
  /\ mem = [arr |-> mem.arr, heap |-> mem.heap, fresh |-> mem.fresh]
  /\ mem.arr \in [Slots(N) -> Content] /\ IsBlock(mem.heap) /\ IsBlock(mem.fresh)
  /\ pc \in {"idle", "loop", "done", "abort"} /\ i \in Nat
  /\ call.op \in Ops /\ call.pos \in Nat /\ call.room \in Nat /\ call.cap \in Nat
  /\ faults \subseteq {"ub", "size"}
  /\ size \in Nat /\ contents \in Seq(Values)

(* The storage holds the container's objects in their order: whatever the  *)
(* overlap of what is moved and where it goes, no object is overwritten    *)
(* before it has been moved, and what spills from a page arrives in the    *)
(* next (make_room, destroy_room, _raw_reserve, _raw_make_room).           *)
ContentsKept ==
  pc = "idle" =>
    /\ size = Len(contents)
    /\ \A k \in Slots(size) : k \in DOMAIN mem[Data] /\ mem[Data][k] = contents[k + 1]

(* capacity() is the number of slots of the memory that data() denotes, so *)
(* that no index below it is outside (_raw_reserve, _raw_make_room).       *)
CapacityBacked == pc = "idle" => mem[Data] \in [Slots(cap) -> Content] /\ size <= cap

(* No object is moved from, assigned to or destroyed where there is none,  *)
(* and each block is deallocated with the size it was allocated with.      *)
NoUndefined == faults = {}

(* A call that keeps to what its documentation asks fails no assertion.    *)
NeverAborts == pc # "abort"

=============================================================================
