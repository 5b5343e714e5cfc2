------------------------------ MODULE IndexList ------------------------------
(***************************************************************************)
(* The index-based linked lists of list.hpp: flat_list and split_list      *)
(* (Doubly = TRUE), flat_fwd_list and split_fwd_list (Doubly = FALSE).     *)
(* The nodes live in the slots 0 .. capacity-1 of a raw storage.  Two      *)
(* chains of next[] indices run through the slots: the used chain, from    *)
(* m_head, and the free list, from m_fhead; Npos ends both.  The flat and  *)
(* the split classes differ in where an index is stored, not in its value, *)
(* so that one module stands for both.                                     *)
(*                                                                         *)
(* The program checked is the one built with assertions and the default    *)
(* error flags: a failed C4_ASSERT or C4_XASSERT aborts it (pc "abort").   *)
(* A call is one step, except for the loops over a chain (the move of the  *)
(* elements to a new buffer, the destructor), which take a step per node.  *)
(*                                                                         *)
(* A definition introduced by "Variant:" is no part of the specification:  *)
(* it is the definition that follows it as a slip in the code would have   *)
(* it, and shows which slip a property is there to notice.                 *)
(***************************************************************************)
EXTENDS Integers, Sequences

CONSTANTS
  Doubly,      \* has prev[] too: flat_list, split_list
  Storage,     \* "paged", "contiguous" (raw, raw_small) or "fixed"
  PageSize,    \* elements per page of paged storage
  Inplace,     \* in-place slots: N of raw_fixed and raw_small, else 0
  Npos,        \* static_cast<I>(-1): the largest value of the size type I
  Capacities,  \* capacities a client passes to a constructor
  MaxRequest,  \* bound: no client asks for more elements than this
  Reserving,   \* when clients call reserve(): "never", "empty" or "always"
  Clearing,    \* whether clients call clear()
  Reversing,   \* whether clients decrement an iterator
  Values,      \* the elements
  Raw,         \* content of a slot in which no object is alive
  Moved,       \* content of a slot whose object has been moved from
  None         \* no value, no iterator

ASSUME ListAssumption ==
  /\ Doubly \in BOOLEAN
  /\ Storage \in {"paged", "contiguous", "fixed"}
  /\ PageSize \in Nat \ {0}
  /\ Inplace \in Nat
  /\ Npos \in Nat \ {0}
  /\ MaxRequest \in 0 .. Npos /\ Inplace <= Npos
  /\ Capacities \subseteq 0 .. MaxRequest
  /\ Reserving \in {"never", "empty", "always"}
  /\ Clearing \in BOOLEAN /\ Reversing \in BOOLEAN
  /\ Raw \notin Values /\ Moved \notin Values /\ None \notin Values
  /\ Raw # Moved /\ None \notin Nat

VARIABLES
  list,      \* the list object: its storage, links and the four members
  pc,        \* what the list is doing
  pending,   \* the value to append when the growth in progress ends, or None
  cursor,    \* i in the loops over a chain
  tmp,       \* the temporary storage of _growto
  faults,    \* what an object lifetime checker would have reported
  it, itpos, \* a client's iterator, and how far from begin() it has moved
  contents   \* what the client has put in the list

vars == <<list, pc, pending, cursor, tmp, faults, it, itpos, contents>>

Slots(c) == 0 .. c - 1
Link == 0 .. Npos

(* Arithmetic on I wraps at its width.                                     *)
Narrow(n) == n % (Npos + 1)

(* Variant: the elements asked for are not rounded up to whole pages.      *)
StorageFloor(n) ==
  CASE Storage = "paged" -> Narrow(PageSize * (n \div PageSize))
    [] Storage = "contiguous" -> IF n <= Inplace THEN Inplace ELSE n
    [] Storage = "fixed" -> Inplace

(* The capacity() of a storage asked for n slots: whole pages, counted in  *)
(* I; n, or the in-place slots if they are enough; the fixed number.       *)
StorageCap(n) ==
  CASE Storage = "paged" -> Narrow(PageSize * ((n + PageSize - 1) \div PageSize))
    [] Storage = "contiguous" -> IF n <= Inplace THEN Inplace ELSE n
    [] Storage = "fixed" -> Inplace

-----------------------------------------------------------------------------
(* The member functions of the list, on a list record.                     *)

(* Chains the slots first .. last-1 in memory order.                       *)
InitSeq(l, first, last) ==
  [l EXCEPT
    !.next = [s \in Slots(l.cap) |->
                IF s \in first .. last - 1
                THEN IF s = last - 1 THEN Npos ELSE s + 1
                ELSE l.next[s]],
    !.prev = IF ~Doubly THEN @ ELSE
             [s \in Slots(l.cap) |->
                IF s \in first .. last - 1
                THEN IF s = first THEN Npos ELSE s - 1
                ELSE l.prev[s]]]

(* Variant: the first free slot keeps its prev.                            *)
SetFheadOnly(l, s) == [l EXCEPT !.fhead = s]

(* _set_fhead.                                                             *)
SetFhead(l, s) ==
  [l EXCEPT !.fhead = s,
            !.prev = IF Doubly /\ s < l.cap THEN [@ EXCEPT ![s] = Npos] ELSE @]

(* Variant: no early return when there is a free list already.             *)
AdjustFheadAlways(l, old) == SetFhead(l, IF l.cap >= old THEN old ELSE l.cap)

(* _adjust_fhead, after a growth from old slots.                           *)
AdjustFhead(l, old) ==
  IF l.fhead # Npos THEN l
  ELSE SetFhead(l, IF l.cap >= old THEN old ELSE l.cap)

(* The first slot _set_seq_head relinks: the tail in the doubly linked     *)
(* lists, the last of the old slots in the forward ones.                   *)
SeqFirst(l, old) ==
  IF Doubly THEN IF l.tail # Npos THEN l.tail ELSE 0
            ELSE IF old > 0 THEN old - 1 ELSE 0

SetSeqHead(l, old) == AdjustFhead(InitSeq(l, SeqFirst(l, old), l.cap), old)

(* _claim, its assertions and the new head of the free list.               *)
CanClaim(l) == l.fhead # Npos /\ l.size + 1 <= l.cap /\ l.fhead < l.cap

(* Variant: a claimed slot stays at the head of the free list.             *)
ClaimStays(l) == l

Claim(l) == SetFhead(l, l.next[l.fhead])

SetHead(l, s) ==
  [l EXCEPT !.head = s, !.prev = IF Doubly THEN [@ EXCEPT ![s] = Npos] ELSE @]

(* Variant: the new last node keeps its link into the free list.           *)
SetTailOnly(l, s) == [l EXCEPT !.tail = s]

SetTail(l, s) == [l EXCEPT !.tail = s, !.next[s] = Npos]

(* Variant: the new node is not linked back to the tail.                   *)
LinkOneWay(l, pos) == [l EXCEPT !.next[l.tail] = pos]

LinkBehindTail(l, pos) ==
  [l EXCEPT !.next[l.tail] = pos,
            !.prev = IF Doubly THEN [@ EXCEPT ![pos] = l.tail] ELSE @]

(* Variant: m_tail is set before the old tail has been linked to the node. *)
AppendTailFirst(l, v) ==
  LET pos == l.fhead
      c == SetTail(Claim(l), pos)
      k == IF l.size > 0 THEN LinkBehindTail(c, pos) ELSE SetHead(c, 0)
  IN [k EXCEPT !.size = @ + 1, !.elm[pos] = v]

(* _append, and the construction of the element by push_back.              *)
Append1(l, v) ==
  LET pos == l.fhead
      c == Claim(l)
      k == IF l.size > 0 THEN LinkBehindTail(c, pos) ELSE SetHead(c, 0)
  IN [SetTail(k, pos) EXCEPT !.size = @ + 1, !.elm[pos] = v]

Empty(c) ==
  InitSeq([cap |-> c, head |-> Npos, tail |-> Npos, size |-> 0,
           fhead |-> IF c > 0 THEN 0 ELSE Npos,
           elm |-> [s \in Slots(c) |-> Raw],
           next |-> [s \in Slots(c) |-> Npos],
           prev |-> [s \in Slots(IF Doubly THEN c ELSE 0) |-> Npos]],
          0, c)

(* _init_initlist: the first slots hold the initializer list.              *)
InitInitlist(l, il) ==
  LET n == Len(il)
      h == IF n > 0 THEN SetTail(SetHead(l, 0), n - 1) ELSE l
      f == SetFhead(h, IF l.cap > n THEN n ELSE Npos)
  IN [f EXCEPT !.size = n,
               !.elm = [s \in Slots(l.cap) |-> IF s < n THEN il[s + 1] ELSE @[s]]]

-----------------------------------------------------------------------------
NoSlots == [s \in Slots(0) |-> Npos]
NoTmp == [cap |-> 0, n |-> 0, elm |-> NoSlots, next |-> NoSlots, prev |-> NoSlots]

Construct ==
  \/ \E c \in Capacities :
        list = Empty(StorageCap(c)) /\ contents = <<>>
  \/ \E n \in Capacities : \E il \in [1 .. n -> Values] :
        /\ n <= StorageCap(n)
        /\ list = InitInitlist(Empty(StorageCap(n)), il)
        /\ contents = il

Init ==
  /\ Construct
  /\ pc = "idle" /\ pending = None /\ cursor = Npos /\ tmp = NoTmp
  /\ faults = {} /\ it = None /\ itpos = 0

Abort == pc' = "abort" /\ UNCHANGED <<list, pending, cursor, tmp, faults, contents>>

Return == pc' = "idle" /\ pending' = None /\ cursor' = Npos /\ tmp' = NoTmp

(* The end of push_back(v), in a list that has been grown if needed.       *)
AppendTo(l, v, fs) ==
  \/ /\ CanClaim(l)
     /\ list' = Append1(l, v)
     /\ faults' = IF l.elm[l.fhead] = Raw THEN fs ELSE fs \cup {"leak"}
     /\ contents' = Append(contents, v)
     /\ Return
  \/ ~CanClaim(l) /\ Abort

(* The end of a call that had to grow: push_back(v), or reserve() (None).  *)
Grown(l, v, fs) ==
  \/ v # None /\ AppendTo(l, v, fs)
  \/ v = None /\ list' = l /\ faults' = fs /\ Return /\ UNCHANGED contents

(* _growto, where no element moves: pages are added behind the others.     *)
(* Raw fixed storage cannot grow at all.                                   *)
GrowInPlace(want, v) ==
  LET l == [list EXCEPT !.cap = StorageCap(want),
                        !.elm = [s \in Slots(StorageCap(want)) |->
                                   IF s < list.cap THEN list.elm[s] ELSE Raw]]
      fits == /\ want > list.cap /\ Storage # "fixed"
              /\ l.cap >= SeqFirst(l, list.cap) /\ l.cap >= want
  IN \/ fits /\ Grown(SetSeqHead(l, list.cap), v, faults)
     \/ ~fits /\ Abort

(* _growto, where the elements move to a new buffer: the loop starts.      *)
GrowByMoving(want, v) ==
  \/ /\ want > list.cap
     /\ pc' = "moving" /\ pending' = v /\ cursor' = list.head
     /\ tmp' = [NoTmp EXCEPT !.cap = want]
     /\ UNCHANGED <<list, faults, contents>>
  \/ want <= list.cap /\ Abort

Grow(want, v) ==
  \/ Storage = "contiguous" /\ GrowByMoving(want, v)
  \/ Storage # "contiguous" /\ GrowInPlace(want, v)

Push(v) ==
  LET want == Narrow(list.size + 1)
  IN /\ pc = "idle" /\ list.size < MaxRequest
     /\ \/ want > list.cap /\ Grow(want, v)
        \/ want <= list.cap /\ AppendTo(list, v, faults)
     /\ UNCHANGED <<it, itpos>>

Reserve(n) ==
  /\ pc = "idle" /\ n > list.cap
  /\ Reserving = "always" \/ (Reserving = "empty" /\ list.size = 0)
  /\ Grow(n, None)
  /\ UNCHANGED <<it, itpos>>

Extended(f, n, x) == [s \in 0 .. n |-> IF s = n THEN x ELSE f[s]]

(* One node of the loop of _growto: the element is moved, the links are    *)
(* written afresh, in memory order.                                        *)
MoveNode ==
  LET n == tmp.n
      ok == cursor < list.cap /\ n < tmp.cap
  IN /\ pc = "moving" /\ cursor # Npos
     /\ \/ /\ ok
           /\ tmp' = [tmp EXCEPT
                !.n = n + 1,
                !.elm = Extended(@, n, list.elm[cursor]),
                !.next = Extended(@, n, IF n < list.size THEN n + 1 ELSE Npos),
                !.prev = IF Doubly THEN Extended(@, n, IF n > 0 THEN n - 1 ELSE Npos)
                                   ELSE @]
           /\ faults' = IF list.elm[cursor] \in Values THEN faults ELSE faults \cup {"ub"}
           /\ list' = [list EXCEPT !.elm[cursor] = Moved]
           /\ cursor' = list.next[cursor]
           /\ UNCHANGED <<pc, pending, contents>>
        \/ ~ok /\ Abort
     /\ UNCHANGED <<it, itpos>>

(* Variant: the new buffer comes without its capacity.                     *)
TakeBuffer(l, t) ==
  [l EXCEPT !.elm = [s \in Slots(t.cap) |-> IF s < t.n THEN t.elm[s] ELSE Raw],
            !.next = t.next, !.prev = t.prev]

(* _raw_reserve_replace: the list has the slots of the temporary storage.  *)
TakeOver(l, t) ==
  [l EXCEPT !.cap = t.cap,
            !.elm = [s \in Slots(t.cap) |-> IF s < t.n THEN t.elm[s] ELSE Raw],
            !.next = t.next, !.prev = t.prev]

(* The end of the loop: the new buffer replaces the old one, whose moved   *)
(* from elements nobody destroys, and the slots behind them become free.   *)
Replace ==
  LET l == TakeOver(list, tmp)
      fits == tmp.n = list.size /\ tmp.cap >= SeqFirst(l, list.size)
      lost == \E s \in Slots(list.cap) : list.elm[s] # Raw
  IN /\ pc = "moving" /\ cursor = Npos
     /\ \/ /\ fits
           /\ Grown(SetSeqHead(l, list.size), pending,
                    IF lost THEN faults \cup {"leak"} ELSE faults)
        \/ ~fits /\ Abort
     /\ UNCHANGED <<it, itpos>>

(* Variant: the slots of the used chain do not return to the free list.    *)
ClearDropsNodes ==
  /\ pc = "idle" /\ Clearing /\ list.size # 0
  /\ list' = [list EXCEPT !.size = 0]
  /\ contents' = <<>> /\ it' = None /\ itpos' = 0
  /\ UNCHANGED <<pc, pending, cursor, tmp, faults>>

(* The used chain goes before the free list.                               *)
Clear ==
  /\ pc = "idle" /\ Clearing /\ list.size # 0
  /\ list' = [list EXCEPT !.next[list.tail] = list.fhead,
                          !.fhead = list.head,
                          !.size = 0]
  /\ contents' = <<>> /\ it' = None /\ itpos' = 0
  /\ UNCHANGED <<pc, pending, cursor, tmp, faults>>

-----------------------------------------------------------------------------
(* The destructor: destroys the element of each node from the head on.     *)

(* Variant: the loop starts at the last node.                              *)
DestroyFromTail ==
  /\ pc = "idle" /\ pc' = "dtor" /\ cursor' = list.tail
  /\ it' = None /\ itpos' = 0
  /\ UNCHANGED <<list, pending, tmp, faults, contents>>

Destroy ==
  /\ pc = "idle" /\ pc' = "dtor" /\ cursor' = list.head
  /\ it' = None /\ itpos' = 0
  /\ UNCHANGED <<list, pending, tmp, faults, contents>>

DestroyNode ==
  /\ pc = "dtor" /\ cursor # Npos
  /\ \/ /\ cursor < list.cap
        /\ list' = [list EXCEPT !.elm[cursor] = Raw]
        /\ faults' = IF list.elm[cursor] = Raw THEN faults \cup {"ub"} ELSE faults
        /\ cursor' = list.next[cursor]
        /\ UNCHANGED <<pc, pending, tmp, contents>>
     \/ cursor >= list.cap /\ Abort
  /\ UNCHANGED <<it, itpos>>

Destroyed ==
  /\ pc = "dtor" /\ cursor = Npos /\ pc' = "done"
  /\ faults' = IF \E s \in Slots(list.cap) : list.elm[s] # Raw
               THEN faults \cup {"leak"} ELSE faults
  /\ UNCHANGED <<list, pending, cursor, tmp, it, itpos, contents>>

-----------------------------------------------------------------------------
(* A client walks the list with an iterator, which holds an index, while   *)
(* elements are being appended.                                            *)

IterVars == <<list, pc, pending, cursor, tmp, faults, contents>>

(* Variant: begin() is the first slot, also in an empty list.              *)
BeginAtZero == pc = "idle" /\ it' = 0 /\ itpos' = 0 /\ UNCHANGED IterVars

Begin == pc = "idle" /\ it' = list.head /\ itpos' = 0 /\ UNCHANGED IterVars

(* Variant: the next slot in memory, as in an array.                       *)
IncrementAddress ==
  /\ pc = "idle" /\ it \in Slots(list.cap) /\ itpos < list.cap
  /\ it' = it + 1 /\ itpos' = itpos + 1
  /\ UNCHANGED IterVars

Increment ==
  /\ pc = "idle" /\ it \in Slots(list.cap)
  /\ itpos < list.cap  \* bound: no walk is longer than there are slots
  /\ it' = list.next[it] /\ itpos' = itpos + 1
  /\ UNCHANGED IterVars

(* A client does not step back from begin().                               *)
Decrement ==
  /\ pc = "idle" /\ Reversing /\ Doubly /\ it \in Slots(list.cap) /\ itpos > 0
  /\ it' = list.prev[it] /\ itpos' = itpos - 1
  /\ UNCHANGED IterVars

Next ==
  \/ \E v \in Values : Push(v)
  \/ \E n \in 0 .. MaxRequest : Reserve(n)
  \/ MoveNode \/ Replace
  \/ Clear
  \/ Destroy \/ DestroyNode \/ Destroyed
  \/ Begin \/ Increment \/ Decrement

Spec == Init /\ [][Next]_vars

(* A call that has started runs to its end: nothing preempts its loops.    *)
FairSpec == Spec /\ WF_vars(MoveNode \/ Replace) /\ WF_vars(DestroyNode \/ Destroyed)

-----------------------------------------------------------------------------
(* The k-th slot reached from a slot along next[] (or prev[]); a link that *)
(* leads nowhere stays there.                                              *)
Walk(l, links, from) ==
  LET w[k \in 0 .. l.cap] ==
        IF k = 0 THEN from
        ELSE IF w[k - 1] \in Slots(l.cap) THEN links[w[k - 1]] ELSE w[k - 1]
  IN w

(* The first n slots of a walk.                                            *)
Trail(l, links, from, n) == LET w == Walk(l, links, from) IN [k \in 1 .. n |-> w[k - 1]]

Distinct(seq) == \A j, k \in DOMAIN seq : j # k => seq[j] # seq[k]
Visited(seq) == {seq[k] : k \in DOMAIN seq}

AtRest == pc = "idle"

Content == Values \cup {Raw, Moved}

(* A list whose arrays have the length of its storage and whose links are  *)
(* indices or npos.                                                        *)
IsList(l) ==
  /\ l = [cap |-> l.cap, head |-> l.head, tail |-> l.tail, size |-> l.size,
          fhead |-> l.fhead, elm |-> l.elm, next |-> l.next, prev |-> l.prev]
  /\ l.cap \in 0 .. Npos /\ l.size \in 0 .. l.cap
  /\ l.head \in Link /\ l.tail \in Link /\ l.fhead \in Link
  /\ l.elm \in [Slots(l.cap) -> Content]
  /\ l.next \in [Slots(l.cap) -> Link]
  /\ l.prev \in [Slots(IF Doubly THEN l.cap ELSE 0) -> Link]

IsTmp(t) ==
  /\ t = [cap |-> t.cap, n |-> t.n, elm |-> t.elm, next |-> t.next, prev |-> t.prev]
  /\ t.cap \in 0 .. Npos /\ t.n \in 0 .. t.cap
  /\ t.elm \in [Slots(t.n) -> Content]
  /\ t.next \in [Slots(t.n) -> Link]
  /\ t.prev \in [Slots(IF Doubly THEN t.n ELSE 0) -> Link]

(* Every variable holds what the code can store in it.                     *)
TypeOK ==
  /\ IsList(list) /\ IsTmp(tmp)
  /\ pc \in {"idle", "moving", "dtor", "done", "abort"}
  /\ pending \in Values \cup {None} /\ cursor \in Link
  /\ faults \subseteq {"leak", "ub"}
  /\ it \in Link \cup {None} /\ itpos \in Int
  /\ contents \in Seq(Values)

(* The m_size nodes that follow m_head along next[] are distinct, the last *)
(* of them is m_tail, and their elements are what the client has put in,   *)
(* in that order: no growth, clear or reuse of a slot loses, doubles or    *)
(* reorders an element (_append, _growto, clear).                          *)
UsedChain ==
  AtRest =>
    LET trail == Trail(list, list.next, list.head, list.size)
    IN /\ list.size = Len(contents)
       /\ Visited(trail) \subseteq Slots(list.cap) /\ Distinct(trail)
       /\ \A k \in DOMAIN trail : list.elm[trail[k]] = contents[k]
       /\ list.size > 0 => trail[list.size] = list.tail

(* The free list is uninterrupted: from m_fhead, next[] passes through     *)
(* each slot that holds no node, once, and ends in npos, so that m_fhead   *)
(* is npos exactly when the list is full (_set_seq_head, _claim, clear).   *)
FreeListComplete ==
  AtRest =>
    LET free  == Trail(list, list.next, list.fhead, list.cap - list.size)
        used  == Trail(list, list.next, list.head, list.size)
    IN /\ Distinct(free)
       /\ Visited(free) = Slots(list.cap) \ Visited(used)
       /\ Walk(list, list.next, list.fhead)[list.cap - list.size] = Npos

(* No call of a client fails an assertion of the list, of its storage, or  *)
(* runs out of free slots after it has made room for them.                 *)
NeverAborts == pc # "abort"

(* Every object is destroyed once and no slot is destroyed, or moved from, *)
(* that holds none, through to the end of the destructor.                  *)
Lifetimes == faults = {}

(* No slot is destroyed, or moved from, that holds no object.  Objects may *)
(* be left alive, or be constructed over: the containers over contiguous   *)
(* storage free the old buffer with the objects they have moved from.      *)
NoUndefined == "ub" \notin faults

(* An iterator keeps denoting the element it has reached while others are  *)
(* appended and the storage grows under it: it holds an index, not an      *)
(* address (list_iterator).                                                *)
IteratorStable ==
  (AtRest /\ it \in Slots(list.cap)) =>
    itpos \in 0 .. list.size - 1 /\ list.elm[it] = contents[itpos + 1]

(* A walk from begin() reaches end() after size() steps and not before:    *)
(* std::distance(begin(), end()) = size() (begin, operator++, next).       *)
DistanceIsSize == [][Increment => (it' = Npos <=> itpos' = list.size)]_vars

(* begin() equals end() exactly in an empty list (begin, clear).           *)
BeginIsEnd == [][Begin => (it' = Npos <=> list.size = 0)]_vars

(* prev[] leads back along the whole used chain, from m_tail to m_head.    *)
PrevMirrorsNext ==
  (AtRest /\ Doubly) =>
    LET fore == Trail(list, list.next, list.head, list.size)
        back == Trail(list, list.prev, list.tail, list.size)
    IN \A k \in 1 .. list.size : back[k] = fore[list.size + 1 - k]

(* prev[] leads back along the whole free list from its end.               *)
FreeListPrev ==
  (AtRest /\ Doubly) =>
    LET n    == list.cap - list.size
        fore == Trail(list, list.next, list.fhead, n)
    IN n > 0 => /\ \A k \in 2 .. n : list.prev[fore[k]] = fore[k - 1]
                /\ list.prev[fore[1]] = Npos

(* Both chains of a list run in memory order: first the nodes, then the    *)
(* free slots, of which the first is the head of the free list.            *)
InOrder(l) ==
  /\ \A k \in 0 .. l.size - 2 : l.next[k] = k + 1
  /\ l.size > 0 => l.head = 0 /\ l.tail = l.size - 1
  /\ l.fhead = IF l.size < l.cap THEN l.size ELSE Npos
  /\ \A k \in l.size .. l.cap - 2 : l.next[k] = k + 1
  /\ l.size < l.cap => l.next[l.cap - 1] = Npos

Holds(elm, c, first, last) == \A k \in first .. last - 1 : elm[k] = c[k + 1]

(* No growth and no clear takes a list out of memory order: what _growto   *)
(* establishes ("copy from logical order into memory order") holds of      *)
(* every list at any time.  The k-th element that has been put in is in    *)
(* slot k - 1, and the next push_back claims the slot behind the last node.*)
MemoryOrder ==
  AtRest => /\ InOrder(list)
            /\ list.size = Len(contents) /\ Holds(list.elm, contents, 0, list.size)

(* The loops over a chain end: no call leaves a cycle behind.              *)
LoopsEnd == (pc \in {"moving", "dtor"}) ~> (pc \notin {"moving", "dtor"})

=============================================================================
