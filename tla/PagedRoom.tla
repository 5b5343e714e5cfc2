------------------------------ MODULE PagedRoom ------------------------------
(***************************************************************************)
(* _raw_make_room of raw_paged, raw_paged_rt and raw_paged_soa in          *)
(* storage/raw.hpp: room for new objects before others, in pages of which  *)
(* objects spill into the next, and new ones are put between the others.   *)
(*                                                                         *)
(* The pages are one memory here, in the order in which m_pages has them:  *)
(* a page is what its number says, and not the pointer it is behind.  A    *)
(* structure of arrays has the same done to each of its arrays.            *)
(*                                                                         *)
(* A definition introduced by "Variant:" is no part of the specification:  *)
(* it is the definition that follows it as a slip in the code would have   *)
(* it.                                                                     *)
(***************************************************************************)
EXTENDS Integers, FiniteSets

CONSTANTS
  PageSize,   \* objects in a page
  Values,     \* the objects
  Raw,        \* content of a slot in which no object is alive
  Moved       \* content of a slot whose object has been moved from

ASSUME PagedAssumption ==
  /\ PageSize \in Nat \ {0, 1}
  /\ Raw \notin Values /\ Moved \notin Values /\ Raw # Moved

Slots(n) == 0 .. n - 1
Block(n) == [s \in Slots(n) |-> Raw]

Smaller(m, n) == IF m < n THEN m ELSE n

(* The page of an index, its place in there, and whole pages for n.        *)
Pg(i) == i \div PageSize
Id(i) == i % PageSize
PagesFor(n) == (n + PageSize - 1) \div PageSize

NumPages(b) == Cardinality(DOMAIN b) \div PageSize

-----------------------------------------------------------------------------
(* What has become of the memory so far: mem; ok: objects were moved from  *)
(* where they are to within a page; asserted: no assertion on the way has  *)
(* failed.                                                                 *)
Begun(b) == [mem |-> b, ok |-> TRUE, asserted |-> TRUE]

(* n objects of page p, from the i-th, move to page q, from the k-th.      *)
Moving(r, p, i, n, q, k) ==
  LET from == p * PageSize + i
      to   == q * PageSize + k
      fine == /\ n >= 0 /\ i >= 0 /\ k >= 0
              /\ i + n <= PageSize /\ k + n <= PageSize
              /\ {p, q} \subseteq Slots(NumPages(r.mem))
              /\ \A s \in from .. from + n - 1 : r.mem[s] \in Values
  IN IF fine
     THEN [r EXCEPT !.mem = [s \in DOMAIN r.mem |->
                               IF s \in to .. to + n - 1 THEN r.mem[from + s - to]
                               ELSE IF s \in from .. from + n - 1 THEN Moved ELSE r.mem[s]]]
     ELSE [r EXCEPT !.ok = FALSE]

(* make_room() in page p: the objects from the pos-th up to the size-th    *)
(* move up by room.                                                        *)
MakingRoom(r, p, size, pos, room) ==
  Moving([r EXCEPT !.asserted = @ /\ pos <= size /\ size + room <= PageSize],
         p, pos, size - pos, p, pos + room)

(* _raw_add_pages(): n pages are put before the one that was first.        *)
AddPages(r, first, n) ==
  LET size == (NumPages(r.mem) + n) * PageSize
  IN IF n < 0 THEN [r EXCEPT !.ok = FALSE]
     ELSE [r EXCEPT !.mem = [s \in Slots(size) |->
             IF s < first * PageSize THEN r.mem[s]
             ELSE IF s < (first + n) * PageSize THEN Raw ELSE r.mem[s - n * PageSize]]]

(* _page_slack(): the places in a page that have no objects.               *)
PageSlack(p, size) ==
  CASE size < p * PageSize -> PageSize
    [] Pg(size) = p -> PageSize - Id(size)
    [] size >= (p + 1) * PageSize -> 0

(* _page_elms_after(): the objects of a page that are not before pos.      *)
PageElmsAfter(p, size, pos) ==
  CASE pos < p * PageSize -> PageSize
    [] Pg(pos) = p -> IF Pg(size) = p THEN Id(size) - Id(pos) ELSE PageSize - Id(pos)
    [] pos >= (p + 1) * PageSize -> 0

-----------------------------------------------------------------------------
(* _raw_reserve() of size objects that all stay, to np pages.              *)
Extended(b, size, np) ==
  [s \in Slots(np * PageSize) |-> IF s < size THEN b[s] ELSE Raw]

RoomAtEnd(b, size, more) ==
  Begun(IF Cardinality(DOMAIN b) < size + more THEN Extended(b, size, PagesFor(size + more)) ELSE b)

(* Room of whole pages: what is behind pos in its page goes to the end of  *)
(* the new ones.                                                           *)
RoomOfPages(b, size, pos, more) ==
  LET n == Pg(size + more) - NumPages(b)
      first == Pg(pos) + (IF Id(pos) > 0 THEN 1 ELSE 0)
      added == AddPages(Begun(b), first, n)
  IN IF Id(pos) = 0 THEN added
     ELSE Moving(added, Pg(pos), Id(pos), PageSize - Id(pos), first + n - 1, Id(pos))

(* Room in the last page, where nothing spills.                            *)
FitsInPage(size, pos, more) == Pg(pos) = Pg(size - 1 + more) /\ Id(size) + more <= PageSize

RoomInPage(b, size, pos, more) ==
  MakingRoom([Begun(b) EXCEPT !.asserted = Id(size - 1) > Id(pos)],
             Pg(size - 1), Id(size - 1) + 1, Id(pos), more)

(* Variant: an object less spills.                                         *)
SpillsShort(size, pos, more) ==
  Smaller(Smaller(Id(more), Id(size - 1 + more) + 1), PageElmsAfter(Pg(size - 1), size, pos)) - 1

(* How many objects spill from the last page into a new one.               *)
Spills(size, pos, more) ==
  Smaller(Smaller(Id(more), Id(size - 1 + more) + 1), PageElmsAfter(Pg(size - 1), size, pos))

(* Any other room: the pages from the last one down to the one of pos are  *)
(* shifted by what is more than whole pages, each taking up what spills    *)
(* from the one before it; the whole pages are then put before the page of *)
(* pos, and what is before pos in there goes back to the first of them.    *)
RoomAcross(b, size, pos, more) ==
  LET np     == NumPages(b)
      last   == Pg(size - 1)
      shift  == Id(more)
      lacks  == IF Pg(size - 1 + more) + 1 > np THEN Pg(size - 1 + more) + 1 - np ELSE 0
      spills == size + more > np * PageSize /\ PageSlack(last, size) < shift
      spill  == IF spills THEN Spills(size, pos, more) ELSE 0
      pages  == IF spills /\ lacks > 0 THEN lacks - 1 ELSE lacks
      left   == Id(size - 1) + 1 - spill
      spilt  == IF spills
                THEN Moving(AddPages(Begun(b), np, 1), last, left, spill,
                            last + 1, Id(size + more - spill))
                ELSE Begun(b)
      downTo[p \in Pg(pos) .. last] ==
        IF p = last THEN spilt
        ELSE Moving(MakingRoom(downTo[p + 1], p + 1,
                               IF p + 1 = last THEN left ELSE PageSize - shift, 0, shift),
                    p, PageSize - shift, shift, p + 1, 0)
      added  == AddPages(downTo[Pg(pos)], Pg(pos), pages)
      after  == PageElmsAfter(Pg(pos), size, pos)
      made   == IF after >= shift
                THEN MakingRoom(added, Pg(pos) + pages, Id(pos) + after - shift, Id(pos), shift)
                ELSE added
  IN IF pages = 0 THEN made ELSE Moving(made, Pg(pos) + pages, 0, Id(pos), Pg(pos), 0)

(* _raw_make_room(pos, size, more) of paged storages.                      *)
PagedRoom(b, size, pos, more) ==
  CASE pos = size                     -> RoomAtEnd(b, size, more)
    [] pos < size /\ Id(more) = 0      -> RoomOfPages(b, size, pos, more)
    [] pos < size /\ Id(more) # 0 /\ FitsInPage(size, pos, more)  -> RoomInPage(b, size, pos, more)
    [] pos < size /\ Id(more) # 0 /\ ~FitsInPage(size, pos, more) -> RoomAcross(b, size, pos, more)

(* The calls that make it: at the end; within the last page; or where no   *)
(* page is empty, and the last one is full or, for what is not whole       *)
(* pages, comes after that of pos.  What spills from the page of pos must  *)
(* not reach to before pos: it is moved all the same.                      *)
RoomSupported(b, size, pos, more) ==
  \/ pos = size
  \/ Pg(pos) = Pg(size - 1) /\ Pg(pos) = Pg(size - 1 + more) /\ Id(more) # 0
  \/ /\ NumPages(b) = PagesFor(size)
     /\ Id(size) = 0 \/ (Id(more) # 0 /\ Pg(pos) < Pg(size - 1))
     /\ Pg(pos) = Pg(size - 1) \/ Id(pos) + Id(more) <= PageSize

=============================================================================
