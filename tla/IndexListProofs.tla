--------------------------- MODULE IndexListProofs ---------------------------
(***************************************************************************)
(* For every instance of the lists whose clients stay within the size type *)
(* (and, over contiguous storage, do not clear and reserve only while the  *)
(* list is empty): no assertion fails, both chains run in memory order,    *)
(* and the nodes hold what has been appended.                              *)
(***************************************************************************)
EXTENDS IndexList, TLAPS

(* Every capacity that a client can ask for is one that I can count.       *)
WithinWidth == \A n \in 0 .. MaxRequest : StorageCap(n) \in n .. Npos

(* Clients that neither clear nor reserve in a list that holds elements:   *)
(* their lists end where the last element is.                              *)
Appending == ~Clearing /\ Reserving # "always"

(* The others leave chains that the move to a new buffer cannot follow.    *)
MovableClients == Storage = "contiguous" => Appending

Record(l) ==
  l = [cap |-> l.cap, head |-> l.head, tail |-> l.tail, size |-> l.size,
       fhead |-> l.fhead, elm |-> l.elm, next |-> l.next, prev |-> l.prev]

Inside(l, s) == s \in Slots(l.cap) \/ s = Npos

(* The links of a list: in memory order, never out of the storage.         *)
Linked(l) ==
  /\ IsList(l) /\ InOrder(l)
  /\ Inside(l, l.head) /\ Inside(l, l.tail)
  /\ \A s \in Slots(l.cap) : Inside(l, l.next[s])
  /\ Appending /\ l.size = 0 => l.head = Npos /\ l.tail = Npos
  /\ Storage = "fixed" => l.cap = Inplace

(* The last node ends the used chain.                                      *)
Closed(l) == Appending /\ l.size > 0 => l.next[l.size - 1] = Npos

Stored(l, c) == l.size = Len(c) /\ Holds(l.elm, c, 0, l.size)

(* The loop of _growto has moved the first tmp.n elements.                 *)
MovingInv ==
  /\ Storage = "contiguous"
  /\ Linked(list) /\ Closed(list) /\ list.size = Len(contents)
  /\ tmp.cap > list.cap /\ tmp.n <= list.size
  /\ Holds(tmp.elm, contents, 0, tmp.n)
  /\ Holds(list.elm, contents, tmp.n, list.size)
  /\ \A k \in Slots(tmp.n) : tmp.next[k] = k + 1
  /\ cursor = IF tmp.n < list.size THEN tmp.n ELSE Npos
  /\ IF pending = None THEN list.size = 0 ELSE list.size = list.cap

(* An iterator is where it has walked to, or at the end.                   *)
IterInv ==
  Appending /\ ~Reversing =>
    it \in {None, Npos} \/ (it < list.size /\ itpos = it)

Control ==
  /\ pc \in {"idle", "moving", "dtor", "done"}
  /\ pending \in Values \cup {None} /\ cursor \in Link
  /\ faults \subseteq {"leak", "ub"}
  /\ it \in Link \cup {None} /\ itpos \in Int
  /\ contents \in Seq(Values)
  /\ IsTmp(tmp)

(* The inductive invariant, by what the list is doing.                     *)
IInv ==
  /\ Control
  /\ pc = "idle" => Linked(list) /\ Closed(list) /\ Stored(list, contents) /\ IterInv
  /\ pc = "moving" => MovingInv /\ IterInv
  /\ pc = "dtor" => /\ IsList(list) /\ Inside(list, cursor)
                    /\ \A s \in Slots(list.cap) : Inside(list, list.next[s])
  /\ pc = "done" => IsList(list)

-----------------------------------------------------------------------------
LEMMA UpdateTyped ==
  ASSUME NEW S, NEW T, NEW f \in [S -> T], NEW a, NEW b \in T
  PROVE  [f EXCEPT ![a] = b] \in [S -> T]
  OBVIOUS

LEMMA ExtendedTyped ==
  ASSUME NEW S, NEW n \in Nat, NEW f \in [Slots(n) -> S], NEW x \in S
  PROVE  Extended(f, n, x) \in [Slots(n + 1) -> S]
  BY DEF Extended, Slots

LEMMA NarrowId == \A a \in 0 .. Npos : Narrow(a) = a
  BY ListAssumption DEF Narrow

(* _init_seq(f, capacity()) chains the slots from f on in memory order and *)
(* leaves the others; m is l afterwards.                                   *)
Chainable(l, f) ==
  /\ Record(l) /\ l.cap \in 0 .. Npos /\ f \in 0 .. l.cap
  /\ \A s \in 0 .. f - 1 : l.next[s] \in Link /\ (Doubly => l.prev[s] \in Link)
  /\ ~Doubly => l.prev \in [Slots(0) -> Link]

Chained(l, f, m) ==
  /\ m = [l EXCEPT !.next = m.next, !.prev = m.prev]
  /\ Record(m)
  /\ m.next \in [Slots(l.cap) -> Link]
  /\ m.prev \in [Slots(IF Doubly THEN l.cap ELSE 0) -> Link]
  /\ \A s \in 0 .. f - 1 : m.next[s] = l.next[s]
  /\ \A s \in f .. l.cap - 2 : m.next[s] = s + 1
  /\ f < l.cap => m.next[l.cap - 1] = Npos
  /\ Doubly => \A s \in f .. l.cap - 1 : m.prev[s] = IF s = f THEN Npos ELSE s - 1

LEMMA InitSeqLemma ==
  ASSUME NEW l, NEW f, Chainable(l, f), NEW m, m = InitSeq(l, f, l.cap)
  PROVE  Chained(l, f, m)
  <1>1. /\ l.cap \in Int /\ Npos \in Nat /\ Record(l)
        /\ l.cap \in 0 .. Npos /\ f \in 0 .. l.cap
        /\ \A s \in 0 .. f - 1 : l.next[s] \in Link /\ (Doubly => l.prev[s] \in Link)
        /\ ~Doubly => l.prev \in [Slots(0) -> Link]
    BY ListAssumption DEF Chainable
  <1>2. /\ m.next = [s \in Slots(l.cap) |-> IF s \in f .. l.cap - 1
                       THEN IF s = l.cap - 1 THEN Npos ELSE s + 1 ELSE l.next[s]]
        /\ m.prev = IF ~Doubly THEN l.prev ELSE [s \in Slots(l.cap) |-> IF s \in f .. l.cap - 1
                       THEN IF s = f THEN Npos ELSE s - 1 ELSE l.prev[s]]
        /\ m = [l EXCEPT !.next = m.next, !.prev = m.prev]
        /\ Record(m)
    BY <1>1 DEF InitSeq, Record
  <1>3. m.next \in [Slots(l.cap) -> Link]
    BY <1>1, <1>2 DEF Slots, Link
  <1>4. m.prev \in [Slots(IF Doubly THEN l.cap ELSE 0) -> Link]
    <2>1. CASE Doubly
      BY <1>1, <1>2, <2>1 DEF Slots, Link
    <2>2. CASE ~Doubly
      BY <1>1, <1>2, <2>2
    <2>3. QED
      BY <2>1, <2>2
  <1>5. /\ \A s \in 0 .. f - 1 : m.next[s] = l.next[s]
        /\ \A s \in f .. l.cap - 2 : m.next[s] = s + 1
        /\ f < l.cap => m.next[l.cap - 1] = Npos
        /\ Doubly => \A s \in f .. l.cap - 1 : m.prev[s] = IF s = f THEN Npos ELSE s - 1
    BY <1>1, <1>2 DEF Slots
  <1>6. QED
    BY <1>2, <1>3, <1>4, <1>5 DEF Chained

(* _set_fhead touches one prev[] at most.                                  *)
Freeable(l, s) ==
  /\ Record(l) /\ l.cap \in 0 .. Npos /\ s \in Link
  /\ l.prev \in [Slots(IF Doubly THEN l.cap ELSE 0) -> Link]

Freed(l, s, m) ==
  /\ m = [l EXCEPT !.fhead = s, !.prev = m.prev]
  /\ Record(m)
  /\ m.prev \in [Slots(IF Doubly THEN l.cap ELSE 0) -> Link]
  /\ m.prev = IF Doubly /\ s < l.cap THEN [l.prev EXCEPT ![s] = Npos] ELSE l.prev

LEMMA SetFheadLemma ==
  ASSUME NEW l, NEW s, Freeable(l, s), NEW m, m = SetFhead(l, s)
  PROVE  Freed(l, s, m)
  <1>1. /\ m.prev = IF Doubly /\ s < l.cap THEN [l.prev EXCEPT ![s] = Npos] ELSE l.prev
        /\ m = [l EXCEPT !.fhead = s, !.prev = m.prev]
        /\ Record(m)
    BY DEF SetFhead, Record, Freeable
  <1>2. m.prev \in [Slots(IF Doubly THEN l.cap ELSE 0) -> Link]
    BY <1>1, ListAssumption DEF Slots, Link, Freeable
  <1>3. QED
    BY <1>1, <1>2 DEF Freed

(* A growth leaves a list in memory order, with a free slot: l is the list *)
(* with its new storage, old what _set_seq_head is given, which differs    *)
(* from the size in a list that is not full.                               *)
Growable(l, old) ==
  /\ Record(l) /\ l.cap \in 1 .. Npos /\ l.size \in 0 .. l.cap - 1
  /\ old \in l.size .. l.cap - 1
  /\ Inside(l, l.head) /\ Inside(l, l.tail)
  /\ l.elm \in [Slots(l.cap) -> Content]
  /\ l.size > 0 => l.head = 0 /\ l.tail = l.size - 1
  /\ l.tail # Npos /\ l.size = 0 => l.tail < old
  /\ l.fhead = l.size \/ (l.fhead = Npos /\ old = l.size)
  /\ \A s \in 0 .. SeqFirst(l, old) - 1 :
       /\ l.next[s] \in Link /\ Inside(l, l.next[s])
       /\ s # l.size - 1 => l.next[s] = s + 1
       /\ Doubly => l.prev[s] \in Link
  /\ ~Doubly => l.prev \in [Slots(0) -> Link]

HasGrown(l, m) ==
  /\ IsList(m) /\ InOrder(m)
  /\ m.cap = l.cap /\ m.size = l.size /\ m.head = l.head /\ m.tail = l.tail
  /\ m.elm = l.elm
  /\ \A s \in Slots(m.cap) : Inside(m, m.next[s])

LEMMA GrowthLemma ==
  ASSUME NEW l, NEW old, Growable(l, old), NEW m, m = SetSeqHead(l, old)
  PROVE  HasGrown(l, m)
  <1> DEFINE f == SeqFirst(l, old)
             i == InitSeq(l, f, l.cap)
  <1>0. Npos \in Nat /\ Doubly \in BOOLEAN
    BY ListAssumption
  <1>1. f \in 0 .. l.cap - 1 /\ f <= old
    BY <1>0 DEF SeqFirst, Inside, Slots, Growable
  <1>2. Chained(l, f, i)
    <2>1. Chainable(l, f)
      BY <1>0, <1>1 DEF Growable, Chainable, Link
    <2>2. QED
      BY <2>1, InitSeqLemma
  <1>3. /\ i.cap = l.cap /\ i.size = l.size /\ i.head = l.head /\ i.tail = l.tail
        /\ i.fhead = l.fhead /\ i.elm = l.elm
    BY <1>2 DEF Record, Chained, Growable
  <1>4. /\ \A s \in 0 .. l.cap - 2 : s # l.size - 1 => i.next[s] = s + 1
        /\ i.next[l.cap - 1] = Npos
    BY <1>1, <1>2 DEF Chained, Growable
  <1>5. m = IF i.fhead # Npos THEN i ELSE SetFhead(i, old)
    BY <1>1, <1>3 DEF SetSeqHead, AdjustFhead, Growable
  <1> HIDE DEF f, i
  <1>6. /\ Record(m)
        /\ m.cap = l.cap /\ m.size = l.size /\ m.head = l.head /\ m.tail = l.tail
        /\ m.elm = l.elm /\ m.next = i.next
        /\ m.prev \in [Slots(IF Doubly THEN l.cap ELSE 0) -> Link]
        /\ m.fhead = l.size
    <2>1. CASE i.fhead # Npos
      BY <1>2, <1>3, <1>5, <2>1 DEF Chained, Growable
    <2>2. CASE i.fhead = Npos
      <3>1. old = l.size
        BY <1>0, <1>3, <2>2 DEF Growable
      <3>2. Freed(i, old, m)
        <4>1. Freeable(i, old) /\ m = SetFhead(i, old)
          BY <1>0, <1>2, <1>3, <1>5, <2>2 DEF Link, Growable, Freeable, Chained
        <4>2. QED
          BY <4>1, SetFheadLemma
      <3>3. QED
        BY <1>3, <3>1, <3>2 DEF Record, Freed
    <2>3. QED
      BY <2>1, <2>2
  <1>7. IsList(m)
    <2>1. m.cap \in 0 .. Npos /\ m.size \in 0 .. m.cap
      BY <1>0, <1>6 DEF Growable
    <2>2. m.head \in Link /\ m.tail \in Link /\ m.fhead \in Link
      BY <1>0, <1>6 DEF Link, Inside, Slots, Growable
    <2>3. QED
      BY <1>2, <1>6, <2>1, <2>2 DEF IsList, Record, Chained, Growable
  <1>8. InOrder(m)
    <2>1. /\ m.size \in Int /\ m.size < m.cap /\ m.cap \in Int /\ m.size >= 0
          /\ m.fhead = m.size
      BY <1>0, <1>6 DEF Growable
    <2>2. /\ \A k \in 0 .. m.cap - 2 : k # m.size - 1 => m.next[k] = k + 1
          /\ m.next[m.cap - 1] = Npos
      BY <1>4, <1>6
    <2>3. m.size > 0 => m.head = 0 /\ m.tail = m.size - 1
      BY <1>6 DEF Growable
    <2>4. \A k \in 0 .. m.size - 2 : m.next[k] = k + 1
      BY <2>1, <2>2
    <2>5. \A k \in m.size .. m.cap - 2 : m.next[k] = k + 1
      BY <2>1, <2>2
    <2>6. QED
      BY <2>1, <2>2, <2>3, <2>4, <2>5 DEF InOrder
  <1>9. \A s \in Slots(m.cap) : Inside(m, m.next[s])
    <2> SUFFICES ASSUME NEW s \in Slots(m.cap)
                 PROVE  Inside(m, m.next[s])
      OBVIOUS
    <2>1. s \in 0 .. l.cap - 1 /\ l.cap \in Nat
      BY <1>0, <1>6 DEF Slots, Growable
    <2>2. CASE s = l.cap - 1
      BY <1>4, <1>6, <2>2 DEF Inside
    <2>3. CASE s # l.cap - 1 /\ s < f
      <3>1. s \in 0 .. f - 1 /\ m.next[s] = l.next[s]
        BY <1>1, <1>2, <1>6, <2>1, <2>3 DEF Chained
      <3>2. QED
        BY <1>6, <3>1 DEF Inside, Growable, f
    <2>4. CASE s # l.cap - 1 /\ ~(s < f)
      <3>1. s \in f .. l.cap - 2 /\ s + 1 \in 0 .. l.cap - 1
        BY <1>1, <2>1, <2>4
      <3>2. m.next[s] = s + 1
        BY <1>2, <1>6, <3>1 DEF Chained
      <3>3. QED
        BY <1>6, <3>1, <3>2 DEF Inside, Slots
    <2>5. QED
      BY <2>2, <2>3, <2>4
  <1>10. QED
    BY <1>6, <1>7, <1>8, <1>9 DEF HasGrown

(* _append in a list with a free slot: no assertion fails, the element is  *)
(* behind the others, and the list ends with it.                           *)
Appendable(l, c, v) ==
  /\ Linked(l) /\ Stored(l, c) /\ l.size < l.cap
  /\ c \in Seq(Values) /\ v \in Values

(* prev[] of the node, and of the free slot behind it.                     *)
LinkedBack(l, m) ==
  Doubly => \A s \in 0 .. l.cap - 1 :
    m.prev[s] = IF s = l.size THEN (IF s > 0 THEN s - 1 ELSE Npos)
                ELSE IF s = l.size + 1 THEN Npos ELSE l.prev[s]

Appended(l, c, v, m) ==
  /\ CanClaim(l)
  /\ Linked(m) /\ Closed(m) /\ Stored(m, Append(c, v))
  /\ m.size = l.size + 1 /\ m.cap = l.cap
  /\ m.elm = [l.elm EXCEPT ![l.size] = v]
  /\ m.next[l.size] = Npos /\ LinkedBack(l, m)

LEMMA AppendLemma ==
  ASSUME NEW l, NEW c, NEW v, Appendable(l, c, v), NEW m, m = Append1(l, v)
  PROVE  Appended(l, c, v, m)
  <1>0. /\ Npos \in Nat \ {0} /\ Doubly \in BOOLEAN
        /\ l.cap \in 0 .. Npos /\ l.size \in 0 .. l.cap - 1
        /\ l.next \in [Slots(l.cap) -> Link] /\ l.elm \in [Slots(l.cap) -> Content]
        /\ l.prev \in [Slots(IF Doubly THEN l.cap ELSE 0) -> Link]
        /\ Record(l) /\ c \in Seq(Values) /\ v \in Values
    BY ListAssumption DEF Appendable, Linked, IsList, Record
  <1>1. /\ l.fhead = l.size
        /\ \A k \in 0 .. l.size - 2 : l.next[k] = k + 1
        /\ l.size > 0 => l.head = 0 /\ l.tail = l.size - 1
        /\ \A k \in l.size .. l.cap - 2 : l.next[k] = k + 1
        /\ l.next[l.cap - 1] = Npos
    BY <1>0 DEF Appendable, Linked, InOrder
  <1> DEFINE pos == l.fhead
             k == Claim(l)
  <1>2. CanClaim(l)
    BY <1>0, <1>1 DEF CanClaim
  <1>3. Freed(l, l.next[pos], k)
    <2>1. Freeable(l, l.next[pos])
      BY <1>0, <1>1 DEF Freeable, Slots
    <2>2. QED
      BY <2>1, SetFheadLemma DEF Claim
  <1>4. /\ k.cap = l.cap /\ k.head = l.head /\ k.tail = l.tail /\ k.size = l.size
        /\ k.elm = l.elm /\ k.next = l.next /\ k.fhead = l.next[pos]
        /\ k.prev \in [Slots(IF Doubly THEN l.cap ELSE 0) -> Link]
        /\ Record(k)
    BY <1>0, <1>3 DEF Freed, Record
  <1> DEFINE nx == [s \in Slots(l.cap) |->
                      IF s = pos THEN Npos
                      ELSE IF l.size > 0 /\ s = l.tail THEN pos ELSE l.next[s]]
             pv == IF ~Doubly THEN k.prev
                   ELSE IF l.size > 0 THEN [k.prev EXCEPT ![pos] = l.tail]
                                      ELSE [k.prev EXCEPT ![0] = Npos]
  <1>g. PICK g : g = IF l.size > 0 THEN LinkBehindTail(k, pos) ELSE SetHead(k, 0)
    OBVIOUS
  <1>t. PICK t : t = SetTail(g, pos)
    OBVIOUS
  <1>5. m = [t EXCEPT !.size = @ + 1, !.elm[pos] = v]
    BY <1>g, <1>t DEF Append1
  <1> HIDE DEF k
  <1>6. /\ Record(m)
        /\ m.cap = l.cap /\ m.head = 0 /\ m.tail = l.size /\ m.size = l.size + 1
        /\ m.fhead = l.next[l.size]
        /\ m.elm = [l.elm EXCEPT ![l.size] = v]
        /\ m.next = nx
        /\ m.prev = pv
    <2>1. /\ g.cap = l.cap /\ g.head = 0 /\ g.size = l.size
          /\ g.fhead = l.next[pos] /\ g.elm = l.elm /\ g.prev = pv /\ Record(g)
          /\ g.next = IF l.size > 0 THEN [l.next EXCEPT ![l.tail] = pos] ELSE l.next
      <3>1. CASE l.size > 0
        <4>1. g = [k EXCEPT !.next[k.tail] = pos,
                            !.prev = IF Doubly THEN [k.prev EXCEPT ![pos] = k.tail]
                                               ELSE k.prev]
          BY <1>g, <3>1 DEF LinkBehindTail
        <4>2. QED
          BY <1>0, <1>1, <1>4, <3>1, <4>1 DEF Record
      <3>2. CASE ~(l.size > 0)
        <4>1. g = [k EXCEPT !.head = 0,
                            !.prev = IF Doubly THEN [k.prev EXCEPT ![0] = Npos]
                                               ELSE k.prev]
          BY <1>g, <3>2 DEF SetHead
        <4>2. QED
          BY <1>0, <1>1, <1>4, <3>2, <4>1 DEF Record
      <3>3. QED
        BY <3>1, <3>2
    <2>2. /\ t.cap = l.cap /\ t.head = 0 /\ t.size = l.size /\ t.tail = pos
          /\ t.fhead = l.next[pos] /\ t.elm = l.elm /\ t.prev = pv /\ Record(t)
          /\ t.next = [g.next EXCEPT ![pos] = Npos]
      BY <1>t, <2>1 DEF SetTail, Record
    <2>3. t.next = nx
      <3>1. CASE l.size > 0
        BY <1>0, <1>1, <2>1, <2>2, <3>1
      <3>2. CASE ~(l.size > 0)
        BY <1>0, <1>1, <2>1, <2>2, <3>2
      <3>3. QED
        BY <3>1, <3>2
    <2> HIDE DEF nx, pv
    <2>4. /\ Record(m) /\ m.cap = l.cap /\ m.head = 0 /\ m.tail = pos
          /\ m.size = l.size + 1 /\ m.fhead = l.next[pos]
          /\ m.elm = [l.elm EXCEPT ![pos] = v] /\ m.next = nx /\ m.prev = pv
      <3>1. PICK e : e = [t.elm EXCEPT ![pos] = v]
        OBVIOUS
      <3>2. m = [t EXCEPT !.size = t.size + 1, !.elm = e]
        BY <1>5, <3>1
      <3>3. /\ m.cap = t.cap /\ m.head = t.head /\ m.tail = t.tail /\ m.fhead = t.fhead
            /\ m.size = t.size + 1 /\ m.elm = e /\ m.next = t.next /\ m.prev = t.prev
            /\ Record(m)
        BY <2>2, <3>2 DEF Record
      <3>4. QED
        BY <2>2, <2>3, <3>1, <3>3
    <2>5. QED
      BY <1>1, <2>4
  <1> HIDE DEF nx, pv
  <1>7. \A s \in 0 .. l.cap - 1 :
          m.next[s] = IF s = l.size THEN Npos
                      ELSE IF s = l.size - 1 THEN l.size ELSE l.next[s]
    <2>1. m.next = [s \in 0 .. l.cap - 1 |->
                      IF s = l.size THEN Npos
                      ELSE IF l.size > 0 /\ s = l.tail THEN l.size ELSE l.next[s]]
      BY <1>1, <1>6 DEF Slots, nx
    <2>2. ASSUME NEW s \in 0 .. l.cap - 1
          PROVE  m.next[s] = IF s = l.size THEN Npos
                             ELSE IF s = l.size - 1 THEN l.size ELSE l.next[s]
      <3>1. s \in Int /\ (l.size > 0 /\ s = l.tail <=> s = l.size - 1)
        BY <1>0, <1>1
      <3>2. QED
        BY <2>1, <3>1
    <2>3. QED
      BY <2>2
  <1>8. /\ m.prev \in [Slots(IF Doubly THEN l.cap ELSE 0) -> Link]
        /\ m.elm \in [Slots(l.cap) -> Content] /\ m.next \in [Slots(l.cap) -> Link]
    <2>1. l.size \in Link /\ Npos \in Link /\ (l.size > 0 => l.tail \in Link)
      BY <1>0, <1>1 DEF Link
    <2>2. m.next \in [Slots(l.cap) -> Link]
      BY <1>0, <1>1, <1>6, <2>1 DEF nx
    <2>3. m.elm \in [Slots(l.cap) -> Content]
      <3>1. v \in Content
        BY <1>0 DEF Content
      <3>2. l.elm \in [Slots(l.cap) -> Content] /\ m.elm = [l.elm EXCEPT ![l.size] = v]
        BY <1>0, <1>6
      <3>3. QED
        BY <3>1, <3>2, UpdateTyped
    <2>4. m.prev \in [Slots(IF Doubly THEN l.cap ELSE 0) -> Link]
      <3>1. CASE Doubly
        <4>1. k.prev \in [Slots(l.cap) -> Link]
          BY <1>4, <3>1
        <4>2. /\ l.size > 0 => m.prev = [k.prev EXCEPT ![pos] = l.tail]
              /\ ~(l.size > 0) => m.prev = [k.prev EXCEPT ![0] = Npos]
          BY <1>6, <3>1 DEF pv
        <4>3. m.prev \in [Slots(l.cap) -> Link]
          BY <2>1, <4>1, <4>2, UpdateTyped
        <4>4. QED
          BY <3>1, <4>3
      <3>2. CASE ~Doubly
        BY <1>4, <1>6, <3>2 DEF pv
      <3>3. QED
        BY <3>1, <3>2
    <2>5. QED
      BY <2>2, <2>3, <2>4
  <1>9. IsList(m)
    <2>1. m.fhead \in Link /\ m.head \in Link /\ m.tail \in Link
      BY <1>0, <1>6 DEF Link, Slots
    <2>2. m.cap \in 0 .. Npos /\ m.size \in 0 .. m.cap
      BY <1>0, <1>6
    <2>3. QED
      BY <1>6, <1>8, <2>1, <2>2 DEF IsList, Record
  <1>10. InOrder(m)
    <2>1. ASSUME NEW j \in 0 .. m.size - 2
          PROVE  m.next[j] = j + 1
      <3>1. /\ j \in 0 .. l.cap - 1 /\ j # l.size /\ j \in Int
            /\ j = l.size - 1 \/ j \in 0 .. l.size - 2
        BY <1>0, <1>6
      <3>2. QED
        BY <1>0, <1>1, <1>7, <3>1
    <2>2. ASSUME NEW j \in m.size .. m.cap - 2
          PROVE  m.next[j] = j + 1
      <3>1. /\ j \in 0 .. l.cap - 1 /\ j # l.size /\ j # l.size - 1
            /\ j \in l.size .. l.cap - 2
        BY <1>0, <1>6
      <3>2. QED
        BY <1>1, <1>7, <3>1
    <2>3. m.fhead = IF m.size < m.cap THEN m.size ELSE Npos
      <3>1. CASE l.size = l.cap - 1
        BY <1>0, <1>1, <1>6, <3>1
      <3>2. CASE l.size < l.cap - 1
        <4>1. l.size \in l.size .. l.cap - 2
          BY <1>0, <3>2
        <4>2. QED
          BY <1>0, <1>1, <1>6, <3>2, <4>1
      <3>3. QED
        BY <1>0, <3>1, <3>2
    <2>4. m.size < m.cap => m.next[m.cap - 1] = Npos
      <3>1. m.size < m.cap => /\ l.cap - 1 \in 0 .. l.cap - 1
                              /\ l.cap - 1 # l.size /\ l.cap - 1 # l.size - 1
        BY <1>0, <1>6
      <3>2. QED
        BY <1>1, <1>6, <1>7, <3>1
    <2>5. m.size > 0 => m.head = 0 /\ m.tail = m.size - 1
      BY <1>0, <1>6
    <2>6. QED
      BY <2>1, <2>2, <2>3, <2>4, <2>5 DEF InOrder
  <1>11. \A s \in Slots(m.cap) : Inside(m, m.next[s])
    <2> SUFFICES ASSUME NEW s \in 0 .. l.cap - 1
                 PROVE  m.next[s] \in 0 .. l.cap - 1 \/ m.next[s] = Npos
      BY <1>6 DEF Slots, Inside
    <2>1. l.next[s] \in 0 .. l.cap - 1 \/ l.next[s] = Npos
      BY DEF Slots, Inside, Appendable, Linked
    <2>2. QED
      BY <1>0, <1>7, <2>1
  <1>12. Linked(m) /\ Closed(m)
    <2>1. Inside(m, m.head) /\ Inside(m, m.tail) /\ m.size > 0
      BY <1>0, <1>6 DEF Slots, Inside
    <2>2. m.next[m.size - 1] = Npos
      <3>1. m.size - 1 = l.size /\ l.size \in 0 .. l.cap - 1
        BY <1>0, <1>6
      <3>2. QED
        BY <1>7, <3>1
    <2>3. Storage = "fixed" => m.cap = Inplace
      BY <1>6 DEF Appendable, Linked
    <2>4. QED
      BY <1>9, <1>10, <1>11, <2>1, <2>2, <2>3 DEF Linked, Closed
  <1>13. Stored(m, Append(c, v))
    <2>1. l.size = Len(c) /\ \A j \in 0 .. l.size - 1 : l.elm[j] = c[j + 1]
      BY DEF Appendable, Stored, Holds
    <2>2. /\ Len(Append(c, v)) = Len(c) + 1
          /\ Append(c, v)[Len(c) + 1] = v
          /\ \A j \in 1 .. Len(c) : Append(c, v)[j] = c[j]
      BY <1>0
    <2>3. \A j \in 0 .. l.size : m.elm[j] = Append(c, v)[j + 1]
      BY <1>0, <1>6, <2>1, <2>2 DEF Slots
    <2>4. QED
      BY <1>0, <1>6, <2>1, <2>2, <2>3 DEF Stored, Holds
  <1>14. LinkedBack(l, m)
    <2> SUFFICES ASSUME Doubly, NEW s \in 0 .. l.cap - 1
                 PROVE  m.prev[s] = IF s = l.size THEN (IF s > 0 THEN s - 1 ELSE Npos)
                                    ELSE IF s = l.size + 1 THEN Npos ELSE l.prev[s]
      BY DEF LinkedBack
    <2>1. /\ l.prev \in [0 .. l.cap - 1 -> Link] /\ k.prev \in [0 .. l.cap - 1 -> Link]
          /\ l.size \in 0 .. l.cap - 1 /\ s \in Int /\ l.cap \in Nat /\ l.cap <= Npos
      BY <1>0, <1>4 DEF Slots
    <2>2. l.next[pos] = IF l.size + 1 < l.cap THEN l.size + 1 ELSE Npos
      <3>1. CASE l.size + 1 < l.cap
        <4>1. l.size \in l.size .. l.cap - 2
          BY <2>1, <3>1
        <4> QED
          BY <1>1, <3>1, <4>1
      <3>2. CASE ~(l.size + 1 < l.cap)
        <4>1. l.size = l.cap - 1
          BY <2>1, <3>2
        <4> QED
          BY <1>1, <2>1, <3>2, <4>1
      <3> QED
        BY <3>1, <3>2
    <2>3. k.prev[s] = IF s = l.size + 1 THEN Npos ELSE l.prev[s]
      <3>1. CASE l.next[pos] < l.cap
        BY <1>0, <1>3, <2>1, <2>2, <3>1 DEF Freed
      <3>2. CASE ~(l.next[pos] < l.cap)
        <4>1. k.prev = l.prev
          BY <1>3, <3>2 DEF Freed
        <4>2. s # l.size + 1
          BY <2>1, <2>2, <3>2
        <4> QED
          BY <4>1, <4>2
      <3> QED
        BY <3>1, <3>2
    <2>4. CASE l.size > 0
      <3>1. m.prev = [k.prev EXCEPT ![l.size] = l.size - 1]
        BY <1>1, <1>6, <2>4 DEF pv
      <3> QED
        BY <2>1, <2>3, <2>4, <3>1
    <2>5. CASE ~(l.size > 0)
      <3>1. m.prev = [k.prev EXCEPT ![0] = Npos] /\ l.size = 0
        BY <1>6, <2>1, <2>5 DEF pv
      <3> QED
        BY <2>1, <2>3, <3>1
    <2> QED
      BY <2>4, <2>5
  <1>15. QED
    <2>1. m.next[l.size] = Npos
      BY <1>0, <1>7
    <2> QED
      BY <1>2, <1>6, <1>12, <1>13, <1>14, <2>1 DEF Appended

-----------------------------------------------------------------------------
(* Of a list that has just been constructed, also the last node, the slots *)
(* behind it and the backward links are known.                             *)
Fresh(l) ==
  /\ IF l.size > 0 THEN l.next[l.size - 1] = Npos ELSE l.head = Npos
  /\ \A s \in l.size .. l.cap - 1 : l.elm[s] = Raw
  /\ Doubly => \A s \in 0 .. l.cap - 1 :
                 l.prev[s] = IF s = 0 \/ s = l.size THEN Npos ELSE s - 1

(* A constructed list has all slots in its free list.                      *)
LEMMA EmptyLemma ==
  ASSUME NEW c \in 0 .. Npos, Storage = "fixed" => c = Inplace,
         NEW m, m = Empty(c)
  PROVE  /\ Linked(m) /\ m.size = 0 /\ m.cap = c
         /\ m.head = Npos /\ m.tail = Npos
         /\ c > 0 => m.next[c - 1] = Npos
         /\ Fresh(m)
  <1> DEFINE l == [cap |-> c, head |-> Npos, tail |-> Npos, size |-> 0,
                   fhead |-> IF c > 0 THEN 0 ELSE Npos,
                   elm |-> [s \in Slots(c) |-> Raw],
                   next |-> [s \in Slots(c) |-> Npos],
                   prev |-> [s \in Slots(IF Doubly THEN c ELSE 0) |-> Npos]]
  <1>0. Npos \in Nat \ {0}
    BY ListAssumption
  <1>1. /\ l.cap = c /\ l.head = Npos /\ l.tail = Npos /\ l.size = 0
        /\ l.fhead = (IF c > 0 THEN 0 ELSE Npos)
        /\ l.elm = [s \in Slots(c) |-> Raw]
        /\ l.prev = [s \in Slots(IF Doubly THEN c ELSE 0) |-> Npos]
        /\ Record(l) /\ m = InitSeq(l, 0, l.cap)
    BY DEF Record, Empty
  <1> HIDE DEF l
  <1>2. Chained(l, 0, m)
    <2>1. ~Doubly => l.prev \in [Slots(0) -> Link]
      BY <1>0, <1>1 DEF Link
    <2>2. Chainable(l, 0)
      BY <1>0, <1>1, <2>1 DEF Chainable
    <2>3. QED
      BY <1>1, <2>2, InitSeqLemma
  <1>3. /\ m.cap = c /\ m.head = Npos /\ m.tail = Npos /\ m.size = 0
        /\ m.fhead = (IF c > 0 THEN 0 ELSE Npos)
        /\ m.elm = [s \in Slots(c) |-> Raw]
        /\ m.next \in [Slots(c) -> Link]
        /\ m.prev \in [Slots(IF Doubly THEN c ELSE 0) -> Link]
        /\ \A s \in 0 .. c - 2 : m.next[s] = s + 1
        /\ c > 0 => m.next[c - 1] = Npos
        /\ Doubly => \A s \in 0 .. c - 1 : m.prev[s] = IF s = 0 THEN Npos ELSE s - 1
        /\ Record(m)
    BY <1>1, <1>2 DEF Chained, Record
  <1>4. IsList(m)
    <2>1. m.elm \in [Slots(c) -> Content]
      BY <1>3 DEF Content
    <2>2. QED
      BY <1>0, <1>3, <2>1 DEF IsList, Record, Link
  <1>5. InOrder(m)
    BY <1>0, <1>3 DEF InOrder
  <1>6. \A s \in Slots(m.cap) : Inside(m, m.next[s])
    <2> SUFFICES ASSUME NEW s \in 0 .. c - 1
                 PROVE  m.next[s] \in 0 .. c - 1 \/ m.next[s] = Npos
      BY <1>3 DEF Slots, Inside
    <2>1. s \in Int /\ (s = c - 1 \/ s \in 0 .. c - 2)
      BY <1>0
    <2>2. QED
      BY <1>0, <1>3, <2>1
  <1>7. Fresh(m)
    BY <1>3 DEF Fresh, Slots
  <1>8. QED
    BY <1>3, <1>4, <1>5, <1>6, <1>7 DEF Linked, Inside

(* A list constructed from an initializer list holds it in memory order.   *)
LEMMA InitlistLemma ==
  ASSUME NEW l, Linked(l), l.size = 0, l.head = Npos, l.tail = Npos,
         l.cap > 0 => l.next[l.cap - 1] = Npos, Fresh(l),
         NEW il \in Seq(Values), Len(il) <= l.cap,
         NEW m, m = InitInitlist(l, il)
  PROVE  Linked(m) /\ Closed(m) /\ Stored(m, il) /\ Fresh(m)
  <1> DEFINE n == Len(il)
             fh == IF l.cap > n THEN n ELSE Npos
  <1>h. PICK h : h = IF n > 0 THEN SetTail(SetHead(l, 0), n - 1) ELSE l
    OBVIOUS
  <1> DEFINE f == SetFhead(h, fh)
  <1>0. /\ Npos \in Nat \ {0} /\ l.cap \in 0 .. Npos /\ n \in 0 .. l.cap
        /\ Record(l)
        /\ l.next \in [Slots(l.cap) -> Link] /\ l.elm \in [Slots(l.cap) -> Content]
        /\ l.prev \in [Slots(IF Doubly THEN l.cap ELSE 0) -> Link]
        /\ \A s \in 0 .. l.cap - 2 : l.next[s] = s + 1
        /\ \A s \in Slots(l.cap) : Inside(l, l.next[s])
        /\ \A j \in 1 .. n : il[j] \in Values
    BY ListAssumption DEF Linked, IsList, InOrder, Record
  <1>1. /\ h.cap = l.cap /\ h.size = 0 /\ h.elm = l.elm
        /\ h.prev \in [Slots(IF Doubly THEN l.cap ELSE 0) -> Link]
        /\ h.prev = (IF n > 0 /\ Doubly THEN [l.prev EXCEPT ![0] = Npos] ELSE l.prev)
        /\ h.head = (IF n > 0 THEN 0 ELSE Npos)
        /\ h.tail = (IF n > 0 THEN n - 1 ELSE Npos)
        /\ h.next = (IF n > 0 THEN [l.next EXCEPT ![n - 1] = Npos] ELSE l.next)
        /\ Record(h)
    <2>1. CASE n > 0
      <3>1. PICK g : g = SetHead(l, 0)
        OBVIOUS
      <3>2. /\ g.cap = l.cap /\ g.size = 0 /\ g.elm = l.elm /\ g.head = 0
            /\ g.next = l.next /\ Record(g)
            /\ g.prev = IF Doubly THEN [l.prev EXCEPT ![0] = Npos] ELSE l.prev
        BY <1>0, <3>1 DEF SetHead, Record
      <3>3. g.prev \in [Slots(IF Doubly THEN l.cap ELSE 0) -> Link]
        <4>1. Npos \in Link
          BY <1>0 DEF Link
        <4>2. [l.prev EXCEPT ![0] = Npos] \in [Slots(IF Doubly THEN l.cap ELSE 0) -> Link]
          BY <1>0, <4>1, UpdateTyped
        <4>3. QED
          BY <1>0, <3>2, <4>2
      <3>4. h = SetTail(g, n - 1)
        BY <1>h, <2>1, <3>1
      <3> HIDE DEF n
      <3>5. QED
        BY <2>1, <3>2, <3>3, <3>4 DEF SetTail, Record
    <2>2. CASE ~(n > 0)
      <3> HIDE DEF n
      <3>1. QED
        BY <1>0, <1>h, <2>2
    <2>3. QED
      BY <2>1, <2>2
  <1>2. m = [f EXCEPT !.size = n,
                      !.elm = [s \in Slots(l.cap) |-> IF s < n THEN il[s + 1] ELSE f.elm[s]]]
    BY <1>h DEF InitInitlist
  <1>3. Freed(h, fh, f)
    <2>1. Freeable(h, fh)
      BY <1>0, <1>1 DEF Freeable, Link
    <2>2. QED
      BY <2>1, SetFheadLemma
  <1> HIDE DEF f, n
  <1>4. /\ m.cap = l.cap /\ m.size = n /\ m.fhead = fh /\ m.next = h.next
        /\ m.head = h.head /\ m.tail = h.tail /\ Record(m)
        /\ m.elm = [s \in Slots(l.cap) |-> IF s < n THEN il[s + 1] ELSE l.elm[s]]
        /\ m.prev \in [Slots(IF Doubly THEN l.cap ELSE 0) -> Link]
        /\ m.prev = f.prev
    <2>1. /\ f.cap = l.cap /\ f.fhead = fh /\ f.next = h.next
          /\ f.head = h.head /\ f.tail = h.tail /\ f.elm = l.elm /\ Record(f)
          /\ f.prev \in [Slots(IF Doubly THEN l.cap ELSE 0) -> Link]
      BY <1>1, <1>3 DEF Freed, Record
    <2> DEFINE el == [s \in Slots(l.cap) |-> IF s < n THEN il[s + 1] ELSE l.elm[s]]
    <2>2. m = [f EXCEPT !.size = n, !.elm = el]
      BY <1>2, <2>1
    <2> HIDE DEF el
    <2>3. /\ m.cap = l.cap /\ m.size = n /\ m.fhead = fh /\ m.next = h.next
          /\ m.head = h.head /\ m.tail = h.tail /\ Record(m) /\ m.elm = el
          /\ m.prev \in [Slots(IF Doubly THEN l.cap ELSE 0) -> Link]
          /\ m.prev = f.prev
      BY <2>1, <2>2 DEF Record
    <2>4. QED
      BY <2>3 DEF el
  <1>5. \A s \in 0 .. l.cap - 1 :
          m.next[s] = IF s = n - 1 THEN Npos ELSE l.next[s]
    BY <1>0, <1>1, <1>4 DEF Slots
  <1>6. m.elm \in [Slots(l.cap) -> Content] /\ m.next \in [Slots(l.cap) -> Link]
    <2>1. m.elm \in [Slots(l.cap) -> Content]
      <3>1. ASSUME NEW s \in 0 .. l.cap - 1
            PROVE  (IF s < n THEN il[s + 1] ELSE l.elm[s]) \in Content
        <4>1. s < n => s + 1 \in 1 .. n
          BY <1>0
        <4>2. s < n => il[s + 1] \in Values
          BY <1>0, <4>1
        <4>3. l.elm[s] \in Content
          BY <1>0 DEF Slots
        <4>4. QED
          BY <4>2, <4>3 DEF Content
      <3>2. QED
        BY <1>4, <3>1 DEF Slots
    <2>2. m.next \in [Slots(l.cap) -> Link]
      <3>1. Npos \in Link
        BY <1>0 DEF Link
      <3>2. [l.next EXCEPT ![n - 1] = Npos] \in [Slots(l.cap) -> Link]
        BY <1>0, <3>1, UpdateTyped
      <3>3. QED
        BY <1>0, <1>1, <1>4, <3>2
    <2>3. QED
      BY <2>1, <2>2
  <1>7. IsList(m)
    <2>1. m.fhead \in Link /\ m.head \in Link /\ m.tail \in Link
      BY <1>0, <1>1, <1>4 DEF Link
    <2>2. QED
      BY <1>0, <1>4, <1>6, <2>1 DEF IsList, Record
  <1>8. InOrder(m)
    <2>1. ASSUME NEW j \in 0 .. m.size - 2
          PROVE  m.next[j] = j + 1
      <3>1. j \in Int /\ j \in 0 .. l.cap - 2 /\ j \in 0 .. l.cap - 1 /\ j # n - 1
        BY <1>0, <1>4
      <3>2. QED
        BY <1>0, <1>5, <3>1
    <2>2. ASSUME NEW j \in m.size .. m.cap - 2
          PROVE  m.next[j] = j + 1
      <3>1. j \in Int /\ j \in 0 .. l.cap - 2 /\ j \in 0 .. l.cap - 1 /\ j # n - 1
        BY <1>0, <1>4
      <3>2. QED
        BY <1>0, <1>5, <3>1
    <2>3. m.size < m.cap => m.next[m.cap - 1] = Npos
      BY <1>0, <1>4, <1>5
    <2>4. m.size > 0 => m.head = 0 /\ m.tail = m.size - 1
      BY <1>1, <1>4
    <2>5. QED
      BY <1>4, <2>1, <2>2, <2>3, <2>4 DEF InOrder
  <1>9. \A s \in Slots(m.cap) : Inside(m, m.next[s])
    <2>1. ASSUME NEW s \in 0 .. l.cap - 1
          PROVE  m.next[s] \in 0 .. l.cap - 1 \/ m.next[s] = Npos
      <3>1. l.next[s] \in 0 .. l.cap - 1 \/ l.next[s] = Npos
        BY <1>0 DEF Slots, Inside
      <3>2. QED
        BY <1>5, <3>1
    <2>2. QED
      BY <1>4, <2>1 DEF Slots, Inside
  <1>10. Linked(m) /\ Closed(m)
    <2>1. Inside(m, m.head) /\ Inside(m, m.tail)
      BY <1>0, <1>1, <1>4 DEF Inside, Slots
    <2>2. m.size > 0 => m.next[m.size - 1] = Npos
      <3>1. m.size > 0 => m.size - 1 = n - 1 /\ n - 1 \in 0 .. l.cap - 1
        BY <1>0, <1>4
      <3>2. QED
        BY <1>5, <3>1
    <2>3. m.size = 0 => m.head = Npos /\ m.tail = Npos
      BY <1>1, <1>4
    <2>4. Storage = "fixed" => m.cap = Inplace
      BY <1>4 DEF Linked
    <2>5. QED
      BY <1>7, <1>8, <1>9, <2>1, <2>2, <2>3, <2>4 DEF Linked, Closed
  <1>11. Stored(m, il)
    BY <1>0, <1>4 DEF Stored, Holds, Slots, n
  <1>12. Fresh(m)
    <2>1. m.size > 0 => m.next[m.size - 1] = Npos
      <3>1. m.size > 0 => m.size - 1 = n - 1 /\ n - 1 \in 0 .. l.cap - 1
        BY <1>0, <1>4
      <3> QED
        BY <1>5, <3>1
    <2>2. ~(m.size > 0) => m.head = Npos
      BY <1>1, <1>4
    <2>3. \A s \in m.size .. m.cap - 1 : m.elm[s] = Raw
      <3>1. \A s \in 0 .. l.cap - 1 : l.elm[s] = Raw
        BY DEF Fresh
      <3> QED
        BY <1>0, <1>4, <3>1 DEF Slots
    <2>4. ASSUME Doubly, NEW s \in 0 .. l.cap - 1
          PROVE  m.prev[s] = IF s = 0 \/ s = n THEN Npos ELSE s - 1
      <3>1. /\ l.prev \in [0 .. l.cap - 1 -> Link] /\ h.prev \in [0 .. l.cap - 1 -> Link]
            /\ s \in Int /\ l.cap \in Nat /\ l.cap <= Npos /\ n \in 0 .. l.cap
        BY <1>0, <1>1, <2>4 DEF Slots
      <3>2. l.prev[s] = IF s = 0 THEN Npos ELSE s - 1
        BY <2>4 DEF Fresh
      <3>3. h.prev[s] = IF s = 0 THEN Npos ELSE s - 1
        BY <1>1, <2>4, <3>1, <3>2
      <3>4. CASE n < l.cap
        <4>1. m.prev = [h.prev EXCEPT ![n] = Npos]
          BY <1>1, <1>3, <1>4, <2>4, <3>1, <3>4 DEF Freed, fh
        <4> QED
          BY <3>1, <3>3, <4>1
      <3>5. CASE ~(n < l.cap)
        <4>1. m.prev = h.prev /\ s # n
          BY <1>1, <1>3, <1>4, <3>1, <3>5 DEF Freed, fh
        <4> QED
          BY <3>3, <4>1
      <3> QED
        BY <3>4, <3>5
    <2> QED
      BY <1>4, <2>1, <2>2, <2>3, <2>4 DEF Fresh
  <1>13. QED
    BY <1>10, <1>11, <1>12

-----------------------------------------------------------------------------
LEMMA NoTmpLemma == IsTmp(NoTmp)
  BY ListAssumption DEF IsTmp, NoTmp, NoSlots, Slots, Link

LEMMA InitLemma ==
  ASSUME WithinWidth, Init
  PROVE  IInv /\ Fresh(list)
  <1>0. Npos \in Nat /\ Npos \in Link /\ None \notin Values
    BY ListAssumption DEF Link
  <1>1. \A c \in Capacities : /\ StorageCap(c) \in 0 .. Npos
                              /\ Storage = "fixed" => StorageCap(c) = Inplace
    BY ListAssumption DEF WithinWidth, StorageCap
  <1>2. /\ Linked(list) /\ Closed(list) /\ Stored(list, contents)
        /\ contents \in Seq(Values) /\ Fresh(list)
    <2>1. CASE \E c \in Capacities : list = Empty(StorageCap(c)) /\ contents = <<>>
      <3>1. PICK c \in Capacities : list = Empty(StorageCap(c)) /\ contents = <<>>
        BY <2>1
      <3>2. Linked(list) /\ list.size = 0 /\ Fresh(list)
        BY <1>1, <3>1, EmptyLemma
      <3>3. QED
        BY <3>1, <3>2 DEF Closed, Stored, Holds
    <2>2. CASE \E n \in Capacities : \E il \in [1 .. n -> Values] :
                 /\ n <= StorageCap(n)
                 /\ list = InitInitlist(Empty(StorageCap(n)), il)
                 /\ contents = il
      <3>0. PICK n \in Capacities : \E il \in [1 .. n -> Values] :
                 /\ n <= StorageCap(n)
                 /\ list = InitInitlist(Empty(StorageCap(n)), il)
                 /\ contents = il
        BY <2>2
      <3>1. PICK il \in [1 .. n -> Values] :
                 /\ n <= StorageCap(n)
                 /\ list = InitInitlist(Empty(StorageCap(n)), il)
                 /\ contents = il
        BY <3>0
      <3>2. il \in Seq(Values) /\ Len(il) = n
        <4>1. n \in Nat
          BY ListAssumption
        <4>2. QED
          BY <4>1
      <3> DEFINE l == Empty(StorageCap(n))
      <3>3. /\ Linked(l) /\ l.size = 0 /\ l.cap = StorageCap(n)
            /\ l.head = Npos /\ l.tail = Npos
            /\ l.cap > 0 => l.next[l.cap - 1] = Npos
            /\ Fresh(l)
        BY <1>1, EmptyLemma
      <3> HIDE DEF l
      <3>4. list = InitInitlist(l, il) /\ Len(il) <= l.cap
        BY <3>1, <3>2, <3>3 DEF l
      <3>5. Linked(list) /\ Closed(list) /\ Stored(list, il) /\ Fresh(list)
        BY <3>2, <3>3, <3>4, InitlistLemma
      <3>6. QED
        BY <3>1, <3>2, <3>5
    <2>3. QED
      BY <2>1, <2>2 DEF Init, Construct
  <1>3. Control
    BY <1>0, <1>2, NoTmpLemma DEF Init, Control
  <1>4. QED
    BY <1>2, <1>3 DEF Init, IInv, IterInv

(* What the end of push_back(v) does to a list l that has a free slot.     *)
PushedTo(l, v, fs) ==
  /\ pc' = "idle" /\ contents' = Append(contents, v)
  /\ Appended(l, contents, v, list')
  /\ faults' = IF l.elm[l.size] = Raw THEN fs ELSE fs \cup {"leak"}

(* The end of push_back, in a list with a free slot.                       *)
LEMMA AppendToLemma ==
  ASSUME NEW l, NEW v, NEW fs \in SUBSET {"leak", "ub"},
         Appendable(l, contents, v), l.size = list.size,
         Control, IterInv, UNCHANGED <<it, itpos>>,
         AppendTo(l, v, fs)
  PROVE  IInv' /\ PushedTo(l, v, fs)
  <1>1. PICK m : m = Append1(l, v)
    OBVIOUS
  <1>2. Appended(l, contents, v, m)
    BY <1>1, AppendLemma
  <1>3. /\ list' = m /\ contents' = Append(contents, v)
        /\ faults' \in SUBSET {"leak", "ub"}
        /\ pc' = "idle" /\ pending' = None /\ cursor' = Npos /\ tmp' = NoTmp
    BY <1>1, <1>2 DEF AppendTo, Appended, Return
  <1>4. Control'
    <2>1. Append(contents, v) \in Seq(Values)
      BY DEF Control, Appendable
    <2>2. Npos \in Link
      BY ListAssumption DEF Link
    <2>3. QED
      BY <1>3, <2>1, <2>2, NoTmpLemma DEF Control
  <1>5. IterInv'
    <2>1. list.size \in Nat
      BY ListAssumption DEF Appendable, Linked, IsList
    <2>2. list'.size = list.size + 1
      BY <1>2, <1>3 DEF Appended
    <2>3. it \in Int \/ it = None
      BY ListAssumption DEF Control, Link
    <2>4. QED
      BY <2>1, <2>2, <2>3, ListAssumption DEF IterInv
  <1>6. Linked(list') /\ Closed(list') /\ Stored(list', contents')
    BY <1>2, <1>3 DEF Appended
  <1>7. PushedTo(l, v, fs)
    <2>1. l.fhead = l.size
      BY DEF Appendable, Linked, InOrder
    <2>2. faults' = IF l.elm[l.fhead] = Raw THEN fs ELSE fs \cup {"leak"}
      BY <1>2 DEF AppendTo, Appended
    <2> QED
      BY <1>2, <1>3, <2>1, <2>2 DEF PushedTo
  <1>8. QED
    BY <1>3, <1>4, <1>5, <1>6, <1>7 DEF IInv

(* What a call does that has grown the list to l.                          *)
GrownTo(l, v, fs) ==
  /\ v # None => PushedTo(l, v, fs)
  /\ v = None => /\ pc' = "idle" /\ list' = l
                 /\ faults' = fs /\ contents' = contents

(* The end of a call that has grown the list.                              *)
LEMMA GrownLemma ==
  ASSUME NEW l, NEW v \in Values \cup {None}, NEW fs \in SUBSET {"leak", "ub"},
         Linked(l), Stored(l, contents), l.size = list.size, l.size < l.cap,
         v = None => Closed(l),
         Control, IterInv, UNCHANGED <<it, itpos>>,
         Grown(l, v, fs)
  PROVE  IInv' /\ GrownTo(l, v, fs)
  <1>1. CASE v # None
    <2>1. Appendable(l, contents, v)
      BY <1>1 DEF Appendable, Control
    <2>2. QED
      BY <1>1, <2>1, AppendToLemma DEF Grown, GrownTo
  <1>2. CASE v = None
    <2>1. /\ list' = l /\ faults' = fs /\ contents' = contents
          /\ pc' = "idle" /\ pending' = None /\ cursor' = Npos /\ tmp' = NoTmp
      BY <1>2 DEF Grown, Return
    <2>2. Control'
      BY <2>1, NoTmpLemma, ListAssumption DEF Control, Link
    <2>3. IterInv'
      BY <2>1 DEF IterInv
    <2>4. QED
      BY <1>2, <2>1, <2>2, <2>3 DEF IInv, GrownTo
  <1>3. QED
    BY <1>1, <1>2

(* m is l with more room, if any: its nodes are where they were.           *)
Widened(l, m) ==
  /\ Linked(m) /\ m.size = l.size /\ m.size < m.cap /\ m.cap >= l.cap
  /\ \A s \in Slots(m.cap) : m.elm[s] = IF s < l.cap THEN l.elm[s] ELSE Raw
  /\ Storage = "fixed" => m = l

(* Pages are added behind the others: the elements stay where they are.    *)
LEMMA GrowInPlaceLemma ==
  ASSUME NEW v \in Values \cup {None}, NEW want \in 0 .. MaxRequest,
         WithinWidth, Storage # "contiguous", want > list.cap,
         Linked(list), Closed(list), Stored(list, contents),
         v = None /\ Appending => list.size = 0,
         Control, IterInv, UNCHANGED <<it, itpos>>,
         GrowInPlace(want, v)
  PROVE  IInv' /\ \E m : Widened(list, m) /\ GrownTo(m, v, faults)
  <1> DEFINE c == StorageCap(want)
             el == [s \in Slots(c) |-> IF s < list.cap THEN list.elm[s] ELSE Raw]
  <1>0. /\ Npos \in Nat \ {0} /\ Doubly \in BOOLEAN /\ MaxRequest \in 0 .. Npos
        /\ list.cap \in 0 .. Npos /\ list.size \in 0 .. list.cap
        /\ c \in list.cap + 1 .. Npos /\ c >= want
        /\ Record(list)
        /\ list.next \in [Slots(list.cap) -> Link] /\ list.elm \in [Slots(list.cap) -> Content]
        /\ list.prev \in [Slots(IF Doubly THEN list.cap ELSE 0) -> Link]
    BY ListAssumption DEF WithinWidth, Linked, IsList, Record
  <1>1. Storage = "paged"
    <2>1. Storage = "fixed" => c = Inplace /\ list.cap = Inplace
      BY DEF StorageCap, Linked
    <2>2. QED
      BY <1>0, <2>1, ListAssumption
  <1> HIDE DEF c, el
  <1>2. PICK l : l = [list EXCEPT !.cap = c, !.elm = el]
    OBVIOUS
  <1>3. /\ l.cap = c /\ l.elm = el /\ l.size = list.size /\ l.head = list.head
        /\ l.tail = list.tail /\ l.fhead = list.fhead /\ l.next = list.next
        /\ l.prev = list.prev /\ Record(l)
    BY <1>0, <1>2 DEF Record
  <1>4. /\ Inside(l, l.head) /\ Inside(l, l.tail)
        /\ list.tail # Npos => list.tail \in 0 .. list.cap - 1
        /\ \A s \in 0 .. list.cap - 1 : Inside(l, l.next[s]) /\ l.next[s] \in Link
    <2>1. /\ list.head \in 0 .. list.cap - 1 \/ list.head = Npos
          /\ list.tail \in 0 .. list.cap - 1 \/ list.tail = Npos
      BY DEF Inside, Linked, Slots
    <2>2. \A s \in 0 .. list.cap - 1 : list.next[s] \in 0 .. list.cap - 1 \/ list.next[s] = Npos
      BY DEF Inside, Linked, Slots
    <2>3. \A s \in 0 .. list.cap - 1 : s \in 0 .. c - 1
      BY <1>0
    <2>4. \A s \in 0 .. list.cap - 1 : l.next[s] \in Link
      BY <1>0, <1>3 DEF Slots
    <2>5. QED
      BY <1>3, <2>1, <2>2, <2>3, <2>4 DEF Inside, Slots
  <1>5. /\ \A k \in 0 .. list.size - 2 : l.next[k] = k + 1
        /\ list.size > 0 => list.head = 0 /\ list.tail = list.size - 1
        /\ list.fhead = IF list.size < list.cap THEN list.size ELSE Npos
        /\ \A k \in list.size .. list.cap - 2 : l.next[k] = k + 1
    BY <1>3 DEF Linked, InOrder
  <1>6. SeqFirst(l, list.cap) \in 0 .. list.cap
    BY <1>0, <1>3, <1>4 DEF SeqFirst
  <1>7. Growable(l, list.cap)
    <2>1. ASSUME NEW s \in 0 .. SeqFirst(l, list.cap) - 1
          PROVE  /\ l.next[s] \in Link /\ Inside(l, l.next[s])
                 /\ s # l.size - 1 => l.next[s] = s + 1
                 /\ Doubly => l.prev[s] \in Link
      <3>1. SeqFirst(l, list.cap) = 0 \/ SeqFirst(l, list.cap) <= list.cap - 1
        BY <1>0, <1>3, <1>4 DEF SeqFirst
      <3>2. s \in 0 .. list.cap - 2 /\ s \in 0 .. list.cap - 1 /\ s \in Int
        BY <1>0, <1>6, <3>1
      <3>3. s # list.size - 1 => s \in 0 .. list.size - 2 \/ s \in list.size .. list.cap - 2
        BY <1>0, <3>2
      <3>4. Doubly => l.prev[s] \in Link
        BY <1>0, <1>3, <3>2 DEF Slots
      <3>5. QED
        BY <1>3, <1>4, <1>5, <3>2, <3>3, <3>4
    <2>2. l.elm \in [Slots(l.cap) -> Content]
      <3>1. ASSUME NEW s \in Slots(c)
            PROVE  (IF s < list.cap THEN list.elm[s] ELSE Raw) \in Content
        <4>1. s < list.cap => s \in Slots(list.cap)
          BY <1>0 DEF Slots
        <4>2. QED
          BY <1>0, <4>1 DEF Content
      <3>2. QED
        BY <1>3, <3>1 DEF el
    <2>3. /\ l.cap \in 1 .. Npos /\ l.size \in 0 .. l.cap - 1
          /\ list.cap \in l.size .. l.cap - 1
      BY <1>0, <1>3
    <2>4. /\ l.size > 0 => l.head = 0 /\ l.tail = l.size - 1
          /\ l.tail # Npos /\ l.size = 0 => l.tail < list.cap
          /\ l.fhead = l.size \/ (l.fhead = Npos /\ list.cap = l.size)
      BY <1>0, <1>3, <1>4, <1>5
    <2>5. ~Doubly => l.prev \in [Slots(0) -> Link]
      BY <1>0, <1>3
    <2>6. QED
      BY <1>3, <1>4, <2>1, <2>2, <2>3, <2>4, <2>5 DEF Growable
  <1>8. PICK m : m = SetSeqHead(l, list.cap)
    OBVIOUS
  <1>9. HasGrown(l, m)
    BY <1>7, <1>8, GrowthLemma
  <1>10. Linked(m) /\ m.size = list.size /\ m.cap = c /\ m.elm = el
    <2>1. /\ m.size = list.size /\ m.cap = c /\ m.elm = el
          /\ m.head = list.head /\ m.tail = list.tail
      BY <1>3, <1>9 DEF HasGrown
    <2>2. Inside(m, m.head) /\ Inside(m, m.tail)
      BY <1>3, <1>4, <2>1 DEF Inside
    <2>3. Appending /\ m.size = 0 => m.head = Npos /\ m.tail = Npos
      BY <2>1 DEF Linked
    <2>4. QED
      BY <1>1, <1>9, <2>1, <2>2, <2>3 DEF Linked, HasGrown
  <1>11. Stored(m, contents)
    <2>1. \A j \in 0 .. list.size - 1 : el[j] = list.elm[j]
      BY <1>0 DEF el, Slots
    <2>2. QED
      BY <1>0, <1>10, <2>1 DEF Stored, Holds
  <1>12. v = None => Closed(m)
    BY <1>10 DEF Closed
  <1>13. Grown(m, v, faults)
    BY <1>0, <1>1, <1>2, <1>3, <1>6, <1>8, <1>10 DEF GrowInPlace, c, el
  <1>14. m.size < m.cap
    BY <1>0, <1>10
  <1>15. Widened(list, m)
    BY <1>0, <1>1, <1>10, <1>14 DEF Widened, el
  <1>16. QED
    BY <1>10, <1>11, <1>12, <1>13, <1>14, <1>15, GrownLemma DEF Control

(* The move to a new buffer starts.                                        *)
LEMMA GrowByMovingLemma ==
  ASSUME NEW v \in Values \cup {None}, NEW want \in 0 .. MaxRequest,
         MovableClients, Storage = "contiguous", want > list.cap,
         Linked(list), Closed(list), Stored(list, contents),
         IF v = None THEN list.size = 0 ELSE list.size = list.cap,
         Control, IterInv, UNCHANGED <<it, itpos>>,
         GrowByMoving(want, v)
  PROVE  IInv' /\ pc' = "moving" /\ UNCHANGED <<list, contents, faults>>
  <1>0. /\ Npos \in Nat \ {0} /\ want \in 0 .. Npos /\ list.size \in Nat
        /\ list.head \in Link /\ list.cap \in Nat /\ ~(want <= list.cap)
    BY ListAssumption DEF Linked, IsList
  <1>1. /\ list' = list /\ contents' = contents /\ faults' = faults
        /\ pc' = "moving" /\ pending' = v /\ cursor' = list.head
        /\ tmp'.cap = want /\ tmp'.n = 0
        /\ tmp' = [cap |-> want, n |-> 0, elm |-> NoSlots, next |-> NoSlots, prev |-> NoSlots]
    BY <1>0 DEF GrowByMoving, NoTmp
  <1>2. IsTmp(tmp')
    BY <1>0, <1>1 DEF IsTmp, NoSlots, Slots, Link
  <1>3. Control' /\ IterInv'
    BY <1>0, <1>1, <1>2 DEF Control, IterInv
  <1>4. list.head = IF 0 < list.size THEN 0 ELSE Npos
    BY <1>0 DEF MovableClients, Linked, InOrder
  <1>5. MovingInv'
    <2>1. Linked(list') /\ Closed(list') /\ list'.size = Len(contents')
      BY <1>1 DEF Stored
    <2>2. /\ Holds(tmp'.elm, contents', 0, tmp'.n)
          /\ \A k \in Slots(tmp'.n) : tmp'.next[k] = k + 1
      BY <1>1 DEF Holds, Slots
    <2>3. Holds(list'.elm, contents', tmp'.n, list'.size)
      BY <1>1 DEF Stored
    <2>4. tmp'.cap > list'.cap /\ tmp'.n <= list'.size
      BY <1>0, <1>1
    <2>5. /\ cursor' = IF tmp'.n < list'.size THEN tmp'.n ELSE Npos
          /\ IF pending' = None THEN list'.size = 0 ELSE list'.size = list'.cap
      BY <1>1, <1>4
    <2>6. QED
      BY <2>1, <2>2, <2>3, <2>4, <2>5 DEF MovingInv
  <1>6. QED
    BY <1>1, <1>3, <1>5 DEF IInv

(* What a call that may have to grow the list does: it starts to move the  *)
(* elements, or it is done.                                                *)
Called(v) ==
  \/ /\ Storage = "contiguous" /\ pc' = "moving"
     /\ UNCHANGED <<list, contents, faults>>
  \/ Storage # "contiguous" /\ \E m : Widened(list, m) /\ GrownTo(m, v, faults)
  \/ Widened(list, list) /\ GrownTo(list, v, faults)

LEMMA PushLemma ==
  ASSUME NEW v \in Values, WithinWidth, MovableClients, IInv, Push(v)
  PROVE  IInv' /\ Called(v)
  <1> DEFINE want == Narrow(list.size + 1)
  <1>1. /\ Linked(list) /\ Closed(list) /\ Stored(list, contents) /\ IterInv /\ Control
        /\ UNCHANGED <<it, itpos>> /\ v # None
    BY ListAssumption DEF IInv, Push
  <1>2. /\ Npos \in Nat /\ MaxRequest \in 0 .. Npos
        /\ list.cap \in 0 .. Npos /\ list.size \in 0 .. list.cap
    BY <1>1, ListAssumption DEF Linked, IsList
  <1>3. want = list.size + 1 /\ want \in 0 .. MaxRequest
    <2>1. list.size + 1 \in 0 .. MaxRequest /\ list.size + 1 \in 0 .. Npos
      BY <1>2 DEF Push
    <2>2. QED
      BY <2>1, NarrowId
  <1>4. CASE want > list.cap /\ Grow(want, v)
    <2>1. CASE Storage = "contiguous" /\ GrowByMoving(want, v)
      <3>1. list.size = list.cap
        BY <1>2, <1>3, <1>4
      <3>2. QED
        BY <1>1, <1>3, <1>4, <2>1, <3>1, GrowByMovingLemma DEF Called
    <2>2. CASE Storage # "contiguous" /\ GrowInPlace(want, v)
      BY <1>1, <1>3, <1>4, <2>2, GrowInPlaceLemma DEF Called
    <2>3. QED
      BY <1>4, <2>1, <2>2 DEF Grow
  <1>5. CASE want <= list.cap /\ AppendTo(list, v, faults)
    <2>1. Appendable(list, contents, v)
      BY <1>1, <1>2, <1>3, <1>5 DEF Appendable, Control
    <2>2. faults \in SUBSET {"leak", "ub"}
      BY <1>1 DEF Control
    <2>3. IInv' /\ PushedTo(list, v, faults)
      BY <1>1, <1>5, <2>1, <2>2, AppendToLemma
    <2>4. Widened(list, list)
      BY <1>1, <1>2, <2>1 DEF Widened, Appendable, Slots
    <2>5. QED
      BY <1>1, <2>3, <2>4 DEF Called, GrownTo
  <1>6. QED
    BY <1>4, <1>5 DEF Push

LEMMA ReserveLemma ==
  ASSUME NEW n \in 0 .. MaxRequest, WithinWidth, MovableClients, IInv, Reserve(n)
  PROVE  IInv' /\ Called(None)
  <1>1. /\ Linked(list) /\ Closed(list) /\ Stored(list, contents) /\ IterInv /\ Control
        /\ UNCHANGED <<it, itpos>> /\ n > list.cap
        /\ Appending => list.size = 0
        /\ None \in Values \cup {None}
    BY DEF IInv, Reserve, Appending
  <1>2. CASE Storage = "contiguous" /\ GrowByMoving(n, None)
    BY <1>1, <1>2, GrowByMovingLemma DEF MovableClients, Called
  <1>3. CASE Storage # "contiguous" /\ GrowInPlace(n, None)
    BY <1>1, <1>3, GrowInPlaceLemma DEF Called
  <1>4. QED
    BY <1>2, <1>3 DEF Reserve, Grow

(* One node of the loop of _growto.                                        *)
LEMMA MoveNodeLemma ==
  ASSUME MovableClients, IInv, MoveNode
  PROVE  IInv' /\ UNCHANGED <<pc, contents, faults>> /\ list'.size = list.size
  <1> DEFINE n == tmp.n
  <1>0. /\ Storage = "contiguous" /\ Appending /\ Control /\ IterInv
        /\ Linked(list) /\ Closed(list) /\ list.size = Len(contents)
        /\ tmp.cap > list.cap /\ n <= list.size
        /\ Holds(tmp.elm, contents, 0, n) /\ Holds(list.elm, contents, n, list.size)
        /\ \A k \in Slots(n) : tmp.next[k] = k + 1
        /\ cursor = IF n < list.size THEN n ELSE Npos
        /\ IF pending = None THEN list.size = 0 ELSE list.size = list.cap
        /\ cursor # Npos /\ UNCHANGED <<it, itpos>>
    BY DEF IInv, MovingInv, MoveNode, MovableClients
  <1>1. /\ Npos \in Nat \ {0} /\ list.cap \in 0 .. Npos /\ list.size \in 0 .. list.cap
        /\ list.next \in [Slots(list.cap) -> Link] /\ list.elm \in [Slots(list.cap) -> Content]
        /\ Record(list) /\ IsList(list) /\ contents \in Seq(Values)
        /\ tmp.cap \in 0 .. Npos /\ n \in 0 .. tmp.cap /\ Doubly \in BOOLEAN
        /\ tmp.elm \in [Slots(n) -> Content] /\ tmp.next \in [Slots(n) -> Link]
        /\ tmp.prev \in [Slots(IF Doubly THEN n ELSE 0) -> Link]
    BY <1>0, ListAssumption DEF Linked, IsList, Record, Control, IsTmp
  <1>2. cursor = n /\ n \in 0 .. list.size - 1 /\ n \in 0 .. list.cap - 1 /\ n < tmp.cap
    BY <1>0, <1>1
  <1>3. list.elm[n] = contents[n + 1] /\ list.elm[n] \in Values
    <2>1. list.elm[n] = contents[n + 1]
      <3>1. n \in n .. list.size - 1
        BY <1>1, <1>2
      <3>2. Holds(list.elm, contents, n, list.size)
        BY <1>0
      <3>3. QED
        BY <3>1, <3>2 DEF Holds
    <2>2. n + 1 \in 1 .. Len(contents)
      BY <1>0, <1>1, <1>2
    <2>3. QED
      BY <1>1, <2>1, <2>2
  <1>4. /\ tmp' = [tmp EXCEPT
              !.n = n + 1,
              !.elm = Extended(@, n, list.elm[n]),
              !.next = Extended(@, n, IF n < list.size THEN n + 1 ELSE Npos),
              !.prev = IF Doubly THEN Extended(@, n, IF n > 0 THEN n - 1 ELSE Npos) ELSE @]
        /\ faults' = faults
        /\ list' = [list EXCEPT !.elm[n] = Moved]
        /\ cursor' = list.next[n]
        /\ UNCHANGED <<pc, pending, contents>> /\ pc = "moving"
    <2>1. cursor < list.cap /\ tmp.n < tmp.cap /\ list.elm[cursor] \in Values
      BY <1>1, <1>2, <1>3
    <2> HIDE DEF n
    <2>2. QED
      BY <1>2, <2>1 DEF MoveNode, n
  <1>5. /\ list'.cap = list.cap /\ list'.size = list.size /\ list'.head = list.head
        /\ list'.tail = list.tail /\ list'.fhead = list.fhead /\ list'.next = list.next
        /\ list'.prev = list.prev /\ list'.elm = [list.elm EXCEPT ![n] = Moved]
        /\ Record(list')
    BY <1>1, <1>4 DEF Record
  <1>6. /\ tmp'.cap = tmp.cap /\ tmp'.n = n + 1
        /\ tmp'.elm = Extended(tmp.elm, n, list.elm[n])
        /\ tmp'.next = Extended(tmp.next, n, n + 1)
        /\ tmp'.prev = IF Doubly THEN Extended(tmp.prev, n, IF n > 0 THEN n - 1 ELSE Npos)
                                 ELSE tmp.prev
        /\ tmp' = [cap |-> tmp'.cap, n |-> tmp'.n, elm |-> tmp'.elm,
                   next |-> tmp'.next, prev |-> tmp'.prev]
    <2>1. n < list.size
      BY <1>1, <1>2
    <2>2. tmp = [cap |-> tmp.cap, n |-> tmp.n, elm |-> tmp.elm, next |-> tmp.next, prev |-> tmp.prev]
      BY <1>0 DEF Control, IsTmp
    <2>3. QED
      BY <1>4, <2>1, <2>2
  <1>7. IsTmp(tmp')
    <2>1. n \in Nat
      BY <1>1
    <2>2. list.elm[n] \in Content /\ n + 1 \in Link /\ (IF n > 0 THEN n - 1 ELSE Npos) \in Link
      <3>1. list.elm[n] \in Content
        BY <1>3 DEF Content
      <3>2. n \in Int /\ n >= 0 /\ n < list.cap /\ list.cap \in Int /\ list.cap <= Npos /\ Npos \in Nat
        BY <1>1, <1>2
      <3> HIDE DEF n
      <3>3. n + 1 \in Link /\ (n > 0 => n - 1 \in Link) /\ Npos \in Link
        BY <3>2 DEF Link
      <3>4. QED
        BY <3>1, <3>3
    <2>3. tmp'.elm \in [Slots(n + 1) -> Content] /\ tmp'.next \in [Slots(n + 1) -> Link]
      <3>1. tmp.elm \in [Slots(n) -> Content] /\ tmp.next \in [Slots(n) -> Link]
        BY <1>1
      <3> HIDE DEF n
      <3>2. Extended(tmp.elm, n, list.elm[n]) \in [Slots(n + 1) -> Content]
        BY <2>1, <2>2, <3>1, ExtendedTyped
      <3>3. Extended(tmp.next, n, n + 1) \in [Slots(n + 1) -> Link]
        BY <2>1, <2>2, <3>1, ExtendedTyped
      <3>4. QED
        BY <1>6, <3>2, <3>3
    <2>4. tmp'.prev \in [Slots(IF Doubly THEN n + 1 ELSE 0) -> Link]
      <3>1. CASE Doubly
        <4>1. tmp.prev \in [Slots(n) -> Link]
          BY <1>1, <3>1
        <4>2. tmp'.prev \in [Slots(n + 1) -> Link]
          <5> HIDE DEF n
          <5>1. Extended(tmp.prev, n, IF n > 0 THEN n - 1 ELSE Npos) \in [Slots(n + 1) -> Link]
            BY <2>1, <2>2, <4>1, ExtendedTyped
          <5>2. QED
            BY <1>6, <3>1, <5>1
        <4>3. QED
          BY <3>1, <4>2
      <3>2. CASE ~Doubly
        BY <1>1, <1>6, <3>2
      <3>3. QED
        BY <3>1, <3>2
    <2>5. tmp'.cap \in 0 .. Npos /\ tmp'.n \in 0 .. tmp'.cap
      BY <1>1, <1>2, <1>6
    <2>6. QED
      BY <1>6, <2>3, <2>4, <2>5 DEF IsTmp
  <1>8. Linked(list') /\ Closed(list')
    <2>1. list'.elm \in [Slots(list.cap) -> Content]
      <3>1. Moved \in Content
        BY DEF Content
      <3>2. list.elm \in [Slots(list.cap) -> Content]
        BY <1>1
      <3>3. QED
        BY <1>5, <3>1, <3>2, UpdateTyped
    <2>2. IsList(list')
      BY <1>1, <1>5, <2>1 DEF IsList, Record
    <2>3. InOrder(list')
      BY <1>0, <1>5 DEF Linked, InOrder
    <2>4. QED
      BY <1>0, <1>5, <2>2, <2>3 DEF Linked, Closed, Inside
  <1>9. cursor' = IF n + 1 < list.size THEN n + 1 ELSE Npos
    <2>1. n + 1 < list.size => n \in 0 .. list.size - 2
      BY <1>1, <1>2
    <2>2. ~(n + 1 < list.size) => n = list.size - 1
      <3>1. n \in Int /\ list.size \in Int /\ n <= list.size - 1
        BY <1>1, <1>2
      <3>2. QED
        BY <3>1
    <2>3. list.size > 0
      BY <1>1, <1>2
    <2>4. QED
      BY <1>0, <1>4, <2>1, <2>2, <2>3 DEF Linked, InOrder, Closed
  <1>10. Holds(tmp'.elm, contents, 0, n + 1)
    BY <1>0, <1>1, <1>3, <1>6 DEF Holds, Extended
  <1>11. Holds(list'.elm, contents, n + 1, list.size)
    <2>1. ASSUME NEW k \in n + 1 .. list.size - 1
          PROVE  list'.elm[k] = contents[k + 1]
      <3>0. n \in Nat /\ list.size \in Nat /\ list.cap \in Nat /\ list.size <= list.cap
        BY <1>1
      <3>1. k \in n .. list.size - 1 /\ k # n /\ k \in Slots(list.cap)
        BY <3>0 DEF Slots
      <3>2. list'.elm[k] = list.elm[k]
        BY <1>1, <1>5, <3>1
      <3>3. QED
        BY <1>0, <3>1, <3>2 DEF Holds
    <2>2. QED
      BY <2>1 DEF Holds
  <1>12. \A k \in Slots(n + 1) : tmp'.next[k] = k + 1
    BY <1>0, <1>1, <1>6 DEF Extended, Slots
  <1>13. Control' /\ IterInv'
    <2>1. cursor' \in Link
      BY <1>1, <1>2, <1>4 DEF Slots
    <2>2. QED
      BY <1>0, <1>4, <1>5, <1>7, <2>1 DEF Control, IterInv
  <1>14. MovingInv'
    BY <1>0, <1>1, <1>2, <1>4, <1>5, <1>6, <1>8, <1>9, <1>10, <1>11, <1>12 DEF MovingInv
  <1>15. QED
    BY <1>4, <1>5, <1>13, <1>14 DEF IInv

(* The end of _growto: the new buffer is in memory order and has a free    *)
(* slot for the pending element.                                           *)
LEMMA ReplaceLemma ==
  ASSUME MovableClients, IInv, Replace
  PROVE  /\ IInv' /\ pc' = "idle" /\ ("ub" \notin faults => "ub" \notin faults')
         /\ IF pending = None THEN contents' = contents /\ list'.size = list.size
            ELSE contents' = Append(contents, pending) /\ list'.size = list.size + 1
  <1> DEFINE el == [s \in Slots(tmp.cap) |-> IF s < tmp.n THEN tmp.elm[s] ELSE Raw]
  <1>0. /\ Storage = "contiguous" /\ Appending /\ Control /\ IterInv
        /\ Linked(list) /\ list.size = Len(contents)
        /\ tmp.cap > list.cap /\ tmp.n <= list.size
        /\ Holds(tmp.elm, contents, 0, tmp.n)
        /\ \A k \in Slots(tmp.n) : tmp.next[k] = k + 1
        /\ cursor = IF tmp.n < list.size THEN tmp.n ELSE Npos
        /\ IF pending = None THEN list.size = 0 ELSE list.size = list.cap
        /\ cursor = Npos /\ UNCHANGED <<it, itpos>>
    BY DEF IInv, MovingInv, Replace, MovableClients
  <1>1. /\ Npos \in Nat \ {0} /\ list.cap \in 0 .. Npos /\ list.size \in 0 .. list.cap
        /\ Record(list) /\ contents \in Seq(Values) /\ list.fhead \in Link
        /\ tmp.cap \in 0 .. Npos /\ tmp.n \in 0 .. tmp.cap /\ Doubly \in BOOLEAN
        /\ tmp.elm \in [Slots(tmp.n) -> Content] /\ tmp.next \in [Slots(tmp.n) -> Link]
        /\ tmp.prev \in [Slots(IF Doubly THEN tmp.n ELSE 0) -> Link]
    BY <1>0, ListAssumption DEF Linked, IsList, Record, Control, IsTmp
  <1>2. tmp.n = list.size
    BY <1>0, <1>1
  <1> HIDE DEF el
  <1>3. PICK l : l = [list EXCEPT !.cap = tmp.cap, !.elm = el, !.next = tmp.next, !.prev = tmp.prev]
    OBVIOUS
  <1>4. /\ l.cap = tmp.cap /\ l.elm = el /\ l.size = list.size /\ l.head = list.head
        /\ l.tail = list.tail /\ l.fhead = list.fhead /\ l.next = tmp.next
        /\ l.prev = tmp.prev /\ Record(l)
    BY <1>1, <1>3 DEF Record
  <1>5. /\ list.size > 0 => list.head = 0 /\ list.tail = list.size - 1
        /\ list.size = 0 => list.head = Npos /\ list.tail = Npos
        /\ list.fhead = IF list.size < list.cap THEN list.size ELSE Npos
    BY <1>0, <1>1 DEF Linked, InOrder
  <1>6. SeqFirst(l, list.size) \in 0 .. list.size /\ (list.size > 0 => SeqFirst(l, list.size) = list.size - 1)
    BY <1>1, <1>4, <1>5 DEF SeqFirst
  <1>7. Growable(l, list.size)
    <2>1. ASSUME NEW s \in 0 .. SeqFirst(l, list.size) - 1
          PROVE  /\ l.next[s] \in Link /\ Inside(l, l.next[s])
                 /\ s # l.size - 1 => l.next[s] = s + 1
                 /\ Doubly => l.prev[s] \in Link
      <3>1. s \in 0 .. list.size - 2 /\ s \in 0 .. tmp.n - 1 /\ s \in Int
        BY <1>1, <1>2, <1>6
      <3>2. l.next[s] = s + 1 /\ s + 1 \in 0 .. tmp.cap - 1 /\ s + 1 \in Link
        BY <1>0, <1>1, <1>2, <1>4, <3>1 DEF Slots, Link
      <3>3. Doubly => l.prev[s] \in Link
        BY <1>1, <1>4, <3>1 DEF Slots
      <3>4. QED
        BY <1>4, <3>2, <3>3 DEF Inside, Slots
    <2>2. l.elm \in [Slots(l.cap) -> Content]
      <3>1. ASSUME NEW s \in Slots(tmp.cap)
            PROVE  (IF s < tmp.n THEN tmp.elm[s] ELSE Raw) \in Content
        <4>1. s < tmp.n => s \in Slots(tmp.n)
          BY <1>1 DEF Slots
        <4>2. QED
          BY <1>1, <4>1 DEF Content
      <3>2. QED
        BY <1>4, <3>1 DEF el
    <2>3. /\ l.cap \in 1 .. Npos /\ l.size \in 0 .. l.cap - 1
          /\ list.size \in l.size .. l.cap - 1
      BY <1>0, <1>1, <1>4
    <2>4. /\ l.size > 0 => l.head = 0 /\ l.tail = l.size - 1
          /\ l.tail # Npos /\ l.size = 0 => l.tail < list.size
          /\ l.fhead = l.size \/ (l.fhead = Npos /\ list.size = l.size)
      BY <1>4, <1>5
    <2>5. ~Doubly => l.prev \in [Slots(0) -> Link]
      BY <1>1, <1>4
    <2>6. Inside(l, l.head) /\ Inside(l, l.tail)
      BY <1>0, <1>1, <1>4, <1>5 DEF Inside, Slots
    <2>7. QED
      BY <1>4, <2>1, <2>2, <2>3, <2>4, <2>5, <2>6 DEF Growable
  <1>8. PICK m : m = SetSeqHead(l, list.size)
    OBVIOUS
  <1>9. HasGrown(l, m)
    BY <1>7, <1>8, GrowthLemma
  <1>10. /\ Linked(m) /\ m.size = list.size /\ m.cap = tmp.cap /\ m.elm = el
    <2>1. /\ m.size = list.size /\ m.cap = tmp.cap /\ m.elm = el
          /\ m.head = list.head /\ m.tail = list.tail
      BY <1>4, <1>9 DEF HasGrown
    <2>2. Inside(m, m.head) /\ Inside(m, m.tail)
      BY <1>0, <1>1, <1>5, <2>1 DEF Inside, Slots
    <2>3. QED
      BY <1>0, <1>5, <1>9, <2>1, <2>2 DEF Linked, HasGrown
  <1>11. Stored(m, contents)
    <2>1. \A j \in 0 .. list.size - 1 : el[j] = tmp.elm[j]
      BY <1>1, <1>2 DEF el, Slots
    <2>2. QED
      BY <1>0, <1>1, <1>2, <1>10, <2>1 DEF Stored, Holds
  <1>12. pending = None => Closed(m)
    BY <1>0, <1>10 DEF Closed
  <1>13. \E fs \in SUBSET {"leak", "ub"} :
           Grown(m, pending, fs) /\ ("ub" \notin faults => "ub" \notin fs)
    <2>1. tmp.cap >= SeqFirst(l, list.size)
      BY <1>0, <1>1, <1>6
    <2>2. Grown(m, pending, IF \E s \in Slots(list.cap) : list.elm[s] # Raw
                            THEN faults \cup {"leak"} ELSE faults)
      BY <1>2, <1>3, <1>8, <2>1 DEF Replace, TakeOver, el
    <2>3. QED
      BY <1>0, <2>2 DEF Control
  <1>14. m.size < m.cap
    BY <1>0, <1>1, <1>10
  <1>15. pending \in Values \cup {None}
    BY <1>0 DEF Control
  <1>16. PICK fs \in SUBSET {"leak", "ub"} :
           Grown(m, pending, fs) /\ ("ub" \notin faults => "ub" \notin fs)
    BY <1>13
  <1>17. IInv' /\ GrownTo(m, pending, fs)
    BY <1>0, <1>10, <1>11, <1>12, <1>14, <1>15, <1>16, GrownLemma
  <1>18. QED
    BY <1>10, <1>16, <1>17 DEF GrownTo, PushedTo, Appended

(* clear() prepends the used chain to the free list.                       *)
LEMMA ClearLemma ==
  ASSUME MovableClients, IInv, Clear
  PROVE  IInv'
  <1>0. /\ Clearing /\ ~Appending /\ list.size # 0 /\ pc = "idle"
        /\ Linked(list) /\ Control
    BY DEF IInv, Clear, Appending
  <1>1. /\ Npos \in Nat \ {0} /\ list.cap \in 0 .. Npos /\ list.size \in 1 .. list.cap
        /\ list.next \in [Slots(list.cap) -> Link] /\ list.fhead \in Link
        /\ Record(list) /\ IsList(list)
    BY <1>0, ListAssumption DEF Linked, IsList, Record
  <1>2. /\ \A k \in 0 .. list.size - 2 : list.next[k] = k + 1
        /\ list.head = 0 /\ list.tail = list.size - 1
        /\ list.fhead = IF list.size < list.cap THEN list.size ELSE Npos
        /\ \A k \in list.size .. list.cap - 2 : list.next[k] = k + 1
        /\ list.size < list.cap => list.next[list.cap - 1] = Npos
    BY <1>0, <1>1 DEF Linked, InOrder
  <1>3. list' = [list EXCEPT !.next = [list.next EXCEPT ![list.size - 1] = list.fhead],
                             !.fhead = 0, !.size = 0]
    BY <1>2 DEF Clear
  <1>4. /\ list'.cap = list.cap /\ list'.size = 0 /\ list'.head = list.head
        /\ list'.tail = list.tail /\ list'.fhead = 0 /\ list'.elm = list.elm
        /\ list'.next = [list.next EXCEPT ![list.size - 1] = list.fhead]
        /\ list'.prev = list.prev /\ Record(list')
    BY <1>1, <1>3 DEF Record
  <1>5. \A s \in 0 .. list.cap - 1 :
          list'.next[s] = IF s = list.size - 1 THEN list.fhead ELSE list.next[s]
    BY <1>1, <1>4 DEF Slots
  <1>6. IsList(list')
    <2>1. list'.next \in [Slots(list.cap) -> Link]
      BY <1>1, <1>4, UpdateTyped
    <2>2. 0 \in Link /\ 0 \in 0 .. list.cap
      BY <1>1 DEF Link
    <2>3. QED
      BY <1>1, <1>4, <2>1, <2>2 DEF IsList, Record
  <1>7. InOrder(list')
    <2>1. ASSUME NEW j \in 0 .. list.cap - 2
          PROVE  list'.next[j] = j + 1
      <3>1. j \in 0 .. list.cap - 1 /\ j \in Int
        BY <1>1
      <3>2. CASE j = list.size - 1
        BY <1>1, <1>2, <1>5, <3>1, <3>2
      <3>3. CASE j # list.size - 1
        <4>1. j \in 0 .. list.size - 2 \/ j \in list.size .. list.cap - 2
          BY <1>1, <3>1, <3>3
        <4>2. QED
          BY <1>2, <1>5, <3>1, <3>3, <4>1
      <3>4. QED
        BY <3>2, <3>3
    <2>2. list'.next[list.cap - 1] = Npos
      <3>1. list.cap - 1 \in 0 .. list.cap - 1
        BY <1>1
      <3>2. list.cap - 1 = list.size - 1 => list.fhead = Npos
        BY <1>1, <1>2
      <3>3. list.cap - 1 # list.size - 1 => list.size < list.cap
        BY <1>1
      <3>4. QED
        BY <1>2, <1>5, <3>1, <3>2, <3>3
    <2>3. QED
      BY <1>1, <1>4, <2>1, <2>2 DEF InOrder
  <1>8. Linked(list') /\ Closed(list')
    <2>1. \A s \in 0 .. list.cap - 1 : list.next[s] \in 0 .. list.cap - 1 \/ list.next[s] = Npos
      BY <1>0 DEF Linked, Inside, Slots
    <2>2. list.fhead \in 0 .. list.cap - 1 \/ list.fhead = Npos
      BY <1>1, <1>2
    <2>3. \A s \in Slots(list'.cap) : Inside(list', list'.next[s])
      BY <1>4, <1>5, <2>1, <2>2 DEF Inside, Slots
    <2>4. Inside(list', list'.head) /\ Inside(list', list'.tail)
      BY <1>0, <1>4 DEF Linked, Inside
    <2>5. QED
      BY <1>0, <1>4, <1>6, <1>7, <2>3, <2>4 DEF Linked, Closed
  <1>9. Stored(list', contents') /\ Control' /\ IterInv' /\ pc' = "idle"
    BY <1>0, <1>4 DEF Clear, Stored, Holds, Control, IterInv
  <1>10. QED
    BY <1>8, <1>9 DEF IInv

(* The destructor follows links that stay inside the storage.              *)
LEMMA DestructorLemma ==
  ASSUME IInv, Destroy \/ DestroyNode \/ Destroyed
  PROVE  IInv'
  <1>0. Control /\ Npos \in Nat
    BY ListAssumption DEF IInv
  <1>1. CASE Destroy
    <2>1. /\ IsList(list) /\ Inside(list, list.head)
          /\ \A s \in Slots(list.cap) : Inside(list, list.next[s])
          /\ list.head \in Link
      BY <1>1 DEF Destroy, IInv, Linked, IsList
    <2>2. /\ list' = list /\ cursor' = list.head /\ pc' = "dtor" /\ it' = None /\ itpos' = 0
          /\ UNCHANGED <<pending, tmp, faults, contents>>
      BY <1>1 DEF Destroy
    <2>3. Control'
      BY <1>0, <2>1, <2>2 DEF Control
    <2>4. QED
      BY <2>1, <2>2, <2>3 DEF IInv
  <1>2. CASE DestroyNode
    <2>1. /\ IsList(list) /\ Inside(list, cursor) /\ cursor # Npos
          /\ \A s \in Slots(list.cap) : Inside(list, list.next[s])
          /\ pc = "dtor" /\ UNCHANGED <<it, itpos>>
      BY <1>2 DEF DestroyNode, IInv
    <2>2. /\ cursor \in Slots(list.cap) /\ list.cap \in 0 .. Npos
          /\ list.next \in [Slots(list.cap) -> Link] /\ list.elm \in [Slots(list.cap) -> Content]
          /\ Record(list)
      BY <2>1 DEF Inside, IsList, Record
    <2>3. cursor < list.cap /\ ~(cursor >= list.cap)
      BY <1>0, <2>2 DEF Slots
    <2>4. /\ list' = [list EXCEPT !.elm[cursor] = Raw]
          /\ cursor' = list.next[cursor]
          /\ faults' \in SUBSET {"leak", "ub"}
          /\ UNCHANGED <<pc, pending, tmp, contents>>
      BY <1>0, <1>2, <2>3 DEF DestroyNode, Control
    <2>5. /\ list'.cap = list.cap /\ list'.size = list.size /\ list'.head = list.head
          /\ list'.tail = list.tail /\ list'.fhead = list.fhead /\ list'.next = list.next
          /\ list'.prev = list.prev /\ list'.elm = [list.elm EXCEPT ![cursor] = Raw]
          /\ Record(list')
      BY <2>2, <2>4 DEF Record
    <2>6. IsList(list')
      <3>1. list'.elm \in [Slots(list.cap) -> Content]
        BY <2>2, <2>5, UpdateTyped DEF Content
      <3>2. QED
        BY <2>1, <2>5, <3>1 DEF IsList, Record
    <2>7. Inside(list', cursor') /\ \A s \in Slots(list'.cap) : Inside(list', list'.next[s])
      BY <2>1, <2>2, <2>4, <2>5 DEF Inside
    <2>8. Control'
      BY <1>0, <2>1, <2>2, <2>4 DEF Control
    <2>9. QED
      BY <2>1, <2>4, <2>6, <2>7, <2>8 DEF IInv
  <1>3. CASE Destroyed
    <2>1. /\ UNCHANGED <<list, pending, cursor, tmp, it, itpos, contents>>
          /\ pc' = "done" /\ IsList(list) /\ faults' \in SUBSET {"leak", "ub"}
      BY <1>0, <1>3 DEF Destroyed, IInv, Control
    <2>2. Control'
      BY <1>0, <2>1 DEF Control
    <2>3. QED
      BY <2>1, <2>2 DEF IInv
  <1>4. QED
    BY <1>1, <1>2, <1>3

(* An iterator of an appending client is at a node or at the end.          *)
LEMMA IteratorLemma ==
  ASSUME IInv, Begin \/ Increment \/ Decrement
  PROVE  /\ IInv'
         /\ Appending /\ ~Reversing /\ Increment => (it' = Npos <=> itpos' = list.size)
         /\ Appending /\ Begin => (it' = Npos <=> list.size = 0)
  <1>0. /\ UNCHANGED IterVars /\ pc = "idle"
        /\ Linked(list) /\ Closed(list) /\ Stored(list, contents) /\ IterInv /\ Control
    BY DEF IInv, Begin, Increment, Decrement
  <1>1. /\ Npos \in Nat \ {0} /\ Doubly \in BOOLEAN /\ None \notin Nat
        /\ list.cap \in 0 .. Npos /\ list.size \in 0 .. list.cap
        /\ list.next \in [Slots(list.cap) -> Link] /\ list.head \in Link
        /\ list.prev \in [Slots(IF Doubly THEN list.cap ELSE 0) -> Link]
        /\ list.size > 0 => list.head = 0
        /\ Appending /\ list.size = 0 => list.head = Npos
    BY <1>0, ListAssumption DEF Linked, IsList, InOrder
  <1>2. it' \in Link \cup {None} /\ itpos' \in Int
    <2>1. CASE Begin
      BY <1>1, <2>1 DEF Begin
    <2>2. CASE Increment
      BY <1>0, <1>1, <2>2 DEF Increment, Control
    <2>3. CASE Decrement
      BY <1>0, <1>1, <2>3 DEF Decrement, Control
    <2>4. QED
      BY <2>1, <2>2, <2>3
  <1>3. Control'
    BY <1>0, <1>2 DEF Control, IterVars
  <1>4. ASSUME Appending, ~Reversing, Increment
        PROVE  /\ it' = Npos \/ (it' < list.size /\ itpos' = it')
               /\ it' = Npos <=> itpos' = list.size
    <2>1. /\ it \in Slots(list.cap) /\ it' = list.next[it] /\ itpos' = itpos + 1
          /\ it \in Int /\ it < list.size /\ itpos = it
      BY <1>0, <1>1, <1>4 DEF Increment, IterInv, Slots
    <2>2. it = list.size - 1 => it' = Npos
      BY <1>0, <1>1, <1>4, <2>1 DEF Closed, Slots
    <2>3. it # list.size - 1 => it' = it + 1 /\ it + 1 < list.size
      <3>1. it # list.size - 1 => it \in 0 .. list.size - 2
        BY <1>1, <2>1 DEF Slots
      <3>2. QED
        BY <1>0, <1>1, <2>1, <3>1 DEF Linked, InOrder
    <2>4. QED
      BY <1>1, <2>1, <2>2, <2>3
  <1>5. ASSUME Appending, Begin
        PROVE  /\ it' = Npos \/ (it' < list.size /\ itpos' = it')
               /\ it' = Npos <=> list.size = 0
    <2>1. it' = list.head /\ itpos' = 0
      BY <1>5 DEF Begin
    <2>2. QED
      BY <1>1, <1>5, <2>1
  <1>6. IterInv'
    <2>1. list' = list
      BY <1>0 DEF IterVars
    <2>2. QED
      BY <1>4, <1>5, <2>1 DEF IterInv, Decrement
  <1>7. IInv'
    BY <1>0, <1>3, <1>6 DEF IInv, IterVars, Stored
  <1>8. QED
    BY <1>4, <1>5, <1>7

-----------------------------------------------------------------------------
(* IInv is inductive.                                                      *)
LEMMA StepLemma ==
  ASSUME WithinWidth, MovableClients, IInv, [Next]_vars
  PROVE  IInv'
  <1>1. ASSUME NEW v \in Values, Push(v) PROVE IInv'
    BY <1>1, PushLemma
  <1>2. ASSUME NEW n \in 0 .. MaxRequest, Reserve(n) PROVE IInv'
    BY <1>2, ReserveLemma
  <1>3. CASE MoveNode
    BY <1>3, MoveNodeLemma
  <1>4. CASE Replace
    BY <1>4, ReplaceLemma
  <1>5. CASE Clear
    BY <1>5, ClearLemma
  <1>6. CASE Destroy \/ DestroyNode \/ Destroyed
    BY <1>6, DestructorLemma
  <1>7. CASE Begin \/ Increment \/ Decrement
    BY <1>7, IteratorLemma
  <1>8. CASE UNCHANGED vars
    BY <1>8 DEF vars, IInv, Control, Linked, Closed, Stored, MovingInv, IterInv
  <1>9. QED
    BY <1>1, <1>2, <1>3, <1>4, <1>5, <1>6, <1>7, <1>8 DEF Next

(* IInv is an invariant of every list whose clients stay within the width. *)
THEOREM Inductive ==
  ASSUME WithinWidth, MovableClients
  PROVE  Spec => []IInv
  <1>1. Init => IInv
    BY InitLemma
  <1>2. IInv /\ [Next]_vars => IInv'
    BY StepLemma
  <1>3. QED
    BY <1>1, <1>2, PTL DEF Spec

(* Every variable holds what the code can store in it: an index stays in   *)
(* the storage or is npos, in every call and every loop.                   *)
THEOREM TypeCorrect ==
  ASSUME WithinWidth, MovableClients
  PROVE  Spec => []TypeOK
  <1>1. IInv => TypeOK
    BY DEF IInv, Control, MovingInv, Linked, TypeOK
  <1>2. QED
    BY <1>1, Inductive, PTL

(* No assertion of the list or of its storage fails, and _claim finds a    *)
(* free slot after _make_room_for.                                         *)
THEOREM NoAssertionFails ==
  ASSUME WithinWidth, MovableClients
  PROVE  Spec => []NeverAborts
  <1>1. IInv => NeverAborts
    BY DEF IInv, Control, NeverAborts
  <1>2. QED
    BY <1>1, Inductive, PTL

(* Between calls, both chains of a list run in memory order, and slot k    *)
(* holds the element that was appended as number k + 1, whatever sequence  *)
(* of push_back, reserve and clear has led there.                          *)
THEOREM AlwaysInMemoryOrder ==
  ASSUME WithinWidth, MovableClients
  PROVE  Spec => []MemoryOrder
  <1>1. IInv => MemoryOrder
    BY DEF IInv, Linked, Stored, MemoryOrder, AtRest
  <1>2. QED
    BY <1>1, Inductive, PTL

(* An iterator survives growth: clients that append, and reserve only in   *)
(* an empty list, find the same element behind it afterwards.              *)
THEOREM IteratorsSurviveGrowth ==
  ASSUME WithinWidth, MovableClients, Appending, ~Reversing
  PROVE  Spec => []IteratorStable
  <1>1. IInv => IteratorStable
    <2> SUFFICES ASSUME IInv, AtRest, it \in Slots(list.cap)
                 PROVE  itpos \in 0 .. list.size - 1 /\ list.elm[it] = contents[itpos + 1]
      BY DEF IteratorStable
    <2>1. /\ list.cap \in 0 .. Npos /\ list.size \in 0 .. list.cap /\ Npos \in Nat
          /\ None \notin Nat
      BY ListAssumption DEF IInv, AtRest, Linked, IsList
    <2>2. it < list.size /\ itpos = it /\ it \in Nat
      BY <2>1 DEF IInv, AtRest, IterInv, Slots
    <2>3. QED
      BY <2>1, <2>2 DEF IInv, AtRest, Stored, Holds
  <1>2. QED
    BY <1>1, Inductive, PTL

(* For the same clients, a walk from begin() to end() takes size() steps.  *)
THEOREM WalksAreComplete ==
  ASSUME WithinWidth, MovableClients, Appending, ~Reversing
  PROVE  Spec => DistanceIsSize
  <1>1. IInv /\ [Next]_vars => [Increment => (it' = Npos <=> itpos' = list.size)]_vars
    BY IteratorLemma
  <1>2. QED
    BY <1>1, Inductive, PTL DEF Spec, DistanceIsSize

(* For clients that do not clear a list that they go on using, begin() is  *)
(* end() in an empty list only.                                            *)
THEOREM EmptyBeginsAtEnd ==
  ASSUME WithinWidth, MovableClients, Appending
  PROVE  Spec => BeginIsEnd
  <1>1. IInv /\ [Next]_vars => [Begin => (it' = Npos <=> list.size = 0)]_vars
    BY IteratorLemma
  <1>2. QED
    BY <1>1, Inductive, PTL DEF Spec, BeginIsEnd

-----------------------------------------------------------------------------
(* Which requests the size type can count, for paged storage whose page    *)
(* size divides the range of I: all but those for the last page.  (For     *)
(* that one, capacity() is zero: num_pages() times page_size() wraps.)     *)
THEOREM PagedWidth ==
  ASSUME Storage = "paged", NEW K \in Nat, Npos + 1 = PageSize * K,
         MaxRequest <= PageSize * (K - 1)
  PROVE  WithinWidth
  <1> SUFFICES ASSUME NEW n \in 0 .. MaxRequest
               PROVE  StorageCap(n) \in n .. Npos
    BY DEF WithinWidth
  <1> DEFINE P == PageSize
             q == (n + P - 1) \div P
             r == (n + P - 1) % P
  <1>1. P \in Nat /\ P > 0 /\ n \in Nat /\ n <= P * (K - 1) /\ Npos \in Nat
    BY ListAssumption
  <1>2. q \in Nat /\ r \in 0 .. P - 1 /\ n + P - 1 = P * q + r
    BY <1>1
  <1> HIDE DEF P, q, r
  <1>3. P * q >= n /\ P * q <= n + P - 1
    BY <1>1, <1>2
  <1>4. P * q < P * K
    <2>1. P * (K - 1) = P * K - P
      BY <1>1
    <2>2. P * q \in Int /\ P * K \in Int
      BY <1>1, <1>2
    <2>3. QED
      BY <1>1, <1>3, <2>1, <2>2
  <1>5. P * q \in n .. Npos
    BY <1>1, <1>2, <1>3, <1>4 DEF P
  <1>6. P * q \in 0 .. Npos
    BY <1>1, <1>5
  <1>7. StorageCap(n) = P * q
    BY <1>6, NarrowId DEF StorageCap, P, q
  <1>8. QED
    BY <1>5, <1>7

=============================================================================
