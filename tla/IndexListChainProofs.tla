------------------------- MODULE IndexListChainProofs -------------------------
(***************************************************************************)
(* What the memory order of a list means to its clients, for every         *)
(* instance: the used chain holds what has been appended, the free list    *)
(* has the other slots, prev[] leads back, objects are constructed and     *)
(* destroyed once, and the list implements the sequence of ListSpec.       *)
(* Chains are walked by a recursive function, about which facts are proved *)
(* by the induction of module Recursion.                                   *)
(***************************************************************************)
EXTENDS MCIndexList, IndexListProofs, Recursion

(* A walk starts where it is told to and follows the links.                *)
LEMMA WalkDef ==
  ASSUME NEW l, l.cap \in Nat, NEW links, NEW from, NEW w, w = Walk(l, links, from)
  PROVE  /\ w[0] = from
         /\ \A k \in 1 .. l.cap :
              w[k] = IF w[k - 1] \in Slots(l.cap) THEN links[w[k - 1]] ELSE w[k - 1]
  <1> DEFINE c == l.cap
             S == {from} \cup {links[s] : s \in Slots(c)}
             step == [k \in 1 .. c |-> [s \in S |-> IF s \in Slots(c) THEN links[s] ELSE s]]
             F(g) == [k \in 0 .. c |->
                        IF k = 0 THEN from
                        ELSE IF g[k - 1] \in Slots(c) THEN links[g[k - 1]] ELSE g[k - 1]]
  <1>1. from \in S /\ \A s \in Slots(c) : links[s] \in S
    OBVIOUS
  <1> HIDE DEF S
  <1>2. \A s \in S : (IF s \in Slots(c) THEN links[s] ELSE s) \in S
    BY <1>1
  <1>3. step \in [1 .. c -> [S -> S]]
    BY <1>2
  <1>4. ASSUME NEW k \in 1 .. c, NEW s \in S
        PROVE  step[k][s] = IF s \in Slots(c) THEN links[s] ELSE s
    OBVIOUS
  <1> HIDE DEF step
  <1>5. PICK g \in [0 .. c -> S] :
          g[0] = from /\ \A k \in 1 .. c : g[k] = step[k][g[k - 1]]
    <2>1. c \in Nat
      OBVIOUS
    <2> HIDE DEF c, F
    <2> QED
      BY <1>1, <1>3, <2>1, Iteration
  <1>6. g = F(g)
    <2>1. ASSUME NEW k \in 0 .. c, k # 0 PROVE g[k] = F(g)[k]
      <3>1. k \in 1 .. c /\ k - 1 \in 0 .. c
        BY <2>1
      <3>2. g[k - 1] \in S
        BY <3>1
      <3>3. g[k] = IF g[k - 1] \in Slots(c) THEN links[g[k - 1]] ELSE g[k - 1]
        BY <3>1, <3>2, <1>4, <1>5
      <3> QED
        BY <3>1, <3>3
    <2>2. \A k \in 0 .. c : g[k] = F(g)[k]
      BY <2>1, <1>5
    <2>3. g = [k \in 0 .. c |-> g[k]]
      OBVIOUS
    <2> QED
      BY <2>2, <2>3
  <1>7. w = F(w)
    <2>1. w = CHOOSE h : h = F(h)
      BY DEF Walk
    <2> HIDE DEF F
    <2> QED
      BY <1>6, <2>1
  <1> QED
    BY <1>7

(* It goes along a chain c of n slots that starts where it does.           *)
LEMMA WalkChain ==
  ASSUME NEW l, l.cap \in Nat, NEW links, NEW from, NEW w, w = Walk(l, links, from),
         NEW n \in 0 .. l.cap, NEW c, n > 0 => from = c[0],
         \A k \in 0 .. n - 2 : c[k] \in Slots(l.cap) /\ links[c[k]] = c[k + 1]
  PROVE  \A k \in 0 .. n - 1 : w[k] = c[k]
  <1> DEFINE T == {k \in Nat : k < n => w[k] = c[k]}
  <1>0. /\ w[0] = from
        /\ \A k \in 1 .. l.cap :
              w[k] = IF w[k - 1] \in Slots(l.cap) THEN links[w[k - 1]] ELSE w[k - 1]
    BY WalkDef
  <1>1. 0 \in T
    BY <1>0
  <1>2. ASSUME NEW k \in Nat, k \in T PROVE k + 1 \in T
    <2>1. SUFFICES ASSUME k + 1 < n PROVE w[k + 1] = c[k + 1]
      OBVIOUS
    <2>2. k \in 0 .. n - 2 /\ k + 1 \in 1 .. l.cap /\ (k + 1) - 1 = k
      BY <2>1
    <2>3. w[k] = c[k]
      BY <1>2, <2>1
    <2> QED
      BY <1>0, <2>2, <2>3
  <1>3. \A k \in Nat : k \in T
    <2> HIDE DEF T
    <2> QED
      BY <1>1, <1>2, SetInduction
  <1> QED
    BY <1>3

LEMMA UsedTrail ==
  ASSUME NEW l, l.cap \in Nat, l.size \in 0 .. l.cap, InOrder(l)
  PROVE  Trail(l, l.next, l.head, l.size) = [k \in 1 .. l.size |-> k - 1]
  <1> DEFINE w == Walk(l, l.next, l.head)
             c == [k \in 0 .. l.cap |-> k]
  <1>1. l.size > 0 => l.head = c[0]
    BY DEF InOrder
  <1>2. \A k \in 0 .. l.size - 2 : c[k] \in Slots(l.cap) /\ l.next[c[k]] = c[k + 1]
    BY DEF InOrder, Slots
  <1>3. \A k \in 0 .. l.size - 1 : c[k] = k
    OBVIOUS
  <1> HIDE DEF w, c
  <1>4. \A k \in 0 .. l.size - 1 : w[k] = c[k]
    <2> DEFINE n == l.size
               links == l.next
               from == l.head
    <2>1. w = Walk(l, links, from) /\ n \in 0 .. l.cap /\ (n > 0 => from = c[0])
      BY <1>1 DEF w
    <2>2. \A k \in 0 .. n - 2 : c[k] \in Slots(l.cap) /\ links[c[k]] = c[k + 1]
      BY <1>2
    <2>3. \A k \in 0 .. n - 1 : w[k] = c[k]
      <3> HIDE DEF n, links, from
      <3> QED
        BY <2>1, <2>2, WalkChain
    <2> QED
      BY <2>3
  <1>5. \A k \in 1 .. l.size : w[k - 1] = k - 1
    BY <1>3, <1>4
  <1> QED
    BY <1>5 DEF Trail, w

LEMMA FreeTrail ==
  ASSUME NEW l, l.cap \in Nat, l.size \in 0 .. l.cap, InOrder(l)
  PROVE  /\ Trail(l, l.next, l.fhead, l.cap - l.size)
              = [k \in 1 .. l.cap - l.size |-> l.size + k - 1]
         /\ Walk(l, l.next, l.fhead)[l.cap - l.size] = Npos
  <1> DEFINE n == l.cap - l.size
             w == Walk(l, l.next, l.fhead)
             c == [k \in 0 .. l.cap |-> l.size + k]
  <1>0. n \in 0 .. l.cap
    OBVIOUS
  <1>1. n > 0 => l.fhead = c[0]
    BY DEF InOrder
  <1>2. \A k \in 0 .. n - 2 : c[k] \in Slots(l.cap) /\ l.next[c[k]] = c[k + 1]
    <2>1. ASSUME NEW k \in 0 .. n - 2
          PROVE  c[k] \in Slots(l.cap) /\ l.next[c[k]] = c[k + 1]
      <3>1. /\ k \in 0 .. l.cap /\ k + 1 \in 0 .. l.cap
            /\ l.size + k \in l.size .. l.cap - 2 /\ l.size + k \in Slots(l.cap)
            /\ (l.size + k) + 1 = l.size + (k + 1)
        BY DEF Slots
      <3>2. l.next[l.size + k] = (l.size + k) + 1
        BY <3>1 DEF InOrder
      <3> QED
        BY <3>1, <3>2
    <2> QED
      BY <2>1
  <1>3. \A k \in 0 .. n - 1 : c[k] = l.size + k
    OBVIOUS
  <1> HIDE DEF w, c
  <1>4. \A k \in 0 .. n - 1 : w[k] = c[k]
    <2> DEFINE links == l.next
               from == l.fhead
    <2>1. w = Walk(l, links, from) /\ (n > 0 => from = c[0])
      BY <1>1 DEF w
    <2>2. \A k \in 0 .. n - 2 : c[k] \in Slots(l.cap) /\ links[c[k]] = c[k + 1]
      BY <1>2
    <2> HIDE DEF n, links, from
    <2> QED
      BY <1>0, <2>1, <2>2, WalkChain
  <1>5. \A k \in 1 .. n : w[k - 1] = l.size + k - 1
    <2>1. ASSUME NEW k \in 1 .. n PROVE w[k - 1] = l.size + k - 1
      <3>1. k - 1 \in 0 .. n - 1 /\ l.size + (k - 1) = l.size + k - 1
        OBVIOUS
      <3> QED
        BY <3>1, <1>3, <1>4
    <2> QED
      BY <2>1
  <1>6. w[n] = Npos
    <2>0. /\ w[0] = l.fhead
          /\ \A k \in 1 .. l.cap :
               w[k] = IF w[k - 1] \in Slots(l.cap) THEN l.next[w[k - 1]] ELSE w[k - 1]
      BY WalkDef DEF w
    <2>1. CASE n = 0
      BY <2>0, <2>1 DEF InOrder
    <2>2. CASE n > 0
      <3>1. n \in 1 .. n /\ n \in 1 .. l.cap /\ l.size + n - 1 = l.cap - 1
        BY <2>2
      <3>2. w[n - 1] = l.cap - 1
        BY <3>1, <1>5
      <3>3. l.cap - 1 \in Slots(l.cap) /\ l.next[l.cap - 1] = Npos
        BY <2>2 DEF Slots, InOrder
      <3> QED
        BY <2>0, <3>1, <3>2, <3>3
    <2> QED
      BY <1>0, <2>1, <2>2
  <1> QED
    BY <1>5, <1>6 DEF Trail, w

-----------------------------------------------------------------------------
(* The chains of a list at rest.                                           *)
LEMMA ChainsAtRest ==
  ASSUME AtRest, IInv
  PROVE  /\ list.cap \in Nat /\ list.size \in 0 .. list.cap /\ InOrder(list)
         /\ list.size = Len(contents) /\ Holds(list.elm, contents, 0, list.size)
         /\ Trail(list, list.next, list.head, list.size) = [k \in 1 .. list.size |-> k - 1]
         /\ Trail(list, list.next, list.fhead, list.cap - list.size)
              = [k \in 1 .. list.cap - list.size |-> list.size + k - 1]
         /\ Walk(list, list.next, list.fhead)[list.cap - list.size] = Npos
  <1>1. list.cap \in Nat /\ list.size \in 0 .. list.cap /\ InOrder(list)
    BY ListAssumption DEF AtRest, IInv, Linked, IsList
  <1>2. list.size = Len(contents) /\ Holds(list.elm, contents, 0, list.size)
    BY DEF AtRest, IInv, Stored
  <1> QED
    BY <1>1, <1>2, UsedTrail, FreeTrail

LEMMA UsedChainState == IInv => UsedChain
  <1> DEFINE trail == Trail(list, list.next, list.head, list.size)
  <1>1. SUFFICES ASSUME AtRest, IInv
                 PROVE  /\ list.size = Len(contents)
                        /\ Visited(trail) \subseteq Slots(list.cap) /\ Distinct(trail)
                        /\ \A k \in DOMAIN trail : list.elm[trail[k]] = contents[k]
                        /\ list.size > 0 => trail[list.size] = list.tail
    BY DEF UsedChain
  <1>2. /\ list.cap \in Nat /\ list.size \in 0 .. list.cap /\ InOrder(list)
        /\ list.size = Len(contents) /\ Holds(list.elm, contents, 0, list.size)
        /\ trail = [k \in 1 .. list.size |-> k - 1]
    BY <1>1, ChainsAtRest
  <1> HIDE DEF trail
  <1>3. DOMAIN trail = 1 .. list.size /\ \A k \in 1 .. list.size : trail[k] = k - 1
    BY <1>2
  <1>4. Visited(trail) \subseteq Slots(list.cap) /\ Distinct(trail)
    BY <1>2, <1>3 DEF Visited, Distinct, Slots
  <1>5. ASSUME NEW k \in DOMAIN trail PROVE list.elm[trail[k]] = contents[k]
    <2>1. k - 1 \in 0 .. list.size - 1 /\ (k - 1) + 1 = k /\ trail[k] = k - 1
      BY <1>2, <1>3
    <2> QED
      BY <1>2, <2>1 DEF Holds
  <1>6. list.size > 0 => trail[list.size] = list.tail
    BY <1>2, <1>3 DEF InOrder
  <1> QED
    BY <1>2, <1>4, <1>5, <1>6

LEMMA FreeListCompleteState == IInv => FreeListComplete
  <1> DEFINE n    == list.cap - list.size
             free == Trail(list, list.next, list.fhead, n)
             used == Trail(list, list.next, list.head, list.size)
  <1>1. SUFFICES ASSUME AtRest, IInv
                 PROVE  /\ Distinct(free)
                        /\ Visited(free) = Slots(list.cap) \ Visited(used)
                        /\ Walk(list, list.next, list.fhead)[n] = Npos
    BY DEF FreeListComplete
  <1>2. /\ list.cap \in Nat /\ list.size \in 0 .. list.cap
        /\ used = [k \in 1 .. list.size |-> k - 1]
        /\ free = [k \in 1 .. n |-> list.size + k - 1]
        /\ Walk(list, list.next, list.fhead)[n] = Npos
    BY <1>1, ChainsAtRest
  <1> HIDE DEF free, used
  <1>3. Distinct(free)
    BY <1>2 DEF Distinct
  <1>4. Visited(used) = 0 .. list.size - 1
    <2>1. ASSUME NEW s \in 0 .. list.size - 1 PROVE s \in Visited(used)
      <3>1. s + 1 \in 1 .. list.size /\ (s + 1) - 1 = s
        BY <1>2
      <3>2. used[s + 1] = s /\ s + 1 \in DOMAIN used
        BY <1>2, <3>1
      <3> QED
        BY <3>2 DEF Visited
    <2>2. Visited(used) \subseteq 0 .. list.size - 1
      BY <1>2 DEF Visited
    <2> QED
      BY <2>1, <2>2
  <1>5. Visited(free) = list.size .. list.cap - 1
    <2>1. ASSUME NEW s \in list.size .. list.cap - 1 PROVE s \in Visited(free)
      <3>1. s - list.size + 1 \in 1 .. n /\ list.size + (s - list.size + 1) - 1 = s
        BY <1>2
      <3>2. free[s - list.size + 1] = s /\ s - list.size + 1 \in DOMAIN free
        BY <1>2, <3>1
      <3> QED
        BY <3>2 DEF Visited
    <2>2. Visited(free) \subseteq list.size .. list.cap - 1
      BY <1>2 DEF Visited
    <2> QED
      BY <2>1, <2>2
  <1>6. list.size .. list.cap - 1 = Slots(list.cap) \ (0 .. list.size - 1)
    BY <1>2 DEF Slots
  <1> QED
    BY <1>2, <1>3, <1>4, <1>5, <1>6

(* However a list has been grown, reserved, cleared and appended to, the   *)
(* nodes from m_head on are distinct, end in m_tail and hold what the      *)
(* client has put in, in that order (_append, _growto, clear).             *)
THEOREM ChainHoldsContents ==
  ASSUME WithinWidth, MovableClients
  PROVE  Spec => []UsedChain
  <1>1. Spec => []IInv
    BY Inductive
  <1> QED
    BY <1>1, UsedChainState, PTL

(* And the free list from m_fhead on has every other slot, once, and ends  *)
(* in npos: no slot is lost and none is in both chains (_set_seq_head,     *)
(* _claim, clear).                                                         *)
THEOREM FreeListHasTheRest ==
  ASSUME WithinWidth, MovableClients
  PROVE  Spec => []FreeListComplete
  <1>1. Spec => []IInv
    BY Inductive
  <1> QED
    BY <1>1, FreeListCompleteState, PTL

-----------------------------------------------------------------------------
(* The backward links, in a storage that does not grow: what clear()       *)
(* prepends to the free list is not linked back to.                        *)
Backward(l) ==
  /\ \A k \in 1 .. l.size - 1 : l.prev[k] = k - 1
  /\ ~Clearing => /\ \A k \in l.size + 1 .. l.cap - 1 : l.prev[k] = k - 1
                  /\ l.size < l.cap => l.prev[l.size] = Npos

BackInv == pc = "idle" => Backward(list)

LEMMA BackInit ==
  ASSUME WithinWidth, Doubly, Init
  PROVE  BackInv
  <1>1. Fresh(list) /\ Linked(list)
    BY InitLemma DEF IInv, Init
  <1>2. list.cap \in Nat /\ list.size \in 0 .. list.cap
    BY <1>1, ListAssumption DEF Linked, IsList
  <1> QED
    BY <1>1, <1>2 DEF BackInv, Backward, Fresh

LEMMA BackStep ==
  ASSUME WithinWidth, Doubly, Storage = "fixed", IInv, BackInv, [Next]_vars
  PROVE  BackInv'
  <1>0. MovableClients /\ None \notin Values
    BY ListAssumption DEF MovableClients
  <1>1. ASSUME NEW v \in Values, Push(v) PROVE BackInv'
    <2>1. Called(v) /\ pc = "idle"
      BY <1>0, <1>1, PushLemma DEF Push
    <2>2. PushedTo(list, v, faults)
      BY <1>0, <2>1 DEF Called, Widened, GrownTo
    <2>3. /\ list'.size = list.size + 1 /\ list'.cap = list.cap
          /\ LinkedBack(list, list') /\ Linked(list') /\ Backward(list)
      BY <2>1, <2>2 DEF PushedTo, Appended, BackInv
    <2>4. list.cap \in Nat /\ list.size \in 0 .. list.cap /\ list.size + 1 <= list.cap
      BY <2>1, <2>3, ListAssumption DEF Linked, IsList, IInv
    <2> QED
      BY <2>3, <2>4 DEF BackInv, Backward, LinkedBack
  <1>2. ASSUME NEW n \in 0 .. MaxRequest, Reserve(n) PROVE BackInv'
    <2>1. Called(None) /\ pc = "idle"
      BY <1>0, <1>2, ReserveLemma DEF Reserve
    <2>2. list' = list
      BY <2>1 DEF Called, Widened, GrownTo
    <2> QED
      BY <2>1, <2>2 DEF BackInv, Backward
  <1>3. CASE MoveNode \/ Replace
    BY <1>3 DEF MoveNode, Replace, IInv, MovingInv
  <1>4. CASE Clear
    <2>1. Clearing /\ list'.size = 0
      <3>1. Record(list)
        BY <1>4 DEF Clear, IInv, Linked, IsList, Record
      <3> QED
        BY <1>4, <3>1 DEF Clear, Record
    <2> QED
      BY <2>1 DEF BackInv, Backward
  <1>5. CASE Destroy \/ DestroyNode \/ Destroyed
    <2>1. pc' # "idle"
      BY <1>5 DEF Destroy, DestroyNode, Destroyed, Abort
    <2> QED
      BY <2>1 DEF BackInv
  <1>6. CASE Begin \/ Increment \/ Decrement \/ UNCHANGED vars
    BY <1>6 DEF Begin, Increment, Decrement, vars, IterVars, BackInv, Backward
  <1> QED
    BY <1>1, <1>2, <1>3, <1>4, <1>5, <1>6 DEF Next

LEMMA BackInductive ==
  ASSUME WithinWidth, Doubly, Storage = "fixed"
  PROVE  Spec => []BackInv
  <1>0. MovableClients
    BY DEF MovableClients
  <1>1. Init => BackInv
    BY BackInit
  <1>2. IInv /\ BackInv /\ [Next]_vars => BackInv'
    BY BackStep
  <1> QED
    BY <1>0, <1>1, <1>2, Inductive, PTL DEF Spec

(* From the tail, prev[] leads along the used chain, back to front.        *)
LEMMA BackTrail ==
  ASSUME NEW l, l.cap \in Nat, l.size \in 0 .. l.cap, InOrder(l), Backward(l)
  PROVE  Trail(l, l.prev, l.tail, l.size) = [k \in 1 .. l.size |-> l.size - k]
  <1> DEFINE w == Walk(l, l.prev, l.tail)
             c == [k \in 0 .. l.cap |-> l.size - 1 - k]
  <1>1. l.size > 0 => l.tail = c[0]
    BY DEF InOrder
  <1>2. ASSUME NEW k \in 0 .. l.size - 2
        PROVE  c[k] \in Slots(l.cap) /\ l.prev[c[k]] = c[k + 1]
    <2>1. /\ k \in 0 .. l.cap /\ k + 1 \in 0 .. l.cap
          /\ l.size - 1 - k \in 1 .. l.size - 1 /\ l.size - 1 - k \in Slots(l.cap)
          /\ (l.size - 1 - k) - 1 = l.size - 1 - (k + 1)
      BY DEF Slots
    <2>2. l.prev[l.size - 1 - k] = (l.size - 1 - k) - 1
      BY <2>1 DEF Backward
    <2> QED
      BY <2>1, <2>2
  <1>3. \A k \in 0 .. l.size - 1 : c[k] = l.size - 1 - k
    OBVIOUS
  <1> HIDE DEF w, c
  <1>4. \A k \in 0 .. l.size - 1 : w[k] = c[k]
    <2> DEFINE n == l.size
               links == l.prev
               from == l.tail
    <2>1. w = Walk(l, links, from) /\ n \in 0 .. l.cap /\ (n > 0 => from = c[0])
      BY <1>1 DEF w
    <2>2. \A k \in 0 .. n - 2 : c[k] \in Slots(l.cap) /\ links[c[k]] = c[k + 1]
      BY <1>2
    <2>3. \A k \in 0 .. n - 1 : w[k] = c[k]
      <3> HIDE DEF n, links, from
      <3> QED
        BY <2>1, <2>2, WalkChain
    <2> QED
      BY <2>3
  <1>5. \A k \in 1 .. l.size : w[k - 1] = l.size - k
    <2>1. ASSUME NEW k \in 1 .. l.size PROVE w[k - 1] = l.size - k
      <3>1. k - 1 \in 0 .. l.size - 1 /\ l.size - 1 - (k - 1) = l.size - k
        OBVIOUS
      <3> QED
        BY <3>1, <1>3, <1>4
    <2> QED
      BY <2>1
  <1> QED
    BY <1>5 DEF Trail, w

(* A backward walk of the nodes is the forward walk reversed, in a doubly  *)
(* linked list over storage that does not grow (_append, _init_initlist).  *)
THEOREM BackwardMirrorsForward ==
  ASSUME WithinWidth, Storage = "fixed"
  PROVE  Spec => []PrevMirrorsNext
  <1>0. MovableClients
    BY DEF MovableClients
  <1>1. CASE ~Doubly
    <2>1. PrevMirrorsNext
      BY <1>1 DEF PrevMirrorsNext
    <2> QED
      BY <2>1, PTL
  <1>2. CASE Doubly
    <2>1. IInv /\ BackInv => PrevMirrorsNext
      <3> DEFINE fore == Trail(list, list.next, list.head, list.size)
                 back == Trail(list, list.prev, list.tail, list.size)
      <3>1. SUFFICES ASSUME IInv, BackInv, AtRest, NEW k \in 1 .. list.size
                     PROVE  back[k] = fore[list.size + 1 - k]
        BY DEF PrevMirrorsNext
      <3>2. /\ list.cap \in Nat /\ list.size \in 0 .. list.cap /\ InOrder(list)
            /\ fore = [j \in 1 .. list.size |-> j - 1]
        BY <3>1, ChainsAtRest
      <3>3. back = [j \in 1 .. list.size |-> list.size - j]
        BY <3>1, <3>2, BackTrail DEF BackInv, AtRest
      <3> HIDE DEF fore, back
      <3>4. list.size + 1 - k \in 1 .. list.size /\ (list.size + 1 - k) - 1 = list.size - k
        BY <3>1, <3>2
      <3> QED
        BY <3>1, <3>2, <3>3, <3>4
    <2> QED
      BY <1>0, <1>2, <2>1, Inductive, BackInductive, PTL
  <1> QED
    BY <1>1, <1>2

(* The free list is linked back as well, unless the client clears: clear() *)
(* prepends the nodes without setting prev[] of the first free slot.       *)
THEOREM FreeListLinkedBack ==
  ASSUME WithinWidth, Storage = "fixed", ~Clearing
  PROVE  Spec => []FreeListPrev
  <1>0. MovableClients
    BY DEF MovableClients
  <1>1. CASE ~Doubly
    <2>1. FreeListPrev
      BY <1>1 DEF FreeListPrev
    <2> QED
      BY <2>1, PTL
  <1>2. CASE Doubly
    <2>1. IInv /\ BackInv => FreeListPrev
      <3> DEFINE n    == list.cap - list.size
                 fore == Trail(list, list.next, list.fhead, n)
      <3>1. SUFFICES ASSUME IInv, BackInv, AtRest, n > 0
                     PROVE  /\ \A k \in 2 .. n : list.prev[fore[k]] = fore[k - 1]
                            /\ list.prev[fore[1]] = Npos
        BY DEF FreeListPrev
      <3>2. /\ list.cap \in Nat /\ list.size \in 0 .. list.cap
            /\ fore = [k \in 1 .. n |-> list.size + k - 1] /\ Backward(list)
        BY <3>1, ChainsAtRest DEF BackInv, AtRest
      <3> HIDE DEF fore
      <3>3. ASSUME NEW k \in 2 .. n PROVE list.prev[fore[k]] = fore[k - 1]
        <4>1. /\ fore[k] = list.size + k - 1 /\ fore[k - 1] = list.size + (k - 1) - 1
              /\ list.size + k - 1 \in list.size + 1 .. list.cap - 1
              /\ (list.size + k - 1) - 1 = list.size + (k - 1) - 1
          BY <3>1, <3>2
        <4>2. list.prev[list.size + k - 1] = (list.size + k - 1) - 1
          BY <3>2, <4>1 DEF Backward
        <4> QED
          BY <4>1, <4>2
      <3>4. fore[1] = list.size /\ list.prev[list.size] = Npos
        BY <3>1, <3>2 DEF Backward
      <3> QED
        BY <3>3, <3>4
    <2> QED
      BY <1>0, <1>2, <2>1, Inductive, BackInductive, PTL
  <1> QED
    BY <1>1, <1>2

-----------------------------------------------------------------------------
(* Clients whose lists end where the last element is: raw storage of fixed *)
(* capacity has nothing to relink in reserve().                            *)
Tidy == ~Clearing /\ (Storage = "fixed" \/ Reserving # "always")

(* The last node ends the used chain, and an empty list has no head.       *)
Ends(l) == IF l.size > 0 THEN l.next[l.size - 1] = Npos ELSE l.head = Npos

(* No object is alive in the slots l outside of the nodes first .. size-1, *)
(* except for what a move to a new buffer has left there.                  *)
Vacant(l, first) ==
  Storage # "contiguous" => \A s \in Slots(l.cap) \ (first .. l.size - 1) : l.elm[s] = Raw

(* The destructor has come to the node k.                                  *)
DestroyedUpTo(k) ==
  /\ cursor = IF k < list.size THEN k ELSE Npos
  /\ Holds(list.elm, contents, k, list.size) /\ Vacant(list, k)

(* Objects are alive in the nodes, and nowhere else.                       *)
LifeInv ==
  /\ "ub" \notin faults /\ (Storage # "contiguous" => faults = {})
  /\ pc = "idle" => Ends(list) /\ Vacant(list, 0)
  /\ pc = "dtor" => /\ InOrder(list) /\ Ends(list) /\ list.size = Len(contents)
                    /\ \E k \in 0 .. list.size : DestroyedUpTo(k)


LEMMA LifeInit ==
  ASSUME WithinWidth, Tidy, Init
  PROVE  LifeInv
  <1>1. Fresh(list) /\ Linked(list)
    BY InitLemma DEF IInv, Init
  <1>2. list.cap \in Nat /\ list.size \in 0 .. list.cap
    BY <1>1, ListAssumption DEF Linked, IsList
  <1>3. Vacant(list, 0)
    BY <1>1, <1>2 DEF Fresh, Vacant, Slots
  <1> QED
    BY <1>1, <1>3 DEF Init, LifeInv, Ends, Fresh

(* The end of push_back, in a list that may have got more room.            *)
LEMMA LifePushed ==
  ASSUME Tidy, IInv, LifeInv, pc = "idle",
         NEW m, Widened(list, m), NEW v \in Values, PushedTo(m, v, faults)
  PROVE  LifeInv'
  <1>0. /\ m.cap \in Nat /\ m.size \in 0 .. m.cap - 1 /\ list.cap \in Nat
        /\ m.size = list.size /\ list.cap <= m.cap /\ list.size <= list.cap
        /\ m.elm \in [Slots(m.cap) -> Content]
        /\ \A s \in Slots(m.cap) : m.elm[s] = IF s < list.cap THEN list.elm[s] ELSE Raw
    BY ListAssumption DEF Widened, Linked, IsList, IInv
  <1>1. /\ pc' = "idle" /\ list'.size = m.size + 1 /\ list'.cap = m.cap
        /\ list'.elm = [m.elm EXCEPT ![m.size] = v] /\ list'.next[m.size] = Npos
        /\ faults' = IF m.elm[m.size] = Raw THEN faults ELSE faults \cup {"leak"}
    BY DEF PushedTo, Appended
  <1>2. Ends(list')
    BY <1>0, <1>1 DEF Ends
  <1>3. ASSUME Storage # "contiguous", NEW s \in Slots(m.cap) \ (0 .. m.size - 1)
        PROVE  m.elm[s] = Raw
    <2>1. s < list.cap => s \in Slots(list.cap) \ (0 .. list.size - 1)
      BY <1>0 DEF Slots
    <2> QED
      BY <1>0, <1>3, <2>1 DEF LifeInv, Vacant
  <1>4. Vacant(list', 0)
    <2> SUFFICES ASSUME Storage # "contiguous",
                        NEW s \in Slots(m.cap) \ (0 .. m.size)
                 PROVE  list'.elm[s] = Raw
      BY <1>0, <1>1 DEF Vacant
    <2>1. s \in Slots(m.cap) \ (0 .. m.size - 1) /\ s # m.size
      BY <1>0 DEF Slots
    <2> QED
      BY <1>0, <1>1, <1>3, <2>1
  <1>5. "ub" \notin faults' /\ (Storage # "contiguous" => faults' = {})
    <2>1. m.size \in Slots(m.cap) \ (0 .. m.size - 1)
      BY <1>0 DEF Slots
    <2> QED
      BY <1>1, <1>3, <2>1 DEF LifeInv
  <1> QED
    BY <1>1, <1>2, <1>4, <1>5 DEF LifeInv

(* An appending client's lists end where their last node is.               *)
LEMMA EndsOf ==
  ASSUME Tidy, Storage # "fixed", NEW l, Linked(l), Closed(l)
  PROVE  Ends(l)
  <1>1. Appending /\ l.size \in Nat
    BY ListAssumption DEF Tidy, Appending, Linked, IsList
  <1> QED
    BY <1>1 DEF Linked, Closed, Ends

LEMMA LifeCalled ==
  ASSUME WithinWidth, MovableClients, Tidy, IInv, LifeInv,
         (\E v \in Values : Push(v)) \/ (\E n \in 0 .. MaxRequest : Reserve(n))
  PROVE  LifeInv'
  <1>0. None \notin Values /\ pc = "idle" /\ Linked(list) /\ Closed(list)
    BY ListAssumption DEF IInv, Push, Reserve
  <1>1. ASSUME Storage = "contiguous", pc' = "moving", UNCHANGED <<list, contents, faults>>
        PROVE  LifeInv'
    BY <1>1 DEF LifeInv
  <1>w. \/ Storage = "contiguous" /\ Widened(list, list)
        \/ ~(Storage = "contiguous" /\ Widened(list, list))
    OBVIOUS
  <1>2. ASSUME NEW v \in Values, Push(v) PROVE LifeInv'
    <2>1. Called(v)
      BY <1>2, PushLemma
    <2>2. ASSUME NEW m, Widened(list, m), GrownTo(m, v, faults) PROVE LifeInv'
      <3>1. PushedTo(m, v, faults)
        BY <1>0, <2>2 DEF GrownTo
      <3> QED
        BY <1>0, <2>2, <3>1, LifePushed
    <2> QED
      BY <1>1, <2>1, <2>2 DEF Called
  <1>3. ASSUME NEW n \in 0 .. MaxRequest, Reserve(n) PROVE LifeInv'
    <2>1. Called(None) /\ IInv'
      BY <1>3, ReserveLemma
    <2>2. ASSUME NEW m, Widened(list, m), GrownTo(m, None, faults) PROVE LifeInv'
      <3>1. pc' = "idle" /\ list' = m /\ faults' = faults
        BY <2>2 DEF GrownTo
      <3>2. Linked(m) /\ Closed(m) /\ m.size = list.size
        BY <2>1, <2>2, <3>1 DEF IInv, Widened
      <3>3. Ends(m)
        <4>1. CASE Storage = "fixed"
          <5>1. m = list
            BY <2>2, <4>1 DEF Widened
          <5> QED
            BY <1>0, <5>1 DEF LifeInv
        <4>2. CASE Storage # "fixed"
          BY <3>2, <4>2, EndsOf
        <4> QED
          BY <4>1, <4>2
      <3>4. Vacant(m, 0)
        <4>0. /\ m.cap \in Nat /\ list.cap \in Nat /\ list.size \in 0 .. list.cap
              /\ list.cap <= m.cap
          BY <1>0, <2>2, <3>2, ListAssumption DEF Linked, IsList, Widened
        <4> SUFFICES ASSUME Storage # "contiguous",
                            NEW s \in Slots(m.cap) \ (0 .. m.size - 1)
                     PROVE  m.elm[s] = Raw
          BY DEF Vacant
        <4>1. s < list.cap => s \in Slots(list.cap) \ (0 .. list.size - 1)
          BY <3>2, <4>0 DEF Slots
        <4>2. m.elm[s] = IF s < list.cap THEN list.elm[s] ELSE Raw
          BY <2>2 DEF Widened
        <4> QED
          BY <1>0, <4>1, <4>2 DEF LifeInv, Vacant
      <3> QED
        BY <3>1, <3>3, <3>4 DEF LifeInv
    <2> QED
      BY <1>1, <2>1, <2>2 DEF Called
  <1> QED
    BY <1>2, <1>3

LEMMA LifeReplaced ==
  ASSUME MovableClients, Tidy, IInv, LifeInv, Replace
  PROVE  LifeInv'
  <1>1. IInv' /\ pc' = "idle" /\ "ub" \notin faults'
    BY ReplaceLemma DEF LifeInv
  <1>2. Storage = "contiguous"
    BY DEF IInv, MovingInv, Replace
  <1>3. Ends(list')
    <2>1. Linked(list') /\ Closed(list')
      BY <1>1 DEF IInv
    <2> QED
      BY <1>2, <2>1, EndsOf
  <1> QED
    BY <1>1, <1>2, <1>3 DEF LifeInv, Vacant

(* The destructor meets each object once.                                  *)
LEMMA LifeDestroyed ==
  ASSUME Tidy, IInv, LifeInv, Destroy \/ DestroyNode \/ Destroyed
  PROVE  LifeInv'
  <1>0. Npos \in Nat \ {0} /\ Raw \notin Values /\ Control
    BY ListAssumption DEF IInv
  <1>1. CASE Destroy
    <2>1. /\ Linked(list) /\ Stored(list, contents) /\ Ends(list) /\ Vacant(list, 0)
          /\ list' = list /\ cursor' = list.head /\ pc' = "dtor"
          /\ contents' = contents /\ faults' = faults
      BY <1>1 DEF Destroy, IInv, LifeInv
    <2>2. list.size \in Nat /\ InOrder(list) /\ list.size = Len(contents)
      BY <1>0, <2>1 DEF Linked, IsList, Stored
    <2>3. DestroyedUpTo(0)'
      BY <2>1, <2>2 DEF DestroyedUpTo, Stored, Ends, InOrder, Vacant, Holds
    <2>4. \E k \in 0 .. list'.size : DestroyedUpTo(k)'
      BY <2>1, <2>2, <2>3
    <2>5. InOrder(list') /\ Ends(list') /\ list'.size = Len(contents')
      BY <2>1, <2>2
    <2> QED
      BY <2>1, <2>4, <2>5 DEF LifeInv
  <1>2. CASE DestroyNode
    <2>1. PICK k \in 0 .. list.size : DestroyedUpTo(k)
      BY <1>2 DEF DestroyNode, LifeInv
    <2>2. /\ IsList(list) /\ InOrder(list) /\ Ends(list) /\ list.size = Len(contents)
          /\ cursor # Npos /\ Inside(list, cursor) /\ pc = "dtor"
      BY <1>2 DEF DestroyNode, LifeInv, IInv
    <2>3. /\ list.cap \in 0 .. Npos /\ list.size \in 0 .. list.cap
          /\ list.elm \in [Slots(list.cap) -> Content] /\ Record(list)
          /\ contents \in Seq(Values)
      BY <1>0, <2>2 DEF IsList, Record, Control
    <2>4. k < list.size /\ cursor = k /\ k \in Slots(list.cap) /\ ~(cursor >= list.cap)
      BY <1>0, <2>1, <2>2, <2>3 DEF DestroyedUpTo, Slots
    <2>5. list.elm[k] \in Values
      <3>1. list.elm[k] = contents[k + 1] /\ k + 1 \in 1 .. Len(contents)
        BY <2>1, <2>2, <2>3, <2>4 DEF DestroyedUpTo, Holds
      <3> QED
        BY <2>3, <3>1
    <2>6. /\ list' = [list EXCEPT !.elm[k] = Raw] /\ faults' = faults
          /\ cursor' = list.next[k] /\ pc' = "dtor" /\ contents' = contents
      BY <1>0, <1>2, <2>2, <2>4, <2>5 DEF DestroyNode
    <2>7. /\ list'.cap = list.cap /\ list'.size = list.size /\ list'.head = list.head
          /\ list'.tail = list.tail /\ list'.fhead = list.fhead /\ list'.next = list.next
          /\ list'.elm = [list.elm EXCEPT ![k] = Raw]
      BY <2>3, <2>6 DEF Record
    <2>8. InOrder(list') /\ Ends(list') /\ list'.size = Len(contents')
      BY <2>2, <2>6, <2>7 DEF InOrder, Ends
    <2>9. cursor' = IF k + 1 < list.size THEN k + 1 ELSE Npos
      <3>1. k + 1 < list.size => k \in 0 .. list.size - 2
        BY <2>3, <2>4
      <3>2. ~(k + 1 < list.size) => k = list.size - 1 /\ list.size > 0
        BY <2>3, <2>4
      <3> QED
        BY <2>2, <2>6, <3>1, <3>2 DEF InOrder, Ends
    <2>10. Holds(list'.elm, contents', k + 1, list'.size)
      BY <2>1, <2>3, <2>4, <2>6, <2>7 DEF DestroyedUpTo, Holds, Slots
    <2>11. Vacant(list', k + 1)
      <3> SUFFICES ASSUME Storage # "contiguous",
                          NEW s \in Slots(list.cap) \ (k + 1 .. list.size - 1)
                   PROVE  list'.elm[s] = Raw
        BY <2>7 DEF Vacant
      <3>1. s = k \/ s \in Slots(list.cap) \ (k .. list.size - 1)
        BY <2>3, <2>4 DEF Slots
      <3> QED
        BY <2>1, <2>3, <2>7, <3>1 DEF DestroyedUpTo, Vacant
    <2>12. k + 1 \in 0 .. list'.size /\ DestroyedUpTo(k + 1)'
      BY <2>3, <2>4, <2>7, <2>9, <2>10, <2>11 DEF DestroyedUpTo
    <2> QED
      BY <2>6, <2>8, <2>12 DEF LifeInv
  <1>3. CASE Destroyed
    <2>1. PICK k \in 0 .. list.size : DestroyedUpTo(k)
      BY <1>3 DEF Destroyed, LifeInv
    <2>2. list.cap \in 0 .. Npos /\ list.size \in 0 .. list.cap /\ cursor = Npos
      BY <1>0, <1>3 DEF Destroyed, IInv, IsList
    <2>3. k = list.size
      BY <1>0, <2>1, <2>2 DEF DestroyedUpTo
    <2>4. Storage # "contiguous" => \A s \in Slots(list.cap) : list.elm[s] = Raw
      BY <2>1, <2>2, <2>3 DEF DestroyedUpTo, Vacant
    <2>5. /\ pc' = "done"
          /\ faults' = IF \E s \in Slots(list.cap) : list.elm[s] # Raw
                       THEN faults \cup {"leak"} ELSE faults
      BY <1>3 DEF Destroyed
    <2> QED
      BY <2>4, <2>5 DEF LifeInv
  <1> QED
    BY <1>1, <1>2, <1>3

LEMMA LifeStep ==
  ASSUME WithinWidth, MovableClients, Tidy, IInv, LifeInv, [Next]_vars
  PROVE  LifeInv'
  <1>1. CASE (\E v \in Values : Push(v)) \/ (\E n \in 0 .. MaxRequest : Reserve(n))
    BY <1>1, LifeCalled
  <1>2. CASE MoveNode
    <2>1. UNCHANGED <<pc, contents, faults>> /\ pc = "moving"
      BY <1>2, MoveNodeLemma DEF MoveNode
    <2> QED
      BY <2>1 DEF LifeInv
  <1>3. CASE Replace
    BY <1>3, LifeReplaced
  <1>4. CASE Clear
    BY <1>4 DEF Clear, Tidy
  <1>5. CASE Destroy \/ DestroyNode \/ Destroyed
    BY <1>5, LifeDestroyed
  <1>6. CASE Begin \/ Increment \/ Decrement \/ UNCHANGED vars
    <2>1. UNCHANGED IterVars
      BY <1>6 DEF Begin, Increment, Decrement, vars, IterVars
    <2> QED
      BY <2>1 DEF IterVars, LifeInv, Ends, Vacant, DestroyedUpTo
  <1> QED
    BY <1>1, <1>2, <1>3, <1>4, <1>5, <1>6 DEF Next

LEMMA LifeInductive ==
  ASSUME WithinWidth, MovableClients, Tidy
  PROVE  Spec => []LifeInv
  <1>1. Init => LifeInv
    BY LifeInit
  <1>2. IInv /\ LifeInv /\ [Next]_vars => LifeInv'
    BY LifeStep
  <1> QED
    BY <1>1, <1>2, Inductive, PTL DEF Spec

(* No slot without an object is destroyed or moved from, in the calls, in  *)
(* the move to a new buffer and in the destructor.  Objects may be left    *)
(* alive, or be constructed over (push_back, _growto, ~flat_list).         *)
THEOREM NoUndefinedBehaviour ==
  ASSUME WithinWidth, MovableClients, Tidy
  PROVE  Spec => []NoUndefined
  <1>1. LifeInv => NoUndefined
    BY DEF LifeInv, NoUndefined
  <1> QED
    BY <1>1, LifeInductive, PTL

(* In a storage that does not move its elements, every object is also      *)
(* destroyed: the walk of the destructor leaves none out.                  *)
THEOREM EveryObjectDestroyed ==
  ASSUME WithinWidth, Tidy, Storage # "contiguous"
  PROVE  Spec => []Lifetimes
  <1>0. MovableClients
    BY DEF MovableClients
  <1>1. LifeInv => Lifetimes
    BY DEF LifeInv, Lifetimes
  <1> QED
    BY <1>0, <1>1, LifeInductive, PTL

-----------------------------------------------------------------------------
(* Clients step back only where prev[] leads back.                         *)
SureFooted == Reversing /\ Doubly => Storage = "fixed"

(* An iterator is at the node that its position counts, or at the end.     *)
PlaceInv ==
  /\ pc \in {"idle", "moving"} =>
       it \in {None, Npos} \/ (it \in 0 .. list.size - 1 /\ itpos = it)
  /\ pc \in {"dtor", "done"} => it = None

StrongInv == IInv /\ LifeInv /\ PlaceInv /\ (Doubly /\ Storage = "fixed" => BackInv)

(* Where the three moves of an iterator lead.                              *)
LEMMA IteratorMoves ==
  ASSUME Tidy, SureFooted, StrongInv
  PROVE  /\ Begin => itpos' = 0 /\ it' = IF list.size > 0 THEN 0 ELSE Npos
         /\ Increment => /\ it \in 0 .. list.size - 1 /\ itpos = it /\ itpos' = it + 1
                         /\ it' = IF it + 1 < list.size THEN it + 1 ELSE Npos
         /\ Decrement => /\ it \in 1 .. list.size - 1 /\ itpos = it
                         /\ it' = it - 1 /\ itpos' = it - 1
  <1>1. SUFFICES ASSUME pc = "idle"
                 PROVE  /\ Begin => itpos' = 0 /\ it' = IF list.size > 0 THEN 0 ELSE Npos
                        /\ Increment => /\ it \in 0 .. list.size - 1 /\ itpos = it
                                        /\ itpos' = it + 1
                                        /\ it' = IF it + 1 < list.size THEN it + 1 ELSE Npos
                        /\ Decrement => /\ it \in 1 .. list.size - 1 /\ itpos = it
                                        /\ it' = it - 1 /\ itpos' = it - 1
    BY DEF Begin, Increment, Decrement
  <1>2. /\ Linked(list) /\ Ends(list) /\ PlaceInv
        /\ Npos \in Nat \ {0} /\ None \notin Nat
        /\ list.cap \in 0 .. Npos /\ list.size \in 0 .. list.cap
    BY <1>1, ListAssumption DEF StrongInv, IInv, LifeInv, Linked, IsList
  <1>3. it \in Slots(list.cap) => it \in 0 .. list.size - 1 /\ itpos = it
    BY <1>1, <1>2 DEF PlaceInv, Slots
  <1>4. ASSUME Begin
        PROVE  itpos' = 0 /\ it' = IF list.size > 0 THEN 0 ELSE Npos
    BY <1>2, <1>4 DEF Begin, Linked, InOrder, Ends
  <1>5. ASSUME Increment
        PROVE  /\ it \in 0 .. list.size - 1 /\ itpos = it /\ itpos' = it + 1
               /\ it' = IF it + 1 < list.size THEN it + 1 ELSE Npos
    <2>1. /\ it \in 0 .. list.size - 1 /\ itpos = it /\ itpos' = it + 1
          /\ it' = list.next[it]
      BY <1>3, <1>5 DEF Increment
    <2>2. /\ it + 1 < list.size => it \in 0 .. list.size - 2
          /\ ~(it + 1 < list.size) => it = list.size - 1 /\ list.size > 0
      BY <1>2, <2>1
    <2> QED
      BY <1>2, <2>1, <2>2 DEF Linked, InOrder, Ends
  <1>6. ASSUME Decrement
        PROVE  /\ it \in 1 .. list.size - 1 /\ itpos = it
               /\ it' = it - 1 /\ itpos' = it - 1
    <2>1. /\ it \in 1 .. list.size - 1 /\ itpos = it /\ itpos' = it - 1
          /\ it' = list.prev[it] /\ Doubly /\ Reversing
      BY <1>2, <1>3, <1>6 DEF Decrement
    <2>2. Backward(list)
      BY <1>1, <2>1 DEF SureFooted, StrongInv, BackInv
    <2> QED
      BY <2>1, <2>2 DEF Backward
  <1> QED
    BY <1>4, <1>5, <1>6

(* A step of a call that may append, and one of the destructor's loop.     *)
Building ==
  /\ UNCHANGED <<it, itpos>>
  /\ pc \in {"idle", "moving"} /\ pc' \in {"idle", "moving"}
  /\ \/ contents' = contents /\ list'.size = list.size
     \/ /\ \E v \in Values : contents' = Append(contents, v)
        /\ list'.size = list.size + 1

Destroying == UNCHANGED <<it, itpos, contents>> /\ pc = "dtor"

(* What each step does to the elements and to the iterator.                *)
LEMMA ClientSees ==
  ASSUME WithinWidth, MovableClients, Tidy, StrongInv, Next
  PROVE  Building \/ Destroy \/ Destroying \/ Begin \/ Increment \/ Decrement
  <1>0. IInv /\ None \notin Values /\ Control
    BY ListAssumption DEF StrongInv, IInv
  <1> DEFINE Still == UNCHANGED contents /\ list'.size = list.size
             Longer == /\ \E v \in Values : contents' = Append(contents, v)
                       /\ list'.size = list.size + 1
  <1>1. ASSUME NEW v \in Values, Push(v)
        PROVE  /\ UNCHANGED <<it, itpos>> /\ pc = "idle"
               /\ \/ pc' = "moving" /\ Still
                  \/ pc' = "idle" /\ Longer
    <2>1. Called(v)
      BY <1>0, <1>1, PushLemma
    <2>2. ASSUME NEW m, Widened(list, m), GrownTo(m, v, faults)
          PROVE  pc' = "idle" /\ Longer
      BY <1>0, <2>2 DEF GrownTo, PushedTo, Appended, Widened
    <2>3. \/ pc' = "moving" /\ Still
          \/ pc' = "idle" /\ Longer
      <3> HIDE DEF Longer
      <3> QED
        BY <2>1, <2>2 DEF Called
    <2> QED
      BY <1>1, <2>3 DEF Push
  <1>2. ASSUME NEW n \in 0 .. MaxRequest, Reserve(n)
        PROVE  /\ UNCHANGED <<it, itpos>> /\ pc = "idle" /\ Still
               /\ pc' \in {"idle", "moving"}
    <2>1. Called(None)
      BY <1>0, <1>2, ReserveLemma
    <2>2. ASSUME NEW m, Widened(list, m), GrownTo(m, None, faults)
          PROVE  pc' = "idle" /\ Still
      BY <2>2 DEF GrownTo, Widened
    <2>3. pc' \in {"idle", "moving"} /\ Still
      BY <2>1, <2>2 DEF Called
    <2> QED
      BY <1>2, <2>3 DEF Reserve
  <1>3. ASSUME MoveNode
        PROVE  UNCHANGED <<it, itpos>> /\ pc = "moving" /\ pc' = "moving" /\ Still
    BY <1>0, <1>3, MoveNodeLemma DEF MoveNode
  <1>4. ASSUME Replace
        PROVE  /\ UNCHANGED <<it, itpos>> /\ pc = "moving" /\ pc' = "idle"
               /\ Still \/ Longer
    <2>1. pending \in Values \cup {None}
      BY <1>0 DEF Control
    <2> QED
      BY <1>0, <1>4, <2>1, ReplaceLemma DEF Replace
  <1>5. ~Clear
    BY DEF Clear, Tidy
  <1>6. DestroyNode \/ Destroyed => UNCHANGED <<it, itpos, contents>> /\ pc = "dtor"
    BY DEF DestroyNode, Destroyed, Abort
  <1> HIDE DEF Still, Longer
  <1>7. \/ /\ UNCHANGED <<it, itpos>>
           /\ pc \in {"idle", "moving"} /\ pc' \in {"idle", "moving"}
           /\ Still \/ Longer
        \/ Destroy
        \/ UNCHANGED <<it, itpos, contents>> /\ pc = "dtor"
        \/ (Begin \/ Increment \/ Decrement)
    BY <1>1, <1>2, <1>3, <1>4, <1>5, <1>6 DEF Next
  <1> QED
    BY <1>7 DEF Still, Longer, Building, Destroying

LEMMA PlaceStep ==
  ASSUME WithinWidth, MovableClients, Tidy, SureFooted, StrongInv, [Next]_vars
  PROVE  PlaceInv'
  <1>0. IInv /\ PlaceInv
    BY DEF StrongInv
  <1>1. IInv'
    BY <1>0, StepLemma
  <1>2. CASE UNCHANGED vars
    BY <1>0, <1>2 DEF PlaceInv, vars
  <1>3. CASE Begin \/ Increment \/ Decrement
    <2>1. list' = list /\ pc' = "idle" /\ list.size \in Nat
      BY <1>0, <1>3, ListAssumption
         DEF Begin, Increment, Decrement, IterVars, IInv, Linked, IsList
    <2> QED
      BY <1>3, <2>1, IteratorMoves DEF PlaceInv
  <1>4. CASE Destroy
    BY <1>4 DEF Destroy, PlaceInv
  <1>5. CASE Destroying
    <2>1. it' = None
      BY <1>0, <1>5 DEF PlaceInv, Destroying
    <2> QED
      BY <2>1 DEF PlaceInv
  <1>6. CASE Building
    <2>1. list.size \in Nat
      BY <1>0, <1>6, ListAssumption DEF IInv, MovingInv, Linked, IsList, Building
    <2> QED
      BY <1>0, <1>6, <2>1 DEF PlaceInv, Building
  <1>7. Next \/ UNCHANGED vars
    OBVIOUS
  <1> QED
    BY <1>2, <1>3, <1>4, <1>5, <1>6, <1>7, ClientSees

LEMMA StrongInductive ==
  ASSUME WithinWidth, MovableClients, Tidy, SureFooted
  PROVE  Spec => []StrongInv
  <1>1. Init => StrongInv
    BY InitLemma, LifeInit, BackInit DEF Init, StrongInv, PlaceInv
  <1>2. StrongInv /\ [Next]_vars => StrongInv'
    BY StepLemma, LifeStep, BackStep, PlaceStep DEF StrongInv
  <1> QED
    BY <1>1, <1>2, PTL DEF Spec

-----------------------------------------------------------------------------
(* The abstract sequence is what the client has put in.                    *)
LEMMA WalkedContents == IInv => Walked = contents
  <1>1. SUFFICES ASSUME IInv, pc = "idle" PROVE Walked = contents
    BY DEF Walked
  <1> DEFINE trail == Trail(list, list.next, list.head, list.size)
  <1>2. /\ list.size \in Nat /\ list.size = Len(contents)
        /\ Holds(list.elm, contents, 0, list.size)
        /\ trail = [k \in 1 .. list.size |-> k - 1]
    BY <1>1, ChainsAtRest DEF AtRest
  <1>3. contents \in Seq(Values)
    BY <1>1 DEF IInv, Control
  <1>4. Walked = [k \in 1 .. list.size |-> list.elm[trail[k]]]
    BY <1>1 DEF Walked
  <1> HIDE DEF trail
  <1>5. ASSUME NEW k \in 1 .. list.size PROVE list.elm[trail[k]] = contents[k]
    <2>1. trail[k] = k - 1 /\ k - 1 \in 0 .. list.size - 1 /\ (k - 1) + 1 = k
      BY <1>2
    <2> QED
      BY <1>2, <2>1 DEF Holds
  <1>6. contents = [k \in 1 .. list.size |-> contents[k]]
    BY <1>2, <1>3
  <1> QED
    BY <1>4, <1>5, <1>6

LEMMA AbstractStep ==
  ASSUME WithinWidth, MovableClients, Tidy, SureFooted, StrongInv, [Next]_vars
  PROVE  [Abstract!ListNext]_<<Walked, AbstractIt>>
  <1>0. IInv /\ IInv' /\ Npos \in Nat /\ None \notin Nat
    BY StepLemma, ListAssumption DEF StrongInv
  <1>1. Walked = contents /\ Walked' = contents'
    <2>1. (IInv => Walked = contents)'
      BY WalkedContents, PTL
    <2> QED
      BY <1>0, <2>1, WalkedContents
  <1>2. CASE UNCHANGED <<it, itpos, contents>>
    BY <1>1, <1>2 DEF AbstractIt
  <1>3. CASE UNCHANGED <<it, itpos>> /\ \E v \in Values : contents' = Append(contents, v)
    <2>1. Abstract!PushBack
      BY <1>1, <1>3 DEF Abstract!PushBack, AbstractIt
    <2> QED
      BY <2>1 DEF Abstract!ListNext
  <1>4. CASE Destroy
    <2>1. Abstract!Leave
      BY <1>0, <1>1, <1>4 DEF Destroy, Abstract!Leave, AbstractIt
    <2> QED
      BY <2>1 DEF Abstract!ListNext
  <1>5. CASE Begin \/ Increment \/ Decrement
    <2>1. /\ contents' = contents /\ list.size = Len(contents)
          /\ list.size \in 0 .. Npos
      BY <1>0, <1>5, ListAssumption
         DEF Begin, Increment, Decrement, IterVars, IInv, Stored, Linked, IsList
    <2>2. CASE Begin
      <3>1. Abstract!IterBegin
        BY <1>0, <1>1, <2>1, <2>2, IteratorMoves
           DEF Abstract!IterBegin, Abstract!FirstFrom, AbstractIt
      <3> QED
        BY <3>1 DEF Abstract!ListNext
    <2>3. CASE Increment
      <3>1. Abstract!IterNext
        BY <1>0, <1>1, <2>1, <2>3, IteratorMoves
           DEF Abstract!IterNext, Abstract!FirstFrom, AbstractIt
      <3> QED
        BY <3>1 DEF Abstract!ListNext
    <2>4. CASE Decrement
      <3>1. Abstract!IterPrev
        BY <1>0, <1>1, <2>1, <2>4, IteratorMoves
           DEF Abstract!IterPrev, AbstractIt
      <3> QED
        BY <3>1 DEF Abstract!ListNext
    <2> QED
      BY <1>5, <2>2, <2>3, <2>4
  <1>6. CASE UNCHANGED vars
    BY <1>2, <1>6 DEF vars
  <1>7. CASE Building \/ Destroying
    BY <1>2, <1>3, <1>7 DEF Building, Destroying
  <1>8. Next \/ UNCHANGED vars
    OBVIOUS
  <1> QED
    BY <1>4, <1>5, <1>6, <1>7, <1>8, ClientSees

(* The list is a sequence that is appended to, with an iterator over it:   *)
(* each step of each of the calls is one of the abstract ones or changes   *)
(* nothing a client sees (push_back, _growto, begin, operator++, --).      *)
THEOREM ListRefinesSequence ==
  ASSUME WithinWidth, MovableClients, Tidy, SureFooted
  PROVE  Spec => ImplementsList
  <1>1. Init => Abstract!ListInit
    <2> SUFFICES ASSUME Init PROVE Abstract!ListInit
      OBVIOUS
    <2>1. IInv /\ None # Npos
      BY InitLemma, ListAssumption
    <2>2. Walked = contents /\ contents \in Seq(Values)
      BY <2>1, WalkedContents DEF IInv, Control
    <2> QED
      BY <2>1, <2>2 DEF Abstract!ListInit, AbstractIt, Init
  <1>2. StrongInv /\ [Next]_vars => [Abstract!ListNext]_<<Walked, AbstractIt>>
    BY AbstractStep
  <1> QED
    BY <1>1, <1>2, StrongInductive, PTL
       DEF Spec, ImplementsList, Abstract!ListSafety, Abstract!SpecVars

=============================================================================
