---------------------------- MODULE MCIndexList ----------------------------
(* Instances of IndexList for TLC, and its refinement of ListSpec.         *)
EXTENDS IndexList

CONSTANT End

(* The sequence of elements along the used chain.  While the elements move *)
(* the first ones are in the new buffer.                                   *)
Walked ==
  LET trail == Trail(list, list.next, list.head, list.size)
  IN IF pc = "idle" THEN [k \in 1 .. list.size |-> list.elm[trail[k]]]
     ELSE contents

AbstractIt == IF it = Npos THEN End ELSE IF it = None THEN None ELSE itpos

Abstract == INSTANCE ListSpec WITH seq <- Walked, cur <- AbstractIt

(* The list behaves as an appended sequence with a stable iterator.        *)
ImplementsList == Abstract!ListSafety

=============================================================================
