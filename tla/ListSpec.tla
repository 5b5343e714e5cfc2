------------------------------ MODULE ListSpec ------------------------------
(***************************************************************************)
(* What list.hpp promises a client: a sequence that is appended to, and an *)
(* iterator that moves along it from the first element to end() and is not *)
(* disturbed by appending or reserving.                                    *)
(***************************************************************************)
EXTENDS Naturals, Sequences

CONSTANTS
  Values,  \* the elements
  End,     \* the iterator end(); like None, it is not a position
  None     \* no iterator

VARIABLES seq, cur

SpecVars == <<seq, cur>>

ListInit == seq \in Seq(Values) /\ cur = None

PushBack == \E v \in Values : seq' = Append(seq, v) /\ UNCHANGED cur

ClearList == seq' = <<>> /\ cur' = None

(* The iterator is abandoned: the list is destroyed.                       *)
Leave == cur' = None /\ UNCHANGED seq

FirstFrom(k) == IF k < Len(seq) THEN k ELSE End

IterBegin == cur' = FirstFrom(0) /\ UNCHANGED seq

IterNext == cur \in Nat /\ cur' = FirstFrom(cur + 1) /\ UNCHANGED seq

IterPrev == cur \in Nat \ {0} /\ cur' = cur - 1 /\ UNCHANGED seq

ListNext == PushBack \/ ClearList \/ Leave \/ IterBegin \/ IterNext \/ IterPrev

ListSafety == ListInit /\ [][ListNext]_SpecVars

=============================================================================
