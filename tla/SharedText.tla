------------------------------ MODULE SharedText ------------------------------
(***************************************************************************)
(* What the log string promises to those who read it: it only ever grows   *)
(* at its end, and while someone holds its reader it does not change, but  *)
(* for being cleared through that reader.                                  *)
(***************************************************************************)
EXTENDS Integers, Sequences

CONSTANTS
  Readers,
  None

VARIABLES
  text,
  reader   \* who holds the reader, or None

Init == text = <<>> /\ reader = None

Grow ==
  /\ reader = None /\ UNCHANGED reader
  /\ Len(text) <= Len(text') /\ SubSeq(text', 1, Len(text)) = text

Open(r) == reader = None /\ reader' = r /\ UNCHANGED text
Clear == reader # None /\ text' = <<>> /\ UNCHANGED reader
Close == reader # None /\ reader' = None /\ UNCHANGED text

Next == Grow \/ Clear \/ Close \/ \E r \in Readers : Open(r)

Spec == Init /\ [][Next]_<<text, reader>>

=============================================================================
