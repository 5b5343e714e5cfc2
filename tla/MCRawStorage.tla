---------------------------- MODULE MCRawStorage ----------------------------
(***************************************************************************)
(* Instances of RawStorage for TLC.                                        *)
(***************************************************************************)
EXTENDS RawStorage, TLC

(* Between them, the kinds take every branch of the policies.              *)
MCPolicy ==
  [k \in Kinds |-> CASE k = "small" -> "phi"
                     [] k = "small_soa" -> "least_wm"
                     [] k \notin {"small", "small_soa"} -> "default"]

Symmetry == Permutations(Values)

=============================================================================
