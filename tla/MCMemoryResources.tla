------------------------- MODULE MCMemoryResources -------------------------
(***************************************************************************)
(* Instances of MemoryResources for TLC.                                   *)
(***************************************************************************)
EXTENDS MemoryResources, TLC

(* A callback that throws, under the default flags.                        *)
MCErrorChoices == {[DefaultErrors EXCEPT !.callback = "throws"]}

Symmetry == Permutations(Containers)

=============================================================================
