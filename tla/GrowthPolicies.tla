---------------------------- MODULE GrowthPolicies ----------------------------
(***************************************************************************)
(* The growth policies of storage/growth.hpp: what the capacity curr       *)
(* becomes where atLeast is wanted.  growth_chunks is left out: it calls   *)
(* next_size of its policy with an argument too few, and does not compile. *)
(***************************************************************************)
EXTENDS Naturals

CONSTANTS
  ElmSize,     \* bytes in an element
  Threshold    \* bytes up to which growth_default doubles: 1024

ASSUME GrowthAssumption == ElmSize \in Nat \ {0} /\ Threshold \in Nat

Larger(m, n) == IF m > n THEN m ELSE n

(* What the forms with a watermark, and growth_watermark, make of the next *)
(* size of another policy.                                                 *)
Watermark(curr, next) == Larger(curr, next)

Least(curr, atLeast) == atLeast
LeastWm(curr, atLeast) == Watermark(curr, Least(curr, atLeast))

Two(curr, atLeast) == Larger(2 * curr, atLeast)
TwoWm(curr, atLeast) == Watermark(curr, Two(curr, atLeast))

(* 1.618 times the capacity, without the fraction.                         *)
Phi(curr, atLeast) ==
  IF atLeast <= curr THEN curr ELSE Larger(Larger((1618 * curr) \div 1000, 1), atLeast)
PhiWm(curr, atLeast) == Watermark(curr, Phi(curr, atLeast))

(* growth_composed: the next size of one policy for little memory, that of *)
(* another for much.                                                       *)
Composed(small, large, atLeast) ==
  IF atLeast * ElmSize <= Threshold THEN small ELSE large

Default(curr, atLeast) ==
  Composed(TwoWm(curr, atLeast), PhiWm(curr, atLeast), atLeast)

Policies == {"least", "least_wm", "two", "two_wm", "phi", "phi_wm", "default"}

(* next_size() of the policy named p.                                      *)
NextSize(p, curr, atLeast) ==
  CASE p = "least"    -> Least(curr, atLeast)
    [] p = "least_wm" -> LeastWm(curr, atLeast)
    [] p = "two"      -> Two(curr, atLeast)
    [] p = "two_wm"   -> TwoWm(curr, atLeast)
    [] p = "phi"      -> Phi(curr, atLeast)
    [] p = "phi_wm"   -> PhiWm(curr, atLeast)
    [] p = "default"  -> Default(curr, atLeast)

=============================================================================
