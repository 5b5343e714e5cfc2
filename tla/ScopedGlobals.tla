---------------------------- MODULE ScopedGlobals ----------------------------
(***************************************************************************)
(* What the RAII classes that bind a global to a scope promise: globals    *)
(* that may be set at any time, and scopes that nest.  A scope sets one of *)
(* the globals when it is entered; when it is left, in whatever way and    *)
(* whatever was set meanwhile, that global is what the scope found.        *)
(***************************************************************************)
EXTENDS Naturals, Sequences

CONSTANT Settings   \* for each global, what it may be

VARIABLES
  value,   \* the globals
  found    \* for each scope that is open, its global and what that was before

Globals == DOMAIN Settings

Init ==
  /\ DOMAIN value = Globals /\ \A g \in Globals : value[g] \in Settings[g]
  /\ found = <<>>

Set(g, v) == value' = [value EXCEPT ![g] = v] /\ UNCHANGED found

Enter(g, v) ==
  /\ value' = [value EXCEPT ![g] = v]
  /\ found' = Append(found, [global |-> g, was |-> value[g]])

Leave ==
  LET s == found[Len(found)]
  IN /\ found # <<>>
     /\ value' = [value EXCEPT ![s.global] = s.was]
     /\ found' = SubSeq(found, 1, Len(found) - 1)

Next == Leave \/ \E g \in Globals : \E v \in Settings[g] : Set(g, v) \/ Enter(g, v)

Spec == Init /\ [][Next]_<<value, found>>

=============================================================================
