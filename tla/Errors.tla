------------------------------- MODULE Errors -------------------------------
(***************************************************************************)
(* The error settings of error.hpp and what an error does under them.      *)
(* ON_ERROR_DEBUGBREAK needs a debugger, and ON_ERROR_THROW a class        *)
(* Exception that the code does not have: neither is modelled.             *)
(***************************************************************************)

ErrorFlags == {"log", "callback", "abort"}

(* A callback is the client's function: it may throw.                      *)
Callbacks == {"none", "returns", "throws"}

ErrorSettings == [flags : SUBSET ErrorFlags, callback : Callbacks]

DefaultErrors == [flags |-> ErrorFlags, callback |-> "none"]

Throws(e) == "callback" \in e.flags /\ e.callback = "throws"

(* How handle_error ends: it calls the callback before it aborts, and if   *)
(* it does neither, the caller goes on.                                    *)
Outcome(e) ==
  CASE Throws(e) -> "throw"
    [] ~Throws(e) /\ "abort" \in e.flags -> "abort"
    [] OTHER -> "return"

(* What the three constructors of ScopedErrorSettings set: the callback,   *)
(* the flags, or both.                                                     *)
ScopedSettings(e, new) ==
  {[e EXCEPT !.callback = new.callback], [e EXCEPT !.flags = new.flags], new}

=============================================================================
