---------------------------- MODULE MCStringStream ----------------------------
(***************************************************************************)
(* An instance of StringStream for TLC, and the functions of Substrings on *)
(* every text that the client's string comes to hold.                      *)
(***************************************************************************)
EXTENDS StringStream, Substrings

MCPieces == {<<"1", "/">>, <<" ">>}
MCBlocks == 1..3

(* next_split(), num_splits() and the iterators of split() agree with each *)
(* other and with the text (string.hpp:1814-1961).                         *)
SplitsJoin == ~open => SplitsJoinOf(line, Slash)

(* popr(), popl(), gpopr(), gpopl(), dirname(), basename() and the trims   *)
(* take a text apart without losing any of it (string.hpp:2000-2256).      *)
PopsAgree == ~open => PopsAgreeOf(line, Slash)

=============================================================================
