---------------------------------- MODULE MCLog ----------------------------------
(***************************************************************************)
(* Instances of Log for TLC.                                               *)
(***************************************************************************)
EXTENDS Log

(* The terminal and the string are not written to in the same mode: what   *)
(* goes to one does not depend on the other.                               *)
MCModes == {{"str"}, {"timestamp", "term"}}

(* The default settings, and a callback that throws.                       *)
MCErrorChoices == {DefaultErrors, [DefaultErrors EXCEPT !.callback = "throws"]}

MCPrefixOf == {<<n, n>> : n \in Names}
MCLevels == {Info}
MCChannelLevels == {Err, Info}

=============================================================================
