---------------------------- MODULE MCRemoteShell ----------------------------
(***************************************************************************)
(* RemoteShell for TLC: everything of up to two characters that a user may *)
(* type, and a line whose output fills pipes and connection while more is  *)
(* typed.                                                                  *)
(***************************************************************************)
EXTENDS RemoteShell

TwoCharacters == UNION { [1 .. n -> Typeable] : n \in 0 .. 2 }
ShortInputs == TwoCharacters \cup {<<"CR", "x", "x", "EOT">>}
=============================================================================
