--------------------------- MODULE MCTerminalRelay ---------------------------
(***************************************************************************)
(* TerminalRelay for TLC: everything of up to three characters that a user *)
(* may type, and a line whose output fills its pipe while more is typed.   *)
(* The other inputs are those of the two disagreements.                    *)
(***************************************************************************)
EXTENDS TerminalRelay

ThreeCharacters == UNION { [1 .. n -> Typeable] : n \in 0 .. 3 }
ShortInputs == ThreeCharacters \cup {<<"CR", "x", "x", "x", "EOT">>}

EnterKey == {<<"CR">>}
CharacterAndEOT == {<<"x", "EOT">>}
=============================================================================
