------------------------------- MODULE MCCopy -------------------------------
(***************************************************************************)
(* Copy for TLC: every command line of up to three options, on a file of   *)
(* two bytes.                                                              *)
(***************************************************************************)
EXTENDS Copy

Opt(name, file) == [name |-> name, file |-> file]

Options ==
  {Opt("input", f) : f \in {"in", "out", "directory", "missing"}}
    \cup {Opt("output", f) : f \in {"in", "out", "directory", "locked"}}
    \cup {Opt(name, "") : name \in {"segfault", "catch", "invalid"}}

ShortCommands == UNION {[1 .. n -> Options] : n \in 0 .. 3}
TwoBytes == <<"a", "b">>
=============================================================================
