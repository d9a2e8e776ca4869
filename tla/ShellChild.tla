----------------------------- MODULE ShellChild -----------------------------
(***************************************************************************)
(* The shell that lab1a.c and lab1b-server.c fork, between its two pipes:  *)
(* toChild carries what the user types to it, fromChild what it prints.    *)
(* The shell is bash: it is modelled from how the two programs use it.  It *)
(* reads a character at a time; a line makes it run a command, which       *)
(* prints; it may exit between commands, and does at the end of its input. *)
(***************************************************************************)
EXTENDS Integers, Sequences, FiniteSetsExt

CONSTANTS
  PipeSize,    \* how much a pipe holds
  Symbols,     \* what the shell prints
  MaxOutput    \* bound: how much it prints in all

ASSUME PipeAssumption == PipeSize \in Nat \ {0} /\ MaxOutput \in Nat

VARIABLES
  toChild,     \* what is in the pipe to the shell
  toChildOpen, \* the write end toChild[1] is open
  fromChild,   \* what is in the pipe from the shell
  shell,       \* "running", "dead" (a zombie) or "reaped"
  sigint,      \* a SIGINT was sent to it
  taken,       \* what it has read
  owed,        \* how much its current command has still to print
  produced     \* what it has printed

shellVars == <<toChild, toChildOpen, fromChild, shell, sigint, taken, owed, produced>>

ShellInit ==
  /\ toChild = <<>> /\ toChildOpen = TRUE /\ fromChild = <<>>
  /\ shell = "running" /\ sigint = FALSE
  /\ taken = <<>> /\ owed = 0 /\ produced = <<>>

Running == shell = "running"

ShellReads ==
  /\ Running /\ owed = 0 /\ toChild # <<>>
  /\ taken' = Append(taken, Head(toChild))
  /\ toChild' = Tail(toChild)
  /\ IF Head(toChild) = "LF"
       THEN owed' \in 0 .. MaxOutput - Len(produced)
       ELSE UNCHANGED owed
  /\ UNCHANGED <<toChildOpen, fromChild, shell, sigint, produced>>

\* A write blocks while the pipe is full.
ShellWrites ==
  /\ Running /\ owed > 0 /\ Len(fromChild) < PipeSize
  /\ \E s \in Symbols : /\ fromChild' = Append(fromChild, s)
                        /\ produced' = Append(produced, s)
  /\ owed' = owed - 1
  /\ UNCHANGED <<toChild, toChildOpen, shell, sigint, taken>>

Dies == shell' = "dead" /\
        UNCHANGED <<toChild, toChildOpen, fromChild, sigint, taken, owed, produced>>

\* read returns 0: the pipe is empty and its write end closed.
ShellAtEOF == Running /\ owed = 0 /\ toChild = <<>> /\ ~toChildOpen /\ Dies

\* The command was exit, or the SIGINT killed it; bash may survive a SIGINT.
ShellExits == Running /\ (owed = 0 \/ sigint) /\ Dies

ShellStep == ShellReads \/ ShellWrites \/ ShellAtEOF \/ ShellExits

-----------------------------------------------------------------------------
(* What the programs do with the pipes and the shell.                      *)

\* write(toChild[1], c): it fails with EBADF on the closed end, raises SIGPIPE
\* when the shell is gone, and blocks while the pipe is full.
PipeBad == ~toChildOpen
PipeBroken == toChildOpen /\ ~Running

WritePipe(c) ==
  /\ toChildOpen /\ Running /\ Len(toChild) < PipeSize
  /\ toChild' = Append(toChild, c)
  /\ UNCHANGED <<toChildOpen, fromChild, shell, sigint, taken, owed, produced>>

\* close(toChild[1]); closing it again fails and is ignored.
CloseToChild ==
  /\ toChildOpen' = FALSE
  /\ UNCHANGED <<toChild, fromChild, shell, sigint, taken, owed, produced>>

\* kill(pid, SIGINT) of a shell that has not been waited for.
Interrupt ==
  /\ sigint' = (sigint \/ Running)
  /\ UNCHANGED <<toChild, toChildOpen, fromChild, shell, taken, owed, produced>>

\* read(fromChild[0]) takes what is there, n characters at most.
Chunk(s, n) == SubSeq(s, 1, IF Len(s) < n THEN Len(s) ELSE n)
Rest(s, n) == SubSeq(s, Len(Chunk(s, n)) + 1, Len(s))

TakeOutput(n) ==
  /\ fromChild' = Rest(fromChild, n)
  /\ UNCHANGED <<toChild, toChildOpen, shell, sigint, taken, owed, produced>>

\* waitpid(pid) returns when the shell is dead.
Reap ==
  /\ shell = "dead" /\ shell' = "reaped"
  /\ UNCHANGED <<toChild, toChildOpen, fromChild, sigint, taken, owed, produced>>
-----------------------------------------------------------------------------
(* What should come through: for the properties of the two programs.       *)

\* What comes before the first ^D of a sequence.
BeforeEOT(s) ==
  LET E == { n \in DOMAIN s : s[n] = "EOT" }
  IN  SubSeq(s, 1, IF E = {} THEN Len(s) ELSE Min(E) - 1)

\* The elements of a sequence that are in S, in their order; KeptUpTo gives
\* those of each of its prefixes.
KeptUpTo(s, S) ==
  LET kept[n \in 0 .. Len(s)] ==
        IF n = 0 THEN <<>>
        ELSE IF s[n] \in S THEN Append(kept[n - 1], s[n]) ELSE kept[n - 1]
  IN  kept
Kept(s, S) == KeptUpTo(s, S)[Len(s)]
=============================================================================
