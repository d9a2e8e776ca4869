---------------------------- MODULE TerminalRelay ----------------------------
(***************************************************************************)
(* The program lab1a/lab1a.c: it puts the terminal into raw mode, echoes   *)
(* what the user types and, with --shell, passes it on to a shell and      *)
(* shows what the shell prints.  A step is one system call.                *)
(***************************************************************************)
EXTENDS ShellChild, SequencesExt

CONSTANTS
  Inputs,     \* what the user may type in all: sequences of Typeable
  BufSize     \* the size of the buffers, 256 in the code

\* A character for any that means nothing, the key Enter, ^C and ^D.
Typeable == {"x", "CR", "INT", "EOT"}

ASSUME BufAssumption == BufSize \in Nat \ {0} /\ Inputs \subseteq Seq(Typeable)

\* On the screen, what the shell prints is told apart from the echo.
ASSUME SymbolsAssumption == Symbols \cap {"x", "CR", "LF", "CRLF"} = {}

VARIABLES
  shellFlag,  \* --shell
  typed,      \* what the user has typed
  nread,      \* how much of it the program has read
  screen,     \* what the program has written to the terminal
  modes,      \* the terminal modes, "raw" or "initial"
  pc,         \* what the program does next
  revents,    \* what poll reported
  buf, i,     \* stdinBuf or shellBuf, and the loop variable of writeThat
  code        \* the exit status

terminal == <<typed, screen, modes>>
program == <<shellFlag, nread, pc, revents, buf, i, code>>
vars == <<shellVars, terminal, program>>

NoEvents == [stdin |-> FALSE, shell |-> FALSE, hup |-> FALSE]

\* The terminal is in raw mode and the shell is forked.
Init ==
  /\ ShellInit
  /\ shellFlag \in BOOLEAN
  /\ typed = <<>> /\ nread = 0 /\ screen = <<>> /\ modes = "raw"
  /\ pc = IF shellFlag THEN "poll" ELSE "read"
  /\ revents = NoEvents /\ buf = <<>> /\ i = 1 /\ code = 0

-----------------------------------------------------------------------------
(* The user.                                                               *)

Type ==
  /\ modes = "raw"
  /\ \E s \in Inputs : /\ IsPrefix(typed, s) /\ Len(typed) < Len(s)
                       /\ typed' = Append(typed, s[Len(typed) + 1])
  /\ UNCHANGED <<shellVars, screen, modes, program>>

Unread == SubSeq(typed, nread + 1, Len(typed))

-----------------------------------------------------------------------------
(* The main loops.                                                         *)

\* poll with timeout 0; the loop goes on at once when nothing is ready.
Poll ==
  /\ pc = "poll"
  /\ revents' = [stdin |-> Unread # <<>>, shell |-> fromChild # <<>>, hup |-> ~Running]
  /\ pc' = IF revents' = NoEvents THEN "poll" ELSE "stdin"
  /\ UNCHANGED <<shellVars, terminal, shellFlag, nread, buf, i, code>>

\* read(STDIN_FILENO) blocks until something is typed.
ReadStdin ==
  /\ Unread # <<>>
  /\ \/ pc = "read"
     \/ pc = "stdin" /\ revents.stdin
  /\ buf' = Chunk(Unread, BufSize) /\ nread' = nread + Len(buf')
  /\ i' = 1 /\ pc' = "echo"
  /\ UNCHANGED <<shellVars, terminal, shellFlag, revents, code>>

\* A faulty read that takes the last place of the buffer for a NUL character.
ReadShellForNul ==
  /\ pc = "shell" /\ revents.shell
  /\ buf' = Chunk(fromChild, BufSize - 1) /\ TakeOutput(BufSize)
  /\ i' = 1 /\ pc' = "display"
  /\ UNCHANGED <<terminal, shellFlag, nread, revents, code>>

ReadShell ==
  /\ pc = "shell" /\ revents.shell
  /\ buf' = Chunk(fromChild, BufSize) /\ TakeOutput(BufSize)
  /\ i' = 1 /\ pc' = "display"
  /\ UNCHANGED <<terminal, shellFlag, nread, revents, code>>

\* The conditions on revents that do not hold.
NotReady ==
  /\ \/ pc = "stdin" /\ ~revents.stdin /\ pc' = "shell"
     \/ pc = "shell" /\ ~revents.shell /\ pc' = "hup"
     \/ pc = "hup" /\ ~revents.hup /\ pc' = "poll"
  /\ UNCHANGED <<shellVars, terminal, shellFlag, nread, revents, buf, i, code>>

\* exit, or the return from main.
Exit(c) == pc' = "reset" /\ code' = c /\ UNCHANGED <<shellFlag, nread, revents, buf, i>>

\* A faulty treatment of POLLHUP that does not leave the loop.
HangupGoesOn ==
  /\ pc = "hup" /\ revents.hup
  /\ CloseToChild /\ pc' = "poll"
  /\ UNCHANGED <<terminal, shellFlag, nread, revents, buf, i, code>>

\* POLLHUP: the loop is left, whatever is still in the pipe.
Hangup ==
  /\ pc = "hup" /\ revents.hup
  /\ CloseToChild /\ Exit(0) /\ UNCHANGED terminal

-----------------------------------------------------------------------------
(* writeThat, in its three uses: "echo" is writeThat(STDOUT_FILENO) and    *)
(* "forward" writeThat(toChild[1]) of what was typed, "display" is         *)
(* writeThat(STDOUT_FILENO) of what the shell printed.                     *)

Writing(c) == pc \in {"echo", "forward", "display"} /\ i <= Len(buf) /\ buf[i] = c

Onward == i' = i + 1 /\ UNCHANGED <<shellFlag, nread, pc, revents, buf, code>>

\* A faulty writeThat that takes no notice of ^D.
EndOfTransmissionIgnored ==
  /\ Writing("EOT")
  /\ UNCHANGED shellVars /\ Onward
  /\ UNCHANGED terminal

EndOfTransmission ==
  /\ Writing("EOT")
  /\ IF shellFlag THEN CloseToChild /\ Onward
                  ELSE Exit(0) /\ UNCHANGED shellVars
  /\ UNCHANGED terminal

\* Without a shell ^C is dropped.
InterruptKey ==
  /\ Writing("INT")
  /\ IF shellFlag THEN Interrupt ELSE UNCHANGED shellVars
  /\ Onward /\ UNCHANGED terminal

Plain == i <= Len(buf) /\ buf[i] \notin {"EOT", "INT"}

\* A carriage return or line feed appears as both on the terminal, and goes to
\* the shell as a line feed.
Shown(c) == IF c \in {"CR", "LF"} THEN "CRLF" ELSE c
Passed(c) == IF c \in {"CR", "LF"} THEN "LF" ELSE c

WriteScreen ==
  /\ pc \in {"echo", "display"} /\ Plain
  /\ screen' = Append(screen, Shown(buf[i]))
  /\ Onward /\ UNCHANGED <<shellVars, typed, modes>>

\* The same program without its handler of SIGPIPE: write fails with EPIPE.
WriteShellNoHandler ==
  /\ pc = "forward" /\ Plain
  /\ \/ WritePipe(Passed(buf[i])) /\ Onward
     \/ (PipeBad \/ PipeBroken) /\ Exit(1) /\ UNCHANGED shellVars
  /\ UNCHANGED terminal

WriteShell ==
  /\ pc = "forward" /\ Plain
  /\ \/ WritePipe(Passed(buf[i])) /\ Onward
     \/ PipeBad /\ Exit(1) /\ UNCHANGED shellVars     \* errorMe
     \/ PipeBroken /\ Exit(0) /\ UNCHANGED shellVars  \* sighandler of SIGPIPE
  /\ UNCHANGED terminal

\* writeThat returns.
Written ==
  /\ pc \in {"echo", "forward", "display"} /\ i > Len(buf)
  /\ pc' = CASE pc = "echo" /\ shellFlag  -> "forward"
             [] pc = "echo" /\ ~shellFlag -> "read"
             [] pc = "forward"            -> "shell"
             [] pc = "display"            -> "hup"
  /\ i' = 1
  /\ UNCHANGED <<shellVars, terminal, shellFlag, nread, revents, buf, code>>

-----------------------------------------------------------------------------
(* resetSettings, at exit.                                                 *)

\* A faulty resetSettings that does not wait for the shell.
ResetNoWait ==
  /\ pc = "reset"
  /\ modes' = "initial" /\ pc' = "ended"
  /\ UNCHANGED <<shellVars, typed, screen, shellFlag, nread, revents, buf, i, code>>

Reset ==
  /\ pc = "reset"
  /\ modes' = "initial"
  /\ pc' = IF shellFlag THEN "wait" ELSE "ended"
  /\ UNCHANGED <<shellVars, typed, screen, shellFlag, nread, revents, buf, i, code>>

Wait ==
  /\ pc = "wait" /\ Reap
  /\ pc' = "ended"
  /\ UNCHANGED <<terminal, shellFlag, nread, revents, buf, i, code>>

ProgramStep ==
  \/ Poll \/ ReadStdin \/ ReadShell \/ NotReady \/ Hangup
  \/ EndOfTransmission \/ InterruptKey \/ WriteScreen \/ WriteShell \/ Written
  \/ Reset \/ Wait

Forked(step) == shellFlag /\ step /\ UNCHANGED <<terminal, program>>

\* The shell waits for room in its pipe, which nobody reads: the program waits for
\* room in the other pipe, or for the shell.
ShellBlocked == Running /\ owed > 0 /\ Len(fromChild) = PipeSize
PipesFull == pc = "forward" /\ Plain /\ Len(toChild) = PipeSize /\ ShellBlocked
NobodyReads == pc = "wait" /\ ShellBlocked

\* The program has ended, or waits for the user, or the shell and it wait for each
\* other.
AtRest ==
  /\ \/ pc = "ended"
     \/ pc = "read" /\ Unread = <<>>
     \/ PipesFull \/ NobodyReads
  /\ UNCHANGED vars

Next == Type \/ ProgramStep \/ Forked(ShellStep) \/ AtRest

\* The program runs; bash reads, prints and notices the end of its input, but
\* need not exit before; the user need not type.
Fairness ==
  /\ WF_vars(ProgramStep)
  /\ WF_vars(Forked(ShellReads))
  /\ WF_vars(Forked(ShellWrites))
  /\ WF_vars(Forked(ShellAtEOF))

Spec == Init /\ [][Next]_vars /\ Fairness

-----------------------------------------------------------------------------
(* Properties                                                              *)

TypeOK ==
  /\ toChild \in Seq({"x", "LF"}) /\ Len(toChild) <= PipeSize
  /\ fromChild \in Seq(Symbols) /\ Len(fromChild) <= PipeSize
  /\ toChildOpen \in BOOLEAN /\ sigint \in BOOLEAN /\ shellFlag \in BOOLEAN
  /\ shell \in {"running", "dead", "reaped"}
  /\ owed \in 0 .. MaxOutput /\ produced \in Seq(Symbols)
  /\ taken \in Seq({"x", "LF"})
  /\ typed \in Seq(Typeable) /\ nread \in 0 .. Len(typed)
  /\ modes \in {"raw", "initial"}
  /\ pc \in {"read", "poll", "stdin", "echo", "forward", "shell", "display",
             "hup", "reset", "wait", "ended"}
  /\ Len(buf) <= BufSize /\ i \in 1 .. BufSize + 1
  /\ code \in {0, 1}

\* What was typed before the first ^D, as the shell should see it.
PassedOn(s) == [n \in DOMAIN s |-> Passed(s[n])]
Plaintext(s) == Kept(s, Typeable \ {"EOT", "INT"})

Offered == PassedOn(Plaintext(BeforeEOT(typed)))

\* What has been passed to the shell is a prefix of what the user typed before
\* ^D: nothing twice, nothing out of order although each buffer is processed
\* twice, and nothing that was typed after ^D.
InputInOrder == IsPrefix(taken \o toChild, Offered)

\* The symbols of the shell on the screen are told apart from the echo.
Printed(s) == Kept(s, Symbols \ {"EOT", "INT"})
OnScreen == Printed(screen)
InBuffer == IF pc = "display" THEN SubSeq(buf, i, Len(buf)) ELSE <<>>

\* Everything the shell printed is on the screen, in the buffer or in the pipe,
\* in this order: what is lost at the end of the program is what the pipe still
\* holds, and nothing in between.
OutputAccounted ==
  Printed(produced) = OnScreen \o Printed(InBuffer \o fromChild)

\* On every way out of the program the terminal modes are restored and the
\* shell is reaped; before, the terminal is raw.
LeavesNothingBehind ==
  /\ pc = "ended" => modes = "initial" /\ (shellFlag => shell = "reaped")
  /\ shell = "reaped" => pc = "ended"
  /\ modes = "raw" <=> pc \notin {"wait", "ended"}

EOTRead == \E n \in 1 .. nread : typed[n] = "EOT"
EOTShown == \E n \in DOMAIN produced : produced[n] = "EOT"

\* Writing to the shell is an error only when a ^D came first, typed or printed
\* by the shell; that the shell is gone is no error.
FailsOnlyAfterEOT == code = 1 => EOTRead \/ EOTShown

\* When the shell is dead the program ends, whatever is in its buffers and in
\* the pipes.
HangupEnds == shell = "dead" ~> pc = "ended"

\* When the user types ^D the program ends, with and without a shell, unless it and
\* the shell wait for each other for ever.
EOTEnds ==
  (\E n \in DOMAIN typed : typed[n] = "EOT") ~>
    pc = "ended" \/ []PipesFull \/ []NobodyReads

-----------------------------------------------------------------------------
(* What lab1a's README and comments say and the code does not do.          *)

\* "extends program to pass input/output between the terminal and a shell":
\* all the shell printed is on the screen when the program succeeds.
OutputPassed == pc = "ended" /\ code = 0 => OnScreen = Printed(produced)

\* The same of the input: when its input is closed the running shell has been
\* passed all that was typed before ^D.
InputPassed == ~toChildOpen /\ Running => taken \o toChild = Offered
=============================================================================
