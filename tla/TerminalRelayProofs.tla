------------------------ MODULE TerminalRelayProofs ------------------------
(***************************************************************************)
(* Proofs about TerminalRelay, for every size of the buffers and pipes and *)
(* every amount of input and output: type correctness, the way the program *)
(* ends, and what a failed write to the shell means.                       *)
(***************************************************************************)
EXTENDS TerminalRelay, ShellChildProofs

-----------------------------------------------------------------------------
(* The inductive invariant.                                                *)

Occurs(c, s) == \E n \in DOMAIN s : s[n] = c

\* A buffer that is being processed holds what was read from its source; the pipe
\* from the shell holds what the shell printed.
BufferFrom ==
  /\ buf \in Seq(Typeable \cup Symbols)
  /\ pc \in {"echo", "forward"} =>
       /\ buf \in Seq(Typeable)
       /\ \A k \in DOMAIN buf : \E n \in 1 .. nread : typed[n] = buf[k]
  /\ pc = "display" => \A k \in DOMAIN buf : Occurs(buf[k], produced)
  /\ \A k \in DOMAIN fromChild : Occurs(fromChild[k], produced)

\* The pipe to the shell is closed only by a ^D or when the loop is left.
ClosedByEOT ==
  /\ ~toChildOpen => EOTRead \/ EOTShown \/ pc \in {"reset", "wait", "ended"}
  /\ code = 1 => EOTRead \/ EOTShown

IInv == TypeOK /\ LeavesNothingBehind /\ BufferFrom /\ ClosedByEOT

\* The bounds are numbers, and the buffer and the pipes have room.
LEMMA Sizes ==
  /\ PipeSize \in Nat /\ MaxOutput \in Nat /\ BufSize \in Nat
  /\ BufSize > 0 /\ PipeSize > 0
BY PipeAssumption, BufAssumption

\* What holds when the relay starts.
LEMMA Initially ==
  ASSUME Init PROVE IInv
<1>1. <<>> \in Seq({"x", "LF"}) /\ <<>> \in Seq(Symbols) /\ <<>> \in Seq(Typeable)
      /\ <<>> \in Seq(Typeable \cup Symbols) /\ Len(<<>>) = 0 /\ DOMAIN <<>> = {}
  BY EmptySeq
<1>2. TypeOK
  <2>1. 0 <= PipeSize /\ 0 \in 0 .. MaxOutput /\ 0 <= BufSize /\ 1 \in 1 .. BufSize + 1
    BY Sizes
  <2>2. 0 \in 0 .. Len(typed)
    BY <1>1 DEF Init
  <2> QED BY <1>1, <2>1, <2>2 DEF Init, ShellInit, TypeOK
<1>3. LeavesNothingBehind
  BY DEF Init, ShellInit, LeavesNothingBehind
<1>4. BufferFrom
  BY <1>1 DEF Init, ShellInit, BufferFrom
<1>5. ClosedByEOT
  BY DEF Init, ShellInit, ClosedByEOT
<1> QED BY <1>2, <1>3, <1>4, <1>5 DEF IInv

-----------------------------------------------------------------------------
(* The user and the shell.                                                 *)

\* What the user types is one of the characters of the model.
LEMMA TypesOne ==
  ASSUME TypeOK, Type PROVE \E c \in Typeable : typed' = Append(typed, c)
<1>1. PICK s \in Inputs : Len(typed) < Len(s) /\ typed' = Append(typed, s[Len(typed) + 1])
  BY DEF Type
<1>2. /\ s \in Seq(Typeable) /\ Len(s) \in Nat /\ Len(typed) \in Nat
      /\ DOMAIN s = 1 .. Len(s)
  BY BufAssumption, LenProperties DEF TypeOK
<1>3. Len(typed) + 1 \in 1 .. Len(s)
  BY <1>1, <1>2
<1>4. s[Len(typed) + 1] \in Typeable
  BY <1>2, <1>3, ElementOfSeq
<1> QED BY <1>1, <1>4

\* The user types a character.
LEMMA TypeStep ==
  ASSUME IInv, Type PROVE IInv'
<1> USE DEF IInv
<1>1. PICK c \in Typeable : typed' = Append(typed, c)
  BY TypesOne DEF IInv
<1>2. /\ modes = "raw" /\ UNCHANGED <<shellVars, screen, modes, program>>
  BY DEF Type
<1>3. /\ Append(typed, c) \in Seq(Typeable) /\ Len(Append(typed, c)) = Len(typed) + 1
      /\ \A n \in 1 .. Len(typed) : Append(typed, c)[n] = typed[n]
  BY AppendProperties DEF TypeOK
<1>4. nread \in Nat /\ nread <= Len(typed) /\ Len(typed) \in Nat
  BY LenProperties DEF TypeOK
<1>5. nread \in 0 .. Len(typed')
  BY <1>1, <1>3, <1>4
<1>6. \A n \in 1 .. nread : typed'[n] = typed[n]
  BY <1>1, <1>3, <1>4
<1>7. TypeOK'
  BY <1>1, <1>2, <1>3, <1>5 DEF TypeOK, shellVars, program
<1>8. LeavesNothingBehind' /\ BufferFrom'
  BY <1>2, <1>6 DEF LeavesNothingBehind, BufferFrom, Occurs, shellVars, program
<1>9. ClosedByEOT'
  BY <1>2, <1>6 DEF ClosedByEOT, EOTRead, EOTShown, shellVars, program
<1> QED BY <1>7, <1>8, <1>9

\* The shell appends to what it printed, and takes nothing out of its pipe.
LEMMA ShellStepKeeps ==
  ASSUME IInv, Forked(ShellStep) PROVE IInv'
<1> USE DEF IInv
<1>1. /\ UNCHANGED <<terminal, program, toChildOpen>> /\ shell = "running"
      /\ shell' \in {"running", "dead"}
  BY DEF Forked, ShellStep, ShellReads, ShellWrites, ShellAtEOF, ShellExits, Dies, Running
<1>2. /\ toChild' \in Seq({"x", "LF"}) /\ taken' \in Seq({"x", "LF"})
      /\ Len(toChild') <= PipeSize /\ owed' \in 0 .. MaxOutput /\ sigint' \in BOOLEAN
  <2>1. CASE ShellReads
    <3>1. /\ toChild \in Seq({"x", "LF"}) /\ toChild # <<>> /\ taken \in Seq({"x", "LF"})
          /\ Len(toChild) <= PipeSize /\ Len(toChild) \in Nat
      BY <2>1, LenProperties DEF ShellReads, TypeOK
    <3>2. /\ Head(toChild) \in {"x", "LF"} /\ Tail(toChild) \in Seq({"x", "LF"})
          /\ Len(Tail(toChild)) = Len(toChild) - 1
      BY <3>1, HeadTailProperties
    <3>3. Append(taken, Head(toChild)) \in Seq({"x", "LF"})
      BY <3>1, <3>2, AppendProperties
    <3>4. Len(Tail(toChild)) <= PipeSize
      BY <3>1, <3>2, Sizes
    <3>5. owed' \in 0 .. MaxOutput
      <4>1. Len(produced) \in Nat /\ owed \in 0 .. MaxOutput
        BY LenProperties DEF TypeOK
      <4>2. 0 .. MaxOutput - Len(produced) \subseteq 0 .. MaxOutput
        BY <4>1, Sizes
      <4> QED BY <2>1, <4>1, <4>2 DEF ShellReads
    <3> QED BY <2>1, <3>2, <3>3, <3>4, <3>5 DEF ShellReads, TypeOK
  <2>2. CASE ShellWrites
    <3>1. owed - 1 \in 0 .. MaxOutput
      BY <2>2, Sizes DEF ShellWrites, TypeOK
    <3> QED BY <2>2, <3>1 DEF ShellWrites, TypeOK
  <2>3. CASE ShellAtEOF \/ ShellExits
    BY <2>3 DEF ShellAtEOF, ShellExits, Dies, TypeOK
  <2> QED BY <2>1, <2>2, <2>3 DEF Forked, ShellStep
<1>3. /\ produced' \in Seq(Symbols) /\ fromChild' \in Seq(Symbols)
      /\ Len(fromChild') <= PipeSize
      /\ \A c : Occurs(c, produced) => Occurs(c, produced')
      /\ \A k \in DOMAIN fromChild' : Occurs(fromChild'[k], produced')
  <2>0. /\ produced \in Seq(Symbols) /\ fromChild \in Seq(Symbols)
        /\ Len(fromChild) \in Nat /\ Len(fromChild) <= PipeSize
        /\ DOMAIN fromChild = 1 .. Len(fromChild) /\ DOMAIN produced = 1 .. Len(produced)
        /\ Len(produced) \in Nat
    BY LenProperties DEF TypeOK
  <2>1. CASE ShellWrites
    <3>1. PICK c \in Symbols : /\ fromChild' = Append(fromChild, c)
                               /\ produced' = Append(produced, c)
      BY <2>1 DEF ShellWrites
    <3>2. /\ Append(produced, c) \in Seq(Symbols)
          /\ Len(Append(produced, c)) = Len(produced) + 1
          /\ \A n \in 1 .. Len(produced) : Append(produced, c)[n] = produced[n]
          /\ Append(produced, c)[Len(produced) + 1] = c
      BY <2>0, AppendProperties
    <3>3. /\ Append(fromChild, c) \in Seq(Symbols)
          /\ Len(Append(fromChild, c)) = Len(fromChild) + 1
          /\ \A n \in 1 .. Len(fromChild) : Append(fromChild, c)[n] = fromChild[n]
          /\ Append(fromChild, c)[Len(fromChild) + 1] = c
      BY <2>0, AppendProperties
    <3>4. DOMAIN Append(produced, c) = 1 .. Len(produced) + 1
          /\ DOMAIN Append(fromChild, c) = 1 .. Len(fromChild) + 1
      BY <3>2, <3>3, LenProperties
    <3>5. Len(fromChild) + 1 <= PipeSize
      BY <2>0, <2>1, Sizes DEF ShellWrites
    <3>6. \A d : Occurs(d, produced) => Occurs(d, Append(produced, c))
      BY <2>0, <3>2, <3>4 DEF Occurs
    <3>7. Occurs(c, Append(produced, c))
      BY <2>0, <3>2, <3>4 DEF Occurs
    <3>8. ASSUME NEW k \in 1 .. Len(fromChild) + 1
          PROVE  Occurs(Append(fromChild, c)[k], Append(produced, c))
      <4>1. CASE k = Len(fromChild) + 1
        BY <3>3, <3>7, <4>1
      <4>2. CASE k \in 1 .. Len(fromChild)
        BY <2>0, <3>3, <3>6, <4>2 DEF BufferFrom
      <4> QED BY <2>0, <4>1, <4>2
    <3> QED BY <3>1, <3>2, <3>3, <3>4, <3>5, <3>6, <3>8
  <2>2. CASE ~ShellWrites
    <3>1. UNCHANGED <<produced, fromChild>>
      BY <2>2 DEF Forked, ShellStep, ShellReads, ShellAtEOF, ShellExits, Dies
    <3> QED BY <2>0, <3>1 DEF BufferFrom
  <2> QED BY <2>1, <2>2
<1>4. TypeOK'
  BY <1>1, <1>2, <1>3 DEF TypeOK, terminal, program
<1>5. LeavesNothingBehind'
  BY <1>1 DEF LeavesNothingBehind, terminal, program
<1>6. BufferFrom'
  BY <1>1, <1>3 DEF BufferFrom, terminal, program
<1>7. ClosedByEOT'
  <2>1. EOTShown => EOTShown'
    BY <1>3 DEF EOTShown, Occurs
  <2>2. EOTRead => EOTRead'
    BY <1>1 DEF EOTRead, terminal, program
  <2> QED BY <1>1, <2>1, <2>2 DEF ClosedByEOT, program
<1> QED BY <1>4, <1>5, <1>6, <1>7

-----------------------------------------------------------------------------
(* The program.                                                            *)

\* poll and the conditions after it.
LEMMA PollStep ==
  ASSUME IInv, Poll \/ NotReady PROVE IInv'
<1> USE DEF IInv
<1>1. /\ UNCHANGED <<shellVars, terminal, shellFlag, nread, buf, i, code>>
      /\ pc \in {"poll", "stdin", "shell", "hup"} /\ pc' \in {"poll", "stdin", "shell", "hup"}
  BY DEF Poll, NotReady
<1>2. TypeOK'
  BY <1>1 DEF TypeOK, shellVars, terminal
<1>3. LeavesNothingBehind' /\ BufferFrom'
  BY <1>1 DEF LeavesNothingBehind, BufferFrom, Occurs, shellVars, terminal
<1>4. ClosedByEOT'
  BY <1>1 DEF ClosedByEOT, EOTRead, EOTShown, shellVars, terminal
<1> QED BY <1>2, <1>3, <1>4

\* A buffer of what was typed.
LEMMA ReadStdinStep ==
  ASSUME IInv, ReadStdin PROVE IInv'
<1> USE DEF IInv
<1> DEFINE new == Chunk(Unread, BufSize)
<1>1. /\ buf' = new /\ nread' = nread + Len(new) /\ i' = 1 /\ pc' = "echo"
      /\ pc \in {"read", "stdin"}
      /\ UNCHANGED <<shellVars, terminal, shellFlag, revents, code>>
  BY DEF ReadStdin
<1>2. /\ typed \in Seq(Typeable) /\ Len(typed) \in Nat /\ nread \in Nat /\ nread <= Len(typed)
      /\ DOMAIN typed = 1 .. Len(typed)
  BY LenProperties DEF TypeOK
<1>3. /\ Unread \in Seq(Typeable) /\ Len(Unread) = Len(typed) - nread
      /\ DOMAIN Unread = 1 .. Len(typed) - nread
      /\ \A k \in 1 .. Len(typed) - nread : Unread[k] = typed[nread + k]
  BY <1>2, SuffixIs DEF Unread
<1>4. /\ new \in Seq(Typeable) /\ Len(new) <= BufSize /\ Len(new) <= Len(typed) - nread
      /\ Len(new) \in Nat /\ DOMAIN new = 1 .. Len(new)
      /\ \A k \in DOMAIN new : new[k] = Unread[k] /\ k \in DOMAIN Unread
  <2> HIDE DEF new
  <2>1. /\ new \in Seq(Typeable) /\ Len(new) <= BufSize /\ Len(new) <= Len(Unread)
        /\ \A k \in DOMAIN new : new[k] = Unread[k] /\ k \in DOMAIN Unread
    BY <1>3, Sizes, ChunkAndRest DEF new
  <2> QED BY <1>3, <2>1, LenProperties
<1> HIDE DEF new
<1>5. \A k \in DOMAIN new : nread + k \in 1 .. nread + Len(new) /\ typed[nread + k] = new[k]
  BY <1>2, <1>3, <1>4
<1>6. nread + Len(new) \in 0 .. Len(typed)
  BY <1>2, <1>4
<1>7. new \in Seq(Typeable \cup Symbols)
  <2>1. new \in [1 .. Len(new) -> Typeable]
    BY <1>4, LenProperties
  <2>2. new \in [1 .. Len(new) -> Typeable \cup Symbols]
    BY <2>1
  <2> QED BY <1>4, <2>2, SeqDef
<1>8. TypeOK'
  <2>1. 1 \in 1 .. BufSize + 1
    BY Sizes
  <2>2. nread' \in 0 .. Len(typed') /\ i' \in 1 .. BufSize + 1 /\ Len(buf') <= BufSize
    BY <1>1, <1>4, <1>6, <2>1 DEF terminal
  <2> QED BY <1>1, <2>2 DEF TypeOK, shellVars, terminal
<1>9. LeavesNothingBehind'
  BY <1>1 DEF LeavesNothingBehind, shellVars, terminal
<1>10. BufferFrom'
  BY <1>1, <1>4, <1>5, <1>7 DEF BufferFrom, Occurs, shellVars, terminal
<1>11. ClosedByEOT'
  <2>1. \A n \in 1 .. nread : n \in 1 .. nread + Len(new)
    BY <1>2, <1>4
  <2>2. EOTRead => EOTRead'
    BY <1>1, <2>1 DEF EOTRead, terminal
  <2> QED BY <1>1, <2>2 DEF ClosedByEOT, EOTShown, shellVars
<1> QED BY <1>8, <1>9, <1>10, <1>11

\* A buffer of what the shell printed.
LEMMA ReadShellStep ==
  ASSUME IInv, ReadShell PROVE IInv'
<1> USE DEF IInv
<1> DEFINE new == Chunk(fromChild, BufSize)
           rest == Rest(fromChild, BufSize)
<1>1. /\ buf' = new /\ fromChild' = rest /\ i' = 1 /\ pc = "shell" /\ pc' = "display"
      /\ UNCHANGED <<toChild, toChildOpen, shell, sigint, taken, owed, produced,
                     terminal, shellFlag, nread, revents, code>>
  BY DEF ReadShell, TakeOutput
<1>2. /\ new \in Seq(Symbols) /\ rest \in Seq(Symbols)
      /\ Len(new) <= BufSize /\ Len(rest) = Len(fromChild) - Len(new)
      /\ \A k \in DOMAIN new : \E m \in DOMAIN fromChild : new[k] = fromChild[m]
      /\ \A k \in DOMAIN rest : \E m \in DOMAIN fromChild : rest[k] = fromChild[m]
  <2>1. fromChild \in Seq(Symbols) /\ BufSize \in Nat
    BY Sizes DEF TypeOK
  <2> QED BY <2>1, ChunkAndRest
<1> HIDE DEF new, rest
<1>3. new \in Seq(Typeable \cup Symbols)
  <2>1. new \in [1 .. Len(new) -> Symbols] /\ Len(new) \in Nat
    BY <1>2, LenProperties
  <2>2. new \in [1 .. Len(new) -> Typeable \cup Symbols]
    BY <2>1
  <2> QED BY <2>1, <2>2, SeqDef
<1>4. TypeOK'
  <2>1. 1 \in 1 .. BufSize + 1
    BY Sizes
  <2>2. Len(rest) <= PipeSize
    <3>1. Len(fromChild) \in Nat /\ Len(new) \in Nat /\ Len(fromChild) <= PipeSize
      BY <1>2, LenProperties DEF TypeOK
    <3> QED BY <1>2, <3>1, Sizes
  <2> QED BY <1>1, <1>2, <2>1, <2>2 DEF TypeOK, terminal
<1>5. LeavesNothingBehind'
  BY <1>1 DEF LeavesNothingBehind, terminal
<1>6. BufferFrom'
  BY <1>1, <1>2, <1>3 DEF BufferFrom, Occurs, terminal
<1>7. ClosedByEOT'
  BY <1>1 DEF ClosedByEOT, EOTRead, EOTShown, terminal
<1> QED BY <1>4, <1>5, <1>6, <1>7

\* A character of the buffer comes from where the buffer was read.
LEMMA CharacterFrom ==
  ASSUME IInv, pc \in {"echo", "forward", "display"}, i <= Len(buf)
  PROVE  /\ i \in DOMAIN buf /\ i + 1 \in 1 .. BufSize + 1
         /\ pc \in {"echo", "forward"} => /\ buf[i] \in Typeable
                                          /\ \E n \in 1 .. nread : typed[n] = buf[i]
         /\ pc = "display" => Occurs(buf[i], produced)
<1>1. /\ i \in 1 .. BufSize + 1 /\ Len(buf) \in Nat /\ Len(buf) <= BufSize
      /\ DOMAIN buf = 1 .. Len(buf)
  BY LenProperties DEF IInv, TypeOK, BufferFrom
<1>2. i \in DOMAIN buf /\ i + 1 \in 1 .. BufSize + 1
  BY <1>1, Sizes
<1>3. pc \in {"echo", "forward"} => buf[i] \in Typeable
  BY <1>1, <1>2, ElementOfSeq DEF IInv, BufferFrom
<1> QED BY <1>2, <1>3 DEF IInv, BufferFrom

\* writeThat meets ^D or ^C, or writes to the terminal.
LEMMA WriteThatStep ==
  ASSUME IInv, EndOfTransmission \/ InterruptKey \/ WriteScreen
  PROVE  IInv'
<1> USE DEF IInv
<1>1. /\ pc \in {"echo", "forward", "display"} /\ i <= Len(buf)
      /\ UNCHANGED <<toChild, fromChild, shell, taken, owed, produced, typed, modes,
                     shellFlag, nread, revents, buf>>
      /\ \/ i' = i + 1 /\ UNCHANGED <<pc, code>>
         \/ pc' = "reset" /\ code' = 0 /\ UNCHANGED i
      /\ sigint' \in BOOLEAN /\ toChildOpen' \in BOOLEAN
  BY DEF EndOfTransmission, InterruptKey, WriteScreen, Writing, Plain, Onward, Exit,
         CloseToChild, Interrupt, Running, TypeOK, shellVars, terminal
<1>2. /\ i \in DOMAIN buf /\ i + 1 \in 1 .. BufSize + 1
      /\ pc \in {"echo", "forward"} => \E n \in 1 .. nread : typed[n] = buf[i]
      /\ pc = "display" => Occurs(buf[i], produced)
  BY <1>1, CharacterFrom
<1>3. TypeOK'
  <2>1. i' \in 1 .. BufSize + 1 /\ code' \in {0, 1}
    BY <1>1, <1>2 DEF TypeOK
  <2>2. pc' \in {"echo", "forward", "display", "reset"}
    BY <1>1
  <2> QED BY <1>1, <2>1, <2>2 DEF TypeOK
<1>4. LeavesNothingBehind' /\ BufferFrom'
  BY <1>1 DEF LeavesNothingBehind, BufferFrom, Occurs
<1>5. ClosedByEOT'
  <2>1. CASE EndOfTransmission
    <3>1. EOTRead \/ EOTShown
      BY <1>1, <1>2, <2>1 DEF EndOfTransmission, Writing, EOTRead, EOTShown, Occurs
    <3>2. EOTRead' \/ EOTShown'
      BY <1>1, <3>1 DEF EOTRead, EOTShown
    <3> QED BY <3>2 DEF ClosedByEOT
  <2>2. CASE InterruptKey \/ WriteScreen
    <3>1. UNCHANGED <<toChildOpen, pc, code>>
      BY <2>2 DEF InterruptKey, WriteScreen, Interrupt, Onward, shellVars
    <3> QED BY <1>1, <3>1 DEF ClosedByEOT, EOTRead, EOTShown
  <2> QED BY <2>1, <2>2
<1> QED BY <1>3, <1>4, <1>5

\* A character goes to the shell, or the write fails.
LEMMA WriteShellStep ==
  ASSUME IInv, WriteShell
  PROVE  IInv'
<1> USE DEF IInv
<1>1. /\ pc = "forward" /\ i <= Len(buf) /\ buf[i] \notin {"EOT", "INT"}
      /\ UNCHANGED <<terminal, toChildOpen, fromChild, shell, sigint, taken, owed, produced,
                     shellFlag, nread, revents, buf>>
  BY DEF WriteShell, Plain, Onward, Exit, WritePipe, shellVars
<1>2. i + 1 \in 1 .. BufSize + 1 /\ buf[i] \in Typeable
  BY <1>1, CharacterFrom
<1>3. CASE WritePipe(Passed(buf[i])) /\ Onward
  <2>1. /\ toChild' = Append(toChild, Passed(buf[i])) /\ Len(toChild) < PipeSize
        /\ i' = i + 1 /\ UNCHANGED <<pc, code>>
    BY <1>3 DEF WritePipe, Onward
  <2>2. Passed(buf[i]) \in {"x", "LF"}
    BY <1>1, <1>2 DEF Passed, Typeable
  <2>3. /\ Append(toChild, Passed(buf[i])) \in Seq({"x", "LF"})
        /\ Len(Append(toChild, Passed(buf[i]))) = Len(toChild) + 1
        /\ Len(toChild) \in Nat
    BY <2>2, AppendProperties, LenProperties DEF TypeOK
  <2>4. Len(toChild) + 1 <= PipeSize
    BY <2>1, <2>3, Sizes
  <2>5. TypeOK'
    BY <1>1, <1>2, <2>1, <2>3, <2>4 DEF TypeOK, terminal
  <2>6. LeavesNothingBehind' /\ BufferFrom' /\ ClosedByEOT'
    BY <1>1, <2>1 DEF LeavesNothingBehind, BufferFrom, Occurs, ClosedByEOT, EOTRead,
                      EOTShown, terminal
  <2> QED BY <2>5, <2>6
<1>4. CASE ((PipeBad /\ Exit(1)) \/ (PipeBroken /\ Exit(0))) /\ UNCHANGED shellVars
  <2>1. /\ pc' = "reset" /\ code' \in {0, 1} /\ (code' = 1 => ~toChildOpen)
        /\ UNCHANGED <<i, toChild>>
    BY <1>4 DEF Exit, PipeBad, shellVars
  <2>2. TypeOK'
    BY <1>1, <2>1 DEF TypeOK, terminal
  <2>3. LeavesNothingBehind' /\ BufferFrom'
    BY <1>1, <2>1 DEF LeavesNothingBehind, BufferFrom, Occurs, terminal
  <2>4. ClosedByEOT'
    BY <1>1, <2>1 DEF ClosedByEOT, EOTRead, EOTShown, terminal
  <2> QED BY <2>2, <2>3, <2>4
<1> QED BY <1>3, <1>4 DEF WriteShell

\* The buffer is done, the loop is left, or the program ends.
LEMMA ControlStep ==
  ASSUME IInv, Written \/ Hangup \/ Reset \/ Wait
  PROVE  IInv'
<1> USE DEF IInv
<1>1. /\ UNCHANGED <<toChild, fromChild, sigint, taken, owed, produced, typed, screen,
                     shellFlag, nread, revents, buf>>
      /\ toChildOpen' \in BOOLEAN
  BY DEF Written, Hangup, Reset, Wait, Reap, CloseToChild, Exit, TypeOK, shellVars, terminal
<1>2. /\ i' \in 1 .. BufSize + 1 /\ code' \in {0, 1}
      /\ shell' \in {"running", "dead", "reaped"} /\ modes' \in {"raw", "initial"}
      /\ pc' \in {"forward", "read", "shell", "hup", "reset", "wait", "ended"}
      /\ pc' = "forward" => pc = "echo"
  <2>1. 1 \in 1 .. BufSize + 1
    BY Sizes
  <2> QED BY <2>1 DEF Written, Hangup, Reset, Wait, Reap, CloseToChild, Exit, TypeOK,
                      shellVars, terminal
<1>3. TypeOK'
  BY <1>1, <1>2 DEF TypeOK
<1>4. BufferFrom'
  BY <1>1, <1>2 DEF BufferFrom, Occurs
<1>5. LeavesNothingBehind'
  BY DEF Written, Hangup, Reset, Wait, Reap, CloseToChild, Exit, TypeOK, shellVars, terminal,
         LeavesNothingBehind
<1>6. ClosedByEOT'
  <2>1. (EOTRead' <=> EOTRead) /\ (EOTShown' <=> EOTShown)
    BY <1>1 DEF EOTRead, EOTShown
  <2> QED BY <2>1 DEF Written, Hangup, Reset, Wait, Reap, CloseToChild, Exit, shellVars,
                      ClosedByEOT
<1> QED BY <1>3, <1>4, <1>5, <1>6

-----------------------------------------------------------------------------
(* The theorems.                                                           *)

\* The invariant is inductive.
THEOREM Inductive == Spec => []IInv
<1>1. Init => IInv
  BY Initially
<1>2. IInv /\ [Next]_vars => IInv'
  <2> SUFFICES ASSUME IInv, [Next]_vars PROVE IInv'
    OBVIOUS
  <2>1. CASE UNCHANGED vars
    BY <2>1 DEF IInv, TypeOK, LeavesNothingBehind, BufferFrom, Occurs, ClosedByEOT, EOTRead,
                EOTShown, vars, shellVars, terminal, program
  <2>2. CASE Next /\ ~UNCHANGED vars
    BY <2>2, TypeStep, ShellStepKeeps, PollStep, ReadStdinStep, ReadShellStep, WriteThatStep,
       WriteShellStep, ControlStep DEF Next, ProgramStep, AtRest
  <2> QED BY <2>1, <2>2
<1> QED BY <1>1, <1>2, PTL DEF Spec

\* Type correctness: no buffer or pipe is filled past its size.
THEOREM TypeCorrect == Spec => []TypeOK
<1>1. IInv => TypeOK
  BY DEF IInv
<1> QED BY <1>1, Inductive, PTL

\* However the program ends, the terminal is restored and the shell waited for.
THEOREM Restored == Spec => []LeavesNothingBehind
<1>1. IInv => LeavesNothingBehind
  BY DEF IInv
<1> QED BY <1>1, Inductive, PTL

\* A failed write to the shell always comes after a ^D.
THEOREM ErrorMeansEOT == Spec => []FailsOnlyAfterEOT
<1>1. IInv => FailsOnlyAfterEOT
  BY DEF IInv, ClosedByEOT, FailsOnlyAfterEOT
<1> QED BY <1>1, Inductive, PTL
-----------------------------------------------------------------------------
(* What the user types reaches the shell in order.                         *)

Word == taken \o toChild
Passable == Typeable \ {"EOT", "INT"}
Over == {"reset", "wait", "ended"}

\* What of the first n characters typed the shell should get.
Due(n) == PassedOn(KeptUpTo(typed, Passable)[n])

\* How many of the characters read the program has dealt with.
Dealt == CASE pc = "echo" -> nread - Len(buf)
           [] pc = "forward" -> nread - Len(buf) + i - 1
           [] OTHER -> nread

\* The buffer is the last of what was read.
AsTyped == pc \in {"echo", "forward"} =>
  /\ Len(buf) <= nread /\ i <= Len(buf) + 1
  /\ \A k \in 1 .. Len(buf) : buf[k] = typed[nread - Len(buf) + k]

\* The shell has got what it should get of the first k characters.
Delivered(k) ==
  /\ \A n \in 1 .. k : typed[n] # "EOT"
  /\ Word = Due(k)
  /\ shellFlag /\ toChildOpen /\ pc \notin Over => k = Dealt

\* What concerns the shell is done only when there is one.
Piped == pc \in {"poll", "stdin", "forward", "shell", "display", "hup"} => shellFlag

InputInv == IInv /\ AsTyped /\ Piped /\ \E k \in 0 .. nread : Delivered(k)

\* The lengths are natural numbers.
LEMMA Lengths ==
  ASSUME IInv
  PROVE  /\ nread \in Nat /\ Len(typed) \in Nat /\ nread <= Len(typed) /\ typed \in Seq(Typeable)
         /\ i \in Nat /\ Len(buf) \in Nat /\ Word \in Seq({"x", "LF"})
<1>1. Word \in Seq({"x", "LF"})
  BY ConcatProperties DEF IInv, TypeOK, Word
<1>2. /\ nread \in 0 .. Len(typed) /\ Len(typed) \in Nat /\ i \in 1 .. BufSize + 1
      /\ Len(buf) \in Nat /\ typed \in Seq(Typeable)
  BY LenProperties DEF IInv, TypeOK, BufferFrom
<1> QED BY <1>1, <1>2, Sizes

\* Each character is passed on as the shell should see it.
LEMMA PassedOnIs ==
  ASSUME NEW A, NEW s \in Seq(A)
  PROVE  /\ PassedOn(s) \in Seq({ Passed(c) : c \in A }) /\ Len(PassedOn(s)) = Len(s)
         /\ \A n \in 1 .. Len(s) : PassedOn(s)[n] = Passed(s[n])
<1> DEFINE p == PassedOn(s)
           P == { Passed(c) : c \in A }
<1>1. DOMAIN s = 1 .. Len(s) /\ Len(s) \in Nat /\ \A n \in 1 .. Len(s) : s[n] \in A
  BY LenProperties, ElementOfSeq
<1>2. p = [n \in 1 .. Len(s) |-> Passed(s[n])]
  BY <1>1 DEF PassedOn
<1>3. p \in [1 .. Len(s) -> P]
  BY <1>1, <1>2
<1>4. p \in Seq(P)
  BY <1>1, <1>3, SeqDef
<1>5. Len(p) \in Nat /\ DOMAIN p = 1 .. Len(p)
  BY <1>4, LenProperties
<1>6. \A a, b \in Nat : 1 .. a = 1 .. b => a = b
  OBVIOUS
<1>7. DOMAIN p = 1 .. Len(s)
  BY <1>2
<1>8. \A n \in 1 .. Len(s) : p[n] = Passed(s[n])
  BY <1>2
<1> HIDE DEF p
<1> QED BY <1>1, <1>4, <1>5, <1>6, <1>7, <1>8 DEF p

\* A character more, passed on, is one more passed on.
LEMMA PassedOnAppend ==
  ASSUME NEW A, NEW s \in Seq(A), NEW c \in A
  PROVE  PassedOn(Append(s, c)) = Append(PassedOn(s), Passed(c))
<1> DEFINE P == { Passed(d) : d \in A }
           t == Append(s, c)
           p == PassedOn(s)
           q == PassedOn(t)
           r == Append(p, Passed(c))
<1>1. /\ t \in Seq(A) /\ Len(t) = Len(s) + 1 /\ t[Len(s) + 1] = c
      /\ \A n \in 1 .. Len(s) : t[n] = s[n]
  BY AppendProperties
<1>2. Len(s) \in Nat /\ Passed(c) \in P
  BY LenProperties
<1>3. p \in Seq(P) /\ Len(p) = Len(s) /\ \A n \in 1 .. Len(s) : p[n] = Passed(s[n])
  BY PassedOnIs
<1>4. q \in Seq(P) /\ Len(q) = Len(t) /\ \A n \in 1 .. Len(t) : q[n] = Passed(t[n])
  <2> HIDE DEF t
  <2> QED BY <1>1, PassedOnIs
<1> HIDE DEF t, p, q, P
<1>5. /\ r \in Seq(P) /\ Len(r) = Len(s) + 1 /\ r[Len(s) + 1] = Passed(c)
      /\ \A n \in 1 .. Len(s) : r[n] = p[n]
  BY <1>2, <1>3, AppendProperties
<1> HIDE DEF r
<1>6. \A n \in 1 .. Len(s) + 1 : q[n] = r[n]
  BY <1>1, <1>2, <1>3, <1>4, <1>5
<1>7. q = r
  BY <1>1, <1>4, <1>5, <1>6, SeqEqual
<1> QED BY <1>7 DEF q, r, p, t

\* A character more that is due.
LEMMA DueNext ==
  ASSUME IInv, NEW n \in 1 .. nread
  PROVE  Due(n) = IF typed[n] \in Passable THEN Append(Due(n - 1), Passed(typed[n]))
                                           ELSE Due(n - 1)
<1> DEFINE f == KeptUpTo(typed, Passable)
<1>1. /\ typed \in Seq(Typeable) /\ n \in 1 .. Len(typed) /\ n - 1 \in 0 .. Len(typed)
  BY Lengths
<1>2. /\ f[n] = IF typed[n] \in Passable THEN Append(f[n - 1], typed[n]) ELSE f[n - 1]
      /\ f[n - 1] \in Seq(Typeable) /\ typed[n] \in Typeable
  BY <1>1, KeptUpToIs, ElementOfSeq
<1> HIDE DEF f
<1>3. PassedOn(Append(f[n - 1], typed[n])) = Append(PassedOn(f[n - 1]), Passed(typed[n]))
  BY <1>2, PassedOnAppend
<1>4. Due(n) = PassedOn(f[n]) /\ Due(n - 1) = PassedOn(f[n - 1])
  BY DEF Due, f
<1> QED BY <1>2, <1>3, <1>4

\* Steps that deliver nothing.
LEMMA NothingDelivered ==
  ASSUME InputInv, UNCHANGED <<typed, shellFlag>>, Word' = Word, nread' \in Nat, nread' >= nread,
         shellFlag /\ toChildOpen' /\ pc' \notin Over =>
           toChildOpen /\ pc \notin Over /\ Dealt' = Dealt
  PROVE  \E k \in 0 .. nread' : Delivered(k)'
<1>1. PICK k \in 0 .. nread : Delivered(k)
  BY DEF InputInv
<1>2. k \in 0 .. nread'
  BY Lengths DEF InputInv
<1>3. Due(k)' = Due(k)
  BY DEF Due, PassedOn
<1>4. Delivered(k)'
  BY <1>1, <1>3 DEF Delivered
<1> QED BY <1>2, <1>4

\* The user types: what is due of the characters read stays.
LEMMA TypeDelivers ==
  ASSUME InputInv, Type  PROVE AsTyped' /\ \E k \in 0 .. nread' : Delivered(k)'
<1>1. PICK c \in Typeable : typed' = Append(typed, c)
  BY TypesOne DEF InputInv, IInv
<1>2. UNCHANGED <<shellVars, program>>
  BY DEF Type
<1>3. /\ typed \in Seq(Typeable) /\ nread \in Nat /\ Len(typed) \in Nat /\ nread <= Len(typed)
      /\ Len(buf) \in Nat
  BY Lengths DEF InputInv
<1>4. /\ typed' \in Seq(Typeable) /\ Len(typed') = Len(typed) + 1
      /\ \A n \in 1 .. Len(typed) : typed'[n] = typed[n]
  BY <1>1, <1>3, AppendProperties
<1>5. \A n \in 1 .. nread : typed'[n] = typed[n]
  BY <1>3, <1>4
<1>6. AsTyped'
  <2>1. \A k \in 1 .. Len(buf) : Len(buf) <= nread => nread - Len(buf) + k \in 1 .. nread
    BY <1>3
  <2> QED BY <1>2, <1>5, <2>1 DEF InputInv, AsTyped, program
<1>7. PICK k \in 0 .. nread : Delivered(k)
  BY DEF InputInv
<1>8. KeptUpTo(typed', Passable)[k] = KeptUpTo(typed, Passable)[k]
  <2>1. nread <= Len(typed') /\ k \in 0 .. nread
    BY <1>3, <1>4
  <2> QED BY <1>3, <1>4, <1>5, <2>1, KeptPrefix
<1>9. Due(k)' = Due(k) /\ Dealt' = Dealt /\ Word' = Word
  BY <1>2, <1>8 DEF Due, PassedOn, Dealt, Word, program, shellVars
<1>10. \A n \in 1 .. k : typed'[n] = typed[n]
  BY <1>3, <1>5
<1>11. Delivered(k)' /\ k \in 0 .. nread'
  BY <1>2, <1>7, <1>9, <1>10 DEF Delivered, program, shellVars
<1> QED BY <1>6, <1>11

\* The program reads what was typed.
LEMMA ReadStdinDelivers ==
  ASSUME InputInv, ReadStdin  PROVE AsTyped' /\ \E k \in 0 .. nread' : Delivered(k)'
<1> DEFINE new == Chunk(Unread, BufSize)
           m == Len(new)
<1>1. /\ buf' = new /\ nread' = nread + m /\ i' = 1 /\ pc' = "echo" /\ pc \in {"read", "stdin"}
      /\ UNCHANGED <<shellVars, typed, shellFlag>>
  BY DEF ReadStdin, terminal
<1>2. /\ typed \in Seq(Typeable) /\ Len(typed) \in Nat /\ nread \in Nat /\ nread <= Len(typed)
  BY Lengths DEF InputInv
<1>3. /\ Unread \in Seq(Typeable) /\ Len(Unread) = Len(typed) - nread
      /\ \A k \in 1 .. Len(typed) - nread : Unread[k] = typed[nread + k]
  BY <1>2, SuffixIs DEF Unread
<1>4. m \in Nat /\ \A k \in 1 .. m : new[k] = typed[nread + k]
  <2>1. /\ new \in Seq(Typeable) /\ m <= Len(Unread)
        /\ \A k \in DOMAIN new : new[k] = Unread[k]
    BY <1>3, Sizes, ChunkAndRest
  <2> HIDE DEF new
  <2>2. m \in Nat /\ DOMAIN new = 1 .. m
    BY <2>1, LenProperties
  <2> QED BY <1>3, <2>1, <2>2
<1> HIDE DEF new
<1>5. Len(buf') = m /\ nread' = nread + m
  BY <1>1
<1> HIDE DEF m
<1>6. nread' - Len(buf') = nread
  BY <1>2, <1>4, <1>5
<1>7. AsTyped'
  <2>1. m <= nread + m /\ 1 <= m + 1
    BY <1>2, <1>4
  <2> QED BY <1>1, <1>4, <1>5, <1>6, <2>1 DEF AsTyped
<1>8. Dealt' = Dealt /\ Word' = Word /\ nread' \in Nat /\ nread' >= nread
  BY <1>1, <1>2, <1>4, <1>5, <1>6 DEF Dealt, Word, shellVars
<1>9. toChildOpen' => toChildOpen /\ pc \notin Over
  BY <1>1 DEF Over, shellVars
<1> QED BY <1>1, <1>7, <1>8, <1>9, NothingDelivered

\* One character of the buffer is dealt with.
LEMMA OnwardDelivers ==
  ASSUME InputInv, pc = "forward", i <= Len(buf), Onward, typed' = typed,
         UNCHANGED toChildOpen, buf[i] # "EOT",
         Word' = IF buf[i] = "INT" THEN Word ELSE Append(Word, Passed(buf[i])),
         buf[i] # "INT" => toChildOpen /\ shellFlag
  PROVE  \E k \in 0 .. nread' : Delivered(k)'
<1>1. PICK k \in 0 .. nread : Delivered(k)
  BY DEF InputInv
<1>2. /\ i' = i + 1 /\ UNCHANGED <<shellFlag, nread, pc, buf>>
  BY DEF Onward
<1>3. /\ nread \in Nat /\ i \in Nat /\ Len(buf) \in Nat /\ Len(buf) <= nread /\ i >= 1
      /\ i <= Len(buf)
  BY Lengths DEF InputInv, AsTyped, IInv, TypeOK
<1>4. Dealt = nread - Len(buf) + i - 1 /\ Dealt' = nread - Len(buf) + (i + 1) - 1
  BY <1>2 DEF Dealt
<1>5. /\ Dealt \in Nat /\ Dealt' = Dealt + 1 /\ Dealt + 1 \in 1 .. nread
      /\ Dealt + 1 = nread - Len(buf) + i
  BY <1>3, <1>4
<1>6. i \in 1 .. Len(buf)
  BY <1>3
<1>7. buf[i] = typed[Dealt + 1] /\ typed[Dealt + 1] \in Typeable
  <2>1. buf[i] = typed[nread - Len(buf) + i]
    BY <1>6 DEF InputInv, AsTyped
  <2>2. Dealt + 1 \in 1 .. Len(typed) /\ typed \in Seq(Typeable)
    BY <1>5, Lengths DEF InputInv
  <2>3. typed[Dealt + 1] \in Typeable
    BY <2>2, ElementOfSeq
  <2> QED BY <1>5, <2>1, <2>3
<1>8. \A n : Due(n)' = Due(n)
  BY DEF Due, PassedOn
<1>9. CASE shellFlag /\ toChildOpen
  <2>1. k = Dealt
    BY <1>1, <1>9 DEF Delivered, Over
  <2>2. Due(Dealt + 1) = IF typed[Dealt + 1] \in Passable
                           THEN Append(Due(Dealt), Passed(typed[Dealt + 1])) ELSE Due(Dealt)
    <3>1. (Dealt + 1) - 1 = Dealt
      BY <1>5
    <3> QED BY <1>5, <3>1, DueNext DEF InputInv
  <2>3. Word' = Due(Dealt + 1)
    BY <1>1, <1>7, <2>1, <2>2 DEF Delivered, Passable
  <2>4. \A n \in 1 .. Dealt + 1 : typed[n] # "EOT"
    <3>1. \A n \in 1 .. Dealt + 1 : n = Dealt + 1 \/ n \in 1 .. Dealt
      BY <1>5
    <3> QED BY <1>1, <1>7, <2>1, <3>1 DEF Delivered
  <2>5. PICK d \in 1 .. nread : d = Dealt + 1
    BY <1>5
  <2>6. Delivered(d)'
    BY <1>5, <1>8, <2>3, <2>4, <2>5 DEF Delivered
  <2>7. d \in 0 .. nread'
    BY <1>2, <1>3
  <2> QED BY <2>6, <2>7
<1>10. CASE ~(shellFlag /\ toChildOpen)
  <2>1. Delivered(k)'
    BY <1>1, <1>2, <1>8, <1>10 DEF Delivered
  <2> QED BY <1>2, <2>1
<1> QED BY <1>9, <1>10

\* writeThat: a ^D ends what is delivered, and only what is forwarded is delivered.
LEMMA WriteThatDelivers ==
  ASSUME InputInv, EndOfTransmission \/ InterruptKey \/ WriteScreen \/ WriteShell
  PROVE  AsTyped' /\ \E k \in 0 .. nread' : Delivered(k)'
<1>1. /\ pc \in {"echo", "forward", "display"} /\ i <= Len(buf)
      /\ UNCHANGED <<typed, shellFlag, nread, buf, taken>>
      /\ (i' = i + 1 /\ pc' = pc) \/ pc' = "reset"
  BY DEF EndOfTransmission, InterruptKey, WriteScreen, WriteShell, Writing, Plain, Onward, Exit,
         WritePipe, CloseToChild, Interrupt, shellVars, terminal
<1>2. nread \in Nat /\ Len(buf) \in Nat /\ i \in Nat /\ nread' \in Nat /\ nread' >= nread
  BY <1>1, Lengths DEF InputInv
<1>3. AsTyped'
  <2>1. i + 1 <= Len(buf) + 1
    BY <1>1, <1>2
  <2> QED BY <1>1, <2>1 DEF InputInv, AsTyped
<1>4. CASE pc' = "reset" /\ UNCHANGED toChild
  BY <1>1, <1>2, <1>3, <1>4, NothingDelivered DEF Over, Word
<1>5. CASE EndOfTransmission /\ pc' # "reset"
  <2>1. toChildOpen' = FALSE /\ UNCHANGED toChild
    BY <1>5 DEF EndOfTransmission, CloseToChild, Exit
  <2> QED BY <1>1, <1>2, <1>3, <2>1, NothingDelivered DEF Word
<1>6. CASE (InterruptKey \/ WriteScreen) /\ pc # "forward"
  <2>1. UNCHANGED <<toChild, toChildOpen>> /\ Onward
    BY <1>6 DEF InterruptKey, WriteScreen, Interrupt, shellVars
  <2>2. Dealt' = Dealt /\ pc' = pc
    BY <1>1, <1>6, <2>1 DEF Dealt, Onward
  <2> QED BY <1>1, <1>2, <1>3, <2>1, <2>2, NothingDelivered DEF Word
<1>7. CASE InterruptKey /\ pc = "forward"
  <2>1. UNCHANGED <<toChild, toChildOpen>> /\ Onward /\ buf[i] = "INT"
    BY <1>7 DEF InterruptKey, Interrupt, Writing, shellVars
  <2>2. Word' = Word
    BY <1>1, <2>1 DEF Word
  <2> QED BY <1>1, <1>3, <1>7, <2>1, <2>2, OnwardDelivers
<1>8. CASE WriteShell /\ pc' # "reset"
  <2>1. WritePipe(Passed(buf[i])) /\ Onward /\ pc = "forward" /\ buf[i] \notin {"EOT", "INT"}
    BY <1>8 DEF WriteShell, Plain, Exit
  <2>2. shellFlag /\ toChildOpen /\ UNCHANGED toChildOpen
        /\ toChild' = Append(toChild, Passed(buf[i]))
    BY <2>1 DEF WritePipe, InputInv, Piped
  <2>3. Word' = Append(Word, Passed(buf[i]))
    <3>1. taken \in Seq({"x", "LF"}) /\ toChild \in Seq({"x", "LF"})
      BY DEF InputInv, IInv, TypeOK
    <3>2. Passed(buf[i]) \in {"x", "LF"}
      <4>1. buf[i] \in Typeable
        BY <1>1, <2>1, CharacterFrom DEF InputInv
      <4> QED BY <2>1, <4>1 DEF Passed, Typeable
    <3>3. taken \o Append(toChild, Passed(buf[i])) = Append(taken \o toChild, Passed(buf[i]))
      BY <3>1, <3>2, WriteAppendsToWord
    <3> QED BY <1>1, <2>2, <3>3 DEF Word
  <2> QED BY <1>1, <1>3, <2>1, <2>2, <2>3, OnwardDelivers
<1>9. pc' = "reset" => UNCHANGED toChild
  BY <1>1 DEF EndOfTransmission, InterruptKey, WriteScreen, WriteShell, Onward, Exit, CloseToChild,
              shellVars
<1>10. WriteScreen => pc # "forward"
  BY DEF WriteScreen
<1> QED BY <1>3, <1>4, <1>5, <1>6, <1>7, <1>8, <1>9, <1>10

\* The rest of the program, and the shell.
LEMMA OthersDeliver ==
  ASSUME InputInv,
         Poll \/ NotReady \/ ReadShell \/ Written \/ Hangup \/ Reset \/ Wait
           \/ Forked(ShellStep) \/ UNCHANGED vars
  PROVE  AsTyped' /\ Piped' /\ \E k \in 0 .. nread' : Delivered(k)'
<1>1. UNCHANGED <<typed, shellFlag, nread>> /\ nread' \in Nat /\ nread' >= nread
  <2>1. UNCHANGED <<typed, shellFlag, nread>>
    BY DEF Poll, NotReady, ReadShell, Written, Hangup, Reset, Wait, Forked, Exit, vars, terminal,
           program
  <2> QED BY <2>1, Lengths DEF InputInv
<1>2. Word' = Word
  <2>1. CASE Forked(ShellReads)
    <3>1. toChild \in Seq({"x", "LF"}) /\ taken \in Seq({"x", "LF"})
      BY DEF InputInv, IInv, TypeOK
    <3>2. toChild # <<>> /\ taken' = Append(taken, Head(toChild)) /\ toChild' = Tail(toChild)
      BY <2>1 DEF Forked, ShellReads
    <3> QED BY <3>1, <3>2, ReadKeepsWord DEF Word
  <2>2. CASE UNCHANGED <<taken, toChild>>
    BY <2>2 DEF Word
  <2> QED BY <2>1, <2>2 DEF Poll, NotReady, ReadShell, TakeOutput, Written, Hangup, CloseToChild,
             Reset, Wait, Reap, Forked, ShellStep, ShellReads, ShellWrites, ShellAtEOF, ShellExits,
             Dies, shellVars, vars
<1>3. CASE Written
  <2>1. /\ i' = 1 /\ i > Len(buf) /\ UNCHANGED <<buf, toChildOpen>>
        /\ \/ pc = "echo" /\ pc' = "forward" /\ shellFlag
           \/ pc = "echo" /\ pc' = "read"
           \/ pc = "forward" /\ pc' = "shell"
           \/ pc = "display" /\ pc' = "hup"
    BY <1>3 DEF Written, shellVars
  <2>2. Len(buf) \in Nat /\ i \in Nat /\ nread \in Nat
    BY Lengths DEF InputInv
  <2>3. shellFlag => Dealt' = Dealt
    <3>1. CASE pc = "echo" /\ pc' = "forward"
      <4>1. Dealt = nread - Len(buf) /\ Dealt' = nread - Len(buf) + 1 - 1
        BY <1>1, <2>1, <3>1 DEF Dealt
      <4> QED BY <2>2, <4>1
    <3>2. CASE pc = "forward"
      <4>1. i = Len(buf) + 1
        BY <2>1, <2>2, <3>2 DEF InputInv, AsTyped
      <4>2. Dealt = nread - Len(buf) + (Len(buf) + 1) - 1 /\ Dealt' = nread
        BY <1>1, <2>1, <3>2, <4>1 DEF Dealt
      <4> QED BY <2>2, <4>2
    <3>3. CASE pc = "display"
      BY <1>1, <2>1, <3>3 DEF Dealt
    <3>4. CASE pc = "echo" /\ ~shellFlag
      BY <3>4
    <3> QED BY <1>3, <2>1, <3>1, <3>2, <3>3, <3>4 DEF Written
  <2>4. AsTyped'
    <3>1. 1 <= Len(buf) + 1
      BY <2>2
    <3> QED BY <1>1, <2>1, <3>1 DEF InputInv, AsTyped
  <2>5. Piped'
    BY <1>1, <2>1 DEF InputInv, Piped
  <2>6. pc \notin Over
    BY <2>1 DEF Over
  <2> QED BY <1>1, <1>2, <2>1, <2>3, <2>4, <2>5, <2>6, NothingDelivered
<1>4. CASE ~Written
  <2>1. /\ pc' \in {"echo", "forward"} => pc' = pc /\ UNCHANGED <<buf, i>>
        /\ (toChildOpen' => toChildOpen)
        /\ pc' \notin Over => \/ toChildOpen' /\ pc \notin Over /\ Dealt' = Dealt
                              \/ ~toChildOpen'
    <3>1. CASE Poll \/ NotReady \/ ReadShell
      BY <1>1, <3>1 DEF Poll, NotReady, ReadShell, TakeOutput, Dealt, Over, shellVars
    <3>2. CASE Hangup \/ Reset \/ Wait
      BY <3>2 DEF Hangup, CloseToChild, Exit, Reset, Wait, Reap, Over, shellVars
    <3>3. CASE Forked(ShellStep) \/ UNCHANGED vars
      BY <3>3 DEF Forked, ShellStep, ShellReads, ShellWrites, ShellAtEOF, ShellExits, Dies, Dealt,
                  program, shellVars, vars
    <3> QED BY <1>4, <3>1, <3>2, <3>3
  <2>2. AsTyped'
    BY <1>1, <2>1 DEF InputInv, AsTyped
  <2>3. Piped'
    BY <1>1 DEF InputInv, Piped, Poll, NotReady, ReadShell, Written, Hangup, Reset, Wait, Forked,
                Exit, vars, program
  <2> QED BY <1>1, <1>2, <2>1, <2>2, <2>3, NothingDelivered
<1> QED BY <1>3, <1>4

\* The invariant on the input is inductive.
LEMMA InputKept ==
  ASSUME InputInv, IInv', [Next]_vars  PROVE InputInv'
<1>1. CASE Type
  BY <1>1, TypeDelivers DEF InputInv, Piped, Type, program
<1>2. CASE ReadStdin
  BY <1>2, ReadStdinDelivers DEF InputInv, Piped, ReadStdin
<1>3. CASE EndOfTransmission \/ InterruptKey \/ WriteScreen \/ WriteShell
  <2>1. pc' = pc \/ pc' = "reset"
    BY <1>3 DEF EndOfTransmission, InterruptKey, WriteScreen, WriteShell, Onward, Exit
  <2>2. UNCHANGED shellFlag
    BY <1>3 DEF EndOfTransmission, InterruptKey, WriteScreen, WriteShell, Onward, Exit
  <2> QED BY <1>3, <2>1, <2>2, WriteThatDelivers DEF InputInv, Piped
<1>4. CASE Poll \/ NotReady \/ ReadShell \/ Written \/ Hangup \/ Reset \/ Wait
             \/ Forked(ShellStep) \/ UNCHANGED vars
  BY <1>4, OthersDeliver DEF InputInv
<1> QED BY <1>1, <1>2, <1>3, <1>4 DEF Next, ProgramStep, AtRest

\* What relates the input to what the shell has got holds in every state.
LEMMA InputInductive == Spec => []InputInv
<1>1. Init => InputInv
  <2> SUFFICES ASSUME Init PROVE InputInv
    OBVIOUS
  <2>1. IInv
    BY Initially
  <2>2. nread = 0 /\ 0 \in 0 .. nread /\ typed = <<>> /\ Word = <<>>
    <3>1. <<>> \o <<>> = <<>>
      BY EmptySeq, ConcatEmptySeq
    <3> QED BY <3>1 DEF Init, ShellInit, Word
  <2>3. Due(0) = <<>>
    <3>1. typed \in Seq(Typeable)
      BY <2>1, Lengths
    <3>2. KeptUpTo(typed, Passable)[0] = <<>>
      BY <3>1, KeptUpToIs
    <3>3. PassedOn(<<>>) = <<>>
      <4>1. <<>> \in Seq(Typeable) /\ Len(<<>>) = 0
        BY EmptySeq
      <4>2. Len(PassedOn(<<>>)) = 0 /\ PassedOn(<<>>) \in Seq({ Passed(c) : c \in Typeable })
        BY <4>1, PassedOnIs
      <4> QED BY <4>2, EmptySeq
    <3> QED BY <3>2, <3>3 DEF Due
  <2>4. AsTyped /\ Piped /\ pc \in {"poll", "read"}
    BY DEF Init, AsTyped, Piped
  <2>5. Delivered(0)
    BY <2>2, <2>3, <2>4 DEF Delivered, Dealt
  <2> QED BY <2>1, <2>2, <2>4, <2>5 DEF InputInv
<1>2. InputInv /\ IInv' /\ [Next]_vars => InputInv'
  BY InputKept
<1> QED BY <1>1, <1>2, Inductive, PTL DEF Spec

\* What the shell has got is a prefix of what was typed before ^D: nothing twice,
\* nothing out of order although writeThat goes through each buffer twice, and
\* nothing that was typed after ^D.
THEOREM InOrder == Spec => []InputInOrder
<1>1. InputInv => InputInOrder
  <2> SUFFICES ASSUME InputInv PROVE InputInOrder
    OBVIOUS
  <2> DEFINE f == KeptUpTo(typed, Passable)
             b == BeforeEOT(typed)
             l == Len(b)
  <2>1. PICK k \in 0 .. nread : Delivered(k)
    BY DEF InputInv
  <2>2. typed \in Seq(Typeable) /\ k \in Nat /\ k <= Len(typed) /\ Len(typed) \in Nat
    BY Lengths DEF InputInv
  <2>3. /\ b \in Seq(Typeable) /\ l \in k .. Len(typed)
        /\ \A n \in 1 .. l : b[n] = typed[n]
    BY <2>1, <2>2, BeforeEOTIs DEF Delivered
  <2> HIDE DEF b
  <2>4. l \in Nat /\ l <= Len(typed) /\ l <= l /\ l \in 0 .. l /\ k \in 0 .. l
        /\ k \in 0 .. Len(typed) /\ l \in 0 .. Len(typed)
    BY <2>2, <2>3
  <2>5. Kept(b, Passable) = f[l]
    BY <2>2, <2>3, <2>4, KeptPrefix DEF Kept
  <2>6. /\ f[k] \in Seq(Typeable) /\ f[l] \in Seq(Typeable) /\ Len(f[k]) <= Len(f[l])
        /\ \A n \in 1 .. Len(f[k]) : f[l][n] = f[k][n]
    <3>1. \A n \in 0 .. Len(typed) : f[n] \in Seq(Typeable)
      BY <2>2, KeptUpToIs
    <3>2. StartsWith(f[l], f[k])
      <4> HIDE DEF l
      <4>1. l \in k .. Len(typed)
        BY <2>3 DEF l
      <4> QED BY <2>2, <2>4, <4>1, KeptGrows
    <3> HIDE DEF f
    <3> QED BY <2>4, <3>1, <3>2 DEF StartsWith
  <2>7. Offered = PassedOn(f[l]) /\ Word = PassedOn(f[k])
    BY <2>1, <2>5 DEF Offered, Plaintext, Passable, Delivered, Due, b
  <2> HIDE DEF f
  <2> DEFINE P == { Passed(c) : c \in Typeable }
  <2>8. /\ Word \in Seq(P) /\ Offered \in Seq(P)
        /\ Len(Word) = Len(f[k]) /\ Len(Offered) = Len(f[l])
        /\ \A n \in 1 .. Len(Word) : Word[n] = Passed(f[k][n])
        /\ \A n \in 1 .. Len(Offered) : Offered[n] = Passed(f[l][n])
    BY <2>6, <2>7, PassedOnIs
  <2>9. Len(Word) \in Nat /\ Len(Offered) \in Nat /\ Len(Word) <= Len(Offered)
    BY <2>6, <2>8, LenProperties
  <2>10. \A n \in 1 .. Len(Word) : n \in 1 .. Len(Offered) /\ Word[n] = Offered[n]
    BY <2>6, <2>8, <2>9
  <2> HIDE DEF P
  <2>11. IsPrefix(Word, Offered)
    BY <2>8, <2>9, <2>10, PrefixIs DEF StartsWith
  <2> QED BY <2>11 DEF InputInOrder, Word
<1> QED BY <1>1, InputInductive, PTL

-----------------------------------------------------------------------------
(* What the shell prints reaches the screen in order.                      *)

Kinds == Symbols \ {"EOT", "INT"}
Pending == InBuffer \o fromChild

\* What is displayed is what the shell printed; the echo is told apart from it.
Displayed ==
  /\ screen \in Seq(Symbols \cup {"x", "CRLF"})
  /\ pc = "display" => buf \in Seq(Symbols) /\ i <= Len(buf) + 1

OutputInv == InputInv /\ Displayed /\ OutputAccounted

\* The rest of the buffer.
LEMMA InBufferIs ==
  ASSUME InputInv, Displayed
  PROVE  /\ InBuffer \in Seq(Symbols) /\ fromChild \in Seq(Symbols) /\ Pending \in Seq(Symbols)
         /\ pc = "display" /\ i > Len(buf) => InBuffer = <<>>
<1>1. fromChild \in Seq(Symbols) /\ <<>> \in Seq(Symbols)
  BY EmptySeq DEF InputInv, IInv, TypeOK
<1>2. ASSUME pc = "display"
      PROVE  InBuffer \in Seq(Symbols) /\ (i > Len(buf) => InBuffer = <<>>)
  <2>1. buf \in Seq(Symbols) /\ i \in Nat /\ i >= 1 /\ i <= Len(buf) + 1 /\ Len(buf) \in Nat
    BY <1>2, Lengths DEF Displayed, InputInv, IInv, TypeOK
  <2>2. PICK n \in Nat : n = i - 1
    BY <2>1
  <2>3. n + 1 = i /\ n <= Len(buf)
    BY <2>1, <2>2
  <2>4. LET r == SubSeq(buf, n + 1, Len(buf)) IN r \in Seq(Symbols) /\ Len(r) = Len(buf) - n
    BY <2>1, <2>3, SuffixIs
  <2>5. InBuffer = SubSeq(buf, n + 1, Len(buf))
    BY <1>2, <2>3 DEF InBuffer
  <2>6. ASSUME i > Len(buf) PROVE InBuffer = <<>>
    <3>1. Len(InBuffer) = 0
      BY <2>1, <2>2, <2>4, <2>5, <2>6
    <3> QED BY <2>4, <2>5, <3>1, EmptySeq
  <2> QED BY <2>4, <2>5, <2>6
<1>3. InBuffer \in Seq(Symbols)
  BY <1>1, <1>2 DEF InBuffer
<1> QED BY <1>1, <1>2, <1>3, ConcatProperties DEF Pending

\* What has come through is a sequence of what the shell prints.
LEMMA PrintedIs ==
  ASSUME InputInv, Displayed
  PROVE  /\ produced \in Seq(Symbols) /\ Printed(produced) \in Seq(Symbols)
         /\ OnScreen \in Seq(Symbols \cup {"x", "CRLF"})
         /\ Printed(Pending) \in Seq(Symbols \cup {"x", "CRLF"})
         /\ \A s \in Seq(Symbols) : s \in Seq(Symbols \cup {"x", "CRLF"})
<1>1. \A s \in Seq(Symbols) : s \in Seq(Symbols \cup {"x", "CRLF"})
  <2> SUFFICES ASSUME NEW s \in Seq(Symbols) PROVE s \in Seq(Symbols \cup {"x", "CRLF"})
    OBVIOUS
  <2>1. s \in [1 .. Len(s) -> Symbols] /\ Len(s) \in Nat
    BY LenProperties
  <2>2. s \in [1 .. Len(s) -> Symbols \cup {"x", "CRLF"}]
    BY <2>1
  <2> QED BY <2>1, <2>2, SeqDef
<1>2. produced \in Seq(Symbols)
  BY DEF InputInv, IInv, TypeOK
<1>3. Printed(produced) \in Seq(Symbols)
  BY <1>2, KeptIsSeq DEF Printed
<1>4. OnScreen \in Seq(Symbols \cup {"x", "CRLF"})
  BY KeptIsSeq DEF OnScreen, Printed, Displayed
<1>5. Printed(Pending) \in Seq(Symbols)
  BY InBufferIs, KeptIsSeq DEF Printed
<1> QED BY <1>1, <1>2, <1>3, <1>4, <1>5

\* Steps that neither print nor show.
LEMMA NothingShown ==
  ASSUME OutputInv, UNCHANGED produced, OnScreen' = OnScreen, Printed(Pending)' = Printed(Pending)
  PROVE  OutputAccounted'
BY DEF OutputInv, OutputAccounted, Pending, Printed

\* The shell prints.
LEMMA PrintAccounted ==
  ASSUME OutputInv, Forked(ShellWrites)  PROVE Displayed' /\ OutputAccounted'
<1>1. UNCHANGED <<terminal, program>>
  BY DEF Forked
<1>2. PICK c \in Symbols : /\ fromChild' = Append(fromChild, c)
                           /\ produced' = Append(produced, c)
  BY DEF Forked, ShellWrites
<1>3. /\ InBuffer' = InBuffer /\ OnScreen' = OnScreen /\ Displayed'
  BY <1>1 DEF InBuffer, OnScreen, Printed, Displayed, OutputInv, terminal, program
<1>4. /\ InBuffer \in Seq(Symbols) /\ fromChild \in Seq(Symbols) /\ Pending \in Seq(Symbols)
      /\ produced \in Seq(Symbols)
  BY InBufferIs, PrintedIs DEF OutputInv
<1>5. InBuffer \o Append(fromChild, c) = Append(Pending, c)
  BY <1>4, WriteAppendsToWord DEF Pending
<1>6. Pending' = Append(Pending, c)
  BY <1>2, <1>3, <1>5 DEF Pending
<1>7. /\ Kept(Append(produced, c), Kinds) =
           IF c \in Kinds THEN Append(Kept(produced, Kinds), c) ELSE Kept(produced, Kinds)
      /\ Kept(Append(Pending, c), Kinds) =
           IF c \in Kinds THEN Append(Kept(Pending, Kinds), c) ELSE Kept(Pending, Kinds)
  BY <1>4, KeptAppend
<1> DEFINE P == Kept(Pending, Kinds)
<1>8. OnScreen \in Seq(Symbols \cup {"x", "CRLF"}) /\ P \in Seq(Symbols \cup {"x", "CRLF"})
  BY PrintedIs DEF OutputInv, Printed, Kinds
<1>9. Kept(produced, Kinds) = OnScreen \o P
  BY DEF OutputInv, OutputAccounted, Printed, Pending, Kinds
<1> HIDE DEF P
<1>10. OnScreen \o Append(P, c) = Append(OnScreen \o P, c)
  BY <1>8, WriteAppendsToWord
<1>11. Kept(produced', Kinds) = OnScreen' \o Kept(Pending', Kinds)
  <2>1. CASE c \in Kinds
    BY <1>2, <1>3, <1>6, <1>7, <1>9, <1>10, <2>1 DEF P
  <2>2. CASE c \notin Kinds
    BY <1>2, <1>3, <1>6, <1>7, <1>9, <2>2 DEF P
  <2> QED BY <2>1, <2>2
<1> QED BY <1>3, <1>11 DEF OutputAccounted, Printed, Pending, Kinds

\* A buffer of what the shell printed.
LEMMA ReadShellAccounted ==
  ASSUME OutputInv, ReadShell  PROVE Displayed' /\ OutputAccounted'
<1> DEFINE new == Chunk(fromChild, BufSize)
           rest == Rest(fromChild, BufSize)
<1>1. /\ buf' = new /\ fromChild' = rest /\ i' = 1 /\ pc = "shell" /\ pc' = "display"
      /\ UNCHANGED <<produced, screen>>
  BY DEF ReadShell, TakeOutput, terminal
<1>2. fromChild \in Seq(Symbols) /\ BufSize \in Nat
  BY Sizes DEF OutputInv, InputInv, IInv, TypeOK
<1>3. new \in Seq(Symbols) /\ rest \in Seq(Symbols) /\ new \o rest = fromChild
  BY <1>2, ChunkAndRest, ChunkThenRest
<1> HIDE DEF new, rest
<1>4. Len(new) \in Nat /\ 1 <= Len(new) + 1
  BY <1>3, LenProperties
<1>5. Displayed'
  BY <1>1, <1>3, <1>4 DEF Displayed, OutputInv
<1>6. SubSeq(new, 1, Len(new)) = new
  BY <1>3, WholeIs
<1>7. InBuffer = <<>> /\ InBuffer' = new
  BY <1>1, <1>6 DEF InBuffer
<1>8. Pending' = Pending
  <2>1. <<>> \o fromChild = fromChild
    BY <1>2, ConcatEmptySeq
  <2> QED BY <1>1, <1>3, <1>7, <2>1 DEF Pending
<1>9. OnScreen' = OnScreen /\ Printed(Pending)' = Printed(Pending)
  BY <1>1, <1>8 DEF OnScreen, Printed
<1> QED BY <1>1, <1>5, <1>9, NothingShown

\* writeThat of what the shell printed: a ^D or ^C is left out, the rest is shown.
LEMMA DisplayAccounted ==
  ASSUME OutputInv, pc = "display", EndOfTransmission \/ InterruptKey \/ WriteScreen
  PROVE  Displayed' /\ OutputAccounted'
<1> DEFINE b == buf[i]
<1>1. /\ shellFlag /\ Onward /\ i <= Len(buf) /\ UNCHANGED <<produced, fromChild>>
      /\ \/ b \in {"EOT", "INT"} /\ UNCHANGED screen
         \/ b \notin {"EOT", "INT"} /\ screen' = Append(screen, Shown(b))
  BY DEF OutputInv, InputInv, Piped, EndOfTransmission, InterruptKey, WriteScreen, Writing, Plain,
         CloseToChild, Interrupt, shellVars, terminal
<1>2. /\ buf \in Seq(Symbols) /\ i \in Nat /\ i >= 1 /\ Len(buf) \in Nat
      /\ fromChild \in Seq(Symbols) /\ screen \in Seq(Symbols \cup {"x", "CRLF"})
  BY Lengths DEF OutputInv, Displayed, InputInv, IInv, TypeOK
<1>3. i \in 1 .. Len(buf) /\ i + 1 <= Len(buf) + 1
  BY <1>1, <1>2
<1>4. b \in Symbols /\ Shown(b) = b
  <2>1. b \in Symbols
    BY <1>2, <1>3, ElementOfSeq
  <2> QED BY <2>1, SymbolsAssumption DEF Shown
<1>5. i' = i + 1 /\ pc' = "display" /\ buf' = buf
  BY <1>1 DEF Onward
<1> DEFINE r == SubSeq(buf, i + 1, Len(buf))
<1>6. InBuffer = <<b>> \o r /\ InBuffer' = r /\ r \in Seq(Symbols)
  BY <1>2, <1>3, <1>5, SuffixStep DEF InBuffer
<1> HIDE DEF b, r
<1> DEFINE q == r \o fromChild
<1>7. q \in Seq(Symbols)
  BY <1>2, <1>6, ConcatProperties
<1>8. Pending' = q /\ Pending = <<b>> \o q
  <2>1. <<b>> \in Seq(Symbols)
    BY <1>4
  <2>2. (<<b>> \o r) \o fromChild = <<b>> \o (r \o fromChild)
    <3>1. r \in Seq(Symbols) /\ fromChild \in Seq(Symbols)
      BY <1>2, <1>6
    <3> HIDE DEF q
    <3> QED BY ONLY <2>1, <3>1, ConcatAssociative
  <2> QED BY <1>1, <1>6, <2>2 DEF Pending
<1> HIDE DEF q
<1>9. Kept(<<b>> \o q, Kinds) = IF b \in Kinds THEN <<b>> \o Kept(q, Kinds) ELSE Kept(q, Kinds)
  BY <1>4, <1>7, KeptFirst
<1>10. screen' \in Seq(Symbols \cup {"x", "CRLF"})
  <2>1. screen \in Seq(Symbols \cup {"x", "CRLF"}) /\ b \in Symbols \cup {"x", "CRLF"}
    BY <1>2, <1>4
  <2>2. Append(screen, b) \in Seq(Symbols \cup {"x", "CRLF"})
    BY ONLY <2>1, AppendProperties
  <2> QED BY <1>1, <1>4, <2>1, <2>2 DEF b
<1>11. Displayed'
  BY <1>2, <1>3, <1>5, <1>10 DEF Displayed
<1>12. CASE b \in {"EOT", "INT"}
  <2>1. OnScreen' = OnScreen /\ Printed(Pending)' = Printed(Pending)
    BY <1>1, <1>8, <1>9, <1>12 DEF OnScreen, Printed, Kinds, b
  <2> QED BY <1>1, <1>11, <2>1, NothingShown
<1>13. CASE b \notin {"EOT", "INT"}
  <2>1. b \in Kinds /\ screen' = Append(screen, b)
    BY <1>1, <1>4, <1>13 DEF Kinds, b
  <2>2. OnScreen' = Append(OnScreen, b)
    <3>1. b \in Symbols \cup {"x", "CRLF"}
      BY <1>4
    <3>2. Kept(Append(screen, b), Kinds) = Append(Kept(screen, Kinds), b)
      BY <1>2, <2>1, <3>1, KeptAppend
    <3> QED BY <2>1, <3>2 DEF OnScreen, Printed, Kinds
  <2> DEFINE Q == Kept(q, Kinds)
  <2>3. OnScreen \in Seq(Symbols \cup {"x", "CRLF"}) /\ Q \in Seq(Symbols \cup {"x", "CRLF"})
    BY <1>7, KeptIsSeq, PrintedIs DEF OutputInv
  <2>4. Kept(produced, Kinds) = OnScreen \o (<<b>> \o Q)
    BY <1>8, <1>9, <2>1 DEF OutputInv, OutputAccounted, Printed, Pending, Kinds
  <2> HIDE DEF Q
  <2>5. OnScreen \o (<<b>> \o Q) = Append(OnScreen, b) \o Q
    <3>1. b \in Symbols \cup {"x", "CRLF"}
      BY <1>4
    <3>2. <<b>> \in Seq(Symbols \cup {"x", "CRLF"})
      BY <3>1
    <3>3. Append(OnScreen, b) = OnScreen \o <<b>>
      BY <2>3, <3>1, AppendIsConcat
    <3>4. (OnScreen \o <<b>>) \o Q = OnScreen \o (<<b>> \o Q)
      BY <2>3, <3>2, ConcatAssociative
    <3> QED BY <3>3, <3>4
  <2>6. Kept(produced', Kinds) = OnScreen' \o Kept(Pending', Kinds)
    BY <1>1, <1>8, <2>2, <2>4, <2>5 DEF Q
  <2> QED BY <1>11, <2>6 DEF OutputAccounted, Printed, Pending, Kinds
<1> QED BY <1>12, <1>13

\* The echo of what is typed.
LEMMA EchoAccounted ==
  ASSUME OutputInv, pc = "echo", WriteScreen
  PROVE  Displayed' /\ OutputAccounted'
<1>1. /\ pc' = "echo" /\ i <= Len(buf) /\ screen' = Append(screen, Shown(buf[i]))
      /\ buf[i] \notin {"EOT", "INT"}
      /\ UNCHANGED <<produced, fromChild>>
  BY DEF WriteScreen, Plain, Onward, shellVars
<1>2. Shown(buf[i]) \in {"x", "CRLF"}
  <2>1. buf[i] \in Typeable
    BY <1>1, CharacterFrom DEF OutputInv, InputInv
  <2> QED BY <1>1, <2>1 DEF Shown, Typeable
<1> DEFINE e == Shown(buf[i])
<1>3. e \in Symbols \cup {"x", "CRLF"} /\ e \notin Kinds
  BY <1>2, SymbolsAssumption DEF Kinds
<1>4. screen \in Seq(Symbols \cup {"x", "CRLF"})
  BY DEF OutputInv, Displayed
<1> HIDE DEF e
<1>5. /\ Append(screen, e) \in Seq(Symbols \cup {"x", "CRLF"})
      /\ Kept(Append(screen, e), Kinds) = Kept(screen, Kinds)
  BY <1>3, <1>4, AppendProperties, KeptAppend
<1>6. Displayed'
  BY <1>1, <1>5 DEF Displayed, e
<1>7. OnScreen' = OnScreen
  BY <1>1, <1>5 DEF OnScreen, Printed, Kinds, e
<1>8. Pending' = Pending
  BY <1>1 DEF Pending, InBuffer
<1>9. Printed(Pending)' = Printed(Pending)
  BY <1>8 DEF Printed
<1> QED BY <1>1, <1>6, <1>7, <1>9, NothingShown

\* What is left: the screen and the pipe stay, and a buffer that is left is done.
LEMMA OthersAccounted ==
  ASSUME OutputInv, UNCHANGED <<screen, produced, fromChild>>,
         pc' = "display" => pc = "display" /\ UNCHANGED <<buf, i>>,
         pc = "display" /\ pc' # "display" => i > Len(buf)
  PROVE  Displayed' /\ OutputAccounted'
<1>1. Displayed'
  BY DEF OutputInv, Displayed
<1>2. InBuffer' = InBuffer
  <2>1. CASE pc' = "display"
    BY <2>1 DEF InBuffer
  <2>2. CASE pc' # "display" /\ pc # "display"
    BY <2>2 DEF InBuffer
  <2>3. CASE pc' # "display" /\ pc = "display"
    <3>1. InBuffer = <<>>
      BY <2>3, InBufferIs DEF OutputInv
    <3> QED BY <2>3, <3>1 DEF InBuffer
  <2> QED BY <2>1, <2>2, <2>3
<1>3. OnScreen' = OnScreen /\ Printed(Pending)' = Printed(Pending)
  BY <1>2 DEF OnScreen, Printed, Pending
<1> QED BY <1>1, <1>3, NothingShown

\* Everything the shell printed is on the screen, in the buffer or in the pipe, in
\* this order, on every way through the program.
THEOREM NothingLost == Spec => []OutputAccounted
<1>1. Init => Displayed /\ OutputAccounted
  <2> SUFFICES ASSUME Init PROVE Displayed /\ OutputAccounted
    OBVIOUS
  <2>1. screen = <<>> /\ produced = <<>> /\ fromChild = <<>> /\ pc \in {"poll", "read"}
    BY DEF Init, ShellInit
  <2>2. <<>> \in Seq(Symbols \cup {"x", "CRLF"}) /\ <<>> \o <<>> = <<>>
    BY EmptySeq, ConcatEmptySeq
  <2>3. Printed(<<>>) = <<>>
    BY KeptEmpty DEF Printed
  <2>4. InBuffer = <<>>
    BY <2>1 DEF InBuffer
  <2> QED BY <2>1, <2>2, <2>3, <2>4 DEF Displayed, OutputAccounted, OnScreen
<1>2. OutputInv /\ InputInv' /\ [Next]_vars => OutputInv'
  <2> SUFFICES ASSUME OutputInv, InputInv', [Next]_vars PROVE Displayed' /\ OutputAccounted'
    BY DEF OutputInv
  <2>1. CASE Forked(ShellWrites)
    BY <2>1, PrintAccounted
  <2>2. CASE ReadShell
    BY <2>2, ReadShellAccounted
  <2>3. CASE pc = "display" /\ (EndOfTransmission \/ InterruptKey \/ WriteScreen)
    BY <2>3, DisplayAccounted
  <2>4. CASE pc = "echo" /\ WriteScreen
    BY <2>4, EchoAccounted
  <2>5. CASE pc # "display" /\ (EndOfTransmission \/ InterruptKey)
    BY <2>5, OthersAccounted DEF EndOfTransmission, InterruptKey, CloseToChild, Interrupt, Onward,
                                 Exit, terminal, shellVars
  <2>6. CASE Type \/ ReadStdin \/ WriteShell \/ Poll \/ NotReady \/ Hangup \/ Reset \/ Wait
    BY <2>6, OthersAccounted DEF Type, ReadStdin, WriteShell, WritePipe, Onward, Exit, Poll,
       NotReady, Hangup, CloseToChild, Reset, Wait, Reap, terminal, program, shellVars
  <2>7. CASE Written
    BY <2>7, OthersAccounted DEF Written, terminal, shellVars
  <2>8. CASE UNCHANGED vars \/ Forked(ShellReads) \/ Forked(ShellAtEOF) \/ Forked(ShellExits)
    BY <2>8, OthersAccounted DEF Forked, ShellReads, ShellAtEOF, ShellExits, Dies, terminal, program,
                                 shellVars, vars
  <2>9. WriteScreen => pc \in {"echo", "display"}
    BY DEF WriteScreen
  <2>10. Forked(ShellStep) => \/ Forked(ShellWrites) \/ Forked(ShellReads) \/ Forked(ShellAtEOF)
                              \/ Forked(ShellExits)
    BY DEF Forked, ShellStep
  <2> QED BY <2>1, <2>2, <2>3, <2>4, <2>5, <2>6, <2>7, <2>8, <2>9, <2>10 DEF Next, ProgramStep,
             AtRest
<1>3. Spec => []OutputInv
  <2>1. Init /\ InputInv => OutputInv
    BY <1>1 DEF OutputInv
  <2> QED BY <1>2, <2>1, InputInductive, PTL DEF Spec
<1>4. OutputInv => OutputAccounted
  BY DEF OutputInv
<1> QED BY <1>3, <1>4, PTL
=============================================================================
