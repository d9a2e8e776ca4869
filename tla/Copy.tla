-------------------------------- MODULE Copy --------------------------------
(***************************************************************************)
(* lab0/lab0.c: options move files to the descriptors 0 and 1, and then    *)
(* what is read from the one is written to the other, byte by byte.        *)
(* Whoever starts the program may have left 0 or 1 closed; 2 is open.      *)
(***************************************************************************)
EXTENDS Naturals, SequencesExt

CONSTANTS
  Commands,  \* the command lines: sequences of options
  Text       \* what is in a file at the start

\* "missing" cannot be opened, "locked" cannot be written.
Files == {"in", "out", "directory", "stdin", "stdout"}
Descriptors == {0, 1, 3}
Closed == "closed"

VARIABLES
  options, given, \* the command line, and the descriptors open at the start
  fd,       \* an open file for a descriptor, as <<file, position>>, or <<Closed>>
  content,  \* what is in each file
  segFlag, catching,
  optind,   \* the next option
  pc,       \* what is done next, or "exit" or "killed"
  status,   \* the exit status
  buf       \* the byte to write

vars == <<options, given, fd, content, segFlag, catching, optind, pc, status, buf>>

Initially == [f \in Files |-> IF f \in {"in", "stdin"} THEN Text ELSE <<>>]

Init ==
  /\ options \in Commands /\ given \in SUBSET {0, 1}
  /\ fd = [d \in Descriptors |-> IF d \notin given THEN <<Closed>>
                                 ELSE IF d = 0 THEN <<"stdin", 0>> ELSE <<"stdout", 0>>]
  /\ content = Initially
  /\ segFlag = FALSE /\ catching = FALSE /\ optind = 1
  /\ pc = "options" /\ status = 0 /\ buf = <<>>

-----------------------------------------------------------------------------
(* Descriptors and files.                                                  *)

Free(table) ==
  CHOOSE d \in Descriptors : /\ table[d] = <<Closed>>
                             /\ \A e \in Descriptors : e < d => table[e] # <<Closed>>

\* open or creat, close the target, dup, close: a file opened as the target itself
\* is closed before dup can copy it.
Moved(table, target, file) ==
  LET new == Free(table)
      opened == [table EXCEPT ![new] = <<file, 0>>]
      freed == [opened EXCEPT ![target] = <<Closed>>]
      copied == IF freed[new] = <<Closed>> THEN freed
                ELSE [freed EXCEPT ![Free(freed)] = freed[new]]
  IN  [copied EXCEPT ![new] = <<Closed>>]

Put(s, k, b) == IF k <= Len(s) THEN [s EXCEPT ![k] = b] ELSE Append(s, b)

\* A message on standard output, which the exit flushes to descriptor 1.
Fail(code) ==
  /\ status' = code /\ pc' = "exit"
  /\ content' = IF fd[1] = <<Closed>> THEN content
                ELSE [content EXCEPT ![fd[1][1]] = Put(@, fd[1][2] + 1, "Error")]
  /\ UNCHANGED <<options, given, fd, segFlag, catching, optind, buf>>

-----------------------------------------------------------------------------
(* The options.                                                            *)

Option(name) == pc = "options" /\ optind <= Len(options) /\ options[optind].name = name
File == options[optind].file

InputOpt ==
  /\ Option("input") /\ File # "missing"
  /\ fd' = Moved(fd, 0, File) /\ optind' = optind + 1
  /\ UNCHANGED <<options, given, content, segFlag, catching, pc, status, buf>>

InputOptFails == Option("input") /\ File = "missing" /\ Fail(2)

\* A faulty output_opt that closes the input.
OutputOptClosesInput ==
  /\ Option("output") /\ File \notin {"locked", "directory"}
  /\ content' = [content EXCEPT ![File] = <<>>]
  /\ fd' = Moved(fd, 0, File) /\ optind' = optind + 1
  /\ UNCHANGED <<options, given, segFlag, catching, pc, status, buf>>

\* creat empties a file that exists.
OutputOpt ==
  /\ Option("output") /\ File \notin {"locked", "directory"}
  /\ content' = [content EXCEPT ![File] = <<>>]
  /\ fd' = Moved(fd, 1, File) /\ optind' = optind + 1
  /\ UNCHANGED <<options, given, segFlag, catching, pc, status, buf>>

OutputOptFails == Option("output") /\ File \in {"locked", "directory"} /\ Fail(3)

Segfault ==
  /\ Option("segfault") /\ segFlag' = TRUE /\ optind' = optind + 1
  /\ UNCHANGED <<options, given, fd, content, catching, pc, status, buf>>

Catch ==
  /\ Option("catch") /\ catching' = TRUE /\ optind' = optind + 1
  /\ UNCHANGED <<options, given, fd, content, segFlag, pc, status, buf>>

InvalidOption == Option("invalid") /\ Fail(1)

OptionsEnd ==
  /\ pc = "options" /\ optind > Len(options)
  /\ pc' = IF segFlag THEN "segfault" ELSE "read"
  /\ UNCHANGED <<options, given, fd, content, segFlag, catching, optind, status, buf>>

-----------------------------------------------------------------------------
(* The rest of main.                                                       *)

\* Writing to NULL; sighandler.
Caught == pc = "segfault" /\ catching /\ Fail(4)

Dies ==
  /\ pc = "segfault" /\ ~catching /\ pc' = "killed"
  /\ UNCHANGED <<options, given, fd, content, segFlag, catching, optind, status, buf>>

Readable == fd[0] # <<Closed>> /\ fd[0][1] # "directory"
Unread == fd[0][2] < Len(content[fd[0][1]])

Read ==
  /\ pc = "read" /\ Readable /\ Unread
  /\ buf' = content[fd[0][1]][fd[0][2] + 1] /\ fd' = [fd EXCEPT ![0][2] = @ + 1]
  /\ pc' = "write"
  /\ UNCHANGED <<options, given, content, segFlag, catching, optind, status>>

\* The end of the file, and an error: the test for -1 is inside the loop that the
\* error has ended.
LoopEnds ==
  /\ pc = "read" /\ (Readable => ~Unread) /\ pc' = "exit" /\ status' = 0
  /\ UNCHANGED <<options, given, fd, content, segFlag, catching, optind, buf>>

Write ==
  /\ pc = "write" /\ fd[1] # <<Closed>>
  /\ content' = [content EXCEPT ![fd[1][1]] = Put(@, fd[1][2] + 1, buf)]
  /\ fd' = [fd EXCEPT ![1][2] = @ + 1] /\ pc' = "read"
  /\ UNCHANGED <<options, given, segFlag, catching, optind, status, buf>>

\* A faulty error path of write that goes on with the next byte.
WriteFailsOnward ==
  /\ pc = "write" /\ pc' = "read"
  /\ UNCHANGED <<options, given, fd, content, segFlag, catching, optind, status, buf>>

\* No descriptor, no room, or a pipe nobody reads: the message is lost as well.
WriteFails ==
  /\ pc = "write"
  /\ \/ pc' = "exit" /\ status' = 1
     \/ fd[1] # <<Closed>> /\ pc' = "killed" /\ UNCHANGED status
  /\ UNCHANGED <<options, given, fd, content, segFlag, catching, optind, buf>>

Ended == pc \in {"exit", "killed"} /\ UNCHANGED vars

Next ==
  \/ InputOpt \/ InputOptFails \/ OutputOpt \/ OutputOptFails
  \/ Segfault \/ Catch \/ InvalidOption \/ OptionsEnd
  \/ Caught \/ Dies \/ Read \/ LoopEnds \/ Write \/ WriteFails
  \/ Ended

Spec == Init /\ [][Next]_vars

-----------------------------------------------------------------------------
(* What the program promises.                                              *)

Named(name) == {k \in DOMAIN options : options[k].name = name}

\* The file the last option of a name gives, or the one inherited.
LastFile(name, inherited) ==
  IF Named(name) = {} THEN inherited
  ELSE options[CHOOSE k \in Named(name) : \A m \in Named(name) : m <= k].file
Source == LastFile("input", "stdin")
Sink == LastFile("output", "stdout")

\* An exit with 0 leaves in the output all that was in the input, and nothing
\* exactly where that was lost: the input is a directory or descriptor 0 was closed
\* at the start (lab0.c:107: a read that fails is taken for the end of the file,
\* :22: the file opened as 0 is closed again), or an --output has emptied it.
CopyComplete ==
  pc = "exit" /\ status = 0 =>
    LET Lost == \/ Source = "directory" \/ 0 \notin given
                \/ \E k \in Named("output") : options[k].file = Source
    IN  content[Sink] = IF Lost THEN <<>> ELSE Initially[Source]

\* Whatever the options and wherever the program stops, killed or by an error: a
\* file no option named as output keeps what was in it, and the others hold no
\* byte twice, out of order or after one that was lost: a message, or a beginning
\* of what was in the input, and this only the last of them and only when every
\* option was in order and none asked for the crash (lab0.c:77-125).
NothingElse ==
  \A f \in Files : content[f] # Initially[f] =>
    /\ f = "stdout" \/ \E k \in Named("output") : k < optind /\ options[k].file = f
    /\ CASE content[f] = <<>> -> TRUE
         [] content[f] = <<"Error">> -> pc = "exit" /\ status # 0
         [] OTHER -> /\ IsPrefix(content[f], Initially[Source])
                     /\ f = Sink /\ optind > Len(options) /\ ~segFlag
=============================================================================
