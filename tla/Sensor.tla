------------------------------- MODULE Sensor -------------------------------
(***************************************************************************)
(* The loop of lab4b/lab4b.c, lab4c/lab4c_tcp.c and lab4c/lab4c_tls.c:     *)
(* while running and started, sleep and report the temperature; then look  *)
(* for input and obey the lines in it.  lab4b reads its standard input,    *)
(* here a terminal or a pipe, and has a button; the programs of lab4c read *)
(* a connection, and report over it.                                       *)
(***************************************************************************)
EXTENDS SensorCommands

CONSTANTS
  Sources,  \* where the input comes from: a subset of {"tty", "pipe", "tcp", "tls"}
  Streams,  \* the inputs
  BufSize   \* BUF_SIZE, in fragments

ASSUME SensorAssumption ==
  /\ BufSize \in Nat \ {0}
  /\ \A s \in Streams : s \in Seq(STRING)

VARIABLES
  source, stream, \* chosen at the start
  arrived,  \* how much of the input has come
  cuts,     \* where the TLS records that have come end
  part,     \* a TLS record has come in part
  peer,     \* the other end of the input: "open", "fin" (closed), "rst" (closed,
            \* our data refused), "refused" (we have been told)
  nread,    \* how much the program has read
  fetched,  \* up to where the TLS library has taken records from the socket
  buf,      \* stdinBuf (sockBuf, readBuf), from i on
  myInput,  \* the line so far; its length is index
  set, flag, \* on, *temp and secInterval; flag
  closed,   \* the sensor's context is closed
  pc,       \* what the program does next, or how it ended
  report,   \* the scale of the report that is on its way to the log
  acted, after \* history: lines obeyed; reports since flag was cleared

input == <<source, stream>>
wire == <<arrived, cuts, part, peer>>
reading == <<nread, fetched, buf>>
history == <<acted, after>>
vars == <<input, wire, reading, myInput, set, flag, closed, pc, report, history>>

OnNetwork == source \in {"tcp", "tls"}
Ended == pc \in {"done", "failed", "killed", "crashed"}

Init ==
  /\ source \in Sources /\ stream \in Streams
  /\ arrived = 0 /\ cuts = {} /\ part = FALSE /\ peer = "open"
  /\ nread = 0 /\ fetched = 0 /\ buf = <<>> /\ myInput = <<>>
  /\ set = Defaults /\ flag = TRUE /\ closed = FALSE
  /\ pc = IF OnNetwork THEN "id" ELSE "test"
  /\ report = "none" /\ acted = 0 /\ after = 0

-----------------------------------------------------------------------------
(* The input, the button and ^C.                                           *)

\* A TLS record comes to an end.
Arrives ==
  /\ ~Ended /\ peer = "open"
  /\ arrived' \in arrived + 1 .. Len(stream)
  /\ cuts' = IF source = "tls" THEN cuts \cup {arrived'} ELSE cuts
  /\ part' = FALSE
  /\ UNCHANGED <<input, peer, reading, myInput, set, flag, closed, pc, report, history>>

ArrivesInPart ==
  /\ ~Ended /\ peer = "open" /\ source = "tls" /\ arrived < Len(stream)
  /\ part' = TRUE
  /\ UNCHANGED <<input, arrived, cuts, peer, reading, myInput, set, flag, closed, pc,
                 report, history>>

\* ^D at the start of a line; the writer of the pipe goes; the server closes the
\* connection, with our reports unread or not.
InputEnds ==
  /\ ~Ended /\ peer = "open"
  /\ source = "tty" => arrived \in NewLines(stream) \cup {0}
  /\ peer' \in IF OnNetwork THEN {"fin", "rst"} ELSE {"fin"}
  /\ UNCHANGED <<input, arrived, cuts, part, reading, myInput, set, flag, closed, pc,
                 report, history>>

\* do_when_interrupted; a signal ends a sleep, and restarts a blocked read.
Interrupt ==
  /\ ~Ended /\ flag' = FALSE
  /\ pc' = IF pc = "sleep" THEN "report" ELSE pc
  /\ UNCHANGED <<input, wire, reading, myInput, set, closed, report, history>>

\* do_when_button_clicked, in a thread of the library, until the button is closed.
Press ==
  /\ ~Ended /\ ~OnNetwork /\ ~closed
  /\ flag' = FALSE
  /\ UNCHANGED <<input, wire, reading, myInput, set, closed, pc, report, history>>

-----------------------------------------------------------------------------
(* The program.                                                            *)

\* A line goes out.  Over the network: what is written to a closed connection is
\* lost and refused, and the next write raises SIGPIPE.
WriteOut(label) ==
  IF OnNetwork /\ peer = "refused"
    THEN pc' = "killed" /\ UNCHANGED peer
    ELSE /\ pc' = label
         /\ peer' = IF OnNetwork /\ peer # "open" THEN "refused" ELSE peer

Identify ==
  /\ pc = "id" /\ WriteOut("test")
  /\ UNCHANGED <<input, arrived, cuts, part, reading, myInput, set, flag, closed,
                 report, history>>

\* A faulty loop that looks at flag only when it reports.
TestWhenOn ==
  /\ pc = "test"
  /\ pc' = IF ~set.on THEN "poll" ELSE IF flag THEN "sleep" ELSE "shutdown"
  /\ UNCHANGED <<input, wire, reading, myInput, set, flag, closed, report, history>>

\* while (flag), and if (on).
Test ==
  /\ pc = "test"
  /\ pc' = IF ~flag THEN "shutdown" ELSE IF set.on THEN "sleep" ELSE "poll"
  /\ UNCHANGED <<input, wire, reading, myInput, set, flag, closed, report, history>>

Wake ==
  /\ pc = "sleep" /\ set.period # Endless /\ pc' = "report"
  /\ UNCHANGED <<input, wire, reading, myInput, set, flag, closed, report, history>>

\* The use of a closed context may end the process or go unnoticed.
Crash ==
  /\ closed /\ pc' = "crashed"
  /\ UNCHANGED <<input, wire, reading, myInput, set, flag, closed, report, history>>

\* mraa_aio_read, and the report in the scale asked for.
Report ==
  /\ pc = "report"
  /\ \/ /\ WriteOut("log")
        /\ report' = set.scale
        /\ after' = IF flag THEN 0 ELSE after + 1
        /\ UNCHANGED <<input, arrived, cuts, part, reading, myInput, set, flag, closed, acted>>
     \/ Crash

Log ==
  /\ pc = "log" /\ report' = "none" /\ pc' = "poll"
  /\ UNCHANGED <<input, wire, reading, myInput, set, flag, closed, history>>

Available == SubSeq(stream, nread + 1, arrived)
NewRecords == { c \in cuts : c > fetched }
Waiting == /\ source = "tls" /\ nread = fetched /\ NewRecords = {} /\ peer = "open"

\* A terminal gives whole lines; for a pipe its end is no input; poll does not know of
\* what the TLS library has taken from the socket.
Readable ==
  CASE source = "tty"  -> NewLines(Available) # {} \/ peer = "fin"
    [] source = "pipe" -> Available # <<>>
    [] source = "tcp"  -> Available # <<>> \/ peer # "open"
    [] source = "tls"  -> NewRecords # {} \/ part \/ peer # "open"

\* A faulty test of what poll returns: the next sleep begins at once.
PollSleeps ==
  /\ pc = "poll"
  /\ pc' = IF Readable THEN "read" ELSE IF set.on THEN "sleep" ELSE "test"
  /\ UNCHANGED <<input, wire, reading, myInput, set, flag, closed, report, history>>

Poll ==
  /\ pc = "poll"
  /\ pc' = IF Readable THEN "read" ELSE "test"
  /\ UNCHANGED <<input, wire, reading, myInput, set, flag, closed, report, history>>

\* ^C while poll looks and finds nothing: it fails, and so does the program.
PollInterrupted ==
  /\ pc = "poll" /\ ~Readable /\ ~(source = "pipe" /\ peer = "fin")
  /\ flag' = FALSE /\ pc' = "failed"
  /\ UNCHANGED <<input, wire, reading, myInput, set, closed, report, history>>

\* A faulty read that loses what the buffer does not hold.
TakeLosesRest(end) ==
  /\ nread' = end
  /\ buf' = SubSeq(stream, nread + 1, IF end - nread <= BufSize THEN end ELSE nread + BufSize)
  /\ pc' = "scan"
  /\ UNCHANGED <<input, wire, myInput, set, flag, closed, report, history>>

\* What there is up to end, as far as the buffer holds it.
Take(end) ==
  /\ nread' = IF end - nread <= BufSize THEN end ELSE nread + BufSize
  /\ buf' = SubSeq(stream, nread + 1, nread')
  /\ pc' = "scan"
  /\ UNCHANGED <<input, wire, myInput, set, flag, closed, report, history>>

Earliest(S) == { i \in S : \A j \in S : i <= j }

Receive ==
  /\ pc = "read" /\ source # "tls" /\ Available # <<>>
  /\ UNCHANGED fetched
  /\ IF source = "tty" THEN \E i \in Earliest(NewLines(Available)) : Take(nread + i)
                       ELSE Take(arrived)

\* SSL_read gives the rest of the record it has, or fetches the next, for which it
\* waits.
ReceiveRecord ==
  /\ pc = "read" /\ source = "tls"
  /\ fetched' \in IF nread < fetched THEN {fetched} ELSE Earliest(NewRecords)
  /\ Take(fetched')

NothingLeft == IF source = "tls" THEN nread = fetched /\ NewRecords = {}
                                 ELSE Available = <<>>

\* read returns 0: the sensor and the button are closed, perhaps again, and the loop
\* goes on.  At the terminal more may be typed.
EndOfInput ==
  /\ pc = "read" /\ NothingLeft /\ peer \in {"fin", "refused"}
  /\ \/ /\ closed' = TRUE /\ pc' = "test"
        /\ peer' = IF source = "tty" THEN "open" ELSE peer
        /\ UNCHANGED <<input, arrived, cuts, part, reading, myInput, set, flag, report, history>>
     \/ Crash

ReceiveFails ==
  /\ pc = "read" /\ NothingLeft /\ peer = "rst" /\ pc' = "failed"
  /\ UNCHANGED <<input, wire, reading, myInput, set, flag, closed, report, history>>

\* A faulty treatment of a line that leaves index where it is.
ObeyLineKeepsIndex ==
  /\ pc = "scan" /\ buf # <<>> /\ Len(myInput) < BufSize /\ Head(buf) = "NL"
  /\ buf' = Tail(buf) /\ UNCHANGED myInput
  /\ set' = Obeyed(set, myInput)
  /\ flag' = (flag /\ ~IsOff(myInput))
  /\ acted' = acted + 1
  /\ UNCHANGED <<input, wire, nread, fetched, closed, pc, report, after>>

\* The end of a line: it is obeyed, and index and myInput are reset.
ObeyLine ==
  /\ pc = "scan" /\ buf # <<>> /\ Len(myInput) < BufSize /\ Head(buf) = "NL"
  /\ buf' = Tail(buf) /\ myInput' = <<>>
  /\ set' = Obeyed(set, myInput)
  /\ flag' = (flag /\ ~IsOff(myInput))
  /\ acted' = acted + 1
  /\ UNCHANGED <<input, wire, nread, fetched, closed, pc, report, after>>

\* A faulty scan that fills myInput past its end.
CollectUnbounded ==
  /\ pc = "scan" /\ buf # <<>> /\ Head(buf) # "NL"
  /\ buf' = Tail(buf) /\ myInput' = Append(myInput, Head(buf))
  /\ UNCHANGED <<input, wire, nread, fetched, set, flag, closed, pc, report, history>>

Collect ==
  /\ pc = "scan" /\ buf # <<>> /\ Len(myInput) < BufSize /\ Head(buf) # "NL"
  /\ buf' = Tail(buf) /\ myInput' = Append(myInput, Head(buf))
  /\ UNCHANGED <<input, wire, nread, fetched, set, flag, closed, pc, report, history>>

\* When index reaches BUF_SIZE the rest of the buffer is dropped.
ScanEnds ==
  /\ pc = "scan" /\ (buf = <<>> \/ Len(myInput) = BufSize)
  /\ buf' = <<>> /\ pc' = "test"
  /\ UNCHANGED <<input, wire, nread, fetched, myInput, set, flag, closed, report, history>>

Shutdown ==
  /\ pc = "shutdown" /\ WriteOut("close")
  /\ UNCHANGED <<input, arrived, cuts, part, reading, myInput, set, flag, closed,
                 report, history>>

Close ==
  /\ pc = "close"
  /\ \/ /\ pc' = "done" /\ closed' = TRUE
        /\ UNCHANGED <<input, wire, reading, myInput, set, flag, report, history>>
     \/ Crash

Step ==
  \/ Identify \/ Test \/ Wake \/ Report \/ Log \/ Poll
  \/ Receive \/ ReceiveRecord \/ EndOfInput \/ ReceiveFails
  \/ ObeyLine \/ Collect \/ ScanEnds \/ Shutdown \/ Close

Next ==
  \/ Step \/ PollInterrupted
  \/ Arrives \/ ArrivesInPart \/ InputEnds \/ Interrupt \/ Press
  \/ Ended /\ UNCHANGED vars

\* The program runs, and a sleep ends; nothing is assumed of its surroundings.
Spec == Init /\ [][Next]_vars /\ WF_vars(Step)

-----------------------------------------------------------------------------
(* Properties                                                              *)

TypeOK ==
  /\ arrived \in 0 .. Len(stream) /\ cuts \subseteq 1 .. arrived
  /\ part \in BOOLEAN /\ peer \in {"open", "fin", "rst", "refused"}
  /\ nread \in 0 .. arrived /\ fetched \in cuts \cup {0}
  /\ Len(buf) <= BufSize /\ Len(myInput) <= BufSize
  /\ set \in Settings /\ flag \in BOOLEAN /\ closed \in BOOLEAN
  /\ pc \in {"id", "test", "sleep", "report", "log", "poll", "read", "scan",
             "shutdown", "close", "done", "failed", "killed", "crashed"}
  /\ report \in {"none", "C", "F"} /\ acted \in 0 .. LineCount(stream) /\ after \in Nat

\* However the input is cut into reads, records and buffers, the program does
\* what the thermometer promises.
Promise == INSTANCE Thermometer WITH stopping <- ~flag
ObeysLines == Promise!Spec

\* After OFF, the button or ^C at most one more report is made, the one that was
\* due.
OneMoreReport == after <= 1

\* The program sleeps for ever, or waits for the rest of a TLS record.
Stuck == (pc = "sleep" /\ set.period = Endless) \/ (pc = "read" /\ Waiting)

\* Line n has come; it and the lines before it are shorter than the buffer, and
\* so are the TLS records.
Came(n) ==
  /\ n <= LineCount(stream) /\ LineEnd(stream, n) <= arrived
  /\ \A m \in 1 .. n : Len(Line(stream, m)) < BufSize
  /\ \A c \in cuts : \E d \in cuts \cup {0} : d < c /\ c - d <= BufSize

\* A line that has come is obeyed, unless the program ends before or stays stuck:
\* a sleep that only a signal ends, a record whose rest never comes.
CommandsHeard ==
  \A n \in 1 .. 3 : Came(n) ~> acted >= n \/ Ended \/ []Stuck

\* OFF, the button and ^C end the program, unless it stays stuck.
EndsWhenAsked == ~flag ~> Ended \/ []Stuck
=============================================================================
