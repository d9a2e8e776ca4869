----------------------------- MODULE RemoteShell -----------------------------
(***************************************************************************)
(* The programs lab1b/lab1b-client.c and lab1b/lab1b-server.c without      *)
(* --compress and --log: the client passes what the user types over a TCP  *)
(* connection to the server, which passes it on to its shell; what the     *)
(* shell prints comes back the same way.  The connection is made; it is    *)
(* over the loopback interface, where a segment arrives when it is sent.   *)
(***************************************************************************)
EXTENDS ShellChild, SequencesExt

CONSTANTS
  Inputs,         \* what the user may type in all: sequences of Typeable
  BufSize,        \* the size of the buffers, 256 in the code
  UpSize, DownSize \* how much the connection holds from the client, and from the server

\* A character for any that means nothing, the key Enter, ^C and ^D.
Typeable == {"x", "CR", "INT", "EOT"}

ASSUME RemoteAssumption ==
  /\ BufSize \in Nat \ {0} /\ UpSize \in Nat \ {0} /\ DownSize \in Nat \ {0}
  /\ Inputs \subseteq Seq(Typeable)

\* On the screen, what the shell prints is told apart from the echo.
ASSUME SymbolsAssumption == Symbols \cap {"x", "CR", "LF", "CRLF", "INT"} = {}

VARIABLES
  typed, nread, screen, modes,  \* the terminal: as in TerminalRelay
  up, down,       \* on their way from the client, and from the server
  upReset,        \* the server has refused data: the next write fails
  downReset,      \* the client has
  cpc, crev, cbuf, \* the client: what it does next, revents, stdinBuf
  spc, srev, sbuf, si, \* the server: the same, and the loop variable of writeThat
  scode           \* the exit status of the server

terminal == <<typed, nread, screen, modes>>
socket == <<up, down, upReset, downReset>>
client == <<cpc, crev, cbuf>>
server == <<spc, srev, sbuf, si, scode>>
vars == <<shellVars, terminal, socket, client, server>>

NoEvents == [input |-> FALSE, output |-> FALSE, hup |-> FALSE]

ClientRuns == cpc \notin {"ended", "killed"}
ServerRuns == spc # "ended"

\* The shell has inherited the server's end of the connection: it is closed
\* when both have gone.
ServerEndOpen == ServerRuns \/ Running

ClientInit ==
  /\ typed = <<>> /\ nread = 0 /\ screen = <<>> /\ modes = "raw"
  /\ cpc = "poll" /\ crev = NoEvents /\ cbuf = <<>>

ServerInit ==
  /\ up = <<>> /\ down = <<>> /\ upReset = FALSE /\ downReset = FALSE
  /\ spc = "poll" /\ srev = NoEvents /\ sbuf = <<>> /\ si = 1 /\ scode = 0

Init == ShellInit /\ ClientInit /\ ServerInit

-----------------------------------------------------------------------------
(* The user.                                                               *)

Type ==
  /\ ClientRuns
  /\ \E s \in Inputs : /\ IsPrefix(typed, s) /\ Len(typed) < Len(s)
                       /\ typed' = Append(typed, s[Len(typed) + 1])
  /\ UNCHANGED <<shellVars, nread, screen, modes, socket, client, server>>

Unread == SubSeq(typed, nread + 1, Len(typed))

\* kill -9: the terminal stays as it is.  The kernel closes the connection, and
\* resets it when there is data the client has not read.
ClientIsKilled ==
  /\ ClientRuns
  /\ cpc' = "killed" /\ downReset' = (down # <<>>)
  /\ UNCHANGED <<shellVars, terminal, up, down, upReset, crev, cbuf, server>>

-----------------------------------------------------------------------------
(* The client.                                                             *)

\* The end of the stream is input too.  POLLHUP needs both directions closed:
\* a reset.
ClientPoll ==
  /\ cpc = "poll"
  /\ crev' = [input |-> Unread # <<>>, output |-> down # <<>> \/ ~ServerEndOpen,
              hup |-> upReset]
  /\ cpc' = IF crev' = NoEvents THEN "poll" ELSE "stdin"
  /\ UNCHANGED <<shellVars, terminal, socket, cbuf, server>>

Shown(c) == IF c \in {"CR", "LF"} THEN "CRLF" ELSE c
Sent(c) == IF c = "CR" THEN "LF" ELSE c
Each(f(_), s) == [n \in DOMAIN s |-> f(s[n])]

\* The characters are read, echoed, and translated for the server.
ClientReadStdin ==
  /\ cpc = "stdin" /\ crev.input
  /\ LET chunk == Chunk(Unread, BufSize)
     IN  /\ nread' = nread + Len(chunk)
         /\ screen' = screen \o Each(Shown, chunk)
         /\ cbuf' = Each(Sent, chunk)
  /\ cpc' = "send"
  /\ UNCHANGED <<shellVars, typed, modes, socket, crev, server>>

SendWhatFits ==
  LET room == UpSize - Len(up)
  IN  /\ room > 0
      /\ up' = up \o Chunk(cbuf, room) /\ cbuf' = Rest(cbuf, room)
      /\ cpc' = IF cbuf' = <<>> THEN "socket" ELSE "rest"
      /\ UNCHANGED <<upReset, modes>>

\* Every exit of the client but a signal runs resetSettings.
ClientExit == cpc' = "ended" /\ modes' = "initial"

\* write to the socket: it takes what there is room for, and blocks for the rest.
\* When its other end is closed the first write is lost and answered by a reset,
\* and the next one raises SIGPIPE, which the client does not catch, or fails.
ClientSend ==
  /\ cpc = "send"
  /\ \/ ServerEndOpen /\ SendWhatFits
     \/ /\ ~ServerEndOpen /\ ~upReset
        /\ upReset' = TRUE /\ cpc' = "socket" /\ cbuf' = <<>>
        /\ UNCHANGED <<up, modes>>
     \/ /\ upReset /\ cbuf' = <<>>
        /\ \/ ClientExit
           \/ cpc' = "killed" /\ UNCHANGED modes
        /\ UNCHANGED <<up, upReset>>
  /\ UNCHANGED <<shellVars, typed, nread, screen, down, downReset, crev, server>>

\* The rest of a write; what has been written of it counts as a success.
ClientSendRest ==
  /\ cpc = "rest"
  /\ \/ ServerEndOpen /\ SendWhatFits
     \/ /\ ~ServerEndOpen
        /\ upReset' = TRUE /\ cpc' = "socket" /\ cbuf' = <<>>
        /\ UNCHANGED <<up, modes>>
  /\ UNCHANGED <<shellVars, typed, nread, screen, down, downReset, crev, server>>

\* What the server sent is shown; the end of the stream, or a reset, ends the
\* client.
ClientReadSocket ==
  /\ cpc = "socket" /\ crev.output
  /\ IF down = <<>>
       THEN ClientExit /\ UNCHANGED <<down, screen>>
       ELSE /\ screen' = screen \o Each(Shown, Chunk(down, BufSize))
            /\ down' = Rest(down, BufSize)
            /\ cpc' = "hup" /\ UNCHANGED modes
  /\ UNCHANGED <<shellVars, typed, nread, up, upReset, downReset, crev, cbuf, server>>

ClientHangup ==
  /\ cpc = "hup" /\ crev.hup
  /\ ClientExit
  /\ UNCHANGED <<shellVars, typed, nread, screen, socket, crev, cbuf, server>>

ClientNotReady ==
  /\ \/ cpc = "stdin" /\ ~crev.input /\ cpc' = "socket"
     \/ cpc = "socket" /\ ~crev.output /\ cpc' = "hup"
     \/ cpc = "hup" /\ ~crev.hup /\ cpc' = "poll"
  /\ UNCHANGED <<shellVars, terminal, socket, crev, cbuf, server>>

ClientStep ==
  \/ ClientPoll \/ ClientReadStdin \/ ClientSend \/ ClientSendRest
  \/ ClientReadSocket \/ ClientHangup \/ ClientNotReady

-----------------------------------------------------------------------------
(* The server.                                                             *)

ServerPoll ==
  /\ spc = "poll"
  /\ srev' = [input |-> up # <<>> \/ ~ClientRuns, output |-> fromChild # <<>>,
              hup |-> ~Running]
  /\ spc' = IF srev' = NoEvents THEN "poll" ELSE "socket"
  /\ UNCHANGED <<shellVars, terminal, socket, client, sbuf, si, scode>>

ServerAt(label) == spc' = label /\ UNCHANGED <<srev, sbuf, si, scode>>

\* At the end of the stream read returns 0 and the loop goes on.
ServerReadSocket ==
  /\ spc = "socket" /\ srev.input
  /\ sbuf' = Chunk(up, BufSize) /\ up' = Rest(up, BufSize)
  /\ si' = 1 /\ spc' = "toShell"
  /\ UNCHANGED <<shellVars, terminal, down, upReset, downReset, client, srev, scode>>

\* After a reset read may fail instead: the shell is killed by SIGTERM.
ServerReadFails ==
  /\ spc = "socket" /\ srev.input /\ up = <<>> /\ downReset
  /\ IF Running THEN Dies ELSE UNCHANGED shellVars
  /\ ServerAt("clean")
  /\ UNCHANGED <<terminal, socket, client>>

ServerReadShell ==
  /\ spc = "shell" /\ srev.output
  /\ sbuf' = Chunk(fromChild, BufSize) /\ TakeOutput(BufSize)
  /\ si' = 1 /\ spc' = "toClient"
  /\ UNCHANGED <<terminal, socket, client, srev, scode>>

\* A faulty treatment of POLLHUP that does not leave the loop.
ServerHangupGoesOn ==
  /\ spc = "hup" /\ srev.hup /\ ServerAt("poll")
  /\ UNCHANGED <<shellVars, terminal, socket, client>>

\* cleanMe, once the shell has hung up.
ServerHangup ==
  /\ spc = "hup" /\ srev.hup /\ ServerAt("clean")
  /\ UNCHANGED <<shellVars, terminal, socket, client>>

ServerNotReady ==
  /\ \/ spc = "socket" /\ ~srev.input /\ ServerAt("shell")
     \/ spc = "shell" /\ ~srev.output /\ ServerAt("hup")
     \/ spc = "hup" /\ ~srev.hup /\ ServerAt("poll")
  /\ UNCHANGED <<shellVars, terminal, socket, client>>

Byte == sbuf[si]
Writing(label) == spc = label /\ si <= Len(sbuf)
Onward == si' = si + 1 /\ UNCHANGED <<spc, srev, sbuf, scode>>

\* A faulty writeThat that passes ^C on as a character only.
ServerInterruptPassedOn ==
  /\ Writing("toShell") /\ Byte = "INT"
  /\ UNCHANGED shellVars /\ sbuf' = [sbuf EXCEPT ![si] = "ETX"]
  /\ UNCHANGED <<terminal, socket, client, spc, srev, si, scode>>

\* writeThat(toChild[1]), ^C: the signal is sent, then the character too.
ServerInterrupt ==
  /\ Writing("toShell") /\ Byte = "INT"
  /\ Interrupt /\ sbuf' = [sbuf EXCEPT ![si] = "ETX"]
  /\ UNCHANGED <<terminal, socket, client, spc, srev, si, scode>>

\* A faulty writeThat that takes no notice of ^D.
ServerEndOfTransmissionIgnored ==
  /\ Writing("toShell") /\ Byte = "EOT"
  /\ UNCHANGED shellVars /\ Onward
  /\ UNCHANGED <<terminal, socket, client>>

ServerEndOfTransmission ==
  /\ Writing("toShell") /\ Byte = "EOT"
  /\ CloseToChild /\ Onward
  /\ UNCHANGED <<terminal, socket, client>>

\* The process ends.  A connection that is closed with data unread is reset, but
\* a running shell keeps it open.
ServerExit(c) ==
  /\ spc' = "ended" /\ scode' = c
  /\ upReset' = (upReset \/ (up # <<>> /\ ~Running))
  /\ UNCHANGED <<up, down, downReset, srev, sbuf, si>>

\* errorMe leaves the shell alone; the handler of SIGPIPE calls cleanMe.
ServerWriteShell ==
  /\ Writing("toShell") /\ Byte \notin {"INT", "EOT"}
  /\ \/ WritePipe(Byte) /\ Onward /\ UNCHANGED socket
     \/ PipeBad /\ ServerExit(1) /\ UNCHANGED shellVars
     \/ PipeBroken /\ ServerAt("clean") /\ UNCHANGED <<shellVars, socket>>
  /\ UNCHANGED <<terminal, client>>

\* A faulty write to the client that does not wait for room.
ServerWriteClientNoWait ==
  /\ Writing("toClient") /\ Onward
  /\ IF ClientRuns /\ Byte # "EOT" /\ Len(down) < DownSize
       THEN down' = Append(down, Byte) ELSE UNCHANGED down
  /\ UNCHANGED <<shellVars, terminal, up, upReset, downReset, client>>

\* writeThat(newsockfd): ^D is left out.  When the client has gone the first
\* write is lost and answered by a reset, and the next one raises SIGPIPE or
\* fails.
ServerWriteClient ==
  /\ Writing("toClient")
  /\ \/ /\ Byte = "EOT" /\ Onward /\ UNCHANGED <<shellVars, socket>>
     \/ /\ Byte # "EOT" /\ ClientRuns /\ Len(down) < DownSize
        /\ down' = Append(down, Byte) /\ Onward
        /\ UNCHANGED <<shellVars, up, upReset, downReset>>
     \/ /\ Byte # "EOT" /\ ~ClientRuns /\ ~downReset
        /\ downReset' = TRUE /\ Onward
        /\ UNCHANGED <<shellVars, up, down, upReset>>
     \/ /\ Byte # "EOT" /\ downReset
        /\ \/ ServerAt("clean") /\ UNCHANGED <<shellVars, socket>>
           \/ ServerExit(1) /\ CloseToChild
  /\ UNCHANGED <<terminal, client>>

Written ==
  /\ spc \in {"toShell", "toClient"} /\ si > Len(sbuf)
  /\ ServerAt(IF spc = "toShell" THEN "shell" ELSE "hup")
  /\ UNCHANGED <<shellVars, terminal, socket, client>>

\* cleanMe waits for the shell and exits.
ServerCleans ==
  /\ spc = "clean" /\ Reap /\ ServerExit(0)
  /\ UNCHANGED <<terminal, client>>

ServerStep ==
  \/ ServerPoll \/ ServerReadSocket \/ ServerReadFails
  \/ ServerReadShell \/ ServerHangup
  \/ ServerNotReady \/ ServerInterrupt \/ ServerEndOfTransmission
  \/ ServerWriteShell \/ ServerWriteClient \/ Written \/ ServerCleans

\* A shell that outlives the server is killed by SIGPIPE when it prints, and
\* closes the connection when it dies.
ShellPrints == IF ServerRuns THEN ShellWrites
                             ELSE Running /\ owed > 0 /\ Dies

Forked(step) ==
  /\ step
  /\ upReset' = (upReset \/ (~ServerRuns /\ shell' # shell /\ up # <<>>))
  /\ UNCHANGED <<terminal, up, down, downReset, client, server>>

ForkedStep ==
  \/ Forked(ShellReads) \/ Forked(ShellPrints)
  \/ Forked(ShellAtEOF) \/ Forked(ShellExits)

\* Client and server each wait for the other to read from the full connection.
ConnectionFull ==
  /\ cpc \in {"send", "rest"} /\ Len(up) = UpSize
  /\ Writing("toClient") /\ Byte # "EOT" /\ Len(down) = DownSize

\* Server and shell each wait for the other to read from a full pipe.
PipesFull ==
  /\ Writing("toShell") /\ Byte \notin {"INT", "EOT"} /\ Len(toChild) = PipeSize
  /\ Running /\ owed > 0 /\ Len(fromChild) = PipeSize

\* Both programs have ended, or the client was killed and cleanMe waits for a
\* shell that waits for input, or server and shell for each other.
AtRest ==
  /\ ~ClientRuns
  /\ ~ServerRuns \/ (spc = "clean" /\ Running) \/ PipesFull
  /\ UNCHANGED vars

Next ==
  \/ Type \/ ClientIsKilled
  \/ ClientStep \/ ServerStep \/ ForkedStep
  \/ AtRest

\* Both programs run; bash reads, prints and notices the end of its input, but
\* need not exit before; the user need not type.
Fairness ==
  /\ WF_vars(ClientStep)
  /\ WF_vars(ServerStep)
  /\ WF_vars(Forked(ShellReads))
  /\ WF_vars(Forked(ShellPrints))
  /\ WF_vars(Forked(ShellAtEOF))

Spec == Init /\ [][Next]_vars /\ Fairness

-----------------------------------------------------------------------------
(* Properties                                                              *)

Bytes == {"x", "LF", "INT", "EOT", "ETX"}

TypeOK ==
  /\ toChild \in Seq(Bytes) /\ Len(toChild) <= PipeSize
  /\ fromChild \in Seq(Symbols) /\ Len(fromChild) <= PipeSize
  /\ shell \in {"running", "dead", "reaped"}
  /\ taken \in Seq(Bytes) /\ produced \in Seq(Symbols)
  /\ toChildOpen \in BOOLEAN /\ sigint \in BOOLEAN /\ owed \in 0 .. MaxOutput
  /\ typed \in Seq(Typeable) /\ nread \in 0 .. Len(typed)
  /\ modes \in {"raw", "initial"}
  /\ up \in Seq(Bytes) /\ Len(up) <= UpSize
  /\ down \in Seq(Symbols) /\ Len(down) <= DownSize
  /\ upReset \in BOOLEAN /\ downReset \in BOOLEAN
  /\ cpc \in {"poll", "stdin", "send", "rest", "socket", "hup", "ended", "killed"}
  /\ cbuf \in Seq(Bytes) /\ Len(cbuf) <= BufSize
  /\ spc \in {"poll", "socket", "toShell", "shell", "toClient", "hup", "clean", "ended"}
  /\ sbuf \in Seq(Bytes \cup Symbols) /\ Len(sbuf) <= BufSize
  /\ si \in 1 .. BufSize + 1 /\ scode \in {0, 1}

\* What was typed before the first ^D, as the shell should see it.
Offered ==
  LET s == BeforeEOT(typed)
  IN  [n \in DOMAIN s |-> IF s[n] = "INT" THEN "ETX" ELSE Sent(s[n])]

\* What reaches the shell is a prefix of what the user typed before ^D: nothing
\* is duplicated, reordered or passed on after ^D on the way through two
\* programs, a connection and a pipe.
InputInOrder == IsPrefix(taken \o toChild, Offered)

\* The symbols of the shell on the screen are told apart from the echo.
Printed(s) == Kept(s, Symbols \ {"EOT"})
OnScreen == Printed(screen)
InBuffer == IF spc = "toClient" THEN SubSeq(sbuf, si, Len(sbuf)) ELSE <<>>

\* While there is a client, everything the shell printed is on the screen, on
\* the connection, in the server's buffer or in the pipe, in this order.
OutputAccounted ==
  ClientRuns => Printed(produced) =
    OnScreen \o Printed(down \o InBuffer \o fromChild)

\* Before the shell gets the character ^C it has got the signal.
SignalBeforeCharacter ==
  (\E n \in DOMAIN (taken \o toChild) : (taken \o toChild)[n] = "ETX") => sigint

BothEnded == ~ServerRuns /\ ~ClientRuns

\* When the shell is dead both programs end, even when the client is killed, with
\* one exception: the connection stays full in both directions for ever.
HangupEnds == shell = "dead" ~> BothEnded \/ []ConnectionFull

\* When the user types ^D both programs end, unless somebody kills the client
\* or one of the two standoffs lasts for ever.
EOTEnds ==
  (\E n \in DOMAIN typed : typed[n] = "EOT") ~>
    BothEnded \/ cpc = "killed" \/ []ConnectionFull \/ []PipesFull
=============================================================================
