-------------------------- MODULE RemoteShellProofs --------------------------
(***************************************************************************)
(* Proofs about RemoteShell, for every size of the buffers, the pipes and  *)
(* the connection and every amount of input and output: type correctness,  *)
(* that what is typed reaches the shell in order and once, and that a ^C   *)
(* is signalled before its character arrives.                              *)
(***************************************************************************)
EXTENDS RemoteShell, ShellChildProofs

-----------------------------------------------------------------------------
(* The inductive invariant.                                                *)

\* What the shell has got, read or not.
Word == taken \o toChild

\* A typed character as the shell should see it.
Image(c) == IF c = "INT" THEN "ETX" ELSE Sent(c)

\* The server still passes on what it reads.
Passes == spc \notin {"clean", "ended"}

\* How many of the typed characters the server has read, and how many of them
\* it has dealt with.
Got == nread - Len(cbuf) - Len(up)
Dealt == IF spc = "toShell" THEN Got - Len(sbuf) + si - 1 ELSE Got

Buffers ==
  /\ spc = "toShell" => sbuf \in Seq(Bytes) /\ si <= Len(sbuf) + 1
  /\ spc = "toClient" => sbuf \in Seq(Symbols)
  /\ cpc \notin {"send", "rest", "killed"} => cbuf = <<>>
  /\ upReset => ~ServerRuns

\* While the server passes on, the characters typed are, one after the other,
\* in what it has read, on the connection and in the client's buffer.
InTransit == Passes =>
  /\ Len(up) + Len(cbuf) <= nread
  /\ \A k \in 1 .. Len(cbuf) : cbuf[k] = Sent(typed[nread - Len(cbuf) + k])
  /\ \A k \in 1 .. Len(up) : up[k] = Sent(typed[Got + k])

\* The rest of its buffer is the last of what it has read; the ^C it has just
\* signalled is a character already.
InServer == Passes /\ spc = "toShell" =>
  /\ Len(sbuf) <= Got
  /\ \A k \in si .. Len(sbuf) :
       \/ sbuf[k] = Sent(typed[Got - Len(sbuf) + k])
       \/ /\ k = si /\ sbuf[k] = "ETX" /\ typed[Got - Len(sbuf) + k] = "INT"
          /\ sigint \/ ~Running

\* What the shell has got is what was typed first, with no ^D, and all the server
\* has dealt with while the pipe is open.
Delivered ==
  /\ \A n \in 1 .. Len(Word) : /\ n <= nread /\ typed[n] # "EOT"
                               /\ Word[n] = Image(typed[n])
                               /\ Word[n] = "ETX" => sigint
  /\ Passes /\ toChildOpen => Len(Word) = Dealt

IInv == TypeOK /\ Buffers /\ InTransit /\ InServer /\ Delivered

\* The bounds are numbers, and the buffers and the pipes have room.
LEMMA Sizes ==
  /\ PipeSize \in Nat /\ MaxOutput \in Nat /\ BufSize \in Nat
  /\ UpSize \in Nat /\ DownSize \in Nat /\ BufSize > 0 /\ PipeSize > 0
BY PipeAssumption, RemoteAssumption

\* The lengths are natural numbers.
LEMMA Lengths ==
  ASSUME TypeOK
  PROVE  /\ nread \in Nat /\ Len(typed) \in Nat /\ nread <= Len(typed)
         /\ Len(cbuf) \in Nat /\ Len(up) \in Nat /\ Len(sbuf) \in Nat /\ si \in Nat
         /\ Word \in Seq(Bytes) /\ Len(Word) \in Nat
<1>1. Word \in Seq(Bytes)
  BY ConcatProperties DEF TypeOK, Word
<1>2. /\ nread \in 0 .. Len(typed) /\ Len(typed) \in Nat /\ si \in 1 .. BufSize + 1
      /\ Len(cbuf) \in Nat /\ Len(up) \in Nat /\ Len(sbuf) \in Nat
  BY LenProperties DEF TypeOK
<1> QED BY <1>1, <1>2, LenProperties, Sizes

\* The characters on their way are among those the client has read.
LEMMA Places ==
  ASSUME IInv, Passes
  PROVE  /\ Got \in Nat /\ Got <= nread
         /\ \A k \in 1 .. Len(cbuf) : nread - Len(cbuf) + k \in 1 .. nread
         /\ \A k \in 1 .. Len(up) : Got + k \in 1 .. nread
         /\ spc = "toShell" =>
              /\ Got - Len(sbuf) \in Nat
              /\ \A k \in si .. Len(sbuf) : Got - Len(sbuf) + k \in 1 .. nread
<1>1. /\ nread \in Nat /\ Len(cbuf) \in Nat /\ Len(up) \in Nat /\ Len(sbuf) \in Nat
      /\ Len(up) + Len(cbuf) <= nread /\ si \in Nat /\ si >= 1
      /\ spc = "toShell" => Len(sbuf) <= Got
  BY Lengths DEF IInv, InTransit, InServer, TypeOK
<1>2. /\ Got \in Nat /\ Got <= nread /\ nread - Len(cbuf) \in Nat
      /\ Got + Len(up) <= nread
  BY <1>1 DEF Got
<1>3. \A k \in 1 .. Len(cbuf) : nread - Len(cbuf) + k \in 1 .. nread
  BY <1>1
<1>4. \A k \in 1 .. Len(up) : Got + k \in 1 .. nread
  BY <1>1, <1>2
<1>5. ASSUME spc = "toShell"
      PROVE  /\ Got - Len(sbuf) \in Nat
             /\ \A k \in si .. Len(sbuf) : Got - Len(sbuf) + k \in 1 .. nread
  BY <1>1, <1>2, <1>5
<1> QED BY <1>2, <1>3, <1>4, <1>5

\* What holds when the two programs start.
LEMMA Initially ==
  ASSUME Init PROVE IInv
<1>1. /\ \A S : <<>> \in Seq(S)
      /\ Len(<<>>) = 0
  BY EmptySeq
<1>2. TypeOK
  <2>1. 0 <= PipeSize /\ 0 \in 0 .. MaxOutput /\ 0 <= BufSize /\ 1 \in 1 .. BufSize + 1
        /\ 0 <= UpSize /\ 0 <= DownSize
    BY Sizes
  <2>2. 0 \in 0 .. Len(typed)
    BY <1>1 DEF Init, ClientInit
  <2> QED BY <1>1, <2>1, <2>2 DEF Init, ShellInit, ClientInit, ServerInit, TypeOK
<1>3. Buffers
  BY DEF Init, ClientInit, ServerInit, Buffers
<1>4. Word = <<>>
  <2>1. <<>> \in Seq(Bytes)
    BY <1>1
  <2> QED BY <2>1, ConcatEmptySeq DEF Init, ShellInit, Word
<1>5. nread = 0 /\ Len(cbuf) = 0 /\ Len(up) = 0 /\ Len(Word) = 0 /\ Got = 0 /\ Dealt = 0
  <2>1. nread = 0 /\ cbuf = <<>> /\ up = <<>> /\ spc = "poll"
    BY DEF Init, ClientInit, ServerInit
  <2>2. Len(cbuf) = 0 /\ Len(up) = 0 /\ Len(Word) = 0
    BY <1>1, <1>4, <2>1
  <2>3. Got = 0 - 0 - 0
    BY <2>1, <2>2 DEF Got
  <2> QED BY <2>1, <2>2, <2>3 DEF Dealt
<1>6. InTransit
  BY <1>5 DEF InTransit
<1>7. InServer /\ Delivered
  BY <1>5 DEF Init, ServerInit, InServer, Delivered
<1> QED BY <1>2, <1>3, <1>6, <1>7 DEF IInv

-----------------------------------------------------------------------------
(* Steps that move no typed character.                                     *)

\* A step that leaves what was typed and what the shell has got where they are.
LEMMA NothingMoves ==
  ASSUME IInv,
         UNCHANGED <<typed, nread, up, cbuf>>, Word' = Word,
         toChildOpen' => toChildOpen, sigint => sigint', Running' => Running,
         Passes' => Passes,
         spc' = "toShell" => spc = "toShell" /\ UNCHANGED <<sbuf, si>>,
         spc = "toShell" /\ spc' # "toShell" /\ Passes' => si = Len(sbuf) + 1
  PROVE  InTransit' /\ InServer' /\ Delivered'
<1> USE DEF IInv
<1>1. Got' = Got
  BY DEF Got
<1>2. InTransit'
  BY <1>1 DEF InTransit
<1>3. InServer'
  BY <1>1 DEF InServer
<1>4. Passes' => Dealt' = Dealt
  <2>1. Got \in Int /\ Len(sbuf) \in Nat
    BY Lengths DEF Got
  <2>2. ASSUME spc = "toShell", si = Len(sbuf) + 1
        PROVE  Dealt = Got
    <3>1. \A g \in Int, l \in Nat : g - l + (l + 1) - 1 = g
      OBVIOUS
    <3> QED BY <2>1, <2>2, <3>1 DEF Dealt
  <2> QED BY <1>1, <2>2 DEF Dealt
<1>5. Delivered'
  BY <1>4 DEF Delivered
<1> QED BY <1>2, <1>3, <1>5

\* The client ends, or does what does not concern its input.
LEMMA ClientElsewhere ==
  ASSUME IInv,
         ClientIsKilled \/ ClientPoll \/ ClientReadSocket \/ ClientHangup \/ ClientNotReady
  PROVE  IInv'
<1> USE DEF IInv
<1>1. /\ UNCHANGED <<shellVars, typed, nread, up, upReset, cbuf, server>>
      /\ cpc \notin {"send", "rest", "killed", "ended"} \/ cpc' = "killed"
      /\ cpc' \in {"poll", "stdin", "socket", "hup", "ended", "killed"}
      /\ modes' \in {"raw", "initial"} /\ downReset' \in BOOLEAN
  BY DEF ClientIsKilled, ClientPoll, ClientReadSocket, ClientHangup, ClientNotReady, ClientRuns,
         ClientExit, TypeOK, shellVars, terminal, socket, client, server
<1>2. down' \in Seq(Symbols) /\ Len(down') <= DownSize
  <2>1. CASE down' = Rest(down, BufSize)
    <3>1. /\ Rest(down, BufSize) \in Seq(Symbols)
          /\ Len(Rest(down, BufSize)) = Len(down) - Len(Chunk(down, BufSize))
          /\ Chunk(down, BufSize) \in Seq(Symbols)
      BY ChunkAndRest, Sizes DEF TypeOK
    <3>2. /\ Len(down) \in Nat /\ Len(Chunk(down, BufSize)) \in Nat /\ Len(down) <= DownSize
      BY <3>1, LenProperties DEF TypeOK
    <3>3. Len(down) - Len(Chunk(down, BufSize)) <= DownSize
      BY <3>2, Sizes
    <3> QED BY <2>1, <3>1, <3>3
  <2>2. CASE UNCHANGED down
    BY <2>2 DEF TypeOK
  <2> QED BY <2>1, <2>2 DEF ClientIsKilled, ClientPoll, ClientReadSocket, ClientHangup,
                            ClientNotReady, socket
<1>3. TypeOK'
  BY <1>1, <1>2 DEF TypeOK, shellVars, server
<1>4. Buffers'
  BY <1>1 DEF Buffers, ServerRuns, server
<1>5. InTransit' /\ InServer' /\ Delivered'
  BY <1>1, NothingMoves DEF Passes, Word, Running, shellVars, server
<1> QED BY <1>3, <1>4, <1>5

-----------------------------------------------------------------------------
(* Steps that move the characters typed.                                   *)

\* The user types a character.
LEMMA TypeStep ==
  ASSUME IInv, Type PROVE IInv'
<1> USE DEF IInv
<1>1. PICK c \in Typeable : typed' = Append(typed, c)
  <2>1. PICK s \in Inputs : Len(typed) < Len(s) /\ typed' = Append(typed, s[Len(typed) + 1])
    BY DEF Type
  <2>2. /\ s \in Seq(Typeable) /\ Len(s) \in Nat /\ Len(typed) \in Nat
        /\ DOMAIN s = 1 .. Len(s)
    BY RemoteAssumption, LenProperties, Lengths
  <2>3. Len(typed) + 1 \in 1 .. Len(s)
    BY <2>1, <2>2
  <2>4. s[Len(typed) + 1] \in Typeable
    BY <2>2, <2>3, ElementOfSeq
  <2> QED BY <2>1, <2>4
<1>2. UNCHANGED <<shellVars, nread, screen, modes, socket, client, server>>
  BY DEF Type
<1>3. /\ typed' \in Seq(Typeable) /\ Len(typed') = Len(typed) + 1
      /\ \A n \in 1 .. Len(typed) : typed'[n] = typed[n]
  BY <1>1, AppendProperties DEF TypeOK
<1>4. /\ nread \in Nat /\ Len(typed) \in Nat /\ nread <= Len(typed)
  BY Lengths
<1>5. nread \in 0 .. Len(typed) + 1 /\ \A n \in 1 .. nread : n \in 1 .. Len(typed)
  BY <1>4
<1>6. \A n \in 1 .. nread : typed'[n] = typed[n]
  BY <1>3, <1>5
<1>7. TypeOK'
  BY <1>2, <1>3, <1>5 DEF TypeOK, shellVars, socket, client, server
<1>8. Buffers'
  BY <1>2 DEF Buffers, ServerRuns, socket, client, server
<1>9. /\ (Passes <=> Passes') /\ Got' = Got /\ Dealt' = Dealt /\ Word' = Word
  BY <1>2 DEF Passes, Got, Dealt, Word, shellVars, socket, client, server
<1>10. InTransit'
  BY <1>2, <1>6, <1>9, Places DEF InTransit, socket, client
<1>11. InServer'
  BY <1>2, <1>6, <1>9, Places DEF InServer, Running, shellVars, server
<1>12. Delivered'
  <2>1. \A n \in 1 .. Len(Word) : n \in 1 .. nread
    BY <1>4, Lengths DEF Delivered
  <2> QED BY <1>2, <1>6, <1>9, <2>1 DEF Delivered, shellVars
<1> QED BY <1>7, <1>8, <1>10, <1>11, <1>12

\* The client reads: what it has read goes to its buffer, which was empty.
LEMMA ClientReadStdinStep ==
  ASSUME IInv, ClientReadStdin PROVE IInv'
<1> USE DEF IInv
<1> DEFINE chunk == Chunk(Unread, BufSize)
           m == Len(chunk)
<1>1. /\ cbuf' = Each(Sent, chunk) /\ nread' = nread + m /\ cpc = "stdin" /\ cpc' = "send"
      /\ UNCHANGED <<shellVars, typed, modes, socket, crev, server>>
  BY DEF ClientReadStdin
<1>2. /\ typed \in Seq(Typeable) /\ Len(typed) \in Nat /\ nread \in Nat /\ nread <= Len(typed)
      /\ cbuf = <<>> /\ Len(cbuf) = 0
  BY <1>1, Lengths, EmptySeq DEF TypeOK, Buffers
<1>3. /\ Unread \in Seq(Typeable) /\ Len(Unread) = Len(typed) - nread
      /\ DOMAIN Unread = 1 .. Len(typed) - nread
      /\ \A k \in 1 .. Len(typed) - nread : Unread[k] = typed[nread + k]
  BY <1>2, SuffixIs DEF Unread
<1>4. /\ chunk \in Seq(Typeable) /\ m <= BufSize /\ m <= Len(typed) - nread
      /\ m \in Nat /\ DOMAIN chunk = 1 .. m
      /\ \A k \in 1 .. m : chunk[k] = typed[nread + k] /\ chunk[k] \in Typeable
  <2>1. /\ chunk \in Seq(Typeable) /\ m <= BufSize /\ m <= Len(Unread)
        /\ \A k \in DOMAIN chunk : chunk[k] = Unread[k] /\ k \in DOMAIN Unread
    BY <1>3, Sizes, ChunkAndRest
  <2> HIDE DEF chunk
  <2>2. m \in Nat /\ DOMAIN chunk = 1 .. m
    BY <2>1, LenProperties
  <2>3. \A k \in 1 .. m : chunk[k] \in Typeable
    BY <2>1, ElementOfSeq
  <2> QED BY <1>3, <2>1, <2>2, <2>3
<1> HIDE DEF chunk
<1>5. /\ cbuf' \in Seq(Bytes) /\ Len(cbuf') = m
      /\ \A k \in 1 .. m : cbuf'[k] = Sent(typed[nread + k])
  <2>1. cbuf' = [k \in 1 .. m |-> Sent(chunk[k])]
    BY <1>1, <1>4 DEF Each
  <2>2. \A k \in 1 .. m : Sent(chunk[k]) \in Bytes
    BY <1>4 DEF Sent, Bytes, Typeable
  <2>3. cbuf' \in [1 .. m -> Bytes]
    BY <2>1, <2>2
  <2>4. cbuf' \in Seq(Bytes)
    BY <1>4, <2>3, SeqDef
  <2>5. Len(cbuf') \in Nat /\ 1 .. Len(cbuf') = 1 .. m
    BY <2>1, <2>4, LenProperties
  <2>6. Len(cbuf') = m
    BY <1>4, <2>5
  <2> QED BY <1>4, <2>1, <2>4, <2>6
<1> HIDE DEF m
<1>6. nread + m \in 0 .. Len(typed) /\ nread + m - m - Len(up) = nread - 0 - Len(up)
      /\ nread + m - m = nread
  BY <1>2, <1>4, Lengths
<1>7. Got' = Got /\ Dealt' = Dealt /\ Word' = Word /\ (Passes' <=> Passes)
  BY <1>1, <1>2, <1>5, <1>6 DEF Got, Dealt, Word, Passes, shellVars, socket, server
<1>8. TypeOK'
  BY <1>1, <1>4, <1>5, <1>6 DEF TypeOK, shellVars, socket, server
<1>9. Buffers'
  BY <1>1 DEF Buffers, ServerRuns, socket, server
<1>10. InTransit'
  <2>1. Passes => Len(up) + m <= nread + m
    <3>1. Passes => Len(up) <= nread
      BY <1>2, Lengths DEF InTransit
    <3> QED BY <1>2, <1>4, <3>1, Lengths
  <2> SUFFICES ASSUME Passes
               PROVE  /\ Len(up) + Len(cbuf') <= nread'
                      /\ \A k \in 1 .. Len(cbuf') :
                           cbuf'[k] = Sent(typed[nread' - Len(cbuf') + k])
                      /\ \A k \in 1 .. Len(up) : up[k] = Sent(typed[Got + k])
    BY <1>1, <1>7 DEF InTransit, socket
  <2>2. nread' = nread + m /\ Len(cbuf') = m
    BY <1>1, <1>5 DEF m
  <2>3. nread' - Len(cbuf') = nread
    <3>1. nread' - Len(cbuf') = (nread + m) - m
      BY <2>2, Zenon
    <3>2. (nread + m) - m = nread
      BY <1>2, <1>4 DEF m
    <3> QED BY <3>1, <3>2, Zenon
  <2>4. Len(up) + Len(cbuf') <= nread'
    BY <2>1, <2>2
  <2> QED BY <1>5, <2>2, <2>3, <2>4 DEF InTransit
<1>11. InServer'
  BY <1>1, <1>7 DEF InServer, Running, shellVars, server
<1>12. Delivered'
  <2>1. \A n \in 1 .. Len(Word) : n <= nread => n <= nread + m
    BY <1>2, <1>4, Lengths
  <2> QED BY <1>1, <1>7, <2>1 DEF Delivered, shellVars
<1> QED BY <1>8, <1>9, <1>10, <1>11, <1>12

\* The client puts on the connection what there is room for, and keeps the rest.
LEMMA SendingKeeps ==
  ASSUME IInv, SendWhatFits, cpc \in {"send", "rest"},
         UNCHANGED <<shellVars, typed, nread, screen, down, downReset, crev, server>>
  PROVE  IInv'
<1> USE DEF IInv
<1> DEFINE room == UpSize - Len(up)
           first == Chunk(cbuf, room)
           rest == Rest(cbuf, room)
           c == Len(first)
<1>1. /\ up' = up \o first /\ cbuf' = rest /\ room > 0 /\ UNCHANGED <<upReset, modes>>
      /\ cpc' \in {"socket", "rest"} /\ (cpc' = "socket" => cbuf' = <<>>)
  BY DEF SendWhatFits
<1>2. /\ cbuf \in Seq(Bytes) /\ up \in Seq(Bytes) /\ Len(cbuf) \in Nat /\ Len(up) \in Nat
      /\ nread \in Nat /\ Len(cbuf) <= BufSize /\ DOMAIN cbuf = 1 .. Len(cbuf)
  BY Lengths, LenProperties DEF TypeOK
<1>3. room \in Nat
  BY <1>1, <1>2, Sizes
<1>4. /\ first \in Seq(Bytes) /\ rest \in Seq(Bytes) /\ c <= room
      /\ Len(rest) = Len(cbuf) - c
      /\ \A k \in DOMAIN first : first[k] = cbuf[k] /\ k \in DOMAIN cbuf
      /\ \A k \in DOMAIN rest : rest[k] = cbuf[c + k] /\ c + k \in DOMAIN cbuf
  BY <1>2, <1>3, ChunkAndRest
<1> HIDE DEF first, rest
<1>5. c \in Nat /\ Len(rest) \in Nat /\ DOMAIN first = 1 .. c /\ DOMAIN rest = 1 .. Len(rest)
  BY <1>4, LenProperties
<1>6. /\ up' \in Seq(Bytes) /\ Len(up') = Len(up) + c
      /\ \A k \in 1 .. Len(up) + c :
           up'[k] = IF k <= Len(up) THEN up[k] ELSE first[k - Len(up)]
  BY <1>1, <1>2, <1>4, ConcatProperties
<1> HIDE DEF c
<1>7. /\ Len(up) + c <= UpSize /\ Len(rest) <= BufSize
      /\ nread - Len(rest) - (Len(up) + c) = nread - Len(cbuf) - Len(up)
  BY <1>2, <1>4, <1>5, Sizes
<1>8. Word' = Word /\ (Passes' <=> Passes) /\ Got' = Got /\ Dealt' = Dealt
  BY <1>1, <1>6, <1>7 DEF Word, Passes, Got, Dealt, shellVars, server
<1>9. TypeOK'
  BY <1>1, <1>4, <1>6, <1>7 DEF TypeOK, shellVars, server
<1>10. Buffers'
  BY <1>1 DEF Buffers, ServerRuns, server
<1>11. ASSUME Passes PROVE InTransit'
  <2>1. Len(up) + c + Len(rest) <= nread
    BY <1>2, <1>4, <1>5, <1>11 DEF InTransit
  <2>2. ASSUME NEW k \in 1 .. Len(rest)
        PROVE  rest[k] = Sent(typed[nread - Len(rest) + k])
    <3>1. c + k \in 1 .. Len(cbuf) /\ nread - Len(cbuf) + (c + k) = nread - Len(rest) + k
      BY <1>2, <1>4, <1>5
    <3>2. cbuf[c + k] = Sent(typed[nread - Len(cbuf) + (c + k)])
      BY <1>11, <3>1 DEF InTransit
    <3> QED BY <1>4, <1>5, <3>1, <3>2
  <2>3. ASSUME NEW k \in 1 .. Len(up) + c
        PROVE  up'[k] = Sent(typed[Got + k])
    <3>1. CASE k <= Len(up)
      <4>1. k \in 1 .. Len(up)
        BY <1>2, <3>1
      <4> QED BY <1>6, <1>11, <3>1, <4>1 DEF InTransit
    <3>2. CASE ~(k <= Len(up))
      <4>1. /\ k - Len(up) \in 1 .. c
            /\ nread - Len(cbuf) + (k - Len(up)) = nread - Len(cbuf) - Len(up) + k
        BY <1>2, <1>5, <3>2
      <4>2. first[k - Len(up)] = cbuf[k - Len(up)] /\ k - Len(up) \in 1 .. Len(cbuf)
        BY <1>2, <1>4, <1>5, <4>1
      <4>3. cbuf[k - Len(up)] = Sent(typed[nread - Len(cbuf) + (k - Len(up))])
        BY <1>11, <4>2 DEF InTransit
      <4> QED BY <1>6, <3>2, <4>1, <4>2, <4>3 DEF Got
    <3> QED BY <3>1, <3>2
  <2> QED BY <1>1, <1>6, <1>8, <2>1, <2>2, <2>3 DEF InTransit
<1>12. InTransit'
  BY <1>8, <1>11 DEF InTransit
<1>13. InServer' /\ Delivered'
  BY <1>8 DEF InServer, Delivered, Running, shellVars, server
<1> QED BY <1>9, <1>10, <1>12, <1>13

\* What the client writes is lost when the server and its shell are gone.
LEMMA LosingKeeps ==
  ASSUME IInv, ~ServerRuns, cbuf' = <<>>, upReset' \in BOOLEAN, UNCHANGED up,
         cpc' \in {"socket", "ended", "killed"}, modes' \in {"raw", "initial"},
         UNCHANGED <<shellVars, typed, nread, screen, down, downReset, crev, server>>
  PROVE  IInv'
<1> USE DEF IInv
<1>1. Word' = Word /\ ~Passes' /\ spc = "ended" /\ spc' = "ended"
  BY DEF Word, Passes, ServerRuns, shellVars, server
<1>2. <<>> \in Seq(Bytes) /\ Len(cbuf') <= BufSize
  BY EmptySeq, Sizes
<1>3. TypeOK'
  BY <1>2 DEF TypeOK, shellVars, server
<1>4. Buffers'
  BY <1>1 DEF Buffers, ServerRuns, server
<1>5. InTransit' /\ InServer'
  BY <1>1 DEF InTransit, InServer
<1>6. Delivered'
  BY <1>1 DEF Delivered, shellVars
<1> QED BY <1>3, <1>4, <1>5, <1>6

LEMMA ClientSendStep ==
  ASSUME IInv, ClientSend PROVE IInv'
<1>1. /\ cpc = "send"
      /\ UNCHANGED <<shellVars, typed, nread, screen, down, downReset, crev, server>>
  BY DEF ClientSend
<1>2. CASE SendWhatFits
  BY <1>1, <1>2, SendingKeeps
<1>3. CASE ~SendWhatFits
  <2>1. /\ ~ServerRuns /\ cbuf' = <<>> /\ upReset' \in BOOLEAN /\ UNCHANGED up
        /\ cpc' \in {"socket", "ended", "killed"} /\ modes' \in {"raw", "initial"}
    BY <1>3 DEF ClientSend, ClientExit, ServerEndOpen, IInv, Buffers, TypeOK
  <2> QED BY <1>1, <2>1, LosingKeeps
<1> QED BY <1>2, <1>3

LEMMA ClientSendRestStep ==
  ASSUME IInv, ClientSendRest PROVE IInv'
<1>1. /\ cpc = "rest"
      /\ UNCHANGED <<shellVars, typed, nread, screen, down, downReset, crev, server>>
  BY DEF ClientSendRest
<1>2. CASE SendWhatFits
  BY <1>1, <1>2, SendingKeeps
<1>3. CASE ~SendWhatFits
  <2>1. /\ ~ServerRuns /\ cbuf' = <<>> /\ upReset' \in BOOLEAN /\ UNCHANGED up
        /\ cpc' \in {"socket", "ended", "killed"} /\ modes' \in {"raw", "initial"}
    BY <1>3 DEF ClientSendRest, ServerEndOpen, IInv, TypeOK
  <2> QED BY <1>1, <2>1, LosingKeeps
<1> QED BY <1>2, <1>3


-----------------------------------------------------------------------------
(* The shell and its output.                                               *)

\* The shell reads, prints or dies; the connection may be reset when nobody is left.
LEMMA ForkedStepKeeps ==
  ASSUME IInv, ForkedStep PROVE IInv'
<1> USE DEF IInv
<1>1. /\ UNCHANGED <<terminal, up, down, downReset, client, server, toChildOpen, sigint>>
      /\ shell = "running" /\ shell' \in {"running", "dead"}
      /\ upReset' \in BOOLEAN /\ (upReset' => upReset \/ ~ServerRuns)
  BY DEF ForkedStep, Forked, ShellReads, ShellPrints, ShellWrites, ShellAtEOF, ShellExits, Dies,
         Running, TypeOK
<1>2. /\ toChild' \in Seq(Bytes) /\ taken' \in Seq(Bytes) /\ Len(toChild') <= PipeSize
      /\ owed' \in 0 .. MaxOutput /\ Word' = Word
  <2>1. CASE ShellReads
    <3>1. /\ toChild \in Seq(Bytes) /\ toChild # <<>> /\ taken \in Seq(Bytes)
          /\ Len(toChild) <= PipeSize /\ Len(toChild) \in Nat
          /\ taken' = Append(taken, Head(toChild)) /\ toChild' = Tail(toChild)
      BY <2>1, LenProperties DEF ShellReads, TypeOK
    <3>2. /\ Head(toChild) \in Bytes /\ Tail(toChild) \in Seq(Bytes)
          /\ Len(Tail(toChild)) = Len(toChild) - 1
      BY <3>1, HeadTailProperties
    <3>3. Append(taken, Head(toChild)) \in Seq(Bytes)
      BY <3>1, <3>2, AppendProperties
    <3>4. Len(Tail(toChild)) <= PipeSize
      BY <3>1, <3>2, Sizes
    <3>5. owed' \in 0 .. MaxOutput
      <4>1. Len(produced) \in Nat /\ owed \in 0 .. MaxOutput
        BY LenProperties DEF TypeOK
      <4>2. 0 .. MaxOutput - Len(produced) \subseteq 0 .. MaxOutput
        BY <4>1, Sizes
      <4> QED BY <2>1, <4>1, <4>2 DEF ShellReads
    <3>6. Word' = Word
      BY <3>1, ReadKeepsWord DEF Word
    <3> QED BY <3>1, <3>2, <3>3, <3>4, <3>5, <3>6
  <2>2. CASE ShellWrites
    <3>1. owed - 1 \in 0 .. MaxOutput
      BY <2>2, Sizes DEF ShellWrites, TypeOK
    <3> QED BY <2>2, <3>1 DEF ShellWrites, TypeOK, Word
  <2>3. CASE Dies
    BY <2>3 DEF Dies, TypeOK, Word
  <2> QED BY <2>1, <2>2, <2>3 DEF ForkedStep, Forked, ShellPrints, ShellAtEOF, ShellExits
<1>3. produced' \in Seq(Symbols) /\ fromChild' \in Seq(Symbols) /\ Len(fromChild') <= PipeSize
  <2>1. CASE ShellWrites
    <3>1. PICK c \in Symbols : /\ fromChild' = Append(fromChild, c)
                               /\ produced' = Append(produced, c)
      BY <2>1 DEF ShellWrites
    <3>2. /\ fromChild \in Seq(Symbols) /\ Len(fromChild) \in Nat /\ produced \in Seq(Symbols)
          /\ Len(fromChild) < PipeSize
      BY <2>1, LenProperties DEF ShellWrites, TypeOK
    <3>3. /\ Append(fromChild, c) \in Seq(Symbols) /\ Append(produced, c) \in Seq(Symbols)
          /\ Len(Append(fromChild, c)) = Len(fromChild) + 1
      BY <3>2, AppendProperties
    <3>4. Len(fromChild) + 1 <= PipeSize
      BY <3>2, Sizes
    <3> QED BY <3>1, <3>3, <3>4
  <2>2. CASE UNCHANGED <<produced, fromChild>>
    BY <2>2 DEF TypeOK
  <2> QED BY <2>1, <2>2 DEF ForkedStep, Forked, ShellReads, ShellPrints, ShellAtEOF, ShellExits,
                            Dies
<1>4. TypeOK'
  BY <1>1, <1>2, <1>3 DEF TypeOK, terminal, client, server
<1>5. Buffers'
  BY <1>1 DEF Buffers, ServerRuns, client, server
<1>6. InTransit' /\ InServer' /\ Delivered'
  BY <1>1, <1>2, NothingMoves DEF Passes, Running, terminal, client, server
<1> QED BY <1>4, <1>5, <1>6

\* The server reads from its shell and writes to its client.
LEMMA ServerOutputStep ==
  ASSUME IInv, ServerReadShell \/ ServerWriteClient PROVE IInv'
<1> USE DEF IInv
<1>1. /\ UNCHANGED <<terminal, up, client, toChild, taken, produced, owed, sigint, shell>>
      /\ spc \in {"shell", "toClient"} /\ spc' \in {"toClient", "clean", "ended"}
      /\ toChildOpen' \in BOOLEAN /\ (toChildOpen' => toChildOpen)
      /\ downReset' \in BOOLEAN /\ scode' \in {0, 1}
      /\ upReset' \in BOOLEAN /\ (upReset' => upReset \/ spc' = "ended")
  <2>1. CASE ServerReadShell
    BY <2>1 DEF ServerReadShell, TakeOutput, TypeOK, socket
  <2>2. CASE ServerWriteClient /\ ~ServerExit(1)
    <3>1. /\ UNCHANGED <<terminal, up, client, shellVars, upReset, scode>>
          /\ spc = "toClient" /\ spc' \in {"toClient", "clean"}
          /\ downReset' = TRUE \/ UNCHANGED downReset
      BY <2>2 DEF ServerWriteClient, Writing, Onward, ServerAt, socket
    <3> QED BY <3>1 DEF TypeOK, shellVars
  <2>3. CASE ServerWriteClient /\ ServerExit(1)
    <3>1. /\ UNCHANGED <<terminal, up, client, downReset>>
          /\ spc = "toClient" /\ spc' = "ended" /\ scode' = 1
      BY <2>3 DEF ServerWriteClient, Writing, ServerExit
    <3>2. CloseToChild \/ UNCHANGED shellVars
      BY <2>3 DEF ServerWriteClient
    <3>3. /\ UNCHANGED <<toChild, taken, produced, owed, sigint, shell>>
          /\ toChildOpen' \in BOOLEAN /\ (toChildOpen' => toChildOpen)
      <4>1. CASE CloseToChild
        BY <4>1 DEF CloseToChild
      <4>2. CASE UNCHANGED shellVars
        BY <4>2 DEF shellVars, TypeOK
      <4> QED BY <3>2, <4>1, <4>2
    <3>4. upReset' \in BOOLEAN
      BY <2>3 DEF ServerExit
    <3>5. downReset' \in BOOLEAN
      BY <3>1 DEF TypeOK
    <3> QED BY <3>1, <3>3, <3>4, <3>5
  <2> QED BY <2>1, <2>2, <2>3
<1>2. /\ fromChild' \in Seq(Symbols) /\ Len(fromChild') <= PipeSize
      /\ down' \in Seq(Symbols) /\ Len(down') <= DownSize
      /\ sbuf' \in Seq(Symbols) /\ Len(sbuf') <= BufSize /\ si' \in 1 .. BufSize + 1
  <2>1. CASE ServerReadShell
    <3> DEFINE new == Chunk(fromChild, BufSize)
               rest == Rest(fromChild, BufSize)
    <3>1. /\ sbuf' = new /\ fromChild' = rest /\ si' = 1 /\ UNCHANGED down
      BY <2>1 DEF ServerReadShell, TakeOutput, socket
    <3>2. fromChild \in Seq(Symbols) /\ Len(fromChild) <= PipeSize /\ BufSize \in Nat
      BY Sizes DEF TypeOK
    <3>3. /\ new \in Seq(Symbols) /\ rest \in Seq(Symbols) /\ Len(new) <= BufSize
          /\ Len(rest) = Len(fromChild) - Len(new)
      BY <3>2, ChunkAndRest
    <3> HIDE DEF new, rest
    <3>4. Len(new) \in Nat /\ Len(fromChild) \in Nat
      BY <3>2, <3>3, LenProperties
    <3>5. Len(rest) <= PipeSize /\ 1 \in 1 .. BufSize + 1
      BY <3>2, <3>3, <3>4, Sizes
    <3> QED BY <3>1, <3>3, <3>5 DEF TypeOK
  <2>2. CASE ServerWriteClient
    <3>1. /\ spc = "toClient" /\ si <= Len(sbuf) /\ sbuf \in Seq(Symbols)
          /\ Len(sbuf) \in Nat /\ Len(sbuf) <= BufSize /\ si \in 1 .. BufSize + 1
          /\ UNCHANGED <<sbuf, fromChild>> /\ (si' = si \/ si' = si + 1)
      BY <2>2, LenProperties DEF ServerWriteClient, Writing, Buffers, TypeOK, Onward, ServerAt,
         ServerExit, CloseToChild, shellVars, socket
    <3>2. si + 1 \in 1 .. BufSize + 1 /\ si \in 1 .. Len(sbuf)
      BY <3>1, Sizes
    <3>3. sbuf[si] \in Symbols
      BY <3>1, <3>2, ElementOfSeq
    <3>4. down' \in Seq(Symbols) /\ Len(down') <= DownSize
      <4>1. CASE down' = Append(down, sbuf[si]) /\ Len(down) < DownSize
        <5>1. /\ down \in Seq(Symbols) /\ Len(down) \in Nat
              /\ Append(down, sbuf[si]) \in Seq(Symbols)
              /\ Len(Append(down, sbuf[si])) = Len(down) + 1
          BY <3>3, AppendProperties, LenProperties DEF TypeOK
        <5>2. Len(down) + 1 <= DownSize
          BY <4>1, <5>1, Sizes
        <5> QED BY <4>1, <5>1, <5>2
      <4>2. CASE UNCHANGED down
        BY <4>2 DEF TypeOK
      <4> QED BY <2>2, <4>1, <4>2 DEF ServerWriteClient, Byte, ServerExit, socket
    <3> QED BY <3>1, <3>2, <3>4 DEF TypeOK
  <2> QED BY <2>1, <2>2
<1>3. sbuf' \in Seq(Bytes \cup Symbols)
  BY <1>2, SeqMonotonic
<1>4. TypeOK'
  BY <1>1, <1>2, <1>3 DEF TypeOK, terminal, client
<1>5. Buffers'
  BY <1>1, <1>2 DEF Buffers, ServerRuns, client
<1>6. InTransit' /\ InServer' /\ Delivered'
  BY <1>1, NothingMoves DEF Passes, Word, Running, terminal, client
<1> QED BY <1>4, <1>5, <1>6

\* The server polls, has passed on its buffer, or ends.
LEMMA ServerControlStep ==
  ASSUME IInv,
         ServerPoll \/ ServerReadFails \/ ServerHangup \/ ServerNotReady \/ Written \/ ServerCleans
  PROVE  IInv'
<1> USE DEF IInv
<1>1. /\ UNCHANGED <<terminal, up, down, downReset, client, toChild, toChildOpen, fromChild, taken,
                     produced, owed, sigint, sbuf, si>>
      /\ spc' \in {"poll", "socket", "shell", "hup", "clean", "ended"}
      /\ shell' \in {"running", "dead", "reaped"} /\ (shell' = "running" => shell = "running")
      /\ scode' \in {0, 1} /\ upReset' \in BOOLEAN
      /\ upReset' => upReset \/ spc' = "ended"
      /\ spc = "toShell" => si > Len(sbuf)
      /\ spc' \notin {"clean", "ended"} => spc \notin {"clean", "ended"}
      /\ spc = "ended" => spc' = "ended"
  <2>1. CASE ServerPoll \/ ServerHangup \/ ServerNotReady \/ Written
    BY <2>1 DEF ServerPoll, ServerHangup, ServerNotReady, Written, ServerAt, TypeOK, shellVars,
                socket
  <2>2. CASE ServerReadFails
    BY <2>2 DEF ServerReadFails, ServerAt, Dies, TypeOK, shellVars, socket
  <2>3. CASE ServerCleans
    <3>1. /\ UNCHANGED <<terminal, up, down, downReset, client, toChild, toChildOpen, fromChild,
                         taken, produced, owed, sigint, sbuf, si>>
          /\ spc = "clean" /\ spc' = "ended" /\ shell' = "reaped" /\ scode' = 0
      BY <2>3 DEF ServerCleans, ServerExit, Reap
    <3>2. upReset' \in BOOLEAN
      BY <2>3 DEF ServerCleans, ServerExit
    <3> QED BY <3>1, <3>2
  <2> QED BY <2>1, <2>2, <2>3
<1>2. spc = "toShell" => si = Len(sbuf) + 1
  <2>1. si \in Nat /\ Len(sbuf) \in Nat
    BY Lengths
  <2> QED BY <1>1, <2>1 DEF Buffers
<1>3. TypeOK'
  BY <1>1 DEF TypeOK, terminal, client
<1>4. Buffers'
  BY <1>1 DEF Buffers, ServerRuns, client
<1>5. InTransit' /\ InServer' /\ Delivered'
  BY <1>1, <1>2, NothingMoves DEF Passes, Word, Running, terminal, client
<1> QED BY <1>3, <1>4, <1>5

-----------------------------------------------------------------------------
(* The server and what was typed.                                          *)

\* A buffer is read from the connection: none of it is dealt with yet.
LEMMA ServerReadSocketStep ==
  ASSUME IInv, ServerReadSocket PROVE IInv'
<1> USE DEF IInv
<1> DEFINE new == Chunk(up, BufSize)
           rest == Rest(up, BufSize)
           m == Len(new)
<1>1. /\ sbuf' = new /\ up' = rest /\ si' = 1 /\ spc = "socket" /\ spc' = "toShell"
      /\ UNCHANGED <<shellVars, terminal, down, upReset, downReset, client, srev, scode>>
  BY DEF ServerReadSocket
<1>2. /\ new \in Seq(Bytes) /\ rest \in Seq(Bytes) /\ m <= BufSize /\ m <= Len(up)
      /\ Len(rest) = Len(up) - m /\ m \in Nat
      /\ \A k \in 1 .. m : new[k] = up[k]
      /\ \A k \in 1 .. Len(up) - m : rest[k] = up[m + k] /\ m + k \in 1 .. Len(up)
  <2>0. up \in Seq(Bytes) /\ BufSize \in Nat
    BY Sizes DEF TypeOK
  <2>1. /\ new \in Seq(Bytes) /\ rest \in Seq(Bytes) /\ m <= BufSize /\ m <= Len(up)
        /\ Len(rest) = Len(up) - m
        /\ \A k \in DOMAIN new : new[k] = up[k]
        /\ \A k \in DOMAIN rest : rest[k] = up[m + k] /\ m + k \in DOMAIN up
    BY ONLY <2>0, ChunkAndRest, Zenon
  <2> HIDE DEF new, rest
  <2>2. m \in Nat /\ DOMAIN new = 1 .. m /\ DOMAIN rest = 1 .. Len(rest)
        /\ DOMAIN up = 1 .. Len(up)
    BY <2>1, LenProperties DEF TypeOK
  <2> QED BY <2>1, <2>2
<1> HIDE DEF new, rest
<1>3. /\ nread \in Nat /\ Len(cbuf) \in Nat /\ Len(up) \in Nat /\ Len(cbuf') = Len(cbuf)
      /\ Len(sbuf') = m /\ Len(up') = Len(up) - m /\ m \in Nat /\ m <= Len(up)
  BY <1>1, <1>2, Lengths DEF client
<1> HIDE DEF m
<1>4. ASSUME Passes
      PROVE  /\ Len(up) + Len(cbuf) <= nread /\ Got \in Nat /\ Dealt = Got
             /\ \A k \in 1 .. Len(up) : up[k] = Sent(typed[Got + k])
  BY <1>1, <1>4, Places DEF InTransit, Dealt
<1>5. Got' = Got + m /\ Dealt' = Got /\ Word' = Word /\ Passes /\ Got \in Int
  <2>1. Got' = nread - Len(cbuf) - (Len(up) - m)
    BY <1>1, <1>3, Zenon DEF Got, terminal
  <2>2. nread - Len(cbuf) - (Len(up) - m) = nread - Len(cbuf) - Len(up) + m
    BY <1>3
  <2>3. Got' = Got + m
    BY <2>1, <2>2, Zenon DEF Got
  <2>4. Got \in Int
    BY <1>3 DEF Got
  <2>5. Dealt' = Got' - Len(sbuf') + si' - 1
    BY <1>1 DEF Dealt
  <2>6. Len(sbuf') = m /\ si' = 1
    BY <1>1, <1>3
  <2>7. Dealt' = Got
    BY <1>3, <2>3, <2>4, <2>5, <2>6
  <2> QED BY <1>1, <2>3, <2>4, <2>7 DEF Word, Passes, shellVars
<1>6. TypeOK'
  <2>1. Len(up) <= UpSize /\ 1 \in 1 .. BufSize + 1
    BY Sizes DEF TypeOK
  <2>2. Len(up) - m <= UpSize
    BY <1>3, <2>1, Sizes
  <2>3. new \in Seq(Bytes \cup Symbols)
    BY <1>2, SeqMonotonic
  <2>4. m <= BufSize
    BY <1>2 DEF m
  <2>5. /\ sbuf' \in Seq(Bytes \cup Symbols) /\ Len(sbuf') <= BufSize
        /\ up' \in Seq(Bytes) /\ Len(up') <= UpSize
    BY <1>1, <1>2, <1>3, <2>2, <2>3, <2>4
  <2> QED BY <1>1, <2>1, <2>5 DEF TypeOK, shellVars, terminal, client
<1>7. Buffers'
  <2>1. 1 <= m + 1
    BY <1>3
  <2> QED BY <1>1, <1>2, <1>3, <2>1 DEF Buffers, ServerRuns, client
<1>8. InTransit'
  <2>1. /\ Len(up) - m + Len(cbuf) <= nread
        /\ \A k \in 1 .. Len(up) - m : rest[k] = Sent(typed[Got + m + k])
    <3>1. Len(up) - m + Len(cbuf) <= nread
      BY <1>3, <1>4, <1>5
    <3>2. \A k \in 1 .. Len(up) - m : Got + (m + k) = Got + m + k
      BY <1>3, <1>5
    <3>3. \A k \in 1 .. Len(up) - m : rest[k] = Sent(typed[Got + (m + k)])
      BY <1>2, <1>4, <1>5 DEF m
    <3> QED BY <3>1, <3>2, <3>3
  <2>2. \A k \in 1 .. Len(cbuf) : cbuf[k] = Sent(typed[nread - Len(cbuf) + k])
    BY <1>5 DEF InTransit
  <2> QED BY <1>1, <1>3, <1>5, <2>1, <2>2, Zenon DEF InTransit, terminal, client
<1>9. InServer'
  <2>1. m <= Got + m /\ Got + m - m = Got
    BY <1>3, <1>4, <1>5
  <2>2. \A k \in 1 .. m : new[k] = Sent(typed[Got + k])
    <3>1. \A k \in 1 .. m : k \in 1 .. Len(up)
      BY <1>3
    <3> QED BY <1>2, <1>4, <1>5, <3>1 DEF m
  <2>3. /\ Len(sbuf') <= Got' /\ Got' - Len(sbuf') = Got
        /\ \A k \in si' .. Len(sbuf') : sbuf'[k] = Sent(typed[Got + k])
    <3>1. Len(sbuf') = m /\ si' = 1 /\ sbuf' = new /\ Got' = Got + m
      BY <1>1, <1>3, <1>5
    <3>2. Len(sbuf') <= Got' /\ Got' - Len(sbuf') = Got
      BY <1>3, <1>5, <2>1, <3>1
    <3> QED BY <2>2, <3>1, <3>2
  <2>4. typed' = typed
    BY <1>1 DEF terminal
  <2> QED BY <2>3, <2>4 DEF InServer
<1>10. Delivered'
  <2>1. toChildOpen => Len(Word) = Got
    BY <1>4, <1>5 DEF Delivered
  <2> QED BY <1>1, <1>5, <2>1 DEF Delivered, shellVars, terminal
<1> QED BY <1>6, <1>7, <1>8, <1>9, <1>10

\* What the server is looking at, and how it corresponds to what was typed.
LEMMA ByteTyped ==
  ASSUME IInv, Writing("toShell")
  PROVE  /\ Passes /\ si \in 1 .. Len(sbuf) /\ Byte \in Bytes /\ si + 1 \in 1 .. BufSize + 1
         /\ si + 1 <= Len(sbuf) + 1
         /\ Dealt + 1 = Got - Len(sbuf) + si /\ Dealt \in Nat /\ Dealt + 1 \in 1 .. nread
         /\ \/ Byte = Sent(typed[Dealt + 1])
            \/ Byte = "ETX" /\ typed[Dealt + 1] = "INT" /\ (sigint \/ ~Running)
         /\ typed[Dealt + 1] \in Typeable
<1> USE DEF IInv
<1>1. /\ spc = "toShell" /\ Passes /\ si <= Len(sbuf) /\ Len(sbuf) \in Nat /\ si \in Nat /\ si >= 1
      /\ Len(sbuf) <= BufSize /\ Len(sbuf) <= Got /\ Got \in Nat
  BY Lengths, Places DEF Writing, Passes, TypeOK, InServer
<1>2. /\ si \in 1 .. Len(sbuf) /\ si + 1 \in 1 .. BufSize + 1 /\ si + 1 <= Len(sbuf) + 1
      /\ si \in si .. Len(sbuf)
  BY <1>1, Sizes
<1>3. Byte \in Bytes
  BY <1>1, <1>2, ElementOfSeq DEF Byte, Buffers
<1>4. Dealt = Got - Len(sbuf) + si - 1
  BY <1>1 DEF Dealt
<1>5. Dealt + 1 = Got - Len(sbuf) + si /\ Dealt \in Nat
  BY <1>1, <1>4
<1>6. Dealt + 1 \in 1 .. nread
  BY <1>1, <1>2, <1>5, Places
<1>7. \/ Byte = Sent(typed[Dealt + 1])
      \/ Byte = "ETX" /\ typed[Dealt + 1] = "INT" /\ (sigint \/ ~Running)
  BY <1>1, <1>2, <1>5 DEF InServer, Byte
<1>8. typed[Dealt + 1] \in Typeable
  <2>1. Dealt + 1 \in 1 .. Len(typed)
    BY <1>5, <1>6, Lengths
  <2> QED BY <2>1, ElementOfSeq DEF TypeOK
<1> QED BY <1>1, <1>2, <1>3, <1>5, <1>6, <1>7, <1>8

\* ^C: the signal is sent, and the byte becomes the character.
LEMMA ServerInterruptStep ==
  ASSUME IInv, ServerInterrupt PROVE IInv'
<1> USE DEF IInv
<1>1. /\ spc = "toShell" /\ Byte = "INT" /\ sbuf' = [sbuf EXCEPT ![si] = "ETX"]
      /\ sigint' = (sigint \/ Running)
      /\ UNCHANGED <<toChild, toChildOpen, fromChild, shell, taken, owed, produced, terminal,
                     socket, client, spc, srev, si, scode>>
  BY DEF ServerInterrupt, Writing, Interrupt
<1>2. /\ Passes /\ si \in 1 .. Len(sbuf) /\ si \in Nat /\ Len(sbuf) \in Nat
      /\ Dealt + 1 = Got - Len(sbuf) + si
      /\ typed[Dealt + 1] = "INT"
  <2>1. /\ Byte = Sent(typed[Dealt + 1]) \/ Byte = "ETX"
        /\ typed[Dealt + 1] \in {"x", "CR", "INT", "EOT"}
    BY ByteTyped DEF ServerInterrupt, Typeable
  <2>2. typed[Dealt + 1] = "INT"
    BY <1>1, <2>1 DEF Sent
  <2> QED BY <2>2, ByteTyped, Lengths DEF ServerInterrupt
<1>3. /\ sbuf' \in Seq(Bytes) /\ Len(sbuf') = Len(sbuf)
      /\ \A k \in 1 .. Len(sbuf) : sbuf'[k] = IF k = si THEN "ETX" ELSE sbuf[k]
  <2>1. sbuf \in Seq(Bytes) /\ "ETX" \in Bytes
    BY <1>1 DEF Buffers, Bytes
  <2> QED BY <1>1, <1>2, <2>1, ExceptSeq
<1>4. sigint' \in BOOLEAN /\ (sigint => sigint') /\ (sigint' \/ ~Running')
  <2>1. sigint' \in BOOLEAN
    BY <1>1
  <2>2. Running' <=> Running
    BY <1>1 DEF Running
  <2> QED BY <1>1, <2>1, <2>2
<1>5. TypeOK'
  <2>1. sbuf' \in Seq(Bytes \cup Symbols)
    BY <1>3, SeqMonotonic
  <2> QED BY <1>1, <1>3, <1>4, <2>1 DEF TypeOK, terminal, socket, client
<1>6. Buffers'
  BY <1>1, <1>3 DEF Buffers, ServerRuns, socket, client
<1>7. Got' = Got /\ Dealt' = Dealt /\ Word' = Word /\ Passes'
  BY <1>1, <1>2, <1>3 DEF Got, Dealt, Word, Passes, terminal, socket, client
<1>8. InTransit'
  BY <1>1, <1>2, <1>7 DEF InTransit, terminal, socket, client
<1>9. InServer'
  <2> SUFFICES ASSUME NEW k \in si .. Len(sbuf)
               PROVE  \/ sbuf'[k] = Sent(typed[Got - Len(sbuf) + k])
                      \/ /\ k = si /\ sbuf'[k] = "ETX" /\ typed[Got - Len(sbuf) + k] = "INT"
                         /\ sigint' \/ ~Running'
    BY <1>1, <1>2, <1>3, <1>7 DEF InServer, terminal
  <2>1. CASE k = si
    BY <1>2, <1>3, <1>4, <2>1
  <2>2. CASE k # si
    <3>1. k \in 1 .. Len(sbuf)
      BY <1>2
    <3>2. sbuf[k] = Sent(typed[Got - Len(sbuf) + k])
      BY <1>1, <1>2, <2>2 DEF InServer
    <3> QED BY <1>3, <2>2, <3>1, <3>2
  <2> QED BY <2>1, <2>2
<1>10. Delivered'
  BY <1>1, <1>2, <1>4, <1>7 DEF Delivered, terminal
<1> QED BY <1>5, <1>6, <1>8, <1>9, <1>10

\* One byte further in the buffer.
LEMMA OnwardKeeps ==
  ASSUME IInv, Writing("toShell"), Onward,
         UNCHANGED <<terminal, socket, client, sigint, shell>>
  PROVE  /\ Buffers' /\ InTransit' /\ InServer'
         /\ Dealt' = Dealt + 1 /\ Passes' /\ si' \in 1 .. BufSize + 1
<1> USE DEF IInv
<1>1. /\ si' = si + 1 /\ spc = "toShell" /\ spc' = "toShell" /\ UNCHANGED <<sbuf, scode>>
      /\ Passes /\ si \in Nat /\ Len(sbuf) \in Nat
      /\ si + 1 \in 1 .. BufSize + 1 /\ si + 1 <= Len(sbuf) + 1
  BY ByteTyped, Lengths DEF Onward, Writing
<1>2. Passes' /\ Got' = Got
  BY <1>1 DEF Passes, Got, terminal, socket, client
<1>3. Buffers'
  BY <1>1 DEF Buffers, ServerRuns, socket, client
<1>4. InTransit'
  BY <1>1, <1>2 DEF InTransit, terminal, socket, client
<1>5. InServer'
  <2>1. \A k \in si + 1 .. Len(sbuf) : k \in si .. Len(sbuf) /\ k # si
    BY <1>1
  <2>2. /\ Len(sbuf) <= Got
        /\ \A k \in si + 1 .. Len(sbuf) : sbuf[k] = Sent(typed[Got - Len(sbuf) + k])
    BY <1>1, <2>1 DEF InServer
  <2> QED BY <1>1, <1>2, <2>2, Zenon DEF InServer, terminal
<1>6. Dealt' = Dealt + 1
  <2>1. Dealt' = Got - Len(sbuf) + (si + 1) - 1
    BY <1>1, <1>2, Zenon DEF Dealt
  <2>2. Dealt + 1 = Got - Len(sbuf) + si /\ Got \in Int
    BY ByteTyped, Lengths DEF Got
  <2>3. Got - Len(sbuf) + (si + 1) - 1 = Got - Len(sbuf) + si
    BY <1>1, <2>2
  <2> QED BY <2>1, <2>2, <2>3, Zenon
<1> QED BY <1>1, <1>2, <1>3, <1>4, <1>5, <1>6

\* ^D: the pipe is closed, and nothing is delivered any more.
LEMMA ServerEndOfTransmissionStep ==
  ASSUME IInv, ServerEndOfTransmission PROVE IInv'
<1> USE DEF IInv
<1>1. /\ Writing("toShell") /\ toChildOpen' = FALSE /\ Onward
      /\ UNCHANGED <<toChild, fromChild, shell, sigint, taken, owed, produced, terminal, socket,
                     client>>
  BY DEF ServerEndOfTransmission, CloseToChild
<1>2. Buffers' /\ InTransit' /\ InServer' /\ si' \in 1 .. BufSize + 1
  BY <1>1, OnwardKeeps
<1>3. TypeOK'
  <2>1. toChildOpen' \in BOOLEAN
    BY <1>1
  <2>2. UNCHANGED <<sbuf, spc, scode, toChild, fromChild, shell, sigint, taken, owed, produced,
                    terminal, socket, client>>
    BY <1>1 DEF Onward
  <2> QED BY <1>2, <2>1, <2>2 DEF TypeOK, terminal, socket, client
<1>4. Delivered'
  BY <1>1 DEF Delivered, Word, terminal
<1> QED BY <1>2, <1>3, <1>4

\* A byte goes to the shell: it is the next one typed.
LEMMA ServerWriteShellStep ==
  ASSUME IInv, ServerWriteShell PROVE IInv'
<1> USE DEF IInv
<1>1. /\ Writing("toShell") /\ Byte \notin {"INT", "EOT"} /\ UNCHANGED <<terminal, client>>
      /\ spc = "toShell"
  BY DEF ServerWriteShell, Writing
<1>2. CASE WritePipe(Byte) /\ Onward /\ UNCHANGED socket
  <2>1. /\ toChildOpen /\ Running /\ Len(toChild) < PipeSize
        /\ toChild' = Append(toChild, Byte)
        /\ UNCHANGED <<toChildOpen, fromChild, shell, sigint, taken, owed, produced>>
    BY <1>2 DEF WritePipe
  <2>2. /\ Byte \in Bytes /\ Passes /\ Dealt \in Nat /\ Dealt + 1 \in 1 .. nread
        /\ \/ Byte = Sent(typed[Dealt + 1])
           \/ Byte = "ETX" /\ typed[Dealt + 1] = "INT" /\ sigint
        /\ typed[Dealt + 1] \in {"x", "CR", "INT", "EOT"}
    BY <1>1, <2>1, ByteTyped DEF Typeable
  <2>3. Buffers' /\ InTransit' /\ InServer' /\ Dealt' = Dealt + 1 /\ si' \in 1 .. BufSize + 1
    BY <1>1, <1>2, <2>1, OnwardKeeps
  <2>4. TypeOK'
    <3>1. /\ toChild \in Seq(Bytes) /\ Len(toChild) \in Nat
          /\ Append(toChild, Byte) \in Seq(Bytes)
          /\ Len(Append(toChild, Byte)) = Len(toChild) + 1
      BY <2>2, AppendProperties, LenProperties DEF TypeOK
    <3>2. Len(toChild) + 1 <= PipeSize
      BY <2>1, <3>1, Sizes
    <3> QED BY <1>1, <1>2, <2>1, <2>3, <3>1, <3>2 DEF TypeOK, Onward, terminal, socket, client
  <2>5. Delivered'
    <3>1. Word' = Append(Word, Byte) /\ Word \in Seq(Bytes) /\ Len(Word) = Dealt
      <4>1. Word' = taken \o Append(toChild, Byte)
        BY <2>1 DEF Word
      <4>2. taken \o Append(toChild, Byte) = Append(Word, Byte)
        <5>1. taken \in Seq(Bytes) /\ toChild \in Seq(Bytes) /\ Byte \in Bytes
          BY <2>2 DEF TypeOK
        <5>2. taken \o Append(toChild, Byte) = Append(taken \o toChild, Byte)
          BY <5>1, WriteAppendsToWord
        <5> QED BY <5>2 DEF Word
      <4> QED BY <2>1, <2>2, <4>1, <4>2, Lengths DEF Delivered
    <3>2. /\ Len(Word') = Dealt + 1 /\ Word'[Dealt + 1] = Byte
          /\ \A n \in 1 .. Dealt : Word'[n] = Word[n]
      BY <2>2, <3>1, AppendProperties
    <3>3. /\ typed[Dealt + 1] # "EOT" /\ Byte = Image(typed[Dealt + 1])
          /\ Byte = "ETX" => sigint
      BY <1>1, <2>2 DEF Image, Sent
    <3>4. ASSUME NEW n \in 1 .. Dealt + 1
          PROVE  /\ n <= nread /\ typed[n] # "EOT" /\ Word'[n] = Image(typed[n])
                 /\ Word'[n] = "ETX" => sigint
      <4>1. CASE n = Dealt + 1
        BY <2>2, <3>2, <3>3, <4>1, Lengths
      <4>2. CASE n # Dealt + 1
        <5>1. n \in 1 .. Dealt
          BY <2>2, <4>2
        <5> QED BY <3>1, <3>2, <5>1 DEF Delivered
      <4> QED BY <4>1, <4>2
    <3> QED BY <1>1, <2>1, <2>3, <3>2, <3>4 DEF Delivered, terminal
  <2> QED BY <2>3, <2>4, <2>5
<1>3. CASE ~WritePipe(Byte)
  <2>1. /\ UNCHANGED <<shellVars, up, down, downReset, sbuf, si>>
        /\ spc' \in {"clean", "ended"} /\ scode' \in {0, 1}
    BY <1>3 DEF ServerWriteShell, ServerExit, ServerAt, socket, TypeOK
  <2>2. upReset' \in BOOLEAN /\ (upReset' => upReset \/ spc' = "ended")
    <3>1. CASE ServerExit(1)
      BY <3>1 DEF ServerExit
    <3>2. CASE UNCHANGED socket
      BY <3>2 DEF socket, TypeOK
    <3> QED BY <1>3, <3>1, <3>2 DEF ServerWriteShell
  <2>3. TypeOK'
    BY <1>1, <2>1, <2>2 DEF TypeOK, shellVars, terminal, client
  <2>4. Buffers'
    BY <1>1, <2>1, <2>2 DEF Buffers, ServerRuns, client
  <2>5. InTransit' /\ InServer' /\ Delivered'
    BY <1>1, <2>1, NothingMoves DEF Passes, Word, Running, shellVars, terminal, client
  <2> QED BY <2>3, <2>4, <2>5
<1> QED BY <1>2, <1>3 DEF ServerWriteShell, PipeBad, PipeBroken, WritePipe

-----------------------------------------------------------------------------
(* The theorems.                                                           *)

\* The invariant is inductive.
THEOREM Inductive == Spec => []IInv
<1>1. Init => IInv
  BY Initially
<1>2. IInv /\ [Next]_vars => IInv'
  <2> SUFFICES ASSUME IInv, [Next]_vars PROVE IInv'
    OBVIOUS
  <2>1. CASE UNCHANGED vars
    <3>1. UNCHANGED <<shellVars, terminal, socket, client, server>>
      BY <2>1 DEF vars
    <3>2. TypeOK' /\ Buffers'
      BY <3>1 DEF IInv, TypeOK, Buffers, ServerRuns, shellVars, terminal, socket, client, server
    <3>3. InTransit' /\ InServer' /\ Delivered'
      BY <3>1, NothingMoves DEF Passes, Word, Running, IInv, InServer, shellVars, terminal, socket,
                                client, server
    <3> QED BY <3>2, <3>3 DEF IInv
  <2>2. CASE Type
    BY <2>2, TypeStep
  <2>3. CASE ClientIsKilled \/ ClientStep
    BY <2>3, ClientElsewhere, ClientReadStdinStep, ClientSendStep, ClientSendRestStep DEF ClientStep
  <2>4. CASE ServerStep
    BY <2>4, ServerControlStep, ServerOutputStep, ServerReadSocketStep, ServerInterruptStep,
       ServerEndOfTransmissionStep, ServerWriteShellStep DEF ServerStep
  <2>5. CASE ForkedStep
    BY <2>5, ForkedStepKeeps
  <2> QED BY <2>1, <2>2, <2>3, <2>4, <2>5 DEF Next, AtRest
<1> QED BY <1>1, <1>2, PTL DEF Spec

\* Type correctness: no buffer, pipe or connection is filled past its size.
THEOREM TypeCorrect == Spec => []TypeOK
<1>1. IInv => TypeOK
  BY DEF IInv
<1> QED BY <1>1, Inductive, PTL

\* What has been passed to the shell is a prefix of what was typed before ^D: nothing
\* is duplicated, reordered or passed on after it, whatever the sizes of the buffers
\* on the way, and whoever ends first.
THEOREM InOrder == Spec => []InputInOrder
<1>1. ASSUME IInv PROVE InputInOrder
  <2> USE <1>1 DEF IInv
  <2> DEFINE s == BeforeEOT(typed)
             o == [n \in DOMAIN s |-> IF s[n] = "INT" THEN "ETX" ELSE Sent(s[n])]
             w == Len(Word)
             l == Len(s)
  <2>1. /\ typed \in Seq(Typeable) /\ Len(typed) \in Nat
        /\ Word \in Seq(Bytes) /\ w \in Nat /\ nread \in Nat /\ nread <= Len(typed)
    BY Lengths, LenProperties DEF TypeOK
  <2> HIDE DEF w
  <2>2. w <= Len(typed) /\ \A n \in 1 .. w : typed[n] # "EOT"
    <3>1. \A n \in 1 .. w : n <= nread /\ typed[n] # "EOT"
      BY DEF Delivered, w
    <3>2. w = 0 \/ w \in 1 .. w
      BY <2>1
    <3> QED BY <2>1, <3>1, <3>2
  <2>3. /\ s \in Seq(Typeable) /\ l \in w .. Len(typed) /\ DOMAIN s = 1 .. l
        /\ \A n \in 1 .. l : s[n] = typed[n] /\ typed[n] \in Typeable
    BY <2>1, <2>2, BeforeEOTIs
  <2> HIDE DEF s, l
  <2>4. l \in Nat /\ w <= l
    BY <2>1, <2>3
  <2>5. /\ o \in Seq(Bytes) /\ Len(o) = l
        /\ \A n \in 1 .. l : o[n] = Image(typed[n])
    <3>1. \A n \in 1 .. l : (IF s[n] = "INT" THEN "ETX" ELSE Sent(s[n])) \in Bytes
      BY <2>3 DEF Sent, Bytes, Typeable
    <3>2. o \in [1 .. l -> Bytes]
      BY <2>3, <3>1
    <3>3. o \in Seq(Bytes)
      BY <2>4, <3>2, SeqDef
    <3>4. Len(o) \in Nat /\ DOMAIN o = 1 .. Len(o)
      BY <3>3, LenProperties
    <3>5. DOMAIN o = 1 .. l
      BY <2>3
    <3>6. Len(o) = l
      <4>1. Len(o) \in Nat /\ 1 .. Len(o) = 1 .. l
        BY <3>4, <3>5
      <4>2. \A a \in Nat, b \in Nat : 1 .. a = 1 .. b => a = b
        OBVIOUS
      <4> QED BY <2>4, <4>1, <4>2
    <3>7. \A n \in 1 .. l : o[n] = Image(typed[n])
      BY <2>3 DEF Image
    <3> QED BY <3>3, <3>6, <3>7
  <2> HIDE DEF o
  <2>6. StartsWith(o, Word)
    <3>1. \A n \in 1 .. w : n \in 1 .. l
      BY <2>1, <2>4
    <3>2. \A n \in 1 .. w : Word[n] = Image(typed[n])
      BY DEF Delivered, w
    <3> QED BY <2>4, <2>5, <3>1, <3>2 DEF StartsWith, w
  <2>7. IsPrefix(Word, o)
    BY <2>1, <2>5, <2>6, PrefixIs
  <2>8. Offered = o
    BY DEF Offered, o, s
  <2> QED BY <2>7, <2>8 DEF InputInOrder, Word
<1> QED BY <1>1, Inductive, PTL

\* Before the shell gets the character ^C it has got the signal.
THEOREM SignalFirst == Spec => []SignalBeforeCharacter
<1>1. ASSUME IInv PROVE SignalBeforeCharacter
  <2>1. DOMAIN Word = 1 .. Len(Word)
    BY <1>1, Lengths, LenProperties DEF IInv
  <2> QED BY <1>1, <2>1 DEF IInv, Delivered, SignalBeforeCharacter, Word
<1> QED BY <1>1, Inductive, PTL
-----------------------------------------------------------------------------
(* What the shell prints reaches the client's screen in order.             *)

Kinds == Symbols \ {"EOT"}
Echo == {"x", "CRLF", "INT", "EOT"}
Pending == down \o InBuffer \o fromChild

\* The echo is told apart from what the shell prints; the server's connection is
\* refused only when the client has gone.
Displayed ==
  /\ screen \in Seq(Symbols \cup Echo)
  /\ spc = "toClient" => si <= Len(sbuf) + 1
  /\ downReset => ~ClientRuns

OutputInv == IInv /\ Displayed /\ OutputAccounted

\* The rest of the server's buffer.
LEMMA InBufferIs ==
  ASSUME IInv, Displayed
  PROVE  /\ InBuffer \in Seq(Symbols) /\ fromChild \in Seq(Symbols) /\ down \in Seq(Symbols)
         /\ down \o InBuffer \in Seq(Symbols) /\ Pending \in Seq(Symbols)
         /\ spc = "toClient" /\ si > Len(sbuf) => InBuffer = <<>>
<1>1. fromChild \in Seq(Symbols) /\ down \in Seq(Symbols) /\ <<>> \in Seq(Symbols)
  BY EmptySeq DEF IInv, TypeOK
<1>2. ASSUME spc = "toClient"
      PROVE  InBuffer \in Seq(Symbols) /\ (si > Len(sbuf) => InBuffer = <<>>)
  <2>1. sbuf \in Seq(Symbols) /\ si \in Nat /\ si >= 1 /\ si <= Len(sbuf) + 1 /\ Len(sbuf) \in Nat
    BY <1>2, Lengths DEF Displayed, IInv, Buffers, TypeOK
  <2>2. PICK n \in Nat : n = si - 1
    BY <2>1
  <2>3. n + 1 = si /\ n <= Len(sbuf)
    BY <2>1, <2>2
  <2>4. LET r == SubSeq(sbuf, n + 1, Len(sbuf)) IN r \in Seq(Symbols) /\ Len(r) = Len(sbuf) - n
    BY <2>1, <2>3, SuffixIs
  <2>5. InBuffer = SubSeq(sbuf, n + 1, Len(sbuf))
    BY <1>2, <2>3 DEF InBuffer
  <2>6. ASSUME si > Len(sbuf) PROVE InBuffer = <<>>
    <3>1. Len(InBuffer) = 0
      BY <2>1, <2>2, <2>4, <2>5, <2>6
    <3> QED BY <2>4, <2>5, <3>1, EmptySeq
  <2> QED BY <2>4, <2>5, <2>6
<1>3. InBuffer \in Seq(Symbols)
  BY <1>1, <1>2 DEF InBuffer
<1>4. down \o InBuffer \in Seq(Symbols)
  BY <1>1, <1>3, ConcatProperties
<1>5. Pending \in Seq(Symbols)
  BY <1>1, <1>4, ConcatProperties DEF Pending
<1> QED BY <1>1, <1>2, <1>3, <1>4, <1>5

\* What is kept is a sequence of what appears on the screen.
LEMMA KeptOnScreen ==
  ASSUME NEW s \in Seq(Symbols)
  PROVE  s \in Seq(Symbols \cup Echo) /\ Kept(s, Kinds) \in Seq(Symbols \cup Echo)
<1>1. s \in Seq(Symbols \cup Echo)
  <2>1. s \in [1 .. Len(s) -> Symbols] /\ Len(s) \in Nat
    BY LenProperties
  <2>2. s \in [1 .. Len(s) -> Symbols \cup Echo]
    BY <2>1
  <2> QED BY <2>1, <2>2, SeqDef
<1> QED BY <1>1, KeptIsSeq

\* Steps that neither print nor show.
LEMMA NothingShown ==
  ASSUME OutputInv, UNCHANGED produced, ClientRuns' => ClientRuns, OnScreen' = OnScreen,
         Printed(Pending)' = Printed(Pending)
  PROVE  OutputAccounted'
BY DEF OutputInv, OutputAccounted, Pending, Printed

\* Steps that move nothing of it.
LEMMA NothingPrinted ==
  ASSUME OutputInv, UNCHANGED <<screen, produced, down, fromChild>>,
         ClientRuns' => ClientRuns, downReset' => downReset \/ ~ClientRuns',
         spc' = "toClient" => spc = "toClient" /\ UNCHANGED <<sbuf, si>>,
         spc = "toClient" /\ spc' # "toClient" => si > Len(sbuf) \/ ~ClientRuns'
  PROVE  Displayed' /\ OutputAccounted'
<1>1. Displayed'
  BY DEF OutputInv, Displayed
<1>2. ASSUME ClientRuns' PROVE InBuffer' = InBuffer
  <2>1. CASE spc' = "toClient"
    BY <2>1 DEF InBuffer
  <2>2. CASE spc' # "toClient" /\ spc # "toClient"
    BY <2>2 DEF InBuffer
  <2>3. CASE spc' # "toClient" /\ spc = "toClient"
    <3>1. InBuffer = <<>>
      BY <1>2, <2>3, InBufferIs DEF OutputInv
    <3> QED BY <2>3, <3>1 DEF InBuffer
  <2> QED BY <2>1, <2>2, <2>3
<1>3. ASSUME ClientRuns' PROVE OutputAccounted'
  BY <1>2, <1>3, NothingShown DEF OnScreen, Printed, Pending
<1>4. OutputAccounted'
  BY <1>3 DEF OutputAccounted
<1> QED BY <1>1, <1>4

\* The shell prints.
LEMMA PrintAccounted ==
  ASSUME OutputInv, Forked(ShellWrites)  PROVE Displayed' /\ OutputAccounted'
<1>1. UNCHANGED <<terminal, down, downReset, client, server>>
  BY DEF Forked
<1>2. PICK c \in Symbols : /\ fromChild' = Append(fromChild, c)
                           /\ produced' = Append(produced, c)
  BY DEF Forked, ShellWrites
<1>3. /\ InBuffer' = InBuffer /\ OnScreen' = OnScreen /\ (ClientRuns' <=> ClientRuns) /\ Displayed'
  BY <1>1 DEF InBuffer, OnScreen, Printed, Displayed, ClientRuns, OutputInv, terminal, client, server
<1> SUFFICES ASSUME ClientRuns PROVE Kept(produced', Kinds) = OnScreen \o Kept(Pending', Kinds)
  BY <1>3 DEF OutputAccounted, Printed, Pending, Kinds
<1>4. /\ down \o InBuffer \in Seq(Symbols) /\ fromChild \in Seq(Symbols) /\ Pending \in Seq(Symbols)
      /\ produced \in Seq(Symbols) /\ screen \in Seq(Symbols \cup Echo)
  BY InBufferIs DEF OutputInv, IInv, TypeOK, Displayed
<1> DEFINE d == down \o InBuffer
<1>5. d \o Append(fromChild, c) = Append(d \o fromChild, c)
  <2>1. d \in Seq(Symbols)
    BY <1>4
  <2> HIDE DEF d
  <2> QED BY <1>4, <2>1, WriteAppendsToWord
<1>6. Pending' = Append(Pending, c)
  BY <1>1, <1>2, <1>3, <1>5 DEF Pending
<1>7. /\ Kept(Append(produced, c), Kinds) =
           IF c \in Kinds THEN Append(Kept(produced, Kinds), c) ELSE Kept(produced, Kinds)
      /\ Kept(Append(Pending, c), Kinds) =
           IF c \in Kinds THEN Append(Kept(Pending, Kinds), c) ELSE Kept(Pending, Kinds)
  <2>1. produced \in Seq(Symbols) /\ Pending \in Seq(Symbols) /\ c \in Symbols
    BY <1>4
  <2>2. Kept(Append(produced, c), Kinds) =
          IF c \in Kinds THEN Append(Kept(produced, Kinds), c) ELSE Kept(produced, Kinds)
    BY ONLY <2>1, KeptAppend
  <2>3. Kept(Append(Pending, c), Kinds) =
          IF c \in Kinds THEN Append(Kept(Pending, Kinds), c) ELSE Kept(Pending, Kinds)
    BY ONLY <2>1, KeptAppend
  <2> QED BY <2>2, <2>3
<1> DEFINE P == Kept(Pending, Kinds)
<1>8. OnScreen \in Seq(Symbols \cup Echo) /\ P \in Seq(Symbols \cup Echo)
  BY <1>4, KeptIsSeq, KeptOnScreen DEF OnScreen, Printed
<1>9. Kept(produced, Kinds) = OnScreen \o P
  BY DEF OutputInv, OutputAccounted, Printed, Pending, Kinds
<1> HIDE DEF P, d
<1>10. OnScreen \o Append(P, c) = Append(OnScreen \o P, c)
  BY <1>8, WriteAppendsToWord
<1>11. CASE c \in Kinds
  BY <1>2, <1>6, <1>7, <1>9, <1>10, <1>11 DEF P
<1>12. CASE c \notin Kinds
  BY <1>2, <1>6, <1>7, <1>9, <1>12 DEF P
<1> QED BY <1>11, <1>12

\* The server reads a buffer of what the shell printed.
LEMMA ServerReadShellAccounted ==
  ASSUME OutputInv, ServerReadShell  PROVE Displayed' /\ OutputAccounted'
<1> DEFINE new == Chunk(fromChild, BufSize)
           rest == Rest(fromChild, BufSize)
<1>1. /\ sbuf' = new /\ fromChild' = rest /\ si' = 1 /\ spc = "shell" /\ spc' = "toClient"
      /\ UNCHANGED <<produced, screen, down, downReset, client>>
  BY DEF ServerReadShell, TakeOutput, terminal, socket
<1>2. fromChild \in Seq(Symbols) /\ BufSize \in Nat /\ down \in Seq(Symbols)
  BY Sizes DEF OutputInv, IInv, TypeOK
<1>3. new \in Seq(Symbols) /\ rest \in Seq(Symbols) /\ new \o rest = fromChild
  BY <1>2, ChunkAndRest, ChunkThenRest
<1> HIDE DEF new, rest
<1>4. Len(new) \in Nat /\ 1 <= Len(new) + 1
  BY <1>3, LenProperties
<1>5. Displayed' /\ (ClientRuns' <=> ClientRuns)
  BY <1>1, <1>4 DEF Displayed, OutputInv, ClientRuns, client
<1>6. SubSeq(new, 1, Len(new)) = new
  BY <1>3, WholeIs
<1>7. InBuffer = <<>> /\ InBuffer' = new
  BY <1>1, <1>6 DEF InBuffer
<1>8. Pending' = Pending
  <2>1. down \o <<>> = down
    BY <1>2, ConcatEmptySeq
  <2>2. (down \o new) \o rest = down \o (new \o rest)
    <3>1. new \in Seq(Symbols) /\ rest \in Seq(Symbols) /\ down \in Seq(Symbols)
      BY <1>2, <1>3
    <3> QED BY ONLY <3>1, ConcatAssociative
  <2> QED BY <1>1, <1>3, <1>7, <2>1, <2>2 DEF Pending
<1>9. OnScreen' = OnScreen /\ Printed(Pending)' = Printed(Pending)
  BY <1>1, <1>8 DEF OnScreen, Printed
<1> QED BY <1>1, <1>5, <1>9, NothingShown

\* The server writes a symbol to its client, or leaves out a ^D.
LEMMA ServerWriteClientAccounted ==
  ASSUME OutputInv, ServerWriteClient  PROVE Displayed' /\ OutputAccounted'
<1> DEFINE b == sbuf[si]
<1>1. /\ spc = "toClient" /\ si <= Len(sbuf) /\ UNCHANGED <<screen, produced, fromChild, client>>
      /\ ClientRuns' <=> ClientRuns
  BY DEF ServerWriteClient, Writing, CloseToChild, ClientRuns, shellVars, terminal, client
<1>2. /\ sbuf \in Seq(Symbols) /\ si \in Nat /\ si >= 1 /\ Len(sbuf) \in Nat
      /\ fromChild \in Seq(Symbols) /\ down \in Seq(Symbols)
  BY <1>1, Lengths DEF OutputInv, Buffers, IInv, TypeOK
<1>3. si \in 1 .. Len(sbuf) /\ si + 1 <= Len(sbuf) + 1
  BY <1>1, <1>2
<1>4. b \in Symbols
  BY <1>2, <1>3, ElementOfSeq
<1>5. downReset' => ~ClientRuns
  BY DEF ServerWriteClient, ServerAt, ServerExit, OutputInv, Displayed, socket
<1>6. CASE ~ClientRuns
  <2>1. spc' = "toClient" => si' <= Len(sbuf') + 1
    BY <1>1, <1>3 DEF ServerWriteClient, Onward, ServerAt, ServerExit
  <2> QED BY <1>1, <1>5, <1>6, <2>1 DEF Displayed, OutputAccounted, OutputInv
<1>7. CASE ClientRuns
  <2>1. /\ si' = si + 1 /\ sbuf' = sbuf /\ spc' = "toClient"
        /\ \/ b = "EOT" /\ down' = down
           \/ b # "EOT" /\ down' = Append(down, b)
    BY <1>1, <1>7 DEF ServerWriteClient, Onward, Byte, OutputInv, Displayed, socket
  <2>2. Displayed'
    BY <1>1, <1>3, <1>5, <2>1 DEF Displayed, OutputInv
  <2> DEFINE r == SubSeq(sbuf, si + 1, Len(sbuf))
  <2>3. InBuffer = <<b>> \o r /\ InBuffer' = r /\ r \in Seq(Symbols)
    BY <1>1, <1>2, <1>3, <2>1, SuffixStep DEF InBuffer
  <2> HIDE DEF b, r
  <2> DEFINE q == r \o fromChild
  <2>4. q \in Seq(Symbols) /\ <<b>> \in Seq(Symbols)
    BY <1>2, <1>4, <2>3, ConcatProperties
  <2>5. Pending = down \o (<<b>> \o q)
    <3>1. <<b>> \o r \in Seq(Symbols)
      BY <2>3, <2>4, ConcatProperties
    <3>2. (down \o (<<b>> \o r)) \o fromChild = down \o ((<<b>> \o r) \o fromChild)
      BY <1>2, <3>1, ConcatAssociative
    <3>3. (<<b>> \o r) \o fromChild = <<b>> \o (r \o fromChild)
      BY <1>2, <2>3, <2>4, ConcatAssociative
    <3> QED BY <2>3, <3>2, <3>3 DEF Pending
  <2>6. CASE b # "EOT"
    <3>1. Append(down, b) = down \o <<b>> /\ Append(down, b) \in Seq(Symbols)
      BY <1>2, <1>4, AppendIsConcat, AppendProperties
    <3>2. (Append(down, b) \o r) \o fromChild = Append(down, b) \o (r \o fromChild)
      <4> DEFINE d == Append(down, b)
      <4>1. d \in Seq(Symbols) /\ r \in Seq(Symbols) /\ fromChild \in Seq(Symbols)
        BY <1>2, <2>3, <3>1
      <4> HIDE DEF d, q
      <4>2. (d \o r) \o fromChild = d \o (r \o fromChild)
        BY ONLY <4>1, ConcatAssociative
      <4> QED BY <4>2 DEF d
    <3>3. (down \o <<b>>) \o q = down \o (<<b>> \o q)
      <4>1. down \in Seq(Symbols) /\ <<b>> \in Seq(Symbols) /\ q \in Seq(Symbols)
        BY <1>2, <2>4
      <4> HIDE DEF q
      <4> QED BY ONLY <4>1, ConcatAssociative
    <3>4. Pending' = Pending
      BY <1>1, <2>1, <2>3, <2>5, <2>6, <3>1, <3>2, <3>3 DEF Pending, q
    <3> QED BY <1>1, <2>2, <3>4, NothingShown DEF OnScreen, Printed
  <2>7. CASE b = "EOT"
    <3>1. Pending' = down \o q
      <4>1. (down \o r) \o fromChild = down \o (r \o fromChild)
        <5>1. down \in Seq(Symbols) /\ r \in Seq(Symbols) /\ fromChild \in Seq(Symbols)
          BY <1>2, <2>3
        <5> HIDE DEF q
        <5> QED BY ONLY <5>1, ConcatAssociative
      <4> QED BY <1>1, <2>1, <2>3, <2>7, <4>1 DEF Pending, q
    <3> DEFINE p == <<b>> \o q
    <3>2. p \in Seq(Symbols) /\ Kept(p, Kinds) = Kept(q, Kinds)
      <4>1. b \notin Kinds
        BY <2>7 DEF Kinds
      <4> HIDE DEF q
      <4> QED BY ONLY <1>4, <2>4, <4>1, KeptFirst, ConcatProperties
    <3> HIDE DEF p, q
    <3>3. Kept(down \o p, Kinds) = Kept(down \o q, Kinds)
      <4>0. down \in Seq(Symbols)
        BY <1>2
      <4>1. Kept(down \o p, Kinds) = Kept(down, Kinds) \o Kept(p, Kinds)
        BY ONLY <4>0, <3>2, KeptConcat
      <4>2. Kept(down \o q, Kinds) = Kept(down, Kinds) \o Kept(q, Kinds)
        BY ONLY <4>0, <2>4, KeptConcat
      <4> QED BY <3>2, <4>1, <4>2
    <3>4. Printed(Pending)' = Printed(Pending)
      BY <2>5, <3>1, <3>3 DEF Printed, Kinds, p
    <3> QED BY <1>1, <2>2, <3>4, NothingShown DEF OnScreen, Printed
  <2> QED BY <2>6, <2>7
<1> QED BY <1>6, <1>7

\* A sequence in which each character is replaced.
LEMMA EachShown ==
  ASSUME NEW A, NEW B, NEW s \in Seq(A), \A c \in A : Shown(c) \in B
  PROVE  /\ Each(Shown, s) \in Seq(B) /\ Len(Each(Shown, s)) = Len(s)
         /\ \A n \in 1 .. Len(s) : Each(Shown, s)[n] = Shown(s[n]) /\ s[n] \in A
<1> DEFINE e == Each(Shown, s)
<1>1. DOMAIN s = 1 .. Len(s) /\ Len(s) \in Nat /\ \A n \in 1 .. Len(s) : s[n] \in A
  BY LenProperties, ElementOfSeq
<1>2. e = [n \in 1 .. Len(s) |-> Shown(s[n])]
  BY <1>1 DEF Each
<1>3. e \in [1 .. Len(s) -> B]
  BY <1>1, <1>2
<1>4. e \in Seq(B)
  BY <1>1, <1>3, SeqDef
<1>5. Len(e) \in Nat /\ DOMAIN e = 1 .. Len(e) /\ DOMAIN e = 1 .. Len(s)
  BY <1>2, <1>4, LenProperties
<1>6. \A a, b \in Nat : 1 .. a = 1 .. b => a = b
  OBVIOUS
<1>7. \A n \in 1 .. Len(s) : e[n] = Shown(s[n])
  BY <1>2
<1> HIDE DEF e
<1> QED BY <1>1, <1>4, <1>5, <1>6, <1>7 DEF e

\* The client echoes what it reads from the terminal.
LEMMA ClientReadStdinAccounted ==
  ASSUME OutputInv, ClientReadStdin  PROVE Displayed' /\ OutputAccounted'
<1> DEFINE chunk == Chunk(Unread, BufSize)
           e == Each(Shown, chunk)
<1>1. /\ screen' = screen \o e /\ cpc = "stdin" /\ cpc' = "send"
      /\ UNCHANGED <<produced, fromChild, down, downReset, spc, sbuf, si>>
  BY DEF ClientReadStdin, shellVars, socket, server
<1>2. chunk \in Seq(Typeable)
  <2>1. typed \in Seq(Typeable) /\ nread \in Nat /\ nread <= Len(typed)
    BY Lengths DEF OutputInv, IInv, TypeOK
  <2>2. Unread \in Seq(Typeable)
    BY <2>1, SuffixIs DEF Unread
  <2> QED BY <2>2, Sizes, ChunkAndRest
<1> HIDE DEF chunk
<1>3. /\ e \in Seq(Echo)
      /\ \A n \in 1 .. Len(e) : e[n] \in Echo
  <2>1. \A c \in Typeable : Shown(c) \in Echo
    BY DEF Shown, Echo, Typeable
  <2>2. e \in Seq(Echo)
    BY <1>2, <2>1, EachShown
  <2> HIDE DEF e
  <2> QED BY <2>2, ElementOfSeq
<1> HIDE DEF e
<1>4. e \in Seq(Symbols \cup Echo)
  <2>1. e \in [1 .. Len(e) -> Echo] /\ Len(e) \in Nat
    BY <1>3, LenProperties
  <2>2. e \in [1 .. Len(e) -> Symbols \cup Echo]
    BY <2>1
  <2> QED BY <2>1, <2>2, SeqDef
<1>5. screen \in Seq(Symbols \cup Echo)
  BY DEF OutputInv, Displayed
<1>6. Kept(e, Kinds) = <<>>
  <2>1. \A c \in Echo : c \notin Kinds
    BY SymbolsAssumption DEF Echo, Kinds
  <2> QED BY <1>3, <1>4, <2>1, KeptNone
<1>7. OnScreen' = OnScreen
  <2>1. Kept(screen \o e, Kinds) = Kept(screen, Kinds) \o Kept(e, Kinds)
    BY <1>4, <1>5, KeptConcat
  <2>2. Kept(screen, Kinds) \o <<>> = Kept(screen, Kinds)
    BY <1>5, KeptIsSeq, ConcatEmptySeq
  <2> QED BY <1>1, <1>6, <2>1, <2>2 DEF OnScreen, Printed, Kinds
<1>8. screen' \in Seq(Symbols \cup Echo)
  BY <1>1, <1>4, <1>5, ConcatProperties
<1>9. ClientRuns /\ ClientRuns'
  BY <1>1 DEF ClientRuns
<1>10. Displayed'
  BY <1>1, <1>8, <1>9 DEF Displayed, OutputInv
<1>11. Printed(Pending)' = Printed(Pending)
  BY <1>1 DEF Printed, Pending, InBuffer
<1> QED BY <1>1, <1>7, <1>9, <1>10, <1>11, NothingShown

\* The client shows what comes from the server.
LEMMA ClientReadSocketAccounted ==
  ASSUME OutputInv, ClientReadSocket, down # <<>>  PROVE Displayed' /\ OutputAccounted'
<1> DEFINE chunk == Chunk(down, BufSize)
           rest == Rest(down, BufSize)
           e == Each(Shown, chunk)
<1>1. /\ screen' = screen \o e /\ down' = rest /\ cpc = "socket" /\ cpc' = "hup"
      /\ UNCHANGED <<produced, fromChild, downReset, spc, sbuf, si>>
  BY DEF ClientReadSocket, shellVars, server
<1>2. /\ down \in Seq(Symbols) /\ BufSize \in Nat /\ InBuffer \in Seq(Symbols)
      /\ fromChild \in Seq(Symbols) /\ screen \in Seq(Symbols \cup Echo)
      /\ produced \in Seq(Symbols)
  BY Sizes, InBufferIs DEF OutputInv, IInv, TypeOK, Displayed
<1>3. chunk \in Seq(Symbols) /\ rest \in Seq(Symbols) /\ chunk \o rest = down
  BY <1>2, ChunkAndRest, ChunkThenRest
<1> HIDE DEF chunk, rest
<1>4. e = chunk
  <2>1. \A c \in Symbols : Shown(c) = c
    BY SymbolsAssumption DEF Shown
  <2>2. \A c \in Symbols : Shown(c) \in Symbols
    BY <2>1
  <2>3. /\ e \in Seq(Symbols) /\ Len(e) = Len(chunk)
        /\ \A n \in 1 .. Len(chunk) : e[n] = Shown(chunk[n]) /\ chunk[n] \in Symbols
    BY <1>3, <2>2, EachShown
  <2> HIDE DEF e
  <2> QED BY <1>3, <2>1, <2>3, SeqEqual
<1> DEFINE t == InBuffer \o fromChild
           q == rest \o t
<1>5. t \in Seq(Symbols) /\ q \in Seq(Symbols)
  BY <1>2, <1>3, ConcatProperties
<1>6. Pending = chunk \o q /\ Pending' = q
  <2>1. (down \o InBuffer) \o fromChild = down \o t
    BY <1>2, ConcatAssociative
  <2>2. (rest \o InBuffer) \o fromChild = rest \o t
    <3>1. rest \in Seq(Symbols) /\ InBuffer \in Seq(Symbols) /\ fromChild \in Seq(Symbols)
      BY <1>2, <1>3
    <3> QED BY ONLY <3>1, ConcatAssociative
  <2>3. (chunk \o rest) \o t = chunk \o (rest \o t)
    <3> HIDE DEF t
    <3>1. chunk \in Seq(Symbols) /\ rest \in Seq(Symbols) /\ t \in Seq(Symbols)
      BY <1>3, <1>5
    <3> QED BY ONLY <3>1, ConcatAssociative
  <2>4. InBuffer' = InBuffer
    BY <1>1 DEF InBuffer
  <2> QED BY <1>1, <1>3, <2>1, <2>2, <2>3, <2>4 DEF Pending
<1> HIDE DEF t, q
<1>7. Kept(Pending, Kinds) = Kept(chunk, Kinds) \o Kept(q, Kinds)
  <2>1. chunk \in Seq(Symbols) /\ q \in Seq(Symbols)
    BY <1>3, <1>5
  <2>2. Kept(chunk \o q, Kinds) = Kept(chunk, Kinds) \o Kept(q, Kinds)
    BY ONLY <2>1, KeptConcat
  <2> QED BY <1>6, <2>2
<1>8. chunk \in Seq(Symbols \cup Echo)
  BY <1>3, KeptOnScreen
<1>9. OnScreen' = OnScreen \o Kept(chunk, Kinds)
  <2>1. Kept(screen \o chunk, Kinds) = Kept(screen, Kinds) \o Kept(chunk, Kinds)
    BY <1>2, <1>8, KeptConcat
  <2> QED BY <1>1, <1>4, <2>1 DEF OnScreen, Printed, Kinds
<1>10. ClientRuns /\ ClientRuns'
  BY <1>1 DEF ClientRuns
<1>11. Displayed'
  <2>1. screen' \in Seq(Symbols \cup Echo)
    BY <1>1, <1>2, <1>4, <1>8, ConcatProperties
  <2> QED BY <1>1, <1>10, <2>1 DEF Displayed, OutputInv
<1>12. Kept(produced, Kinds) = OnScreen \o (Kept(chunk, Kinds) \o Kept(q, Kinds))
  BY <1>7, <1>10 DEF OutputInv, OutputAccounted, Printed, Pending, Kinds
<1>13. (OnScreen \o Kept(chunk, Kinds)) \o Kept(q, Kinds)
         = OnScreen \o (Kept(chunk, Kinds) \o Kept(q, Kinds))
  <2>1. OnScreen \in Seq(Symbols \cup Echo)
    BY <1>2, KeptIsSeq DEF OnScreen, Printed
  <2>2. Kept(chunk, Kinds) \in Seq(Symbols \cup Echo) /\ Kept(q, Kinds) \in Seq(Symbols \cup Echo)
    BY <1>3, <1>5, KeptOnScreen
  <2> QED BY <2>1, <2>2, ConcatAssociative
<1>14. Kept(produced', Kinds) = OnScreen' \o Kept(Pending', Kinds)
  BY <1>1, <1>6, <1>9, <1>12, <1>13
<1> QED BY <1>11, <1>14 DEF OutputAccounted, Printed, Pending, Kinds

\* While there is a client, everything the shell printed is on its screen, on the
\* connection, in the server's buffer or in the pipe, in this order.
THEOREM NothingLost == Spec => []OutputAccounted
<1>1. Init => Displayed /\ OutputAccounted
  <2> SUFFICES ASSUME Init PROVE Displayed /\ OutputAccounted
    OBVIOUS
  <2>1. /\ screen = <<>> /\ produced = <<>> /\ fromChild = <<>> /\ down = <<>> /\ spc = "poll"
        /\ downReset = FALSE
    BY DEF Init, ShellInit, ClientInit, ServerInit
  <2>2. <<>> \in Seq(Symbols \cup Echo) /\ <<>> \o <<>> = <<>>
    BY EmptySeq, ConcatEmptySeq
  <2>3. Printed(<<>>) = <<>>
    BY KeptEmpty DEF Printed
  <2>4. InBuffer = <<>>
    BY <2>1 DEF InBuffer
  <2> QED BY <2>1, <2>2, <2>3, <2>4 DEF Displayed, OutputAccounted, OnScreen
<1>2. OutputInv /\ IInv' /\ [Next]_vars => OutputInv'
  <2> SUFFICES ASSUME OutputInv, IInv', [Next]_vars PROVE Displayed' /\ OutputAccounted'
    BY DEF OutputInv
  <2>1. CASE Forked(ShellPrints) /\ ServerRuns
    BY <2>1, PrintAccounted DEF ShellPrints
  <2>2. CASE ServerReadShell
    BY <2>2, ServerReadShellAccounted
  <2>3. CASE ServerWriteClient
    BY <2>3, ServerWriteClientAccounted
  <2>4. CASE ClientReadStdin
    BY <2>4, ClientReadStdinAccounted
  <2>5. CASE ClientReadSocket /\ down # <<>>
    BY <2>5, ClientReadSocketAccounted
  <2>6. CASE \/ Type \/ ClientIsKilled \/ ClientPoll \/ ClientSend \/ ClientSendRest
             \/ ClientReadSocket /\ down = <<>>
             \/ ClientHangup \/ ClientNotReady
    BY <2>6, NothingPrinted DEF Type, ClientIsKilled, ClientPoll, ClientSend, ClientSendRest,
       SendWhatFits, ClientReadSocket, ClientHangup, ClientNotReady, ClientExit, ClientRuns, shellVars, terminal, socket, client,
       server
  <2>7. CASE ServerPoll \/ ServerReadSocket \/ ServerHangup \/ ServerNotReady \/ Written
    BY <2>7, NothingPrinted DEF ServerPoll, ServerReadSocket, ServerHangup, ServerNotReady, Written,
       ServerAt, ClientRuns, shellVars, terminal, socket, client
  <2>8. CASE ServerReadFails \/ ServerCleans
    BY <2>8, NothingPrinted DEF ServerReadFails, ServerCleans, ServerExit, Reap, Dies, ServerAt,
       ClientRuns, shellVars, terminal, socket, client
  <2>9. CASE ServerInterrupt \/ ServerEndOfTransmission \/ ServerWriteShell
    BY <2>9, NothingPrinted DEF ServerInterrupt, Interrupt, ServerEndOfTransmission, CloseToChild,
       ServerWriteShell, WritePipe, ServerExit, Writing, Onward, ServerAt, ClientRuns, shellVars,
       terminal, socket, client
  <2>10. CASE \/ UNCHANGED vars
              \/ Forked(ShellReads) \/ Forked(ShellAtEOF) \/ Forked(ShellExits)
              \/ Forked(ShellPrints) /\ ~ServerRuns
    BY <2>10, NothingPrinted DEF Forked, ShellReads, ShellPrints, ShellAtEOF, ShellExits, Dies,
       ClientRuns, shellVars, terminal, socket, client, server, vars
  <2> QED BY <2>1, <2>2, <2>3, <2>4, <2>5, <2>6, <2>7, <2>8, <2>9, <2>10 DEF Next, ClientStep,
             ServerStep, ForkedStep, AtRest
<1>3. Spec => []OutputInv
  <2>1. Init /\ IInv => OutputInv
    BY <1>1 DEF OutputInv
  <2> QED BY <1>2, <2>1, Inductive, PTL DEF Spec
<1>4. OutputInv => OutputAccounted
  BY DEF OutputInv
<1> QED BY <1>3, <1>4, PTL
=============================================================================
