---------------------------- MODULE SensorProofs ----------------------------
(***************************************************************************)
(* Proofs about Sensor, for every set of inputs and every size of the line *)
(* buffer: type correctness with the bound of the buffer, at most one more *)
(* report after the program was asked to end, and the refinement of        *)
(* Thermometer: however the input is cut on its way, its lines are obeyed  *)
(* one by one and each as a whole.                                         *)
(***************************************************************************)
EXTENDS Sensor, FiniteSetTheorems, SequenceTheorems, TLAPS

-----------------------------------------------------------------------------
(* Lines.                                                                  *)

Before(s, l) == { j \in NewLines(s) : j <= l }

\* Just after place l of s, a line starts and n lines have ended.
StartsAt(s, n, l) ==
  /\ l \in {0} \cup NewLines(s)
  /\ Cardinality(Before(s, l)) = n

\* There are finitely many ends of lines, and they are places of s.
LEMMA NewLinesFinite ==
  ASSUME NEW s \in Seq(STRING)
  PROVE  /\ NewLines(s) \subseteq 1 .. Len(s)
         /\ IsFiniteSet(NewLines(s))
         /\ LineCount(s) \in Nat
<1>1. NewLines(s) \subseteq 1 .. Len(s)
  BY DEF NewLines
<1>2. IsFiniteSet(1 .. Len(s))
  BY FS_Interval, LenProperties
<1>3. IsFiniteSet(NewLines(s))
  BY <1>1, <1>2, FS_Subset
<1> QED BY <1>1, <1>3, FS_CardinalityType DEF LineCount

\* Among the ends of lines, the place is determined by the number of lines before it.
LEMMA SameCountSamePlace ==
  ASSUME NEW s \in Seq(STRING), NEW i \in NewLines(s), NEW l \in NewLines(s),
         Cardinality(Before(s, i)) = Cardinality(Before(s, l))
  PROVE  i = l
<1>1. i \in Nat /\ l \in Nat
  BY NewLinesFinite, LenProperties
<1>2. IsFiniteSet(Before(s, i)) /\ IsFiniteSet(Before(s, l))
  BY NewLinesFinite, FS_Subset DEF Before
<1>3. CASE i <= l
  <2>1. Before(s, i) \subseteq Before(s, l)
    BY <1>1, <1>3, NewLinesFinite, LenProperties DEF Before
  <2>2. Before(s, i) = Before(s, l)
    BY <1>2, <2>1, FS_Subset
  <2>3. l \in Before(s, i)
    BY <1>1, <2>2 DEF Before
  <2> QED BY <1>1, <1>3, <2>3 DEF Before
<1>4. CASE l <= i
  <2>1. Before(s, l) \subseteq Before(s, i)
    BY <1>1, <1>4, NewLinesFinite, LenProperties DEF Before
  <2>2. Before(s, i) = Before(s, l)
    BY <1>2, <2>1, FS_Subset
  <2>3. i \in Before(s, l)
    BY <1>1, <2>2 DEF Before
  <2> QED BY <1>1, <1>4, <2>3 DEF Before
<1> QED BY <1>1, <1>3, <1>4

\* LineEnd finds the place where a line has ended.
LEMMA LineEndIs ==
  ASSUME NEW s \in Seq(STRING), NEW n \in Nat, NEW l, StartsAt(s, n, l)
  PROVE  LineEnd(s, n) = l
<1>1. CASE l = 0
  <2>1. Before(s, 0) = {}
    BY NewLinesFinite, LenProperties DEF Before
  <2>2. n = 0
    BY <1>1, <2>1, FS_EmptySet DEF StartsAt
  <2> QED BY <1>1, <2>2 DEF LineEnd
<1>2. CASE l \in NewLines(s)
  <2>1. l \in Nat
    BY <1>2, NewLinesFinite, LenProperties
  <2>2. n # 0
    <3>1. l \in Before(s, l)
      BY <1>2, <2>1 DEF Before
    <3>2. IsFiniteSet(Before(s, l))
      BY NewLinesFinite, FS_Subset DEF Before
    <3> QED BY <3>1, <3>2, FS_EmptySet DEF StartsAt
  <2>3. \A i \in NewLines(s) : Cardinality(Before(s, i)) = n => i = l
    BY <1>2, SameCountSamePlace DEF StartsAt
  <2>4. Cardinality(Before(s, l)) = n
    BY DEF StartsAt
  <2> QED BY <1>2, <2>2, <2>3, <2>4 DEF LineEnd, Before
<1> QED BY <1>1, <1>2 DEF StartsAt

\* From one end of a line to the next there is one line.
LEMMA NextLine ==
  ASSUME NEW s \in Seq(STRING), NEW n \in Nat, NEW l \in Nat, StartsAt(s, n, l),
         NEW p \in l .. Len(s) - 1, s[p + 1] = "NL",
         \A k \in l + 1 .. p : s[k] # "NL"
  PROVE  /\ StartsAt(s, n + 1, p + 1)
         /\ n + 1 <= LineCount(s)
         /\ Line(s, n + 1) = SubSeq(s, l + 1, p)
<1>0. p \in Nat /\ Len(s) \in Nat /\ l <= p
  BY LenProperties
<1>1. p + 1 \in NewLines(s)
  BY <1>0 DEF NewLines
<1>2. Before(s, p + 1) = Before(s, l) \cup {p + 1} /\ p + 1 \notin Before(s, l)
  <2>1. ASSUME NEW j \in NewLines(s), j <= p + 1, j # p + 1  PROVE j <= l
    <3>1. j \in 1 .. Len(s) /\ s[j] = "NL"
      BY NewLinesFinite DEF NewLines
    <3> QED BY <1>0, <2>1, <3>1
  <2>2. \A j \in NewLines(s) : j \in Nat
    BY NewLinesFinite, LenProperties
  <2> QED BY <1>0, <1>1, <2>1, <2>2 DEF Before
<1>3. IsFiniteSet(Before(s, l)) /\ Cardinality(Before(s, l)) = n
  BY NewLinesFinite, FS_Subset DEF Before, StartsAt
<1>4. Cardinality(Before(s, p + 1)) = n + 1
  BY <1>2, <1>3, FS_AddElement
<1>5. StartsAt(s, n + 1, p + 1)
  BY <1>1, <1>4 DEF StartsAt
<1>6. n + 1 <= LineCount(s)
  BY <1>4, NewLinesFinite, FS_Subset DEF Before, LineCount
<1>7. LineEnd(s, n) = l /\ LineEnd(s, n + 1) = p + 1
  BY <1>5, LineEndIs
<1>8. (n + 1) - 1 = n /\ (p + 1) - 1 = p
  BY <1>0
<1> QED BY <1>5, <1>6, <1>7, <1>8 DEF Line

-----------------------------------------------------------------------------
(* The inductive invariant.                                                *)

\* How much of the input has been looked at.
Seen == nread - Len(buf)

\* The buffer holds what was read and not yet looked at; there is something in it
\* only in the scan.
BufferOK ==
  /\ stream \in Streams /\ (source = "tls" => nread <= fetched)
  /\ buf \in Seq(STRING) /\ Len(buf) <= nread
  /\ buf = SubSeq(stream, Seen + 1, nread)
  /\ pc # "scan" => buf = <<>>

\* Unless it is full, myInput is the beginning of the line after those obeyed.
LineOK ==
  /\ myInput \in Seq(STRING)
  /\ Len(myInput) < BufSize =>
       \E l \in 0 .. Seen :
         /\ StartsAt(stream, acted, l)
         /\ myInput = SubSeq(stream, l + 1, Seen)
         /\ \A k \in l + 1 .. Seen : stream[k] # "NL"

\* A report is made only when it was due before flag was cleared, and between
\* START and STOP.
ReportOK ==
  /\ after \in {0, 1} /\ (flag => after = 0)
  /\ pc \in {"sleep", "report"} => after = 0 /\ set.on
  /\ pc \notin {"log", "killed"} => report = "none"

IInv == TypeOK /\ BufferOK /\ LineOK /\ ReportOK

\* The input is a sequence, and there is room for at least one fragment.
LEMMA StreamIsSequence ==
  ASSUME BufferOK
  PROVE  stream \in Seq(STRING) /\ Len(stream) \in Nat /\ BufSize \in Nat \ {0}
BY SensorAssumption, LenProperties DEF BufferOK

\* Whatever a line says, the settings are settings.
LEMMA ObeyedType ==
  ASSUME NEW s \in Settings, NEW line
  PROVE  Obeyed(s, line) \in Settings
<1>1. ASSUME NEW p \in Seconds PROVE [s EXCEPT !.period = p] \in Settings
  BY DEF Settings
<1>2. ASSUME NEW c \in {"C", "F"} PROVE [s EXCEPT !.scale = c] \in Settings
  BY DEF Settings
<1>3. ASSUME NEW b \in BOOLEAN PROVE [s EXCEPT !.on = b] \in Settings
  BY DEF Settings
<1>4. "0" \in Seconds
  BY DEF Seconds
<1> QED BY <1>1, <1>2, <1>3, <1>4 DEF Obeyed

\* The program starts with the invariant true.
LEMMA Initially ==
  ASSUME Init PROVE IInv
<1>1. stream \in Seq(STRING) /\ Len(stream) \in Nat /\ BufSize \in Nat \ {0}
  BY SensorAssumption, LenProperties DEF Init
<1>2. Len(<<>>) = 0 /\ <<>> \in Seq(STRING)
  BY EmptySeq
<1>3. LineCount(stream) \in Nat
  BY <1>1, NewLinesFinite
<1>4. Defaults \in Settings /\ Defaults.on
  BY DEF Defaults, Settings, Seconds
<1>5. TypeOK
  <2>1. pc \in {"id", "test"}
    BY DEF Init
  <2>2. Len(buf) = 0 /\ Len(myInput) = 0
    BY <1>2 DEF Init
  <2>3. acted \in 0 .. LineCount(stream) /\ arrived \in 0 .. Len(stream)
    BY <1>1, <1>3 DEF Init
  <2>4. nread \in 0 .. arrived /\ cuts \subseteq 1 .. arrived /\ fetched \in cuts \cup {0}
    BY DEF Init
  <2>5. Len(buf) <= BufSize /\ Len(myInput) <= BufSize
    BY <1>1, <2>2
  <2>6. set \in Settings /\ report \in {"none", "C", "F"} /\ after \in Nat
    BY <1>4 DEF Init
  <2>7. part \in BOOLEAN /\ flag \in BOOLEAN /\ closed \in BOOLEAN /\ peer = "open"
    BY DEF Init
  <2> QED BY <2>1, <2>3, <2>4, <2>5, <2>6, <2>7 DEF TypeOK
<1>6. SubSeq(stream, 1, 0) = <<>>
  BY SubSeqEmpty
<1>7. BufferOK
  BY <1>2, <1>6 DEF Init, BufferOK, Seen
<1>8. StartsAt(stream, 0, 0)
  <2>1. Before(stream, 0) = {}
    BY <1>1, NewLinesFinite DEF Before
  <2> QED BY <2>1, FS_EmptySet DEF StartsAt
<1>9. LineOK
  <2>0. nread = 0 /\ Len(buf) = 0
    BY <1>2 DEF Init
  <2>1. Seen = 0
    BY <2>0 DEF Seen
  <2> QED BY <1>1, <1>2, <1>6, <1>8, <2>1 DEF Init, LineOK
<1>10. ReportOK
  BY DEF Init, ReportOK
<1> QED BY <1>5, <1>7, <1>9, <1>10 DEF IInv

\* Nothing is read or looked at: the lines are as they were.
LEMMA LinesKept ==
  ASSUME BufferOK, LineOK, UNCHANGED <<input, nread, fetched, buf, myInput, acted>>,
         pc = "scan" => pc' = "scan"
  PROVE  BufferOK' /\ LineOK'
<1>1. Seen' = Seen
  BY DEF Seen
<1> QED BY <1>1 DEF BufferOK, LineOK, input, StartsAt, Before, NewLines

\* Something is read: it goes to the buffer and nothing is looked at.
LEMMA TakeKeepsLines ==
  ASSUME IInv, NEW end \in Nat, nread <= end, end <= arrived, pc = "read", Take(end),
         source = "tls" => fetched' = end
  PROVE  /\ BufferOK' /\ LineOK'
         /\ nread' \in 0 .. arrived /\ Len(buf') <= BufSize
<1> DEFINE m == IF end - nread <= BufSize THEN end ELSE nread + BufSize
<1>0. /\ stream \in Seq(STRING) /\ Len(stream) \in Nat /\ BufSize \in Nat \ {0}
      /\ arrived \in 0 .. Len(stream) /\ nread \in 0 .. arrived
  BY StreamIsSequence DEF IInv, TypeOK
<1>1. /\ nread \in Nat /\ arrived \in Nat /\ arrived <= Len(stream)
      /\ m \in Nat /\ nread <= m /\ m <= end /\ m <= arrived /\ m - nread <= BufSize
  BY <1>0
<1>2. /\ nread' = m /\ buf' = SubSeq(stream, nread + 1, m) /\ pc' = "scan"
      /\ UNCHANGED <<stream, source, myInput, acted>>
  BY DEF Take, history, input
<1> HIDE DEF m
<1>3. /\ buf' \in Seq(STRING)
      /\ Len(buf') = m - nread
  <2>1. \A i \in nread + 1 .. m : stream[i] \in STRING
    BY <1>0, <1>1, ElementOfSeq
  <2>2. nread + 1 \in Int /\ m \in Int
    BY <1>1
  <2>3. /\ SubSeq(stream, nread + 1, m) \in Seq(STRING)
        /\ Len(SubSeq(stream, nread + 1, m)) =
             IF nread + 1 <= m THEN m - (nread + 1) + 1 ELSE 0
    BY <2>1, <2>2, SubSeqProperties
  <2>4. (IF nread + 1 <= m THEN m - (nread + 1) + 1 ELSE 0) = m - nread
    BY <1>1
  <2> QED BY <1>2, <2>3, <2>4
<1>4. Seen = nread /\ Seen' = nread
  <2>1. Len(buf) = 0
    BY EmptySeq DEF IInv, BufferOK
  <2>2. nread - 0 = nread /\ m - (m - nread) = nread
    BY <1>1
  <2>3. Seen' = m - (m - nread)
    BY <1>2, <1>3 DEF Seen
  <2> QED BY <2>1, <2>2, <2>3 DEF Seen
<1>5. BufferOK'
  <2>1. stream' \in Streams
    BY <1>2 DEF IInv, BufferOK
  <2>2. source' = "tls" => nread' <= fetched'
    BY <1>1, <1>2
  <2>3. m - nread <= m
    BY <1>1
  <2>4. Len(buf') <= nread'
    BY <1>2, <1>3, <2>3
  <2>5. buf' = SubSeq(stream', Seen' + 1, nread')
    BY <1>2, <1>4
  <2> QED BY <1>2, <1>3, <2>1, <2>2, <2>4, <2>5 DEF BufferOK
<1>6. LineOK'
  BY <1>2, <1>4 DEF IInv, LineOK, StartsAt, Before, NewLines
<1>7. nread' \in 0 .. arrived /\ Len(buf') <= BufSize
  BY <1>1, <1>2, <1>3
<1> QED BY <1>5, <1>6, <1>7

\* The next fragment the scan looks at.
LEMMA HeadOfBuffer ==
  ASSUME TypeOK, BufferOK, buf # <<>>
  PROVE  /\ Seen \in Nat /\ Seen + 1 <= nread /\ Seen + 1 <= Len(stream)
         /\ Seen + 1 \in 1 .. Len(stream)
         /\ Head(buf) = stream[Seen + 1] /\ Head(buf) \in STRING
         /\ Tail(buf) \in Seq(STRING) /\ Len(Tail(buf)) <= nread
         /\ Len(Tail(buf)) <= BufSize
         /\ Tail(buf) = SubSeq(stream, (Seen + 1) + 1, nread)
         /\ nread - Len(Tail(buf)) = Seen + 1
<1>1. /\ stream \in Seq(STRING) /\ Len(stream) \in Nat /\ nread \in Nat /\ BufSize \in Nat
      /\ nread <= Len(stream)
  BY StreamIsSequence DEF TypeOK
<1>2. /\ buf \in Seq(STRING) /\ Len(buf) <= nread /\ Len(buf) \in Nat
      /\ buf = SubSeq(stream, Seen + 1, nread) /\ Len(buf) <= BufSize
  BY LenProperties DEF BufferOK, TypeOK
<1>3. Len(buf) >= 1
  BY <1>2, EmptySeq
<1>4. Seen \in Nat /\ Seen + 1 <= nread
  BY <1>1, <1>2, <1>3 DEF Seen
<1>5. Seen + 1 \in 1 .. Len(stream) /\ nread \in Seen + 1 .. Len(stream)
  BY <1>1, <1>4
<1>6. /\ Head(SubSeq(stream, Seen + 1, nread)) = stream[Seen + 1]
      /\ Tail(SubSeq(stream, Seen + 1, nread)) = SubSeq(stream, (Seen + 1) + 1, nread)
  BY <1>1, <1>5, HeadTailOfSubSeq
<1>7. Head(buf) \in STRING /\ Tail(buf) \in Seq(STRING) /\ Len(Tail(buf)) = Len(buf) - 1
  BY <1>2, HeadTailProperties
<1>8. Len(Tail(buf)) <= nread /\ Len(Tail(buf)) <= BufSize
      /\ nread - Len(Tail(buf)) = Seen + 1
  BY <1>1, <1>2, <1>7 DEF Seen
<1> QED BY <1>1, <1>2, <1>4, <1>5, <1>6, <1>7, <1>8

\* A line that ends is the next line of the input.
LEMMA ObeyLineStep ==
  ASSUME IInv, ObeyLine
  PROVE  /\ BufferOK' /\ LineOK' /\ Len(buf') <= BufSize
         /\ acted' = acted + 1 /\ acted' <= LineCount(stream)
         /\ myInput = Line(stream, acted + 1)
<1>1. /\ buf # <<>> /\ Head(buf) = "NL" /\ Len(myInput) < BufSize /\ pc = "scan"
      /\ buf' = Tail(buf) /\ myInput' = <<>> /\ acted' = acted + 1
      /\ UNCHANGED <<stream, source, nread, fetched, pc>>
  BY DEF ObeyLine, input
<1>2. /\ Seen \in Nat /\ Seen + 1 \in 1 .. Len(stream) /\ stream[Seen + 1] = "NL"
      /\ Tail(buf) \in Seq(STRING) /\ Len(Tail(buf)) <= nread /\ Len(Tail(buf)) <= BufSize
      /\ Tail(buf) = SubSeq(stream, (Seen + 1) + 1, nread)
      /\ nread - Len(Tail(buf)) = Seen + 1
  BY <1>1, HeadOfBuffer DEF IInv
<1>3. Seen' = Seen + 1
  BY <1>1, <1>2 DEF Seen
<1>4. BufferOK' /\ Len(buf') <= BufSize
  BY <1>1, <1>2, <1>3 DEF IInv, BufferOK
<1>5. stream \in Seq(STRING) /\ Len(stream) \in Nat
  BY StreamIsSequence DEF IInv
<1>6. PICK l \in 0 .. Seen : /\ StartsAt(stream, acted, l)
                             /\ myInput = SubSeq(stream, l + 1, Seen)
                             /\ \A k \in l + 1 .. Seen : stream[k] # "NL"
  BY <1>1 DEF IInv, LineOK
<1>7. acted \in Nat
  BY <1>5, NewLinesFinite DEF IInv, TypeOK
<1>8. l \in Nat /\ Seen \in l .. Len(stream) - 1
  BY <1>2, <1>5
<1>9. /\ StartsAt(stream, acted + 1, Seen + 1) /\ acted + 1 <= LineCount(stream)
      /\ Line(stream, acted + 1) = SubSeq(stream, l + 1, Seen)
  BY <1>2, <1>5, <1>6, <1>7, <1>8, NextLine
<1>10. LineOK'
  <2>1. SubSeq(stream, (Seen + 1) + 1, Seen + 1) = <<>>
    BY <1>2, SubSeqEmpty
  <2>2. \A k \in (Seen + 1) + 1 .. Seen + 1 : FALSE
    BY <1>2
  <2>3. Seen + 1 \in 0 .. Seen + 1
    BY <1>2
  <2>4. \E l2 \in 0 .. Seen + 1 :
          /\ StartsAt(stream, acted + 1, l2)
          /\ <<>> = SubSeq(stream, l2 + 1, Seen + 1)
          /\ \A k \in l2 + 1 .. Seen + 1 : stream[k] # "NL"
    BY <1>9, <2>1, <2>2, <2>3
  <2>5. (\E l2 \in 0 .. Seen :
          /\ StartsAt(stream, acted, l2)
          /\ myInput = SubSeq(stream, l2 + 1, Seen)
          /\ \A k \in l2 + 1 .. Seen : stream[k] # "NL")'
    BY <1>1, <1>3, <2>4 DEF StartsAt, Before, NewLines
  <2> QED BY <1>1, <2>5, EmptySeq DEF LineOK
<1> QED BY <1>1, <1>4, <1>6, <1>9, <1>10

\* A fragment is added to the line it belongs to.
LEMMA CollectStep ==
  ASSUME IInv, Collect
  PROVE  BufferOK' /\ LineOK' /\ Len(buf') <= BufSize /\ Len(myInput') <= BufSize
<1>1. /\ buf # <<>> /\ Head(buf) # "NL" /\ Len(myInput) < BufSize /\ pc = "scan"
      /\ buf' = Tail(buf) /\ myInput' = Append(myInput, Head(buf))
      /\ UNCHANGED <<stream, source, nread, fetched, pc, acted>>
  BY DEF Collect, input, history
<1>2. /\ Seen \in Nat /\ Seen + 1 \in 1 .. Len(stream)
      /\ Head(buf) = stream[Seen + 1] /\ Head(buf) \in STRING
      /\ Tail(buf) \in Seq(STRING) /\ Len(Tail(buf)) <= nread /\ Len(Tail(buf)) <= BufSize
      /\ Tail(buf) = SubSeq(stream, (Seen + 1) + 1, nread)
      /\ nread - Len(Tail(buf)) = Seen + 1
  BY <1>1, HeadOfBuffer DEF IInv
<1>3. Seen' = Seen + 1
  BY <1>1, <1>2 DEF Seen
<1>4. BufferOK' /\ Len(buf') <= BufSize
  BY <1>1, <1>2, <1>3 DEF IInv, BufferOK
<1>5. /\ stream \in Seq(STRING) /\ Len(stream) \in Nat /\ BufSize \in Nat
      /\ myInput \in Seq(STRING) /\ Len(myInput) \in Nat
  BY StreamIsSequence, LenProperties DEF IInv, LineOK
<1>6. PICK l \in 0 .. Seen : /\ StartsAt(stream, acted, l)
                             /\ myInput = SubSeq(stream, l + 1, Seen)
                             /\ \A k \in l + 1 .. Seen : stream[k] # "NL"
  BY <1>1 DEF IInv, LineOK
<1>7. /\ Append(myInput, Head(buf)) \in Seq(STRING)
      /\ Len(Append(myInput, Head(buf))) = Len(myInput) + 1
      /\ Append(myInput, Head(buf)) = myInput \o <<Head(buf)>>
  BY <1>2, <1>5, AppendProperties, AppendIsConcat
<1>8. Len(myInput') <= BufSize
  <2>1. Len(myInput) + 1 <= BufSize
    BY <1>1, <1>5
  <2> QED BY <1>1, <1>7, <2>1
<1>9. myInput' = SubSeq(stream, l + 1, Seen + 1)
  <2>1. l + 1 \in 1 .. Len(stream) /\ Seen + 1 \in l + 1 .. Len(stream)
        /\ (Seen + 1) - 1 = Seen
    BY <1>2, <1>5
  <2>2. SubSeq(stream, l + 1, Seen + 1)
          = SubSeq(stream, l + 1, (Seen + 1) - 1) \o <<stream[Seen + 1]>>
    BY <1>5, <2>1, SubSeqRecursiveSecond
  <2> QED BY <1>1, <1>2, <1>6, <1>7, <2>1, <2>2
<1>10. LineOK'
  <2>1. \A k \in l + 1 .. Seen + 1 : stream[k] # "NL"
    <3>1. \A k \in l + 1 .. Seen + 1 : k \in l + 1 .. Seen \/ k = Seen + 1
      BY <1>2
    <3> QED BY <1>1, <1>2, <1>6, <3>1
  <2>2. l \in 0 .. Seen + 1
    BY <1>2
  <2>3. (\E l2 \in 0 .. Seen :
          /\ StartsAt(stream, acted, l2)
          /\ myInput = SubSeq(stream, l2 + 1, Seen)
          /\ \A k \in l2 + 1 .. Seen : stream[k] # "NL")'
    BY <1>1, <1>3, <1>6, <1>9, <2>1, <2>2 DEF StartsAt, Before, NewLines
  <2> QED BY <1>1, <1>7, <2>3 DEF LineOK
<1> QED BY <1>4, <1>8, <1>10

\* The rest of the buffer is dropped only when myInput is full.
LEMMA ScanEndsStep ==
  ASSUME IInv, ScanEnds
  PROVE  BufferOK' /\ LineOK' /\ Len(buf') <= BufSize
<1>1. /\ buf = <<>> \/ Len(myInput) = BufSize
      /\ buf' = <<>> /\ pc' = "test"
      /\ UNCHANGED <<stream, source, nread, fetched, myInput, acted>>
  BY DEF ScanEnds, input, history
<1>2. Len(<<>>) = 0 /\ <<>> \in Seq(STRING) /\ BufSize \in Nat /\ nread \in Nat
  BY EmptySeq, StreamIsSequence DEF IInv, TypeOK
<1>3. Seen' = nread
  BY <1>1, <1>2 DEF Seen
<1>4. BufferOK' /\ Len(buf') <= BufSize
  <2>1. SubSeq(stream, nread + 1, nread) = <<>>
    BY <1>2, SubSeqEmpty
  <2>2. Len(buf') <= nread /\ Len(buf') <= BufSize
    BY <1>1, <1>2
  <2> QED BY <1>1, <1>2, <1>3, <2>1, <2>2 DEF IInv, BufferOK
<1>5. LineOK'
  <2>1. CASE Len(myInput) = BufSize
    BY <1>1, <1>2, <2>1 DEF IInv, LineOK
  <2>2. CASE buf = <<>>
    <3>1. Seen = nread
      BY <1>2, <2>2 DEF Seen
    <3> QED BY <1>1, <1>3, <3>1 DEF IInv, LineOK, StartsAt, Before, NewLines
  <2> QED BY <1>1, <2>1, <2>2
<1> QED BY <1>4, <1>5

-----------------------------------------------------------------------------
(* Every step keeps the invariant.                                         *)

\* The events around the program leave what it has read alone.
LEMMA SurroundingsStep ==
  ASSUME IInv, Arrives \/ ArrivesInPart \/ InputEnds \/ Interrupt \/ Press
  PROVE  IInv'
<1> USE DEF IInv
<1>1. /\ UNCHANGED <<input, nread, fetched, buf, myInput, acted, set, closed, report, after>>
      /\ pc' = pc \/ (pc = "sleep" /\ pc' = "report")
      /\ flag' = flag \/ flag' = FALSE
  BY DEF Arrives, ArrivesInPart, InputEnds, Interrupt, Press, reading, history, wire
<1>2. BufferOK' /\ LineOK'
  BY <1>1, LinesKept
<1>3. ReportOK'
  BY <1>1 DEF ReportOK
<1>4. /\ arrived' \in 0 .. Len(stream) /\ nread \in 0 .. arrived'
      /\ cuts' \subseteq 1 .. arrived' /\ fetched \in cuts' \cup {0}
  <2>1. /\ arrived \in 0 .. Len(stream) /\ nread \in 0 .. arrived /\ Len(stream) \in Nat
        /\ cuts \subseteq 1 .. arrived /\ fetched \in cuts \cup {0}
    BY StreamIsSequence DEF TypeOK
  <2>2. CASE Arrives
    <3>1. PICK a \in arrived + 1 .. Len(stream) : arrived' = a
      BY <2>2 DEF Arrives
    <3>2. cuts' \subseteq cuts \cup {a} /\ cuts \subseteq cuts'
      BY <2>2, <3>1 DEF Arrives
    <3>3. a \in 1 .. a /\ 1 .. arrived \subseteq 1 .. a
          /\ a \in 0 .. Len(stream) /\ nread \in 0 .. a
      BY <2>1, <3>1
    <3> QED BY <2>1, <3>1, <3>2, <3>3
  <2>3. CASE ~Arrives
    BY <2>1, <2>3 DEF ArrivesInPart, InputEnds, Interrupt, Press, wire
  <2> QED BY <2>2, <2>3
<1>5. part' \in BOOLEAN /\ peer' \in {"open", "fin", "rst", "refused"}
  BY DEF Arrives, ArrivesInPart, InputEnds, Interrupt, Press, wire, TypeOK
<1>6. flag' \in BOOLEAN
      /\ pc' \in {"id", "test", "sleep", "report", "log", "poll", "read", "scan",
                  "shutdown", "close", "done", "failed", "killed", "crashed"}
  BY <1>1 DEF TypeOK
<1>7. TypeOK'
  BY <1>1, <1>4, <1>5, <1>6 DEF TypeOK, input
<1> QED BY <1>2, <1>3, <1>7

\* The steps that neither read nor scan.
Elsewhere ==
  \/ Identify \/ Test \/ Wake \/ Report \/ Log \/ Poll \/ PollInterrupted
  \/ EndOfInput \/ ReceiveFails \/ Shutdown \/ Close

\* The steps that leave the input and the buffers alone keep the invariant.
LEMMA ElsewhereStep ==
  ASSUME IInv, Elsewhere
  PROVE  IInv'
<1> USE DEF IInv
<1>1. /\ UNCHANGED <<input, arrived, cuts, part, nread, fetched, buf, myInput, acted, set>>
      /\ pc # "scan"
  BY DEF Elsewhere, Identify, Test, Wake, Report, Crash, WriteOut, Log, Poll, PollInterrupted,
         EndOfInput, ReceiveFails, Shutdown, Close, reading, history, wire
<1>2. BufferOK' /\ LineOK'
  BY <1>1, LinesKept
<1>3. /\ peer' \in {"open", "fin", "rst", "refused"} /\ closed' \in BOOLEAN
      /\ pc' \in {"id", "test", "sleep", "report", "log", "poll", "read", "scan",
                  "shutdown", "close", "done", "failed", "killed", "crashed"}
  BY DEF Elsewhere, Identify, Test, Wake, Report, Crash, WriteOut, Log, Poll, PollInterrupted,
         EndOfInput, ReceiveFails, Shutdown, Close, wire, TypeOK
<1>4. /\ flag' \in BOOLEAN /\ report' \in {"none", "C", "F"}
      /\ ReportOK'
  <2>1. /\ flag \in BOOLEAN /\ report \in {"none", "C", "F"} /\ set.scale \in {"C", "F"}
    BY DEF TypeOK, Settings
  <2>2. CASE Report
    <3>1. CASE Crash
      <4>1. pc = "report" /\ pc' = "crashed" /\ UNCHANGED <<flag, report, after, set>>
        BY <2>2, <3>1 DEF Report, Crash, history
      <4> QED BY <2>1, <4>1 DEF ReportOK
    <3>2. CASE ~Crash
      <4>1. /\ pc = "report" /\ pc' \in {"log", "killed"} /\ report' = set.scale
            /\ after' = (IF flag THEN 0 ELSE after + 1) /\ UNCHANGED <<flag, set>>
        BY <2>2, <3>2 DEF Report, WriteOut
      <4> QED BY <2>1, <4>1 DEF ReportOK
    <3> QED BY <3>1, <3>2
  <2>3. CASE Test
    BY <2>1, <2>3 DEF Test, ReportOK, history
  <2>4. CASE Wake \/ Poll \/ PollInterrupted \/ ReceiveFails
    <3>1. /\ UNCHANGED <<set, report, after>> /\ (flag' = flag \/ flag' = FALSE)
          /\ pc' # "sleep" /\ (pc' = "report" => pc = "sleep") /\ pc \notin {"log", "killed"}
      BY <2>4 DEF Wake, Poll, PollInterrupted, ReceiveFails, history
    <3>2. flag' \in BOOLEAN /\ (flag' => flag)
      <4>1. CASE flag' = flag
        BY <2>1, <4>1
      <4>2. CASE flag' = FALSE
        BY <4>2
      <4> QED BY <3>1, <4>1, <4>2
    <3>3. report = "none"
      BY <3>1 DEF ReportOK
    <3>4. pc' \in {"sleep", "report"} => after = 0 /\ set.on
      BY <3>1 DEF ReportOK
    <3>5. after \in {0, 1} /\ (flag => after = 0)
      BY DEF ReportOK
    <3> QED BY <2>1, <3>1, <3>2, <3>3, <3>4, <3>5 DEF ReportOK
  <2>5. CASE Log
    BY <2>1, <2>5 DEF Log, ReportOK, history
  <2>6. CASE Identify \/ Shutdown
    BY <2>1, <2>6 DEF Identify, Shutdown, WriteOut, ReportOK, history
  <2>7. CASE EndOfInput \/ Close
    BY <2>1, <2>7 DEF EndOfInput, Close, Crash, ReportOK, history
  <2> QED BY <2>2, <2>3, <2>4, <2>5, <2>6, <2>7 DEF Elsewhere
<1>5. after' \in Nat
  BY <1>4 DEF ReportOK
<1>6. TypeOK'
  BY <1>1, <1>3, <1>4, <1>5 DEF TypeOK, input
<1> QED BY <1>2, <1>4, <1>6

\* read and SSL_read fill the buffer.
LEMMA ReadStep ==
  ASSUME IInv, Receive \/ ReceiveRecord
  PROVE  IInv'
<1> USE DEF IInv
<1>1. /\ stream \in Seq(STRING) /\ Len(stream) \in Nat /\ nread \in 0 .. arrived
      /\ arrived \in 0 .. Len(stream) /\ cuts \subseteq 1 .. arrived
      /\ fetched \in cuts \cup {0}
  BY StreamIsSequence DEF TypeOK
<1>2. PICK end \in Nat : /\ nread <= end /\ end <= arrived /\ Take(end)
                         /\ source = "tls" => fetched' = end
                         /\ fetched' \in cuts \cup {0}
  <2>1. CASE Receive
    <3>1. CASE source = "tty"
      <4>1. PICK i \in NewLines(Available) : Take(nread + i)
        BY <2>1, <3>1 DEF Receive, Earliest
      <4>2. i \in 1 .. arrived - nread
        <5>1. i \in DOMAIN Available
          BY <4>1 DEF NewLines
        <5>2. \A j \in nread + 1 .. arrived : stream[j] \in STRING
          BY <1>1, ElementOfSeq
        <5>3. nread + 1 \in Int /\ arrived \in Int
          BY <1>1
        <5>4. /\ Available \in Seq(STRING)
              /\ Len(Available) =
                   IF nread + 1 <= arrived THEN arrived - (nread + 1) + 1 ELSE 0
          BY <5>2, <5>3, SubSeqProperties DEF Available
        <5>5. i \in 1 .. Len(Available)
          BY <5>1, <5>4, LenProperties
        <5> QED BY <1>1, <5>4, <5>5
      <4>3. nread + i \in Nat /\ nread <= nread + i /\ nread + i <= arrived
        BY <1>1, <4>2
      <4> QED BY <1>1, <2>1, <3>1, <4>1, <4>3 DEF Receive
    <3>2. CASE source # "tty"
      <4>1. arrived \in Nat /\ nread <= arrived
        BY <1>1
      <4> QED BY <1>1, <2>1, <3>2, <4>1 DEF Receive
    <3> QED BY <3>1, <3>2
  <2>2. CASE ReceiveRecord
    <3>1. PICK e \in IF nread < fetched THEN {fetched} ELSE Earliest(NewRecords) :
            fetched' = e /\ Take(e) /\ source = "tls"
      BY <2>2 DEF ReceiveRecord
    <3>2. e \in cuts \cup {0} /\ fetched <= e
      BY <1>1, <3>1 DEF Earliest, NewRecords
    <3>3. nread <= fetched
      BY <3>1 DEF BufferOK
    <3>4. e \in Nat /\ nread <= e /\ e <= arrived
      BY <1>1, <3>2, <3>3
    <3> QED BY <3>1, <3>2, <3>4
  <2> QED BY <2>1, <2>2
<1>3. pc = "read"
  BY DEF Receive, ReceiveRecord
<1>4. BufferOK' /\ LineOK' /\ nread' \in 0 .. arrived /\ Len(buf') <= BufSize
  BY <1>2, <1>3, TakeKeepsLines
<1>5. /\ UNCHANGED <<input, wire, myInput, set, flag, closed, report, history>> /\ pc' = "scan"
  BY <1>2 DEF Take
<1>6. ReportOK'
  BY <1>3, <1>5 DEF ReportOK, history
<1>7. TypeOK'
  BY <1>2, <1>4, <1>5 DEF TypeOK, wire, input, history
<1> QED BY <1>4, <1>6, <1>7

\* The scan.
LEMMA ScanStep ==
  ASSUME IInv, ObeyLine \/ Collect \/ ScanEnds
  PROVE  IInv'
<1> USE DEF IInv
<1>1. /\ UNCHANGED <<input, wire, nread, fetched, closed, report, after>>
      /\ pc = "scan" /\ pc' \in {"scan", "test"}
  BY DEF ObeyLine, Collect, ScanEnds, history
<1>2. /\ BufferOK' /\ LineOK' /\ Len(buf') <= BufSize
      /\ Len(myInput') <= BufSize /\ acted' \in 0 .. LineCount(stream)
  <2>1. CASE ObeyLine
    <3>1. /\ BufferOK' /\ LineOK' /\ Len(buf') <= BufSize
          /\ acted' = acted + 1 /\ acted' <= LineCount(stream) /\ myInput' = <<>>
      BY <2>1, ObeyLineStep DEF ObeyLine
    <3>2. acted \in 0 .. LineCount(stream) /\ LineCount(stream) \in Nat
      BY StreamIsSequence, NewLinesFinite DEF TypeOK
    <3>3. acted' \in 0 .. LineCount(stream)
      <4>1. acted + 1 \in Nat /\ acted + 1 <= LineCount(stream)
        BY <3>1, <3>2
      <4> QED BY <3>1, <3>2, <4>1
    <3>4. Len(myInput') <= BufSize
      BY <3>1, EmptySeq, StreamIsSequence
    <3> QED BY <3>1, <3>3, <3>4
  <2>2. CASE Collect
    BY <2>2, CollectStep DEF Collect, history, TypeOK
  <2>3. CASE ScanEnds
    BY <2>3, ScanEndsStep DEF ScanEnds, history, TypeOK
  <2> QED BY <2>1, <2>2, <2>3
<1>3. set' \in Settings /\ flag' \in BOOLEAN /\ (flag' => flag)
  <2>1. set \in Settings /\ flag \in BOOLEAN
    BY DEF TypeOK
  <2>2. CASE ObeyLine
    <3>1. set' \in Settings
      BY <2>1, <2>2, ObeyedType DEF ObeyLine
    <3>2. flag' = (flag /\ ~IsOff(myInput))
      BY <2>2 DEF ObeyLine
    <3> QED BY <3>1, <3>2
  <2>3. CASE Collect \/ ScanEnds
    BY <2>1, <2>3 DEF Collect, ScanEnds
  <2> QED BY <2>2, <2>3
<1>4. ReportOK'
  BY <1>1, <1>3 DEF ReportOK
<1>5. TypeOK'
  BY <1>1, <1>2, <1>3 DEF TypeOK, wire, input
<1> QED BY <1>2, <1>4, <1>5

\* The invariant is inductive.
THEOREM Inductive == Spec => []IInv
<1>1. Init => IInv
  BY Initially
<1>2. IInv /\ [Next]_vars => IInv'
  <2> SUFFICES ASSUME IInv, [Next]_vars PROVE IInv'
    OBVIOUS
  <2>1. CASE UNCHANGED vars
    <3>1. BufferOK' /\ LineOK'
      BY <2>1, LinesKept DEF IInv, vars, reading, history
    <3>2. TypeOK' /\ ReportOK'
      BY <2>1 DEF IInv, TypeOK, ReportOK, vars, input, wire, reading, history
    <3> QED BY <3>1, <3>2 DEF IInv
  <2>2. CASE Next /\ ~UNCHANGED vars
    BY <2>2, SurroundingsStep, ElsewhereStep, ReadStep, ScanStep DEF Next, Step, Elsewhere
  <2> QED BY <2>1, <2>2
<1> QED BY <1>1, <1>2, PTL DEF Spec

-----------------------------------------------------------------------------
(* What follows from it.                                                   *)

\* Type correctness: in particular neither the reads nor the scan ever fill a
\* buffer past BUF_SIZE, and no more lines are obeyed than there are.
THEOREM TypeCorrect == Spec => []TypeOK
<1>1. IInv => TypeOK
  BY DEF IInv
<1> QED BY <1>1, Inductive, PTL

\* After OFF, the button or ^C at most the report that was due is made, however
\* the three fall between the sleep, the report and the poll.
THEOREM NoSecondReport == Spec => []OneMoreReport
<1>1. IInv => OneMoreReport
  BY DEF IInv, ReportOK, OneMoreReport
<1> QED BY <1>1, Inductive, PTL

\* Program and thermometer read lines in the same way.
LEMMA SameLanguage ==
  ASSUME NEW s, NEW n, NEW line, NEW t
  PROVE  /\ Promise!LineCount(s) = LineCount(s) /\ Promise!Line(s, n) = Line(s, n)
         /\ Promise!Obeyed(t, line) = Obeyed(t, line)
         /\ Promise!IsOff(line) = IsOff(line) /\ Promise!Defaults = Defaults
<1>1. Promise!LineCount(s) = LineCount(s)
  BY DEF LineCount, NewLines, Promise!LineCount, Promise!NewLines, Cardinality, Promise!Cardinality
<1>2. Promise!Line(s, n) = Line(s, n)
  BY DEF Line, LineEnd, NewLines, Promise!Line, Promise!LineEnd, Promise!NewLines,
         Cardinality, Promise!Cardinality
<1>3. Promise!Seconds = Seconds
  BY DEF Seconds, Endless, Promise!Seconds, Promise!Endless
<1>4. Promise!Obeyed(t, line) = Obeyed(t, line)
  BY <1>3 DEF Obeyed, HasPrefix, Second, Promise!Obeyed, Promise!HasPrefix, Promise!Second
<1>5. Promise!IsOff(line) = IsOff(line) /\ Promise!Defaults = Defaults
  BY DEF IsOff, Defaults, Promise!IsOff, Promise!Defaults
<1> QED BY <1>1, <1>2, <1>4, <1>5

\* Every step obeys the next line, asks for the end, makes a report that is due,
\* or changes nothing the thermometer shows.
LEMMA StepIsPromised ==
  ASSUME IInv, [Next]_vars
  PROVE  [Promise!Next]_Promise!vars
<1>1. CASE ObeyLine
  <2>1. /\ acted' = acted + 1 /\ acted' <= LineCount(stream)
        /\ myInput = Line(stream, acted + 1)
    BY <1>1, ObeyLineStep
  <2>2. acted < LineCount(stream)
    <3>1. acted \in Nat /\ LineCount(stream) \in Nat /\ acted + 1 <= LineCount(stream)
      BY <2>1, StreamIsSequence, NewLinesFinite DEF IInv, TypeOK
    <3> QED BY <3>1
  <2>3. set' = Obeyed(set, Line(stream, acted'))
    BY <1>1, <2>1 DEF ObeyLine
  <2>4. (~flag)' = (~flag \/ IsOff(Line(stream, acted')))
    BY <1>1, <2>1 DEF ObeyLine
  <2>5. UNCHANGED <<stream, report>>
    BY <1>1 DEF ObeyLine, input
  <2>6. Promise!Obey
    BY <2>1, <2>2, <2>3, <2>4, <2>5, SameLanguage DEF Promise!Obey
  <2> QED BY <2>6 DEF Promise!Next
<1>2. CASE Interrupt \/ Press \/ PollInterrupted
  <2>1. flag' = FALSE /\ UNCHANGED <<stream, acted, set, report>>
    BY <1>2 DEF Interrupt, Press, PollInterrupted, input, history
  <2>2. Promise!Ask
    BY <2>1 DEF Promise!Ask
  <2> QED BY <2>2 DEF Promise!Next
<1>3. CASE Report /\ ~Crash
  <2>1. /\ pc = "report" /\ report' = set.scale
        /\ UNCHANGED <<stream, acted, set, flag>>
    BY <1>3 DEF Report, input
  <2>2. set.on /\ report = "none"
    BY <2>1 DEF IInv, ReportOK
  <2>3. Promise!Report
    BY <2>1, <2>2 DEF Promise!Report
  <2> QED BY <2>3 DEF Promise!Next
<1>4. CASE Log
  <2>1. report' = "none" /\ UNCHANGED <<stream, acted, set, flag>>
    BY <1>4 DEF Log, input, history
  <2>2. Promise!Reported
    BY <2>1 DEF Promise!Reported
  <2> QED BY <2>2 DEF Promise!Next
<1>5. CASE \/ Arrives \/ ArrivesInPart \/ InputEnds \/ (Report /\ Crash)
           \/ Identify \/ Test \/ Wake \/ Poll \/ EndOfInput \/ ReceiveFails
           \/ Shutdown \/ Close \/ Collect \/ ScanEnds \/ UNCHANGED vars
  <2>1. UNCHANGED <<stream, acted, set, flag, report>>
    BY <1>5 DEF Arrives, ArrivesInPart, InputEnds, Crash, Identify, Test, Wake, Poll,
         EndOfInput, ReceiveFails, Shutdown, Close, Collect, ScanEnds, vars, input, history
  <2> QED BY <2>1 DEF Promise!vars
<1>6. CASE Receive \/ ReceiveRecord
  <2>1. ASSUME NEW end, Take(end)
        PROVE  UNCHANGED <<stream, acted, set, flag, report>>
    BY <2>1 DEF Take, input, history
  <2>2. UNCHANGED <<stream, acted, set, flag, report>>
    BY <1>6, <2>1 DEF Receive, ReceiveRecord
  <2> QED BY <2>2 DEF Promise!vars
<1> QED BY <1>1, <1>2, <1>3, <1>4, <1>5, <1>6 DEF Next, Step

\* The program keeps the promise of the thermometer, whatever the inputs, the
\* cuts and the size of its buffer.
THEOREM Refinement == Spec => ObeysLines
<1>1. Init => Promise!Init
  BY SameLanguage DEF Init, Promise!Init
<1>2. IInv /\ [Next]_vars => [Promise!Next]_Promise!vars
  BY StepIsPromised
<1> QED BY <1>1, <1>2, Inductive, PTL DEF Spec, ObeysLines, Promise!Spec
=============================================================================
