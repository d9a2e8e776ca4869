--------------------------- MODULE SensorCommands ---------------------------
(***************************************************************************)
(* The commands of the sensor programs lab4b/lab4b.c, lab4c/lab4c_tcp.c    *)
(* and lab4c/lab4c_tls.c.  Input is a sequence of fragments, each a piece  *)
(* of a line, and "NL" after each line.                                    *)
(***************************************************************************)
EXTENDS Naturals, Sequences, FiniteSets

NewLines(stream) == { i \in DOMAIN stream : stream[i] = "NL" }
LineCount(stream) == Cardinality(NewLines(stream))

\* Where the n-th line ends, and the n-th line without its "NL".
LineEnd(stream, n) ==
  IF n = 0 THEN 0
  ELSE CHOOSE i \in NewLines(stream) :
         Cardinality({ j \in NewLines(stream) : j <= i }) = n

Line(stream, n) ==
  SubSeq(stream, LineEnd(stream, n - 1) + 1, LineEnd(stream, n) - 1)

\* A negative period becomes an enormous unsigned argument of sleep.
Endless == "-1"
Seconds == {"0", "1", Endless}

Defaults == [on |-> TRUE, scale |-> "F", period |-> "1"]
Settings == [on : BOOLEAN, scale : {"C", "F"}, period : Seconds]

HasPrefix(line, f) == line # <<>> /\ Head(line) = f
Second(line) == IF Len(line) > 1 THEN line[2] ELSE ""

\* The settings after a line: prefixes are compared first, whole lines then, and
\* anything else is passed over.  atoi makes 0 of what is no number.
Obeyed(s, line) ==
  CASE HasPrefix(line, "SCALE=") ->
         IF Second(line) \in {"C", "F"} THEN [s EXCEPT !.scale = Second(line)] ELSE s
    [] HasPrefix(line, "PERIOD=") ->
         [s EXCEPT !.period = IF Second(line) \in Seconds THEN Second(line) ELSE "0"]
    [] line = <<"ST", "OP">>  -> [s EXCEPT !.on = FALSE]
    [] line = <<"ST", "ART">> -> [s EXCEPT !.on = TRUE]
    [] OTHER -> s

IsOff(line) == line = <<"OF", "F">>
=============================================================================
