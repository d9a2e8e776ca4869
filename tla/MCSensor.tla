------------------------------ MODULE MCSensor ------------------------------
(***************************************************************************)
(* Sensor for TLC, with inputs of two lines.                               *)
(***************************************************************************)
EXTENDS Sensor

\* STOP and START, a change of scale, a negative period, a line that fills the
\* buffer, and OFF alone, after and before another command.
TwoLines ==
  { <<"ST", "OP", "NL", "ST", "ART", "NL">>,
    <<"SCALE=", "C", "NL", "OF", "F", "NL">>,
    <<"PERIOD=", "-1", "NL", "OF", "F", "NL">>,
    <<"x", "x", "x", "NL", "OF", "F", "NL">>,
    <<"ST", "OP", "NL", "OF", "F", "NL">>,
    <<"OF", "F", "NL", "SCALE=", "C", "NL">> }
=============================================================================
