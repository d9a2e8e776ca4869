---------------------------- MODULE Thermometer ----------------------------
(***************************************************************************)
(* What the sensor programs promise: the lines of the input are obeyed one *)
(* by one, in their order and each as a whole, however the input is cut    *)
(* into pieces on its way; a report is made only between START and STOP    *)
(* and in the scale last asked for.                                        *)
(***************************************************************************)
EXTENDS SensorCommands

CONSTANT Streams

VARIABLES
  stream,   \* all the input there will be
  acted,    \* how many of its lines have been obeyed
  set,      \* the settings
  stopping, \* OFF was obeyed, or the end was asked for in another way
  report    \* the scale of the report that is made, if any

vars == <<stream, acted, set, stopping, report>>

Init ==
  /\ stream \in Streams
  /\ acted = 0 /\ set = Defaults /\ stopping = FALSE /\ report = "none"

Obey ==
  /\ acted < LineCount(stream)
  /\ acted' = acted + 1
  /\ set' = Obeyed(set, Line(stream, acted'))
  /\ stopping' = (stopping \/ IsOff(Line(stream, acted')))
  /\ UNCHANGED <<stream, report>>

Ask == stopping' = TRUE /\ UNCHANGED <<stream, acted, set, report>>

Report ==
  /\ set.on /\ report = "none" /\ report' = set.scale
  /\ UNCHANGED <<stream, acted, set, stopping>>

Reported == report' = "none" /\ UNCHANGED <<stream, acted, set, stopping>>

Next == Obey \/ Ask \/ Report \/ Reported

Spec == Init /\ [][Next]_vars
=============================================================================
