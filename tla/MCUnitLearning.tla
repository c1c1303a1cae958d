--------------------------- MODULE MCUnitLearning ---------------------------
(* A small instance of UnitLearning: two mappings in the beginning, so     *)
(* that one can take over from the other, a MIDI and an OSC control        *)
(* element.                                                                *)
EXTENDS UnitLearning

CONSTANTS midi, osc

Alternating == [m \in Mappings |-> IF m % 2 = 1 THEN "Main" ELSE "Controller"]

\* Bound: clicks, messages and touched targets together.
Few == ops + events =< 5

=============================================================================
