--------------------------- MODULE DeviceOccupancy ---------------------------
(***************************************************************************)
(* What the backbone promises about device usage: every unit occupies at   *)
(* most one control input and at most one feedback output at a time, and   *)
(* a request to occupy others reports whether the unit's feedback output   *)
(* really changed.  The units waiting on lower floors act on that report,  *)
(* so a wrong one leaves them dark or lets them write over a superior      *)
(* unit.                                                                   *)
(***************************************************************************)

CONSTANTS Units, Inputs, Outputs, NoDevice

VARIABLES inputOf,       \* the control input each unit occupies, or NoDevice
          outputOf,      \* the feedback output each unit occupies, or NoDevice
          superiorUnits, \* the units on the upper floor
          reported       \* what the last request returned

occupancyVars == <<inputOf, outputOf, superiorUnits, reported>>

Init ==
    /\ inputOf = [u \in Units |-> NoDevice]
    /\ outputOf = [u \in Units |-> NoDevice]
    /\ superiorUnits = {}
    /\ reported = FALSE

Occupy(u, input, output) ==
    /\ inputOf' = [inputOf EXCEPT ![u] = input]
    /\ outputOf' = [outputOf EXCEPT ![u] = output]
    /\ reported' = (outputOf[u] # output)
    /\ UNCHANGED superiorUnits

ChangeFloor ==
    /\ superiorUnits' \in SUBSET Units
    /\ UNCHANGED <<inputOf, outputOf, reported>>

Next ==
    \/ \E u \in Units, i \in Inputs \cup {NoDevice}, o \in Outputs \cup {NoDevice} :
          Occupy(u, i, o)
    \/ ChangeFloor

Spec == Init /\ [][Next]_occupancyVars

==============================================================================
