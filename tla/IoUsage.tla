------------------------------- MODULE IoUsage -------------------------------
(***************************************************************************)
(* The part of the backbone (main/src/domain/backbone.rs) that arbitrates  *)
(* the control inputs and feedback outputs shared by all units: which      *)
(* units use which device, which units live on the upper floor, and who    *)
(* may therefore interact with a device.                                   *)
(***************************************************************************)
EXTENDS UsageTables

CONSTANTS Units,    \* unit IDs
          Inputs,   \* device control inputs (MIDI or OSC input devices)
          Outputs   \* device feedback outputs (MIDI or OSC output devices)

ASSUME DevicesAssumption == NoDevice \notin Inputs \cup Outputs

ASSUME UnitsAssumption == IsFiniteSet(Units)

VARIABLES controlInputUsages,   \* units per control input
          feedbackOutputUsages, \* units per feedback output
          superiorUnits,        \* units made superior
          reported              \* return value of the last update_io_usage call

usageVars == <<controlInputUsages, feedbackOutputUsages, superiorUnits, reported>>

------------------------------------------------------------------------------
Init ==
    /\ controlInputUsages = [d \in Inputs |-> {}]
    /\ feedbackOutputUsages = [d \in Outputs |-> {}]
    /\ superiorUnits = {}
    /\ reported = FALSE

UpdateIoUsage(u, input, output) ==
    /\ controlInputUsages' = UpdatedUsages(controlInputUsages, u, input)
    /\ feedbackOutputUsages' = UpdatedUsages(feedbackOutputUsages, u, output)
    /\ reported' = UsageHasChanged(feedbackOutputUsages, u, output)
    /\ UNCHANGED superiorUnits

MakeSuperior(u) ==
    /\ superiorUnits' = superiorUnits \cup {u}
    /\ UNCHANGED <<controlInputUsages, feedbackOutputUsages, reported>>

MakeInferior(u) ==
    /\ superiorUnits' = superiorUnits \ {u}
    /\ UNCHANGED <<controlInputUsages, feedbackOutputUsages, reported>>

Next ==
    \E u \in Units :
        \/ \E i \in Inputs \cup {NoDevice}, o \in Outputs \cup {NoDevice} :
              UpdateIoUsage(u, i, o)
        \/ MakeSuperior(u)
        \/ MakeInferior(u)

Spec == Init /\ [][Next]_usageVars

------------------------------------------------------------------------------
TypeOK ==
    /\ controlInputUsages \in [Inputs -> SUBSET Units]
    /\ feedbackOutputUsages \in [Outputs -> SUBSET Units]
    /\ superiorUnits \subseteq Units
    /\ reported \in BOOLEAN

(* A unit never shows up under two devices of a table.  update_io_usage    *)
(* reports the last device it removed the unit from: with two of them, the *)
(* report would depend on the hash map's iteration order.                  *)
OneDevicePerUnit ==
    /\ \A u \in Units, d, e \in Inputs :
          u \in controlInputUsages[d] \cap controlInputUsages[e] => d = e
    /\ \A u \in Units, d, e \in Outputs :
          u \in feedbackOutputUsages[d] \cap feedbackOutputUsages[e] => d = e

(* Whatever sequence of claims, releases and floor changes went before:    *)
(* among the units registered for a feedback output, the superior ones may *)
(* interact with it; the others may only if no superior unit is among them *)
(* (the comments in interaction_is_allowed).                               *)
FloorsAreRespected ==
    \A d \in Outputs : \A u \in feedbackOutputUsages[d] :
        InteractionIsAllowed(feedbackOutputUsages, superiorUnits, u, d)
            <=> u \in superiorUnits \/ feedbackOutputUsages[d] \cap superiorUnits = {}

(* The units' view of the tables: the device each one occupies.            *)
InputOf == [u \in Units |-> PreviouslyUsedDevice(controlInputUsages, u)]
OutputOf == [u \in Units |-> PreviouslyUsedDevice(feedbackOutputUsages, u)]

Occupancy == INSTANCE DeviceOccupancy WITH inputOf <- InputOf, outputOf <- OutputOf

(* The tables of sets behave like one occupied input and output per unit,  *)
(* and update_io_usage reports a change of the feedback output exactly     *)
(* when there is one.                                                      *)
ImplementsOccupancy == Occupancy!Spec

==============================================================================
