-------------------------- MODULE MCProcessorSync --------------------------
(***************************************************************************)
(* Small instances of ProcessorSync.                                       *)
(***************************************************************************)
EXTENDS ProcessorSync

CONSTANTS d1, m1

\* A mapping that is on; the other changes produce the other states.
On == {[enabled |-> TRUE, active |-> TRUE, targetActive |-> TRUE]}

MainOnly == <<"Main">>

\* Everything but changes of an existing output
AnythingButMoving ==
    {"UpdateSettings", "PotentiallyEnableOrDisable", "UpdateAllMappings", "UpdateSingleMapping",
     "UpdatePersistentProcessingState", "UpdateMappingsPartially", "UpdateTargetsPartially",
     "SetControlMode"}

SwitchesOnly == {"UpdateSettings", "PotentiallyEnableOrDisable"}
============================================================================
