----------------------------- MODULE UsageTables -----------------------------
(***************************************************************************)
(* The functions the backbone (main/src/domain/backbone.rs) computes on    *)
(* its usage tables, which map each device to the units that use it, and   *)
(* on the set of superior units.                                           *)
(*                                                                         *)
(* A hash map from devices to sets of units is a function to sets here: a  *)
(* device without entry and one whose set became empty are treated alike   *)
(* by every reader in the code.                                            *)
(***************************************************************************)
EXTENDS FiniteSets, Naturals

CONSTANT NoDevice  \* Option::None

PreviouslyUsedDevice(usages, u) ==
    IF \E d \in DOMAIN usages : u \in usages[d]
    THEN CHOOSE d \in DOMAIN usages : u \in usages[d]
    ELSE NoDevice

\* Broken variant: an entry is created even if there is no device.
UpdatedUsagesWithEntryForNone(usages, u, device) ==
    [d \in DOMAIN usages \cup {device} |->
        IF d = device THEN {u} ELSE usages[d] \ {u}]

\* Broken variant: the usage of the previous device is not dropped.
UpdatedUsagesKeepingPrevious(usages, u, device) ==
    [d \in DOMAIN usages |-> IF d = device THEN usages[d] \cup {u} ELSE usages[d]]

UpdatedUsages(usages, u, device) ==
    [d \in DOMAIN usages |-> IF d = device THEN usages[d] \cup {u} ELSE usages[d] \ {u}]

\* Broken variant: a release is not reported as a change.
UsageHasChangedOnClaim(usages, u, device) ==
    device \in DOMAIN usages /\ u \notin usages[device]

UsageHasChanged(usages, u, device) == device # PreviouslyUsedDevice(usages, u)

\* Broken variant: the unit itself is not counted as a user of the device.
InteractionIsAllowedUpToTwo(usages, superior, u, device) ==
    \/ superior = {}
    \/ u \in superior
    \/ Cardinality(usages[device]) <= 2
    \/ usages[device] \cap superior = {}

InteractionIsAllowed(usages, superior, u, device) ==
    \/ superior = {}
    \/ u \in superior
    \/ Cardinality(usages[device]) <= 1
    \/ usages[device] \cap superior = {}

==============================================================================
