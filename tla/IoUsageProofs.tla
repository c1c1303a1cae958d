---------------------------- MODULE IoUsageProofs ----------------------------
(***************************************************************************)
(* What holds of the backbone's usage tables for any number of units and   *)
(* devices: the safety properties that MCIoUsage checks for three units,   *)
(* and that the tables implement DeviceOccupancy.                          *)
(*                                                                         *)
(* The inductive invariant is that both tables register each unit under    *)
(* one device at most.  It is what makes a lookup by unit well-defined, so *)
(* that update_io_usage drops and reports the right device.                *)
(***************************************************************************)
EXTENDS IoUsage, FiniteSetTheorems, TLAPS

------------------------------------------------------------------------------
(* The functions of UsageTables, for tables of any size.                   *)

\* A table over `devices` for `units` in which every unit has one device at most.
IsTable(usages, devices, units) ==
    /\ usages \in [devices -> SUBSET units]
    /\ NoDevice \notin devices
    /\ \A u \in units, d, e \in devices : u \in usages[d] \cap usages[e] => d = e

(* Looking up a registered unit finds its device, since there is only one  *)
(* (the loop over all entries in update_io_usage).                         *)
LEMMA LookupRegistered ==
    ASSUME NEW devices, NEW units, NEW usages, IsTable(usages, devices, units),
           NEW u \in units, NEW d \in devices, u \in usages[d]
    PROVE  PreviouslyUsedDevice(usages, u) = d
<1>1. DOMAIN usages = devices
    BY DEF IsTable
<1>2. \E e \in DOMAIN usages : u \in usages[e]
    BY <1>1
<1> DEFINE found == CHOOSE e \in DOMAIN usages : u \in usages[e]
<1>3. found \in devices /\ u \in usages[found]
    BY <1>1, <1>2
<1>4. found = d
    BY <1>3 DEF IsTable
<1>. QED  BY <1>2, <1>4 DEF PreviouslyUsedDevice

(* Looking up a unit that is registered nowhere finds no device.           *)
LEMMA LookupUnregistered ==
    ASSUME NEW devices, NEW units, NEW usages, IsTable(usages, devices, units),
           NEW u, \A d \in devices : u \notin usages[d]
    PROVE  PreviouslyUsedDevice(usages, u) = NoDevice
BY DEF IsTable, PreviouslyUsedDevice

(* A lookup finds a device of the table or none.                           *)
LEMMA LookupType ==
    ASSUME NEW devices, NEW units, NEW usages, IsTable(usages, devices, units),
           NEW u \in units
    PROVE  PreviouslyUsedDevice(usages, u) \in devices \cup {NoDevice}
<1>1. CASE \E d \in devices : u \in usages[d]
    BY <1>1, LookupRegistered
<1>2. CASE \A d \in devices : u \notin usages[d]
    BY <1>2, LookupUnregistered
<1>. QED  BY <1>1, <1>2

(* update_io_usage turns a table into a table: it drops the unit from its  *)
(* previous device before it registers the new one.                        *)
LEMMA UpdateKeepsTable ==
    ASSUME NEW devices, NEW units, NEW usages, IsTable(usages, devices, units),
           NEW u \in units, NEW device \in devices \cup {NoDevice}
    PROVE  IsTable(UpdatedUsages(usages, u, device), devices, units)
<1> DEFINE updated == UpdatedUsages(usages, u, device)
<1>1. DOMAIN usages = devices
    BY DEF IsTable
<1>2. /\ updated \in [devices -> SUBSET units]
      /\ \A d \in devices : updated[d] =
             IF d = device THEN usages[d] \cup {u} ELSE usages[d] \ {u}
    BY <1>1 DEF UpdatedUsages, IsTable
<1>3. ASSUME NEW v \in units, NEW d \in devices, NEW e \in devices,
             v \in updated[d], v \in updated[e]
      PROVE  d = e
  <2>1. CASE v = u
      BY <1>2, <1>3, <2>1
  <2>2. CASE v # u
      BY <1>2, <1>3, <2>2 DEF IsTable
  <2>. QED  BY <2>1, <2>2
<1> HIDE DEF updated
<1>4. IsTable(updated, devices, units)
    BY <1>2, <1>3 DEF IsTable
<1>. QED  BY <1>4 DEF updated

(* After update_io_usage a lookup finds the new device for the unit and    *)
(* what it found before for every other unit.                              *)
LEMMA LookupAfterUpdate ==
    ASSUME NEW devices, NEW units, NEW usages, IsTable(usages, devices, units),
           NEW u \in units, NEW v \in units, NEW device \in devices \cup {NoDevice}
    PROVE  PreviouslyUsedDevice(UpdatedUsages(usages, u, device), v) =
               IF v = u THEN device ELSE PreviouslyUsedDevice(usages, v)
<1> DEFINE updated == UpdatedUsages(usages, u, device)
<1>1. IsTable(updated, devices, units)
    BY UpdateKeepsTable
<1>2. \A d \in devices : updated[d] =
             IF d = device THEN usages[d] \cup {u} ELSE usages[d] \ {u}
    BY DEF UpdatedUsages, IsTable
<1>3. NoDevice \notin devices
    BY DEF IsTable
<1> HIDE DEF updated
<1>4. CASE v = u
  <2>1. CASE device \in devices
    <3>1. v \in updated[device]
        BY <1>2, <1>4, <2>1
    <3>. QED  BY <1>1, <1>4, <2>1, <3>1, LookupRegistered DEF updated
  <2>2. CASE device = NoDevice
    <3>1. \A d \in devices : v \notin updated[d]
        BY <1>2, <1>3, <1>4, <2>2
    <3>. QED  BY <1>1, <1>4, <2>2, <3>1, LookupUnregistered DEF updated
  <2>. QED  BY <2>1, <2>2
<1>5. CASE v # u
  <2>1. \A d \in devices : v \in updated[d] <=> v \in usages[d]
      BY <1>2, <1>5
  <2>2. CASE \E d \in devices : v \in usages[d]
    <3>1. PICK d \in devices : v \in usages[d]
        BY <2>2
    <3>2. PreviouslyUsedDevice(usages, v) = d
        BY <3>1, LookupRegistered
    <3>3. PreviouslyUsedDevice(updated, v) = d
        BY <1>1, <2>1, <3>1, LookupRegistered
    <3>. QED  BY <1>5, <3>2, <3>3 DEF updated
  <2>3. CASE \A d \in devices : v \notin usages[d]
    <3>1. PreviouslyUsedDevice(usages, v) = NoDevice
        BY <2>3, LookupUnregistered
    <3>2. PreviouslyUsedDevice(updated, v) = NoDevice
        BY <1>1, <2>1, <2>3, LookupUnregistered
    <3>. QED  BY <1>5, <3>1, <3>2 DEF updated
  <2>. QED  BY <2>2, <2>3
<1>. QED  BY <1>4, <1>5

(* interaction_is_allowed answers as its comments say for every unit that  *)
(* is registered for the device: counting the users is no different from   *)
(* asking whether the unit itself is the only one.                         *)
LEMMA InteractionOfRegistered ==
    ASSUME NEW usages, NEW superior, NEW device, NEW u \in usages[device],
           IsFiniteSet(usages[device])
    PROVE  InteractionIsAllowed(usages, superior, u, device)
               <=> u \in superior \/ usages[device] \cap superior = {}
<1> DEFINE users == usages[device]
<1>1. Cardinality(users) \in Nat
    BY FS_CardinalityType
<1>2. ASSUME Cardinality(users) <= 1
      PROVE  users = {u}
  <2>1. Cardinality(users) # 0
      BY FS_EmptySet
  <2>2. Cardinality(users) = 1
      BY <1>1, <1>2, <2>1
  <2>3. PICK x : users = {x}
      BY <2>2, FS_Singleton
  <2>. QED  BY <2>3
<1>3. Cardinality(users) <= 1 => u \in superior \/ users \cap superior = {}
    BY <1>2
<1>. QED  BY <1>3 DEF InteractionIsAllowed

------------------------------------------------------------------------------
(* The component.                                                          *)

Inv ==
    /\ IsTable(controlInputUsages, Inputs, Units)
    /\ IsTable(feedbackOutputUsages, Outputs, Units)
    /\ superiorUnits \subseteq Units
    /\ reported \in BOOLEAN

LEMMA InitInv == Init => Inv
BY DevicesAssumption DEF Init, Inv, IsTable

LEMMA NextInv == Inv /\ [Next]_usageVars => Inv'
<1> SUFFICES ASSUME Inv, [Next]_usageVars
             PROVE  Inv'
    OBVIOUS
<1>1. ASSUME NEW u \in Units, NEW i \in Inputs \cup {NoDevice},
             NEW o \in Outputs \cup {NoDevice}, UpdateIoUsage(u, i, o)
      PROVE  Inv'
  <2>1. IsTable(controlInputUsages, Inputs, Units)'
    <3>1. IsTable(UpdatedUsages(controlInputUsages, u, i), Inputs, Units)
        BY UpdateKeepsTable DEF Inv
    <3>. QED  BY <1>1, <3>1 DEF UpdateIoUsage
  <2>2. IsTable(feedbackOutputUsages, Outputs, Units)'
    <3>1. IsTable(UpdatedUsages(feedbackOutputUsages, u, o), Outputs, Units)
        BY UpdateKeepsTable DEF Inv
    <3>. QED  BY <1>1, <3>1 DEF UpdateIoUsage
  <2>3. reported' \in BOOLEAN
      BY <1>1 DEF UpdateIoUsage, UsageHasChanged
  <2>. QED  BY <1>1, <2>1, <2>2, <2>3 DEF UpdateIoUsage, Inv
<1>2. ASSUME NEW u \in Units, MakeSuperior(u)
      PROVE  Inv'
    BY <1>2 DEF MakeSuperior, Inv, IsTable
<1>3. ASSUME NEW u \in Units, MakeInferior(u)
      PROVE  Inv'
    BY <1>3 DEF MakeInferior, Inv, IsTable
<1>4. CASE UNCHANGED usageVars
    BY <1>4 DEF usageVars, Inv, IsTable
<1>. QED  BY <1>1, <1>2, <1>3, <1>4 DEF Next

LEMMA Invariance == Spec => []Inv
BY InitInv, NextInv, PTL DEF Spec

(* The tables and the set of superior units keep their types.              *)
THEOREM TypeCorrectness == Spec => []TypeOK
<1>1. Inv => TypeOK
    BY DEF Inv, TypeOK, IsTable
<1>. QED  BY <1>1, Invariance, PTL

(* No unit is ever registered under two inputs or two outputs.             *)
THEOREM DevicesAreExclusivePerUnit == Spec => []OneDevicePerUnit
<1>1. Inv => OneDevicePerUnit
    BY DEF Inv, OneDevicePerUnit, IsTable
<1>. QED  BY <1>1, Invariance, PTL

(* Among the registered units, exactly those may interact with an output   *)
(* that no superior unit covers.                                           *)
THEOREM FloorsAreRespectedAlways == Spec => []FloorsAreRespected
<1>1. Inv => FloorsAreRespected
  <2> SUFFICES ASSUME Inv, NEW d \in Outputs, NEW u \in feedbackOutputUsages[d]
               PROVE  InteractionIsAllowed(feedbackOutputUsages, superiorUnits, u, d)
                          <=> \/ u \in superiorUnits
                              \/ feedbackOutputUsages[d] \cap superiorUnits = {}
      BY DEF FloorsAreRespected
  <2>1. feedbackOutputUsages[d] \in SUBSET Units
      BY DEF Inv, IsTable
  <2>2. IsFiniteSet(feedbackOutputUsages[d])
      BY <2>1, UnitsAssumption, FS_Subset
  <2>. QED  BY <2>2, InteractionOfRegistered
<1>. QED  BY <1>1, Invariance, PTL

------------------------------------------------------------------------------
(* The implementation of DeviceOccupancy.                                  *)

LEMMA InitImplements == Init => Occupancy!Init
<1> SUFFICES ASSUME Init
             PROVE  Occupancy!Init
    OBVIOUS
<1>1. Inv
    BY InitInv
<1>2. InputOf = [u \in Units |-> NoDevice]
  <2>1. \A u \in Units : PreviouslyUsedDevice(controlInputUsages, u) = NoDevice
      BY <1>1, LookupUnregistered DEF Init, Inv
  <2>. QED  BY <2>1 DEF InputOf
<1>3. OutputOf = [u \in Units |-> NoDevice]
  <2>1. \A u \in Units : PreviouslyUsedDevice(feedbackOutputUsages, u) = NoDevice
      BY <1>1, LookupUnregistered DEF Init, Inv
  <2>. QED  BY <2>1 DEF OutputOf
<1>. QED  BY <1>2, <1>3 DEF Init, Occupancy!Init

(* A claim or release changes the occupancy of this one unit.              *)
LEMMA UpdateImplementsOccupy ==
    ASSUME Inv, NEW u \in Units, NEW i \in Inputs \cup {NoDevice},
           NEW o \in Outputs \cup {NoDevice}, UpdateIoUsage(u, i, o)
    PROVE  Occupancy!Occupy(u, i, o)
<1>1. InputOf' = [InputOf EXCEPT ![u] = i]
  <2>1. \A v \in Units :
            PreviouslyUsedDevice(UpdatedUsages(controlInputUsages, u, i), v) =
                IF v = u THEN i ELSE PreviouslyUsedDevice(controlInputUsages, v)
      BY LookupAfterUpdate DEF Inv
  <2>. QED  BY <2>1 DEF UpdateIoUsage, InputOf
<1>2. OutputOf' = [OutputOf EXCEPT ![u] = o]
  <2>1. \A v \in Units :
            PreviouslyUsedDevice(UpdatedUsages(feedbackOutputUsages, u, o), v) =
                IF v = u THEN o ELSE PreviouslyUsedDevice(feedbackOutputUsages, v)
      BY LookupAfterUpdate DEF Inv
  <2>. QED  BY <2>1 DEF UpdateIoUsage, OutputOf
<1>3. reported' = (OutputOf[u] # o)
    BY DEF UpdateIoUsage, UsageHasChanged, OutputOf
<1>. QED  BY <1>1, <1>2, <1>3 DEF UpdateIoUsage, Occupancy!Occupy

LEMMA NextImplements ==
    Inv /\ Inv' /\ [Next]_usageVars => [Occupancy!Next]_Occupancy!occupancyVars
<1> SUFFICES ASSUME Inv, Inv', [Next]_usageVars
             PROVE  [Occupancy!Next]_Occupancy!occupancyVars
    OBVIOUS
<1>1. ASSUME NEW u \in Units, NEW i \in Inputs \cup {NoDevice},
             NEW o \in Outputs \cup {NoDevice}, UpdateIoUsage(u, i, o)
      PROVE  Occupancy!Next
    BY <1>1, UpdateImplementsOccupy DEF Occupancy!Next
<1>2. ASSUME NEW u \in Units, MakeSuperior(u) \/ MakeInferior(u)
      PROVE  Occupancy!Next
  <2>1. InputOf' = InputOf /\ OutputOf' = OutputOf
      BY <1>2 DEF MakeSuperior, MakeInferior, InputOf, OutputOf
  <2>2. superiorUnits' \in SUBSET Units /\ reported' = reported
      BY <1>2 DEF MakeSuperior, MakeInferior, Inv
  <2>. QED  BY <2>1, <2>2 DEF Occupancy!Next, Occupancy!ChangeFloor
<1>3. CASE UNCHANGED usageVars
    BY <1>3 DEF usageVars, Occupancy!occupancyVars, InputOf, OutputOf
<1>. QED  BY <1>1, <1>2, <1>3 DEF Next

(* For every unit the tables behave like one occupied input and output,    *)
(* and update_io_usage reports exactly the changes of the output.          *)
THEOREM ImplementsOccupancyAlways == Spec => ImplementsOccupancy
<1>1. ImplementsOccupancy <=> Occupancy!Init /\ [][Occupancy!Next]_Occupancy!occupancyVars
    BY DEF ImplementsOccupancy, Occupancy!Spec
<1>. QED  BY <1>1, InitImplements, NextImplements, Invariance, PTL DEF Spec

==============================================================================
