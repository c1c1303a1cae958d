------------------------------ MODULE AutoUnits ------------------------------
(***************************************************************************)
(* Instances with their units, and the units that are loaded automatically *)
(* for controllers: main/src/infrastructure/plugin/auto_units.rs,          *)
(* instance_shell.rs, unit_shell.rs and the registration of instances and  *)
(* units in backbone_shell.rs.                                             *)
(*                                                                         *)
(* Abstractions: presets always suit their controllers; "playtime" and     *)
(* other features required by a main preset are left out, as is all unit   *)
(* data except for input and output; the user doesn't change the ports of  *)
(* an auto unit; control and feedback of a unit are active together.       *)
(***************************************************************************)
EXTENDS ControllerDetection, SequencesExt

CONSTANTS Instances, \* numbered in project-first order
          UnitIds    \* enough for the units that exist at the same time

ASSUME UnitAssumption ==
    /\ Instances \subseteq Nat \ {0} /\ IsFiniteSet(Instances)
    /\ UnitIds \subseteq Nat \ {0} /\ IsFiniteSet(UnitIds) /\ Instances \subseteq UnitIds

VARIABLES
    instances, \* registered instances with their global_control_enabled
    units      \* registered units

unitVars == <<instances, units>>

\* controller is the position of an auto unit's controller, 0 for a manual
\* unit; no input means <FX input>.
Unit(i, isMain, controller, in, out) ==
    [instance |-> i, main |-> isMain, controller |-> controller, input |-> in, output |-> out,
     active |-> FALSE]

UnitRecords ==
    [instance: DOMAIN instances, main: BOOLEAN, controller: 0..Len(controllers),
     input: Ports, output: Ports, active: BOOLEAN]

UnitsTypeOK ==
    /\ DOMAIN instances \subseteq Instances
    /\ \A i \in DOMAIN instances : instances[i] \in BOOLEAN
    /\ DOMAIN units \subseteq UnitIds
    /\ \A u \in DOMAIN units : units[u] \in UnitRecords

------------------------------------------------------------------------------
IdsInUse ==
    LET processorTasks == {t \in ToSet(hookTasks) :
                              t.type \in {"AddRealTimeProcessor", "RemoveRealTimeProcessor"}}
    IN  DOMAIN units \cup rtProcessors \cup {t.id : t \in processorTasks}

FreeIds == UnitIds \ IdsInUse

\* UnitId::next, n times: an ID that nobody knows any more is as good as new.
\* Bound: who creates units waits until there are enough IDs.
EnoughIds(n) == Cardinality(FreeIds) >= n

FreshIds(n) == CHOOSE ids \in SUBSET FreeIds : Cardinality(ids) = n

\* The tasks of different units commute.
UnitTasks(type, ids) ==
    LET order == SetToSeq(ids)
    IN  [k \in 1..Cardinality(ids) |-> Task(type, order[k])]

AddTasks(ids) == UnitTasks("AddRealTimeProcessor", ids)

\* Mutant: only the main processor of a removed unit is removed.
RemoveTasksForgotten(ids) == <<>>

RemoveTasks(ids) == UnitTasks("RemoveRealTimeProcessor", ids)

UnitsOf(i) == {u \in UnitIds : u \in DOMAIN units /\ units[u].instance = i}

AdditionalUnitsOf(i) == {u \in UnitsOf(i) : ~units[u].main}

Without(ids) == Restrict(units, DOMAIN units \ ids)

With(map, x, value) == [y \in DOMAIN map \cup {x} |-> IF y = x THEN value ELSE map[y]]

\* Mutant: no update when manual units come and go.
RegistersSilently == UNCHANGED updatePending

\* register_unit and unregister_unit: unless it's an auto unit, an update of
\* auto units is scheduled.
RegistersManual == updatePending' = TRUE

------------------------------------------------------------------------------
\* init_instance_shell: the shell is created with its main unit, then the
\* instance is registered.
CreateInstance(i) ==
    /\ i \notin DOMAIN instances
    /\ instances' = With(instances, i, FALSE)
    /\ EnoughIds(1)
    /\ \E u \in FreshIds(1) :
          /\ units' = With(units, u, Unit(i, TRUE, 0, None, None))
          /\ SendTasks(AddTasks({u}) \o <<Task("AddRealTimeInstance", i)>>)
    /\ RegistersManual

\* The instance shell is dropped, then its main and additional units.
DropInstance(i) ==
    LET mainUnits == UnitsOf(i) \ AdditionalUnitsOf(i)
    IN  /\ units' = Without(UnitsOf(i))
        /\ instances' = Restrict(instances, DOMAIN instances \ {i})
        /\ SendTasks(<<Task("RemoveRealTimeInstance", i)>> \o RemoveTasks(mainUnits)
                     \o RemoveTasks(AdditionalUnitsOf(i)))
        /\ RegistersManual

AddUnit(i) ==
    /\ i \in DOMAIN instances /\ EnoughIds(1)
    /\ \E u \in FreshIds(1) :
          /\ units' = With(units, u, Unit(i, FALSE, 0, None, None))
          /\ SendTasks(AddTasks({u}))
    /\ RegistersManual
    /\ UNCHANGED instances

\* remove_unit, of a manual one
RemoveUnit(u) ==
    /\ u \in DOMAIN units /\ ~units[u].main /\ units[u].controller = 0
    /\ units' = Without({u})
    /\ SendTasks(RemoveTasks({u}))
    /\ RegistersManual
    /\ UNCHANGED instances

\* apply_data: all additional units, the auto units too, are replaced by the
\* given ones (here: one or none).
ApplyData(i, globalControl, n) ==
    LET ids == FreshIds(n)
        kept == DOMAIN units \ AdditionalUnitsOf(i)
    IN  /\ i \in DOMAIN instances /\ EnoughIds(n)
        /\ units' = [u \in kept \cup ids |->
                         IF u \in ids THEN Unit(i, FALSE, 0, None, None) ELSE units[u]]
        /\ instances' = [instances EXCEPT ![i] = globalControl]
        /\ SendTasks(AddTasks(ids) \o RemoveTasks(AdditionalUnitsOf(i)))
        /\ updatePending' = TRUE

\* change_settings
ToggleGlobalControl(i) ==
    /\ i \in DOMAIN instances
    /\ instances' = [instances EXCEPT ![i] = ~@]
    /\ updatePending' = TRUE
    /\ UNCHANGED <<units, hookTasks>>

\* pick_control_input and pick_feedback_output of the header panel
PickPort(u, direction, port) ==
    /\ u \in DOMAIN units /\ units[u].controller = 0
    /\ units[u][direction] # port
    /\ units' = [units EXCEPT ![u][direction] = port]
    /\ updatePending' = TRUE
    /\ UNCHANGED <<instances, hookTasks>>

\* The main processor reports GlobalControlAndFeedbackState.
ReportActivity(u) ==
    /\ u \in DOMAIN units /\ units[u].controller = 0
    /\ units' = [units EXCEPT ![u].active = ~@]
    /\ updatePending' = TRUE
    /\ UNCHANGED <<instances, hookTasks>>

------------------------------------------------------------------------------
(* update_auto_units                                                       *)

IsConnected(port) == port \in connected \cup {None}

\* build_auto_unit_from_controller returns something.
IsCandidate(c) ==
    /\ c # None
    /\ c.enabled /\ c.mainPreset
    /\ c.input # None \/ c.output # None
    /\ IsConnected(c.input) /\ IsConnected(c.output)

\* is_fine_with_global_auto_unit: a candidate without input counts as <FX
\* input> (control_input() of AutoUnitData).  Feedback is only active if the
\* unit has an output.
GivesVeto(unit, c) ==
    /\ unit.controller = 0
    /\ unit.active
    /\ unit.input = c.input \/ (unit.output # None /\ unit.output = c.output)

\* judge_auto_unit_candidates, by all instances
JudgedCandidates ==
    {k \in 1..Len(controllers) :
        /\ IsCandidate(controllers[k])
        /\ \A u \in DOMAIN units : ~GivesVeto(units[u], controllers[k])}

AutoUnitFor(i, k) == Unit(i, FALSE, k, controllers[k].input, controllers[k].output)

Carriers == {i \in DOMAIN instances : instances[i]}

\* The instances are visited in reverse project-first order.
FirstVisitedCarrier == Max(Carriers)

\* The auto units that are desired.  The first instance with global control
\* that is visited consumes them all; if there is none, nothing is created.
DesiredAutoUnits == IF Carriers = {} THEN {} ELSE JudgedCandidates

\* apply_auto_units, of all instances: the auto units of the instance that
\* consumes the desired ones are kept as far as their controllers are desired,
\* all others are removed.  (No two auto units have the same controller: it is
\* consumed by the first one.)
AutoUnits == {u \in DOMAIN units : units[u].controller # 0}

KeptAutoUnits ==
    {u \in AutoUnits : /\ units[u].controller \in DesiredAutoUnits
                       /\ units[u].instance = FirstVisitedCarrier}

\* What is left of the desired ones is created.
MissingAutoUnits == DesiredAutoUnits \ {units[u].controller : u \in KeptAutoUnits}

AppliedAutoUnits ==
    LET ids == FreshIds(Cardinality(MissingAutoUnits))
        controllerOf == CHOOSE f \in Bijection(ids, MissingAutoUnits) : TRUE
        updated(u) == [AutoUnitFor(FirstVisitedCarrier, units[u].controller)
                           EXCEPT !.active = units[u].active]
    IN  [u \in ids \cup (DOMAIN units \ (AutoUnits \ KeptAutoUnits)) |->
            CASE u \in ids           -> AutoUnitFor(FirstVisitedCarrier, controllerOf[u])
              [] u \in KeptAutoUnits -> updated(u)
              [] OTHER               -> units[u]]

\* Each unit shell that is created or dropped sends its task; those of
\* different units commute, so removed units may come first.
UpdateAutoUnits ==
    /\ updatePending /\ EnoughIds(Cardinality(MissingAutoUnits))
    /\ updatePending' = FALSE
    /\ units' = AppliedAutoUnits
    /\ SendTasks(RemoveTasks(UnitIds \cap (DOMAIN units \ DOMAIN units')) \o
                 AddTasks(UnitIds \cap (DOMAIN units' \ DOMAIN units)))
    /\ UNCHANGED instances

==============================================================================
