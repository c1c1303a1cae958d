-------------------------- MODULE MappingActivation --------------------------
(***************************************************************************)
(* How the main processor of a unit decides which mappings are active and  *)
(* controls targets with them. Everything but the parameter manager runs   *)
(* in the main thread, one main loop cycle after the other:                *)
(*                                                                         *)
(*   process_events    change events that piled up since the last cycle    *)
(*   run_essential     tasks of the unit model, parameter tasks, target    *)
(*                     value changes of lead mappings                      *)
(*   run_control       control messages, polled sources                    *)
(*   process_events    change events caused by controlling                 *)
(*                                                                         *)
(* Parameters are set from any thread: the parameter manager keeps them    *)
(* under a lock and tells the main processor, which has a copy, through a  *)
(* bounded channel. It sends while it holds the lock, so setting is atomic.*)
(* The only phase which that can influence is the one that receives, so    *)
(* the model lets other threads run only then and between two cycles.      *)
(*                                                                         *)
(* The model has one compartment whose mappings are enabled and have real  *)
(* targets that don't depend on parameters, and control is possible.       *)
(***************************************************************************)
EXTENDS ActivationConditions, MappingControl, SequencesExt

CONSTANTS
    Params,          \* compartment parameters
    ParamValues,     \* their values
    Presets,         \* parameter values that are set together
    Layouts,         \* the mapping data that may be submitted: mapping -> data or None
    Tracks, Switches,
    Messages,        \* control messages that come in, pairs of source and value
    ParamCapacity,   \* PARAMETER_MAIN_TASK_QUEUE_SIZE, 20000 in the code
    ParamBulk,       \* PARAMETER_TASK_BULK_SIZE, 500 in the code
    Bulk,            \* NORMAL_TASK_BULK_SIZE and FEEDBACK_TASK_BULK_SIZE, 1000 in the code
    MaxPending,      \* bound on the tasks and events the user lets pile up
    Ops              \* what happens in the environment

ASSUME BoundsAssumption == {ParamCapacity, ParamBulk, Bulk} \subseteq Nat \ {0} /\ MaxPending \in Nat
ASSUME ValuesAssumption == ParamValues \subseteq Nat /\ 0 \in ParamValues
ASSUME MappingsAssumption == MappingCount \in Nat /\ None \notin Mappings
ASSUME TracksAssumption == NoTrack \notin Tracks
ASSUME MessagesAssumption == \A msg \in Messages : msg[2] \in {0, 1}

\* Conditions are about parameters that exist.
RefersToParams(c) ==
    /\ c.kind = "Modifiers" => DOMAIN c.on \subseteq Params
    /\ c.kind = "Program" => c.param \in Params
    /\ c.kind = "Script" => c.uses \subseteq Params

\* Targets are about tracks and switches that exist.
Targets ==
    {SelectTrack(track) : track \in Tracks}
    \cup {Switch(id, track) : id \in Switches, track \in Tracks \cup {NoTrack}}

IsMappingData(d) ==
    \/ d = None
    \/ d.target \in Targets /\ \A i \in 1..2 : RefersToParams(d.conditions[i])

ASSUME LayoutsAssumption ==
    \A d \in Layouts : DOMAIN d = Mappings /\ \A m \in Mappings : IsMappingData(d[m])
ASSUME PresetsAssumption == Presets \subseteq [Params -> ParamValues]

VARIABLES
    canon,         \* the parameters in the parameter manager
    paramTasks,    \* channel of parameter tasks
    unsent,        \* history: parameters whose latest value was not sent
    params,        \* the parameters of the main processor
    data,          \* its mappings
    flags,         \* activation_state of each mapping
    targetActive,  \* options.target_is_active of each mapping
    world,         \* REAPER
    session,       \* channel of normal tasks
    feedback,      \* channel of feedback tasks
    phase, budget, \* where the main loop is, tasks it may still take in this phase
    conditionsChanged

paramVars == <<canon, paramTasks, unsent>>
mappingVars == <<data, flags, targetActive>>
loopVars == <<phase, budget, conditionsChanged>>
vars == <<paramVars, params, mappingVars, world, session, feedback, loopVars>>

-----------------------------------------------------------------------------
\* State functions

Present == {m \in Mappings : data[m] # None}

\* is_active: both conditions are fulfilled and the target is active.
IsActive(m) == flags[m][1] /\ flags[m][2] /\ targetActive[m]
On == {m \in Present : IsActive(m)}

Follows(d, m, lead) == d[m] # None /\ \E i \in 1..2 : LeadMapping(d[m].conditions[i]) = lead
IsLeadMapping(d, lead) == \E m \in Mappings : Follows(d, m, lead)

TargetIsActive(m) == ConditionsAreMet(data[m].target, world)

\* determine_final_target_value_for_conditional_activation. The targets of the
\* model always have a value.
FinalTargetValue(active, value) == IF active THEN value ELSE Inactive

Single(p, v) == [type |-> "UpdateSingleParamValue", param |-> p, value |-> v]
AllParams(ps) == [type |-> "UpdateAllParams", params |-> ps]
NotifyConditionsChanged == [type |-> "NotifyConditionsChanged"]
UpdateSingle(m, d) == [type |-> "UpdateSingleMapping", mapping |-> m, data |-> d]
UpdateAll(d) == [type |-> "UpdateAllMappings", data |-> d]
ValueChanged(m, v) == [type |-> "MappingTargetValueChanged", lead |-> m, value |-> v]

\* A parameter task is about all parameters or one of them.
Concerns(task, p) == task.type = "UpdateAllParams" \/ task.param = p
ValueIn(task, p) == IF task.type = "UpdateAllParams" THEN task.params[p] ELSE task.value

-----------------------------------------------------------------------------
\* Parameter manager

OtherThreadsMayRun == phase \in {"idle", "params"}

\* Broken variant: the channel is taken for an unbounded one.
SendParamTaskUnbounded(task, affected) ==
    /\ paramTasks' = Append(paramTasks, task)
    /\ unsent' = unsent \ affected

\* A full channel drops the task.
SendParamTask(task, affected) ==
    IF Len(paramTasks) < ParamCapacity
    THEN /\ paramTasks' = Append(paramTasks, task)
         /\ unsent' = unsent \ affected
    ELSE /\ unsent' = unsent \cup affected
         /\ UNCHANGED paramTasks

\* An equal value is ignored. While rendering, nothing is sent.
SetSingleParameter(p, v, rendering) ==
    /\ "SetSingleParameter" \in Ops /\ OtherThreadsMayRun
    /\ rendering => "Rendering" \in Ops
    /\ canon[p] # v
    /\ canon' = [canon EXCEPT ![p] = v]
    /\ IF rendering
       THEN unsent' = unsent \cup {p} /\ UNCHANGED paramTasks
       ELSE SendParamTask(Single(p, v), {p})
    /\ UNCHANGED <<params, mappingVars, world, session, feedback, loopVars>>

\* Broken variant: the task is built before the lock is taken.
SetAllParametersFromCopy(ps) ==
    /\ "SetAllParameters" \in Ops /\ OtherThreadsMayRun
    /\ canon' = ps
    /\ SendParamTask(AllParams(canon), Params)
    /\ UNCHANGED <<params, mappingVars, world, session, feedback, loopVars>>

SetAllParameters(ps) ==
    /\ "SetAllParameters" \in Ops /\ OtherThreadsMayRun
    /\ canon' = ps
    /\ SendParamTask(AllParams(ps), Params)
    /\ UNCHANGED <<params, mappingVars, world, session, feedback, loopVars>>

-----------------------------------------------------------------------------
\* User, between two cycles

\* The unit model submits mappings.
Submit(task) ==
    /\ phase = "idle"
    /\ Len(session) < MaxPending
    /\ session' = Append(session, task)
    /\ UNCHANGED <<paramVars, params, mappingVars, world, feedback, loopVars>>

SubmitMappings ==
    /\ "UpdateAllMappings" \in Ops
    /\ \E d \in Layouts : Submit(UpdateAll(d))

SubmitMapping ==
    /\ "UpdateSingleMapping" \in Ops
    /\ \E m \in Present, d \in Layouts : d[m] # None /\ Submit(UpdateSingle(m, d[m]))

TouchTarget ==
    /\ "TouchTarget" \in Ops
    /\ phase = "idle"
    /\ Len(world.events) < MaxPending
    /\ \/ \E track \in Tracks : world' = Selected(BeginTransaction(world), track)
       \/ \E id \in Switches, v \in {0, 1} : world' = Switched(BeginTransaction(world), id, v)
    /\ UNCHANGED <<paramVars, params, mappingVars, session, feedback, loopVars>>

-----------------------------------------------------------------------------
\* Main loop

EnterPhase(p) ==
    /\ phase' = p
    /\ budget' = IF p = "params" THEN ParamBulk ELSE Bulk
    /\ conditionsChanged' = FALSE
Forget == world' = BeginTransaction(world)

StartCycle ==
    /\ phase = "idle"
    /\ EnterPhase("events")
    /\ Forget
    /\ UNCHANGED <<paramVars, params, mappingVars, session, feedback>>

\* Target value changes are deferred if the mapping is a lead mapping. The value
\* is the one the event carries. An event that changes conditions, here a track
\* selection, leads to a refresh of all targets.
LeadTasks(e) ==
    LET leads == {m \in Present : IsLeadMapping(data, m) /\ IsAbout(e, data[m].target)}
        task(m) == ValueChanged(m, ValueInEvent(e, data[m].target))
    IN  FlattenSeq([m \in Mappings |-> IF m \in leads THEN <<task(m)>> ELSE <<>>])

ChangesConditions(e) == e.kind = "TrackSelected"

ProcessChangeEvents ==
    /\ phase \in {"events", "ownEvents"}
    /\ feedback' = feedback \o FlattenSeq([i \in DOMAIN world.events |-> LeadTasks(world.events[i])])
    /\ session' = IF \E i \in DOMAIN world.events : ChangesConditions(world.events[i])
                  THEN Append(session, NotifyConditionsChanged) ELSE session
    /\ world' = [BeginTransaction(world) EXCEPT !.events = <<>>]
    /\ EnterPhase(IF phase = "events" THEN "session" ELSE "idle")
    /\ UNCHANGED <<paramVars, params, mappingVars>>

\* Takes the first task of a channel.
Take(channel, p) ==
    /\ phase = p
    /\ budget > 0
    /\ channel # <<>>
    /\ budget' = budget - 1
    /\ Forget
    /\ UNCHANGED phase

NoFlags == [i \in 1..2 |-> FALSE]

\* init_target_and_activation of a new mapping: conditions that depend on
\* parameters are evaluated, the others are not fulfilled yet.
InitialFlags(d) ==
    IF d = None THEN NoFlags ELSE [i \in 1..2 |-> AfterAllParams(FALSE, d.conditions[i], params)]

\* Reports the current target value of some lead mappings to their followers.
ReportLeads(d, fl, active, leads) ==
    LET y(l) == FinalTargetValue(active[l], CurrentValue(d[l].target, world))
        update(m, i) ==
            LET c == d[m].conditions[i] l == LeadMapping(c)
            IN  IF l \in leads THEN AfterTargetValue(fl[m][i], c, l, y(l)) ELSE fl[m][i]
    IN  [m \in Mappings |->
            IF d[m] = None THEN fl[m] ELSE [i \in 1..2 |-> update(m, i)]]

Leads(d) == {l \in Mappings : d[l] # None /\ IsLeadMapping(d, l)}

UpdateAllMappings ==
    /\ Take(session, "session")
    /\ Head(session).type = "UpdateAllMappings"
    /\ LET d == Head(session).data
           active == [m \in Mappings |-> d[m] # None /\ ConditionsAreMet(d[m].target, world)]
       IN  /\ data' = d
           /\ targetActive' = active
           /\ flags' = ReportLeads(d, [m \in Mappings |-> InitialFlags(d[m])], active, Leads(d))
    /\ session' = Tail(session)
    /\ UNCHANGED <<paramVars, params, feedback, conditionsChanged>>

\* Broken variant: forgets that the new mapping may follow others.
UpdateLeadMappingOnly ==
    /\ Take(session, "session")
    /\ Head(session).type = "UpdateSingleMapping"
    /\ LET m == Head(session).mapping
           d == [data EXCEPT ![m] = Head(session).data]
           active == [targetActive EXCEPT ![m] = ConditionsAreMet(d[m].target, world)]
       IN  /\ data' = d
           /\ targetActive' = active
           /\ flags' = ReportLeads(d, [flags EXCEPT ![m] = InitialFlags(d[m])], active,
                                   Leads(d) \cap {m})
    /\ session' = Tail(session)
    /\ UNCHANGED <<paramVars, params, feedback, conditionsChanged>>

\* The new mapping can be a lead mapping, a follow mapping or both.
UpdateSingleMapping ==
    /\ Take(session, "session")
    /\ Head(session).type = "UpdateSingleMapping"
    /\ LET m == Head(session).mapping
           d == [data EXCEPT ![m] = Head(session).data]
           active == [targetActive EXCEPT ![m] = ConditionsAreMet(d[m].target, world)]
           leads == {l \in Leads(d) : l = m \/ Follows(d, m, l)}
       IN  /\ data' = d
           /\ targetActive' = active
           /\ flags' = ReportLeads(d, [flags EXCEPT ![m] = InitialFlags(d[m])], active, leads)
    /\ session' = Tail(session)
    /\ UNCHANGED <<paramVars, params, feedback, conditionsChanged>>

RememberChangedConditions ==
    /\ Take(session, "session")
    /\ Head(session).type = "NotifyConditionsChanged"
    /\ conditionsChanged' = TRUE
    /\ session' = Tail(session)
    /\ UNCHANGED <<paramVars, params, mappingVars, feedback>>

\* Broken variant: a target that turns active or inactive is not reported.
EndSessionSilently ==
    /\ phase = "session"
    /\ session = <<>> \/ budget = 0
    /\ targetActive' = IF conditionsChanged THEN [m \in Mappings |-> m \in Present /\ TargetIsActive(m)]
                       ELSE targetActive
    /\ EnterPhase("params")
    /\ Forget
    /\ UNCHANGED <<paramVars, params, data, flags, session, feedback>>

\* process_changed_conditions refreshes all targets. Those that turn active or
\* inactive are reported if they belong to lead mappings.
EndSession ==
    /\ phase = "session"
    /\ session = <<>> \/ budget = 0
    /\ IF conditionsChanged
       THEN LET active == [m \in Mappings |-> m \in Present /\ TargetIsActive(m)]
                updated == {m \in Present : active[m] # targetActive[m]}
            IN  /\ targetActive' = active
                /\ flags' = ReportLeads(data, flags, active, updated \cap Leads(data))
       ELSE UNCHANGED <<targetActive, flags>>
    /\ EnterPhase("params")
    /\ Forget
    /\ UNCHANGED <<paramVars, params, data, session, feedback>>

\* Changing a parameter is a change of conditions, it can affect conditions, and
\* it is a source of control.
UpdateSingleParamValue ==
    /\ phase = "params" /\ budget > 0 /\ paramTasks # <<>>
    /\ LET task == Head(paramTasks)
           param == task.param
           new == [params EXCEPT ![param] = task.value]
           updated == [m \in Mappings |->
                IF data[m] = None THEN flags[m]
                ELSE [i \in 1..2 |->
                        AfterParamUpdate(flags[m][i], data[m].conditions[i], new, param, params[param])]]
           on == {m \in Present : updated[m][1] /\ updated[m][2] /\ targetActive[m]}
       IN  /\ task.type = "UpdateSingleParamValue"
           /\ params' = new
           /\ flags' = updated
           /\ world' = ProcessMessage(data, on, ParamSource(param), IF IsOn(task.value) THEN 1 ELSE 0, world)
    /\ paramTasks' = Tail(paramTasks)
    /\ session' = Append(session, NotifyConditionsChanged)
    /\ budget' = budget - 1
    /\ UNCHANGED <<canon, unsent, data, targetActive, feedback, phase, conditionsChanged>>

UpdateAllParams ==
    /\ Take(paramTasks, "params")
    /\ Head(paramTasks).type = "UpdateAllParams"
    /\ params' = Head(paramTasks).params
    /\ flags' = [m \in Mappings |->
            IF data[m] = None THEN flags[m]
            ELSE [i \in 1..2 |-> AfterAllParams(flags[m][i], data[m].conditions[i], params')]]
    /\ paramTasks' = Tail(paramTasks)
    /\ UNCHANGED <<canon, unsent, data, targetActive, session, feedback, conditionsChanged>>

EndParams ==
    /\ phase = "params"
    /\ paramTasks = <<>> \/ budget = 0
    /\ EnterPhase("feedback")
    /\ Forget
    /\ UNCHANGED <<paramVars, params, mappingVars, session, feedback>>

\* Broken variant: values of lead mappings that are off are ignored.
MappingTargetValueChangedIfOn ==
    /\ Take(feedback, "feedback")
    /\ LET task == Head(feedback)
           y == FinalTargetValue(TRUE, task.value)
       IN  flags' = [m \in Mappings |->
                IF data[m] = None \/ task.lead \notin On THEN flags[m]
                ELSE [i \in 1..2 |-> AfterTargetValue(flags[m][i], data[m].conditions[i], task.lead, y)]]
    /\ feedback' = Tail(feedback)
    /\ UNCHANGED <<paramVars, params, data, targetActive, session, conditionsChanged>>

\* The deferred target value changes. Whether the target is active at the
\* moment isn't asked: the value is taken as the one of an active target.
MappingTargetValueChanged ==
    /\ Take(feedback, "feedback")
    /\ LET task == Head(feedback)
           y == FinalTargetValue(TRUE, task.value)
       IN  flags' = [m \in Mappings |->
                IF data[m] = None THEN flags[m]
                ELSE [i \in 1..2 |-> AfterTargetValue(flags[m][i], data[m].conditions[i], task.lead, y)]]
    /\ feedback' = Tail(feedback)
    /\ UNCHANGED <<paramVars, params, data, targetActive, session, conditionsChanged>>

EndFeedback ==
    /\ phase = "feedback"
    /\ feedback = <<>> \/ budget = 0
    /\ EnterPhase("control")
    /\ Forget
    /\ UNCHANGED <<paramVars, params, mappingVars, session, feedback>>

\* At most one message per cycle.
RunControl ==
    /\ phase = "control"
    /\ \/ Forget
       \/ \E msg \in Messages : world' = ProcessMessage(data, On, msg[1], msg[2], world)
    /\ EnterPhase("poll")
    /\ UNCHANGED <<paramVars, params, mappingVars, session, feedback>>

\* At most one timer fires per cycle.
PollSources ==
    /\ phase = "poll"
    /\ \/ Forget
       \/ \E m \in On : data[m].source = Timer /\ world' = PollControl(data, On, m, world)
    /\ EnterPhase("ownEvents")
    /\ UNCHANGED <<paramVars, params, mappingVars, session, feedback>>

MainLoop ==
    \/ StartCycle \/ ProcessChangeEvents
    \/ UpdateAllMappings \/ UpdateSingleMapping \/ RememberChangedConditions \/ EndSession
    \/ UpdateSingleParamValue \/ UpdateAllParams \/ EndParams
    \/ MappingTargetValueChanged \/ EndFeedback
    \/ RunControl \/ PollSources

Environment ==
    \/ \E p \in Params, v \in ParamValues, rendering \in BOOLEAN : SetSingleParameter(p, v, rendering)
    \/ \E ps \in Presets : SetAllParameters(ps)
    \/ SubmitMappings \/ SubmitMapping \/ TouchTarget

Next == MainLoop \/ Environment

Init ==
    /\ canon = [p \in Params |-> 0]
    /\ params = canon
    /\ paramTasks = <<>> /\ unsent = {}
    /\ data = [m \in Mappings |-> None]
    /\ flags = [m \in Mappings |-> NoFlags]
    /\ targetActive = [m \in Mappings |-> FALSE]
    /\ world = [selected |-> NoTrack, switches |-> [id \in Switches |-> 0], events |-> <<>>,
                reached |-> {}, hits |-> <<>>]
    /\ session = <<>> /\ feedback = <<>>
    /\ phase = "idle" /\ budget = Bulk /\ conditionsChanged = FALSE

\* REAPER calls the main loop about 30 times per second.
Spec == Init /\ [][Next]_vars /\ WF_vars(MainLoop)

-----------------------------------------------------------------------------
\* Properties

Phases == {"idle", "events", "session", "params", "feedback", "control", "poll", "ownEvents"}

\* The channels hold the tasks they are made for and parameters, flags and
\* targets exist for each parameter and mapping.
TypeOK ==
    /\ canon \in [Params -> ParamValues] /\ params \in [Params -> ParamValues]
    /\ Len(paramTasks) <= ParamCapacity /\ unsent \subseteq Params
    /\ DOMAIN data = Mappings
    /\ flags \in [Mappings -> [1..2 -> BOOLEAN]]
    /\ targetActive \in [Mappings -> BOOLEAN]
    /\ world.selected \in Tracks \cup {NoTrack} /\ world.switches \in [Switches -> {0, 1}]
    /\ \A i \in DOMAIN session :
            session[i].type \in {"NotifyConditionsChanged", "UpdateSingleMapping", "UpdateAllMappings"}
    /\ \A i \in DOMAIN feedback : feedback[i].lead \in Mappings /\ feedback[i].value \in {0, 1}
    /\ phase \in Phases /\ budget \in Nat /\ conditionsChanged \in BOOLEAN

\* Whatever sequence of single changes, complete replacements and edits of
\* mappings occurred: the incrementally maintained flag of each condition that
\* depends on parameters is what a complete evaluation would give
\* (conditional_activation.rs, process_param_update vs. is_fulfilled).
FlagsMatchParams ==
    \A m \in Present : \A i \in 1..2 :
        LET c == data[m].conditions[i]
        IN  ~DependsOnTarget(c) => (flags[m][i] <=> IsFulfilled(c, params))

\* The last task under way that concerns a parameter carries its value in the
\* parameter manager, and without such a task the main processor has it,
\* whatever threads have set it in whatever order, except for values that were
\* set while rendering or didn't fit into the channel (parameter_manager.rs,
\* set_single_parameter).
ParamsReachMainProcessor ==
    \A p \in Params \ unsent :
        \/ \E i \in DOMAIN paramTasks :
                /\ Concerns(paramTasks[i], p)
                /\ ValueIn(paramTasks[i], p) = canon[p]
                /\ \A j \in (i + 1)..Len(paramTasks) : ~Concerns(paramTasks[j], p)
        \/ /\ params[p] = canon[p]
           /\ \A i \in DOMAIN paramTasks : ~Concerns(paramTasks[i], p)

\* Nothing is left to be processed.
Settled ==
    phase = "idle" /\ world.events = <<>> /\ session = <<>> /\ feedback = <<>> /\ paramTasks = <<>>

\* As soon as all is processed, a mapping that follows an active target is in
\* the state which the current value of the target asks for, although values
\* are reported at once by some handlers and later by others
\* (main_processor.rs, process_conditional_activation_target_value_change).
FollowersKnowActiveLeads ==
    Settled =>
        \A m \in Present : \A i \in 1..2 :
            LET c == data[m].conditions[i] lead == LeadMapping(c)
            IN  lead \in Present /\ TargetIsActive(lead) =>
                    (flags[m][i] <=> Accepts(c, CurrentValue(data[lead].target, world)))

\* Within a transaction, only the first match can hit a target whose conditions
\* aren't met anymore: a target which the transaction itself made inactive is
\* left alone (main_processor.rs, "Previous mappings in this transaction could
\* affect subsequent mappings!").
OnlyFirstHitCanBeStale ==
    \A i \in DOMAIN world.hits : world.hits[i].met \/ i = 1

\* If the value which a switched-on mapping hits its target with is the first
\* hit of a transaction and turns the others of its group off, the group shows
\* at most that one target on afterwards (glue-section.adoc: "exclusivity
\* within one group"). Targets of other mappings that select tracks are left
\* out because hitting one can switch another one.
GroupIsExclusive ==
    world.hits # <<>> =>
        LET first == world.hits[1]
            m == first.mapping
        IN  /\ data[m].interaction \in {"InverseTargetValue", "InverseTargetValueOnOnly"}
            /\ first.value = 1
            /\ {o \in On : data[o].source = data[m].source} = {m}
            => \A o \in On \ {m} :
                   data[o].group = data[m].group /\ data[o].target.kind = "Switch"
                     /\ data[o].target # data[m].target /\ TargetIsActive(o)
                   => CurrentValue(data[o].target, world) = 0

\* A mapping whose lead mapping's target is active and stays on gets active in
\* terms of this condition, however many other tasks come in.
FollowersEventuallyFollow ==
    \A m, lead \in Mappings : \A i \in 1..2 :
        LET follows == /\ {m, lead} \subseteq Present
                       /\ LeadMapping(data[m].conditions[i]) = lead
                       /\ data[m].conditions[i].wants = "on"
                       /\ TargetIsActive(lead)
                       /\ CurrentValue(data[lead].target, world) = 1
        IN  <>[]follows => <>[](flags[m][i])

=============================================================================
