------------------------ MODULE FeedbackOrchestration ------------------------
(***************************************************************************)
(* How ReaLearn units that share feedback outputs (controllers with lights *)
(* or motor faders) arrange themselves: the feedback part of               *)
(* main/src/domain/main_processor.rs, the orchestration queue of           *)
(* main/src/domain/control_surface.rs and the usage table of               *)
(* main/src/domain/backbone.rs.                                            *)
(*                                                                         *)
(* Each unit has one main processor.  All of them run in REAPER's main     *)
(* thread, in a cycle of the backbone control surface.  A unit that stops  *)
(* using a source does not switch its light off: it queues a               *)
(* SourceReleased event, which the next cycle first offers to all units    *)
(* and only then turns into "off".  Claims and releases of a whole output  *)
(* travel as IoUpdated events through the same queue.                      *)
(*                                                                         *)
(* Abstractions: a source is its feedback address; a mapping is either     *)
(* effectively on or not and has one target value; what is sent to a       *)
(* device arrives in order (the global audio hook is a FIFO), so the queue *)
(* to it is collapsed into the lights.  Virtual sources, the feedback that *)
(* does not go to a device (FX output, projection) and the cause           *)
(* FeedbackAfterControl are left out.                                      *)
(***************************************************************************)
EXTENDS UsageTables, Integers, Sequences, SequencesExt

CONSTANTS Units,       \* unit IDs
          Outputs,     \* feedback outputs that are devices
          Addresses,   \* feedback addresses of sources
          NumMappings, \* mappings per unit, ordered as in the mapping list
          Values,      \* feedback values, including Off
          Off,         \* the value of "off feedback"
          NotSent,     \* no checksum recorded for an address
          SettingsChoices, \* the settings a user may choose
          Ops,         \* the operations that happen to each unit
          LoadedAfter, \* the units that use an output before a unit is loaded
          Superiors,   \* the units that are superior from the beginning
          Bulk,        \* INSTANCE_ORCHESTRATION_EVENT_BULK_SIZE
          MaxPending   \* bound on the queue: no new operation beyond it

Mappings == 1..NumMappings

\* What keeps a unit from being globally enabled besides its own switch: an
\* FX bypass or a background project disables control and feedback, a track
\* that is not armed disables feedback only.
Circumstances == {"fine", "unarmed", "bypassed"}

Settings == [unitEnabled: BOOLEAN, feedbackOutput: Outputs \cup {NoDevice},
             resetWhenReleasing: BOOLEAN]

NoSettings == [unitEnabled |-> TRUE, feedbackOutput |-> NoDevice,
               resetWhenReleasing |-> TRUE]

ASSUME OrchestrationAssumption ==
    /\ IsFiniteSet(Units)
    /\ NoDevice \notin Outputs
    /\ Off \in Values
    /\ NotSent \notin Values
    /\ NumMappings \in Nat
    /\ Superiors \subseteq Units
    /\ SettingsChoices \subseteq Settings
    /\ Bulk \in Nat \ {0}
    /\ MaxPending \in Nat

VARIABLES
    mainProcessors,       \* the units with a main processor, in order of addition
    superiorUnits,        \* backbone: units on the upper floor
    feedbackOutputUsages, \* backbone: units per feedback output
    events,               \* the orchestration queue
    room,                 \* events the running cycle may still process
    settings,             \* per unit: basic settings
    circumstances,        \* per unit: see Circumstances
    controlEnabled,       \* per unit: control_is_globally_enabled
    feedbackEnabled,      \* per unit: feedback_is_globally_enabled
    on,                   \* per unit: mappings that are effectively on
    source,               \* per unit and mapping: the feedback address
    targetValue,          \* per unit and mapping: the current feedback value
    lastFeedback,         \* per unit and address: last_feedback_checksum_by_address
    light                 \* per output and address: what the device shows

backboneVars == <<mainProcessors, superiorUnits, feedbackOutputUsages>>
queueVars == <<events, room>>
enablingVars == <<settings, circumstances, controlEnabled, feedbackEnabled>>
mappingVars == <<on, source, targetValue>>
deviceVars == <<lastFeedback, light>>
vars == <<backboneVars, queueVars, enablingVars, mappingVars, deviceVars>>

Alive == ToSet(mainProcessors)

------------------------------------------------------------------------------
(* Events and who may send feedback.                                       *)

SourceReleased(u, output, a) ==
    [type |-> "SourceReleased", unit |-> u, output |-> output, address |-> a]

IoUpdated(u, output, used) ==
    [type |-> "IoUpdated", unit |-> u, output |-> output, used |-> used]

ReleaseEvents(u, output, addresses) ==
    [i \in DOMAIN addresses |-> SourceReleased(u, output, addresses[i])]

FeedbackIsAllowed(usages, u, output) ==
    output = NoDevice \/ InteractionIsAllowed(usages, superiorUnits, u, output)

EffectivelyEnabled(usages, u) ==
    feedbackEnabled[u] /\ FeedbackIsAllowed(usages, u, settings[u].feedbackOutput)

NoFeedbackSent == [a \in Addresses |-> NotSent]

------------------------------------------------------------------------------
(* Sending feedback of several mappings, one after the other: a mapping's  *)
(* value is blocked if it equals the last one sent to its address.  The    *)
(* light ends up with the value of the last mapping for the address,       *)
(* unless all of them were blocked.                                        *)

MappingsAt(ms, sources, a) == {m \in ms : sources[m] = a}

AddressesOf(ms, sources) == {sources[m] : m \in ms}

FinalValue(ms, sources, values, a) ==
    values[Max(MappingsAt(ms, sources, a))]

LightsAfter(lights, last, ms, sources, values) ==
    [a \in Addresses |->
        IF \E m \in MappingsAt(ms, sources, a) : values[m] # last[a]
        THEN FinalValue(ms, sources, values, a)
        ELSE lights[a]]

LastAfter(last, ms, sources, values) ==
    [a \in Addresses |->
        IF a \in AddressesOf(ms, sources)
        THEN FinalValue(ms, sources, values, a)
        ELSE last[a]]

\* Unit u sends the feedback of mappings ms, given its last checksums.  The
\* sources and settings are those after the step.
SendMappingFeedback(u, last, ms) ==
    IF EffectivelyEnabled(feedbackOutputUsages, u)'
    THEN LET output == settings'[u].feedbackOutput
         IN  /\ lastFeedback' = [lastFeedback EXCEPT
                    ![u] = LastAfter(last, ms, source'[u], targetValue'[u])]
             /\ light' = IF output = NoDevice THEN light
                         ELSE [light EXCEPT ![output] =
                            LightsAfter(@, last, ms, source'[u], targetValue'[u])]
    ELSE /\ lastFeedback' = [lastFeedback EXCEPT ![u] = last]
         /\ UNCHANGED light

\* The events for sources that became unused; dropped if feedback is not
\* effectively enabled (ClearUnusedSource is not always allowed).
UnusedSourceEvents(u, addresses) ==
    IF EffectivelyEnabled(feedbackOutputUsages, u)
    THEN ReleaseEvents(u, settings[u].feedbackOutput, addresses)
    ELSE <<>>

\* Off feedback for every mapping that is on (feedback_all_zero): one event
\* per mapping, whatever their addresses.
AllZeroEvents(u, output) ==
    ReleaseEvents(u, output,
        FlattenSeq([m \in Mappings |-> IF m \in on[u] THEN <<source[u][m]>> ELSE <<>>]))

------------------------------------------------------------------------------
(* Enabling and disabling.                                                 *)

DetermineControlEnabled(st, c) == st.unitEnabled /\ c # "bypassed"

DetermineFeedbackEnabled(st, c) ==
    st.unitEnabled /\ st.feedbackOutput # NoDevice /\ c = "fine"

\* potentially_enable_or_disable_control_or_feedback: `announced` is what the
\* caller queued before.  The control event already claims or releases the
\* feedback output, still with the old feedback state.
PotentiallyEnableOrDisable(u, last, announced) ==
    LET st == settings'[u]
        output == st.feedbackOutput
        newControl == DetermineControlEnabled(st, circumstances'[u])
        newFeedback == DetermineFeedbackEnabled(st, circumstances'[u])
        inUse == on[u] # {}
        controlEvents ==
            IF newControl = controlEnabled[u] THEN <<>>
            ELSE <<IoUpdated(u, output, feedbackEnabled[u] /\ inUse)>>
        changed == newFeedback # feedbackEnabled[u]
    IN  /\ controlEnabled' = [controlEnabled EXCEPT ![u] = newControl]
        /\ feedbackEnabled' = [feedbackEnabled EXCEPT ![u] = newFeedback]
        /\ events' = events \o announced \o controlEvents \o
              (IF ~changed THEN <<>>
               ELSE <<IoUpdated(u, output, newFeedback /\ inUse)>> \o
                    (IF newFeedback THEN <<>> ELSE AllZeroEvents(u, output)))
        /\ IF changed /\ newFeedback
           THEN SendMappingFeedback(u, NoFeedbackSent, on[u])
           ELSE /\ lastFeedback' = [lastFeedback EXCEPT
                        ![u] = IF changed THEN NoFeedbackSent ELSE last]
                /\ UNCHANGED light

------------------------------------------------------------------------------
(* What happens to a unit.  All of it runs outside of the processing of    *)
(* orchestration events.                                                   *)

Op(u, name) ==
    /\ name \in Ops[u]
    /\ \A v \in LoadedAfter[u] : \E d \in Outputs : v \in feedbackOutputUsages[d]
    /\ u \in Alive
    /\ room = 0
    /\ Len(events) <= MaxPending

\* The unit is loaded with its settings (LoadSettings) or the user changes
\* them: the output, the unit's switch, the reset option.
UpdateSettings(u) ==
    /\ \/ Op(u, "UpdateSettings")
       \/ Op(u, "LoadSettings") /\ settings[u] = NoSettings
    /\ \E st \in SettingsChoices :
          /\ settings' = [settings EXCEPT ![u] = st]
          /\ UNCHANGED <<backboneVars, room, circumstances, mappingVars>>
          /\ PotentiallyEnableOrDisable(u, NoFeedbackSent,
                <<IoUpdated(u, settings[u].feedbackOutput, FALSE)>>)

\* FX bypass, track arm or the current project changes.
ChangeCircumstances(u) ==
    /\ Op(u, "ChangeCircumstances")
    /\ \E c \in Circumstances \ {circumstances[u]} :
          /\ circumstances' = [circumstances EXCEPT ![u] = c]
          /\ UNCHANGED <<backboneVars, room, settings, mappingVars>>
          /\ PotentiallyEnableOrDisable(u, lastFeedback[u], <<>>)

\* Mappings turn on or off: `announced` is the IO event sent first (if any),
\* `changed` the mappings that send feedback, `last` the checksums at that
\* time.  Sources not in use anymore are released afterwards.
SwitchMappings(u, newOn, changed, last, announced) ==
    LET unused == AddressesOf(on[u], source[u]) \ AddressesOf(newOn, source'[u])
    IN  /\ on' = [on EXCEPT ![u] = newOn]
        /\ UNCHANGED <<backboneVars, room, enablingVars, targetValue>>
        /\ SendMappingFeedback(u, last, changed \cap newOn)
        /\ events' = events \o announced \o UnusedSourceEvents(u, SetToSeq(unused))

ClaimEvent(u, newOn) ==
    IoUpdated(u, settings[u].feedbackOutput, feedbackEnabled[u] /\ newOn # {})

\* The unit is loaded with its mappings (LoadMappings), a preset is loaded or
\* the mapping list changes.
UpdateAllMappings(u) ==
    /\ \/ Op(u, "UpdateAllMappings")
       \/ Op(u, "LoadMappings") /\ on[u] = {}
    /\ \E newOn \in SUBSET Mappings, sources \in [Mappings -> Addresses] :
          /\ source' = [source EXCEPT ![u] = sources]
          /\ SwitchMappings(u, newOn, newOn, NoFeedbackSent, <<ClaimEvent(u, newOn)>>)

\* Broken variant: other units do not get to know about the usage.
ProcessChangedConditionsSilently(u) ==
    /\ Op(u, "ProcessChangedConditions")
    /\ UNCHANGED source
    /\ \E newOn \in SUBSET Mappings :
          SwitchMappings(u, newOn, SymDiff(newOn, on[u]), lastFeedback[u], <<>>)

\* The targets are refreshed after a change in REAPER (selected track,
\* focused FX ...) and turn active or inactive.
ProcessChangedConditions(u) ==
    /\ Op(u, "ProcessChangedConditions")
    /\ UNCHANGED source
    /\ \E newOn \in SUBSET Mappings :
          SwitchMappings(u, newOn, SymDiff(newOn, on[u]), lastFeedback[u],
                         <<ClaimEvent(u, newOn)>>)

\* Parameters change the activation state of mappings.
ProcessActivationEffects(u) ==
    /\ Op(u, "ProcessActivationEffects")
    /\ UNCHANGED source
    /\ \E newOn \in SUBSET Mappings \ {on[u]} :
          SwitchMappings(u, newOn, SymDiff(newOn, on[u]), lastFeedback[u], <<>>)

\* Broken variant: a mapping that turns off leaves its light on.
SwitchSingleMappingWithoutRelease(u, m, newOn, last, released) ==
    /\ on' = [on EXCEPT ![u] = newOn]
    /\ UNCHANGED <<backboneVars, queueVars, enablingVars, targetValue>>
    /\ SendMappingFeedback(u, last, {m} \cap newOn)

\* The off feedback of a single mapping does not look at other mappings with
\* the same address: it relies on the unit taking its own source over.
SwitchSingleMapping(u, m, newOn, last, released) ==
    /\ on' = [on EXCEPT ![u] = newOn]
    /\ UNCHANGED <<backboneVars, room, enablingVars, targetValue>>
    /\ SendMappingFeedback(u, last, {m} \cap newOn)
    /\ events' = events \o UnusedSourceEvents(u, released)

\* The user edits a mapping.
UpdateSingleMapping(u) ==
    /\ Op(u, "UpdateSingleMapping")
    /\ \E m \in Mappings, newOn \in SUBSET Mappings, a \in Addresses :
          /\ newOn \in {on[u] \cup {m}, on[u] \ {m}}
          /\ source' = [source EXCEPT ![u][m] = a]
          /\ SwitchSingleMapping(u, m, newOn, NoFeedbackSent,
                IF m \in on[u] /\ (m \notin newOn \/ a # source[u][m])
                THEN <<source[u][m]>> ELSE <<>>)

\* A mapping is enabled or disabled (by the user or by another mapping).
UpdatePersistentProcessingState(u) ==
    /\ Op(u, "UpdatePersistentProcessingState")
    /\ UNCHANGED source
    /\ \E m \in Mappings :
          SwitchSingleMapping(u, m, SymDiff(on[u], {m}), lastFeedback[u],
                IF m \in on[u] THEN <<source[u][m]>> ELSE <<>>)

\* A target value changes in REAPER.
ProcessTargetValueChange(u) ==
    /\ Op(u, "ProcessTargetValueChange")
    /\ \E m \in Mappings, v \in Values :
          /\ v # targetValue[u][m]
          /\ targetValue' = [targetValue EXCEPT ![u][m] = v]
          /\ UNCHANGED <<backboneVars, queueVars, enablingVars, on, source>>
          /\ SendMappingFeedback(u, lastFeedback[u], {m} \cap on[u])

\* The user asks for all feedback to be sent again.
SendAllFeedback(u) ==
    /\ Op(u, "SendAllFeedback")
    /\ UNCHANGED <<backboneVars, queueVars, enablingVars, mappingVars>>
    /\ SendMappingFeedback(u, NoFeedbackSent, on[u])

\* The user moves the unit to the upper floor or back.  No event is sent.
SyncUpperFloorMembership(u) ==
    /\ Op(u, "SyncUpperFloorMembership")
    /\ superiorUnits' = SymDiff(superiorUnits, {u})
    /\ UNCHANGED <<mainProcessors, feedbackOutputUsages, queueVars, enablingVars,
                   mappingVars, deviceVars>>

\* The unit is removed: its main processor is dropped, which switches its
\* lights off right away and then announces the release of its output.
DropMainProcessor(u) ==
    /\ Op(u, "DropMainProcessor")
    /\ \E i \in DOMAIN mainProcessors :
          /\ mainProcessors[i] = u
          /\ mainProcessors' = RemoveAt(mainProcessors, i)
    /\ LET output == settings[u].feedbackOutput
           used == AddressesOf(on[u], source[u])
           clears == /\ EffectivelyEnabled(feedbackOutputUsages, u)
                     /\ settings[u].resetWhenReleasing
       IN  /\ light' = IF ~clears THEN light
                       ELSE [light EXCEPT ![output] =
                                [a \in Addresses |->
                                    IF a \in used /\ lastFeedback[u][a] # Off
                                    THEN Off ELSE @[a]]]
           /\ events' = Append(events, IoUpdated(u, output, FALSE))
    /\ UNCHANGED <<superiorUnits, feedbackOutputUsages, room, enablingVars,
                   mappingVars, lastFeedback>>

------------------------------------------------------------------------------
(* The orchestration events, processed by the backbone control surface at  *)
(* the beginning of a cycle, at most Bulk of them.                         *)

BeginCycle ==
    /\ room = 0
    /\ events # <<>>
    /\ room' = Bulk
    /\ UNCHANGED <<backboneVars, events, enablingVars, mappingVars, deviceVars>>

\* The mappings of u that would take over the released source.
Takers(u, e) ==
    IF settings[u].feedbackOutput = e.output
    THEN MappingsAt(on[u], source[u], e.address) ELSE {}

\* Broken variant: a unit takes over a source though its feedback is disabled.
CanTakeOverAlways(u, e) == Takers(u, e) # {}

\* Broken variant: only other units are asked.
CanTakeOverFromOthers(u, e) ==
    /\ u # e.unit
    /\ Takers(u, e) # {}
    /\ EffectivelyEnabled(feedbackOutputUsages, u)

CanTakeOver(u, e) ==
    /\ Takers(u, e) # {}
    /\ EffectivelyEnabled(feedbackOutputUsages, u)

\* Broken variant: what is sent to take over or switch off a source is blocked
\* like normal feedback if the unit has sent the same before.
SendToUnlessDuplicate(u, output, a, v) ==
    /\ lastFeedback' = [lastFeedback EXCEPT ![u][a] = v]
    /\ light' = IF output = NoDevice \/ lastFeedback[u][a] = v THEN light
                ELSE [light EXCEPT ![output][a] = v]

SendTo(u, output, a, v) ==
    /\ lastFeedback' = [lastFeedback EXCEPT ![u][a] = v]
    /\ light' = IF output = NoDevice THEN light ELSE [light EXCEPT ![output][a] = v]

NextEventIs(type) == room > 0 /\ events # <<>> /\ Head(events).type = type

\* The cycle goes on until the queue is empty or its share is used up.
CountEvent == room' = IF events' = <<>> THEN 0 ELSE room - 1

\* The first main processor that can takes the source over (also the one that
\* released it) and sends the value of its first mapping for the address.
TakeOverSource ==
    /\ NextEventIs("SourceReleased")
    /\ events' = Tail(events)
    /\ LET e == Head(events)
       IN  \E i \in DOMAIN mainProcessors :
              LET u == mainProcessors[i]
              IN  /\ CanTakeOver(u, e)
                  /\ \A j \in 1..(i - 1) : ~CanTakeOver(mainProcessors[j], e)
                  /\ SendTo(u, e.output, e.address, targetValue[u][Min(Takers(u, e))])
    /\ CountEvent
    /\ UNCHANGED <<backboneVars, enablingVars, mappingVars>>

\* Nobody takes over: the unit that released the source switches it off, if it
\* still exists, resets released sources and has not done so already.
FinallySwitchOffSource ==
    /\ NextEventIs("SourceReleased")
    /\ events' = Tail(events)
    /\ LET e == Head(events)
       IN  /\ ~ \E u \in Alive : CanTakeOver(u, e)
           /\ IF /\ e.unit \in Alive
                 /\ settings[e.unit].resetWhenReleasing
                 /\ lastFeedback[e.unit][e.address] # Off
              THEN SendTo(e.unit, e.output, e.address, Off)
              ELSE UNCHANGED deviceVars
    /\ CountEvent
    /\ UNCHANGED <<backboneVars, enablingVars, mappingVars>>

CoveredUnitsRelease(covered, output) ==
    FlattenSeq([i \in DOMAIN mainProcessors |->
        IF mainProcessors[i] \in covered THEN AllZeroEvents(mainProcessors[i], output)
        ELSE <<>>])

\* handle_change_of_some_upper_floor_instance on all units in `affected`, in
\* their order: those that may send feedback (again) send all of it, the
\* others release their sources.
ReactToUpperFloor(usages, output, affected) ==
    LET reached == {u \in Alive \cap affected : settings[u].feedbackOutput = output}
        active == {u \in reached : EffectivelyEnabled(usages, u)}
        writers(a) == {i \in DOMAIN mainProcessors :
                          /\ mainProcessors[i] \in active
                          /\ MappingsAt(on[mainProcessors[i]], source[mainProcessors[i]], a) # {}}
    IN  /\ lastFeedback' = [u \in Units |->
              IF u \in active
              THEN LastAfter(NoFeedbackSent, on[u], source[u], targetValue[u])
              ELSE lastFeedback[u]]
        /\ light' = [light EXCEPT ![output] =
              [a \in Addresses |->
                  IF writers(a) = {} THEN @[a]
                  ELSE LET u == mainProcessors[Max(writers(a))]
                       IN  FinalValue(on[u], source[u], targetValue[u], a)]]
        /\ events' = Tail(events) \o CoveredUnitsRelease(reached \ active, output)

ProcessIoUpdated ==
    /\ NextEventIs("IoUpdated")
    /\ LET e == Head(events)
           device == IF e.used THEN e.output ELSE NoDevice
           usages == UpdatedUsages(feedbackOutputUsages, e.unit, device)
       IN  /\ feedbackOutputUsages' = usages
           /\ IF /\ UsageHasChanged(feedbackOutputUsages, e.unit, device)
                 /\ e.unit \in superiorUnits
                 /\ e.output # NoDevice
              THEN ReactToUpperFloor(usages, e.output, Units \ {e.unit})
              ELSE /\ events' = Tail(events)
                   /\ UNCHANGED deviceVars
    /\ CountEvent
    /\ UNCHANGED <<mainProcessors, superiorUnits, enablingVars, mappingVars>>

ProcessEvent == TakeOverSource \/ FinallySwitchOffSource \/ ProcessIoUpdated

------------------------------------------------------------------------------
\* The main processors have been added, in some order; nothing but superior
\* units has been synced yet.
Init ==
    /\ mainProcessors \in SetToSeqs(Units)
    /\ superiorUnits = Superiors
    /\ feedbackOutputUsages = [d \in Outputs |-> {}]
    /\ events = <<>>
    /\ room = 0
    /\ settings = [u \in Units |-> NoSettings]
    /\ circumstances = [u \in Units |-> "fine"]
    /\ controlEnabled = [u \in Units |-> FALSE]
    /\ feedbackEnabled = [u \in Units |-> FALSE]
    /\ on = [u \in Units |-> {}]
    /\ source \in [Units -> [Mappings -> Addresses]]
    /\ targetValue \in [Units -> [Mappings -> Values]]
    /\ lastFeedback = [u \in Units |-> NoFeedbackSent]
    /\ light = [d \in Outputs |-> [a \in Addresses |-> Off]]

UnitStep(u) ==
    \/ UpdateSettings(u)
    \/ ChangeCircumstances(u)
    \/ UpdateAllMappings(u)
    \/ ProcessChangedConditions(u)
    \/ ProcessActivationEffects(u)
    \/ UpdateSingleMapping(u)
    \/ UpdatePersistentProcessingState(u)
    \/ ProcessTargetValueChange(u)
    \/ SendAllFeedback(u)
    \/ SyncUpperFloorMembership(u)
    \/ DropMainProcessor(u)

Next ==
    \/ \E u \in Units : UnitStep(u)
    \/ BeginCycle
    \/ ProcessEvent

\* REAPER keeps calling the control surface's run method; the user owes nothing.
Fairness == WF_vars(BeginCycle) /\ WF_vars(ProcessEvent)

Spec == Init /\ [][Next]_vars /\ Fairness

------------------------------------------------------------------------------
(* Properties.                                                             *)

EventOK(e) ==
    /\ e.unit \in Units
    /\ e.output \in Outputs \cup {NoDevice}
    /\ \/ e.type = "SourceReleased" /\ e.address \in Addresses
       \/ e.type = "IoUpdated" /\ e.used \in BOOLEAN

TypeOK ==
    /\ Alive \subseteq Units
    /\ superiorUnits \subseteq Units
    /\ feedbackOutputUsages \in [Outputs -> SUBSET Units]
    /\ \A i \in DOMAIN events : EventOK(events[i])
    /\ room \in 0..Bulk
    /\ settings \in [Units -> Settings]
    /\ circumstances \in [Units -> Circumstances]
    /\ controlEnabled \in [Units -> BOOLEAN]
    /\ feedbackEnabled \in [Units -> BOOLEAN]
    /\ on \in [Units -> SUBSET Mappings]
    /\ source \in [Units -> [Mappings -> Addresses]]
    /\ targetValue \in [Units -> [Mappings -> Values]]
    /\ lastFeedback \in [Units -> [Addresses -> Values \cup {NotSent}]]
    /\ light \in [Outputs -> [Addresses -> Values]]

Settled == events = <<>>

\* What the user may expect, in terms of the units alone: a unit is active on
\* an output if it is enabled there and has an active mapping ...
ActiveOn(output) ==
    {u \in Alive : /\ settings[u].feedbackOutput = output
                   /\ feedbackEnabled[u]
                   /\ on[u] # {}}

\* ... and it is entitled to the output unless covered by a superior unit.
Entitled(u, output) ==
    /\ u \in ActiveOn(output)
    /\ u \in superiorUnits \/ ActiveOn(output) \cap superiorUnits = {}

ExpectedValues(output, a) ==
    UNION {{targetValue[u][m] : m \in MappingsAt(on[u], source[u], a)} :
              u \in {v \in Units : Entitled(v, output)}}

(* "Feedback for non-used control elements [is] cleared eventually"         *)
(* (maybe_takeover_source): once all orchestration events are processed,   *)
(* no device shows a light that no entitled unit has a use for.            *)
UnusedLightsAreOff ==
    Settled => \A d \in Outputs, a \in Addresses :
        ExpectedValues(d, a) = {} => light[d][a] = Off

(* Feedback is "not ... accidentally cleared" and eventually consistent:   *)
(* once all events are processed, a light in use shows the current value   *)
(* of one of the mappings of entitled units, never an outdated value or    *)
(* the value of a covered unit.                                            *)
UsedLightsAreCurrent ==
    Settled => \A d \in Outputs, a \in Addresses :
        ExpectedValues(d, a) # {} => light[d][a] \in ExpectedValues(d, a)

(* The usage table, which decides about interaction, agrees with the units *)
(* themselves once all events are processed.                               *)
UsagesAreAccurate ==
    Settled => \A d \in Outputs : feedbackOutputUsages[d] = ActiveOn(d)

(* A superior unit "will disable other ReaLearn units with the same ...    *)
(* feedback output" while it is active, and they work again when it isn't: *)
(* once all events are processed, exactly the entitled units may send.     *)
FloorsTakeEffect ==
    Settled => \A d \in Outputs : \A u \in ActiveOn(d) :
        EffectivelyEnabled(feedbackOutputUsages, u) <=> Entitled(u, d)

\* What the units that may send feedback to the output at this moment have to
\* show at an address.
SendableValues(output, a) ==
    UNION {{targetValue[u][m] : m \in MappingsAt(on[u], source[u], a)} :
              u \in {v \in Alive : /\ settings[v].feedbackOutput = output
                                  /\ EffectivelyEnabled(feedbackOutputUsages, v)}}

(* Source takeover "allows feedback to not be accidentally cleared"        *)
(* (maybe_takeover_source), not even for a moment: at every single step a  *)
(* light only changes to a current value of a unit that may send feedback  *)
(* after the step, and it only goes off if there is none.  The exception   *)
(* is the removal of a unit, which deliberately prevents takeover.         *)
LightsNeverFlicker ==
    [][\A d \in Outputs, a \in Addresses :
          light'[d][a] # light[d][a] /\ mainProcessors' = mainProcessors =>
             \/ light'[d][a] \in SendableValues(d, a)'
             \/ light'[d][a] = Off /\ SendableValues(d, a)' = {}]_vars

(* When nothing happens to the units anymore, the orchestration comes to   *)
(* rest (units do not keep handing sources to each other) with lights that *)
(* are off or current as they should be.                                   *)
LightsConverge ==
    <>[][ ~ \E u \in Units : UnitStep(u) ]_vars
        => <>[](Settled /\ UnusedLightsAreOff /\ UsedLightsAreCurrent)

==============================================================================
