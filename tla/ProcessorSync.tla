--------------------------- MODULE ProcessorSync ---------------------------
(***************************************************************************)
(* A unit exists twice: its main processor lives in the main thread, its   *)
(* real-time processor in the audio thread. The latter works on a copy     *)
(* of the settings, switches and mappings which the former keeps up to     *)
(* date by sending tasks through a bounded channel. If audio doesn't run,  *)
(* nobody receives the tasks and the sender drops them as soon as the      *)
(* channel is half full; the first audio cycle after more than a second    *)
(* asks the main thread for a full resync and throws the old tasks away.   *)
(*                                                                         *)
(* The main thread sends the tasks of a handler one after the other, the   *)
(* audio thread requests, discards and receives in steps of its own. The   *)
(* queue between the unit model and the main processor, which live in the  *)
(* same thread, is not modelled: a change reaches both at once.            *)
(***************************************************************************)
EXTENDS Integers, Sequences

CONSTANTS
    CompartmentKinds,  \* CompartmentKind::enum_iter, controller and main compartment
    Mappings,          \* mapping slots of each compartment
    Destinations,      \* MIDI devices usable as feedback output
    None,              \* no destination, no mapping
    QueueCapacity,     \* NORMAL_REAL_TIME_TASK_QUEUE_SIZE, 1000 in the code
    RequestCapacity,   \* pending resync requests, bounds a channel of 10000
    BulkSize,          \* NORMAL_BULK_SIZE, 100 in the code
    NewMappings,       \* states in which mappings are submitted
    Ops,               \* the changes that occur in the main thread
    Mishaps,           \* what the environment may do to the resync, see below
    FirstRuns,         \* possible initial values of lastRun
    MaxChanges,        \* bound on the number of changes
    MaxOutages         \* bound on the number of audio outages

ASSUME CapacityAssumption ==
    /\ QueueCapacity \in Nat \ {0}
    /\ RequestCapacity \in Nat \ {0}
    /\ BulkSize \in Nat \ {0}

\* The states of an existing mapping, as far as the processors are concerned
MappingStates == [enabled : BOOLEAN, active : BOOLEAN, targetActive : BOOLEAN]

ASSUME MappingsAssumption == NewMappings \subseteq MappingStates
ASSUME NoneAssumption == None \notin Destinations /\ None \notin MappingStates
ASSUME CompartmentsAssumption ==
    /\ Len(CompartmentKinds) \in Nat
    /\ DOMAIN CompartmentKinds = 1..Len(CompartmentKinds)
ASSUME FirstRunsAssumption == FirstRuns \subseteq {"never", "recent", "longAgo"}

VARIABLES
    main,          \* what the main processor has last determined
    circumstances, \* whether control and feedback are possible at all
    sending,       \* tasks which the current main thread handler still sends
    queue,         \* channel of normal real-time tasks
    requests,      \* full resync requests which wait for the main thread
    rt,            \* the copy of the real-time processor
    activated,     \* <<dest, compartment, mapping>>: last lifecycle MIDI was "activate"
    rtStep,        \* where the audio thread is in its cycle
    budget,        \* tasks which the audio thread may still take in this cycle
    audioRunning,  \* Reaper::audio_is_running
    lastRun,       \* age of the hook's time_of_last_run: never, recent, over a second
    dropped,       \* history: a task was dropped since the last resync request
    changes, outages

mainVars == <<main, circumstances, sending, changes>>
rtVars == <<rt, activated, rtStep, budget>>
audioVars == <<audioRunning, lastRun, outages>>
vars == <<mainVars, rtVars, audioVars, queue, requests, dropped>>

-----------------------------------------------------------------------------
\* The data which both processors hold

Modes == {"Controlling", "LearningSource", "Disabled"}

Compartments == {CompartmentKinds[i] : i \in DOMAIN CompartmentKinds}

NoMappings == [m \in Mappings |-> None]

ProcessorStates ==
    [dest : Destinations \cup {None},
     control : BOOLEAN,
     feedback : BOOLEAN,
     mode : Modes,
     mappings : [Compartments -> [Mappings -> MappingStates \cup {None}]]]

InitialState ==
    [dest |-> None, control |-> FALSE, feedback |-> FALSE, mode |-> "Controlling",
     mappings |-> [c \in Compartments |-> NoMappings]]

\* A mapping sends feedback if it, its conditions and its target are active.
FeedbackIsOn(m) == m # None /\ m.enabled /\ m.active /\ m.targetActive

Present(ms) == {m \in Mappings : ms[m] # None}

SettingsTask(p) == [type |-> "UpdateSettings", dest |-> p.dest]
ControlTask(p) == [type |-> "UpdateControlIsGloballyEnabled", enabled |-> p.control]
FeedbackTask(p) == [type |-> "UpdateFeedbackIsGloballyEnabled", enabled |-> p.feedback]
AllMappingsTask(p, c) == [type |-> "UpdateAllMappings", compartment |-> c, mappings |-> p.mappings[c]]

-----------------------------------------------------------------------------
\* Main thread

\* Broken variant: sends changed switches only.
ChangedSwitchTasks(old, new) ==
    (IF new.control # old.control THEN <<ControlTask(new)>> ELSE <<>>)
        \o (IF new.feedback # old.feedback THEN <<FeedbackTask(new)>> ELSE <<>>)

\* The switches are sent even if they haven't changed because the real-time
\* processor may have discarded an earlier change.
SwitchTasks(old, new) == <<ControlTask(new), FeedbackTask(new)>>

\* Feedback needs an output, control doesn't.
WithSwitches(p, circ) ==
    [p EXCEPT !.control = circ.control, !.feedback = circ.feedback /\ p.dest # None]

ChangeMain(op, new, tasks) ==
    /\ op \in Ops
    /\ sending = <<>>
    /\ changes < MaxChanges
    /\ main' = new
    /\ sending' = tasks
    /\ changes' = changes + 1
    /\ UNCHANGED <<rtVars, audioVars, queue, requests, dropped>>

UpdateSettings ==
    \E dest \in Destinations \cup {None} :
        LET new == WithSwitches([main EXCEPT !.dest = dest], circumstances)
        IN  /\ "ChangeSettings" \in Ops \/ main.dest = None
            /\ ChangeMain("UpdateSettings", new, <<SettingsTask(new)>> \o SwitchTasks(main, new))
            /\ UNCHANGED circumstances

\* The unit or its FX is switched on or off, its track armed or disarmed. The
\* latter is relevant for feedback only.
PotentiallyEnableOrDisable ==
    \E circ \in [control : BOOLEAN, feedback : BOOLEAN] :
        LET new == WithSwitches(main, circ)
        IN  /\ circ # circumstances
            /\ circ.feedback => circ.control
            /\ ChangeMain("PotentiallyEnableOrDisable", new, SwitchTasks(main, new))
            /\ circumstances' = circ

UpdateAllMappings ==
    \E c \in Compartments, ms \in [Mappings -> NewMappings \cup {None}] :
        LET new == [main EXCEPT !.mappings[c] = ms]
        IN  /\ ChangeMain("UpdateAllMappings", new, <<AllMappingsTask(new, c)>>)
            /\ UNCHANGED circumstances

UpdateSingleMapping ==
    \E c \in Compartments, m \in Mappings, s \in NewMappings :
        /\ ChangeMain("UpdateSingleMapping", [main EXCEPT !.mappings[c][m] = s],
               <<[type |-> "UpdateSingleMapping", compartment |-> c, id |-> m, mapping |-> s]>>)
        /\ UNCHANGED circumstances

UpdatePersistentProcessingState ==
    \E c \in Compartments, enabled \in BOOLEAN : \E m \in Present(main.mappings[c]) :
        /\ ChangeMain("UpdatePersistentProcessingState",
               [main EXCEPT !.mappings[c][m].enabled = enabled],
               <<[type |-> "UpdatePersistentProcessingState", compartment |-> c, id |-> m,
                  enabled |-> enabled]>>)
        /\ UNCHANGED circumstances

\* Activation conditions or targets of some mappings have changed.
Toggled(ms, changed, field) ==
    [m \in Mappings |-> IF m \in changed THEN [ms[m] EXCEPT ![field] = ~@] ELSE ms[m]]

UpdateMappingsOrTargets(op, field) ==
    \E c \in Compartments : \E changed \in SUBSET Present(main.mappings[c]) \ {{}} :
        LET ms == Toggled(main.mappings[c], changed, field)
        IN  /\ ChangeMain(op, [main EXCEPT !.mappings[c] = ms],
                   <<[type |-> op, compartment |-> c,
                      updates |-> [m \in changed |-> ms[m][field]]]>>)
            /\ UNCHANGED circumstances

UpdateMappingsPartially == UpdateMappingsOrTargets("UpdateMappingsPartially", "active")
UpdateTargetsPartially == UpdateMappingsOrTargets("UpdateTargetsPartially", "targetActive")

\* StartLearnSource, DisableControl and ReturnToControlMode
SetControlMode ==
    \E mode \in Modes \ {main.mode} :
        /\ ChangeMain("SetControlMode", [main EXCEPT !.mode = mode],
               <<[type |-> "SetControlMode", mode |-> mode]>>)
        /\ UNCHANGED circumstances

\* The unit model sends settings and all mappings again, nothing else.
FullSync(p) ==
    LET mappingTasks == [i \in DOMAIN CompartmentKinds |-> AllMappingsTask(p, CompartmentKinds[i])]
    IN  <<SettingsTask(p)>> \o SwitchTasks(p, p) \o mappingTasks

ProcessResyncRequest ==
    /\ requests > 0
    /\ sending = <<>>
    /\ rtStep # "discard" \/ "MainOvertakesDiscard" \in Mishaps
    /\ requests' = requests - 1
    /\ sending' = FullSync(main)
    /\ dropped' = FALSE
    /\ UNCHANGED <<main, circumstances, changes, rtVars, audioVars, queue>>

\* Broken variant: takes any number of tasks while audio doesn't run.
SendHasSpaceBeyondHeadroom ==
    Len(queue) < QueueCapacity \/ ~audioRunning

\* While audio runs the whole channel may be used. While it doesn't, a
\* channel which is more than half full doesn't take any more tasks.
SendHasSpace ==
    IF audioRunning THEN Len(queue) < QueueCapacity ELSE Len(queue) <= QueueCapacity \div 2

\* One task of the current handler. Unless the mishap is enabled, a running
\* audio thread empties the channel faster than the main thread fills it. Full
\* channels drop it silently: the first successful send has used up the only
\* complaint of the sender.
SendTask ==
    /\ sending # <<>>
    /\ audioRunning => SendHasSpace \/ "Overload" \in Mishaps
    /\ sending' = Tail(sending)
    /\ queue' = IF SendHasSpace THEN Append(queue, Head(sending)) ELSE queue
    /\ dropped' = (dropped \/ ~SendHasSpace)
    /\ UNCHANGED <<main, circumstances, changes, rtVars, audioVars, requests>>

-----------------------------------------------------------------------------
\* Audio thread

ProcessorFeedbackIsOn(p) == p.feedback /\ p.dest # None

\* The mappings of a compartment which lifecycle MIDI is sent for if the
\* processor as a whole or its mappings are replaced.
LitMappings(p, c) == {m \in Mappings : FeedbackIsOn(p.mappings[c][m])}

Marks(p, c, ms) == {<<p.dest, c, m>> : m \in ms}
AllMarks(p) == UNION {Marks(p, c, LitMappings(p, c)) : c \in Compartments}

Outcome(p, marks) == [rt |-> p, activated |-> marks]

\* Broken variant: sends nothing if feedback is switched off.
OnUpdateFeedbackWithoutDeactivation(t) ==
    LET new == [rt EXCEPT !.feedback = t.enabled]
    IN  Outcome(new,
            IF rt.dest # None /\ t.enabled THEN activated \cup AllMarks(rt) ELSE activated)

OnUpdateFeedback(t) ==
    LET new == [rt EXCEPT !.feedback = t.enabled]
    IN  Outcome(new,
            IF rt.dest = None \/ t.enabled = rt.feedback THEN activated
            ELSE IF t.enabled THEN activated \cup AllMarks(rt) ELSE activated \ AllMarks(rt))

\* The new settings are already in place when "deactivate" is sent, so it goes
\* to the new destination, followed by "activate".
OnUpdateSettings(t) ==
    LET new == [rt EXCEPT !.dest = t.dest]
    IN  Outcome(new,
            IF ProcessorFeedbackIsOn(new) /\ new.dest # rt.dest THEN activated \cup AllMarks(new)
            ELSE activated)

OnUpdateAllMappings(t) ==
    LET c == t.compartment
        new == [rt EXCEPT !.mappings[c] = t.mappings]
    IN  Outcome(new,
            IF ~ProcessorFeedbackIsOn(rt) THEN activated
            ELSE (activated \ Marks(rt, c, LitMappings(rt, c))) \cup Marks(new, c, LitMappings(new, c)))

\* A single mapping has been updated or its persistent state.
MappingReplaced(c, m, s) ==
    LET new == [rt EXCEPT !.mappings[c][m] = s]
    IN  Outcome(new,
            IF ~ProcessorFeedbackIsOn(rt) THEN activated
            ELSE IF FeedbackIsOn(s) THEN activated \cup Marks(rt, c, {m})
            ELSE IF FeedbackIsOn(rt.mappings[c][m]) THEN activated \ Marks(rt, c, {m})
            ELSE activated)

\* FeedbackIsOn ignoring either the mapping's or the target's activation
FeedbackIsOnIgnoring(field, m) ==
    /\ m.enabled
    /\ field = "active" \/ m.active
    /\ field = "targetActive" \/ m.targetActive

\* The activation of some mappings or of their targets has changed. Lifecycle
\* MIDI is sent for those which are on apart from what has changed.
UpdatedPartially(t, field) ==
    LET c == t.compartment
        known == DOMAIN t.updates \cap Present(rt.mappings[c])
        new == [rt EXCEPT !.mappings[c] =
                    [m \in Mappings |->
                        IF m \in known THEN [@[m] EXCEPT ![field] = t.updates[m]] ELSE @[m]]]
        on(active) == {m \in known : t.updates[m] = active /\ FeedbackIsOnIgnoring(field, new.mappings[c][m])}
    IN  Outcome(new,
            IF ~ProcessorFeedbackIsOn(rt) THEN activated
            ELSE (activated \ Marks(rt, c, on(FALSE))) \cup Marks(rt, c, on(TRUE)))

Processed(t) ==
    CASE t.type = "UpdateControlIsGloballyEnabled" ->
            Outcome([rt EXCEPT !.control = t.enabled], activated)
      [] t.type = "UpdateFeedbackIsGloballyEnabled" -> OnUpdateFeedback(t)
      [] t.type = "UpdateSettings" -> OnUpdateSettings(t)
      [] t.type = "UpdateAllMappings" -> OnUpdateAllMappings(t)
      [] t.type = "UpdateSingleMapping" -> MappingReplaced(t.compartment, t.id, t.mapping)
      [] t.type = "UpdatePersistentProcessingState" ->
            IF t.id \in Present(rt.mappings[t.compartment])
            THEN MappingReplaced(t.compartment, t.id,
                     [rt.mappings[t.compartment][t.id] EXCEPT !.enabled = t.enabled])
            ELSE Outcome(rt, activated)
      [] t.type = "UpdateMappingsPartially" -> UpdatedPartially(t, "active")
      [] t.type = "UpdateTargetsPartially" -> UpdatedPartially(t, "targetActive")
      [] t.type = "SetControlMode" -> Outcome([rt EXCEPT !.mode = t.mode], activated)

\* Broken variant: outages go unnoticed.
NeverRebirth == FALSE

\* The first cycle ever is never a rebirth.
MightBeRebirth == lastRun = "longAgo"

\* REAPER calls the audio hook.
BeginCycle ==
    /\ audioRunning
    /\ rtStep = "idle"
    /\ rtStep' = IF MightBeRebirth THEN "request" ELSE "process"
    /\ budget' = BulkSize
    /\ lastRun' = "recent"
    /\ UNCHANGED <<mainVars, rt, activated, audioRunning, outages, queue, requests, dropped>>

\* Only if the request could be sent, the old tasks are discarded.
RequestFullSync ==
    /\ rtStep = "request"
    /\ IF requests < RequestCapacity
       THEN requests' = requests + 1 /\ rtStep' = "discard"
       ELSE rtStep' = "process" /\ UNCHANGED requests
    /\ UNCHANGED <<mainVars, rt, activated, budget, audioVars, queue, dropped>>

DiscardTasks ==
    /\ rtStep = "discard"
    /\ rtStep' = "process"
    /\ queue' = <<>>
    /\ UNCHANGED <<mainVars, rt, activated, budget, audioVars, requests, dropped>>

ProcessTask ==
    /\ rtStep = "process"
    /\ budget > 0
    /\ queue # <<>>
    /\ LET outcome == Processed(Head(queue))
       IN  rt' = outcome.rt /\ activated' = outcome.activated
    /\ queue' = Tail(queue)
    /\ budget' = budget - 1
    /\ UNCHANGED <<mainVars, rtStep, audioVars, requests, dropped>>

EndCycle ==
    /\ rtStep = "process"
    /\ budget = 0 \/ queue = <<>>
    /\ rtStep' = "idle"
    /\ UNCHANGED <<mainVars, rt, activated, budget, audioVars, queue, requests, dropped>>

-----------------------------------------------------------------------------
\* The audio device

StopAudio ==
    /\ audioRunning
    /\ outages < MaxOutages
    /\ audioRunning' = FALSE
    /\ outages' = outages + 1
    /\ UNCHANGED <<mainVars, rtVars, lastRun, queue, requests, dropped>>

\* More than a second without audio cycle
PassTime ==
    /\ ~audioRunning
    /\ rtStep = "idle"
    /\ lastRun = "recent"
    /\ lastRun' = "longAgo"
    /\ UNCHANGED <<mainVars, rtVars, audioRunning, outages, queue, requests, dropped>>

\* Unless the mishap is enabled, an outage that the hook won't notice, because
\* it was short or came before the first cycle, hasn't made any task drop.
StartAudio ==
    /\ ~audioRunning
    /\ lastRun = "longAgo" \/ ~dropped \/ requests > 0 \/ "UnnoticedOutage" \in Mishaps
    /\ audioRunning' = TRUE
    /\ UNCHANGED <<mainVars, rtVars, lastRun, outages, queue, requests, dropped>>

-----------------------------------------------------------------------------

Init ==
    /\ main = InitialState
    /\ circumstances = [control |-> TRUE, feedback |-> TRUE]
    /\ sending = <<>>
    /\ queue = <<>>
    /\ requests = 0
    /\ rt = InitialState
    /\ activated = {}
    /\ rtStep = "idle"
    /\ budget = 0
    /\ audioRunning \in BOOLEAN
    /\ lastRun \in FirstRuns
    /\ dropped = FALSE
    /\ changes = 0
    /\ outages = 0

Change ==
    \/ UpdateSettings
    \/ PotentiallyEnableOrDisable
    \/ UpdateAllMappings
    \/ UpdateSingleMapping
    \/ UpdatePersistentProcessingState
    \/ UpdateMappingsPartially
    \/ UpdateTargetsPartially
    \/ SetControlMode

MainThread == ProcessResyncRequest \/ SendTask
AudioThread == BeginCycle \/ RequestFullSync \/ DiscardTasks \/ ProcessTask \/ EndCycle
AudioDevice == StopAudio \/ PassTime \/ StartAudio

Next == Change \/ MainThread \/ AudioThread \/ AudioDevice

\* REAPER calls the control surface all the time and the audio hook as long as
\* audio runs. Neither changes nor outages are owed.
Fairness == WF_vars(MainThread) /\ WF_vars(AudioThread)

Spec == Init /\ [][Next]_vars /\ Fairness

-----------------------------------------------------------------------------
\* Properties

\* The processors have the fields of a processor, and the channels between them
\* hold at most as many tasks and requests as fit, whether audio runs or not.
TypeOK ==
    /\ main \in ProcessorStates
    /\ rt \in ProcessorStates
    /\ Len(queue) <= QueueCapacity
    /\ requests \in 0..RequestCapacity
    /\ budget \in 0..BulkSize
    /\ activated \subseteq Destinations \X Compartments \X Mappings
    /\ rtStep \in {"idle", "request", "discard", "process"}
    /\ lastRun \in {"never", "recent", "longAgo"}

Quiet == sending = <<>> /\ queue = <<>> /\ requests = 0

Drained == Quiet /\ audioRunning /\ rtStep = "idle" /\ lastRun = "recent"

\* Everything that a full sync is about; the control mode isn't.
Mirrored == [rt EXCEPT !.mode = main.mode] = main

\* As soon as all tasks and requests are processed while audio runs, the
\* real-time processor works with the settings, switches and mappings of the
\* main processor, no matter which tasks were dropped or discarded before, in
\* how many outages and where in its cycle an outage has interrupted the resync
\* (real_time_processor.rs: request_full_sync_and_discard_tasks_if_successful).
RtMirrorsMain == Drained => Mirrored

\* The last lifecycle message of a mapping was "activate" if and only if the
\* real-time processor would currently send feedback for it: no path through the
\* task handlers leaves a device activated, or not, for good, also not with lost
\* tasks. It says nothing of repetitions: the handlers send "activate" again when
\* they update a mapping that was on before (real_time_processor.rs:
\* run_from_audio_hook_essential, send_lifecycle_midi_diff).
LastLifecycleMidiFits ==
    activated = IF ProcessorFeedbackIsOn(rt) THEN AllMarks(rt) ELSE {}

\* If audio eventually keeps running, the real-time processor catches up with
\* the main processor for good: no resync is requested for ever, no task stays
\* in the channel and no difference remains (audio_hook.rs: on_pre).
RtCatchesUp == <>[]audioRunning => <>[](Quiet /\ Mirrored)
============================================================================
