---------------------------- MODULE UnitLearning ----------------------------
(***************************************************************************)
(* How a unit learns the source and the target of mappings, one at a time  *)
(* or many in a row (application/unit_model.rs), and how it finds mappings *)
(* by a touched source (infrastructure/ui/header_panel.rs). All of these   *)
(* take the control away from the mappings and have to return it.          *)
(*                                                                         *)
(* Reactions are asynchronous. Setting a property queues a closure that    *)
(* tells the observers it has then, and what an observer does is queued as *)
(* well. REAPER lets the main thread run a cycle about 30 times a second:  *)
(*                                                                         *)
(*   tasks        all closures, also those that are added meanwhile        *)
(*   futures      which wait for touched targets                           *)
(*   surface      tasks of the control surface                             *)
(*   processors   the main processor: captured messages, then its tasks    *)
(*                                                                         *)
(* The audio thread gets the control mode through a channel and captures   *)
(* MIDI messages. The user clicks between two cycles, at most once: the    *)
(* model has no click that is faster than the main loop.                   *)
(*                                                                         *)
(* Not modelled: warnings about settings, virtual sources, mappings that   *)
(* make others learn their target, learning via REAPER actions (that       *)
(* doesn't touch the control mode), the main panel that closes while it    *)
(* filters. Channels don't overflow.                                       *)
(***************************************************************************)
EXTENDS Naturals, Sequences, SequencesExt

CONSTANTS
    Mappings,    \* numbers of the mappings there are or may be (bound, see HasNumbers)
    Compartment, \* the compartment of each mapping
    Initial,     \* the mappings there are in the beginning
    Sources,
    OscSources,  \* those that don't come in through the audio thread
    Futures,     \* numbers of the futures that wait for touched targets (bound, see HasNumbers)
    NoSource,
    MaxOps,      \* bound on the user's clicks
    MaxEvents    \* bound on moved control elements and touched targets

None == 0
Compartments == {"Controller", "Main"}

ASSUME LearningAssumption ==
    /\ Mappings \subseteq Nat \ {None}
    /\ Compartment \in [Mappings -> Compartments]
    /\ Initial \subseteq Mappings
    /\ OscSources \subseteq Sources
    /\ NoSource \notin Sources
    /\ Futures \subseteq Nat \ {None}
    /\ {MaxOps, MaxEvents} \subseteq Nat

VARIABLES
    unit,      \* the unit model and what it has sent, see Init
    mode,      \* control_mode of the main processor
    capturing, \* the future whose sender gets the unit's touched targets, or None
    rtTasks,   \* channel of the main processor to the audio thread
    rtMode,    \* control_mode of the real-time processor
    captured,  \* channel of captured messages, back to the main processor
    phase,     \* where the main loop is, "idle" between two cycles
    clicked,   \* the user has clicked since the last cycle
    ops, events,
    disturbed  \* history: the user has mixed kinds of learning, or was too fast

vars == <<unit, mode, capturing, rtTasks, rtMode, captured, phase, clicked, ops, events, disturbed>>
processorVars == <<mode, capturing, rtTasks, rtMode, captured>>
envVars == <<clicked, ops, events, disturbed>>

------------------------------------------------------------------------------
(* Data.                                                                   *)

Fresh == [is |-> "fresh", source |-> NoSource, target |-> FALSE]
Present(u) == {m \in Mappings : u.mappings[m].is = "present"}
FreshMappings(u, c) == {m \in Mappings : Compartment[m] = c /\ u.mappings[m] = Fresh}

\* A future that isn't there.
Gone == [is |-> "gone", channel |-> <<>>]
FreeFutures(u) == {f \in Futures : u.futures[f] = Gone}

\* Bounds: the next step finds a number for a new mapping and a new future.
HasNumbers(u) ==
    FreeFutures(u) # {} /\ \A c \in Compartments : FreshMappings(u, c) # {}

\* The elements of s that are in S, in their order. (SelectSeq with a set
\* for the test, because the proofs reason about its definition.)
Selection(s, S) ==
    LET select[n \in 0..Len(s)] ==
            IF n = 0 THEN <<>>
            ELSE IF s[n] \in S THEN Append(select[n - 1], s[n]) ELSE select[n - 1]
    IN  select[Len(s)]

Init ==
    /\ unit = [mappings |-> [m \in Mappings |->
                                IF m \in Initial THEN [Fresh EXCEPT !.is = "present"] ELSE Fresh],
               learnsSource |-> None, \* mapping_which_learns_source
               learnsTarget |-> None, \* mapping_which_learns_target
               many |-> None,         \* mapping in learn_many_state
               step |-> "source",     \* sub_state in learn_many_state
               filter |-> FALSE,      \* is_learning_source_filter
               observers |-> <<>>,    \* in the order in which they subscribed
               tasks |-> <<>>,        \* closures for the main thread
               futures |-> [f \in Futures |-> Gone],
               surfaceTasks |-> <<>>, \* tasks for the control surface
               mainTasks |-> <<>>]    \* tasks for the main processor
    /\ mode = "Controlling" /\ rtMode = "Controlling"
    /\ capturing = None
    /\ rtTasks = <<>> /\ captured = <<>>
    /\ phase = "idle"
    /\ clicked = FALSE /\ ops = 0 /\ events = 0
    /\ disturbed = FALSE

------------------------------------------------------------------------------
(* Properties and observers. Of all changes, only those to "nothing" have  *)
(* observers that matter.                                                  *)

\* Waits for messages to learn from, or to filter by.
Capture(forFilter, reenable, ignored) ==
    [kind |-> "capture", forFilter |-> forFilter, reenable |-> reenable, ignored |-> ignored]

\* Learn many, main compartment: when the source is learned, learn the target.
AfterSource(m) == [kind |-> "afterSource", mapping |-> m]

\* Learn many: when a mapping is done, add the next one.
AfterMapping(c) == [kind |-> "afterMapping", compartment |-> c]

Captures ==
    [kind: {"capture"}, forFilter: BOOLEAN, reenable: BOOLEAN, ignored: SUBSET Sources]

Triggers ==
    [kind: {"afterSource"}, mapping: Mappings]
    \cup [kind: {"afterMapping"}, compartment: Compartments]

Observer == Captures \cup Triggers

\* A capture observes the property that ends it.
Observes(o, property) ==
    CASE property = "learnsSource" -> \/ o.kind = "capture" /\ ~o.forFilter
                                      \/ o.kind = "afterSource"
                                      \/ o.kind = "afterMapping" /\ o.compartment = "Controller"
      [] property = "learnsTarget" -> o.kind = "afterMapping" /\ o.compartment = "Main"
      [] property = "many" -> o.kind \in {"afterSource", "afterMapping"}
      [] property = "filter" -> o.kind = "capture" /\ o.forFilter

ObserversOf(u, property) == Selection(u.observers, {o \in Observer : Observes(o, property)})

\* The subscriptions that outlive a notification, those of the given kinds do.
Without(u, property, kept) ==
    Selection(u.observers, {o \in Observer : Observes(o, property) => o.kind \in kept})

Queue(u, task) == [u EXCEPT !.tasks = Append(@, task)]
SendToMain(u, task) == [u EXCEPT !.mainTasks = Append(@, task)]

\* Setting a property that has observers and becomes nothing.
Clear(u, property, nothing) ==
    LET cleared == [u EXCEPT ![property] = nothing]
    IN  IF u[property] # nothing /\ ObserversOf(u, property) # <<>>
        THEN Queue(cleared, [do |-> "notify", property |-> property])
        ELSE cleared

------------------------------------------------------------------------------
(* Operations of the unit model.                                           *)

StopLearningSource(u) == Clear(u, "learnsSource", None)

\* Broken variant: control isn't enabled again.
StopLearningTargetWithoutControl(u) ==
    Clear([u EXCEPT !.surfaceTasks = Append(@, None)], "learnsTarget", None)

StopLearningTarget(u) ==
    SendToMain(Clear([u EXCEPT !.surfaceTasks = Append(@, None)], "learnsTarget", None),
               "ReturnToControlMode")

StopMappingActions(u) == StopLearningTarget(StopLearningSource(u))

RemoveMapping(u, m) == [StopMappingActions(u) EXCEPT !.mappings[m].is = "removed"]

StartLearningSourceInternal(u, m, reenable, ignored) ==
    [SendToMain([u EXCEPT !.learnsSource = m], "StartLearnSource") EXCEPT
        !.observers = Append(@, Capture(FALSE, reenable, ignored))]

\* While a source is being learned, just the mapping changes.
StartLearningSource(u, m) ==
    IF u.learnsSource # None THEN [u EXCEPT !.learnsSource = m]
    ELSE StartLearningSourceInternal(u, m, TRUE, {})

StartLearningTargetInternal(u, m, handleControlDisabling) ==
    LET f == CHOOSE g \in FreeFutures(u) : TRUE
        disabled == IF handleControlDisabling THEN SendToMain(u, "DisableControl") ELSE u
    IN  [disabled EXCEPT !.learnsTarget = m, !.futures[f].is = "spawned"]

\* Broken variant: mappings that have no source yet count.
LearnedSourcesOfAll(u, c) ==
    {u.mappings[m].source : m \in {n \in Present(u) : Compartment[n] = c}}

LearnedSources(u, c) ==
    {u.mappings[m].source : m \in {n \in Present(u) : Compartment[n] = c}} \ {NoSource}

\* Broken variant: nothing is ignored, a moved fader is learned again and again.
AddAndLearnIgnoringNothing(u, c) ==
    LET m == CHOOSE n \in FreshMappings(u, c) : TRUE
        added == [u EXCEPT !.mappings[m].is = "present", !.many = m, !.step = "source"]
        started == StartLearningSourceInternal(added, m, FALSE, {})
    IN  IF c = "Main" THEN [started EXCEPT !.observers = Append(@, AfterSource(m))] ELSE started

AddAndLearnOneOfManyMappings(u, c) ==
    LET m == CHOOSE n \in FreshMappings(u, c) : TRUE
        ignored == IF c = "Controller" THEN LearnedSources(u, c) ELSE {}
        added == [u EXCEPT !.mappings[m].is = "present", !.many = m, !.step = "source"]
        started == StartLearningSourceInternal(added, m, FALSE, ignored)
    IN  IF c = "Main" THEN [started EXCEPT !.observers = Append(@, AfterSource(m))] ELSE started

StartLearningManyMappings(u, c) ==
    LET prepared == StopMappingActions(SendToMain(u, "DisableControl"))
    IN  [AddAndLearnOneOfManyMappings(prepared, c) EXCEPT
            !.observers = Append(@, AfterMapping(c))]

\* Broken variant: learn_many_state is cleared last, so its triggers still fire.
StopLearningManyMappingsLast(u) ==
    LET stopped == SendToMain(Clear(StopMappingActions(u), "many", None), "ReturnToControlMode")
    IN  IF u.learnsSource # None THEN RemoveMapping(stopped, u.learnsSource) ELSE stopped

StopLearningManyMappings(u) ==
    LET stopped == SendToMain(StopMappingActions(Clear(u, "many", None)), "ReturnToControlMode")
    IN  IF u.learnsSource # None THEN RemoveMapping(stopped, u.learnsSource) ELSE stopped

\* The source was learned, or learning it was stopped.
LearnTargetOfOneOfMany(u, m) ==
    StartLearningTargetInternal([u EXCEPT !.many = m, !.step = "target"], m, FALSE)

\* Reaction to a captured message.
LearnSource(u, source) ==
    LET m == u.learnsSource
        learned == IF m \in Present(u) THEN [u EXCEPT !.mappings[m].source = source] ELSE u
    IN  IF m = None THEN u ELSE StopLearningSource(learned)

\* Reaction to a touched target. Those of other projects aren't learned.
LearnTarget(u, isForeign) ==
    LET m == u.learnsTarget
        learned == IF m \in Present(u) THEN [u EXCEPT !.mappings[m].target = TRUE] ELSE u
    IN  IF isForeign THEN u ELSE Clear(learned, "learnsTarget", None)

\* incoming_msg_captured_subject: whoever doesn't ignore the source reacts.
CaptureMessage(u, source) ==
    LET reacting == {o \in Captures : ~o.forFilter /\ source \notin o.ignored}
        reactions == Selection(u.observers, reacting)
    IN  [u EXCEPT !.tasks = @ \o [i \in 1..Len(reactions) |-> [do |-> "learn", source |-> source]]]

------------------------------------------------------------------------------
(* Delivered notifications.                                                *)

Reaction(o) ==
    IF o.kind = "afterSource" THEN [do |-> "learnTarget", mapping |-> o.mapping]
    ELSE [do |-> "addMapping", compartment |-> o.compartment]

\* Broken variant: control returns even if "learn many" goes on.
NotifyStoppedReenabling(u, property) ==
    LET told == ObserversOf(u, property)
        returns == Selection(told, Captures)
        triggered == Selection(told, Triggers)
    IN  [u EXCEPT !.observers = Without(u, property, {"afterMapping"}),
                  !.mainTasks = @ \o [i \in 1..Len(returns) |-> "ReturnToControlMode"],
                  !.tasks = @ \o [i \in 1..Len(triggered) |-> Reaction(triggered[i])]]

\* Captures end and return control, triggers queue their reactions. A trigger
\* that waits for one source is done after that.
NotifyStopped(u, property) ==
    LET told == ObserversOf(u, property)
        returns == Selection(told, {o \in Captures : o.reenable})
        triggered == Selection(told, Triggers)
    IN  [u EXCEPT !.observers = Without(u, property, {"afterMapping"}),
                  !.mainTasks = @ \o [i \in 1..Len(returns) |-> "ReturnToControlMode"],
                  !.tasks = @ \o [i \in 1..Len(triggered) |-> Reaction(triggered[i])]]

\* Learn many is over, its triggers are dropped.
NotifyManyStopped(u) == [u EXCEPT !.observers = Without(u, "many", {})]

Do(task, u) ==
    CASE task.do = "notify" -> IF task.property = "many" THEN NotifyManyStopped(u)
                               ELSE NotifyStopped(u, task.property)
      [] task.do = "learn" -> LearnSource(u, task.source)
      [] task.do = "learnTarget" -> LearnTargetOfOneOfMany(u, task.mapping)
      [] task.do = "addMapping" -> AddAndLearnOneOfManyMappings(u, task.compartment)

------------------------------------------------------------------------------
(* The main loop.                                                          *)

\* Its sender was replaced or dropped, or will never be there.
IsClosed(f) ==
    /\ unit.futures[f].is = "waiting"
    /\ capturing # f
    /\ ~Contains(unit.surfaceTasks, f)

IsReady(f) == \/ unit.futures[f].is = "spawned"
              \/ unit.futures[f].channel # <<>>
              \/ IsClosed(f)

\* Nothing is on its way anymore.
IsSettled ==
    /\ phase = "idle"
    /\ unit.tasks = <<>> /\ unit.surfaceTasks = <<>> /\ unit.mainTasks = <<>>
    /\ rtTasks = <<>> /\ captured = <<>>
    /\ \A f \in Futures : ~IsReady(f)

\* Without work, a cycle changes nothing.
StartCycle ==
    /\ phase = "idle"
    /\ \/ clicked
       \/ unit.tasks # <<>> \/ unit.surfaceTasks # <<>> \/ unit.mainTasks # <<>>
       \/ captured # <<>>
       \/ \E f \in Futures : IsReady(f)
    /\ phase' = "tasks"
    /\ clicked' = FALSE
    /\ UNCHANGED <<unit, processorVars, ops, events, disturbed>>

RunTask ==
    /\ phase = "tasks" /\ unit.tasks # <<>> /\ HasNumbers(unit)
    /\ unit' = Do(Head(unit.tasks), [unit EXCEPT !.tasks = Tail(@)])
    /\ UNCHANGED <<processorVars, phase, envVars>>

EndTasks ==
    /\ phase = "tasks" /\ unit.tasks = <<>>
    /\ phase' = "futures"
    /\ UNCHANGED <<unit, processorVars, envVars>>

\* A future starts to capture when it is polled first, takes all events there
\* are and ends when its channel is closed. It doesn't end by learning.
PollFuture(f) ==
    /\ phase = "futures" /\ IsReady(f)
    /\ LET future == unit.futures[f]
           rest == [unit EXCEPT !.futures[f].channel = Tail(@)]
       IN  unit' =
            IF future.is = "spawned"
            THEN [unit EXCEPT !.futures[f].is = "waiting", !.surfaceTasks = Append(@, f)]
            ELSE IF future.channel = <<>> THEN [unit EXCEPT !.futures[f] = Gone]
            ELSE IF Head(future.channel).causedByRealearn THEN rest
            ELSE StopLearningTarget(LearnTarget(rest, Head(future.channel).isForeign))
    /\ UNCHANGED <<processorVars, phase, envVars>>

EndFutures ==
    /\ phase = "futures" /\ \A f \in Futures : ~IsReady(f)
    /\ phase' = "surface"
    /\ UNCHANGED <<unit, processorVars, envVars>>

\* A task is the future that starts capturing, None stops it.
ProcessMainTasks ==
    /\ phase = "surface"
    /\ capturing' = IF unit.surfaceTasks = <<>> THEN capturing ELSE Last(unit.surfaceTasks)
    /\ unit' = [unit EXCEPT !.surfaceTasks = <<>>]
    /\ phase' = "processors"
    /\ UNCHANGED <<mode, rtTasks, rtMode, captured, envVars>>

ModeAfter ==
    [StartLearnSource |-> "LearningSource", DisableControl |-> "Disabled",
     ReturnToControlMode |-> "Controlling"]

\* The audio thread may capture the next message meanwhile.
ProcessCapturedMidi ==
    /\ phase = "processors" /\ captured # <<>>
    /\ unit' = CaptureMessage(unit, Head(captured))
    /\ captured' = Tail(captured)
    /\ UNCHANGED <<mode, capturing, rtTasks, rtMode, phase, envVars>>

ProcessNormalTasks ==
    /\ phase = "processors" /\ captured = <<>>
    /\ unit' = [unit EXCEPT !.mainTasks = <<>>]
    /\ mode' = IF unit.mainTasks = <<>> THEN mode ELSE ModeAfter[Last(unit.mainTasks)]
    /\ rtTasks' = rtTasks \o unit.mainTasks
    /\ phase' = "idle"
    /\ UNCHANGED <<capturing, rtMode, captured, envVars>>

MainLoop ==
    \/ StartCycle
    \/ RunTask
    \/ EndTasks
    \/ \E f \in Futures : PollFuture(f)
    \/ EndFutures
    \/ ProcessMainTasks
    \/ ProcessCapturedMidi
    \/ ProcessNormalTasks

\* The audio thread.
ProcessNormalRealTimeTask ==
    /\ rtTasks # <<>>
    /\ rtMode' = ModeAfter[Head(rtTasks)]
    /\ rtTasks' = Tail(rtTasks)
    /\ UNCHANGED <<unit, mode, capturing, captured, phase, envVars>>

------------------------------------------------------------------------------
(* Control elements and targets.                                           *)

Event(disturbs) ==
    /\ events < MaxEvents /\ events' = events + 1
    /\ disturbed' = (disturbed \/ disturbs)
    /\ UNCHANGED <<phase, clicked, ops>>

SendCapturedMidi(source) ==
    /\ Event(FALSE)
    /\ rtMode = "LearningSource" /\ source \notin OscSources
    /\ captured' = Append(captured, source)
    /\ UNCHANGED <<unit, mode, capturing, rtTasks, rtMode>>

\* OSC arrives within a cycle, before the processors run, keys between two cycles.
ProcessIncomingMsgForLearning(source) ==
    /\ Event(FALSE)
    /\ phase \in {"idle", "surface"}
    /\ mode = "LearningSource" /\ source \in OscSources
    /\ unit' = CaptureMessage(unit, source)
    /\ UNCHANGED processorVars

\* A future that was spawned by a click hasn't replaced the capturing one yet.
StartsToCapture == \E f \in Futures : unit.futures[f].is = "spawned"

\* ReaLearn touches targets only if it controls something.
ProcessTouchedTarget(isForeign, causedByRealearn) ==
    /\ Event(StartsToCapture)
    /\ phase = "idle" /\ capturing # None
    /\ causedByRealearn => mode = "Controlling" /\ ~isForeign
    /\ unit' = [unit EXCEPT !.futures[capturing].channel =
                    Append(@, [isForeign |-> isForeign, causedByRealearn |-> causedByRealearn])]
    /\ UNCHANGED processorVars

Environment ==
    \/ \E s \in Sources : SendCapturedMidi(s) \/ ProcessIncomingMsgForLearning(s)
    \/ \E isForeign, causedByRealearn \in BOOLEAN :
            ProcessTouchedTarget(isForeign, causedByRealearn)

------------------------------------------------------------------------------
(* The user.                                                               *)

InProgress(u) ==
    (IF u.many # None THEN {"many"}
     ELSE (IF u.learnsSource # None THEN {"source"} ELSE {}) \cup
          (IF u.learnsTarget # None THEN {"target"} ELSE {})) \cup
    (IF u.filter THEN {"filter"} ELSE {})

\* As in the beginning: nothing is learned, nobody waits.
IsClean == IsSettled /\ InProgress(unit) = {} /\ unit.observers = <<>> /\ capturing = None

\* A click is proper if nothing but one of the given kinds of learning is in
\* progress and nothing is on its way.
Click(new, kinds) ==
    /\ phase = "idle" /\ ~clicked /\ ops < MaxOps /\ HasNumbers(unit)
    /\ unit' = new
    /\ clicked' = TRUE /\ ops' = ops + 1
    /\ disturbed' = \/ disturbed /\ ~IsClean
                    \/ ~IsSettled
                    \/ \A kind \in kinds : ~(InProgress(unit) \subseteq {kind})
    /\ UNCHANGED <<processorVars, phase, events>>

ToggleLearningSource(m) ==
    Click(IF unit.learnsSource = m THEN StopLearningSource(unit)
          ELSE StartLearningSource(unit, m),
          {"source"})

ToggleLearningTarget(m) ==
    Click(IF unit.learnsTarget = m THEN StopLearningTarget(unit)
          ELSE StartLearningTargetInternal(unit, m, TRUE),
          {"target"})

\* Closing the message panel stops once more.
StopFilterLearning(u) == Clear(u, "filter", FALSE)

ToggleLearnManyMappings(c) ==
    LET unfiltered == StopFilterLearning(unit)
    IN  Click(IF unit.many # None
              THEN StopLearningManyMappings(StopLearningManyMappings(unfiltered))
              ELSE StartLearningManyMappings(unfiltered, c),
              {"many"})

\* The user closes the message panel, which is open while learning many.
DestroyMessagePanel == unit.many # None /\ Click(StopLearningManyMappings(unit), {"many"})

ToggleLearnSourceFilter ==
    Click(IF unit.filter THEN StopFilterLearning(unit)
          ELSE [SendToMain(unit, "StartLearnSource") EXCEPT
                    !.filter = TRUE, !.observers = Append(@, Capture(TRUE, TRUE, {}))],
          {"filter"})

ClickRemoveMapping(m) == Click(RemoveMapping(unit, m), {"source", "target"})

\* Another preset: all mappings of the compartment are replaced.
ReplaceCompartment(c) ==
    LET stopped == StopMappingActions(unit)
    IN  Click([stopped EXCEPT !.mappings = [m \in Mappings |->
                    IF m \in Present(unit) /\ Compartment[m] = c
                    THEN [@[m] EXCEPT !.is = "removed"] ELSE @[m]]],
              {"source", "target"})

User ==
    \/ \E m \in Present(unit) :
            ToggleLearningSource(m) \/ ToggleLearningTarget(m) \/ ClickRemoveMapping(m)
    \/ \E c \in Compartments : ToggleLearnManyMappings(c) \/ ReplaceCompartment(c)
    \/ DestroyMessagePanel
    \/ ToggleLearnSourceFilter

Next == MainLoop \/ ProcessNormalRealTimeTask \/ Environment \/ User

Spec == Init /\ [][Next]_vars

------------------------------------------------------------------------------
TypeOK ==
    /\ unit.mappings \in [Mappings -> [is: {"fresh", "present", "removed"},
                                       source: Sources \cup {NoSource}, target: BOOLEAN]]
    /\ {unit.learnsSource, unit.learnsTarget, unit.many} \subseteq Mappings \cup {None}
    /\ unit.step \in {"source", "target"} /\ unit.filter \in BOOLEAN
    /\ \A o \in ToSet(unit.observers) : o \in Observer
    /\ capturing \in Futures \cup {None}
    /\ {mode, rtMode} \subseteq {"Controlling", "LearningSource", "Disabled"}
    /\ ToSet(captured) \subseteq Sources

\* Whatever kinds of learning the user has mixed and however fast: when nothing
\* is learned anymore and everything has been processed, the mappings are in
\* control again, in both threads.
ControlReturns ==
    IsSettled /\ InProgress(unit) = {} => mode = "Controlling" /\ rtMode = "Controlling"

\* The docs promise that control is off while one learns or filters. A mapping
\* shown as learning its source gets the next message, one shown as learning
\* its target gets the next touched target.
LearningIsEffective ==
    IsSettled /\ ~disturbed =>
        /\ unit.learnsSource # None \/ unit.filter =>
                /\ mode = "LearningSource" /\ rtMode = "LearningSource"
                /\ ObserversOf(unit, IF unit.filter THEN "filter" ELSE "learnsSource") # <<>>
        /\ unit.learnsTarget # None =>
                /\ capturing # None
                /\ mode # "Controlling" /\ rtMode # "Controlling"

\* "Learn many" shows what is really being learned, ignores in the controller
\* compartment what was learned already, and is over when it was stopped.
LearnManyKeepsInStep ==
    IsSettled /\ ~disturbed =>
        /\ unit.many = None => ObserversOf(unit, "many") = <<>>
        /\ unit.many # None =>
                IF unit.step = "source"
                THEN unit.learnsSource = unit.many /\ unit.learnsTarget = None
                ELSE unit.learnsTarget = unit.many /\ unit.learnsSource = None
        /\ unit.many # None /\ Compartment[unit.many] = "Controller" =>
                \A o \in ToSet(ObserversOf(unit, "learnsSource")) :
                    o.kind = "capture" => LearnedSources(unit, "Controller") \subseteq o.ignored

\* "Learn many" starts by a click only, learns the target as soon as the source
\* is learned, goes on only then and leaves no mapping without a source behind.
LearnManyFinishesMappings ==
    [][ LET m == unit.many
            hasSource == m \notin Present(unit') \/ unit'.mappings[m].source # NoSource
            goesOn == unit'.many \notin {m, None}
        IN  ~disturbed' =>
                /\ m = None /\ unit'.many # None => phase = "idle"
                /\ m # None /\ <<unit'.many, unit'.step>> # <<m, unit.step>> => hasSource
                /\ m # None /\ goesOn /\ Compartment[m] = "Main" => unit.step = "target" ]_vars

\* "Remove last added mapping if source not learned already"
\* (stop_learning_many_mappings): no other mapping goes when learning is stopped.
StoppingRemovesLastAdded ==
    [][ unit.many # None /\ unit'.many = None =>
            \A m \in Present(unit) \ Present(unit') :
                m = unit.many /\ unit.mappings[m].source = NoSource ]_vars

=============================================================================
