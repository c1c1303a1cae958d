------------------------------ MODULE Backbone ------------------------------
(***************************************************************************)
(* The backbone shell (main/src/infrastructure/plugin/backbone_shell.rs)   *)
(* and what lives in it: instances and units, the audio hook, the          *)
(* deallocation thread, the detection of controllers, auto units and the   *)
(* capture of touched control elements.  It wakes up when the first        *)
(* plug-in is loaded and goes to sleep when the last one is unloaded.      *)
(*                                                                         *)
(* Actors: the main thread (one action per user operation, async task or   *)
(* await point), the audio thread (OnPre), the deallocation thread         *)
(* (Deallocate) and the devices.  What the user and the devices do is      *)
(* bounded by a budget per kind of operation.  A device (un)plugged is     *)
(* noticed by the control surface right away, not within two seconds.      *)
(***************************************************************************)
EXTENDS AutoUnits, SourceCapture, DeferringAllocator

CONSTANTS Scenarios \* initial situations with their budgets

\* What the budget is for.
Kinds == {"plugins", "units", "controllers", "detections", "devices", "learning", "touches", "audio"}

ASSUME ScenariosAssumption ==
    \A scenario \in Scenarios :
        /\ scenario.instances \subseteq Instances
        /\ scenario.budget \in [Kinds -> Nat]
        /\ scenario.connected \subseteq Devices
        /\ scenario.controllers \in Seq(ControllerRecords \cup {None})
        /\ Paired(scenario.controllers)

VARIABLES
    phase,   \* AppState; "draining" and "joining" are the waits of go_to_sleep
    loading, \* plug-ins that are loaded but have no instance shell yet
    budget   \* operations of each kind that are left

appVars == <<phase, loading, budget>>
vars == <<hookVars, captureVars, detectionVars, unitVars, allocatorVars, appVars>>

TypeOK ==
    /\ audioIsRunning \in BOOLEAN
    /\ connected \in SUBSET Devices /\ answers \in SUBSET Devices
    /\ enabledInputs \in SUBSET Devices /\ enabledOutputs \in SUBSET Devices
    /\ Len(hookTasks) <= TaskCapacity
    /\ rtInstances \in SUBSET Instances /\ rtProcessors \in SUBSET UnitIds
    /\ midiCapture \in Sessions \cup {None}
    /\ inquiry \in [requester: Requesters, output: Devices] \cup {None}
    /\ DOMAIN replies = Requesters
    /\ CaptureTypeOK /\ DetectionTypeOK /\ UnitsTypeOK
    /\ Len(garbage) <= DeallocatorCapacity /\ deallocating \in BOOLEAN
    /\ phase \in {"asleep", "awake", "draining", "joining"}
    /\ loading \in SUBSET Instances
    /\ budget \in [Kinds -> Nat]

\* Instances and their main units have been loaded, and everything has settled.
Init ==
    \E scenario \in Scenarios :
        /\ audioIsRunning = TRUE
        /\ connected = scenario.connected
        /\ enabledInputs = {} /\ enabledOutputs = {} /\ answers = {}
        /\ hookTasks = <<>> /\ midiCapture = None /\ inquiry = None
        /\ replies = [r \in Requesters |-> "failed"]
        /\ instances = [i \in scenario.instances |-> i \in scenario.controlled]
        /\ units = [i \in scenario.instances |-> Unit(i, TRUE, 0, None, None)]
        /\ rtInstances = scenario.instances /\ rtProcessors = scenario.instances
        /\ InitCapture
        /\ InitDetection(scenario.controllers)
        /\ garbage = <<>> /\ deallocating = (scenario.instances # {})
        /\ phase = IF scenario.instances = {} THEN "asleep" ELSE "awake"
        /\ loading = {}
        /\ budget = scenario.budget

Spend(kind) ==
    /\ budget[kind] > 0
    /\ budget' = [budget EXCEPT ![kind] = @ - 1]

------------------------------------------------------------------------------
(* The audio and the deallocation thread                                   *)

\* Mutant: the deallocation thread is stopped before the hook is removed.
HookIsRemovedLate == phase \in {"awake", "draining", "joining"}

HookIsAdded == phase \in {"awake", "draining"}

AudioBlock(arriving, timedOut, touched) ==
    /\ HookIsAdded
    /\ IF touched THEN midiCapture # None /\ Spend("touches") ELSE UNCHANGED budget
    /\ CaptureTouched(touched)
    /\ OnPre(arriving, timedOut)
    /\ IF DropsValue THEN DeallocInRealTime(<<"value">>) ELSE UNCHANGED allocatorVars
    /\ UNCHANGED <<panel, session, detectionVars, unitVars, phase, loading>>

StopOrStartAudio ==
    /\ Spend("audio")
    /\ SwitchAudio
    /\ UNCHANGED <<captureVars, detectionVars, unitVars, allocatorVars, phase, loading>>

FreeGarbage ==
    /\ Deallocate
    /\ UNCHANGED <<hookVars, captureVars, detectionVars, unitVars, appVars>>

------------------------------------------------------------------------------
(* Plug-ins                                                                *)

\* wake_up: the main thread tasks and futures that have accumulated are
\* dropped.
WakeUp ==
    /\ phase' = "awake"
    /\ StartAsyncDeallocation
    /\ updatePending' = FALSE
    /\ DropReadyDetections /\ DropReadySessions
    /\ UNCHANGED <<detecting, controllers>>

LoadPlugin(i) ==
    /\ phase \in {"awake", "asleep"}
    /\ i \notin loading \cup DOMAIN instances
    /\ Spend("plugins")
    /\ loading' = loading \cup {i}
    /\ IF phase = "asleep" THEN WakeUp
       ELSE UNCHANGED <<phase, allocatorVars, detectionVars, session>>
    /\ UNCHANGED <<hookVars, panel, captured, unitVars>>

InitInstanceShell(i) ==
    /\ phase = "awake" /\ i \in loading
    /\ loading' = loading \ {i}
    /\ CreateInstance(i)
    /\ UNCHANGED <<audioIsRunning, portVars, answers, hookStateVars, replies, captureVars, detecting,
                   detection, saved, controllers, allocatorVars, phase, budget>>

\* The plug-in goes away; if it's the last one, go_to_sleep removes the
\* control surface first.
UnloadPlugin(i) ==
    /\ phase = "awake"
    /\ i \in loading \cup DOMAIN instances
    /\ Spend("plugins")
    /\ loading' = loading \ {i}
    /\ IF i \in DOMAIN instances THEN DropInstance(i)
       ELSE UNCHANGED <<instances, units, hookTasks, updatePending>>
    /\ phase' = IF loading \cup DOMAIN instances = {i} THEN "draining" ELSE "awake"
    /\ UNCHANGED <<audioIsRunning, portVars, answers, hookStateVars, replies, captureVars, detecting,
                   detection, saved, controllers, allocatorVars>>

\* sleep_for_a_few_audio_blocks gives the hook three blocks or 100 ms, so
\* possibly none.  Then it's removed and the deallocation thread is stopped.
RemoveAudioHook ==
    /\ phase = "draining"
    /\ phase' = "joining"
    /\ StopAsyncDeallocation
    /\ UNCHANGED <<hookVars, captureVars, detectionVars, unitVars, loading, budget>>

FallAsleep ==
    /\ phase = "joining" /\ ~deallocating
    /\ phase' = "asleep"
    /\ UNCHANGED <<hookVars, captureVars, detectionVars, unitVars, allocatorVars, loading, budget>>

------------------------------------------------------------------------------
(* Operations of the main thread while awake                               *)

OperateUnits ==
    /\ phase = "awake"
    /\ Spend("units")
    /\ \/ \E i \in Instances, on \in BOOLEAN, n \in 0..1 : ApplyData(i, on, n)
       \/ \E i \in Instances : AddUnit(i) \/ ToggleGlobalControl(i)
       \/ \E u \in UnitIds : RemoveUnit(u) \/ ReportActivity(u)
       \/ \E u \in UnitIds, direction \in {"input", "output"}, port \in Ports :
             PickPort(u, direction, port)
    /\ UNCHANGED <<audioIsRunning, portVars, answers, hookStateVars, replies, captureVars, detecting,
                   detection, saved, controllers, allocatorVars, phase, loading>>

UpdateUnits ==
    /\ phase = "awake"
    /\ UpdateAutoUnits
    /\ UNCHANGED <<audioIsRunning, portVars, answers, hookStateVars, replies, captureVars, detecting,
                   detection, saved, controllers, allocatorVars, appVars>>

OperateControllers ==
    /\ phase = "awake"
    /\ Spend("controllers")
    /\ \/ \E d \in Devices : SaveController(Len(controllers) + 1, d)
       \/ \E k \in 1..Len(controllers) :
             \/ controllers[k] # None /\ \E d \in Devices : SaveController(k, d)
             \/ ToggleController(k)
             \/ DeleteController(k)
    /\ UNCHANGED <<audioIsRunning, answers, hookStateVars, captureVars, unitVars, allocatorVars,
                   phase, loading>>

\* The action "detect controllers"
DetectControllers(x) ==
    /\ phase = "awake"
    /\ Spend("detections")
    /\ SpawnDetection(x, connected)
    /\ UNCHANGED <<hookVars, captureVars, detecting, saved, controllers, updatePending, unitVars,
                   allocatorVars, phase, loading>>

\* An output that has appeared is looked at.
Plug(x, d) ==
    /\ phase = "awake" /\ d \notin connected
    /\ Spend("devices")
    /\ connected' = connected \cup {d}
    /\ SpawnDetection(x, {d})
    /\ updatePending' = TRUE
    /\ UNCHANGED <<audioIsRunning, enabledInputs, enabledOutputs, answers, hookTasks, hookStateVars,
                   replies, captureVars, detecting, saved, controllers, unitVars, allocatorVars,
                   phase, loading>>

Unplug(d) ==
    /\ phase = "awake" /\ d \in connected
    /\ Spend("devices")
    /\ connected' = connected \ {d} /\ answers' = answers \ {d}
    /\ updatePending' = TRUE
    /\ UNCHANGED <<audioIsRunning, enabledInputs, enabledOutputs, hookTasks, hookStateVars, replies,
                   captureVars, detecting, detection, saved, controllers, unitVars, allocatorVars,
                   phase, loading>>

\* The async tasks of controller detection go on.
ContinueTasks ==
    /\ phase = "awake"
    /\ \/ \E x \in Detectors : StartDetection(x) \/ ContinueDetection(x)
       \/ UpdateDeviceIdentity
    /\ UNCHANGED <<audioIsRunning, answers, hookStateVars, captureVars, unitVars, allocatorVars, appVars>>

StartLearning ==
    /\ phase = "awake"
    /\ Spend("learning")
    /\ \/ CloseMessagePanel
       \/ \E s \in Sessions, kind \in {"find", "learn"} :
             /\ kind = "learn" => DOMAIN units # {}
             /\ StartSession(s, kind)
    /\ UNCHANGED <<audioIsRunning, portVars, answers, hookStateVars, replies, detectionVars, unitVars,
                   allocatorVars, phase, loading>>

ContinueLearning ==
    /\ phase = "awake"
    /\ \E s \in Sessions : ContinueSession(s)
    /\ UNCHANGED <<audioIsRunning, portVars, answers, hookStateVars, replies, detectionVars, unitVars,
                   allocatorVars, appVars>>

------------------------------------------------------------------------------
Next ==
    \/ \E arriving \in SUBSET Devices, timedOut, touched \in BOOLEAN :
          AudioBlock(arriving, timedOut, touched)
    \/ StopOrStartAudio
    \/ FreeGarbage
    \/ \E i \in Instances : LoadPlugin(i) \/ InitInstanceShell(i) \/ UnloadPlugin(i)
    \/ RemoveAudioHook
    \/ FallAsleep
    \/ OperateUnits
    \/ UpdateUnits
    \/ OperateControllers
    \/ \E x \in Detectors : DetectControllers(x) \/ \E d \in Devices : Plug(x, d)
    \/ \E d \in Devices : Unplug(d)
    \/ ContinueTasks
    \/ StartLearning
    \/ ContinueLearning

\* While audio is running, blocks keep coming, what a device sends arrives and
\* the second of an inquiry passes; the deallocation thread is scheduled; the
\* waits of go_to_sleep are bounded; REAPER keeps calling the main loop.
Fairness ==
    /\ WF_vars(hookTasks # <<>> /\ AudioBlock({}, FALSE, FALSE))
    /\ WF_vars(answers # {} /\ AudioBlock(answers, FALSE, FALSE))
    /\ WF_vars(inquiry # None /\ AudioBlock({}, TRUE, FALSE))
    /\ WF_vars(FreeGarbage)
    /\ WF_vars(RemoveAudioHook \/ FallAsleep)
    /\ WF_vars(ContinueTasks)

Spec == Init /\ [][Next]_vars /\ Fairness

------------------------------------------------------------------------------
Idle == phase = "awake" /\ hookTasks = <<>>

\* The audio hook ends up driving exactly the real-time processors and
\* instances of the registered units and instances, whatever has been loaded,
\* unloaded and replaced meanwhile, also across a sleep (register_unit,
\* unregister_unit, register_instance, unregister_instance).
HookMirrorsUnits == Idle => rtProcessors = DOMAIN units /\ rtInstances = DOMAIN instances

\* Every controller that is enabled, connected and not overridden by a manual
\* unit has exactly one auto unit, with its ports, on the instance with global
\* control that comes last in project-first order; there are no other auto
\* units (update_auto_units_async "to be called whenever some event might lead
\* to addition/removal of auto units").
AutoUnitsAreAccurate ==
    LET carriers == {i \in DOMAIN instances : instances[i]}
        auto(k) == {u \in DOMAIN units : units[u].controller = k}
        wanted == IF carriers = {} THEN {} ELSE JudgedCandidates
    IN  phase = "awake" /\ ~updatePending =>
            \A k \in 1..Len(controllers) :
                /\ Cardinality(auto(k)) = (IF k \in wanted THEN 1 ELSE 0)
                /\ \A u \in auto(k) : /\ units[u].instance = Max(carriers)
                                      /\ units[u].input = controllers[k].input
                                      /\ units[u].output = controllers[k].output

\* A controller never pairs the output of one device with the input of
\* another, although inquiries of several tasks go through one audio hook that
\* keeps a single one and takes the first reply it sees (IS_RUNNING: "prevent
\* multiple tasks of this kind from running at the same time").
DevicesArePaired == Paired(controllers)

\* Between detections only ports of controllers that have been detected are
\* enabled ("we don't want to leave traces"): each enabled output has been
\* switched on together with the input of the same device.
DetectionLeavesNoTraces ==
    ~detecting => enabledInputs = enabledOutputs

\* Whenever the hook has nothing left to do, it captures MIDI (and withholds
\* it from all units) exactly while the message panel asks for a source.
CaptureMatchesPanel == Idle => (midiCapture # None <=> panel = "source")

\* When the backbone sleeps, everything the audio thread has dropped has been
\* freed: the thread is not stopped before the hook is gone.
GarbageIsFreed == phase = "asleep" => garbage = <<>>

\* go_to_sleep, which blocks REAPER's main thread, comes to an end: the
\* deallocation thread it joins gets and obeys the signal to stop.
FallsAsleep == phase = "draining" ~> phase = "asleep"

\* A running detection comes to an end as long as audio runs and the backbone
\* stays awake, whichever devices answer, don't or disappear.
DetectionEnds ==
    \A x \in Detectors :
        detection[x].stage = "asking" ~> \/ detection[x].stage = "off"
                                        \/ phase # "awake" \/ ~audioIsRunning

==============================================================================
