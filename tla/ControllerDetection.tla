------------------------- MODULE ControllerDetection -------------------------
(***************************************************************************)
(* Detection of controllers by asking MIDI devices for their identity      *)
(* (main/src/infrastructure/plugin/controller_detection.rs), and the       *)
(* global list of controllers                                              *)
(* (main/src/infrastructure/data/controller_manager.rs).  A detection and  *)
(* the update of a saved controller are async tasks of the main thread     *)
(* that wait for the audio hook's reply.  A detection changes REAPER's     *)
(* MIDI device preferences for the time it waits.                          *)
(*                                                                         *)
(* Abstractions: presets are reduced to whether there is a controller      *)
(* preset for a device (Known) and whether a controller has a main preset; *)
(* OSC controllers, names, colors and failing disk writes are left out.    *)
(***************************************************************************)
EXTENDS AudioHook

CONSTANTS Detectors, \* tasks that detect controllers
          Saver,     \* the task that asks for the identity of a saved controller
          Known      \* devices for which there is a controller preset

ASSUME DetectionAssumption ==
    /\ Requesters = Detectors \cup {Saver} /\ Saver \notin Detectors
    /\ Known \subseteq Devices

VARIABLES
    detecting,    \* IS_RUNNING
    detection,    \* state of each detection task
    saved,        \* position of the controller the saver waits for, 0 if none
    controllers,  \* controller_config.controllers, None in place of a deleted one
    updatePending \* update_auto_units has been scheduled

detectionVars == <<detecting, detection, saved, controllers, updatePending>>

Ports == Devices \cup {None}

Controller(on, in, out, withPreset) ==
    [enabled |-> on, input |-> in, output |-> out, mainPreset |-> withPreset]

ControllerRecords ==
    {Controller(on, in, out, withPreset) :
        on \in BOOLEAN, in \in Ports, out \in Ports, withPreset \in BOOLEAN}

\* No controller pairs the output of one device with the input of another.
Paired(list) == \A k \in 1..Len(list) : list[k] # None => list[k].input \in {None, list[k].output}

NoDetection == [stage |-> "off", current |-> None, todo |-> {}, oldIns |-> {}, oldOuts |-> {}]

DetectionStates ==
    [stage: {"off", "spawned", "asking"}, current: Ports, todo: SUBSET Devices,
     oldIns: SUBSET Devices, oldOuts: SUBSET Devices]

DetectionTypeOK ==
    /\ detecting \in BOOLEAN /\ updatePending \in BOOLEAN
    /\ detection \in [Detectors -> DetectionStates]
    /\ saved \in 0..Len(controllers)
    /\ controllers \in Seq(ControllerRecords \cup {None})

InitDetection(initial) ==
    /\ detecting = FALSE
    /\ detection = [x \in Detectors |-> NoDetection]
    /\ saved = 0
    /\ controllers = initial
    /\ updatePending = TRUE

------------------------------------------------------------------------------
PortIsUsed(list, direction, device) ==
    \E i \in 1..Len(list) : list[i] # None /\ list[i][direction] = device

\* Whether no inquiry of somebody else is under way.
AloneWith(tasks) ==
    \/ "OverlappingInquiries" \in Mishaps
    \/ /\ \A x \in Detectors \ tasks : detection[x].stage = "off"
       /\ saved = 0 \/ Saver \in tasks

\* The first device of the rest whose output isn't used by a controller is
\* probed: its output and all inputs are enabled and it is asked.  The order
\* of devices is the one of a hash set.  After the last one, detection ends.
ProbeNext(x, rest, list, ins, outs) ==
    LET unused == {d \in rest : ~PortIsUsed(list, "output", d)}
    IN  IF unused = {}
        THEN /\ detecting' = FALSE
             /\ detection' = [detection EXCEPT ![x] = NoDetection]
             /\ enabledInputs' = ins /\ enabledOutputs' = outs
             /\ UNCHANGED <<hookTasks, replies>>
        ELSE \E d \in unused, skipped \in SUBSET (rest \ unused) :
             /\ detecting' = TRUE
             /\ detection' = [detection EXCEPT ![x] =
                    [stage |-> "asking", current |-> d, todo |-> rest \ (skipped \cup {d}),
                     oldIns |-> ins, oldOuts |-> outs]]
             /\ enabledInputs' = Devices /\ enabledOutputs' = outs \cup {d}
             /\ SendRequest(x, d, replies)

SpawnDetection(x, devices) ==
    /\ detection[x].stage = "off"
    /\ AloneWith(Detectors)
    /\ detection' = [detection EXCEPT ![x] = [NoDetection EXCEPT !.stage = "spawned", !.todo = devices]]

\* Mutant: several detections may run at the same time.
DetectionsMayOverlap == FALSE

\* detect_controllers starts: it gives up if another one is running.
DetectionIsRunning == detecting

StartDetection(x) ==
    /\ detection[x].stage = "spawned"
    /\ IF DetectionIsRunning
       THEN /\ detection' = [detection EXCEPT ![x] = NoDetection]
            /\ UNCHANGED <<detecting, enabledInputs, enabledOutputs, hookTasks, replies>>
       ELSE ProbeNext(x, detection[x].todo, controllers, enabledInputs, enabledOutputs)
    /\ UNCHANGED <<connected, saved, controllers, updatePending>>

\* maybe_create_controller_for_device goes on with the reply.
RecognizedDevice(asked, reply) ==
    /\ reply # "failed"
    /\ ~PortIsUsed(controllers, "input", reply)
    /\ asked \in connected /\ asked \in Known /\ reply \in Known

ContinueDetection(x) ==
    LET current == detection[x]
        reply == replies[x]
    IN  /\ current.stage = "asking" /\ reply # "waiting"
        /\ IF RecognizedDevice(current.current, reply)
           THEN LET new == Controller(TRUE, reply, current.current, TRUE)
                IN  /\ controllers' = Append(controllers, new)
                    /\ updatePending' = TRUE
                    /\ ProbeNext(x, current.todo, controllers', current.oldIns \cup {reply},
                                 current.oldOuts \cup {current.current})
           ELSE /\ ProbeNext(x, current.todo, controllers, current.oldIns, current.oldOuts)
                /\ UNCHANGED <<controllers, updatePending>>
        /\ UNCHANGED <<connected, saved>>

------------------------------------------------------------------------------
\* save_controller of the app's request handler, with a changed output: its
\* device is asked for its identity.
SaveController(i, device) ==
    /\ saved = 0 /\ AloneWith({Saver})
    /\ controllers' = IF i \in 1..Len(controllers)
                      THEN [controllers EXCEPT ![i] = Controller(TRUE, None, device, TRUE)]
                      ELSE Append(controllers, Controller(TRUE, None, device, TRUE))
    /\ saved' = i
    /\ updatePending' = TRUE
    /\ SendRequest(Saver, device, replies)
    /\ UNCHANGED <<detecting, detection, portVars>>

\* save_controller with an unchanged connection: it is switched on or off.
ToggleController(i) ==
    /\ controllers[i] # None
    /\ controllers' = [controllers EXCEPT ![i].enabled = ~@]
    /\ updatePending' = TRUE
    /\ UNCHANGED <<detecting, detection, saved, portVars, hookTasks, replies>>

DeleteController(i) ==
    /\ controllers[i] # None
    /\ controllers' = [controllers EXCEPT ![i] = None]
    /\ updatePending' = TRUE
    /\ UNCHANGED <<detecting, detection, saved, portVars, hookTasks, replies>>

\* update_controller_device_identity: it sets the input if there is a reply.
UpdateDeviceIdentity ==
    /\ saved # 0 /\ replies[Saver] # "waiting"
    /\ saved' = 0
    /\ IF controllers[saved] = None THEN UNCHANGED <<controllers, updatePending>>
       ELSE /\ controllers' = IF replies[Saver] = "failed" THEN controllers
                              ELSE [controllers EXCEPT ![saved].input = replies[Saver]]
            /\ updatePending' = TRUE
    /\ UNCHANGED <<detecting, detection, portVars, hookTasks, replies>>

\* FutureMiddleware::reset drops the tasks that are ready to go on.  What a
\* detection has enabled stays enabled, and IS_RUNNING stays true.
IsReady(x) ==
    \/ detection[x].stage = "spawned"
    \/ detection[x].stage = "asking" /\ replies[x] # "waiting"

DropReadyDetections ==
    /\ detection' = [x \in Detectors |-> IF IsReady(x) THEN NoDetection ELSE detection[x]]
    /\ saved' = IF replies[Saver] # "waiting" THEN 0 ELSE saved

==============================================================================
