-------------------------- MODULE AutoUnitsProofs --------------------------
(***************************************************************************)
(* What holds of the backbone's instances, units and auto units for any    *)
(* number of instances, unit IDs, devices and controllers and any amount   *)
(* of work: the state keeps its types, the audio hook catches up with what *)
(* is registered, and auto units are accurate once they are updated.       *)
(***************************************************************************)
EXTENDS BackboneProofs

------------------------------------------------------------------------------
(* Types                                                                   *)

Requests == [requester: Requesters, output: Devices]

HookTaskRecords ==
    UnitTaskRecords \cup
    [type: {"StartCapturingMidi"}, id: Sessions] \cup
    [type: {"StopCapturingMidi"}, id: {None}] \cup
    [type: {"RequestMidiDeviceIdentity"}, id: Requests]

Replies == Devices \cup {"waiting", "failed"}

QueueTypes == hookTasks \in Seq(HookTaskRecords) /\ Len(hookTasks) <= TaskCapacity

PortTypes ==
    /\ connected \in SUBSET Devices
    /\ enabledInputs \in SUBSET Devices /\ enabledOutputs \in SUBSET Devices

HookTypes ==
    /\ audioIsRunning \in BOOLEAN
    /\ answers \in SUBSET Devices
    /\ rtInstances \in SUBSET Instances /\ rtProcessors \in SUBSET UnitIds
    /\ midiCapture \in Sessions \cup {None}
    /\ inquiry \in Requests \cup {None}

ReplyTypes == replies \in [Requesters -> Replies]

AppTypes ==
    /\ phase \in {"asleep", "awake", "draining", "joining"}
    /\ loading \in SUBSET Instances
    /\ budget \in [Kinds -> Nat]

AllocatorTypes ==
    /\ garbage \in Seq(Commands) /\ Len(garbage) <= DeallocatorCapacity
    /\ deallocating \in BOOLEAN

\* Besides TypeOK: what is in the channels and in the reply receivers.
Types ==
    /\ QueueTypes /\ PortTypes /\ HookTypes /\ ReplyTypes
    /\ CaptureTypeOK /\ DetectionTypeOK /\ UnitsTypeOK
    /\ AllocatorTypes /\ AppTypes

LEMMA InitTypes == Init => Types
<1>. SUFFICES ASSUME Init PROVE Types
    OBVIOUS
<1>1. PICK scenario \in Scenarios :
        /\ audioIsRunning = TRUE
        /\ connected = scenario.connected
        /\ enabledInputs = {} /\ enabledOutputs = {} /\ answers = {}
        /\ hookTasks = <<>> /\ midiCapture = None /\ inquiry = None
        /\ replies = [r \in Requesters |-> "failed"]
        /\ instances = [i \in scenario.instances |-> i \in scenario.controlled]
        /\ units = [i \in scenario.instances |-> Unit(i, TRUE, 0, None, None)]
        /\ rtInstances = scenario.instances /\ rtProcessors = scenario.instances
        /\ InitCapture
        /\ InitDetection(scenario.controllers)
        /\ garbage = <<>> /\ deallocating = (scenario.instances # {})
        /\ phase = IF scenario.instances = {} THEN "asleep" ELSE "awake"
        /\ loading = {}
        /\ budget = scenario.budget
    BY DEF Init
<1>2. /\ scenario.instances \subseteq Instances /\ scenario.budget \in [Kinds -> Nat]
      /\ scenario.connected \subseteq Devices
      /\ scenario.controllers \in Seq(ControllerRecords \cup {None})
    BY <1>1, ScenariosAssumption
<1>3. QueueTypes /\ PortTypes
    BY <1>1, <1>2, HookAssumption DEF QueueTypes, PortTypes
<1>4. HookTypes
    BY <1>1, <1>2, UnitAssumption DEF HookTypes
<1>5. ReplyTypes /\ CaptureTypeOK
    BY <1>1, CaptureAssumption DEF ReplyTypes, Replies, CaptureTypeOK, InitCapture
<1>6. DetectionTypeOK
  <2>1. NoDetection \in DetectionStates
      BY DEF NoDetection, DetectionStates, Ports
  <2>2. /\ detecting = FALSE /\ detection = [x \in Detectors |-> NoDetection] /\ saved = 0
        /\ controllers = scenario.controllers /\ updatePending = TRUE
      BY <1>1 DEF InitDetection
  <2>3. Len(controllers) \in Nat
      BY <1>2, <2>2
  <2>4. detection \in [Detectors -> DetectionStates]
      BY <2>1, <2>2
  <2>5. saved \in 0..Len(controllers)
      BY <2>2, <2>3
  <2>. QED  BY <1>2, <2>2, <2>4, <2>5 DEF DetectionTypeOK
<1>7. UnitsTypeOK
  <2>1. DOMAIN instances = scenario.instances /\ DOMAIN units = scenario.instances
      BY <1>1
  <2>2. \A i \in DOMAIN instances : instances[i] \in BOOLEAN
    <3>. SUFFICES ASSUME NEW i \in DOMAIN instances
                  PROVE  instances[i] \in BOOLEAN
        OBVIOUS
    <3>1. i \in scenario.instances
        BY <2>1
    <3>2. instances[i] = (i \in scenario.controlled)
        BY <1>1, <3>1, Zenon
    <3>3. (i \in scenario.controlled) \in BOOLEAN
        OBVIOUS
    <3>. QED  BY <3>2, <3>3, Zenon
  <2>3. Len(controllers) \in Nat
      BY <1>1, <1>2 DEF InitDetection
  <2>4. \A u \in DOMAIN instances : Unit(u, TRUE, 0, None, None) \in UnitRecords
      BY <2>3 DEF Unit, UnitRecords, Ports
  <2>5. \A u \in DOMAIN units : units[u] \in UnitRecords
      BY <1>1, <2>1, <2>4
  <2>6. DOMAIN instances \subseteq Instances /\ DOMAIN units \subseteq UnitIds
      BY <1>2, <2>1, UnitAssumption
  <2>. QED  BY <2>2, <2>5, <2>6 DEF UnitsTypeOK
<1>8. AllocatorTypes /\ AppTypes
  <2>1. deallocating \in BOOLEAN
      BY <1>1, Zenon
  <2>2. <<>> \in Seq(Commands) /\ Len(<<>>) = 0
      OBVIOUS
  <2>. QED  BY <1>1, <1>2, <2>1, <2>2, AllocatorAssumption DEF AllocatorTypes, AppTypes
<1>. QED  BY <1>3, <1>4, <1>5, <1>6, <1>7, <1>8 DEF Types

LEMMA LimitOfTasks ==
    ASSUME audioIsRunning \in BOOLEAN
    PROVE  (IF audioIsRunning THEN TaskCapacity ELSE TaskCapacity \div 2 + 1) \in 1..TaskCapacity
<1>1. TaskCapacity \in Nat \ {0} /\ TaskCapacity \div 2 + 1 \in 1..TaskCapacity
    BY HookAssumption
<1>. QED  BY <1>1

\* What is sent keeps the channel within its capacity.
LEMMA SendTypes ==
    ASSUME QueueTypes, audioIsRunning \in BOOLEAN,
           NEW tasks \in Seq(HookTaskRecords), hookTasks' = Sent(tasks)
    PROVE  QueueTypes'
<1>. DEFINE limit == IF audioIsRunning THEN TaskCapacity ELSE TaskCapacity \div 2 + 1
            n == Min({Len(tasks), Room})
<1>1. IsQueue(hookTasks) /\ IsQueue(tasks) /\ Len(hookTasks) \in Nat
    BY DEF QueueTypes, IsQueue
<1>2. limit \in 1..TaskCapacity /\ TaskCapacity \in Nat
    BY LimitOfTasks, HookAssumption
<1>3. Room = IF Len(hookTasks) < limit THEN limit - Len(hookTasks) ELSE 0
    BY DEF Room
<1>. HIDE DEF limit
<1>4. n \in 0..Len(tasks) /\ n =< Room /\ Room \in Nat
    BY <1>1, AcceptedLength, RoomIsNatural
<1>. HIDE DEF n
<1>5. SubSeq(tasks, 1, n) \in Seq(HookTaskRecords) /\ Len(SubSeq(tasks, 1, n)) = n
    BY <1>4, SubQueue
<1>6. /\ hookTasks \o SubSeq(tasks, 1, n) \in Seq(HookTaskRecords)
      /\ Len(hookTasks \o SubSeq(tasks, 1, n)) = Len(hookTasks) + n
    BY <1>5 DEF QueueTypes
<1>7. hookTasks' = hookTasks \o SubSeq(tasks, 1, n)
    BY DEF Sent, Accepted, n
<1>8. Len(hookTasks) + n <= TaskCapacity
    BY <1>1, <1>2, <1>3, <1>4 DEF QueueTypes
<1>. QED  BY <1>6, <1>7, <1>8 DEF QueueTypes

LEMMA UnitTasksTypes ==
    ASSUME QueueTypes, audioIsRunning \in BOOLEAN, SendsUnitTasks
    PROVE  QueueTypes'
<1>1. PICK tasks : IsUnitQueue(tasks) /\ hookTasks' = Sent(tasks)
    BY DEF SendsUnitTasks
<1>2. UnitTaskRecords \subseteq HookTaskRecords
    BY DEF HookTaskRecords
<1>3. tasks \in Seq(HookTaskRecords)
    BY <1>1, <1>2 DEF IsUnitQueue
<1>. QED  BY <1>1, <1>3, SendTypes

LEMMA SingleTaskTypes ==
    ASSUME QueueTypes, audioIsRunning \in BOOLEAN, NEW task \in HookTaskRecords,
           SendTasks(<<task>>)
    PROVE  QueueTypes'
<1>1. <<task>> \in Seq(HookTaskRecords)
    OBVIOUS
<1>2. hookTasks' = Sent(<<task>>)
    BY DEF SendTasks
<1>. QED  BY <1>1, <1>2, SendTypes

LEMMA RequestTypes ==
    ASSUME QueueTypes, audioIsRunning \in BOOLEAN, ReplyTypes,
           NEW r \in Requesters, NEW d \in Devices, SendRequest(r, d, replies)
    PROVE  QueueTypes' /\ ReplyTypes'
<1>1. RequestTask(r, d) \in HookTaskRecords
    BY DEF RequestTask, Task, HookTaskRecords, Requests
<1>2. SendTasks(<<RequestTask(r, d)>>)
    BY DEF SendRequest
<1>3. QueueTypes'
    BY <1>1, <1>2, SingleTaskTypes
<1>4. ReplyTypes'
    BY DEF SendRequest, ReplyTypes, Replies
<1>. QED  BY <1>3, <1>4

------------------------------------------------------------------------------
(* Blocks of the audio hook                                                *)

LEMMA SendingTypes ==
    ASSUME AllocatorTypes, NEW c \in Commands
    PROVE  TrySend(<<c>>) \in Seq(Commands) /\ Len(TrySend(<<c>>)) <= DeallocatorCapacity
<1>1. /\ garbage \o <<c>> \in Seq(Commands) /\ Len(garbage \o <<c>>) = Len(garbage) + 1
      /\ Len(<<c>>) = 1
  <2>1. <<c>> \in Seq(Commands) /\ Len(<<c>>) = 1
      OBVIOUS
  <2>. QED  BY <2>1 DEF AllocatorTypes
<1>. QED  BY <1>1 DEF TrySend, AllocatorTypes

LEMMA BlockTypes ==
    ASSUME Types, NEW arriving, NEW timedOut, NEW touched,
           AudioBlock(arriving, timedOut, touched)
    PROVE  Types'
<1>. USE DEF Types
<1>1. /\ UNCHANGED <<audioIsRunning, portVars, panel, session, detectionVars, unitVars, phase, loading>>
      /\ ProcessNormalCommand /\ CheckForInquiryResponse(arriving, timedOut)
      /\ DeviceIsAsked(arriving) /\ arriving \subseteq answers
      /\ CaptureTouched(touched)
    BY DEF AudioBlock, OnPre
<1>2. PortTypes' /\ DetectionTypeOK' /\ UnitsTypeOK'
    BY <1>1 DEF PortTypes, DetectionTypeOK, UnitsTypeOK, UnitRecords, portVars, detectionVars, unitVars
<1>3. AppTypes'
  <2>1. budget' = budget \/ Spend("touches")
      BY DEF AudioBlock
  <2>2. budget' \in [Kinds -> Nat]
      BY <2>1 DEF AppTypes, Spend, Kinds
  <2>. QED  BY <1>1, <2>2 DEF AppTypes
<1>4. AllocatorTypes'
  <2>1. UNCHANGED allocatorVars \/ (garbage' = TrySend(<<"value">>) /\ UNCHANGED deallocating)
      BY DEF AudioBlock, DeallocInRealTime
  <2>2. TrySend(<<"value">>) \in Seq(Commands) /\ Len(TrySend(<<"value">>)) <= DeallocatorCapacity
      BY SendingTypes DEF Commands
  <2>. QED  BY <2>1, <2>2 DEF AllocatorTypes, allocatorVars
<1>5. CaptureTypeOK'
  <2>1. CASE captured' = captured
      BY <1>1, <2>1 DEF CaptureTypeOK
  <2>2. CASE captured' = [captured EXCEPT ![midiCapture] = IF @ < MaxCaptured THEN @ + 1 ELSE @]
    <3>1. \A n \in 0..MaxCaptured : (IF n < MaxCaptured THEN n + 1 ELSE n) \in 0..MaxCaptured
        BY CaptureAssumption
    <3>2. captured' \in [Sessions -> 0..MaxCaptured]
        BY <2>2, <3>1 DEF CaptureTypeOK
    <3>. QED  BY <1>1, <3>2 DEF CaptureTypeOK
  <2>. QED  BY <1>1, <2>1, <2>2 DEF CaptureTouched
<1>6. QueueTypes' /\ (hookTasks # <<>> => NextTask \in HookTaskRecords)
  <2>1. CASE hookTasks = <<>>
      BY <1>1, <2>1 DEF ProcessNormalCommand, QueueTypes
  <2>2. CASE hookTasks # <<>>
    <3>1. /\ Tail(hookTasks) \in Seq(HookTaskRecords) /\ Len(Tail(hookTasks)) = Len(hookTasks) - 1
          /\ Head(hookTasks) \in HookTaskRecords /\ Len(hookTasks) \in Nat
        BY <2>2 DEF QueueTypes
    <3>. QED  BY <1>1, <2>2, <3>1, HookAssumption DEF ProcessNormalCommand, QueueTypes, NextTask
  <2>. QED  BY <2>1, <2>2
<1>7. NextTask \in HookTaskRecords \/ NextTask = Task("Nothing", None)
    BY <1>6 DEF NextTask
<1>8. Request \in Requests \cup {None}
    BY <1>7 DEF Request, HookTaskRecords, UnitTaskRecords, Task
<1>9. /\ rtInstances' \in SUBSET Instances /\ rtProcessors' \in SUBSET UnitIds
      /\ midiCapture' \in Sessions \cup {None}
    BY <1>1, <1>7 DEF ProcessNormalCommand, AddOrRemove, HookTypes, HookTaskRecords,
                      UnitTaskRecords, Task
<1>10. answers' \in SUBSET Devices
    BY <1>1, <1>8 DEF DeviceIsAsked, HookTypes, InquiryIsSent, Requests
<1>11. InquiryAfterTask \in Requests \cup {None} /\ RepliesAfterTask \in [Requesters -> Replies]
    BY <1>8 DEF InquiryAfterTask, RepliesAfterTask, HookTypes, ReplyTypes, Replies
<1>12. inquiry' \in Requests \cup {None} /\ ReplyTypes'
  <2>1. arriving \subseteq Devices
      BY <1>1 DEF HookTypes
  <2>. QED  BY <1>1, <1>11, <2>1 DEF CheckForInquiryResponse, ReplyTypes, Replies, Requests
<1>13. HookTypes'
    BY <1>1, <1>9, <1>10, <1>12 DEF HookTypes
<1>. QED  BY <1>2, <1>3, <1>4, <1>5, <1>6, <1>12, <1>13

------------------------------------------------------------------------------
(* Steps of instances and units                                            *)

LEMMA WithoutUnits ==
    ASSUME NEW ids
    PROVE  /\ DOMAIN Without(ids) = DOMAIN units \ ids
           /\ \A u \in DOMAIN units \ ids : Without(ids)[u] = units[u]
BY DEF Without, Restrict

LEMMA NewManualUnit ==
    ASSUME NEW i \in DOMAIN instances, NEW isMain \in BOOLEAN, Len(controllers) \in Nat
    PROVE  Unit(i, isMain, 0, None, None) \in UnitRecords
<1>1. 0 \in 0..Len(controllers) /\ None \in Ports
    BY DEF Ports
<1>. QED  BY <1>1 DEF Unit, UnitRecords

\* What a unit may say about its instance and its controller only grows.
LEMMA UnitRecordsGrow ==
    ASSUME DOMAIN instances \subseteq DOMAIN instances',
           Len(controllers) \in Nat, Len(controllers') \in Nat,
           Len(controllers) =< Len(controllers')
    PROVE  UnitRecords \subseteq UnitRecords'
BY DEF UnitRecords

LEMMA ControllersGrow ==
    ASSUME UnitsTypeOK, UNCHANGED unitVars,
           Len(controllers) \in Nat, Len(controllers') \in Nat,
           Len(controllers) =< Len(controllers')
    PROVE  UnitsTypeOK'
BY UnitRecordsGrow DEF UnitsTypeOK, unitVars

LEMMA CreationTypes ==
    ASSUME UnitsTypeOK, UNCHANGED controllers, Len(controllers) \in Nat,
           NEW i \in Instances, CreateInstance(i)
    PROVE  UnitsTypeOK'
<1>1. PICK u \in FreshIds(1) : units' = With(units, u, Unit(i, TRUE, 0, None, None))
    BY DEF CreateInstance
<1>2. u \in UnitIds
    BY <1>1, FreshUnits DEF CreateInstance
<1>3. instances' = With(instances, i, FALSE)
    BY DEF CreateInstance
<1>4. /\ DOMAIN instances' = DOMAIN instances \cup {i}
      /\ \A j \in DOMAIN instances' : instances'[j] \in BOOLEAN
    BY <1>3 DEF With, UnitsTypeOK
<1>5. UnitRecords \subseteq UnitRecords'
    BY <1>4, UnitRecordsGrow
<1>6. Unit(i, TRUE, 0, None, None) \in UnitRecords'
    BY <1>4 DEF Unit, UnitRecords, Ports
<1>7. DOMAIN units' = DOMAIN units \cup {u} /\ \A v \in DOMAIN units' : units'[v] \in UnitRecords'
    BY <1>1, <1>5, <1>6 DEF With, UnitsTypeOK
<1>. QED  BY <1>2, <1>4, <1>7 DEF UnitsTypeOK

LEMMA DropTypes ==
    ASSUME UnitsTypeOK, UNCHANGED controllers, Len(controllers) \in Nat,
           NEW i \in Instances, DropInstance(i)
    PROVE  UnitsTypeOK'
<1>1. units' = Without(UnitsOf(i)) /\ instances' = Restrict(instances, DOMAIN instances \ {i})
    BY DEF DropInstance
<1>2. DOMAIN instances' = DOMAIN instances \ {i} /\ \A j \in DOMAIN instances' : instances'[j] \in BOOLEAN
    BY <1>1 DEF Restrict, UnitsTypeOK
<1>3. /\ DOMAIN units' = DOMAIN units \ UnitsOf(i)
      /\ \A u \in DOMAIN units' : units'[u] = units[u]
    BY <1>1, WithoutUnits
<1>4. \A u \in DOMAIN units' : units[u].instance # i
    BY <1>3 DEF UnitsOf, UnitsTypeOK
<1>5. \A u \in DOMAIN units' : units'[u] \in UnitRecords'
    BY <1>2, <1>3, <1>4 DEF UnitRecords, UnitsTypeOK
<1>. QED  BY <1>2, <1>3, <1>5 DEF UnitsTypeOK

LEMMA OperationTypes ==
    ASSUME UnitsTypeOK, UNCHANGED controllers, Len(controllers) \in Nat,
           \/ \E i \in Instances, on \in BOOLEAN, n \in 0..1 : ApplyData(i, on, n)
           \/ \E i \in Instances : AddUnit(i) \/ ToggleGlobalControl(i)
           \/ \E u \in UnitIds : RemoveUnit(u) \/ ReportActivity(u)
           \/ \E u \in UnitIds, direction \in {"input", "output"}, port \in Ports :
                 PickPort(u, direction, port)
    PROVE  UnitsTypeOK'
<1>1. ASSUME NEW i \in Instances, NEW on \in BOOLEAN, NEW n \in 0..1, ApplyData(i, on, n)
      PROVE  UnitsTypeOK'
  <2>. DEFINE ids == FreshIds(n)
              kept == DOMAIN units \ AdditionalUnitsOf(i)
  <2>1. /\ i \in DOMAIN instances /\ EnoughIds(n)
        /\ units' = [u \in kept \cup ids |->
                        IF u \in ids THEN Unit(i, FALSE, 0, None, None) ELSE units[u]]
        /\ instances' = [instances EXCEPT ![i] = on]
      BY <1>1 DEF ApplyData
  <2>2. ids \subseteq UnitIds
      BY <2>1, FreshUnits
  <2>. HIDE DEF ids
  <2>3. /\ DOMAIN instances' = DOMAIN instances
        /\ \A j \in DOMAIN instances' : instances'[j] \in BOOLEAN
      BY <2>1 DEF UnitsTypeOK
  <2>4. UnitRecords' = UnitRecords
      BY <2>3 DEF UnitRecords
  <2>5. Unit(i, FALSE, 0, None, None) \in UnitRecords
      BY <2>1, NewManualUnit
  <2>6. DOMAIN units' = kept \cup ids /\ \A u \in DOMAIN units' : units'[u] \in UnitRecords
      BY <2>1, <2>5 DEF UnitsTypeOK
  <2>. QED  BY <2>2, <2>3, <2>4, <2>6 DEF UnitsTypeOK
<1>2. ASSUME NEW i \in Instances, AddUnit(i)
      PROVE  UnitsTypeOK'
  <2>1. PICK u \in FreshIds(1) : units' = With(units, u, Unit(i, FALSE, 0, None, None))
      BY <1>2 DEF AddUnit
  <2>2. u \in UnitIds /\ i \in DOMAIN instances /\ UNCHANGED instances
      BY <1>2, <2>1, FreshUnits DEF AddUnit
  <2>3. UnitRecords' = UnitRecords
      BY <2>2 DEF UnitRecords
  <2>4. Unit(i, FALSE, 0, None, None) \in UnitRecords
      BY <2>2, NewManualUnit
  <2>5. DOMAIN units' = DOMAIN units \cup {u} /\ \A v \in DOMAIN units' : units'[v] \in UnitRecords
      BY <2>1, <2>4 DEF With, UnitsTypeOK
  <2>. QED  BY <2>2, <2>3, <2>5 DEF UnitsTypeOK
<1>3. ASSUME NEW i \in Instances, ToggleGlobalControl(i)
      PROVE  UnitsTypeOK'
  <2>1. /\ DOMAIN instances' = DOMAIN instances /\ UNCHANGED units
        /\ \A j \in DOMAIN instances' : instances'[j] \in BOOLEAN
      BY <1>3 DEF ToggleGlobalControl, UnitsTypeOK
  <2>. QED  BY <2>1 DEF UnitsTypeOK, UnitRecords
<1>4. ASSUME NEW u \in UnitIds, RemoveUnit(u)
      PROVE  UnitsTypeOK'
  <2>1. units' = Without({u}) /\ UNCHANGED instances
      BY <1>4 DEF RemoveUnit
  <2>2. DOMAIN units' = DOMAIN units \ {u} /\ \A v \in DOMAIN units' : units'[v] = units[v]
      BY <2>1, WithoutUnits
  <2>. QED  BY <2>1, <2>2 DEF UnitsTypeOK, UnitRecords
<1>5. ASSUME NEW u \in UnitIds, ReportActivity(u)
      PROVE  UnitsTypeOK'
  <2>1. /\ u \in DOMAIN units /\ UNCHANGED instances
        /\ units' = [units EXCEPT ![u] = [units[u] EXCEPT !.active = ~units[u].active]]
      BY <1>5 DEF ReportActivity
  <2>2. [units[u] EXCEPT !.active = ~units[u].active] \in UnitRecords
      BY <2>1 DEF UnitsTypeOK, UnitRecords
  <2>. QED  BY <2>1, <2>2 DEF UnitsTypeOK, UnitRecords
<1>6. ASSUME NEW u \in UnitIds, NEW direction \in {"input", "output"}, NEW port \in Ports,
             PickPort(u, direction, port)
      PROVE  UnitsTypeOK'
  <2>1. /\ u \in DOMAIN units /\ UNCHANGED instances
        /\ units' = [units EXCEPT ![u] = [units[u] EXCEPT ![direction] = port]]
      BY <1>6 DEF PickPort
  <2>2. [units[u] EXCEPT ![direction] = port] \in UnitRecords
      BY <2>1 DEF UnitsTypeOK, UnitRecords
  <2>. QED  BY <2>1, <2>2 DEF UnitsTypeOK, UnitRecords
<1>. QED  BY <1>1, <1>2, <1>3, <1>4, <1>5, <1>6

\* A finite set of numbers has a greatest one.
LEMMA MaxOfFiniteSet ==
    ASSUME NEW S \in SUBSET Nat, IsFiniteSet(S), S # {}
    PROVE  Max(S) \in S /\ \A x \in S : x =< Max(S)
<1>. DEFINE Bad == {T \in SUBSET S : T # {} /\ ~\E x \in T : \A y \in T : y =< x}
<1>1. SUFFICES Bad = {}
  <2>1. \E x \in S : \A y \in S : y =< x
      BY <1>1
  <2>. QED  BY <2>1 DEF Max
<1>2. SUFFICES ASSUME Bad # {} PROVE FALSE
    OBVIOUS
<1>3. IsWellFoundedOn(StrictSubsetOrdering(S), SUBSET S)
    BY FS_StrictSubsetOrderingWellFounded, FS_FiniteSubsetsOfFinite
<1>4. PICK T \in Bad : \A U \in Bad : ~(<<U, T>> \in StrictSubsetOrdering(S))
  <2>1. Bad \subseteq SUBSET S
      OBVIOUS
  <2>. HIDE DEF Bad
  <2>. QED  BY <1>2, <1>3, <2>1, WFMin
<1>5. PICK x \in T : TRUE
    OBVIOUS
<1>6. CASE T \ {x} = {}
    BY <1>5, <1>6
<1>7. CASE T \ {x} # {}
  <2>1. T \ {x} \notin Bad
      BY <1>4, <1>5 DEF StrictSubsetOrdering
  <2>2. PICK z \in T \ {x} : \A y \in T \ {x} : y =< z
      BY <1>7, <2>1
  <2>. QED  BY <1>5, <2>2
<1>. QED  BY <1>6, <1>7

------------------------------------------------------------------------------
(* The update of auto units                                                *)

ControllerTypes == controllers \in Seq(ControllerRecords \cup {None})

LEMMA FirstCarrier ==
    ASSUME UnitsTypeOK, Carriers # {}
    PROVE  FirstVisitedCarrier \in DOMAIN instances /\ instances[FirstVisitedCarrier] = TRUE
<1>1. Carriers \in SUBSET Nat /\ IsFiniteSet(Carriers)
  <2>1. Carriers \in SUBSET Instances
      BY DEF Carriers, UnitsTypeOK
  <2>. QED  BY <2>1, UnitAssumption, FS_Subset
<1>2. FirstVisitedCarrier \in Carriers
    BY <1>1, MaxOfFiniteSet DEF FirstVisitedCarrier
<1>. QED  BY <1>2 DEF Carriers, UnitsTypeOK

LEMMA DesiredControllers ==
    ASSUME ControllerTypes
    PROVE  /\ Len(controllers) \in Nat
           /\ DesiredAutoUnits \subseteq JudgedCandidates
           /\ JudgedCandidates \subseteq 1..Len(controllers)
           /\ \A k \in JudgedCandidates : controllers[k] \in ControllerRecords
           /\ IsFiniteSet(MissingAutoUnits) /\ Cardinality(MissingAutoUnits) \in Nat
<1>1. Len(controllers) \in Nat /\ DesiredAutoUnits \subseteq JudgedCandidates
      /\ JudgedCandidates \subseteq 1..Len(controllers)
    BY DEF ControllerTypes, DesiredAutoUnits, JudgedCandidates
<1>2. \A k \in JudgedCandidates : controllers[k] \in ControllerRecords
  <2>1. ASSUME NEW c, IsCandidate(c)
        PROVE  c # None
      BY <2>1, Zenon DEF IsCandidate
  <2>2. \A k \in JudgedCandidates : k \in 1..Len(controllers) /\ controllers[k] # None
      BY <2>1 DEF JudgedCandidates
  <2>. QED  BY <2>2 DEF ControllerTypes
<1>3. IsFiniteSet(1..Len(controllers)) /\ MissingAutoUnits \in SUBSET (1..Len(controllers))
  <2>1. MissingAutoUnits \subseteq DesiredAutoUnits
      BY DEF MissingAutoUnits
  <2>2. IsFiniteSet(1..Len(controllers))
      BY <1>1, FS_Interval
  <2>. QED  BY <1>1, <2>1, <2>2
<1>. QED  BY <1>1, <1>2, <1>3, FS_Subset, FS_CardinalityType

\* Which units there are after an update: new ones for what is missing, the
\* kept ones, and the manual ones as before.
UpdateResult(ids, f) ==
    /\ ids \subseteq UnitIds /\ ids \cap DOMAIN units = {}
    /\ f \in [ids -> MissingAutoUnits]
    /\ \A u, v \in ids : f[u] = f[v] => u = v
    /\ \A k \in MissingAutoUnits : \E u \in ids : f[u] = k
    /\ DOMAIN units' = ids \cup (DOMAIN units \ (AutoUnits \ KeptAutoUnits))
    /\ \A u \in ids : units'[u] = AutoUnitFor(FirstVisitedCarrier, f[u])
    /\ \A u \in KeptAutoUnits :
          units'[u] = [AutoUnitFor(FirstVisitedCarrier, units[u].controller)
                           EXCEPT !.active = units[u].active]
    /\ \A u \in DOMAIN units \ AutoUnits : units'[u] = units[u]

LEMMA UpdateStructure ==
    ASSUME ControllerTypes, UpdateAutoUnits
    PROVE  \E ids, f : UpdateResult(ids, f)
<1>. DEFINE ids == FreshIds(Cardinality(MissingAutoUnits))
            f == CHOOSE g \in Bijection(ids, MissingAutoUnits) : TRUE
<1>1. /\ IsFiniteSet(MissingAutoUnits) /\ Cardinality(MissingAutoUnits) \in Nat
      /\ EnoughIds(Cardinality(MissingAutoUnits))
    BY DesiredControllers DEF UpdateAutoUnits
<1>2. /\ ids \in SUBSET UnitIds /\ Cardinality(ids) = Cardinality(MissingAutoUnits)
      /\ ids \cap DOMAIN units = {}
    BY <1>1, FreshUnits
<1>3. units' = [u \in ids \cup (DOMAIN units \ (AutoUnits \ KeptAutoUnits)) |->
                   CASE u \in ids           -> AutoUnitFor(FirstVisitedCarrier, f[u])
                     [] u \in KeptAutoUnits ->
                           [AutoUnitFor(FirstVisitedCarrier, units[u].controller)
                                EXCEPT !.active = units[u].active]
                     [] OTHER               -> units[u]]
    BY DEF UpdateAutoUnits, AppliedAutoUnits
<1>. HIDE DEF ids
<1>4. f \in Bijection(ids, MissingAutoUnits)
  <2>1. IsFiniteSet(ids)
      BY <1>2, UnitAssumption, FS_Subset
  <2>2. ExistsBijection(ids, MissingAutoUnits)
      BY <1>1, <1>2, <2>1, FS_SameCardinalityBij
  <2>. QED  BY <2>2 DEF ExistsBijection
<1>. HIDE DEF f
<1>5. /\ f \in [ids -> MissingAutoUnits]
      /\ \A u, v \in ids : f[u] = f[v] => u = v
      /\ \A k \in MissingAutoUnits : \E u \in ids : f[u] = k
  <2>1. f \in [ids -> MissingAutoUnits] /\ IsInjective(f)
      BY <1>4 DEF Bijection, Injection
  <2>2. \A k \in MissingAutoUnits : \E u \in ids : f[u] = k
      BY <1>4 DEF Bijection, Surjection
  <2>. QED  BY <2>1, <2>2 DEF IsInjective
<1>6. KeptAutoUnits \subseteq AutoUnits /\ AutoUnits \subseteq DOMAIN units
    BY DEF KeptAutoUnits, AutoUnits
<1>7. \A u \in KeptAutoUnits : u \notin ids /\ u \in DOMAIN units \ (AutoUnits \ KeptAutoUnits)
    BY <1>2, <1>6
<1>8. \A u \in DOMAIN units \ AutoUnits :
         /\ u \notin ids /\ u \notin KeptAutoUnits
         /\ u \in DOMAIN units \ (AutoUnits \ KeptAutoUnits)
    BY <1>2, <1>6
<1>. QED  BY <1>2, <1>3, <1>5, <1>7, <1>8 DEF UpdateResult

LEMMA UpdateTypes ==
    ASSUME UnitsTypeOK, ControllerTypes, UpdateAutoUnits, UNCHANGED controllers
    PROVE  UnitsTypeOK'
<1>1. PICK ids, f : UpdateResult(ids, f)
    BY UpdateStructure
<1>2. UNCHANGED instances
    BY DEF UpdateAutoUnits
<1>3. UnitRecords' = UnitRecords
    BY <1>2 DEF UnitRecords
<1>4. ASSUME NEW k \in DesiredAutoUnits
      PROVE  AutoUnitFor(FirstVisitedCarrier, k) \in UnitRecords
  <2>1. Carriers # {} /\ k \in 1..Len(controllers) /\ controllers[k] \in ControllerRecords
      BY DesiredControllers DEF DesiredAutoUnits
  <2>2. FirstVisitedCarrier \in DOMAIN instances
      BY <2>1, FirstCarrier
  <2>3. controllers[k].input \in Ports /\ controllers[k].output \in Ports
      BY <2>1 DEF ControllerRecords, Controller
  <2>. QED  BY <2>1, <2>2, <2>3, DesiredControllers DEF AutoUnitFor, Unit, UnitRecords
<1>5. \A u \in ids : units'[u] \in UnitRecords
  <2>1. MissingAutoUnits \subseteq DesiredAutoUnits
      BY DEF MissingAutoUnits
  <2>. QED  BY <1>1, <1>4, <2>1 DEF UpdateResult
<1>6. \A u \in KeptAutoUnits : units'[u] \in UnitRecords
  <2>. SUFFICES ASSUME NEW u \in KeptAutoUnits PROVE units'[u] \in UnitRecords
      OBVIOUS
  <2>1. units[u].controller \in DesiredAutoUnits /\ units[u] \in UnitRecords
      BY DEF KeptAutoUnits, AutoUnits, UnitsTypeOK
  <2>. DEFINE base == AutoUnitFor(FirstVisitedCarrier, units[u].controller)
  <2>2. base \in UnitRecords
      BY <1>4, <2>1
  <2>3. units'[u] = [base EXCEPT !.active = units[u].active]
      BY <1>1 DEF UpdateResult
  <2>. HIDE DEF base
  <2>. QED  BY <2>1, <2>2, <2>3 DEF UnitRecords
<1>7. \A u \in DOMAIN units \ AutoUnits : units'[u] \in UnitRecords
    BY <1>1 DEF UpdateResult, UnitsTypeOK
<1>8. DOMAIN units' \subseteq UnitIds /\ \A u \in DOMAIN units' : units'[u] \in UnitRecords
  <2>1. \A u \in DOMAIN units' : u \in ids \/ u \in KeptAutoUnits \/ u \in DOMAIN units \ AutoUnits
      BY <1>1 DEF UpdateResult
  <2>2. DOMAIN units' \subseteq UnitIds
      BY <1>1 DEF UpdateResult, UnitsTypeOK
  <2>. QED  BY <1>5, <1>6, <1>7, <2>1, <2>2
<1>9. DOMAIN instances' \subseteq Instances /\ \A i \in DOMAIN instances' : instances'[i] \in BOOLEAN
    BY <1>2 DEF UnitsTypeOK
<1>10. \A u \in DOMAIN units' : units'[u] \in UnitRecords'
    BY <1>3, <1>8
<1>. QED  BY <1>8, <1>9, <1>10 DEF UnitsTypeOK

------------------------------------------------------------------------------
(* Steps of controller detection                                           *)

LEMMA NoDetectionState == NoDetection \in DetectionStates
BY DEF NoDetection, DetectionStates, Ports

LEMMA ControllerRecord ==
    ASSUME NEW on \in BOOLEAN, NEW in \in Ports, NEW out \in Ports, NEW withPreset \in BOOLEAN
    PROVE  Controller(on, in, out, withPreset) \in ControllerRecords
BY DEF ControllerRecords

LEMMA ChangedController ==
    ASSUME NEW c \in ControllerRecords
    PROVE  /\ [c EXCEPT !.enabled = ~c.enabled] \in ControllerRecords
           /\ \A in \in Ports : [c EXCEPT !.input = in] \in ControllerRecords
<1>1. PICK on \in BOOLEAN, in \in Ports, out \in Ports, withPreset \in BOOLEAN :
        c = Controller(on, in, out, withPreset)
    BY DEF ControllerRecords
<1>2. /\ [c EXCEPT !.enabled = ~c.enabled] = Controller(~on, in, out, withPreset)
      /\ (~on) \in BOOLEAN
    BY <1>1 DEF Controller
<1>3. \A new \in Ports : [c EXCEPT !.input = new] = Controller(on, new, out, withPreset)
    BY <1>1 DEF Controller
<1>4. Controller(~on, in, out, withPreset) \in ControllerRecords
    BY <1>2, ControllerRecord
<1>5. \A new \in Ports : Controller(on, new, out, withPreset) \in ControllerRecords
    BY <1>1, ControllerRecord
<1>6. [c EXCEPT !.enabled = ~c.enabled] \in ControllerRecords
    BY <1>2, <1>4
<1>. QED  BY <1>3, <1>5, <1>6

\* A detection goes on to the next device, or ends.
LEMMA ProbeTypes ==
    ASSUME QueueTypes, ReplyTypes, audioIsRunning \in BOOLEAN,
           detection \in [Detectors -> DetectionStates],
           NEW x \in Detectors, NEW rest \in SUBSET Devices, NEW list,
           NEW ins \in SUBSET Devices, NEW outs \in SUBSET Devices,
           ProbeNext(x, rest, list, ins, outs)
    PROVE  /\ QueueTypes' /\ ReplyTypes'
           /\ detecting' \in BOOLEAN /\ detection' \in [Detectors -> DetectionStates]
           /\ enabledInputs' \in SUBSET Devices /\ enabledOutputs' \in SUBSET Devices
<1>. DEFINE unused == {d \in rest : ~PortIsUsed(list, "output", d)}
<1>1. CASE unused = {}
  <2>1. /\ detecting' = FALSE /\ detection' = [detection EXCEPT ![x] = NoDetection]
        /\ enabledInputs' = ins /\ enabledOutputs' = outs /\ UNCHANGED <<hookTasks, replies>>
      BY <1>1 DEF ProbeNext
  <2>2. QueueTypes' /\ ReplyTypes'
      BY <2>1 DEF QueueTypes, ReplyTypes
  <2>3. [detection EXCEPT ![x] = NoDetection] \in [Detectors -> DetectionStates]
      BY NoDetectionState
  <2>. QED  BY <2>1, <2>2, <2>3
<1>2. CASE unused # {}
  <2>1. PICK d \in unused, skipped \in SUBSET (rest \ unused) :
           /\ detecting' = TRUE
           /\ detection' = [detection EXCEPT ![x] =
                  [stage |-> "asking", current |-> d, todo |-> rest \ (skipped \cup {d}),
                   oldIns |-> ins, oldOuts |-> outs]]
           /\ enabledInputs' = Devices /\ enabledOutputs' = outs \cup {d}
           /\ SendRequest(x, d, replies)
      BY <1>2 DEF ProbeNext
  <2>2. d \in Devices
      BY <2>1
  <2>3. [stage |-> "asking", current |-> d, todo |-> rest \ (skipped \cup {d}),
         oldIns |-> ins, oldOuts |-> outs] \in DetectionStates
      BY <2>2 DEF DetectionStates, Ports
  <2>4. QueueTypes' /\ ReplyTypes'
      BY <2>1, <2>2, RequestTypes, DetectionAssumption
  <2>. QED  BY <2>1, <2>2, <2>3, <2>4
<1>. QED  BY <1>1, <1>2

LEMMA StartDetectionTypes ==
    ASSUME Types, NEW x \in Detectors, StartDetection(x)
    PROVE  QueueTypes' /\ ReplyTypes' /\ PortTypes' /\ DetectionTypeOK'
<1>. USE DEF Types
<1>1. UNCHANGED <<connected, saved, controllers, updatePending>>
    BY DEF StartDetection
<1>2. /\ QueueTypes' /\ ReplyTypes'
      /\ detecting' \in BOOLEAN /\ detection' \in [Detectors -> DetectionStates]
      /\ enabledInputs' \in SUBSET Devices /\ enabledOutputs' \in SUBSET Devices
  <2>1. CASE DetectionIsRunning
    <3>1. /\ detection' = [detection EXCEPT ![x] = NoDetection]
          /\ UNCHANGED <<detecting, enabledInputs, enabledOutputs, hookTasks, replies>>
        BY <2>1 DEF StartDetection
    <3>. QED  BY <3>1, NoDetectionState DEF QueueTypes, ReplyTypes, PortTypes, DetectionTypeOK
  <2>2. CASE ~DetectionIsRunning
    <3>1. ProbeNext(x, detection[x].todo, controllers, enabledInputs, enabledOutputs)
        BY <2>2 DEF StartDetection
    <3>2. detection[x].todo \in SUBSET Devices
        BY DEF DetectionTypeOK, DetectionStates
    <3>. QED  BY <3>1, <3>2, ProbeTypes DEF HookTypes, PortTypes, DetectionTypeOK
  <2>. QED  BY <2>1, <2>2
<1>. QED  BY <1>1, <1>2 DEF PortTypes, DetectionTypeOK

LEMMA AppendedTypes ==
    ASSUME ControllerTypes, NEW c \in ControllerRecords, controllers' = Append(controllers, c)
    PROVE  ControllerTypes' /\ Len(controllers') = Len(controllers) + 1 /\ Len(controllers) \in Nat
BY DEF ControllerTypes

LEMMA ReplacedTypes ==
    ASSUME ControllerTypes, NEW k \in 1..Len(controllers), NEW c \in ControllerRecords \cup {None},
           controllers' = [controllers EXCEPT ![k] = c]
    PROVE  ControllerTypes' /\ Len(controllers') = Len(controllers) /\ Len(controllers) \in Nat
BY DEF ControllerTypes

LEMMA ContinueDetectionTypes ==
    ASSUME Types, NEW x \in Detectors, ContinueDetection(x)
    PROVE  /\ QueueTypes' /\ ReplyTypes' /\ PortTypes' /\ DetectionTypeOK'
           /\ Len(controllers) \in Nat /\ Len(controllers') \in Nat
           /\ Len(controllers) =< Len(controllers')
<1>. DEFINE current == detection[x]
            reply == replies[x]
            new == Controller(TRUE, reply, current.current, TRUE)
<1>. USE DEF Types
<1>1. UNCHANGED <<connected, saved>> /\ current.stage = "asking" /\ reply # "waiting"
    BY DEF ContinueDetection
<1>2. ControllerTypes /\ Len(controllers) \in Nat /\ saved \in 0..Len(controllers)
    BY DEF DetectionTypeOK, ControllerTypes
<1>3. /\ current.todo \in SUBSET Devices /\ current.oldIns \in SUBSET Devices
      /\ current.oldOuts \in SUBSET Devices /\ current.current \in Ports
    BY DEF DetectionTypeOK, DetectionStates
<1>4. detection \in [Detectors -> DetectionStates] /\ updatePending \in BOOLEAN
      /\ audioIsRunning \in BOOLEAN /\ connected \in SUBSET Devices
    BY DEF DetectionTypeOK, HookTypes, PortTypes
<1>5. CASE RecognizedDevice(current.current, reply)
  <2>1. /\ controllers' = Append(controllers, new) /\ updatePending' = TRUE
        /\ ProbeNext(x, current.todo, controllers', current.oldIns \cup {reply},
                     current.oldOuts \cup {current.current})
      BY <1>5 DEF ContinueDetection
  <2>2. reply \in Devices /\ current.current \in Devices
      BY <1>1, <1>4, <1>5, DetectionAssumption DEF RecognizedDevice, ReplyTypes, Replies
  <2>3. new \in ControllerRecords
      BY <1>3, <2>2, ControllerRecord DEF Ports
  <2>. HIDE DEF new, current, reply
  <2>4. ControllerTypes' /\ Len(controllers') = Len(controllers) + 1
      BY <1>2, <2>1, <2>3, AppendedTypes
  <2>5. current.oldIns \cup {reply} \in SUBSET Devices
        /\ current.oldOuts \cup {current.current} \in SUBSET Devices
      BY <1>3, <2>2
  <2>6. /\ QueueTypes' /\ ReplyTypes'
        /\ detecting' \in BOOLEAN /\ detection' \in [Detectors -> DetectionStates]
        /\ enabledInputs' \in SUBSET Devices /\ enabledOutputs' \in SUBSET Devices
      BY <1>3, <1>4, <2>1, <2>5, ProbeTypes
  <2>7. saved' \in 0..Len(controllers') /\ connected' \in SUBSET Devices
      BY <1>1, <1>2, <1>4, <2>4
  <2>. QED  BY <1>2, <2>1, <2>4, <2>6, <2>7 DEF PortTypes, DetectionTypeOK, ControllerTypes
<1>6. CASE ~RecognizedDevice(current.current, reply)
  <2>1. /\ UNCHANGED <<controllers, updatePending>>
        /\ ProbeNext(x, current.todo, controllers, current.oldIns, current.oldOuts)
      BY <1>6 DEF ContinueDetection
  <2>. HIDE DEF current, reply
  <2>2. /\ QueueTypes' /\ ReplyTypes'
        /\ detecting' \in BOOLEAN /\ detection' \in [Detectors -> DetectionStates]
        /\ enabledInputs' \in SUBSET Devices /\ enabledOutputs' \in SUBSET Devices
      BY <1>3, <1>4, <2>1, ProbeTypes
  <2>. QED  BY <1>1, <1>2, <1>4, <2>1, <2>2 DEF PortTypes, DetectionTypeOK, ControllerTypes
<1>. QED  BY <1>5, <1>6

LEMMA UpdateIdentityTypes ==
    ASSUME Types, UpdateDeviceIdentity
    PROVE  DetectionTypeOK' /\ Len(controllers') = Len(controllers) /\ Len(controllers) \in Nat
<1>. USE DEF Types
<1>1. /\ saved # 0 /\ replies[Saver] # "waiting" /\ saved' = 0
      /\ UNCHANGED <<detecting, detection>>
    BY DEF UpdateDeviceIdentity
<1>2. ControllerTypes /\ Len(controllers) \in Nat /\ saved \in 1..Len(controllers)
      /\ updatePending \in BOOLEAN
    BY <1>1 DEF DetectionTypeOK, ControllerTypes
<1>3. CASE UNCHANGED controllers
  <2>1. updatePending' \in BOOLEAN
      BY <1>2 DEF UpdateDeviceIdentity
  <2>. QED  BY <1>1, <1>2, <1>3, <2>1 DEF DetectionTypeOK
<1>4. CASE controllers[saved] # None /\ replies[Saver] # "failed"
  <2>1. controllers' = [controllers EXCEPT ![saved] =
                           [controllers[saved] EXCEPT !.input = replies[Saver]]]
        /\ updatePending' = TRUE
      BY <1>4 DEF UpdateDeviceIdentity
  <2>2. controllers[saved] \in ControllerRecords
      BY <1>2, <1>4 DEF ControllerTypes
  <2>3. replies[Saver] \in Ports
      BY <1>1, <1>4, DetectionAssumption DEF ReplyTypes, Replies, Ports
  <2>4. PICK c : c = [controllers[saved] EXCEPT !.input = replies[Saver]]
      OBVIOUS
  <2>5. c \in ControllerRecords
      BY <2>2, <2>3, <2>4, ChangedController
  <2>6. ControllerTypes' /\ Len(controllers') = Len(controllers)
      BY <1>2, <2>1, <2>4, <2>5, ReplacedTypes
  <2>. QED  BY <1>1, <1>2, <2>1, <2>6 DEF DetectionTypeOK, ControllerTypes
<1>. QED  BY <1>3, <1>4 DEF UpdateDeviceIdentity

------------------------------------------------------------------------------
(* All steps                                                               *)

LEMMA SpendTypes ==
    ASSUME AppTypes, NEW kind \in Kinds, Spend(kind)
    PROVE  budget' \in [Kinds -> Nat]
BY DEF AppTypes, Spend

LEMMA ControllerLength ==
    ASSUME DetectionTypeOK
    PROVE  ControllerTypes /\ Len(controllers) \in Nat
BY DEF DetectionTypeOK, ControllerTypes

LEMMA LoadTypes ==
    ASSUME Types, NEW i \in Instances, LoadPlugin(i)
    PROVE  Types'
<1>. USE DEF Types
<1>1. /\ loading' = loading \cup {i} /\ Spend("plugins")
      /\ UNCHANGED <<hookVars, panel, captured, unitVars>>
    BY DEF LoadPlugin
<1>2. budget' \in [Kinds -> Nat]
    BY <1>1, SpendTypes DEF Kinds
<1>3. QueueTypes' /\ PortTypes' /\ HookTypes' /\ ReplyTypes'
    BY <1>1 DEF QueueTypes, PortTypes, HookTypes, ReplyTypes, hookVars, portVars, hookStateVars
<1>4. CASE phase = "asleep"
  <2>1. WakeUp
      BY <1>4 DEF LoadPlugin
  <2>2. CaptureTypeOK'
    <3>1. session' = [s \in Sessions |->
                         IF session[s] \in {"find", "learn"} /\ (captured[s] > 0 \/ ~SenderIsAlive(s))
                         THEN "off" ELSE session[s]]
        BY <2>1 DEF WakeUp, DropReadySessions
    <3>2. session' \in [Sessions -> {"off", "find", "learn", "target"}]
        BY <3>1 DEF CaptureTypeOK
    <3>. QED  BY <1>1, <3>2 DEF CaptureTypeOK
  <2>3. DetectionTypeOK'
    <3>1. /\ detection' = [x \in Detectors |-> IF IsReady(x) THEN NoDetection ELSE detection[x]]
          /\ saved' \in {0, saved} /\ UNCHANGED <<detecting, controllers>> /\ updatePending' = FALSE
        BY <2>1 DEF WakeUp, DropReadyDetections
    <3>2. detection' \in [Detectors -> DetectionStates]
        BY <3>1, NoDetectionState DEF DetectionTypeOK
    <3>3. /\ saved \in 0..Len(controllers) /\ Len(controllers) \in Nat /\ detecting \in BOOLEAN
          /\ controllers \in Seq(ControllerRecords \cup {None})
        BY ControllerLength DEF DetectionTypeOK
    <3>4. saved' \in 0..Len(controllers') /\ controllers' \in Seq(ControllerRecords \cup {None})
        BY <3>1, <3>3
    <3>. QED  BY <3>1, <3>2, <3>3, <3>4 DEF DetectionTypeOK
  <2>4. AllocatorTypes' /\ phase' = "awake"
      BY <2>1 DEF WakeUp, StartAsyncDeallocation, AllocatorTypes
  <2>5. UnitsTypeOK'
      BY <1>1, <2>1, ControllersGrow, ControllerLength DEF WakeUp
  <2>6. AppTypes'
      BY <1>1, <1>2, <2>4 DEF AppTypes
  <2>. QED  BY <1>3, <2>2, <2>3, <2>4, <2>5, <2>6
<1>5. CASE phase # "asleep"
  <2>1. UNCHANGED <<phase, allocatorVars, detectionVars, session>>
      BY <1>5 DEF LoadPlugin
  <2>2. CaptureTypeOK' /\ DetectionTypeOK' /\ AllocatorTypes'
      BY <1>1, <2>1 DEF CaptureTypeOK, DetectionTypeOK, AllocatorTypes, detectionVars, allocatorVars
  <2>3. UnitsTypeOK'
      BY <1>1, <2>1, ControllersGrow, ControllerLength DEF detectionVars
  <2>4. AppTypes'
      BY <1>1, <1>2, <2>1 DEF AppTypes
  <2>. QED  BY <1>3, <2>2, <2>3, <2>4
<1>. QED  BY <1>4, <1>5

\* What a step of instances and units leaves alone.
BesidesUnits ==
    UNCHANGED <<audioIsRunning, portVars, answers, hookStateVars, replies, captureVars, detecting,
                detection, saved, controllers, allocatorVars>>

LEMMA BesidesUnitsTypes ==
    ASSUME Types, BesidesUnits, updatePending' \in BOOLEAN
    PROVE  /\ PortTypes' /\ HookTypes' /\ ReplyTypes' /\ CaptureTypeOK' /\ DetectionTypeOK'
           /\ AllocatorTypes'
           /\ UNCHANGED controllers /\ Len(controllers) \in Nat
<1>. USE DEF Types, BesidesUnits
<1>1. PortTypes' /\ HookTypes' /\ ReplyTypes' /\ CaptureTypeOK'
    BY DEF PortTypes, HookTypes, ReplyTypes, CaptureTypeOK, portVars, hookStateVars, captureVars
<1>2. DetectionTypeOK' /\ AllocatorTypes' /\ UNCHANGED controllers
    BY DEF DetectionTypeOK, AllocatorTypes, allocatorVars
<1>. QED  BY <1>1, <1>2, ControllerLength

LEMMA InstanceTypes ==
    ASSUME Types, NEW i \in Instances, InitInstanceShell(i) \/ UnloadPlugin(i)
    PROVE  Types'
<1>. USE DEF Types
<1>1. ASSUME InitInstanceShell(i)
      PROVE  Types'
  <2>1. /\ loading' = loading \ {i} /\ CreateInstance(i) /\ BesidesUnits
        /\ UNCHANGED <<phase, budget>>
      BY <1>1 DEF InitInstanceShell, BesidesUnits
  <2>2. updatePending' \in BOOLEAN
      BY <2>1 DEF CreateInstance, RegistersManual
  <2>3. UnitsTypeOK' /\ AppTypes'
      BY <2>1, <2>2, BesidesUnitsTypes, CreationTypes DEF AppTypes
  <2>4. QueueTypes'
      BY <2>1, UnitSteps, UnitTasksTypes DEF HookTypes
  <2>. QED  BY <2>1, <2>2, <2>3, <2>4, BesidesUnitsTypes
<1>2. ASSUME UnloadPlugin(i)
      PROVE  Types'
  <2>1. /\ loading' = loading \ {i} /\ Spend("plugins") /\ BesidesUnits
        /\ phase' \in {"draining", "awake"}
        /\ IF i \in DOMAIN instances THEN DropInstance(i)
           ELSE UNCHANGED <<instances, units, hookTasks, updatePending>>
      BY <1>2 DEF UnloadPlugin, BesidesUnits
  <2>2. AppTypes'
      BY <2>1, SpendTypes DEF AppTypes, Kinds
  <2>3. CASE i \in DOMAIN instances
    <3>1. updatePending' \in BOOLEAN
        BY <2>1, <2>3 DEF DropInstance, RegistersManual
    <3>2. UnitsTypeOK'
        BY <2>1, <2>3, <3>1, BesidesUnitsTypes, DropTypes
    <3>3. QueueTypes'
        BY <2>1, <2>3, UnitSteps, UnitTasksTypes DEF HookTypes
    <3>. QED  BY <2>1, <2>2, <3>1, <3>2, <3>3, BesidesUnitsTypes
  <2>4. CASE i \notin DOMAIN instances
    <3>1. UNCHANGED <<instances, units, hookTasks, updatePending>>
        BY <2>1, <2>4
    <3>2. UnitsTypeOK' /\ QueueTypes' /\ updatePending' \in BOOLEAN
        BY <2>1, <3>1, BesidesUnitsTypes, ControllersGrow DEF QueueTypes, unitVars, DetectionTypeOK
    <3>. QED  BY <2>1, <2>2, <3>2, BesidesUnitsTypes
  <2>. QED  BY <2>3, <2>4
<1>. QED  BY <1>1, <1>2

LEMMA UnitStepTypes ==
    ASSUME Types, OperateUnits \/ UpdateUnits
    PROVE  Types'
<1>. USE DEF Types
<1>1. ASSUME OperateUnits
      PROVE  Types'
  <2>1. /\ Spend("units") /\ BesidesUnits /\ UNCHANGED <<phase, loading>>
      BY <1>1 DEF OperateUnits, BesidesUnits
  <2>2. \/ \E i \in Instances, on \in BOOLEAN, n \in 0..1 : ApplyData(i, on, n)
        \/ \E i \in Instances : AddUnit(i) \/ ToggleGlobalControl(i)
        \/ \E u \in UnitIds : RemoveUnit(u) \/ ReportActivity(u)
        \/ \E u \in UnitIds, direction \in {"input", "output"}, port \in Ports :
              PickPort(u, direction, port)
      BY <1>1 DEF OperateUnits
  <2>3. updatePending' = TRUE
      BY <2>2 DEF ApplyData, AddUnit, ToggleGlobalControl, RemoveUnit, ReportActivity, PickPort,
                  RegistersManual
  <2>4. AppTypes'
      BY <2>1, SpendTypes DEF AppTypes, Kinds
  <2>5. /\ PortTypes' /\ HookTypes' /\ ReplyTypes' /\ CaptureTypeOK' /\ DetectionTypeOK'
        /\ AllocatorTypes'
        /\ UNCHANGED controllers /\ Len(controllers) \in Nat
      BY <2>1, <2>3, BesidesUnitsTypes
  <2>6. UnitsTypeOK'
      BY <2>2, <2>5, OperationTypes
  <2>7. UNCHANGED hookTasks \/ SendsUnitTasks
    <3>1. CASE \/ \E i \in Instances, on \in BOOLEAN, n \in 0..1 : ApplyData(i, on, n)
               \/ \E i \in Instances : AddUnit(i)
               \/ \E u \in UnitIds : RemoveUnit(u)
        BY <3>1, UnitSteps
    <3>2. CASE \/ \E i \in Instances : ToggleGlobalControl(i)
               \/ \E u \in UnitIds : ReportActivity(u)
               \/ \E u \in UnitIds, direction \in {"input", "output"}, port \in Ports :
                     PickPort(u, direction, port)
        BY <3>2 DEF ToggleGlobalControl, ReportActivity, PickPort
    <3>. QED  BY <2>2, <3>1, <3>2
  <2>8. QueueTypes'
      BY <2>7, UnitTasksTypes DEF HookTypes, QueueTypes
  <2>. QED  BY <2>4, <2>5, <2>6, <2>8
<1>2. ASSUME UpdateUnits
      PROVE  Types'
  <2>1. UpdateAutoUnits /\ BesidesUnits /\ UNCHANGED appVars
      BY <1>2 DEF UpdateUnits, BesidesUnits
  <2>2. updatePending' = FALSE
      BY <2>1 DEF UpdateAutoUnits
  <2>3. /\ PortTypes' /\ HookTypes' /\ ReplyTypes' /\ CaptureTypeOK' /\ DetectionTypeOK'
        /\ AllocatorTypes'
        /\ UNCHANGED controllers
      BY <2>1, <2>2, BesidesUnitsTypes
  <2>4. UnitsTypeOK'
      BY <2>1, <2>3, UpdateTypes, ControllerLength
  <2>5. QueueTypes'
      BY <2>1, UnitSteps, UnitTasksTypes DEF HookTypes
  <2>6. AppTypes'
      BY <2>1 DEF AppTypes, appVars
  <2>. QED  BY <2>3, <2>4, <2>5, <2>6
<1>. QED  BY <1>1, <1>2

\* What a step of the controllers and of learning leaves alone.
LEMMA ElsewhereTypes ==
    ASSUME Types, UNCHANGED <<unitVars, allocatorVars, phase, loading>>,
           AppTypes', QueueTypes', DetectionTypeOK', Len(controllers) =< Len(controllers')
    PROVE  UnitsTypeOK' /\ AllocatorTypes'
<1>. USE DEF Types
<1>1. Len(controllers) \in Nat /\ Len(controllers') \in Nat
    BY DEF DetectionTypeOK
<1>. QED  BY <1>1, ControllersGrow DEF AllocatorTypes, allocatorVars

LEMMA OperateControllersTypes ==
    ASSUME Types, OperateControllers
    PROVE  Types'
<1>. USE DEF Types
<1>1. /\ Spend("controllers")
      /\ UNCHANGED <<audioIsRunning, answers, hookStateVars, captureVars, unitVars, allocatorVars,
                     phase, loading>>
    BY DEF OperateControllers
<1>2. AppTypes'
    BY <1>1, SpendTypes DEF AppTypes, Kinds
<1>3. HookTypes' /\ CaptureTypeOK'
    BY <1>1 DEF HookTypes, CaptureTypeOK, hookStateVars, captureVars
<1>4. ControllerTypes /\ Len(controllers) \in Nat /\ audioIsRunning \in BOOLEAN
    BY ControllerLength DEF HookTypes
<1>5. SUFFICES /\ PortTypes' /\ QueueTypes' /\ ReplyTypes' /\ DetectionTypeOK'
               /\ Len(controllers) =< Len(controllers')
    BY <1>1, <1>2, <1>3, ElsewhereTypes
<1>6. ASSUME NEW k \in 1..(Len(controllers) + 1), NEW d \in Devices, SaveController(k, d)
      PROVE  /\ PortTypes' /\ QueueTypes' /\ ReplyTypes' /\ DetectionTypeOK'
             /\ Len(controllers) =< Len(controllers')
  <2>1. /\ saved' = k /\ updatePending' = TRUE /\ SendRequest(Saver, d, replies)
        /\ UNCHANGED <<detecting, detection, portVars>>
        /\ controllers' = IF k \in 1..Len(controllers)
                          THEN [controllers EXCEPT ![k] = Controller(TRUE, None, d, TRUE)]
                          ELSE Append(controllers, Controller(TRUE, None, d, TRUE))
      BY <1>6 DEF SaveController
  <2>2. PICK c : c = Controller(TRUE, None, d, TRUE)
      OBVIOUS
  <2>3. c \in ControllerRecords
      BY <2>2, ControllerRecord DEF Ports
  <2>4. QueueTypes' /\ ReplyTypes'
      BY <1>4, <2>1, RequestTypes, DetectionAssumption
  <2>5. PortTypes'
      BY <2>1 DEF PortTypes, portVars
  <2>6. CASE k \in 1..Len(controllers)
    <3>1. ControllerTypes' /\ Len(controllers') = Len(controllers)
        BY <1>4, <2>1, <2>2, <2>3, <2>6, ReplacedTypes
    <3>2. DetectionTypeOK'
      <4>1. saved' \in 0..Len(controllers')
          BY <1>4, <2>1, <2>6, <3>1
      <4>. QED  BY <2>1, <3>1, <4>1 DEF DetectionTypeOK, ControllerTypes
    <3>. QED  BY <1>4, <2>4, <2>5, <3>1, <3>2
  <2>7. CASE k \notin 1..Len(controllers)
    <3>1. ControllerTypes' /\ Len(controllers') = Len(controllers) + 1
        BY <1>4, <2>1, <2>2, <2>3, <2>7, AppendedTypes
    <3>2. DetectionTypeOK'
      <4>1. saved' \in 0..Len(controllers')
          BY <1>4, <2>1, <3>1
      <4>. QED  BY <2>1, <3>1, <4>1 DEF DetectionTypeOK, ControllerTypes
    <3>. QED  BY <1>4, <2>4, <2>5, <3>1, <3>2
  <2>. QED  BY <2>6, <2>7
<1>7. ASSUME NEW k \in 1..Len(controllers), ToggleController(k) \/ DeleteController(k)
      PROVE  /\ PortTypes' /\ QueueTypes' /\ ReplyTypes' /\ DetectionTypeOK'
             /\ Len(controllers) =< Len(controllers')
  <2>1. /\ controllers[k] # None /\ updatePending' = TRUE
        /\ UNCHANGED <<detecting, detection, saved, portVars, hookTasks, replies>>
      BY <1>7 DEF ToggleController, DeleteController
  <2>2. controllers[k] \in ControllerRecords
      BY <1>4, <2>1 DEF ControllerTypes
  <2>3. [controllers[k] EXCEPT !.enabled = ~controllers[k].enabled] \in ControllerRecords
      BY <2>2, ChangedController
  <2>4. \E c \in ControllerRecords \cup {None} : controllers' = [controllers EXCEPT ![k] = c]
    <3>1. CASE ToggleController(k)
      <4>1. controllers' = [controllers EXCEPT ![k] =
                               [controllers[k] EXCEPT !.enabled = ~controllers[k].enabled]]
          BY <3>1 DEF ToggleController
      <4>. QED  BY <2>3, <4>1
    <3>2. CASE DeleteController(k)
        BY <3>2 DEF DeleteController
    <3>. QED  BY <1>7, <3>1, <3>2
  <2>5. ControllerTypes' /\ Len(controllers') = Len(controllers)
      BY <1>4, <2>4, ReplacedTypes
  <2>6. DetectionTypeOK'
      BY <1>4, <2>1, <2>5 DEF DetectionTypeOK, ControllerTypes
  <2>7. PortTypes' /\ QueueTypes' /\ ReplyTypes'
      BY <2>1 DEF PortTypes, QueueTypes, ReplyTypes, portVars
  <2>. QED  BY <1>4, <2>5, <2>6, <2>7
<1>8. \/ \E d \in Devices : SaveController(Len(controllers) + 1, d)
      \/ \E k \in 1..Len(controllers) :
            \/ \E d \in Devices : SaveController(k, d)
            \/ ToggleController(k)
            \/ DeleteController(k)
    BY DEF OperateControllers
<1>9. 1..Len(controllers) \subseteq 1..(Len(controllers) + 1)
      /\ Len(controllers) + 1 \in 1..(Len(controllers) + 1)
    BY <1>4
<1>. QED  BY <1>6, <1>7, <1>8, <1>9

LEMMA ContinueTasksTypes ==
    ASSUME Types, ContinueTasks
    PROVE  Types'
<1>. USE DEF Types
<1>1. UNCHANGED <<audioIsRunning, answers, hookStateVars, captureVars, unitVars, allocatorVars, appVars>>
    BY DEF ContinueTasks
<1>2. AppTypes' /\ HookTypes' /\ CaptureTypeOK'
    BY <1>1 DEF AppTypes, appVars, HookTypes, CaptureTypeOK, hookStateVars, captureVars
<1>3. SUFFICES /\ PortTypes' /\ QueueTypes' /\ ReplyTypes' /\ DetectionTypeOK'
               /\ Len(controllers) =< Len(controllers')
    BY <1>1, <1>2, ElsewhereTypes DEF appVars
<1>4. ASSUME NEW x \in Detectors, StartDetection(x)
      PROVE  /\ PortTypes' /\ QueueTypes' /\ ReplyTypes' /\ DetectionTypeOK'
             /\ Len(controllers) =< Len(controllers')
  <2>1. Len(controllers') = Len(controllers) /\ Len(controllers) \in Nat
      BY <1>4, ControllerLength DEF StartDetection
  <2>. QED  BY <1>4, <2>1, StartDetectionTypes
<1>5. ASSUME NEW x \in Detectors, ContinueDetection(x)
      PROVE  /\ PortTypes' /\ QueueTypes' /\ ReplyTypes' /\ DetectionTypeOK'
             /\ Len(controllers) =< Len(controllers')
    BY <1>5, ContinueDetectionTypes
<1>6. ASSUME UpdateDeviceIdentity
      PROVE  /\ PortTypes' /\ QueueTypes' /\ ReplyTypes' /\ DetectionTypeOK'
             /\ Len(controllers) =< Len(controllers')
  <2>1. UNCHANGED <<portVars, hookTasks, replies>>
      BY <1>6 DEF UpdateDeviceIdentity
  <2>2. DetectionTypeOK' /\ Len(controllers') = Len(controllers) /\ Len(controllers) \in Nat
      BY <1>6, UpdateIdentityTypes
  <2>. QED  BY <2>1, <2>2 DEF PortTypes, QueueTypes, ReplyTypes, portVars
<1>. QED  BY <1>4, <1>5, <1>6 DEF ContinueTasks

\* Devices come and go, and detections are started.
LEMMA DetectionStepTypes ==
    ASSUME Types,
           \/ \E x \in Detectors : DetectControllers(x) \/ \E d \in Devices : Plug(x, d)
           \/ \E d \in Devices : Unplug(d)
    PROVE  Types'
<1>. USE DEF Types
<1>1. ASSUME NEW x \in Detectors, NEW devices \in SUBSET Devices, SpawnDetection(x, devices)
      PROVE  detection' \in [Detectors -> DetectionStates]
  <2>1. detection' = [detection EXCEPT ![x] =
                         [NoDetection EXCEPT !.stage = "spawned", !.todo = devices]]
      BY <1>1 DEF SpawnDetection
  <2>2. [NoDetection EXCEPT !.stage = "spawned", !.todo = devices] \in DetectionStates
      BY DEF NoDetection, DetectionStates, Ports
  <2>. QED  BY <2>1, <2>2 DEF DetectionTypeOK
<1>2. ASSUME NEW x \in Detectors, DetectControllers(x)
      PROVE  Types'
  <2>1. /\ Spend("detections") /\ SpawnDetection(x, connected)
        /\ UNCHANGED <<hookVars, captureVars, detecting, saved, controllers, updatePending, unitVars,
                       allocatorVars, phase, loading>>
      BY <1>2 DEF DetectControllers
  <2>2. AppTypes'
      BY <2>1, SpendTypes DEF AppTypes, Kinds
  <2>3. detection' \in [Detectors -> DetectionStates]
      BY <1>1, <2>1 DEF PortTypes
  <2>4. DetectionTypeOK'
      BY <2>1, <2>3 DEF DetectionTypeOK
  <2>5. HookTypes' /\ CaptureTypeOK' /\ PortTypes' /\ QueueTypes' /\ ReplyTypes'
      BY <2>1 DEF HookTypes, CaptureTypeOK, PortTypes, QueueTypes, ReplyTypes, hookVars, portVars,
                  hookStateVars, captureVars
  <2>6. UnitsTypeOK' /\ AllocatorTypes'
      BY <2>1, <2>2, <2>4, <2>5, ControllerLength, ElsewhereTypes
  <2>. QED  BY <2>2, <2>4, <2>5, <2>6
<1>3. ASSUME NEW x \in Detectors, NEW d \in Devices, Plug(x, d)
      PROVE  Types'
  <2>1. /\ Spend("devices") /\ SpawnDetection(x, {d}) /\ updatePending' = TRUE
        /\ connected' = connected \cup {d}
        /\ UNCHANGED <<audioIsRunning, enabledInputs, enabledOutputs, answers, hookTasks,
                       hookStateVars, replies, captureVars, detecting, saved, controllers, unitVars,
                       allocatorVars, phase, loading>>
      BY <1>3 DEF Plug
  <2>2. AppTypes'
      BY <2>1, SpendTypes DEF AppTypes, Kinds
  <2>3. detection' \in [Detectors -> DetectionStates]
      BY <1>1, <2>1
  <2>4. DetectionTypeOK'
      BY <2>1, <2>3 DEF DetectionTypeOK
  <2>5. HookTypes' /\ CaptureTypeOK' /\ PortTypes' /\ QueueTypes' /\ ReplyTypes'
      BY <2>1 DEF HookTypes, CaptureTypeOK, PortTypes, QueueTypes, ReplyTypes, hookStateVars,
                  captureVars
  <2>6. UnitsTypeOK' /\ AllocatorTypes'
      BY <2>1, <2>2, <2>4, <2>5, ControllerLength, ElsewhereTypes
  <2>. QED  BY <2>2, <2>4, <2>5, <2>6
<1>4. ASSUME NEW d \in Devices, Unplug(d)
      PROVE  Types'
  <2>1. /\ Spend("devices") /\ updatePending' = TRUE
        /\ connected' = connected \ {d} /\ answers' = answers \ {d}
        /\ UNCHANGED <<audioIsRunning, enabledInputs, enabledOutputs, hookTasks, hookStateVars,
                       replies, captureVars, detecting, detection, saved, controllers, unitVars,
                       allocatorVars, phase, loading>>
      BY <1>4 DEF Unplug
  <2>2. AppTypes'
      BY <2>1, SpendTypes DEF AppTypes, Kinds
  <2>3. DetectionTypeOK'
      BY <2>1 DEF DetectionTypeOK
  <2>4. HookTypes' /\ CaptureTypeOK' /\ PortTypes' /\ QueueTypes' /\ ReplyTypes'
      BY <2>1 DEF HookTypes, CaptureTypeOK, PortTypes, QueueTypes, ReplyTypes, hookStateVars,
                  captureVars
  <2>5. UnitsTypeOK' /\ AllocatorTypes'
      BY <2>1, <2>2, <2>3, <2>4, ControllerLength, ElsewhereTypes
  <2>. QED  BY <2>2, <2>3, <2>4, <2>5
<1>. QED  BY <1>2, <1>3, <1>4

LEMMA TakeTypes ==
    ASSUME CaptureTypeOK, NEW s \in Sessions, NEW stage, Take(s, stage)
    PROVE  captured' \in [Sessions -> 0..MaxCaptured]
<1>1. captured[s] - 1 \in 0..MaxCaptured
    BY CaptureAssumption DEF CaptureTypeOK, Take
<1>. QED  BY <1>1 DEF CaptureTypeOK, Take

LEMMA ReplaceTypes ==
    ASSUME CaptureTypeOK, QueueTypes, audioIsRunning \in BOOLEAN,
           NEW new \in {"nothing", "source", "target"},
           NEW sessions \in [Sessions -> {"off", "find", "learn", "target"}],
           ReplacePanel(new, sessions),
           captured' \in [Sessions -> 0..MaxCaptured]
    PROVE  CaptureTypeOK' /\ QueueTypes'
<1>1. /\ panel' = new /\ SendTasks(OnClose(new))
      /\ session' = [s \in Sessions |->
                        IF panel = "target" /\ session[s] = "target" THEN "off" ELSE sessions[s]]
    BY DEF ReplacePanel
<1>2. session' \in [Sessions -> {"off", "find", "learn", "target"}]
    BY <1>1
<1>3. OnClose(new) \in Seq(HookTaskRecords)
  <2>1. Task("StopCapturingMidi", None) \in HookTaskRecords
      BY DEF HookTaskRecords, Task
  <2>2. <<Task("StopCapturingMidi", None)>> \in Seq(HookTaskRecords) /\ <<>> \in Seq(HookTaskRecords)
      BY <2>1
  <2>. QED  BY <2>2 DEF OnClose
<1>4. QueueTypes'
    BY <1>1, <1>3, SendTypes DEF SendTasks
<1>. QED  BY <1>1, <1>2, <1>4 DEF CaptureTypeOK

LEMMA LearningTypes ==
    ASSUME Types, StartLearning \/ ContinueLearning
    PROVE  Types'
<1>. USE DEF Types
<1>1. /\ UNCHANGED <<audioIsRunning, portVars, answers, hookStateVars, replies, detectionVars,
                     unitVars, allocatorVars, phase, loading>>
      /\ Spend("learning") \/ UNCHANGED budget
    BY DEF StartLearning, ContinueLearning, appVars
<1>2. AppTypes'
    BY <1>1, SpendTypes DEF AppTypes, Kinds
<1>3. DetectionTypeOK' /\ PortTypes' /\ HookTypes' /\ ReplyTypes'
    BY <1>1 DEF DetectionTypeOK, PortTypes, HookTypes, ReplyTypes, detectionVars, portVars,
                hookStateVars
<1>4. AllocatorTypes' /\ UnitsTypeOK'
    BY <1>1, ControllersGrow, ControllerLength DEF AllocatorTypes, allocatorVars, detectionVars
<1>. SUFFICES CaptureTypeOK' /\ QueueTypes'
    BY <1>2, <1>3, <1>4
<1>5. /\ audioIsRunning \in BOOLEAN /\ captured \in [Sessions -> 0..MaxCaptured]
      /\ session \in [Sessions -> {"off", "find", "learn", "target"}]
    BY DEF HookTypes, CaptureTypeOK
<1>6. CASE CloseMessagePanel
    BY <1>5, <1>6, ReplaceTypes DEF CloseMessagePanel
<1>7. ASSUME NEW s \in Sessions, NEW kind \in {"find", "learn"}, StartSession(s, kind)
      PROVE  CaptureTypeOK' /\ QueueTypes'
  <2>1. /\ panel' = "source" /\ session' = [session EXCEPT ![s] = kind]
        /\ captured' = [captured EXCEPT ![s] = 0]
        /\ SendTasks(<<Task("StartCapturingMidi", s)>>)
      BY <1>7 DEF StartSession
  <2>2. CaptureTypeOK'
      BY <1>5, <2>1, CaptureAssumption DEF CaptureTypeOK
  <2>3. Task("StartCapturingMidi", s) \in HookTaskRecords
      BY DEF Task, HookTaskRecords
  <2>. QED  BY <1>5, <2>1, <2>2, <2>3, SingleTaskTypes
<1>8. ASSUME NEW s \in Sessions, ContinueSession(s)
      PROVE  CaptureTypeOK' /\ QueueTypes'
  <2>. DEFINE off == [session EXCEPT ![s] = "off"]
              asking == [session EXCEPT ![s] = "target"]
  <2>1. /\ off \in [Sessions -> {"off", "find", "learn", "target"}]
        /\ asking \in [Sessions -> {"off", "find", "learn", "target"}]
      BY <1>5
  <2>2. CASE IgnoreCaptured(s)
      BY <1>5, <2>2, TakeTypes DEF IgnoreCaptured, CaptureTypeOK, QueueTypes
  <2>3. CASE FindMapping(s)
      BY <1>5, <2>3, TakeTypes, ReplaceTypes DEF FindMapping
  <2>4. CASE MissUnit(s) \/ AskForTarget(s)
      BY <1>5, <2>1, <2>4, TakeTypes, ReplaceTypes DEF MissUnit, AskForTarget
  <2>5. CASE LearnTarget(s)
      BY <1>5, <2>1, <2>5, ReplaceTypes DEF LearnTarget
  <2>6. CASE EndCapture(s)
      BY <1>5, <2>1, <2>6 DEF EndCapture, CaptureTypeOK, QueueTypes
  <2>. QED  BY <1>8, <2>2, <2>3, <2>4, <2>5, <2>6 DEF ContinueSession
<1>. QED  BY <1>6, <1>7, <1>8 DEF StartLearning, ContinueLearning

LEMMA NextTypes == Types /\ [Next]_vars => Types'
<1>. SUFFICES ASSUME Types, [Next]_vars
              PROVE  Types'
    OBVIOUS
<1>1. CASE \E arriving \in SUBSET Devices, timedOut, touched \in BOOLEAN :
              AudioBlock(arriving, timedOut, touched)
    BY <1>1, BlockTypes
<1>2. CASE StopOrStartAudio
  <2>1. /\ audioIsRunning' = ~audioIsRunning /\ Spend("audio") /\ UNCHANGED <<phase, loading>>
        /\ UNCHANGED <<portVars, answers, hookTasks, hookStateVars, replies>>
        /\ UNCHANGED <<captureVars, detectionVars, unitVars, allocatorVars>>
      BY <1>2 DEF StopOrStartAudio, SwitchAudio
  <2>2. AppTypes'
      BY <2>1, SpendTypes DEF AppTypes, Kinds, Types
  <2>3. QueueTypes' /\ PortTypes' /\ HookTypes' /\ ReplyTypes'
      BY <2>1 DEF Types, QueueTypes, PortTypes, HookTypes, ReplyTypes, portVars, hookStateVars
  <2>4. CaptureTypeOK' /\ DetectionTypeOK' /\ AllocatorTypes'
      BY <2>1 DEF Types, CaptureTypeOK, DetectionTypeOK, AllocatorTypes, captureVars, detectionVars,
                  allocatorVars
  <2>5. UnitsTypeOK'
      BY <2>1, ControllersGrow, ControllerLength DEF Types, detectionVars
  <2>. QED  BY <2>2, <2>3, <2>4, <2>5 DEF Types
<1>3. CASE FreeGarbage \/ RemoveAudioHook \/ FallAsleep \/ UNCHANGED vars
  <2>1. /\ UNCHANGED <<hookVars, captureVars, detectionVars, unitVars, loading, budget>>
        /\ phase' \in {phase, "joining", "asleep"}
      BY <1>3 DEF FreeGarbage, RemoveAudioHook, FallAsleep, vars, appVars
  <2>2. QueueTypes' /\ PortTypes' /\ HookTypes' /\ ReplyTypes' /\ AppTypes'
      BY <2>1 DEF Types, QueueTypes, PortTypes, HookTypes, ReplyTypes, AppTypes, hookVars, portVars,
                  hookStateVars
  <2>3. CaptureTypeOK' /\ DetectionTypeOK'
      BY <2>1 DEF Types, CaptureTypeOK, DetectionTypeOK, captureVars, detectionVars
  <2>4. UnitsTypeOK'
      BY <2>1, ControllersGrow, ControllerLength DEF Types, detectionVars
  <2>5. AllocatorTypes'
    <3>1. CASE FreeGarbage
      <4>1. /\ garbage # <<>> /\ garbage' = Tail(garbage) /\ deallocating' = (Head(garbage) # Stop)
            /\ garbage \in Seq(Commands) /\ Len(garbage) <= DeallocatorCapacity
          BY <3>1 DEF FreeGarbage, Deallocate, AllocatorTypes, Types
      <4>2. /\ Tail(garbage) \in Seq(Commands) /\ Len(Tail(garbage)) = Len(garbage) - 1
            /\ Len(garbage) \in Nat
          BY <4>1, TailElements
      <4>3. Len(garbage') <= DeallocatorCapacity
          BY <4>1, <4>2, AllocatorAssumption
      <4>4. (Head(garbage) # Stop) \in BOOLEAN
          OBVIOUS
      <4>5. deallocating' \in BOOLEAN
          BY <4>1, <4>4, Zenon
      <4>. QED  BY <4>1, <4>2, <4>3, <4>5 DEF AllocatorTypes
    <3>2. CASE RemoveAudioHook
        BY <3>2, SendingTypes DEF RemoveAudioHook, StopAsyncDeallocation, AllocatorTypes, Types,
                                  Commands
    <3>3. CASE FallAsleep \/ UNCHANGED vars
        BY <3>3 DEF FallAsleep, vars, allocatorVars, AllocatorTypes, Types
    <3>. QED  BY <1>3, <3>1, <3>2, <3>3
  <2>. QED  BY <2>2, <2>3, <2>4, <2>5 DEF Types
<1>4. CASE \E i \in Instances : LoadPlugin(i) \/ InitInstanceShell(i) \/ UnloadPlugin(i)
    BY <1>4, LoadTypes, InstanceTypes
<1>5. CASE OperateUnits \/ UpdateUnits
    BY <1>5, UnitStepTypes
<1>6. CASE OperateControllers
    BY <1>6, OperateControllersTypes
<1>7. CASE \/ \E x \in Detectors : DetectControllers(x) \/ \E d \in Devices : Plug(x, d)
           \/ \E d \in Devices : Unplug(d)
    BY <1>7, DetectionStepTypes
<1>8. CASE ContinueTasks
    BY <1>8, ContinueTasksTypes
<1>9. CASE StartLearning \/ ContinueLearning
    BY <1>9, LearningTypes
<1>. QED  BY <1>1, <1>2, <1>3, <1>4, <1>5, <1>6, <1>7, <1>8, <1>9 DEF Next

(* The state keeps its types, whatever is loaded, changed and detected; in *)
(* particular, both channels stay within their capacities, each unit       *)
(* belongs to a registered instance, and each auto unit and the task that  *)
(* waits for a saved controller refer to an existing entry of the          *)
(* controller list.                                                        *)
THEOREM BackboneTypes == Spec => []TypeOK
<1>1. Types => TypeOK
  <2>. SUFFICES ASSUME Types
                PROVE  TypeOK
      OBVIOUS
  <2>1. DOMAIN replies = Requesters
      BY DEF Types, ReplyTypes
  <2>. QED  BY <2>1 DEF Types, TypeOK, QueueTypes, PortTypes, HookTypes, Requests, AllocatorTypes,
                        AppTypes
<1>. QED  BY <1>1, InitTypes, NextTypes, PTL DEF Spec

------------------------------------------------------------------------------
(* Accuracy of auto units                                                  *)

\* No two units are auto units of the same controller.
UnitsOfDifferentControllers ==
    \A u, v \in DOMAIN units :
        units[u].controller # 0 /\ units[u].controller = units[v].controller => u = v

\* The units and instances are all gone when the backbone goes to sleep.
SleepsWithoutUnits == phase # "awake" => DOMAIN units = {} /\ DOMAIN instances = {} /\ loading = {}

Fits(u) ==
    LET k == units[u].controller
    IN  /\ k \in DesiredAutoUnits
        /\ units[u].instance = FirstVisitedCarrier
        /\ units[u].input = controllers[k].input /\ units[u].output = controllers[k].output

Accurate ==
    /\ \A k \in DesiredAutoUnits : \E u \in DOMAIN units : units[u].controller = k
    /\ \A u \in DOMAIN units : units[u].controller # 0 => Fits(u)

AccuracyInv ==
    /\ Types
    /\ UnitsOfDifferentControllers
    /\ SleepsWithoutUnits
    /\ phase = "awake" /\ ~updatePending => Accurate

LEMMA InitAccuracyInv == Init => AccuracyInv
<1>. SUFFICES ASSUME Init
              PROVE  AccuracyInv
    OBVIOUS
<1>1. PICK scenario \in Scenarios :
        /\ instances = [i \in scenario.instances |-> i \in scenario.controlled]
        /\ units = [i \in scenario.instances |-> Unit(i, TRUE, 0, None, None)]
        /\ updatePending = TRUE
        /\ phase = IF scenario.instances = {} THEN "asleep" ELSE "awake"
        /\ loading = {}
    BY DEF Init, InitDetection
<1>2. UnitsOfDifferentControllers /\ SleepsWithoutUnits
    BY <1>1 DEF UnitsOfDifferentControllers, SleepsWithoutUnits, Unit
<1>. QED  BY <1>1, <1>2, InitTypes DEF AccuracyInv

\* Manual units come, go and change; an update of auto units is scheduled.
ManualUnits ==
    /\ phase = "awake" /\ updatePending' = TRUE
    /\ \A u \in DOMAIN units' :
          \/ units'[u].controller = 0
          \/ u \in DOMAIN units /\ units'[u].controller = units[u].controller

\* The backbone goes to sleep when the last plug-in is unloaded.
LastPluginStep ==
    phase' # "awake" => DOMAIN units' = {} /\ DOMAIN instances' = {} /\ loading' = {}

\* Nothing changes that auto units depend on, or it's noticed.
OtherStep ==
    /\ UNCHANGED unitVars
    /\ \/ UNCHANGED <<controllers, connected, updatePending>>
       \/ phase = "awake" /\ updatePending' = TRUE
    /\ phase' = "awake" => phase = "awake"
    /\ LastPluginStep \/ (phase # "awake" /\ UNCHANGED loading)

LEMMA ManualSteps ==
    ASSUME Types, phase = "awake",
           \/ \E i \in Instances, on \in BOOLEAN, n \in 0..1 : ApplyData(i, on, n)
           \/ \E i \in Instances : AddUnit(i) \/ ToggleGlobalControl(i)
           \/ \E u \in UnitIds : RemoveUnit(u) \/ ReportActivity(u)
           \/ \E u \in UnitIds, direction \in {"input", "output"}, port \in Ports :
                 PickPort(u, direction, port)
           \/ \E i \in Instances : CreateInstance(i) \/ DropInstance(i)
    PROVE  ManualUnits
<1>1. ASSUME NEW i \in Instances, NEW on, NEW n \in 0..1, ApplyData(i, on, n)
      PROVE  ManualUnits
  <2>. DEFINE ids == FreshIds(n)
              kept == DOMAIN units \ AdditionalUnitsOf(i)
  <2>1. /\ units' = [u \in kept \cup ids |->
                        IF u \in ids THEN Unit(i, FALSE, 0, None, None) ELSE units[u]]
        /\ updatePending' = TRUE
      BY <1>1 DEF ApplyData
  <2>. HIDE DEF ids
  <2>. QED  BY <2>1 DEF ManualUnits, Unit
<1>2. ASSUME NEW i \in Instances, AddUnit(i) \/ CreateInstance(i)
      PROVE  ManualUnits
  <2>1. \/ \E u : units' = With(units, u, Unit(i, FALSE, 0, None, None))
        \/ \E u : units' = With(units, u, Unit(i, TRUE, 0, None, None))
      BY <1>2 DEF AddUnit, CreateInstance
  <2>2. updatePending' = TRUE
      BY <1>2 DEF AddUnit, CreateInstance, RegistersManual
  <2>3. ASSUME NEW u, NEW isMain, units' = With(units, u, Unit(i, isMain, 0, None, None))
        PROVE  ManualUnits
    <3>1. Unit(i, isMain, 0, None, None).controller = 0
        BY DEF Unit
    <3>. QED  BY <2>2, <2>3, <3>1 DEF ManualUnits, With
  <2>. QED  BY <2>1, <2>3
<1>3. ASSUME NEW i \in Instances, ToggleGlobalControl(i)
      PROVE  ManualUnits
    BY <1>3 DEF ToggleGlobalControl, ManualUnits
<1>4. ASSUME NEW ids, units' = Without(ids), updatePending' = TRUE
      PROVE  ManualUnits
    BY <1>4, WithoutUnits DEF ManualUnits
<1>5. ASSUME NEW u \in UnitIds, RemoveUnit(u)
      PROVE  ManualUnits
    BY <1>4, <1>5 DEF RemoveUnit, RegistersManual
<1>6. ASSUME NEW i \in Instances, DropInstance(i)
      PROVE  ManualUnits
    BY <1>4, <1>6 DEF DropInstance, RegistersManual
<1>7. ASSUME NEW u \in UnitIds, ReportActivity(u)
      PROVE  ManualUnits
  <2>1. /\ units' = [units EXCEPT ![u] = [units[u] EXCEPT !.active = ~units[u].active]]
        /\ u \in DOMAIN units /\ updatePending' = TRUE
      BY <1>7 DEF ReportActivity
  <2>2. units[u] \in UnitRecords
      BY <2>1 DEF Types, UnitsTypeOK
  <2>3. units'[u].controller = units[u].controller
      BY <2>1, <2>2 DEF UnitRecords
  <2>. QED  BY <2>1, <2>3 DEF ManualUnits
<1>8. ASSUME NEW u \in UnitIds, NEW direction \in {"input", "output"}, NEW port \in Ports,
             PickPort(u, direction, port)
      PROVE  ManualUnits
  <2>1. /\ units' = [units EXCEPT ![u] = [units[u] EXCEPT ![direction] = port]]
        /\ u \in DOMAIN units /\ updatePending' = TRUE
      BY <1>8 DEF PickPort
  <2>2. units[u] \in UnitRecords
      BY <2>1 DEF Types, UnitsTypeOK
  <2>3. units'[u].controller = units[u].controller
      BY <2>1, <2>2 DEF UnitRecords
  <2>. QED  BY <2>1, <2>3 DEF ManualUnits
<1>. QED  BY <1>1, <1>2, <1>3, <1>5, <1>6, <1>7, <1>8

\* All that is left is what the last instance has had.
LEMMA LastInstance ==
    ASSUME Types, NEW i \in Instances, UnloadPlugin(i)
    PROVE  LastPluginStep
<1>. SUFFICES ASSUME phase' # "awake"
              PROVE  DOMAIN units' = {} /\ DOMAIN instances' = {} /\ loading' = {}
    BY DEF LastPluginStep
<1>1. loading \cup DOMAIN instances = {i} /\ loading' = loading \ {i}
    BY DEF UnloadPlugin
<1>2. CASE i \in DOMAIN instances
  <2>1. units' = Without(UnitsOf(i)) /\ instances' = Restrict(instances, DOMAIN instances \ {i})
      BY <1>2 DEF UnloadPlugin, DropInstance
  <2>2. ASSUME NEW u \in DOMAIN units
        PROVE  u \in UnitsOf(i)
    <3>1. u \in UnitIds /\ units[u].instance \in DOMAIN instances
        BY DEF Types, UnitsTypeOK, UnitRecords
    <3>. QED  BY <1>1, <3>1 DEF UnitsOf
  <2>3. DOMAIN units' = {}
      BY <2>1, <2>2, WithoutUnits
  <2>. QED  BY <1>1, <2>1, <2>3 DEF Restrict
<1>3. CASE i \notin DOMAIN instances
  <2>1. UNCHANGED <<instances, units>> /\ DOMAIN instances = {}
      BY <1>1, <1>3 DEF UnloadPlugin
  <2>2. DOMAIN units = {}
      BY <2>1 DEF Types, UnitsTypeOK, UnitRecords
  <2>. QED  BY <1>1, <2>1, <2>2
<1>. QED  BY <1>2, <1>3

LEMMA KeptRecord ==
    ASSUME NEW i, NEW k, NEW a
    PROVE  LET unit == [AutoUnitFor(i, k) EXCEPT !.active = a]
           IN  /\ unit.controller = k /\ unit.instance = i
               /\ unit.input = controllers[k].input /\ unit.output = controllers[k].output
BY DEF AutoUnitFor, Unit

\* An update makes auto units accurate: it doesn't touch manual units, so the
\* same auto units are desired afterwards.
LEMMA UpdateIsAccurate ==
    ASSUME Types, UnitsOfDifferentControllers, UpdateAutoUnits, UNCHANGED <<controllers, connected>>
    PROVE  UnitsOfDifferentControllers' /\ Accurate'
<1>1. PICK ids, f : UpdateResult(ids, f)
    BY UpdateStructure, ControllerLength DEF Types
<1>2. UNCHANGED instances
    BY DEF UpdateAutoUnits
<1>3. Carriers' = Carriers /\ FirstVisitedCarrier' = FirstVisitedCarrier
    BY <1>2 DEF Carriers, FirstVisitedCarrier
<1>4. /\ DesiredAutoUnits \subseteq JudgedCandidates /\ JudgedCandidates \subseteq 1..Len(controllers)
      /\ Len(controllers) \in Nat
    BY DesiredControllers, ControllerLength DEF Types
<1>5. /\ MissingAutoUnits \subseteq DesiredAutoUnits /\ KeptAutoUnits \subseteq AutoUnits
      /\ \A u \in KeptAutoUnits : /\ units[u].controller \in DesiredAutoUnits
                                  /\ units[u].controller \notin MissingAutoUnits
      /\ \A k \in DesiredAutoUnits \ MissingAutoUnits :
            \E u \in KeptAutoUnits : units[u].controller = k
      /\ \A u \in AutoUnits : u \in DOMAIN units /\ units[u].controller # 0
      /\ \A u \in DOMAIN units \ AutoUnits : units[u].controller = 0
    BY DEF MissingAutoUnits, KeptAutoUnits, AutoUnits
<1>6. DOMAIN units' = ids \cup KeptAutoUnits \cup (DOMAIN units \ AutoUnits)
    BY <1>1, <1>5 DEF UpdateResult
<1>7. ASSUME NEW u \in ids
      PROVE  /\ f[u] \in MissingAutoUnits
             /\ units'[u].controller = f[u] /\ units'[u].instance = FirstVisitedCarrier
             /\ units'[u].input = controllers[f[u]].input
             /\ units'[u].output = controllers[f[u]].output
    BY <1>1 DEF UpdateResult, AutoUnitFor, Unit
<1>8. ASSUME NEW u \in KeptAutoUnits
      PROVE  /\ units'[u].controller = units[u].controller
             /\ units'[u].instance = FirstVisitedCarrier
             /\ units'[u].input = controllers[units[u].controller].input
             /\ units'[u].output = controllers[units[u].controller].output
  <2>1. PICK unit : unit = [AutoUnitFor(FirstVisitedCarrier, units[u].controller)
                                EXCEPT !.active = units[u].active]
      OBVIOUS
  <2>2. units'[u] = unit
      BY <1>1, <2>1 DEF UpdateResult
  <2>. QED  BY <2>1, <2>2, KeptRecord
<1>9. \A u \in DOMAIN units \ AutoUnits : units'[u] = units[u] /\ units'[u].controller = 0
    BY <1>1, <1>5 DEF UpdateResult
<1>10. \A u \in ids \cup KeptAutoUnits : units'[u].controller \in DesiredAutoUnits
    BY <1>5, <1>7, <1>8
<1>11. \A k \in DesiredAutoUnits : k # 0
    BY <1>4
<1>12. DesiredAutoUnits' = DesiredAutoUnits
  <2>1. ASSUME NEW c
        PROVE  IsCandidate(c)' <=> IsCandidate(c)
      BY DEF IsCandidate, IsConnected
  <2>2. ASSUME NEW c
        PROVE  (\A u \in DOMAIN units' : ~GivesVeto(units'[u], c)) <=>
               (\A u \in DOMAIN units : ~GivesVeto(units[u], c))
    <3>1. \A u \in ids \cup KeptAutoUnits : ~GivesVeto(units'[u], c)
        BY <1>10, <1>11 DEF GivesVeto
    <3>2. \A u \in AutoUnits : ~GivesVeto(units[u], c)
        BY <1>5 DEF GivesVeto
    <3>. QED  BY <1>5, <1>6, <1>9, <3>1, <3>2
  <2>3. JudgedCandidates' = JudgedCandidates
    <3>1. JudgedCandidates' =
             {k \in 1..Len(controllers) :
                 /\ IsCandidate(controllers[k])'
                 /\ \A u \in DOMAIN units' : ~GivesVeto(units'[u], controllers[k])}
        BY DEF JudgedCandidates, IsCandidate, IsConnected, GivesVeto
    <3>2. \A k \in 1..Len(controllers) :
             /\ IsCandidate(controllers[k])' <=> IsCandidate(controllers[k])
             /\ (\A u \in DOMAIN units' : ~GivesVeto(units'[u], controllers[k])) <=>
                (\A u \in DOMAIN units : ~GivesVeto(units[u], controllers[k]))
        BY <2>1, <2>2
    <3>. QED  BY <3>1, <3>2 DEF JudgedCandidates
  <2>. QED  BY <1>3, <2>3 DEF DesiredAutoUnits
<1>13. UnitsOfDifferentControllers'
  <2>. SUFFICES ASSUME NEW u \in DOMAIN units', NEW v \in DOMAIN units',
                       units'[u].controller # 0, units'[u].controller = units'[v].controller
                PROVE  u = v
      BY DEF UnitsOfDifferentControllers
  <2>1. u \in ids \cup KeptAutoUnits /\ v \in ids \cup KeptAutoUnits
      BY <1>6, <1>9
  <2>2. CASE u \in ids /\ v \in ids
    <3>1. f[u] = f[v]
        BY <1>7, <2>2
    <3>. QED  BY <1>1, <2>2, <3>1 DEF UpdateResult
  <2>3. CASE u \in KeptAutoUnits /\ v \in KeptAutoUnits
    <3>1. units[u].controller = units[v].controller /\ units[u].controller # 0
          /\ u \in DOMAIN units /\ v \in DOMAIN units
        BY <1>5, <1>8, <2>3
    <3>. QED  BY <3>1 DEF UnitsOfDifferentControllers
  <2>. QED  BY <1>5, <1>7, <1>8, <2>1, <2>2, <2>3
<1>14. \A k \in DesiredAutoUnits : \E u \in DOMAIN units' : units'[u].controller = k
  <2>. SUFFICES ASSUME NEW k \in DesiredAutoUnits
                PROVE  \E u \in DOMAIN units' : units'[u].controller = k
      OBVIOUS
  <2>1. CASE k \in MissingAutoUnits
    <3>1. PICK u \in ids : f[u] = k
        BY <1>1, <2>1 DEF UpdateResult
    <3>. QED  BY <1>6, <1>7, <3>1
  <2>2. CASE k \notin MissingAutoUnits
    <3>1. PICK u \in KeptAutoUnits : units[u].controller = k
        BY <1>5, <2>2
    <3>. QED  BY <1>6, <1>8, <3>1
  <2>. QED  BY <2>1, <2>2
<1>15. ASSUME NEW u \in DOMAIN units', units'[u].controller # 0
       PROVE  /\ units'[u].controller \in DesiredAutoUnits
              /\ units'[u].instance = FirstVisitedCarrier
              /\ units'[u].input = controllers[units'[u].controller].input
              /\ units'[u].output = controllers[units'[u].controller].output
  <2>1. u \in ids \cup KeptAutoUnits
      BY <1>6, <1>9, <1>15
  <2>. QED  BY <1>7, <1>8, <1>10, <2>1
<1>. QED  BY <1>3, <1>12, <1>13, <1>14, <1>15 DEF Accurate, Fits

LEMMA AccuracyIsKept ==
    ASSUME Accurate, UNCHANGED <<unitVars, controllers, connected>>
    PROVE  Accurate'
<1>1. Carriers' = Carriers /\ FirstVisitedCarrier' = FirstVisitedCarrier
    BY DEF Carriers, FirstVisitedCarrier, unitVars
<1>2. JudgedCandidates' = JudgedCandidates
    BY DEF JudgedCandidates, IsCandidate, IsConnected, GivesVeto, unitVars
<1>3. DesiredAutoUnits' = DesiredAutoUnits
    BY <1>1, <1>2 DEF DesiredAutoUnits
<1>. QED  BY <1>1, <1>3 DEF Accurate, Fits, unitVars

\* Each step of the backbone is one of few as far as units are concerned.
LEMMA StepsOnUnits ==
    ASSUME Types, [Next]_vars
    PROVE  \/ OtherStep
           \/ phase = "asleep" /\ phase' = "awake" /\ UNCHANGED unitVars
           \/ ManualUnits /\ LastPluginStep
           \/ UpdateUnits
<1>. USE DEF LastPluginStep
<1>1. ASSUME NEW arriving, NEW timedOut, NEW touched, AudioBlock(arriving, timedOut, touched)
      PROVE  OtherStep
    BY <1>1 DEF AudioBlock, OnPre, OtherStep, detectionVars, portVars
<1>2. StopOrStartAudio \/ FreeGarbage \/ UNCHANGED vars => OtherStep
    BY DEF StopOrStartAudio, SwitchAudio, FreeGarbage, vars, hookVars, portVars, appVars, OtherStep,
           detectionVars
<1>3. RemoveAudioHook \/ FallAsleep => OtherStep
    BY DEF RemoveAudioHook, FallAsleep, hookVars, portVars, detectionVars, OtherStep
<1>4. ASSUME NEW i \in Instances, LoadPlugin(i)
      PROVE  OtherStep \/ (phase = "asleep" /\ phase' = "awake" /\ UNCHANGED unitVars)
  <2>1. UNCHANGED <<unitVars, connected>> /\ phase \in {"awake", "asleep"}
      BY <1>4 DEF LoadPlugin, hookVars, portVars
  <2>2. CASE phase = "asleep"
      BY <1>4, <2>1, <2>2 DEF LoadPlugin, WakeUp
  <2>3. CASE phase # "asleep"
    <3>1. UNCHANGED <<phase, controllers, updatePending>>
        BY <1>4, <2>3 DEF LoadPlugin, detectionVars
    <3>. QED  BY <2>1, <2>3, <3>1 DEF OtherStep
  <2>. QED  BY <2>2, <2>3
<1>5. ASSUME NEW i \in Instances, InitInstanceShell(i)
      PROVE  ManualUnits /\ LastPluginStep
    BY <1>5, ManualSteps DEF InitInstanceShell
<1>6. ASSUME NEW i \in Instances, UnloadPlugin(i)
      PROVE  OtherStep \/ (ManualUnits /\ LastPluginStep)
  <2>1. LastPluginStep
      BY <1>6, LastInstance
  <2>2. CASE i \in DOMAIN instances
    <3>1. DropInstance(i) /\ phase = "awake"
        BY <1>6, <2>2 DEF UnloadPlugin
    <3>. QED  BY <2>1, <3>1, ManualSteps
  <2>3. CASE i \notin DOMAIN instances
    <3>1. UNCHANGED <<instances, units, updatePending, controllers>> /\ phase = "awake"
        BY <1>6, <2>3 DEF UnloadPlugin
    <3>2. UNCHANGED connected
        BY <1>6 DEF UnloadPlugin, portVars
    <3>. QED  BY <2>1, <3>1, <3>2 DEF OtherStep, unitVars
  <2>. QED  BY <2>2, <2>3
<1>7. OperateUnits => ManualUnits /\ LastPluginStep
  <2>. SUFFICES ASSUME OperateUnits
                PROVE  ManualUnits /\ LastPluginStep
      OBVIOUS
  <2>1. phase = "awake" /\ phase' = "awake"
      BY DEF OperateUnits
  <2>. QED  BY <2>1, ManualSteps DEF OperateUnits
<1>8. OperateControllers => OtherStep
    BY DEF OperateControllers, SaveController, ToggleController, DeleteController, OtherStep, portVars
<1>9. ASSUME NEW x \in Detectors, DetectControllers(x) \/ \E d \in Devices : Plug(x, d)
      PROVE  OtherStep
    BY <1>9 DEF DetectControllers, Plug, hookVars, portVars, OtherStep
<1>10. ASSUME NEW d \in Devices, Unplug(d)
       PROVE  OtherStep
    BY <1>10 DEF Unplug, OtherStep
<1>11. ContinueTasks => OtherStep
    BY DEF ContinueTasks, StartDetection, ContinueDetection, UpdateDeviceIdentity, OtherStep, appVars,
           portVars
<1>12. StartLearning \/ ContinueLearning => OtherStep
    BY DEF StartLearning, ContinueLearning, OtherStep, portVars, detectionVars, appVars
<1>. QED
    BY <1>1, <1>2, <1>3, <1>4, <1>5, <1>6, <1>7, <1>8, <1>9, <1>10, <1>11, <1>12 DEF Next

LEMMA NextAccuracyInv == AccuracyInv /\ [Next]_vars => AccuracyInv'
<1>. SUFFICES ASSUME AccuracyInv, [Next]_vars
              PROVE  AccuracyInv'
    OBVIOUS
<1>1. Types' /\ Types
    BY NextTypes DEF AccuracyInv
<1>2. CASE OtherStep
  <2>1. UnitsOfDifferentControllers' /\ SleepsWithoutUnits'
      BY <1>2 DEF AccuracyInv, OtherStep, LastPluginStep, unitVars, UnitsOfDifferentControllers,
                  SleepsWithoutUnits
  <2>2. ASSUME phase' = "awake", ~updatePending'
        PROVE  Accurate'
    <3>1. Accurate /\ UNCHANGED <<unitVars, controllers, connected>>
        BY <1>2, <2>2 DEF AccuracyInv, OtherStep
    <3>. QED  BY <3>1, AccuracyIsKept
  <2>. QED  BY <1>1, <2>1, <2>2 DEF AccuracyInv
<1>3. CASE phase = "asleep" /\ phase' = "awake" /\ UNCHANGED unitVars
  <2>1. DOMAIN units' = {} /\ DOMAIN instances' = {}
      BY <1>3 DEF AccuracyInv, SleepsWithoutUnits, unitVars
  <2>2. DesiredAutoUnits' = {}
      BY <2>1 DEF DesiredAutoUnits, Carriers
  <2>. QED  BY <1>1, <1>3, <2>1, <2>2 DEF AccuracyInv, UnitsOfDifferentControllers,
                                          SleepsWithoutUnits, Accurate
<1>4. CASE ManualUnits /\ LastPluginStep
  <2>1. UnitsOfDifferentControllers'
      BY <1>4 DEF AccuracyInv, ManualUnits, UnitsOfDifferentControllers
  <2>. QED  BY <1>1, <1>4, <2>1 DEF AccuracyInv, ManualUnits, LastPluginStep, SleepsWithoutUnits
<1>5. CASE UpdateUnits
  <2>1. UpdateAutoUnits /\ UNCHANGED <<controllers, connected, phase>> /\ phase = "awake"
      BY <1>5 DEF UpdateUnits, portVars, appVars
  <2>2. UnitsOfDifferentControllers' /\ Accurate'
      BY <1>1, <2>1, UpdateIsAccurate DEF AccuracyInv
  <2>. QED  BY <1>1, <2>1, <2>2 DEF AccuracyInv, SleepsWithoutUnits
<1>. QED  BY <1>1, <1>2, <1>3, <1>4, <1>5, StepsOnUnits

(* Once auto units are updated, each controller that is enabled, connected *)
(* and not overridden by a manual unit has exactly one auto unit, with its *)
(* ports, on the last instance with global control in project-first order; *)
(* there are no others (update_auto_units_async), however the steps of the *)
(* user, of devices and of controller detection interleave.                *)
THEOREM AutoUnitsBecomeAccurate == Spec => []AutoUnitsAreAccurate
<1>1. AccuracyInv => AutoUnitsAreAccurate
  <2>. SUFFICES ASSUME AccuracyInv, phase = "awake", ~updatePending,
                       NEW k \in 1..Len(controllers)
                PROVE  LET auto == {u \in DOMAIN units : units[u].controller = k}
                       IN  /\ Cardinality(auto) = (IF k \in DesiredAutoUnits THEN 1 ELSE 0)
                           /\ \A u \in auto : /\ units[u].instance = Max(Carriers)
                                              /\ units[u].input = controllers[k].input
                                              /\ units[u].output = controllers[k].output
      BY DEF AutoUnitsAreAccurate, DesiredAutoUnits, Carriers
  <2>. DEFINE auto == {u \in DOMAIN units : units[u].controller = k}
  <2>1. Accurate /\ UnitsOfDifferentControllers /\ k # 0
      BY ControllerLength DEF AccuracyInv, Types
  <2>2. \A u \in auto : /\ k \in DesiredAutoUnits
                        /\ units[u].instance = Max(Carriers)
                        /\ units[u].input = controllers[k].input
                        /\ units[u].output = controllers[k].output
      BY <2>1 DEF Accurate, Fits, FirstVisitedCarrier
  <2>3. CASE k \in DesiredAutoUnits
    <3>1. PICK u \in DOMAIN units : units[u].controller = k
        BY <2>1, <2>3 DEF Accurate
    <3>2. auto = {u}
        BY <2>1, <3>1 DEF UnitsOfDifferentControllers
    <3>3. Cardinality({u}) = 1
        BY FS_Singleton
    <3>. QED  BY <2>2, <2>3, <3>2, <3>3
  <2>4. CASE k \notin DesiredAutoUnits
    <3>1. auto = {}
        BY <2>2, <2>4
    <3>2. Cardinality({}) = 0
        BY FS_EmptySet
    <3>. QED  BY <2>4, <3>1, <3>2
  <2>. QED  BY <2>3, <2>4
<1>. QED  BY <1>1, InitAccuracyInv, NextAccuracyInv, PTL DEF Spec

------------------------------------------------------------------------------
(* The audio hook catches up with the registered units and instances       *)

IsAbout(task, id, add, remove) == task.type \in {add, remove} /\ task.id = id

\* Once the hook has processed the given tasks, the ID is in its set exactly
\* if it's in the target: the last task about it says so, or there is none and
\* it's been so before.
Reaches(id, tasks, set, target, add, remove) ==
    \/ /\ \A k \in 1..Len(tasks) : ~IsAbout(tasks[k], id, add, remove)
       /\ id \in set <=> id \in target
    \/ \E k \in 1..Len(tasks) :
          /\ tasks[k].id = id
          /\ tasks[k].type = IF id \in target THEN add ELSE remove
          /\ \A l \in k + 1..Len(tasks) : ~IsAbout(tasks[l], id, add, remove)

Leads(tasks, set, target, add, remove) ==
    \A id : Reaches(id, tasks, set, target, add, remove)

LeadsProcessors(tasks, set, target) ==
    Leads(tasks, set, target, "AddRealTimeProcessor", "RemoveRealTimeProcessor")

LeadsInstances(tasks, set, target) ==
    Leads(tasks, set, target, "AddRealTimeInstance", "RemoveRealTimeInstance")

LEMMA Leading ==
    ASSUME NEW s, NEW t, IsQueue(s), IsQueue(t), NEW set, NEW middle, NEW target,
           NEW add, NEW remove,
           Leads(s, set, middle, add, remove), Leads(t, middle, target, add, remove)
    PROVE  Leads(s \o t, set, target, add, remove)
<1>. SUFFICES ASSUME NEW id
              PROVE  Reaches(id, s \o t, set, target, add, remove)
    BY DEF Leads
<1>1. Reaches(id, s, set, middle, add, remove) /\ Reaches(id, t, middle, target, add, remove)
    BY DEF Leads
<1>2. PICK q : q = s \o t
    OBVIOUS
<1>3. /\ IsQueue(q) /\ Len(q) = Len(s) + Len(t) /\ Len(s) \in Nat /\ Len(t) \in Nat
      /\ \A k \in 1..Len(s) : k \in 1..Len(q) /\ q[k] = s[k]
      /\ \A k \in 1..Len(t) : k + Len(s) \in 1..Len(q) /\ q[k + Len(s)] = t[k]
      /\ \A k \in 1..Len(q) : \/ k \in 1..Len(s) /\ q[k] = s[k]
                              \/ k - Len(s) \in 1..Len(t) /\ q[k] = t[k - Len(s)]
    BY <1>2, Concatenation
<1>4. CASE \E k \in 1..Len(t) :
              /\ t[k].id = id
              /\ t[k].type = IF id \in target THEN add ELSE remove
              /\ \A l \in k + 1..Len(t) : ~IsAbout(t[l], id, add, remove)
  <2>1. PICK k \in 1..Len(t) :
              /\ t[k].id = id
              /\ t[k].type = IF id \in target THEN add ELSE remove
              /\ \A l \in k + 1..Len(t) : ~IsAbout(t[l], id, add, remove)
      BY <1>4
  <2>2. k + Len(s) \in 1..Len(q) /\ q[k + Len(s)] = t[k]
      BY <1>3
  <2>3. ASSUME NEW l \in k + Len(s) + 1..Len(q)
        PROVE  ~IsAbout(q[l], id, add, remove)
    <3>1. l - Len(s) \in k + 1..Len(t) /\ q[l] = t[l - Len(s)]
        BY <1>3
    <3>. QED  BY <2>1, <3>1
  <2>. QED  BY <1>2, <2>1, <2>2, <2>3 DEF Reaches
<1>5. CASE /\ \A k \in 1..Len(t) : ~IsAbout(t[k], id, add, remove)
           /\ id \in middle <=> id \in target
  <2>1. CASE /\ \A k \in 1..Len(s) : ~IsAbout(s[k], id, add, remove)
             /\ id \in set <=> id \in middle
    <3>1. \A k \in 1..Len(q) : ~IsAbout(q[k], id, add, remove)
        BY <1>3, <1>5, <2>1
    <3>. QED  BY <1>2, <1>5, <2>1, <3>1 DEF Reaches
  <2>2. CASE \E k \in 1..Len(s) :
                /\ s[k].id = id
                /\ s[k].type = IF id \in middle THEN add ELSE remove
                /\ \A l \in k + 1..Len(s) : ~IsAbout(s[l], id, add, remove)
    <3>1. PICK k \in 1..Len(s) :
                /\ s[k].id = id
                /\ s[k].type = IF id \in middle THEN add ELSE remove
                /\ \A l \in k + 1..Len(s) : ~IsAbout(s[l], id, add, remove)
        BY <2>2
    <3>2. k \in 1..Len(q) /\ q[k] = s[k] /\ q[k].type = IF id \in target THEN add ELSE remove
        BY <1>3, <1>5, <3>1
    <3>3. ASSUME NEW l \in k + 1..Len(q)
          PROVE  ~IsAbout(q[l], id, add, remove)
      <4>1. CASE l \in 1..Len(s) /\ q[l] = s[l]
        <5>1. l \in k + 1..Len(s)
            BY <1>3, <4>1
        <5>. QED  BY <3>1, <4>1, <5>1
      <4>2. CASE l - Len(s) \in 1..Len(t) /\ q[l] = t[l - Len(s)]
          BY <1>5, <4>2
      <4>3. l \in 1..Len(q)
          BY <1>3
      <4>. QED  BY <1>3, <4>1, <4>2, <4>3
    <3>. QED  BY <1>2, <3>1, <3>2, <3>3 DEF Reaches
  <2>. QED  BY <1>1, <2>1, <2>2 DEF Reaches
<1>. QED  BY <1>1, <1>4, <1>5 DEF Reaches

\* Tasks of other types don't lead anywhere.
LEMMA LeadingNowhere ==
    ASSUME NEW tasks, NEW set, NEW add, NEW remove,
           \A k \in 1..Len(tasks) : tasks[k].type \notin {add, remove}
    PROVE  Leads(tasks, set, set, add, remove)
BY DEF Leads, Reaches, IsAbout

\* Tasks about some units, one for each, add or remove these units.
LEMMA LeadingSome ==
    ASSUME NEW tasks, NEW ids, NEW type, NEW set, NEW target, NEW add, NEW remove, add # remove,
           tasks \in Seq([type: {type}, id: ids]),
           \A u \in ids : \E k \in 1..Len(tasks) : tasks[k].id = u,
           \/ type = add /\ target = set \cup ids
           \/ type = remove /\ target = set \ ids
    PROVE  Leads(tasks, set, target, add, remove)
<1>. SUFFICES ASSUME NEW id
              PROVE  Reaches(id, tasks, set, target, add, remove)
    BY DEF Leads
<1>. DEFINE own == [type: {type}, id: ids]
<1>1. Len(tasks) \in Nat /\ \A k \in 1..Len(tasks) : tasks[k].type = type /\ tasks[k].id \in ids
  <2>1. \A task \in own : task.type = type /\ task.id \in ids
      OBVIOUS
  <2>. HIDE DEF own
  <2>2. tasks \in Seq(own)
      BY DEF own
  <2>3. Len(tasks) \in Nat /\ \A k \in 1..Len(tasks) : tasks[k] \in own
      BY <2>2
  <2>. QED  BY <2>1, <2>3
<1>2. CASE id \notin ids
  <2>1. id \in set <=> id \in target
      BY <1>2
  <2>2. \A k \in 1..Len(tasks) : ~IsAbout(tasks[k], id, add, remove)
      BY <1>1, <1>2 DEF IsAbout
  <2>. QED  BY <2>1, <2>2 DEF Reaches
<1>3. CASE id \in ids
  <2>. DEFINE Of == {k \in 1..Len(tasks) : tasks[k].id = id}
  <2>1. \E k \in 1..Len(tasks) : tasks[k].id = id
      BY <1>3
  <2>2. Of \in SUBSET Nat /\ Of # {} /\ Of \in SUBSET (1..Len(tasks)) /\ IsFiniteSet(Of)
    <3>1. 1..Len(tasks) \subseteq Nat /\ IsFiniteSet(1..Len(tasks))
        BY <1>1, FS_Interval
    <3>. QED  BY <2>1, <3>1, FS_Subset
  <2>3. PICK k : k = Max(Of)
      OBVIOUS
  <2>4. k \in Of /\ \A l \in Of : l =< k
      BY <2>2, <2>3, MaxOfFiniteSet
  <2>5. ASSUME NEW l \in k + 1..Len(tasks)
        PROVE  ~IsAbout(tasks[l], id, add, remove)
    <3>1. l \notin Of /\ l \in 1..Len(tasks)
        BY <1>1, <2>4
    <3>. QED  BY <3>1 DEF IsAbout
  <2>6. tasks[k].type = IF id \in target THEN add ELSE remove
      BY <1>1, <1>3, <2>4
  <2>. QED  BY <2>4, <2>5, <2>6 DEF Reaches
<1>. QED  BY <1>2, <1>3

\* The task the hook has processed needn't be followed any more.
LEMMA BlockLeads ==
    ASSUME IsQueue(hookTasks), ProcessNormalCommand, NEW set, NEW target, NEW add, NEW remove,
           add # remove, "Nothing" \notin {add, remove},
           Leads(hookTasks, set, target, add, remove)
    PROVE  Leads(hookTasks', AddOrRemove(set, add, remove), target, add, remove)
<1>. SUFFICES ASSUME NEW id
              PROVE  Reaches(id, hookTasks', AddOrRemove(set, add, remove), target, add, remove)
    BY DEF Leads
<1>1. Reaches(id, hookTasks, set, target, add, remove)
    BY DEF Leads
<1>. DEFINE new == AddOrRemove(set, add, remove)
<1>2. /\ IsQueue(hookTasks') /\ Len(hookTasks) \in Nat
      /\ hookTasks # <<>> => /\ 1 \in 1..Len(hookTasks) /\ NextTask = hookTasks[1]
                             /\ Len(hookTasks') = Len(hookTasks) - 1
      /\ \A k \in 1..Len(hookTasks') : /\ k + 1 \in 1..Len(hookTasks) /\ hookTasks # <<>>
                                       /\ hookTasks'[k] = hookTasks[k + 1]
      /\ hookTasks = <<>> => NextTask = Task("Nothing", None)
    BY QueueAfterTask
<1>3. CASE /\ \A k \in 1..Len(hookTasks) : ~IsAbout(hookTasks[k], id, add, remove)
           /\ id \in set <=> id \in target
  <2>1. ~IsAbout(NextTask, id, add, remove)
      BY <1>2, <1>3 DEF IsAbout, Task
  <2>2. id \in new <=> id \in set
      BY <2>1 DEF AddOrRemove, IsAbout
  <2>3. \A k \in 1..Len(hookTasks') : ~IsAbout(hookTasks'[k], id, add, remove)
      BY <1>2, <1>3
  <2>. QED  BY <1>3, <2>2, <2>3 DEF Reaches
<1>4. ASSUME NEW k \in 1..Len(hookTasks), hookTasks[k].id = id,
             hookTasks[k].type = IF id \in target THEN add ELSE remove,
             \A l \in k + 1..Len(hookTasks) : ~IsAbout(hookTasks[l], id, add, remove)
      PROVE  Reaches(id, hookTasks', new, target, add, remove)
  <2>1. hookTasks # <<>>
      BY <1>4
  <2>2. Len(hookTasks') = Len(hookTasks) - 1 /\ NextTask = hookTasks[1]
      BY <1>2, <2>1
  <2>3. ASSUME NEW m \in Nat, NEW l \in m..Len(hookTasks'), k =< m, m > 0
        PROVE  ~IsAbout(hookTasks'[l], id, add, remove)
    <3>1. l \in 1..Len(hookTasks') /\ l + 1 \in k + 1..Len(hookTasks)
        BY <1>2, <2>2, <2>3
    <3>. QED  BY <1>2, <1>4, <3>1
  <2>4. CASE k = 1
    <3>1. id \in new <=> id \in target
        BY <1>4, <2>2, <2>4 DEF AddOrRemove
    <3>2. \A l \in 1..Len(hookTasks') : ~IsAbout(hookTasks'[l], id, add, remove)
        BY <2>3, <2>4
    <3>. QED  BY <3>1, <3>2 DEF Reaches
  <2>5. CASE k # 1
    <3>1. k - 1 \in 1..Len(hookTasks') /\ k - 1 + 1 = k
        BY <1>2, <2>2, <2>5
    <3>2. hookTasks'[k - 1] = hookTasks[k]
        BY <1>2, <3>1
    <3>3. \A l \in k - 1 + 1..Len(hookTasks') : ~IsAbout(hookTasks'[l], id, add, remove)
        BY <2>3, <3>1
    <3>. QED  BY <1>4, <3>1, <3>2, <3>3 DEF Reaches
  <2>. QED  BY <2>4, <2>5
<1>. HIDE DEF new
<1>. QED  BY <1>1, <1>3, <1>4 DEF Reaches, new

LEMMA UnitTasksLead ==
    ASSUME NEW ids \in SUBSET UnitIds, NEW set, NEW registered
    PROVE  /\ IsQueue(AddTasks(ids)) /\ Len(AddTasks(ids)) = Cardinality(ids)
           /\ LeadsProcessors(AddTasks(ids), set, set \cup ids)
           /\ LeadsInstances(AddTasks(ids), registered, registered)
           /\ IsQueue(RemoveTasks(ids)) /\ Len(RemoveTasks(ids)) = Cardinality(ids)
           /\ LeadsProcessors(RemoveTasks(ids), set, set \ ids)
           /\ LeadsInstances(RemoveTasks(ids), registered, registered)
           /\ Cardinality(ids) \in Nat /\ IsFiniteSet(ids)
<1>1. IsFiniteSet(ids) /\ Cardinality(ids) \in Nat
    BY UnitAssumption, FS_Subset, FS_CardinalityType
<1>2. ASSUME NEW type \in {"AddRealTimeProcessor", "RemoveRealTimeProcessor"}, NEW tasks,
             tasks = UnitTasks(type, ids)
      PROVE  /\ IsQueue(tasks) /\ Len(tasks) = Cardinality(ids)
             /\ LeadsInstances(tasks, registered, registered)
             /\ type = "AddRealTimeProcessor" => LeadsProcessors(tasks, set, set \cup ids)
             /\ type = "RemoveRealTimeProcessor" => LeadsProcessors(tasks, set, set \ ids)
  <2>. DEFINE own == [type: {type}, id: ids]
  <2>1. /\ tasks \in Seq(own) /\ Len(tasks) = Cardinality(ids)
        /\ \A u \in ids : \E k \in 1..Len(tasks) : tasks[k].id = u
      BY SMTT(30), <1>1, <1>2, TasksOfUnits
  <2>2. \A task \in own : task.type \notin {"AddRealTimeInstance", "RemoveRealTimeInstance"}
      OBVIOUS
  <2>3. \A k \in 1..Len(tasks) : tasks[k].type \notin {"AddRealTimeInstance", "RemoveRealTimeInstance"}
    <3>. HIDE DEF own
    <3>. QED  BY <2>1, <2>2
  <2>4. LeadsInstances(tasks, registered, registered)
      BY <2>3, LeadingNowhere DEF LeadsInstances
  <2>5. type = "AddRealTimeProcessor" => LeadsProcessors(tasks, set, set \cup ids)
      BY <2>1, LeadingSome DEF LeadsProcessors
  <2>6. type = "RemoveRealTimeProcessor" => LeadsProcessors(tasks, set, set \ ids)
      BY <2>1, LeadingSome DEF LeadsProcessors
  <2>. QED  BY <2>1, <2>4, <2>5, <2>6 DEF IsQueue
<1>. QED  BY <1>1, <1>2 DEF AddTasks, RemoveTasks

LEMMA InstanceTaskLeads ==
    ASSUME NEW i, NEW set, NEW registered
    PROVE  LET add == <<Task("AddRealTimeInstance", i)>>
               remove == <<Task("RemoveRealTimeInstance", i)>>
           IN  /\ IsQueue(add) /\ Len(add) = 1 /\ IsQueue(remove) /\ Len(remove) = 1
               /\ LeadsProcessors(add, set, set) /\ LeadsProcessors(remove, set, set)
               /\ LeadsInstances(add, registered, registered \cup {i})
               /\ LeadsInstances(remove, registered, registered \ {i})
<1>1. ASSUME NEW type \in {"AddRealTimeInstance", "RemoveRealTimeInstance"}, NEW tasks,
             tasks = <<Task(type, i)>>
      PROVE  /\ IsQueue(tasks) /\ Len(tasks) = 1
             /\ LeadsProcessors(tasks, set, set)
             /\ type = "AddRealTimeInstance" => LeadsInstances(tasks, registered, registered \cup {i})
             /\ type = "RemoveRealTimeInstance" => LeadsInstances(tasks, registered, registered \ {i})
  <2>1. IsQueue(tasks) /\ Len(tasks) = 1 /\ \A k \in 1..1 : tasks[k] = Task(type, i)
      BY <1>1, SingleTask
  <2>2. tasks \in Seq([type: {type}, id: {i}])
      BY <1>1 DEF Task
  <2>3. \A u \in {i} : \E k \in 1..Len(tasks) : tasks[k].id = u
      BY <2>1 DEF Task
  <2>4. \A k \in 1..Len(tasks) : tasks[k].type \notin {"AddRealTimeProcessor", "RemoveRealTimeProcessor"}
      BY <2>1 DEF Task
  <2>5. LeadsProcessors(tasks, set, set)
      BY <2>4, LeadingNowhere DEF LeadsProcessors
  <2>6. type = "AddRealTimeInstance" => LeadsInstances(tasks, registered, registered \cup {i})
      BY <2>2, <2>3, LeadingSome DEF LeadsInstances
  <2>7. type = "RemoveRealTimeInstance" => LeadsInstances(tasks, registered, registered \ {i})
      BY <2>2, <2>3, LeadingSome DEF LeadsInstances
  <2>. QED  BY <2>1, <2>5, <2>6, <2>7
<1>. QED  BY <1>1

LEMMA LeadingUnits ==
    ASSUME NEW s, NEW t, IsQueue(s), IsQueue(t), NEW a, NEW b, NEW c, NEW x, NEW y, NEW z,
           LeadsProcessors(s, a, b), LeadsProcessors(t, b, c),
           LeadsInstances(s, x, y), LeadsInstances(t, y, z)
    PROVE  /\ LeadsProcessors(s \o t, a, c) /\ LeadsInstances(s \o t, x, z)
           /\ IsQueue(s \o t) /\ Len(s \o t) = Len(s) + Len(t)
BY Leading, Concatenation DEF LeadsProcessors, LeadsInstances

\* A step sends tasks that lead the hook from what has been registered to what
\* is registered now, as long as there is room for them.
LeadsHook ==
    \E tasks :
        /\ IsQueue(tasks) /\ hookTasks' = Sent(tasks)
        /\ LeadsProcessors(tasks, DOMAIN units, DOMAIN units')
        /\ LeadsInstances(tasks, DOMAIN instances, DOMAIN instances')
        /\ HasRoom => Len(tasks) =< Room

LEMMA UnitStepsLeadHook ==
    ASSUME Types, Types',
           \/ \E i \in Instances : CreateInstance(i) \/ DropInstance(i) \/ AddUnit(i)
           \/ \E u \in UnitIds : RemoveUnit(u)
           \/ \E i \in Instances, on \in BOOLEAN, n \in 0..1 : ApplyData(i, on, n)
           \/ UpdateAutoUnits
    PROVE  LeadsHook
<1>1. /\ DOMAIN units \subseteq UnitIds /\ DOMAIN units' \subseteq UnitIds
      /\ Room \in Nat
    BY RoomIsNatural DEF Types, UnitsTypeOK, QueueTypes, IsQueue
<1>2. ASSUME NEW come \in SUBSET UnitIds, NEW gone \in SUBSET UnitIds,
             come = DOMAIN units' \ DOMAIN units, gone = DOMAIN units \ DOMAIN units', HasRoom
      PROVE  Cardinality(come) + Cardinality(gone) < Room
    BY <1>1, <1>2, UnitTasksLead DEF HasRoom
<1>3. ASSUME NEW i \in Instances, CreateInstance(i)
      PROVE  LeadsHook
  <2>1. EnoughIds(1)
      BY <1>3 DEF CreateInstance
  <2>2. PICK u \in FreshIds(1) : /\ units' = With(units, u, Unit(i, TRUE, 0, None, None))
                                 /\ SendTasks(AddTasks({u}) \o <<Task("AddRealTimeInstance", i)>>)
      BY <1>3 DEF CreateInstance
  <2>3. {u} \in SUBSET UnitIds /\ {u} \cap DOMAIN units = {}
      BY <2>1, <2>2, FreshUnits
  <2>4. DOMAIN units' = DOMAIN units \cup {u} /\ DOMAIN instances' = DOMAIN instances \cup {i}
      BY <1>3, <2>2 DEF CreateInstance, With
  <2>5. PICK s, t : s = AddTasks({u}) /\ t = <<Task("AddRealTimeInstance", i)>>
      OBVIOUS
  <2>6. /\ IsQueue(s) /\ Len(s) = Cardinality({u})
        /\ LeadsProcessors(s, DOMAIN units, DOMAIN units')
        /\ LeadsInstances(s, DOMAIN instances, DOMAIN instances)
      BY <2>3, <2>4, <2>5, UnitTasksLead
  <2>7. /\ IsQueue(t) /\ Len(t) = 1
        /\ LeadsProcessors(t, DOMAIN units', DOMAIN units')
        /\ LeadsInstances(t, DOMAIN instances, DOMAIN instances')
      BY <2>4, <2>5, InstanceTaskLeads
  <2>8. /\ LeadsProcessors(s \o t, DOMAIN units, DOMAIN units')
        /\ LeadsInstances(s \o t, DOMAIN instances, DOMAIN instances')
        /\ IsQueue(s \o t) /\ Len(s \o t) = Len(s) + Len(t)
      BY <2>6, <2>7, LeadingUnits
  <2>9. HasRoom => Len(s \o t) =< Room
    <3>1. {u} = DOMAIN units' \ DOMAIN units /\ {} = DOMAIN units \ DOMAIN units'
        BY <2>3, <2>4
    <3>2. Cardinality({u}) = 1 /\ Cardinality({}) = 0
        BY FS_Singleton, FS_EmptySet
    <3>. QED  BY <1>1, <1>2, <2>3, <2>6, <2>7, <2>8, <3>1, <3>2
  <2>. QED  BY <2>2, <2>5, <2>8, <2>9 DEF LeadsHook, SendTasks
<1>4. ASSUME NEW i \in Instances, DropInstance(i)
      PROVE  LeadsHook
  <2>. DEFINE mainUnits == UnitsOf(i) \ AdditionalUnitsOf(i)
  <2>1. /\ units' = Without(UnitsOf(i))
        /\ instances' = Restrict(instances, DOMAIN instances \ {i})
        /\ SendTasks(<<Task("RemoveRealTimeInstance", i)>> \o RemoveTasks(mainUnits)
                     \o RemoveTasks(AdditionalUnitsOf(i)))
      BY <1>4 DEF DropInstance
  <2>2. PICK mains, others : mains = mainUnits /\ others = AdditionalUnitsOf(i)
      OBVIOUS
  <2>3. /\ mains \in SUBSET UnitIds /\ others \in SUBSET UnitIds /\ UnitsOf(i) = mains \cup others
        /\ mains \cap others = {} /\ UnitsOf(i) \subseteq DOMAIN units
      BY <2>2, UnitsOfInstances DEF UnitsOf
  <2>4. DOMAIN units' = (DOMAIN units \ mains) \ others /\ DOMAIN instances' = DOMAIN instances \ {i}
      BY ZenonT(60), <2>1, <2>3, WithoutUnits DEF Restrict
  <2>5. PICK r, s, t : /\ r = <<Task("RemoveRealTimeInstance", i)>>
                       /\ s = RemoveTasks(mains) /\ t = RemoveTasks(others)
      OBVIOUS
  <2>6. /\ IsQueue(r) /\ Len(r) = 1
        /\ LeadsProcessors(r, DOMAIN units, DOMAIN units)
        /\ LeadsInstances(r, DOMAIN instances, DOMAIN instances')
      BY <2>4, <2>5, InstanceTaskLeads
  <2>7. /\ IsQueue(s) /\ Len(s) = Cardinality(mains)
        /\ LeadsProcessors(s, DOMAIN units, DOMAIN units \ mains)
        /\ LeadsInstances(s, DOMAIN instances', DOMAIN instances')
      BY <2>3, <2>5, UnitTasksLead
  <2>8. /\ IsQueue(t) /\ Len(t) = Cardinality(others)
        /\ LeadsProcessors(t, DOMAIN units \ mains, DOMAIN units')
        /\ LeadsInstances(t, DOMAIN instances', DOMAIN instances')
      BY ZenonT(30), <2>3, <2>4, <2>5, UnitTasksLead
  <2>9. /\ LeadsProcessors(r \o s, DOMAIN units, DOMAIN units \ mains)
        /\ LeadsInstances(r \o s, DOMAIN instances, DOMAIN instances')
        /\ IsQueue(r \o s) /\ Len(r \o s) = Len(r) + Len(s)
      BY <2>6, <2>7, LeadingUnits
  <2>10. PICK q : q = r \o s
      OBVIOUS
  <2>11. /\ LeadsProcessors(q \o t, DOMAIN units, DOMAIN units')
         /\ LeadsInstances(q \o t, DOMAIN instances, DOMAIN instances')
         /\ IsQueue(q \o t) /\ Len(q \o t) = Len(q) + Len(t)
      BY <2>8, <2>9, <2>10, LeadingUnits
  <2>12. HasRoom => Len(q \o t) =< Room
    <3>1. PICK gone : gone = mains \cup others
        OBVIOUS
    <3>2. {} = DOMAIN units' \ DOMAIN units /\ gone = DOMAIN units \ DOMAIN units'
        BY <2>3, <2>4, <3>1
    <3>3. gone \in SUBSET UnitIds /\ {} \in SUBSET UnitIds
        BY <2>3, <3>1
    <3>4. Cardinality({}) = 0
        BY FS_EmptySet
    <3>5. /\ Cardinality(mains) \in Nat /\ Cardinality(others) \in Nat
          /\ IsFiniteSet(mains) /\ IsFiniteSet(others)
        BY <2>3, UnitTasksLead
    <3>6. Cardinality(gone) = Cardinality(mains) + Cardinality(others)
        BY <2>3, <3>1, <3>4, <3>5, FS_Union
    <3>7. HasRoom => Cardinality({}) + Cardinality(gone) < Room
        BY <1>2, <3>2, <3>3
    <3>8. Len(q \o t) = 1 + Cardinality(mains) + Cardinality(others)
        BY <2>6, <2>7, <2>8, <2>9, <2>10, <2>11
    <3>. QED  BY <1>1, <3>4, <3>5, <3>6, <3>7, <3>8
  <2>13. hookTasks' = Sent(q \o t)
      BY <2>1, <2>2, <2>5, <2>10 DEF SendTasks
  <2>. QED  BY <2>11, <2>12, <2>13 DEF LeadsHook
<1>5. ASSUME NEW i \in Instances, AddUnit(i)
      PROVE  LeadsHook
  <2>1. EnoughIds(1) /\ UNCHANGED instances
      BY <1>5 DEF AddUnit
  <2>2. PICK u \in FreshIds(1) : /\ units' = With(units, u, Unit(i, FALSE, 0, None, None))
                                 /\ SendTasks(AddTasks({u}))
      BY <1>5 DEF AddUnit
  <2>3. {u} \in SUBSET UnitIds /\ {u} \cap DOMAIN units = {}
      BY <2>1, <2>2, FreshUnits
  <2>4. DOMAIN units' = DOMAIN units \cup {u}
      BY <2>2 DEF With
  <2>5. PICK s : s = AddTasks({u})
      OBVIOUS
  <2>6. /\ IsQueue(s) /\ Len(s) = Cardinality({u})
        /\ LeadsProcessors(s, DOMAIN units, DOMAIN units')
        /\ LeadsInstances(s, DOMAIN instances, DOMAIN instances')
      BY <2>1, <2>3, <2>4, <2>5, UnitTasksLead
  <2>7. HasRoom => Len(s) =< Room
    <3>1. {u} = DOMAIN units' \ DOMAIN units /\ {} = DOMAIN units \ DOMAIN units'
        BY <2>3, <2>4
    <3>2. Cardinality({u}) = 1 /\ Cardinality({}) = 0
        BY FS_Singleton, FS_EmptySet
    <3>. QED  BY <1>1, <1>2, <2>3, <2>6, <3>1, <3>2
  <2>. QED  BY <2>2, <2>5, <2>6, <2>7 DEF LeadsHook, SendTasks
<1>6. ASSUME NEW u \in UnitIds, RemoveUnit(u)
      PROVE  LeadsHook
  <2>1. /\ u \in DOMAIN units /\ units' = Without({u}) /\ SendTasks(RemoveTasks({u}))
        /\ UNCHANGED instances
      BY <1>6 DEF RemoveUnit
  <2>2. DOMAIN units' = DOMAIN units \ {u}
      BY <2>1, WithoutUnits
  <2>3. PICK s : s = RemoveTasks({u})
      OBVIOUS
  <2>4. /\ IsQueue(s) /\ Len(s) = Cardinality({u})
        /\ LeadsProcessors(s, DOMAIN units, DOMAIN units')
        /\ LeadsInstances(s, DOMAIN instances, DOMAIN instances')
      BY <2>1, <2>2, <2>3, UnitTasksLead
  <2>5. HasRoom => Len(s) =< Room
    <3>1. {} = DOMAIN units' \ DOMAIN units /\ {u} = DOMAIN units \ DOMAIN units'
        BY <2>1, <2>2
    <3>2. Cardinality({u}) = 1 /\ Cardinality({}) = 0
        BY FS_Singleton, FS_EmptySet
    <3>. QED  BY <1>1, <1>2, <2>4, <3>1, <3>2
  <2>. QED  BY <2>1, <2>3, <2>4, <2>5 DEF LeadsHook, SendTasks
<1>7. ASSUME NEW i \in Instances, NEW on, NEW n \in 0..1, ApplyData(i, on, n)
      PROVE  LeadsHook
  <2>1. /\ EnoughIds(n) /\ SendTasks(AddTasks(FreshIds(n)) \o RemoveTasks(AdditionalUnitsOf(i)))
        /\ DOMAIN units' = (DOMAIN units \ AdditionalUnitsOf(i)) \cup FreshIds(n)
        /\ DOMAIN instances' = DOMAIN instances
      BY <1>7 DEF ApplyData
  <2>2. PICK ids, others : ids = FreshIds(n) /\ others = AdditionalUnitsOf(i)
      OBVIOUS
  <2>3. /\ ids \in SUBSET UnitIds /\ others \in SUBSET UnitIds /\ ids \cap DOMAIN units = {}
        /\ others \subseteq DOMAIN units
      BY <2>1, <2>2, FreshUnits, UnitsOfInstances DEF UnitsOf
  <2>4. DOMAIN units' = (DOMAIN units \cup ids) \ others
      BY <2>1, <2>2, <2>3
  <2>5. PICK s, t : s = AddTasks(ids) /\ t = RemoveTasks(others)
      OBVIOUS
  <2>6. /\ IsQueue(s) /\ Len(s) = Cardinality(ids)
        /\ LeadsProcessors(s, DOMAIN units, DOMAIN units \cup ids)
        /\ LeadsInstances(s, DOMAIN instances, DOMAIN instances')
        /\ Cardinality(ids) \in Nat
      BY <2>1, <2>3, <2>5, UnitTasksLead
  <2>7. /\ IsQueue(t) /\ Len(t) = Cardinality(others)
        /\ LeadsProcessors(t, DOMAIN units \cup ids, DOMAIN units')
        /\ LeadsInstances(t, DOMAIN instances', DOMAIN instances')
        /\ Cardinality(others) \in Nat
      BY <2>3, <2>4, <2>5, UnitTasksLead
  <2>8. /\ LeadsProcessors(s \o t, DOMAIN units, DOMAIN units')
        /\ LeadsInstances(s \o t, DOMAIN instances, DOMAIN instances')
        /\ IsQueue(s \o t) /\ Len(s \o t) = Len(s) + Len(t)
      BY <2>6, <2>7, LeadingUnits
  <2>9. HasRoom => Len(s \o t) =< Room
    <3>1. ids = DOMAIN units' \ DOMAIN units /\ others = DOMAIN units \ DOMAIN units'
        BY <2>3, <2>4
    <3>2. HasRoom => Cardinality(ids) + Cardinality(others) < Room
        BY <1>2, <2>3, <3>1
    <3>. QED  BY <1>1, <2>6, <2>7, <2>8, <3>2
  <2>10. hookTasks' = Sent(s \o t)
      BY <2>1, <2>2, <2>5 DEF SendTasks
  <2>. QED  BY <2>8, <2>9, <2>10 DEF LeadsHook
<1>8. CASE UpdateAutoUnits
  <2>1. PICK gone, come : /\ gone = UnitIds \cap (DOMAIN units \ DOMAIN units')
                          /\ come = UnitIds \cap (DOMAIN units' \ DOMAIN units)
      OBVIOUS
  <2>2. PICK s, t : s = RemoveTasks(gone) /\ t = AddTasks(come)
      OBVIOUS
  <2>3. hookTasks' = Sent(s \o t) /\ UNCHANGED instances
      BY <1>8, <2>1, <2>2 DEF UpdateAutoUnits, SendTasks
  <2>4. /\ gone \in SUBSET UnitIds /\ come \in SUBSET UnitIds
        /\ gone = DOMAIN units \ DOMAIN units' /\ come = DOMAIN units' \ DOMAIN units
        /\ DOMAIN units' = (DOMAIN units \ gone) \cup come
      BY <1>1, <2>1
  <2>5. /\ IsQueue(s) /\ Len(s) = Cardinality(gone)
        /\ LeadsProcessors(s, DOMAIN units, DOMAIN units \ gone)
        /\ LeadsInstances(s, DOMAIN instances, DOMAIN instances')
        /\ Cardinality(gone) \in Nat
      BY <2>2, <2>3, <2>4, UnitTasksLead
  <2>6. /\ IsQueue(t) /\ Len(t) = Cardinality(come)
        /\ LeadsProcessors(t, DOMAIN units \ gone, DOMAIN units')
        /\ LeadsInstances(t, DOMAIN instances', DOMAIN instances')
        /\ Cardinality(come) \in Nat
      BY <2>2, <2>4, UnitTasksLead
  <2>7. /\ LeadsProcessors(s \o t, DOMAIN units, DOMAIN units')
        /\ LeadsInstances(s \o t, DOMAIN instances, DOMAIN instances')
        /\ IsQueue(s \o t) /\ Len(s \o t) = Len(s) + Len(t)
      BY <2>5, <2>6, LeadingUnits
  <2>8. HasRoom => Cardinality(come) + Cardinality(gone) < Room
      BY <1>2, <2>4
  <2>9. HasRoom => Len(s \o t) =< Room
      BY <1>1, <2>5, <2>6, <2>7, <2>8
  <2>. QED  BY <2>3, <2>7, <2>9 DEF LeadsHook
<1>. QED  BY <1>3, <1>4, <1>5, <1>6, <1>7, <1>8

UnitTaskTypes ==
    {"AddRealTimeInstance", "RemoveRealTimeInstance", "AddRealTimeProcessor", "RemoveRealTimeProcessor"}

\* What the hook has yet to process leads it to what is registered.
HookInv ==
    /\ Types
    /\ LeadsProcessors(hookTasks, rtProcessors, DOMAIN units)
    /\ LeadsInstances(hookTasks, rtInstances, DOMAIN instances)

LEMMA InitHookInv == Init => HookInv
<1>. SUFFICES ASSUME Init
              PROVE  HookInv
    OBVIOUS
<1>1. PICK scenario \in Scenarios :
        /\ hookTasks = <<>>
        /\ instances = [i \in scenario.instances |-> i \in scenario.controlled]
        /\ units = [i \in scenario.instances |-> Unit(i, TRUE, 0, None, None)]
        /\ rtInstances = scenario.instances /\ rtProcessors = scenario.instances
    BY DEF Init
<1>2. DOMAIN units = rtProcessors /\ DOMAIN instances = rtInstances
    BY <1>1
<1>3. \A k \in 1..Len(hookTasks) : hookTasks[k].type \notin UnitTaskTypes
    BY <1>1
<1>. QED  BY <1>2, <1>3, InitTypes, LeadingNowhere
          DEF HookInv, LeadsProcessors, LeadsInstances, UnitTaskTypes

ElsewhereOnHook ==
    /\ UNCHANGED <<rtProcessors, rtInstances>>
    /\ DOMAIN units' = DOMAIN units /\ DOMAIN instances' = DOMAIN instances
    /\ \/ UNCHANGED hookTasks
       \/ \E task : task.type \notin UnitTaskTypes /\ SendTasks(<<task>>)

LEMMA RequestsElsewhere ==
    ASSUME NEW r, NEW d, NEW base, SendRequest(r, d, base)
    PROVE  \E task : task.type \notin UnitTaskTypes /\ SendTasks(<<task>>)
<1>1. RequestTask(r, d).type \notin UnitTaskTypes
    BY DEF RequestTask, Task, UnitTaskTypes
<1>. QED  BY <1>1 DEF SendRequest

LEMMA ProbesElsewhere ==
    ASSUME NEW x, NEW rest, NEW list, NEW ins, NEW outs, ProbeNext(x, rest, list, ins, outs)
    PROVE  \/ UNCHANGED hookTasks
           \/ \E task : task.type \notin UnitTaskTypes /\ SendTasks(<<task>>)
BY RequestsElsewhere DEF ProbeNext

LEMMA NothingSent ==
    ASSUME Types, SendTasks(<<>>)
    PROVE  UNCHANGED hookTasks
<1>1. IsQueue(<<>>) /\ Len(<<>>) = 0 /\ IsQueue(hookTasks)
  <2>1. <<>> \in Seq({}) /\ Len(<<>>) = 0
      OBVIOUS
  <2>2. hookTasks \in Seq(HookTaskRecords)
      BY DEF Types, QueueTypes
  <2>. QED  BY <2>1, <2>2, Zenon DEF IsQueue
<1>2. PICK none : none = <<>>
    OBVIOUS
<1>3. Room \in Nat /\ Len(none) =< Room /\ IsQueue(none)
    BY <1>1, <1>2, RoomIsNatural
<1>4. Sent(none) = hookTasks \o none
    BY <1>1, <1>3, AllIsSent
<1>5. hookTasks \o <<>> = hookTasks
    BY <1>1 DEF IsQueue
<1>. QED  BY <1>2, <1>4, <1>5 DEF SendTasks

LEMMA PanelsElsewhere ==
    ASSUME Types, NEW new, NEW sessions, ReplacePanel(new, sessions)
    PROVE  \/ UNCHANGED hookTasks
           \/ \E task : task.type \notin UnitTaskTypes /\ SendTasks(<<task>>)
<1>1. Task("StopCapturingMidi", None).type \notin UnitTaskTypes
    BY DEF Task, UnitTaskTypes
<1>2. CASE panel = "source"
    BY <1>1, <1>2 DEF ReplacePanel, OnClose
<1>3. CASE panel # "source"
    BY <1>3, NothingSent DEF ReplacePanel, OnClose
<1>. QED  BY <1>2, <1>3

\* Each step of the backbone is one of few as far as the hook is concerned.
LEMMA StepsOnHook ==
    ASSUME Types, Types', [Next]_vars
    PROVE  \/ ElsewhereOnHook
           \/ ProcessNormalCommand /\ UNCHANGED unitVars
           \/ LeadsHook /\ UNCHANGED <<rtProcessors, rtInstances>>
<1>. USE DEF hookVars, hookStateVars, unitVars
<1>1. ASSUME NEW arriving, NEW timedOut, NEW touched, AudioBlock(arriving, timedOut, touched)
      PROVE  ProcessNormalCommand /\ UNCHANGED unitVars
    BY <1>1 DEF AudioBlock, OnPre
<1>2. CASE StopOrStartAudio
    BY <1>2 DEF StopOrStartAudio, SwitchAudio, ElsewhereOnHook
<1>3. CASE FreeGarbage \/ RemoveAudioHook \/ FallAsleep \/ UNCHANGED vars
    BY <1>3 DEF FreeGarbage, RemoveAudioHook, FallAsleep, vars, ElsewhereOnHook
<1>4. ASSUME NEW i \in Instances, LoadPlugin(i)
      PROVE  ElsewhereOnHook
    BY <1>4 DEF LoadPlugin, ElsewhereOnHook
<1>5. ASSUME NEW i \in Instances, InitInstanceShell(i)
      PROVE  LeadsHook /\ UNCHANGED <<rtProcessors, rtInstances>>
    BY <1>5, UnitStepsLeadHook DEF InitInstanceShell
<1>6. ASSUME NEW i \in Instances, UnloadPlugin(i)
      PROVE  \/ ElsewhereOnHook
             \/ LeadsHook /\ UNCHANGED <<rtProcessors, rtInstances>>
    BY <1>6, UnitStepsLeadHook DEF UnloadPlugin, ElsewhereOnHook
<1>7. CASE OperateUnits
  <2>1. UNCHANGED <<rtProcessors, rtInstances>>
      BY <1>7 DEF OperateUnits
  <2>2. CASE \/ \E i \in Instances, on \in BOOLEAN, n \in 0..1 : ApplyData(i, on, n)
             \/ \E i \in Instances : AddUnit(i)
             \/ \E u \in UnitIds : RemoveUnit(u)
      BY <2>1, <2>2, UnitStepsLeadHook
  <2>3. CASE \/ \E i \in Instances : ToggleGlobalControl(i)
             \/ \E u \in UnitIds : ReportActivity(u)
             \/ \E u \in UnitIds, direction \in {"input", "output"}, port \in Ports :
                   PickPort(u, direction, port)
      BY <2>1, <2>3 DEF ToggleGlobalControl, ReportActivity, PickPort, ElsewhereOnHook
  <2>. QED  BY <1>7, <2>2, <2>3 DEF OperateUnits
<1>8. CASE UpdateUnits
    BY <1>8, UnitStepsLeadHook DEF UpdateUnits
<1>9. CASE OperateControllers
  <2>1. ASSUME NEW k, NEW d, SaveController(k, d)
        PROVE  \E task : task.type \notin UnitTaskTypes /\ SendTasks(<<task>>)
      BY <2>1, RequestsElsewhere DEF SaveController
  <2>. QED  BY <1>9, <2>1 DEF OperateControllers, ToggleController, DeleteController,
                              ElsewhereOnHook
<1>10. ASSUME NEW x, DetectControllers(x) \/ (\E d \in Devices : Plug(x, d))
       PROVE  ElsewhereOnHook
    BY <1>10 DEF DetectControllers, Plug, ElsewhereOnHook
<1>11. ASSUME NEW d, Unplug(d)
       PROVE  ElsewhereOnHook
    BY <1>11 DEF Unplug, ElsewhereOnHook
<1>12. CASE ContinueTasks
  <2>1. \/ UNCHANGED hookTasks
        \/ \E task : task.type \notin UnitTaskTypes /\ SendTasks(<<task>>)
      BY <1>12, ProbesElsewhere DEF ContinueTasks, StartDetection, ContinueDetection,
                                    UpdateDeviceIdentity
  <2>. QED  BY <1>12, <2>1 DEF ContinueTasks, ElsewhereOnHook
<1>13. CASE StartLearning
  <2>1. \/ UNCHANGED hookTasks
        \/ \E task : task.type \notin UnitTaskTypes /\ SendTasks(<<task>>)
    <3>1. CASE CloseMessagePanel
        BY <3>1, PanelsElsewhere DEF CloseMessagePanel
    <3>2. ASSUME NEW s, NEW kind, StartSession(s, kind)
          PROVE  \E task : task.type \notin UnitTaskTypes /\ SendTasks(<<task>>)
      <4>1. Task("StartCapturingMidi", s).type \notin UnitTaskTypes
          BY DEF Task, UnitTaskTypes
      <4>. QED  BY <3>2, <4>1 DEF StartSession
    <3>. QED  BY <1>13, <3>1, <3>2 DEF StartLearning
  <2>. QED  BY <1>13, <2>1 DEF StartLearning, ElsewhereOnHook
<1>14. CASE ContinueLearning
  <2>1. PICK s \in Sessions : ContinueSession(s)
      BY <1>14 DEF ContinueLearning
  <2>2. \/ UNCHANGED hookTasks
        \/ \E task : task.type \notin UnitTaskTypes /\ SendTasks(<<task>>)
      BY <2>1, PanelsElsewhere DEF ContinueSession, IgnoreCaptured, EndCapture, FindMapping,
                                   MissUnit, AskForTarget, LearnTarget
  <2>. QED  BY <1>14, <2>2 DEF ContinueLearning, ElsewhereOnHook
<1>. QED
    BY <1>1, <1>2, <1>3, <1>4, <1>5, <1>6, <1>7, <1>8, <1>9, <1>10, <1>11, <1>12, <1>13, <1>14
       DEF Next

\* Whatever gets through of a task of another type.
LEMMA OtherTaskLeads ==
    ASSUME HookInv, NEW task, task.type \notin UnitTaskTypes, SendTasks(<<task>>)
    PROVE  /\ LeadsProcessors(hookTasks', rtProcessors, DOMAIN units)
           /\ LeadsInstances(hookTasks', rtInstances, DOMAIN instances)
<1>1. IsQueue(hookTasks) /\ IsQueue(<<task>>) /\ Len(<<task>>) = 1 /\ Room \in Nat
  <2>1. hookTasks \in Seq(HookTaskRecords)
      BY DEF HookInv, Types, QueueTypes
  <2>2. IsQueue(hookTasks)
      BY <2>1, Zenon DEF IsQueue
  <2>. QED  BY <2>2, SingleTask, RoomIsNatural
<1>2. CASE Room = 0
    BY <1>1, <1>2, NothingIsSent DEF SendTasks, HookInv
<1>3. CASE Room # 0
  <2>1. PICK s : s = <<task>>
      OBVIOUS
  <2>2. hookTasks' = hookTasks \o s
    <3>1. IsQueue(s) /\ Len(s) =< Room
        BY <1>1, <1>3, <2>1
    <3>2. Sent(s) = hookTasks \o s
        BY <1>1, <3>1, AllIsSent
    <3>. QED  BY <2>1, <3>2 DEF SendTasks
  <2>3. \A k \in 1..Len(s) : s[k].type \notin UnitTaskTypes
      BY <1>1, <2>1, SingleTask
  <2>4. /\ LeadsProcessors(s, DOMAIN units, DOMAIN units)
        /\ LeadsInstances(s, DOMAIN instances, DOMAIN instances)
      BY <2>3, LeadingNowhere DEF LeadsProcessors, LeadsInstances, UnitTaskTypes
  <2>. QED  BY <1>1, <2>1, <2>2, <2>4, LeadingUnits DEF HookInv
<1>. QED  BY <1>2, <1>3

LEMMA NextHookInv == HookInv /\ [Next]_vars /\ [HasRoom]_vars => HookInv'
<1>. SUFFICES ASSUME HookInv, [Next]_vars, [HasRoom]_vars
              PROVE  HookInv'
    OBVIOUS
<1>1. Types /\ Types'
    BY NextTypes DEF HookInv
<1>2. IsQueue(hookTasks)
  <2>1. hookTasks \in Seq(HookTaskRecords)
      BY <1>1 DEF Types, QueueTypes
  <2>. QED  BY <2>1, Zenon DEF IsQueue
<1>3. CASE ElsewhereOnHook
  <2>1. CASE UNCHANGED hookTasks
      BY <1>1, <1>3, <2>1 DEF HookInv, ElsewhereOnHook, LeadsProcessors, LeadsInstances, Leads, Reaches
  <2>2. CASE \E task : task.type \notin UnitTaskTypes /\ SendTasks(<<task>>)
    <3>1. /\ LeadsProcessors(hookTasks', rtProcessors, DOMAIN units)
          /\ LeadsInstances(hookTasks', rtInstances, DOMAIN instances)
        BY <2>2, OtherTaskLeads
    <3>. QED  BY <1>1, <1>3, <3>1 DEF HookInv, ElsewhereOnHook, LeadsProcessors, LeadsInstances,
                                      Leads, Reaches
  <2>. QED  BY <1>3, <2>1, <2>2 DEF ElsewhereOnHook
<1>4. CASE ProcessNormalCommand /\ UNCHANGED unitVars
  <2>1. /\ rtProcessors' = AddOrRemove(rtProcessors, "AddRealTimeProcessor", "RemoveRealTimeProcessor")
        /\ rtInstances' = AddOrRemove(rtInstances, "AddRealTimeInstance", "RemoveRealTimeInstance")
      BY <1>4 DEF ProcessNormalCommand
  <2>2. Leads(hookTasks', rtProcessors', DOMAIN units, "AddRealTimeProcessor", "RemoveRealTimeProcessor")
      BY <1>2, <1>4, <2>1, BlockLeads DEF HookInv, LeadsProcessors
  <2>3. Leads(hookTasks', rtInstances', DOMAIN instances, "AddRealTimeInstance", "RemoveRealTimeInstance")
      BY <1>2, <1>4, <2>1, BlockLeads DEF HookInv, LeadsInstances
  <2>. QED  BY <1>1, <1>4, <2>2, <2>3 DEF HookInv, LeadsProcessors, LeadsInstances, Leads, Reaches,
                                          unitVars
<1>5. CASE LeadsHook /\ UNCHANGED <<rtProcessors, rtInstances>>
  <2>1. CASE UNCHANGED vars
      BY <1>1, <2>1 DEF vars, hookVars, hookStateVars, unitVars, HookInv, LeadsProcessors,
                        LeadsInstances, Leads, Reaches
  <2>2. CASE HasRoom
    <3>1. PICK tasks :
              /\ IsQueue(tasks) /\ hookTasks' = Sent(tasks)
              /\ LeadsProcessors(tasks, DOMAIN units, DOMAIN units')
              /\ LeadsInstances(tasks, DOMAIN instances, DOMAIN instances')
              /\ HasRoom => Len(tasks) =< Room
        BY <1>5 DEF LeadsHook
    <3>2. hookTasks' = hookTasks \o tasks
        BY <1>2, <2>2, <3>1, AllIsSent
    <3>3. /\ LeadsProcessors(hookTasks', rtProcessors, DOMAIN units')
          /\ LeadsInstances(hookTasks', rtInstances, DOMAIN instances')
        BY <1>2, <3>1, <3>2, LeadingUnits DEF HookInv
    <3>. QED  BY <1>1, <1>5, <3>3 DEF HookInv, LeadsProcessors, LeadsInstances, Leads, Reaches
  <2>. QED  BY <2>1, <2>2
<1>. QED  BY <1>1, <1>3, <1>4, <1>5, StepsOnHook

(* Whenever the audio hook has nothing left to do, it drives exactly the   *)
(* real-time processors and instances of the registered units and          *)
(* instances (register_unit, unregister_unit, register_instance,           *)
(* unregister_instance), also across a sleep, provided that no task to the *)
(* hook has been dropped.                                                  *)
THEOREM HookFollowsUnits == Spec /\ [][HasRoom]_vars => []HookMirrorsUnits
<1>1. HookInv => HookMirrorsUnits
  <2>. SUFFICES ASSUME HookInv, hookTasks = <<>>
                PROVE  rtProcessors = DOMAIN units /\ rtInstances = DOMAIN instances
      BY DEF HookMirrorsUnits, Idle
  <2>1. \A id : id \in rtProcessors <=> id \in DOMAIN units
      BY DEF HookInv, LeadsProcessors, Leads, Reaches
  <2>2. \A id : id \in rtInstances <=> id \in DOMAIN instances
      BY DEF HookInv, LeadsInstances, Leads, Reaches
  <2>. QED  BY <2>1, <2>2
<1>. QED  BY <1>1, InitHookInv, NextHookInv, PTL DEF Spec
==============================================================================
