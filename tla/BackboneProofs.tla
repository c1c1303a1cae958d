--------------------------- MODULE BackboneProofs ---------------------------
(***************************************************************************)
(* What holds of the backbone for any number of plug-ins, units, devices   *)
(* and sessions, any capacity of its channels and any amount of work:      *)
(* nothing that the audio thread has dropped is left behind when the       *)
(* backbone sleeps, the audio hook captures MIDI exactly when the message  *)
(* panel asks for it, and controller detection pairs the ports of one      *)
(* device and leaves no traces.  In between, the facts about the channel   *)
(* to the audio hook and the tasks sent to it, which AutoUnitsProofs needs *)
(* as well.                                                                *)
(***************************************************************************)
EXTENDS Backbone, FiniteSetTheorems, TLAPS

Commands == {"value", Stop}

\* The channel without its last command holds only values.
OnlyLastStops == \A k \in 1..Len(garbage) : garbage[k] = Stop => k = Len(garbage)

\* While the hook is there, the deallocation thread runs and hasn't been told
\* to stop.  While it's joined, it runs until it meets the signal, which is
\* the last command; so it leaves nothing behind.
GarbageInv ==
    /\ garbage \in Seq(Commands)
    /\ phase \in {"asleep", "awake", "draining", "joining"}
    /\ phase \in {"awake", "draining"} =>
          deallocating = TRUE /\ \A k \in 1..Len(garbage) : garbage[k] # Stop
    /\ phase = "joining" => OnlyLastStops /\ (deallocating = TRUE \/ garbage = <<>>)
    /\ phase = "asleep" => garbage = <<>>

\* What a step does to the part of the state that the invariant is about.
Elsewhere == UNCHANGED <<allocatorVars, phase>>

Offload ==
    /\ phase \in {"awake", "draining"}
    /\ garbage' = TrySend(<<"value">>)
    /\ UNCHANGED <<deallocating, phase>>

LEMMA InitGarbage == Init => GarbageInv
<1>. SUFFICES ASSUME NEW scenario \in Scenarios,
                     garbage = <<>>, deallocating = (scenario.instances # {}),
                     phase = IF scenario.instances = {} THEN "asleep" ELSE "awake"
              PROVE  GarbageInv
    BY DEF Init
<1>1. CASE scenario.instances = {}
    BY <1>1 DEF GarbageInv
<1>2. CASE scenario.instances # {}
  <2>1. deallocating = TRUE
      BY <1>2, Zenon
  <2>. QED  BY <1>2, <2>1 DEF GarbageInv
<1>. QED  BY <1>1, <1>2

\* Each step of the backbone is one of few as far as garbage is concerned.
LEMMA StepsOnGarbage ==
    ASSUME [Next]_vars
    PROVE  \/ Elsewhere
           \/ Offload
           \/ Deallocate /\ UNCHANGED phase
           \/ phase = "asleep" /\ phase' = "awake" /\ StartAsyncDeallocation
           \/ phase = "awake" /\ phase' = "draining" /\ UNCHANGED allocatorVars
           \/ RemoveAudioHook
           \/ FallAsleep
<1>1. ASSUME NEW arriving, NEW timedOut, NEW touched, AudioBlock(arriving, timedOut, touched)
      PROVE  Offload \/ Elsewhere
    BY <1>1 DEF AudioBlock, Offload, Elsewhere, HookIsAdded, DeallocInRealTime
<1>2. StopOrStartAudio => Elsewhere
    BY DEF StopOrStartAudio, Elsewhere
<1>3. FreeGarbage => Deallocate /\ UNCHANGED phase
    BY DEF FreeGarbage, appVars
<1>4. ASSUME NEW i, LoadPlugin(i)
      PROVE  \/ Elsewhere
             \/ phase = "asleep" /\ phase' = "awake" /\ StartAsyncDeallocation
    BY <1>4 DEF LoadPlugin, WakeUp, Elsewhere
<1>5. ASSUME NEW i, InitInstanceShell(i)
      PROVE  Elsewhere
    BY <1>5 DEF InitInstanceShell, Elsewhere
<1>6. ASSUME NEW i, UnloadPlugin(i)
      PROVE  \/ Elsewhere
             \/ phase = "awake" /\ phase' = "draining" /\ UNCHANGED allocatorVars
    BY <1>6 DEF UnloadPlugin, Elsewhere
<1>7. OperateUnits => Elsewhere
    BY DEF OperateUnits, Elsewhere
<1>8. UpdateUnits => Elsewhere
    BY DEF UpdateUnits, Elsewhere, appVars
<1>9. OperateControllers => Elsewhere
    BY DEF OperateControllers, Elsewhere
<1>10. ASSUME NEW x, DetectControllers(x) \/ \E d \in Devices : Plug(x, d)
       PROVE  Elsewhere
    BY <1>10 DEF DetectControllers, Plug, Elsewhere
<1>11. ASSUME NEW d, Unplug(d)
       PROVE  Elsewhere
    BY <1>11 DEF Unplug, Elsewhere
<1>12. ContinueTasks => Elsewhere
    BY DEF ContinueTasks, Elsewhere, appVars
<1>13. StartLearning => Elsewhere
    BY DEF StartLearning, Elsewhere
<1>14. ContinueLearning => Elsewhere
    BY DEF ContinueLearning, Elsewhere, appVars
<1>15. UNCHANGED vars => Elsewhere
    BY DEF vars, appVars, Elsewhere
<1>. QED
    BY <1>1, <1>2, <1>3, <1>4, <1>5, <1>6, <1>7, <1>8, <1>9, <1>10, <1>11, <1>12, <1>13, <1>14,
       <1>15 DEF Next

\* What try_send puts into the channel: the command, or nothing.
LEMMA Sending ==
    ASSUME garbage \in Seq(Commands), NEW c \in Commands
    PROVE  /\ TrySend(<<c>>) \in Seq(Commands)
           /\ \A k \in 1..Len(TrySend(<<c>>)) :
                 \/ k \in 1..Len(garbage) /\ TrySend(<<c>>)[k] = garbage[k]
                 \/ k = Len(TrySend(<<c>>)) /\ TrySend(<<c>>)[k] = c
<1>1. <<c>> \in Seq(Commands)
    OBVIOUS
<1>2. CASE TrySend(<<c>>) = garbage
    BY <1>2
<1>3. CASE TrySend(<<c>>) = garbage \o <<c>>
  <2>1. /\ garbage \o <<c>> \in Seq(Commands)
        /\ Len(garbage \o <<c>>) = Len(garbage) + 1
      BY <1>1
  <2>2. \A k \in 1..Len(garbage) : (garbage \o <<c>>)[k] = garbage[k]
      OBVIOUS
  <2>3. (garbage \o <<c>>)[Len(garbage) + 1] = c
      OBVIOUS
  <2>4. ASSUME NEW k \in 1..Len(TrySend(<<c>>))
        PROVE  k \in 1..Len(garbage) \/ k = Len(garbage) + 1
      BY <1>3, <2>1
  <2>. QED  BY <1>3, <2>1, <2>2, <2>3, <2>4
<1>. QED  BY <1>2, <1>3 DEF TrySend

\* Taking the first element of a queue moves the others up.
LEMMA TailElements ==
    ASSUME NEW S, NEW q \in Seq(S), q # <<>>
    PROVE  /\ Tail(q) \in Seq(S) /\ Len(Tail(q)) = Len(q) - 1
           /\ 1 \in 1..Len(q) /\ Head(q) = q[1]
           /\ \A k \in 1..Len(Tail(q)) : k + 1 \in 1..Len(q) /\ Tail(q)[k] = q[k + 1]
OBVIOUS

LEMMA NextGarbage == GarbageInv /\ [Next]_vars => GarbageInv'
<1>. SUFFICES ASSUME GarbageInv, [Next]_vars
              PROVE  GarbageInv'
    OBVIOUS
<1>. USE DEF GarbageInv, OnlyLastStops, Commands
<1>1. CASE Elsewhere
    BY <1>1 DEF Elsewhere, allocatorVars
<1>2. CASE Offload
    BY <1>2, Sending, AllocatorAssumption DEF Offload
<1>3. CASE Deallocate /\ UNCHANGED phase
  <2>1. garbage' \in Seq(Commands) /\ Len(garbage') = Len(garbage) - 1
      BY <1>3, TailElements DEF Deallocate
  <2>2. \A k \in 1..Len(garbage') : k + 1 \in 1..Len(garbage) /\ garbage'[k] = garbage[k + 1]
      BY <1>3, TailElements DEF Deallocate
  <2>3. 1 \in 1..Len(garbage) /\ Head(garbage) = garbage[1] /\ Len(garbage) \in Nat
      BY <1>3, TailElements DEF Deallocate
  <2>4. CASE Head(garbage) # Stop
    <3>1. deallocating' = TRUE
        BY <1>3, <2>4 DEF Deallocate
    <3>. QED  BY <1>3, <2>1, <2>2, <2>3, <3>1
  <2>5. CASE Head(garbage) = Stop
    <3>1. phase \notin {"awake", "draining", "asleep"}
        BY <1>3, <2>3, <2>5 DEF Deallocate
    <3>2. phase = "joining" /\ Len(garbage) = 1
        BY <2>3, <2>5, <3>1
    <3>3. garbage' = <<>>
        BY <2>1, <3>2
    <3>. QED  BY <1>3, <3>2, <3>3
  <2>. QED  BY <2>4, <2>5
<1>4. CASE phase = "asleep" /\ phase' = "awake" /\ StartAsyncDeallocation
    BY <1>4 DEF StartAsyncDeallocation
<1>5. CASE phase = "awake" /\ phase' = "draining" /\ UNCHANGED allocatorVars
    BY <1>5 DEF allocatorVars
<1>6. CASE RemoveAudioHook
    BY <1>6, Sending DEF RemoveAudioHook, StopAsyncDeallocation
<1>7. CASE FallAsleep
    BY <1>7 DEF FallAsleep, allocatorVars
<1>. QED  BY <1>1, <1>2, <1>3, <1>4, <1>5, <1>6, <1>7, StepsOnGarbage

(* A sleeping backbone has freed everything that the audio thread has      *)
(* dropped (go_to_sleep removes the hook before it stops the deallocation  *)
(* thread and joins it).                                                   *)
THEOREM SleepLeavesNoGarbage == Spec => []GarbageIsFreed
<1>1. GarbageInv => GarbageIsFreed
    BY DEF GarbageInv, GarbageIsFreed
<1>. QED  BY <1>1, InitGarbage, NextGarbage, PTL DEF Spec

------------------------------------------------------------------------------
(* The channel to the audio hook                                           *)

IsQueue(tasks) == \E S : tasks \in Seq(S)

LEMMA SubQueue ==
    ASSUME NEW S, NEW tasks \in Seq(S), NEW n \in 0..Len(tasks)
    PROVE  /\ SubSeq(tasks, 1, n) \in Seq(S) /\ Len(SubSeq(tasks, 1, n)) = n
           /\ \A k \in 1..n : SubSeq(tasks, 1, n)[k] = tasks[k]
OBVIOUS

LEMMA RoomIsNatural == IsQueue(hookTasks) => Room \in Nat
BY HookAssumption DEF IsQueue, Room

LEMMA AcceptedLength ==
    ASSUME IsQueue(hookTasks), NEW tasks, IsQueue(tasks)
    PROVE  Min({Len(tasks), Room}) \in 0..Len(tasks) /\ Min({Len(tasks), Room}) =< Room
<1>1. Room \in Nat /\ Len(tasks) \in Nat
    BY RoomIsNatural DEF IsQueue
<1>2. \E n \in {Len(tasks), Room} : \A y \in {Len(tasks), Room} : n =< y
    BY <1>1
<1>. QED  BY <1>1, <1>2 DEF Min

\* What is in the channel after sending: the former tasks, then some of the
\* new ones.
LEMMA SentTasks ==
    ASSUME IsQueue(hookTasks), NEW tasks, IsQueue(tasks)
    PROVE  /\ IsQueue(Sent(tasks))
           /\ \A k \in 1..Len(hookTasks) :
                 k \in 1..Len(Sent(tasks)) /\ Sent(tasks)[k] = hookTasks[k]
           /\ \A k \in 1..Len(Sent(tasks)) :
                 \/ k \in 1..Len(hookTasks) /\ Sent(tasks)[k] = hookTasks[k]
                 \/ /\ k - Len(hookTasks) \in 1..Len(tasks)
                    /\ Sent(tasks)[k] = tasks[k - Len(hookTasks)]
<1>. DEFINE n == Min({Len(tasks), Room})
            new == SubSeq(tasks, 1, n)
<1>1. PICK S : hookTasks \in Seq(S)
    BY DEF IsQueue
<1>2. PICK T : tasks \in Seq(T)
    BY DEF IsQueue
<1>3. n \in 0..Len(tasks)
    BY AcceptedLength
<1>4. /\ new \in Seq(T) /\ Len(new) = n
      /\ \A k \in 1..n : new[k] = tasks[k]
    BY <1>2, <1>3, SubQueue
<1>. HIDE DEF n, new
<1>5. hookTasks \in Seq(S \cup T) /\ new \in Seq(S \cup T)
    BY <1>1, <1>4
<1>6. hookTasks \o new \in Seq(S \cup T)
    BY <1>5
<1>7. /\ \A k \in 1..Len(hookTasks) :
            k \in 1..Len(hookTasks \o new) /\ (hookTasks \o new)[k] = hookTasks[k]
      /\ \A k \in 1..Len(hookTasks \o new) :
            \/ k \in 1..Len(hookTasks) /\ (hookTasks \o new)[k] = hookTasks[k]
            \/ k - Len(hookTasks) \in 1..n /\ (hookTasks \o new)[k] = new[k - Len(hookTasks)]
    BY <1>4, <1>5
<1>8. Sent(tasks) = hookTasks \o new
    BY DEF Sent, Accepted, n, new
<1>9. Len(tasks) \in Nat /\ n \in 0..Len(tasks)
    BY <1>2, <1>3
<1>. QED  BY <1>4, <1>6, <1>7, <1>8, <1>9 DEF IsQueue

LEMMA NothingIsSent ==
    ASSUME IsQueue(hookTasks), NEW tasks, IsQueue(tasks), Room = 0
    PROVE  Sent(tasks) = hookTasks
<1>1. Min({Len(tasks), Room}) = 0
    BY AcceptedLength
<1>2. SubSeq(tasks, 1, 0) = <<>>
    BY DEF IsQueue
<1>3. hookTasks \o <<>> = hookTasks
    BY DEF IsQueue
<1>. QED  BY <1>1, <1>2, <1>3 DEF Sent, Accepted

\* What the hook does to the channel in one block.
LEMMA QueueAfterTask ==
    ASSUME IsQueue(hookTasks), ProcessNormalCommand
    PROVE  /\ IsQueue(hookTasks')
           /\ Len(hookTasks) \in Nat
           /\ hookTasks # <<>> => /\ 1 \in 1..Len(hookTasks) /\ NextTask = hookTasks[1]
                                  /\ Len(hookTasks') = Len(hookTasks) - 1
           /\ \A k \in 1..Len(hookTasks') :
                 /\ k + 1 \in 1..Len(hookTasks) /\ hookTasks # <<>>
                 /\ hookTasks'[k] = hookTasks[k + 1]
           /\ hookTasks = <<>> => NextTask = Task("Nothing", None)
<1>1. PICK S : hookTasks \in Seq(S)
    BY DEF IsQueue
<1>2. CASE hookTasks = <<>>
    BY <1>1, <1>2 DEF ProcessNormalCommand, IsQueue, NextTask
<1>3. CASE hookTasks # <<>>
    BY <1>1, <1>3, TailElements DEF ProcessNormalCommand, IsQueue, NextTask
<1>. QED  BY <1>2, <1>3

\* As long as there is room for all, nothing is dropped.
LEMMA AllIsSent ==
    ASSUME IsQueue(hookTasks), NEW tasks, IsQueue(tasks), Len(tasks) =< Room
    PROVE  Sent(tasks) = hookTasks \o tasks
<1>1. Len(tasks) \in Nat /\ Room \in Nat
    BY RoomIsNatural DEF IsQueue
<1>2. Min({Len(tasks), Room}) = Len(tasks)
    BY <1>1 DEF Min
<1>3. SubSeq(tasks, 1, Len(tasks)) = tasks
    BY DEF IsQueue
<1>. QED  BY <1>2, <1>3 DEF Sent, Accepted

LEMMA Concatenation ==
    ASSUME NEW s, NEW t, IsQueue(s), IsQueue(t)
    PROVE  /\ IsQueue(s \o t) /\ Len(s \o t) = Len(s) + Len(t)
           /\ Len(s) \in Nat /\ Len(t) \in Nat
           /\ \A k \in 1..Len(s) : k \in 1..Len(s \o t) /\ (s \o t)[k] = s[k]
           /\ \A k \in 1..Len(t) : /\ k + Len(s) \in 1..Len(s \o t)
                                   /\ (s \o t)[k + Len(s)] = t[k]
           /\ \A k \in 1..Len(s \o t) :
                 \/ k \in 1..Len(s) /\ (s \o t)[k] = s[k]
                 \/ k - Len(s) \in 1..Len(t) /\ (s \o t)[k] = t[k - Len(s)]
<1>1. PICK S : s \in Seq(S)
    BY DEF IsQueue
<1>2. PICK T : t \in Seq(T)
    BY DEF IsQueue
<1>3. s \in Seq(S \cup T) /\ t \in Seq(S \cup T)
    BY <1>1, <1>2
<1>4. s \o t \in Seq(S \cup T) /\ Len(s \o t) = Len(s) + Len(t)
    BY <1>3
<1>. QED  BY <1>3, <1>4 DEF IsQueue

LEMMA SingleTask ==
    ASSUME NEW task
    PROVE  IsQueue(<<task>>) /\ Len(<<task>>) = 1 /\ \A k \in 1..1 : <<task>>[k] = task
<1>1. /\ <<task>> \in Seq({task}) /\ Len(<<task>>) = 1
      /\ \A k \in 1..1 : <<task>>[k] = task
    OBVIOUS
<1>. QED  BY <1>1, Zenon DEF IsQueue

------------------------------------------------------------------------------
(* The tasks that the steps of instances and units send                    *)

UnitTaskRecords ==
    [type: {"AddRealTimeInstance", "RemoveRealTimeInstance"}, id: Instances] \cup
    [type: {"AddRealTimeProcessor", "RemoveRealTimeProcessor"}, id: UnitIds]

IsUnitQueue(tasks) == tasks \in Seq(UnitTaskRecords)

SendsUnitTasks == \E tasks : IsUnitQueue(tasks) /\ hookTasks' = Sent(tasks)

\* The tasks about some units: one for each of them.
LEMMA TasksOfUnits ==
    ASSUME NEW type, NEW ids, IsFiniteSet(ids)
    PROVE  /\ UnitTasks(type, ids) \in Seq([type: {type}, id: ids])
           /\ Len(UnitTasks(type, ids)) = Cardinality(ids)
           /\ \A u \in ids : \E k \in 1..Len(UnitTasks(type, ids)) :
                 UnitTasks(type, ids)[k].id = u
<1>. DEFINE n == Cardinality(ids)
            order == SetToSeq(ids)
            task(k) == Task(type, order[k])
            tasks == [k \in 1..n |-> task(k)]
<1>1. n \in Nat /\ ExistsBijection(1..n, ids)
    BY FS_CardinalityType
<1>2. order \in [1..n -> ids] /\ IsInjective(order)
  <2>1. PICK f \in Bijection(1..n, ids) : TRUE
      BY <1>1 DEF ExistsBijection
  <2>2. f \in [1..n -> ids] /\ \A a, b \in 1..n : f[a] = f[b] => a = b
      BY <2>1 DEF Bijection, Injection, IsInjective
  <2>3. IsInjective(f)
      BY <2>2 DEF IsInjective
  <2>. QED  BY <2>2, <2>3 DEF SetToSeq
<1>3. \A u \in ids : \E k \in 1..n : order[k] = u
  <2>1. order \in Injection(1..n, ids)
      BY <1>2 DEF Injection
  <2>2. IsFiniteSet(1..n) /\ Cardinality(1..n) = n
      BY <1>1, FS_Interval
  <2>3. order \in Surjection(1..n, ids)
      BY <2>1, <2>2, FS_Injection
  <2>. QED  BY <2>3 DEF Surjection
<1>4. UnitTasks(type, ids) = tasks
    BY DEF UnitTasks
<1>5. \A k \in 1..n : task(k) \in [type: {type}, id: ids] /\ task(k).id = order[k]
    BY <1>2 DEF Task
<1>. HIDE DEF task, n, order
<1>6. tasks \in Seq([type: {type}, id: ids]) /\ Len(tasks) = n
    BY <1>1, <1>5
<1>7. \A k \in 1..n : tasks[k] = task(k)
    OBVIOUS
<1>. QED  BY <1>3, <1>4, <1>5, <1>6, <1>7 DEF n

LEMMA UnitTasksOfUnits ==
    ASSUME NEW ids \in SUBSET UnitIds
    PROVE  IsUnitQueue(AddTasks(ids)) /\ IsUnitQueue(RemoveTasks(ids))
<1>1. IsFiniteSet(ids)
    BY UnitAssumption, FS_Subset
<1>2. ASSUME NEW type \in {"AddRealTimeProcessor", "RemoveRealTimeProcessor"}
      PROVE  IsUnitQueue(UnitTasks(type, ids))
  <2>. DEFINE own == [type: {type}, id: ids]
  <2>1. own \subseteq UnitTaskRecords
      BY DEF UnitTaskRecords
  <2>2. UnitTasks(type, ids) \in Seq(own)
      BY <1>1, TasksOfUnits
  <2>. HIDE DEF own
  <2>. QED  BY <2>1, <2>2 DEF IsUnitQueue
<1>. QED  BY <1>2 DEF AddTasks, RemoveTasks

LEMMA UnitTaskOfInstance ==
    ASSUME NEW i \in Instances, NEW type \in {"AddRealTimeInstance", "RemoveRealTimeInstance"}
    PROVE  IsUnitQueue(<<Task(type, i)>>)
<1>1. Task(type, i) \in UnitTaskRecords
    BY DEF Task, UnitTaskRecords
<1>. QED  BY <1>1 DEF IsUnitQueue

LEMMA UnitQueues ==
    ASSUME NEW s, NEW t, IsUnitQueue(s), IsUnitQueue(t)
    PROVE  IsUnitQueue(s \o t)
BY DEF IsUnitQueue

\* A finite set has subsets of every size up to its own.
LEMMA SubsetOfSize ==
    ASSUME NEW S, IsFiniteSet(S), NEW n \in Nat, n =< Cardinality(S)
    PROVE  \E T \in SUBSET S : Cardinality(T) = n
<1>1. Cardinality(S) \in Nat /\ ExistsBijection(1..Cardinality(S), S)
    BY FS_CardinalityType
<1>2. PICK f \in Bijection(1..Cardinality(S), S) : TRUE
    BY <1>1 DEF ExistsBijection
<1>3. /\ f \in [1..Cardinality(S) -> S]
      /\ \A a, b \in 1..Cardinality(S) : f[a] = f[b] => a = b
    BY <1>2 DEF Bijection, Injection, IsInjective
<1>. DEFINE T == {f[k] : k \in 1..n}
            g == [k \in 1..n |-> f[k]]
<1>4. g \in Injection(1..n, T) /\ g \in Surjection(1..n, T)
  <2>1. g \in [1..n -> T] /\ \A a, b \in 1..n : g[a] = g[b] => a = b
      BY <1>1, <1>3
  <2>2. \A t \in T : \E k \in 1..n : g[k] = t
      OBVIOUS
  <2>. HIDE DEF g, T
  <2>. QED  BY <2>1, <2>2 DEF Injection, IsInjective, Surjection
<1>5. T \in SUBSET S
    BY <1>1, <1>3
<1>. HIDE DEF g, T
<1>6. Cardinality(T) = n
    BY <1>4, FS_CountingElements DEF Bijection, ExistsBijection
<1>. QED  BY <1>5, <1>6

LEMMA FreshUnits ==
    ASSUME NEW n \in Nat, EnoughIds(n)
    PROVE  /\ FreshIds(n) \in SUBSET UnitIds /\ Cardinality(FreshIds(n)) = n
           /\ FreshIds(n) \cap DOMAIN units = {}
<1>1. IsFiniteSet(FreeIds) /\ FreeIds \subseteq UnitIds
    BY UnitAssumption, FS_Difference DEF FreeIds
<1>2. Cardinality(FreeIds) \in Nat /\ n =< Cardinality(FreeIds)
    BY <1>1, FS_CardinalityType DEF EnoughIds
<1>3. FreshIds(n) \in SUBSET FreeIds /\ Cardinality(FreshIds(n)) = n
    BY <1>1, <1>2, SubsetOfSize DEF FreshIds
<1>. QED  BY <1>1, <1>3 DEF FreeIds, IdsInUse

LEMMA UnitsOfInstances ==
    ASSUME NEW i
    PROVE  UnitsOf(i) \in SUBSET UnitIds /\ AdditionalUnitsOf(i) \in SUBSET UnitsOf(i)
BY DEF UnitsOf, AdditionalUnitsOf

LEMMA UnitSteps ==
    ASSUME \/ \E i \in Instances : CreateInstance(i) \/ DropInstance(i) \/ AddUnit(i)
           \/ \E u \in UnitIds : RemoveUnit(u)
           \/ \E i \in Instances, on \in BOOLEAN, n \in 0..1 : ApplyData(i, on, n)
           \/ UpdateAutoUnits
    PROVE  SendsUnitTasks
<1>. USE DEF SendsUnitTasks, SendTasks
<1>1. ASSUME NEW i \in Instances, CreateInstance(i)
      PROVE  SendsUnitTasks
  <2>1. EnoughIds(1)
      BY <1>1 DEF CreateInstance
  <2>2. PICK u \in FreshIds(1) : SendTasks(AddTasks({u}) \o <<Task("AddRealTimeInstance", i)>>)
      BY <1>1 DEF CreateInstance
  <2>3. IsUnitQueue(AddTasks({u})) /\ IsUnitQueue(<<Task("AddRealTimeInstance", i)>>)
    <3>1. {u} \in SUBSET UnitIds
        BY <2>1, <2>2, FreshUnits
    <3>. QED  BY <3>1, UnitTasksOfUnits, UnitTaskOfInstance
  <2>. QED  BY <2>2, <2>3, UnitQueues
<1>2. ASSUME NEW i \in Instances, DropInstance(i)
      PROVE  SendsUnitTasks
  <2>. DEFINE mainUnits == UnitsOf(i) \ AdditionalUnitsOf(i)
  <2>1. SendTasks(<<Task("RemoveRealTimeInstance", i)>> \o RemoveTasks(mainUnits)
                  \o RemoveTasks(AdditionalUnitsOf(i)))
      BY <1>2 DEF DropInstance
  <2>2. mainUnits \in SUBSET UnitIds /\ AdditionalUnitsOf(i) \in SUBSET UnitIds
      BY UnitsOfInstances
  <2>3. /\ IsUnitQueue(RemoveTasks(mainUnits)) /\ IsUnitQueue(RemoveTasks(AdditionalUnitsOf(i)))
        /\ IsUnitQueue(<<Task("RemoveRealTimeInstance", i)>>)
      BY <2>2, UnitTasksOfUnits, UnitTaskOfInstance
  <2>. HIDE DEF mainUnits
  <2>4. IsUnitQueue(<<Task("RemoveRealTimeInstance", i)>> \o RemoveTasks(mainUnits))
      BY <2>3, UnitQueues
  <2>5. IsUnitQueue((<<Task("RemoveRealTimeInstance", i)>> \o RemoveTasks(mainUnits))
                    \o RemoveTasks(AdditionalUnitsOf(i)))
      BY <2>3, <2>4, UnitQueues
  <2>. QED  BY <2>1, <2>5
<1>3. ASSUME NEW i \in Instances, AddUnit(i)
      PROVE  SendsUnitTasks
  <2>1. EnoughIds(1)
      BY <1>3 DEF AddUnit
  <2>2. PICK u \in FreshIds(1) : SendTasks(AddTasks({u}))
      BY <1>3 DEF AddUnit
  <2>3. {u} \in SUBSET UnitIds
      BY <2>1, <2>2, FreshUnits
  <2>. QED  BY <2>2, <2>3, UnitTasksOfUnits
<1>4. ASSUME NEW u \in UnitIds, RemoveUnit(u)
      PROVE  SendsUnitTasks
    BY <1>4, UnitTasksOfUnits DEF RemoveUnit
<1>5. ASSUME NEW i \in Instances, NEW on, NEW n \in 0..1, ApplyData(i, on, n)
      PROVE  SendsUnitTasks
  <2>1. EnoughIds(n) /\ SendTasks(AddTasks(FreshIds(n)) \o RemoveTasks(AdditionalUnitsOf(i)))
      BY <1>5 DEF ApplyData
  <2>2. FreshIds(n) \in SUBSET UnitIds /\ AdditionalUnitsOf(i) \in SUBSET UnitIds
      BY <2>1, FreshUnits, UnitsOfInstances
  <2>3. IsUnitQueue(AddTasks(FreshIds(n))) /\ IsUnitQueue(RemoveTasks(AdditionalUnitsOf(i)))
      BY <2>2, UnitTasksOfUnits
  <2>. QED  BY <2>1, <2>3, UnitQueues
<1>6. CASE UpdateAutoUnits
  <2>. DEFINE removed == UnitIds \cap (DOMAIN units \ DOMAIN units')
              added == UnitIds \cap (DOMAIN units' \ DOMAIN units)
  <2>1. SendTasks(RemoveTasks(removed) \o AddTasks(added))
      BY <1>6 DEF UpdateAutoUnits
  <2>2. PICK tasks : tasks = RemoveTasks(removed) \o AddTasks(added)
      OBVIOUS
  <2>3. IsUnitQueue(RemoveTasks(removed)) /\ IsUnitQueue(AddTasks(added))
      BY UnitTasksOfUnits
  <2>4. IsUnitQueue(tasks)
      BY <2>2, <2>3, UnitQueues
  <2>. QED  BY <2>1, <2>2, <2>4
<1>. QED  BY <1>1, <1>2, <1>3, <1>4, <1>5, <1>6

------------------------------------------------------------------------------
(* Capturing touched control elements                                      *)

\* Each step finds room in the channel for a task about each unit that comes
\* or goes and for one more.  (A sender doesn't repeat what it had to drop
\* because the audio thread has been stopped or busy for too long.)
HasRoom == Room > Cardinality(DOMAIN units' \ DOMAIN units) + Cardinality(DOMAIN units \ DOMAIN units')

IsCaptureTask(task) == task.type \in {"StartCapturingMidi", "StopCapturingMidi"}

\* What the hook does last about capturing, when it has processed all tasks in
\* the channel, is what the panel wants; if there is nothing about it in the
\* channel, it has been done already.
CaptureInv ==
    /\ IsQueue(hookTasks)
    /\ \A k \in 1..Len(hookTasks) :
          hookTasks[k].type = "StartCapturingMidi" => hookTasks[k].id \in Sessions
    /\ (\A k \in 1..Len(hookTasks) : ~IsCaptureTask(hookTasks[k])) =>
          (midiCapture # None <=> panel = "source")
    /\ \A k \in 1..Len(hookTasks) :
          /\ IsCaptureTask(hookTasks[k])
          /\ \A l \in 1..Len(hookTasks) : l > k => ~IsCaptureTask(hookTasks[l])
          => (hookTasks[k].type = "StartCapturingMidi" <=> panel = "source")

LEMMA InitCaptureInv == Init => CaptureInv
<1>. SUFFICES ASSUME hookTasks = <<>>, midiCapture = None, panel = "nothing"
              PROVE  CaptureInv
    BY DEF Init, InitCapture
<1>1. hookTasks \in Seq({}) /\ Len(hookTasks) = 0
    OBVIOUS
<1>. QED  BY <1>1 DEF CaptureInv, IsQueue

SendsOtherTasks ==
    \E tasks : /\ IsQueue(tasks) /\ \A k \in 1..Len(tasks) : ~IsCaptureTask(tasks[k])
               /\ hookTasks' = Sent(tasks)

ElsewhereOnCapture ==
    /\ UNCHANGED <<midiCapture, panel>>
    /\ UNCHANGED hookTasks \/ SendsOtherTasks

StartsCapturing ==
    /\ UNCHANGED <<midiCapture, units>>
    /\ panel' = "source"
    /\ \E s \in Sessions : SendTasks(<<Task("StartCapturingMidi", s)>>)

ClosesPanel ==
    /\ UNCHANGED <<midiCapture, units>>
    /\ \E new \in {"nothing", "target"} : panel' = new /\ SendTasks(OnClose(new))

LEMMA UnitTasksDontCapture == SendsUnitTasks => SendsOtherTasks
<1>1. \A task \in UnitTaskRecords : ~IsCaptureTask(task)
    BY DEF UnitTaskRecords, IsCaptureTask
<1>. QED  BY <1>1 DEF SendsUnitTasks, SendsOtherTasks, IsUnitQueue, IsQueue

LEMMA RequestsDontCapture ==
    ASSUME NEW r, NEW d, NEW base, SendRequest(r, d, base)
    PROVE  SendsOtherTasks
<1>1. ~IsCaptureTask(RequestTask(r, d))
    BY DEF IsCaptureTask, RequestTask, Task
<1>2. PICK tasks : tasks = <<RequestTask(r, d)>>
    OBVIOUS
<1>3. IsQueue(tasks) /\ \A k \in 1..Len(tasks) : ~IsCaptureTask(tasks[k])
    BY <1>1, <1>2, SingleTask
<1>. QED  BY <1>2, <1>3 DEF SendRequest, SendTasks, SendsOtherTasks

LEMMA ProbesDontCapture ==
    ASSUME NEW x, NEW rest, NEW list, NEW ins, NEW outs, ProbeNext(x, rest, list, ins, outs)
    PROVE  UNCHANGED hookTasks \/ SendsOtherTasks
BY RequestsDontCapture DEF ProbeNext

LEMMA StepsOnCapture ==
    ASSUME [Next]_vars
    PROVE  \/ ElsewhereOnCapture
           \/ ProcessNormalCommand /\ UNCHANGED panel
           \/ StartsCapturing
           \/ ClosesPanel
<1>. USE DEF ElsewhereOnCapture, hookVars, hookStateVars, unitVars
<1>1. ASSUME NEW arriving, NEW timedOut, NEW touched, AudioBlock(arriving, timedOut, touched)
      PROVE  ProcessNormalCommand /\ UNCHANGED panel
    BY <1>1 DEF AudioBlock, OnPre
<1>2. CASE StopOrStartAudio
    BY <1>2 DEF StopOrStartAudio, SwitchAudio, captureVars
<1>3. CASE FreeGarbage \/ RemoveAudioHook \/ FallAsleep \/ UNCHANGED vars
    BY <1>3 DEF FreeGarbage, RemoveAudioHook, FallAsleep, captureVars, vars
<1>4. ASSUME NEW i \in Instances, LoadPlugin(i) \/ InitInstanceShell(i) \/ UnloadPlugin(i)
      PROVE  ElsewhereOnCapture
    BY <1>4, UnitSteps, UnitTasksDontCapture
       DEF LoadPlugin, InitInstanceShell, UnloadPlugin, captureVars
<1>5. CASE OperateUnits
  <2>1. UNCHANGED hookTasks \/ SendsOtherTasks
      BY <1>5, UnitSteps, UnitTasksDontCapture
         DEF OperateUnits, ToggleGlobalControl, ReportActivity, PickPort
  <2>. QED  BY <1>5, <2>1 DEF OperateUnits, captureVars
<1>6. CASE UpdateUnits
    BY <1>6, UnitSteps, UnitTasksDontCapture DEF UpdateUnits, captureVars
<1>7. CASE OperateControllers
  <2>1. UNCHANGED hookTasks \/ SendsOtherTasks
    <3>1. ASSUME NEW k, NEW d, SaveController(k, d)
          PROVE  SendsOtherTasks
        BY <3>1, RequestsDontCapture DEF SaveController
    <3>. QED  BY <1>7, <3>1 DEF OperateControllers, ToggleController, DeleteController
  <2>. QED  BY <1>7, <2>1 DEF OperateControllers, captureVars
<1>8. ASSUME NEW x, DetectControllers(x) \/ (\E d \in Devices : Plug(x, d))
      PROVE  ElsewhereOnCapture
    BY <1>8 DEF DetectControllers, Plug, captureVars
<1>9. ASSUME NEW d, Unplug(d)
      PROVE  ElsewhereOnCapture
    BY <1>9 DEF Unplug, captureVars
<1>10. CASE ContinueTasks
  <2>1. UNCHANGED hookTasks \/ SendsOtherTasks
    <3>1. ASSUME NEW x, StartDetection(x)
          PROVE  UNCHANGED hookTasks \/ SendsOtherTasks
        BY <3>1, ProbesDontCapture DEF StartDetection
    <3>2. ASSUME NEW x, ContinueDetection(x)
          PROVE  UNCHANGED hookTasks \/ SendsOtherTasks
        BY <3>2, ProbesDontCapture DEF ContinueDetection
    <3>. QED  BY <1>10, <3>1, <3>2 DEF ContinueTasks, UpdateDeviceIdentity
  <2>. QED  BY <1>10, <2>1 DEF ContinueTasks, captureVars
<1>11. CASE StartLearning
  <2>1. CASE CloseMessagePanel
      BY <1>11, <2>1 DEF StartLearning, CloseMessagePanel, ReplacePanel, ClosesPanel
  <2>2. ASSUME NEW s \in Sessions, NEW kind, StartSession(s, kind)
        PROVE  StartsCapturing
      BY <1>11, <2>2 DEF StartLearning, StartSession, StartsCapturing
  <2>. QED  BY <1>11, <2>1, <2>2 DEF StartLearning
<1>12. CASE ContinueLearning
  <2>1. PICK s \in Sessions : ContinueSession(s)
      BY <1>12 DEF ContinueLearning
  <2>2. CASE IgnoreCaptured(s) \/ EndCapture(s)
      BY <1>12, <2>2 DEF ContinueLearning, IgnoreCaptured, EndCapture
  <2>3. CASE FindMapping(s) \/ MissUnit(s) \/ AskForTarget(s) \/ LearnTarget(s)
      BY <1>12, <2>3 DEF ContinueLearning, FindMapping, MissUnit, AskForTarget, LearnTarget,
                         ReplacePanel, ClosesPanel
  <2>. QED  BY <2>1, <2>2, <2>3 DEF ContinueSession
<1>. QED
    BY <1>1, <1>2, <1>3, <1>4, <1>5, <1>6, <1>7, <1>8, <1>9, <1>10, <1>11, <1>12 DEF Next

LEMMA RoomForOne ==
    ASSUME HasRoom, UNCHANGED units, IsQueue(hookTasks)
    PROVE  Room >= 1
<1>1. DOMAIN units' \ DOMAIN units = {} /\ DOMAIN units \ DOMAIN units' = {}
    OBVIOUS
<1>2. Cardinality({}) = 0
    BY FS_EmptySet
<1>. QED  BY <1>1, <1>2, RoomIsNatural DEF HasRoom

\* A task about capturing that is sent is the last one.
LEMMA SentCaptureTask ==
    ASSUME CaptureInv, NEW task, IsCaptureTask(task), SendTasks(<<task>>), Room >= 1,
           UNCHANGED midiCapture,
           task.type = "StartCapturingMidi" => task.id \in Sessions,
           task.type = "StartCapturingMidi" <=> panel' = "source"
    PROVE  CaptureInv'
<1>1. IsQueue(hookTasks) /\ IsQueue(<<task>>) /\ Len(<<task>>) = 1 /\ <<task>>[1] = task
    BY SingleTask DEF CaptureInv
<1>2. hookTasks' = hookTasks \o <<task>>
    BY <1>1, AllIsSent DEF SendTasks
<1>3. /\ IsQueue(hookTasks') /\ Len(hookTasks') = Len(hookTasks) + 1 /\ Len(hookTasks) \in Nat
      /\ \A k \in 1..Len(hookTasks') :
            \/ k \in 1..Len(hookTasks) /\ hookTasks'[k] = hookTasks[k]
            \/ k = Len(hookTasks') /\ hookTasks'[k] = task
      /\ hookTasks'[Len(hookTasks')] = task
  <2>1. PICK single : single = <<task>>
      OBVIOUS
  <2>2. IsQueue(single) /\ Len(single) = 1 /\ single[1] = task
      BY <1>1, <2>1
  <2>. QED  BY <1>1, <1>2, <2>1, <2>2, Concatenation
<1>. QED  BY <1>3 DEF CaptureInv

LEMMA NextCaptureInv == CaptureInv /\ [Next]_vars /\ [HasRoom]_vars => CaptureInv'
<1>. SUFFICES ASSUME CaptureInv, [Next]_vars, [HasRoom]_vars
              PROVE  CaptureInv'
    OBVIOUS
<1>1. CASE ElsewhereOnCapture
  <2>1. CASE UNCHANGED hookTasks
      BY <1>1, <2>1 DEF ElsewhereOnCapture, CaptureInv, IsQueue
  <2>2. CASE SendsOtherTasks
    <3>1. PICK tasks : /\ IsQueue(tasks) /\ \A k \in 1..Len(tasks) : ~IsCaptureTask(tasks[k])
                       /\ hookTasks' = Sent(tasks)
        BY <2>2 DEF SendsOtherTasks
    <3>2. /\ IsQueue(hookTasks')
          /\ \A k \in 1..Len(hookTasks) :
                k \in 1..Len(hookTasks') /\ hookTasks'[k] = hookTasks[k]
          /\ \A k \in 1..Len(hookTasks') :
                \/ k \in 1..Len(hookTasks) /\ hookTasks'[k] = hookTasks[k]
                \/ ~IsCaptureTask(hookTasks'[k])
        BY <3>1, SentTasks DEF CaptureInv
    <3>3. \A k \in 1..Len(hookTasks') :
             hookTasks'[k].type = "StartCapturingMidi" => hookTasks'[k].id \in Sessions
        BY <3>2 DEF CaptureInv, IsCaptureTask
    <3>. QED  BY <1>1, <3>2, <3>3 DEF ElsewhereOnCapture, CaptureInv
  <2>. QED  BY <1>1, <2>1, <2>2 DEF ElsewhereOnCapture
<1>2. CASE ProcessNormalCommand /\ UNCHANGED panel
  <2>1. CASE hookTasks = <<>>
    <3>1. midiCapture' = midiCapture /\ hookTasks' = hookTasks
        BY <1>2, <2>1, QueueAfterTask DEF CaptureInv, ProcessNormalCommand, Task
    <3>. QED  BY <1>2, <3>1 DEF CaptureInv, IsQueue
  <2>2. CASE hookTasks # <<>>
    <3>1. /\ IsQueue(hookTasks') /\ 1 \in 1..Len(hookTasks) /\ NextTask = hookTasks[1]
          /\ Len(hookTasks) \in Nat /\ Len(hookTasks') = Len(hookTasks) - 1
          /\ \A k \in 1..Len(hookTasks') :
                k + 1 \in 1..Len(hookTasks) /\ hookTasks'[k] = hookTasks[k + 1]
        BY <1>2, <2>2, QueueAfterTask DEF CaptureInv
    <3>2. \A k \in 1..Len(hookTasks) : k > 1 => /\ k - 1 \in 1..Len(hookTasks')
                                                /\ hookTasks'[k - 1] = hookTasks[k]
        BY <3>1
    <3>3. \A k \in 1..Len(hookTasks') :
             hookTasks'[k].type = "StartCapturingMidi" => hookTasks'[k].id \in Sessions
        BY <3>1 DEF CaptureInv
    <3>4. \A k \in 1..Len(hookTasks') :
             /\ IsCaptureTask(hookTasks'[k])
             /\ \A l \in 1..Len(hookTasks') : l > k => ~IsCaptureTask(hookTasks'[l])
             => (hookTasks'[k].type = "StartCapturingMidi" <=> panel' = "source")
      <4>. SUFFICES ASSUME NEW k \in 1..Len(hookTasks'), IsCaptureTask(hookTasks'[k]),
                           \A l \in 1..Len(hookTasks') : l > k => ~IsCaptureTask(hookTasks'[l])
                    PROVE  hookTasks'[k].type = "StartCapturingMidi" <=> panel' = "source"
          OBVIOUS
      <4>1. \A l \in 1..Len(hookTasks) : l > k + 1 => ~IsCaptureTask(hookTasks[l])
          BY <3>1, <3>2
      <4>. QED  BY <1>2, <3>1, <4>1 DEF CaptureInv
    <3>5. ASSUME \A k \in 1..Len(hookTasks') : ~IsCaptureTask(hookTasks'[k])
          PROVE  midiCapture' # None <=> panel' = "source"
      <4>1. \A k \in 1..Len(hookTasks) : k > 1 => ~IsCaptureTask(hookTasks[k])
          BY <3>2, <3>5
      <4>2. CASE IsCaptureTask(hookTasks[1])
        <5>1. hookTasks[1].type = "StartCapturingMidi" <=> panel = "source"
            BY <3>1, <4>1, <4>2 DEF CaptureInv
        <5>2. hookTasks[1].type = "StartCapturingMidi" => hookTasks[1].id # None
            BY <3>1, CaptureAssumption DEF CaptureInv
        <5>3. midiCapture' # None <=> hookTasks[1].type = "StartCapturingMidi"
            BY <1>2, <3>1, <4>2, <5>2 DEF ProcessNormalCommand, IsCaptureTask
        <5>. QED  BY <1>2, <5>1, <5>3
      <4>3. CASE ~IsCaptureTask(hookTasks[1])
        <5>1. \A k \in 1..Len(hookTasks) : ~IsCaptureTask(hookTasks[k])
            BY <3>1, <4>1, <4>3
        <5>2. midiCapture' = midiCapture
            BY <1>2, <3>1, <4>3 DEF ProcessNormalCommand, IsCaptureTask
        <5>. QED  BY <1>2, <5>1, <5>2 DEF CaptureInv
      <4>. QED  BY <4>2, <4>3
    <3>. QED  BY <3>1, <3>3, <3>4, <3>5 DEF CaptureInv
  <2>. QED  BY <2>1, <2>2
<1>3. CASE UNCHANGED vars
    BY <1>3 DEF vars, hookVars, hookStateVars, captureVars, CaptureInv, IsQueue
<1>4. CASE HasRoom /\ StartsCapturing
  <2>1. PICK s \in Sessions : SendTasks(<<Task("StartCapturingMidi", s)>>)
      BY <1>4 DEF StartsCapturing
  <2>2. PICK task : task = Task("StartCapturingMidi", s)
      OBVIOUS
  <2>3. /\ task.type = "StartCapturingMidi" /\ task.id = s /\ IsCaptureTask(task)
        /\ SendTasks(<<task>>)
      BY <2>1, <2>2 DEF Task, IsCaptureTask
  <2>4. Room >= 1
      BY <1>4, RoomForOne DEF StartsCapturing, CaptureInv
  <2>. QED  BY <1>4, <2>3, <2>4, SentCaptureTask DEF StartsCapturing
<1>5. CASE HasRoom /\ ClosesPanel
  <2>1. PICK new \in {"nothing", "target"} : panel' = new /\ SendTasks(OnClose(new))
      BY <1>5 DEF ClosesPanel
  <2>2. CASE panel = "source"
    <3>1. PICK task : task = Task("StopCapturingMidi", None)
        OBVIOUS
    <3>2. /\ task.type = "StopCapturingMidi" /\ IsCaptureTask(task) /\ SendTasks(<<task>>)
        BY <2>1, <2>2, <3>1 DEF Task, IsCaptureTask, OnClose
    <3>3. Room >= 1
        BY <1>5, RoomForOne DEF ClosesPanel, CaptureInv
    <3>. QED  BY <1>5, <2>1, <3>2, <3>3, SentCaptureTask DEF ClosesPanel
  <2>3. CASE panel # "source"
    <3>1. PICK none : none = <<>>
        OBVIOUS
    <3>2. IsQueue(none) /\ Len(none) = 0
      <4>1. <<>> \in Seq({}) /\ Len(<<>>) = 0
          OBVIOUS
      <4>. QED  BY <3>1, <4>1 DEF IsQueue
    <3>3. IsQueue(hookTasks) /\ Room \in Nat
        BY RoomIsNatural DEF CaptureInv
    <3>4. Sent(none) = hookTasks \o none
        BY <3>2, <3>3, AllIsSent
    <3>5. OnClose(new) = none
        BY <2>3, <3>1 DEF OnClose
    <3>6. hookTasks' = hookTasks \o none
        BY <2>1, <3>4, <3>5 DEF SendTasks
    <3>7. hookTasks' = hookTasks
        BY <3>1, <3>3, <3>6 DEF IsQueue
    <3>. QED  BY <1>5, <2>1, <2>3, <3>7 DEF ClosesPanel, CaptureInv, IsQueue
  <2>. QED  BY <2>2, <2>3
<1>. QED  BY <1>1, <1>2, <1>3, <1>4, <1>5, StepsOnCapture

(* Whenever the hook has nothing left to do, it captures MIDI exactly      *)
(* while the message panel asks for a source, whatever replaces the        *)
(* content of the panel (set_content calls on_close of the previous        *)
(* content), provided that no task to the hook has been dropped.           *)
THEOREM CaptureFollowsPanel == Spec /\ [][HasRoom]_vars => []CaptureMatchesPanel
<1>1. CaptureInv => CaptureMatchesPanel
    BY DEF CaptureInv, CaptureMatchesPanel, Idle
<1>. QED  BY <1>1, InitCaptureInv, NextCaptureInv, PTL DEF Spec

------------------------------------------------------------------------------
(* Controller detection, as long as inquiries don't overlap and devices    *)
(* answer in time or never: no controller pairs ports of two devices, and  *)
(* a detection leaves no ports enabled but those of controllers.           *)
(*                                                                         *)
(* The argument: at any time at most one task asks (OneTaskAsks), so at    *)
(* most one request is on its way to the hook or being answered, and it is *)
(* the one of the task that waits (RequestsAreAsked).  Then the device     *)
(* which answers is the one that has been asked.                           *)

NoMishap == "LateAnswers" \notin Mishaps /\ "OverlappingInquiries" \notin Mishaps

IsRequest(task) == task.type = "RequestMidiDeviceIdentity"

\* A sequence of tasks without requests.
IsPlain(tasks) == IsQueue(tasks) /\ \A k \in 1..Len(tasks) : ~IsRequest(tasks[k])

\* Task r waits for the answer of device d.
Asks(r, d) ==
    /\ replies[r] = "waiting"
    /\ \/ r \in Detectors /\ detection[r].stage = "asking" /\ detection[r].current = d
       \/ /\ r = Saver /\ saved # 0
          /\ controllers[saved] # None => controllers[saved].output = d

------------------------------------------------------------------------------
(* The invariant                                                           *)

DetectionTypes ==
    /\ connected \in SUBSET Devices
    /\ enabledInputs \in SUBSET Devices /\ enabledOutputs \in SUBSET Devices
    /\ detection \in [Detectors -> [stage: {"off", "spawned", "asking"}, current: Ports,
                                    todo: SUBSET Devices, oldIns: SUBSET Devices,
                                    oldOuts: SUBSET Devices]]
    /\ saved \in 0..Len(controllers)
    /\ controllers \in Seq(ControllerRecords \cup {None})
    /\ DOMAIN replies = Requesters

OneTaskAsks ==
    /\ \A x \in Detectors : detection[x].stage = "asking" => detecting
    /\ \A x, y \in Detectors :
          detection[x].stage = "asking" /\ detection[y].stage = "asking" => x = y
    /\ saved # 0 => \A x \in Detectors : detection[x].stage = "off"

RequestsAreAsked ==
    /\ IsQueue(hookTasks)
    /\ inquiry # None => inquiry.requester \in Requesters /\ Asks(inquiry.requester, inquiry.output)
    /\ \A k \in 1..Len(hookTasks) :
          IsRequest(hookTasks[k]) =>
              /\ inquiry = None
              /\ hookTasks[k].id.requester \in Requesters
              /\ Asks(hookTasks[k].id.requester, hookTasks[k].id.output)
    /\ \A k, l \in 1..Len(hookTasks) : IsRequest(hookTasks[k]) /\ IsRequest(hookTasks[l]) => k = l

AnswersAreAsked == \A d \in answers : inquiry # None /\ d = inquiry.output

RepliesFit ==
    /\ \A x \in Detectors :
          detection[x].stage = "asking" => replies[x] \in {"waiting", "failed", detection[x].current}
    /\ saved # 0 /\ controllers[saved] # None =>
          replies[Saver] \in {"waiting", "failed", controllers[saved].output}

PortsArePaired ==
    /\ Paired(controllers)
    /\ ~detecting => enabledInputs = enabledOutputs
    /\ \A x \in Detectors :
          detection[x].stage = "asking" => detection[x].oldIns = detection[x].oldOuts

DetectionInv ==
    /\ DetectionTypes
    /\ OneTaskAsks
    /\ RequestsAreAsked
    /\ AnswersAreAsked
    /\ RepliesFit
    /\ PortsArePaired

------------------------------------------------------------------------------
LEMMA PlainTask ==
    ASSUME NEW type, NEW id, type # "RequestMidiDeviceIdentity"
    PROVE  IsPlain(<<Task(type, id)>>)
<1>1. ~IsRequest(Task(type, id))
    BY DEF IsRequest, Task
<1>2. \A task : <<task>> \in Seq({task}) /\ \A k \in 1..Len(<<task>>) : <<task>>[k] = task
    OBVIOUS
<1>. QED  BY <1>1, <1>2 DEF IsPlain, IsQueue

------------------------------------------------------------------------------
(* Steps                                                                   *)

\* Requests in the channel stay asked when plain tasks are added and whoever
\* asks goes on asking.
LEMMA PlainTasksKeepRequests ==
    ASSUME RequestsAreAsked, NEW tasks, IsPlain(tasks), hookTasks' = Sent(tasks),
           UNCHANGED inquiry,
           \A r \in Requesters : \A d : Asks(r, d) => Asks(r, d)'
    PROVE  RequestsAreAsked'
<1>1. IsQueue(hookTasks) /\ IsQueue(tasks)
    BY DEF RequestsAreAsked, IsPlain
<1>2. IsQueue(hookTasks')
    BY <1>1, SentTasks
<1>3. \A k \in 1..Len(hookTasks') :
         IsRequest(hookTasks'[k]) => k \in 1..Len(hookTasks) /\ hookTasks'[k] = hookTasks[k]
    BY <1>1, SentTasks DEF IsPlain
<1>. QED  BY <1>2, <1>3 DEF RequestsAreAsked

\* The same if nothing is sent.
LEMMA NoTasksKeepRequests ==
    ASSUME RequestsAreAsked, UNCHANGED <<hookTasks, inquiry>>,
           \A r \in Requesters : \A d : Asks(r, d) => Asks(r, d)'
    PROVE  RequestsAreAsked'
BY DEF RequestsAreAsked, IsQueue

\* A task that sends a request doesn't wait for a reply yet, and it's the only
\* one to ask, so there is no other request.
LEMMA NobodyAsks ==
    ASSUME RequestsAreAsked, AnswersAreAsked, \A r \in Requesters : \A d : ~Asks(r, d)
    PROVE  /\ inquiry = None /\ answers = {}
           /\ \A k \in 1..Len(hookTasks) : ~IsRequest(hookTasks[k])
BY DEF RequestsAreAsked, AnswersAreAsked

LEMMA RequestIsSent ==
    ASSUME RequestsAreAsked, AnswersAreAsked, \A r \in Requesters : \A d : ~Asks(r, d),
           NEW r \in Requesters, NEW d, DOMAIN replies = Requesters,
           SendRequest(r, d, replies), UNCHANGED inquiry,
           replies'[r] = "waiting" => Asks(r, d)'
    PROVE  RequestsAreAsked' /\ DOMAIN replies' = Requesters /\ replies'[r] \in {"waiting", "failed"}
<1>. DEFINE task == RequestTask(r, d)
<1>1. /\ inquiry = None /\ IsQueue(hookTasks)
      /\ \A k \in 1..Len(hookTasks) : ~IsRequest(hookTasks[k])
    BY NobodyAsks DEF RequestsAreAsked
<1>2. task.id.requester = r /\ task.id.output = d
    BY DEF RequestTask, Task
<1>3. DOMAIN replies' = Requesters /\ replies'[r] = IF Room = 0 THEN "failed" ELSE "waiting"
    BY DEF SendRequest
<1>4. hookTasks' = Sent(<<task>>)
    BY DEF SendRequest, SendTasks
<1>. HIDE DEF task
<1>5. <<task>> \in Seq({task}) /\ IsQueue(<<task>>) /\ Len(<<task>>) = 1 /\ <<task>>[1] = task
  <2>1. <<task>> \in Seq({task}) /\ Len(<<task>>) = 1 /\ <<task>>[1] = task
      OBVIOUS
  <2>. QED  BY <2>1 DEF IsQueue
<1>6. IsQueue(hookTasks')
    BY <1>1, <1>4, <1>5, SentTasks
<1>7. \A k \in 1..Len(hookTasks') :
         IsRequest(hookTasks'[k]) => k = Len(hookTasks) + 1 /\ hookTasks'[k] = task
  <2>. SUFFICES ASSUME NEW k \in 1..Len(hookTasks'), IsRequest(hookTasks'[k])
                PROVE  k = Len(hookTasks) + 1 /\ hookTasks'[k] = task
      OBVIOUS
  <2>1. k - Len(hookTasks) \in 1..Len(<<task>>) /\ hookTasks'[k] = <<task>>[k - Len(hookTasks)]
      BY <1>1, <1>4, <1>5, SentTasks
  <2>2. Len(hookTasks) \in Nat /\ k \in Int
      BY <1>1, <1>6 DEF IsQueue
  <2>. QED  BY <1>5, <2>1, <2>2
<1>8. CASE Room = 0
  <2>1. hookTasks' = hookTasks
      BY <1>1, <1>4, <1>5, <1>8, NothingIsSent
  <2>. QED  BY <1>1, <1>3, <1>6, <1>8, <2>1 DEF RequestsAreAsked
<1>9. CASE Room # 0
  <2>1. Asks(r, d)'
      BY <1>3, <1>9
  <2>. QED  BY <1>1, <1>2, <1>3, <1>6, <1>7, <2>1 DEF RequestsAreAsked
<1>. QED  BY <1>8, <1>9

\* A step that only sends plain tasks, or none.
Quiet ==
    /\ UNCHANGED <<inquiry, replies, detecting, detection, saved, controllers, enabledInputs,
                   enabledOutputs>>
    /\ answers' \subseteq answers /\ connected' \subseteq Devices
    /\ hookTasks' = hookTasks \/ \E tasks : IsPlain(tasks) /\ hookTasks' = Sent(tasks)

LEMMA QuietSteps ==
    ASSUME DetectionInv, Quiet
    PROVE  DetectionInv'
<1>1. /\ UNCHANGED <<inquiry, replies, detecting, detection, saved, controllers, enabledInputs,
                     enabledOutputs>>
      /\ answers' \subseteq answers /\ connected' \subseteq Devices
    BY DEF Quiet
<1>2. DetectionTypes' /\ OneTaskAsks' /\ RepliesFit' /\ PortsArePaired'
    BY <1>1 DEF DetectionInv, DetectionTypes, OneTaskAsks, RepliesFit, PortsArePaired
<1>3. AnswersAreAsked'
    BY <1>1 DEF DetectionInv, AnswersAreAsked
<1>4. \A r \in Requesters : \A d : Asks(r, d) => Asks(r, d)'
    BY <1>1 DEF Asks
<1>5. RequestsAreAsked'
    BY <1>1, <1>4, PlainTasksKeepRequests, NoTasksKeepRequests DEF DetectionInv, Quiet
<1>. QED  BY <1>2, <1>3, <1>5 DEF DetectionInv

LEMMA DropsKeepInv ==
    ASSUME DetectionInv, DropReadyDetections,
           UNCHANGED <<hookTasks, inquiry, answers, replies, detecting, controllers, portVars>>
    PROVE  DetectionInv'
<1>. USE DEF DetectionInv
<1>1. /\ DOMAIN detection = Detectors
      /\ saved' \in {0, saved} /\ (replies[Saver] = "waiting" => saved' = saved)
      /\ \A x \in Detectors :
            \/ detection'[x] = detection[x]
            \/ IsReady(x) /\ detection'[x] = NoDetection
    BY DEF DropReadyDetections, DetectionTypes
<1>2. NoDetection \in [stage: {"off", "spawned", "asking"}, current: Ports, todo: SUBSET Devices,
                       oldIns: SUBSET Devices, oldOuts: SUBSET Devices]
      /\ NoDetection.stage = "off"
    BY DEF NoDetection, Ports
<1>3. DetectionTypes'
    BY <1>1, <1>2 DEF DropReadyDetections, DetectionTypes, portVars
<1>4. OneTaskAsks'
    BY <1>1, <1>2 DEF OneTaskAsks
<1>5. \A r \in Requesters : \A d : Asks(r, d) => Asks(r, d)'
    BY <1>1 DEF Asks, IsReady
<1>6. RequestsAreAsked' /\ AnswersAreAsked'
    BY <1>5, NoTasksKeepRequests DEF AnswersAreAsked
<1>7. RepliesFit'
    BY <1>1, <1>2 DEF RepliesFit
<1>8. PortsArePaired'
    BY <1>1, <1>2 DEF PortsArePaired, portVars
<1>. QED  BY <1>3, <1>4, <1>6, <1>7, <1>8

\* One block of audio, seen by the requesters: a reply is "failed" or the
\* device that has been asked, and then the inquiry is over.
LEMMA RepliesAfterBlock ==
    ASSUME NoMishap, DetectionInv, NEW arriving, NEW timedOut, OnPre(arriving, timedOut),
           ~IsRequest(NextTask)
    PROVE  /\ DOMAIN replies' = Requesters
           /\ \/ /\ inquiry' = inquiry /\ answers' \subseteq answers
                 /\ \A r \in Requesters : replies'[r] = replies[r]
              \/ /\ inquiry # None /\ inquiry' = None /\ answers' = {}
                 /\ \A r \in Requesters :
                       \/ replies'[r] \in {replies[r], "failed"}
                       \/ r = inquiry.requester /\ replies'[r] = inquiry.output
<1>1. Request = None /\ ~InquiryIsSent /\ InquiryAfterTask = inquiry
    BY DEF IsRequest, Request, InquiryIsSent, InquiryAfterTask
<1>2. DOMAIN RepliesAfterTask = Requesters /\ \A r \in Requesters : RepliesAfterTask[r] = replies[r]
    BY <1>1 DEF RepliesAfterTask
<1>3. answers' = answers \ arriving
    BY <1>1 DEF OnPre, DeviceIsAsked
<1>4. CheckForInquiryResponse(arriving, timedOut) /\ arriving \subseteq answers
      /\ (timedOut => inquiry # None /\ inquiry.output \notin answers)
    BY DEF OnPre, InquiryTimesOut, NoMishap
<1>5. CASE inquiry # None /\ timedOut
  <2>1. inquiry' = None /\ replies' = [RepliesAfterTask EXCEPT ![inquiry.requester] = "failed"]
      BY <1>1, <1>4, <1>5 DEF CheckForInquiryResponse
  <2>2. answers = {}
      BY <1>4, <1>5 DEF DetectionInv, AnswersAreAsked
  <2>. QED  BY <1>2, <1>3, <1>5, <2>1, <2>2
<1>6. CASE inquiry # None /\ ~timedOut /\ {d \in arriving : InputIsOpen(d)} # {}
  <2>1. inquiry' = None
        /\ \E d \in arriving : replies' = [RepliesAfterTask EXCEPT ![inquiry.requester] = d]
      BY <1>1, <1>4, <1>6 DEF CheckForInquiryResponse
  <2>2. PICK d \in arriving : replies' = [RepliesAfterTask EXCEPT ![inquiry.requester] = d]
      BY <2>1
  <2>3. d = inquiry.output /\ answers' = {}
      BY <1>3, <1>4 DEF DetectionInv, AnswersAreAsked
  <2>. QED  BY <1>2, <1>6, <2>1, <2>2, <2>3
<1>7. CASE inquiry = None \/ (~timedOut /\ {d \in arriving : InputIsOpen(d)} = {})
  <2>1. inquiry' = inquiry /\ replies' = RepliesAfterTask
      BY <1>1, <1>4, <1>7 DEF CheckForInquiryResponse
  <2>. QED  BY <1>2, <1>3, <2>1
<1>. QED  BY <1>5, <1>6, <1>7

\* A block in which the hook takes a request: nobody else asks, so nothing but
\* a refusal or the new inquiry can come out of it.
LEMMA BlockWithRequest ==
    ASSUME NoMishap, DetectionInv, NEW arriving, NEW timedOut, OnPre(arriving, timedOut),
           inquiry = None, answers = {}, IsRequest(NextTask)
    PROVE  /\ DOMAIN replies' = Requesters
           /\ \A r \in Requesters : replies'[r] \in {replies[r], "failed"}
           /\ \/ inquiry' = None /\ answers' = {}
              \/ /\ inquiry' = NextTask.id /\ inquiry' # None /\ answers' \subseteq {NextTask.id.output}
                 /\ \A r \in Requesters : replies'[r] = replies[r]
<1>1. Request = NextTask.id
    BY DEF IsRequest, Request
<1>2. arriving = {} /\ ~timedOut
    BY DEF OnPre, InquiryTimesOut
<1>3. inquiry' = InquiryAfterTask /\ replies' = RepliesAfterTask
    BY <1>2 DEF OnPre, CheckForInquiryResponse
<1>4. DOMAIN replies' = Requesters /\ \A r \in Requesters : replies'[r] \in {replies[r], "failed"}
    BY <1>3 DEF RepliesAfterTask
<1>5. CASE InquiryIsSent
  <2>1. inquiry' = NextTask.id /\ inquiry' # None /\ \A r \in Requesters : replies'[r] = replies[r]
      BY <1>1, <1>3, <1>5 DEF InquiryIsSent, InquiryAfterTask, RepliesAfterTask
  <2>2. answers' \subseteq {NextTask.id.output}
      BY <1>1, <1>5 DEF OnPre, DeviceIsAsked
  <2>. QED  BY <1>4, <2>1, <2>2
<1>6. CASE ~InquiryIsSent
  <2>1. inquiry' = None /\ answers' = {}
      BY <1>3, <1>6 DEF OnPre, DeviceIsAsked, InquiryAfterTask
  <2>. QED  BY <1>4, <2>1
<1>. QED  BY <1>5, <1>6

LEMMA BlocksKeepInv ==
    ASSUME NoMishap, DetectionInv, NEW arriving, NEW timedOut, OnPre(arriving, timedOut),
           UNCHANGED <<detecting, detection, saved, controllers>>
    PROVE  DetectionInv'
<1>. USE DEF DetectionInv
<1>1. UNCHANGED <<connected, enabledInputs, enabledOutputs>>
    BY DEF OnPre, portVars
<1>2. /\ IsQueue(hookTasks) /\ ProcessNormalCommand
    BY DEF RequestsAreAsked, OnPre
<1>3. /\ IsQueue(hookTasks')
      /\ hookTasks # <<>> => 1 \in 1..Len(hookTasks) /\ NextTask = hookTasks[1]
      /\ \A k \in 1..Len(hookTasks') :
            k + 1 \in 1..Len(hookTasks) /\ hookTasks'[k] = hookTasks[k + 1]
      /\ hookTasks = <<>> => ~IsRequest(NextTask)
    BY <1>2, QueueAfterTask DEF IsRequest, Task
<1>4. OneTaskAsks' /\ PortsArePaired'
    BY <1>1 DEF OneTaskAsks, PortsArePaired
<1>5. ASSUME \A r \in Requesters :
                \/ replies'[r] \in {replies[r], "failed"}
                \/ inquiry # None /\ r = inquiry.requester /\ replies'[r] = inquiry.output
      PROVE  RepliesFit'
  <2>1. DetectionAssumption /\ (inquiry # None => Asks(inquiry.requester, inquiry.output))
      BY DetectionAssumption DEF RequestsAreAsked
  <2>2. ASSUME NEW x \in Detectors, detection[x].stage = "asking"
        PROVE  replies'[x] \in {"waiting", "failed", detection[x].current}
      BY <1>5, <2>1, <2>2 DEF DetectionAssumption, RepliesFit, Asks
  <2>3. ASSUME saved # 0, controllers[saved] # None
        PROVE  replies'[Saver] \in {"waiting", "failed", controllers[saved].output}
      BY <1>5, <2>1, <2>3 DEF DetectionAssumption, RepliesFit, Asks
  <2>. QED  BY <2>2, <2>3 DEF RepliesFit
<1>6. ASSUME NEW r, NEW d, Asks(r, d), replies'[r] = replies[r]
      PROVE  Asks(r, d)'
    BY <1>6 DEF Asks
<1>7. CASE ~IsRequest(NextTask)
  <2>1. DetectionTypes' /\ RepliesFit'
      BY <1>1, <1>5, <1>7, RepliesAfterBlock DEF DetectionTypes
  <2>2. CASE inquiry' = inquiry /\ answers' \subseteq answers /\ \A r \in Requesters : replies'[r] = replies[r]
    <3>1. RequestsAreAsked'
        BY <1>3, <1>6, <2>2 DEF RequestsAreAsked
    <3>2. AnswersAreAsked'
        BY <2>2 DEF AnswersAreAsked
    <3>. QED  BY <1>4, <2>1, <3>1, <3>2
  <2>3. CASE inquiry # None /\ inquiry' = None /\ answers' = {}
    <3>1. RequestsAreAsked' /\ AnswersAreAsked'
        BY <1>3, <2>3 DEF RequestsAreAsked, AnswersAreAsked
    <3>. QED  BY <1>4, <2>1, <3>1
  <2>. QED  BY <1>7, <2>2, <2>3, RepliesAfterBlock
<1>8. CASE IsRequest(NextTask)
  <2>1. 1 \in 1..Len(hookTasks) /\ NextTask = hookTasks[1]
      BY <1>3, <1>8
  <2>2. /\ inquiry = None /\ answers = {}
        /\ NextTask.id.requester \in Requesters
        /\ Asks(NextTask.id.requester, NextTask.id.output)
      BY <1>8, <2>1 DEF RequestsAreAsked, AnswersAreAsked
  <2>3. \A k \in 1..Len(hookTasks') : ~IsRequest(hookTasks'[k])
    <3>. SUFFICES ASSUME NEW k \in 1..Len(hookTasks'), IsRequest(hookTasks'[k])
                  PROVE  FALSE
        OBVIOUS
    <3>1. k + 1 \in 1..Len(hookTasks) /\ IsRequest(hookTasks[k + 1])
        BY <1>3
    <3>2. k + 1 = 1
        BY <1>8, <2>1, <3>1 DEF RequestsAreAsked
    <3>. QED  BY <3>2
  <2>4. DetectionTypes' /\ RepliesFit'
      BY <1>1, <1>5, <1>8, <2>2, BlockWithRequest DEF DetectionTypes
  <2>5. CASE inquiry' = None /\ answers' = {}
    <3>1. RequestsAreAsked' /\ AnswersAreAsked'
        BY <1>3, <2>3, <2>5 DEF RequestsAreAsked, AnswersAreAsked
    <3>. QED  BY <1>4, <2>4, <3>1
  <2>6. CASE /\ inquiry' = NextTask.id /\ inquiry' # None /\ answers' \subseteq {NextTask.id.output}
             /\ \A r \in Requesters : replies'[r] = replies[r]
    <3>1. PICK id : id = NextTask.id
        OBVIOUS
    <3>2. id.requester \in Requesters /\ Asks(id.requester, id.output)'
        BY <1>6, <2>2, <2>6, <3>1
    <3>3. RequestsAreAsked'
        BY <1>3, <2>3, <2>6, <3>1, <3>2 DEF RequestsAreAsked
    <3>4. AnswersAreAsked'
        BY <2>6, <3>1 DEF AnswersAreAsked
    <3>. QED  BY <1>4, <2>4, <3>3, <3>4
  <2>. QED  BY <1>8, <2>2, <2>5, <2>6, BlockWithRequest
<1>. QED  BY <1>7, <1>8

------------------------------------------------------------------------------
(* The list of controllers                                                 *)

LEMMA ControllerFields ==
    ControllerRecords = [enabled: BOOLEAN, input: Ports, output: Ports, mainPreset: BOOLEAN]
<1>1. ASSUME NEW c \in ControllerRecords
      PROVE  c \in [enabled: BOOLEAN, input: Ports, output: Ports, mainPreset: BOOLEAN]
    BY <1>1 DEF ControllerRecords, Controller
<1>2. ASSUME NEW c \in [enabled: BOOLEAN, input: Ports, output: Ports, mainPreset: BOOLEAN]
      PROVE  c \in ControllerRecords
  <2>1. c = Controller(c.enabled, c.input, c.output, c.mainPreset)
      BY <1>2 DEF Controller
  <2>. QED  BY <1>2, <2>1 DEF ControllerRecords
<1>. QED  BY <1>1, <1>2

\* A list stays well-formed and paired when it gets a new entry that is.
LEMMA ReplacedController ==
    ASSUME DetectionTypes, Paired(controllers), NEW i \in 1..Len(controllers),
           NEW c \in ControllerRecords \cup {None}, c # None => c.input \in {None, c.output},
           controllers' = [controllers EXCEPT ![i] = c]
    PROVE  /\ controllers' \in Seq(ControllerRecords \cup {None})
           /\ Len(controllers') = Len(controllers) /\ Paired(controllers')
BY DEF DetectionTypes, Paired

LEMMA AppendedController ==
    ASSUME DetectionTypes, Paired(controllers), NEW c \in ControllerRecords,
           c.input \in {None, c.output}, controllers' = Append(controllers, c)
    PROVE  /\ controllers' \in Seq(ControllerRecords \cup {None})
           /\ Len(controllers') = Len(controllers) + 1 /\ controllers'[Len(controllers')] = c
           /\ Paired(controllers')
<1>1. /\ controllers \in Seq(ControllerRecords \cup {None}) /\ Len(controllers) \in Nat
      /\ controllers' \in Seq(ControllerRecords \cup {None})
      /\ Len(controllers') = Len(controllers) + 1
    BY DEF DetectionTypes
<1>2. /\ \A k \in 1..Len(controllers) : controllers'[k] = controllers[k]
      /\ controllers'[Len(controllers) + 1] = c
    BY <1>1
<1>. QED  BY <1>1, <1>2 DEF Paired

------------------------------------------------------------------------------
(* Detections                                                              *)

\* A detection goes on to the next device, or ends, without anybody else
\* asking.
LEMMA ProbingKeepsInv ==
    ASSUME DetectionInv, NEW x \in Detectors, detection[x].stage # "off",
           \A y \in Detectors \ {x} : detection[y].stage # "asking",
           \A r \in Requesters : \A d : ~Asks(r, d),
           NEW rest \in SUBSET Devices, NEW ports \in SUBSET Devices, NEW list,
           ProbeNext(x, rest, list, ports, ports),
           controllers' \in Seq(ControllerRecords \cup {None}), Paired(controllers'),
           UNCHANGED <<connected, inquiry, answers, saved>>
    PROVE  DetectionInv'
<1>. DEFINE unused == {d \in rest : ~PortIsUsed(list, "output", d)}
            Tasks == [stage: {"off", "spawned", "asking"}, current: Ports, todo: SUBSET Devices,
                      oldIns: SUBSET Devices, oldOuts: SUBSET Devices]
<1>. USE DEF DetectionInv
<1>1. saved = 0 /\ saved' = 0 /\ Len(controllers') \in Nat /\ x \in Requesters
    BY DetectionAssumption DEF OneTaskAsks
<1>2. DOMAIN replies = Requesters /\ detection \in [Detectors -> Tasks]
    BY DEF DetectionTypes
<1>3. CASE unused = {}
  <2>1. /\ detecting' = FALSE /\ detection' = [detection EXCEPT ![x] = NoDetection]
        /\ enabledInputs' = ports /\ enabledOutputs' = ports
        /\ UNCHANGED <<hookTasks, replies>>
      BY <1>3 DEF ProbeNext
  <2>2. NoDetection \in Tasks /\ NoDetection.stage = "off"
      BY DEF NoDetection, Ports
  <2>3. DetectionTypes'
      BY <1>1, <1>2, <2>1, <2>2 DEF DetectionTypes
  <2>4. \A y \in Detectors : detection'[y].stage # "asking"
      BY <1>2, <2>1, <2>2
  <2>5. OneTaskAsks' /\ RepliesFit' /\ PortsArePaired'
      BY <1>1, <2>1, <2>4 DEF OneTaskAsks, RepliesFit, PortsArePaired
  <2>6. RequestsAreAsked' /\ AnswersAreAsked'
      BY <2>1, NoTasksKeepRequests DEF AnswersAreAsked
  <2>. QED  BY <2>3, <2>5, <2>6
<1>4. CASE unused # {}
  <2>1. PICK d \in unused, skipped \in SUBSET (rest \ unused) :
           /\ detecting' = TRUE
           /\ detection' = [detection EXCEPT ![x] =
                  [stage |-> "asking", current |-> d, todo |-> rest \ (skipped \cup {d}),
                   oldIns |-> ports, oldOuts |-> ports]]
           /\ enabledInputs' = Devices /\ enabledOutputs' = ports \cup {d}
           /\ SendRequest(x, d, replies)
      BY <1>4 DEF ProbeNext
  <2>2. detection'[x] \in Tasks /\ detection' \in [Detectors -> Tasks]
      BY <1>2, <2>1 DEF Ports
  <2>3. /\ detection'[x].stage = "asking" /\ detection'[x].current = d
        /\ detection'[x].oldIns = ports /\ detection'[x].oldOuts = ports
        /\ \A y \in Detectors \ {x} : detection'[y] = detection[y]
      BY <1>2, <2>1
  <2>4. Asks(x, d)' <=> replies'[x] = "waiting"
      BY <1>1, <2>3 DEF Asks
  <2>5. RequestsAreAsked' /\ DOMAIN replies' = Requesters /\ replies'[x] \in {"waiting", "failed"}
      BY <1>1, <1>2, <2>1, <2>4, RequestIsSent
  <2>6. AnswersAreAsked'
      BY NobodyAsks DEF AnswersAreAsked
  <2>7. DetectionTypes' /\ OneTaskAsks'
      BY <1>1, <2>1, <2>2, <2>3, <2>5 DEF DetectionTypes, OneTaskAsks
  <2>8. RepliesFit' /\ PortsArePaired'
      BY <1>1, <2>1, <2>3, <2>5 DEF RepliesFit, PortsArePaired
  <2>. QED  BY <2>5, <2>6, <2>7, <2>8
<1>. QED  BY <1>3, <1>4

LEMMA DetectionsKeepInv ==
    ASSUME DetectionInv, NEW x \in Detectors, StartDetection(x) \/ ContinueDetection(x),
           UNCHANGED <<inquiry, answers>>
    PROVE  DetectionInv'
<1>. USE DEF DetectionInv
<1>1. DOMAIN detection = Detectors /\ x \in Requesters /\ detection[x].todo \in SUBSET Devices
      /\ Saver \notin Detectors
    BY DetectionAssumption DEF DetectionTypes
<1>2. CASE StartDetection(x) /\ DetectionIsRunning
  <2>1. /\ detection' = [detection EXCEPT ![x] = NoDetection] /\ detection[x].stage = "spawned"
        /\ UNCHANGED <<connected, detecting, enabledInputs, enabledOutputs, hookTasks, replies, saved,
                       controllers>>
      BY <1>2 DEF StartDetection
  <2>2. /\ NoDetection.stage = "off"
        /\ NoDetection \in [stage: {"off", "spawned", "asking"}, current: Ports, todo: SUBSET Devices,
                            oldIns: SUBSET Devices, oldOuts: SUBSET Devices]
      BY DEF NoDetection, Ports
  <2>3. \A y \in Detectors : detection'[y] = detection[y] \/ detection'[y].stage = "off"
      BY <1>1, <2>1, <2>2
  <2>4. DetectionTypes'
      BY <2>1, <2>2 DEF DetectionTypes
  <2>5. OneTaskAsks' /\ RepliesFit' /\ PortsArePaired'
      BY <2>1, <2>3 DEF OneTaskAsks, RepliesFit, PortsArePaired
  <2>6. \A r \in Requesters : \A d : Asks(r, d) => Asks(r, d)'
      BY <1>1, <2>1 DEF Asks
  <2>7. RequestsAreAsked' /\ AnswersAreAsked'
      BY <2>1, <2>6, NoTasksKeepRequests DEF AnswersAreAsked
  <2>. QED  BY <2>4, <2>5, <2>7
<1>3. CASE StartDetection(x) /\ ~DetectionIsRunning
  <2>1. /\ detection[x].stage = "spawned" /\ ~detecting
        /\ ProbeNext(x, detection[x].todo, controllers, enabledInputs, enabledOutputs)
        /\ UNCHANGED <<connected, saved, controllers>>
      BY <1>3 DEF StartDetection, DetectionIsRunning
  <2>2. \A y \in Detectors : detection[y].stage # "asking"
      BY <2>1 DEF OneTaskAsks
  <2>3. saved = 0 /\ enabledOutputs = enabledInputs
      BY <2>1 DEF OneTaskAsks, PortsArePaired
  <2>4. \A r \in Requesters : \A d : ~Asks(r, d)
      BY <2>2, <2>3 DEF Asks
  <2>. QED  BY <1>1, <2>1, <2>2, <2>3, <2>4, ProbingKeepsInv DEF DetectionTypes, PortsArePaired
<1>4. CASE ContinueDetection(x)
  <2>1. /\ detection[x].stage = "asking" /\ replies[x] # "waiting" /\ saved = 0
        /\ \A y \in Detectors \ {x} : detection[y].stage # "asking"
        /\ UNCHANGED <<connected, saved>>
      BY <1>4 DEF ContinueDetection, OneTaskAsks
  <2>2. \A r \in Requesters : \A d : ~Asks(r, d)
      BY <2>1 DEF Asks
  <2>3. /\ detection[x].oldIns \in SUBSET Devices /\ detection[x].oldOuts = detection[x].oldIns
      BY <2>1 DEF DetectionTypes, PortsArePaired
  <2>4. CASE ~RecognizedDevice(detection[x].current, replies[x])
    <3>1. /\ ProbeNext(x, detection[x].todo, controllers, detection[x].oldIns, detection[x].oldIns)
          /\ UNCHANGED controllers
        BY <1>4, <2>3, <2>4 DEF ContinueDetection
    <3>. QED  BY <1>1, <2>1, <2>2, <2>3, <3>1, ProbingKeepsInv DEF DetectionTypes, PortsArePaired
  <2>5. CASE RecognizedDevice(detection[x].current, replies[x])
    <3>. DEFINE device == detection[x].current
                ports == detection[x].oldIns \cup {device}
                new == Controller(TRUE, device, device, TRUE)
    <3>1. replies[x] = device /\ device \in Devices
        BY <2>1, <2>5 DEF RecognizedDevice, RepliesFit, DetectionTypes
    <3>2. /\ ProbeNext(x, detection[x].todo, controllers', ports, ports)
          /\ controllers' = Append(controllers, new)
        BY <1>4, <2>3, <2>5, <3>1 DEF ContinueDetection
    <3>3. new \in ControllerRecords /\ new.input \in {None, new.output}
      <4>1. new \in [enabled: BOOLEAN, input: Ports, output: Ports, mainPreset: BOOLEAN]
            /\ new.input = new.output
          BY <3>1 DEF Controller, Ports
      <4>. QED  BY <4>1, ControllerFields
    <3>. HIDE DEF new
    <3>4. controllers' \in Seq(ControllerRecords \cup {None}) /\ Paired(controllers')
        BY <3>2, <3>3, AppendedController DEF PortsArePaired
    <3>5. ports \in SUBSET Devices
        BY <2>3, <3>1
    <3>. QED  BY <1>1, <2>1, <2>2, <3>2, <3>4, <3>5, ProbingKeepsInv
  <2>. QED  BY <2>4, <2>5
<1>. QED  BY <1>2, <1>3, <1>4

\* A detection that is spawned doesn't ask yet, but keeps others from asking.
LEMMA SpawnKeepsInv ==
    ASSUME NoMishap, DetectionInv, NEW x \in Detectors, NEW devices \in SUBSET Devices,
           SpawnDetection(x, devices), connected' \in SUBSET Devices,
           UNCHANGED <<hookTasks, inquiry, answers, replies, detecting, saved, controllers,
                       enabledInputs, enabledOutputs>>
    PROVE  DetectionInv'
<1>. USE DEF DetectionInv
<1>. DEFINE spawned == [NoDetection EXCEPT !.stage = "spawned", !.todo = devices]
<1>1. /\ DOMAIN detection = Detectors /\ Saver \notin Detectors /\ saved = 0
      /\ detection[x].stage = "off" /\ detection' = [detection EXCEPT ![x] = spawned]
    BY DetectionAssumption DEF DetectionTypes, SpawnDetection, AloneWith, NoMishap
<1>2. /\ spawned.stage = "spawned"
      /\ spawned \in [stage: {"off", "spawned", "asking"}, current: Ports, todo: SUBSET Devices,
                      oldIns: SUBSET Devices, oldOuts: SUBSET Devices]
    BY DEF NoDetection, Ports
<1>. HIDE DEF spawned
<1>3. \A y \in Detectors : detection'[y] = detection[y] \/ detection'[y].stage = "spawned"
    BY <1>1, <1>2
<1>4. DetectionTypes'
    BY <1>1, <1>2 DEF DetectionTypes
<1>5. OneTaskAsks' /\ RepliesFit' /\ PortsArePaired'
    BY <1>1, <1>3 DEF OneTaskAsks, RepliesFit, PortsArePaired
<1>6. \A r \in Requesters : \A d : Asks(r, d) => Asks(r, d)'
    BY <1>1 DEF Asks
<1>7. RequestsAreAsked' /\ AnswersAreAsked'
    BY <1>6, NoTasksKeepRequests DEF AnswersAreAsked
<1>. QED  BY <1>4, <1>5, <1>7

------------------------------------------------------------------------------
(* Changes of controllers                                                  *)

LEMMA SavingKeepsInv ==
    ASSUME NoMishap, DetectionInv, NEW i \in 1..(Len(controllers) + 1), NEW device \in Devices,
           SaveController(i, device), UNCHANGED <<inquiry, answers>>
    PROVE  DetectionInv'
<1>. USE DEF DetectionInv
<1>. DEFINE new == Controller(TRUE, None, device, TRUE)
<1>1. /\ saved = 0 /\ saved' = i /\ SendRequest(Saver, device, replies)
      /\ UNCHANGED <<detecting, detection, connected, enabledInputs, enabledOutputs>>
    BY DEF SaveController, portVars
<1>2. Saver \in Requesters /\ Saver \notin Detectors /\ Len(controllers) \in Nat
    BY DetectionAssumption DEF DetectionTypes
<1>3. \A x \in Detectors : detection[x].stage = "off"
    BY <1>2 DEF SaveController, AloneWith, NoMishap
<1>4. new \in ControllerRecords /\ new.input = None /\ new.output = device
  <2>1. new \in [enabled: BOOLEAN, input: Ports, output: Ports, mainPreset: BOOLEAN]
      BY DEF Controller, Ports
  <2>. QED  BY <2>1, ControllerFields DEF Controller
<1>5. controllers' = IF i \in 1..Len(controllers) THEN [controllers EXCEPT ![i] = new]
                     ELSE Append(controllers, new)
    BY DEF SaveController
<1>. HIDE DEF new
<1>6. /\ controllers' \in Seq(ControllerRecords \cup {None}) /\ Paired(controllers')
      /\ i \in 1..Len(controllers') /\ controllers'[i] = new
  <2>1. CASE i \in 1..Len(controllers)
    <3>1. controllers' = [controllers EXCEPT ![i] = new]
        BY <1>5, <2>1
    <3>2. controllers'[i] = new
        BY <2>1, <3>1 DEF DetectionTypes
    <3>. QED  BY <1>4, <2>1, <3>1, <3>2, ReplacedController DEF PortsArePaired
  <2>2. CASE i = Len(controllers) + 1
    <3>1. controllers' = Append(controllers, new)
        BY <1>2, <1>5, <2>2
    <3>. QED  BY <1>2, <1>4, <2>2, <3>1, AppendedController DEF PortsArePaired
  <2>. QED  BY <1>2, <2>1, <2>2
<1>7. \A r \in Requesters : \A d : ~Asks(r, d)
    BY <1>1, <1>3 DEF Asks
<1>8. replies'[Saver] = "waiting" => Asks(Saver, device)'
    BY <1>1, <1>2, <1>4, <1>6 DEF Asks
<1>9. RequestsAreAsked' /\ DOMAIN replies' = Requesters /\ replies'[Saver] \in {"waiting", "failed"}
    BY <1>1, <1>2, <1>7, <1>8, RequestIsSent DEF DetectionTypes
<1>10. AnswersAreAsked'
    BY <1>7, NobodyAsks DEF AnswersAreAsked
<1>11. DetectionTypes'
    BY <1>1, <1>6, <1>9 DEF DetectionTypes
<1>12. OneTaskAsks' /\ RepliesFit' /\ PortsArePaired'
    BY <1>1, <1>3, <1>6, <1>9 DEF OneTaskAsks, RepliesFit, PortsArePaired
<1>. QED  BY <1>9, <1>10, <1>11, <1>12

LEMMA TogglingKeepsInv ==
    ASSUME DetectionInv, NEW i \in 1..Len(controllers), ToggleController(i) \/ DeleteController(i),
           UNCHANGED <<inquiry, answers>>
    PROVE  DetectionInv'
<1>. USE DEF DetectionInv
<1>1. UNCHANGED <<detecting, detection, saved, connected, enabledInputs, enabledOutputs, hookTasks,
                  replies>>
    BY DEF ToggleController, DeleteController, portVars
<1>2. PICK c \in ControllerRecords \cup {None} :
         /\ controllers' = [controllers EXCEPT ![i] = c]
         /\ c # None => controllers[i] # None /\ c.input = controllers[i].input
                        /\ c.output = controllers[i].output
  <2>1. CASE DeleteController(i)
      BY <2>1 DEF DeleteController
  <2>2. CASE ToggleController(i)
    <3>. DEFINE c == [controllers[i] EXCEPT !.enabled = ~@]
    <3>1. controllers[i] # None /\ controllers' = [controllers EXCEPT ![i] = c]
        BY <2>2 DEF ToggleController
    <3>2. controllers[i] \in [enabled: BOOLEAN, input: Ports, output: Ports, mainPreset: BOOLEAN]
        BY <3>1, ControllerFields DEF DetectionTypes
    <3>3. c \in ControllerRecords /\ c.input = controllers[i].input /\ c.output = controllers[i].output
        BY <3>2, ControllerFields
    <3>. QED  BY <3>1, <3>3
  <2>. QED  BY <2>1, <2>2
<1>3. c # None => c.input \in {None, c.output}
    BY <1>2 DEF PortsArePaired, Paired
<1>4. /\ controllers' \in Seq(ControllerRecords \cup {None}) /\ Paired(controllers')
      /\ Len(controllers') = Len(controllers)
    BY <1>2, <1>3, ReplacedController DEF PortsArePaired
<1>5. \A k \in 1..Len(controllers) :
         controllers'[k] # None => controllers[k] # None /\ controllers'[k].output = controllers[k].output
    BY <1>2 DEF DetectionTypes
<1>6. DetectionTypes' /\ OneTaskAsks' /\ PortsArePaired'
    BY <1>1, <1>4 DEF DetectionTypes, OneTaskAsks, PortsArePaired
<1>7. saved # 0 => saved \in 1..Len(controllers)
    BY DEF DetectionTypes
<1>8. RepliesFit'
    BY <1>1, <1>5, <1>7 DEF RepliesFit
<1>9. \A r \in Requesters : \A d : Asks(r, d) => Asks(r, d)'
    BY <1>1, <1>5, <1>7 DEF Asks
<1>10. RequestsAreAsked' /\ AnswersAreAsked'
    BY <1>1, <1>9, NoTasksKeepRequests DEF AnswersAreAsked
<1>. QED  BY <1>6, <1>8, <1>10

LEMMA IdentityKeepsInv ==
    ASSUME DetectionInv, UpdateDeviceIdentity, UNCHANGED <<inquiry, answers>>
    PROVE  DetectionInv'
<1>. USE DEF DetectionInv
<1>1. /\ saved # 0 /\ replies[Saver] # "waiting" /\ saved' = 0
      /\ UNCHANGED <<detecting, detection, connected, enabledInputs, enabledOutputs, hookTasks, replies>>
    BY DEF UpdateDeviceIdentity, portVars
<1>2. saved \in 1..Len(controllers) /\ Len(controllers) \in Nat
    BY <1>1 DEF DetectionTypes
<1>3. controllers' \in Seq(ControllerRecords \cup {None}) /\ Paired(controllers')
      /\ Len(controllers') = Len(controllers)
  <2>1. CASE controllers' = controllers
      BY <2>1 DEF DetectionTypes, PortsArePaired
  <2>2. CASE controllers' # controllers
    <3>. DEFINE c == [controllers[saved] EXCEPT !.input = replies[Saver]]
    <3>1. controllers[saved] # None /\ replies[Saver] # "failed"
          /\ controllers' = [controllers EXCEPT ![saved] = c]
        BY <2>2 DEF UpdateDeviceIdentity
    <3>2. replies[Saver] = controllers[saved].output
        BY <1>1, <3>1 DEF RepliesFit
    <3>3. controllers[saved] \in [enabled: BOOLEAN, input: Ports, output: Ports, mainPreset: BOOLEAN]
        BY <1>2, <3>1, ControllerFields DEF DetectionTypes
    <3>4. c \in ControllerRecords /\ c.input = c.output
        BY <3>2, <3>3, ControllerFields
    <3>. QED  BY <1>2, <3>1, <3>4, ReplacedController DEF PortsArePaired
  <2>. QED  BY <2>1, <2>2
<1>4. DetectionTypes' /\ OneTaskAsks' /\ RepliesFit' /\ PortsArePaired'
    BY <1>1, <1>3 DEF DetectionTypes, OneTaskAsks, RepliesFit, PortsArePaired
<1>5. \A r \in Requesters : \A d : Asks(r, d) => Asks(r, d)'
    BY <1>1 DEF Asks, OneTaskAsks
<1>6. RequestsAreAsked' /\ AnswersAreAsked'
    BY <1>1, <1>5, NoTasksKeepRequests DEF AnswersAreAsked
<1>. QED  BY <1>4, <1>6

------------------------------------------------------------------------------
(* Everything else only sends plain tasks                                  *)

SendsPlainTasks == \E tasks : IsPlain(tasks) /\ hookTasks' = Sent(tasks)

LEMMA UnitStepsSendPlainTasks ==
    ASSUME SendsUnitTasks
    PROVE  SendsPlainTasks
<1>1. \A task \in UnitTaskRecords : ~IsRequest(task)
    BY DEF UnitTaskRecords, IsRequest
<1>. QED  BY <1>1 DEF SendsUnitTasks, SendsPlainTasks, IsUnitQueue, IsPlain, IsQueue

LEMMA PanelStepsSendPlainTasks ==
    ASSUME \/ CloseMessagePanel
           \/ \E s \in Sessions, kind \in {"find", "learn"} : StartSession(s, kind)
           \/ \E s \in Sessions : ContinueSession(s)
    PROVE  UNCHANGED hookTasks \/ SendsPlainTasks
<1>. USE DEF SendsPlainTasks, SendTasks
<1>1. ASSUME NEW new, NEW sessions, ReplacePanel(new, sessions)
      PROVE  SendsPlainTasks
  <2>1. IsPlain(<<>>) /\ IsPlain(<<Task("StopCapturingMidi", None)>>)
    <3>1. <<>> \in Seq({}) /\ Len(<<>>) = 0
        OBVIOUS
    <3>. QED  BY <3>1, PlainTask DEF IsPlain, IsQueue
  <2>2. IsPlain(OnClose(new))
      BY <2>1 DEF OnClose
  <2>. QED  BY <1>1, <2>2 DEF ReplacePanel
<1>2. ASSUME NEW s, NEW kind, StartSession(s, kind)
      PROVE  SendsPlainTasks
    BY <1>2, PlainTask DEF StartSession
<1>3. CASE CloseMessagePanel
    BY <1>1, <1>3 DEF CloseMessagePanel
<1>4. ASSUME NEW s, ContinueSession(s)
      PROVE  UNCHANGED hookTasks \/ SendsPlainTasks
    BY <1>1, <1>4 DEF ContinueSession, IgnoreCaptured, FindMapping, MissUnit, AskForTarget,
                      LearnTarget, EndCapture
<1>. QED  BY <1>2, <1>3, <1>4

LEMMA QuietActions ==
    ASSUME DetectionInv,
           \/ StopOrStartAudio \/ FreeGarbage \/ RemoveAudioHook \/ FallAsleep
           \/ \E i \in Instances : InitInstanceShell(i) \/ UnloadPlugin(i)
           \/ OperateUnits \/ UpdateUnits \/ StartLearning \/ ContinueLearning
           \/ \E d \in Devices : Unplug(d)
           \/ UNCHANGED vars
    PROVE  Quiet
<1>. USE DEF Quiet, hookVars, hookStateVars, portVars, detectionVars
<1>1. connected \in SUBSET Devices
    BY DEF DetectionInv, DetectionTypes
<1>2. CASE StopOrStartAudio
    BY <1>1, <1>2 DEF StopOrStartAudio, SwitchAudio
<1>3. CASE FreeGarbage \/ RemoveAudioHook \/ FallAsleep \/ UNCHANGED vars
    BY <1>1, <1>3 DEF FreeGarbage, RemoveAudioHook, FallAsleep, vars
<1>4. ASSUME NEW i \in Instances, InitInstanceShell(i) \/ UnloadPlugin(i)
      PROVE  Quiet
    BY <1>1, <1>4, UnitSteps, UnitStepsSendPlainTasks DEF InitInstanceShell, UnloadPlugin, SendsPlainTasks
<1>5. CASE OperateUnits
  <2>1. UNCHANGED hookTasks \/ SendsPlainTasks
      BY <1>5, UnitSteps, UnitStepsSendPlainTasks
         DEF OperateUnits, ToggleGlobalControl, ReportActivity, PickPort
  <2>. QED  BY <1>1, <1>5, <2>1 DEF OperateUnits, SendsPlainTasks
<1>6. CASE UpdateUnits
    BY <1>1, <1>6, UnitSteps, UnitStepsSendPlainTasks DEF UpdateUnits, SendsPlainTasks
<1>7. CASE StartLearning \/ ContinueLearning
    BY <1>1, <1>7, PanelStepsSendPlainTasks DEF StartLearning, ContinueLearning, SendsPlainTasks
<1>8. ASSUME NEW d \in Devices, Unplug(d)
      PROVE  Quiet
    BY <1>1, <1>8 DEF Unplug
<1>. QED  BY <1>2, <1>3, <1>4, <1>5, <1>6, <1>7, <1>8

LEMMA NextDetectionInv == NoMishap /\ DetectionInv /\ [Next]_vars => DetectionInv'
<1>. SUFFICES ASSUME NoMishap, DetectionInv, [Next]_vars
              PROVE  DetectionInv'
    OBVIOUS
<1>. USE DEF hookVars, hookStateVars, detectionVars
<1>1. ASSUME NEW arriving, NEW timedOut, NEW touched, AudioBlock(arriving, timedOut, touched)
      PROVE  DetectionInv'
    BY <1>1, BlocksKeepInv DEF AudioBlock
<1>2. ASSUME NEW i \in Instances, LoadPlugin(i)
      PROVE  DetectionInv'
  <2>1. UNCHANGED hookVars
      BY <1>2 DEF LoadPlugin
  <2>2. CASE phase = "asleep"
      BY <1>2, <2>1, <2>2, DropsKeepInv DEF LoadPlugin, WakeUp
  <2>3. CASE phase # "asleep"
    <3>1. Quiet
        BY <1>2, <2>1, <2>3 DEF LoadPlugin, Quiet, DetectionInv, DetectionTypes, portVars
    <3>. QED  BY <3>1, QuietSteps
  <2>. QED  BY <2>2, <2>3
<1>3. CASE OperateControllers
  <2>1. UNCHANGED <<inquiry, answers>>
      BY <1>3 DEF OperateControllers
  <2>2. Len(controllers) \in Nat
      BY DEF DetectionInv, DetectionTypes
  <2>3. ASSUME NEW i \in 1..(Len(controllers) + 1), NEW d \in Devices, SaveController(i, d)
        PROVE  DetectionInv'
      BY <2>1, <2>3, SavingKeepsInv
  <2>4. ASSUME NEW i \in 1..Len(controllers), ToggleController(i) \/ DeleteController(i)
        PROVE  DetectionInv'
      BY <2>1, <2>4, TogglingKeepsInv
  <2>. QED  BY <1>3, <2>2, <2>3, <2>4 DEF OperateControllers
<1>4. ASSUME NEW x \in Detectors, DetectControllers(x)
      PROVE  DetectionInv'
  <2>1. connected \in SUBSET Devices
      BY DEF DetectionInv, DetectionTypes
  <2>. QED  BY <1>4, <2>1, SpawnKeepsInv DEF DetectControllers, portVars
<1>5. ASSUME NEW x \in Detectors, NEW d \in Devices, Plug(x, d)
      PROVE  DetectionInv'
  <2>1. connected' \in SUBSET Devices
      BY <1>5 DEF Plug, DetectionInv, DetectionTypes
  <2>. QED  BY <1>5, <2>1, SpawnKeepsInv DEF Plug
<1>6. CASE ContinueTasks
    BY <1>6, DetectionsKeepInv, IdentityKeepsInv DEF ContinueTasks
<1>7. CASE Quiet
    BY <1>7, QuietSteps
<1>. QED
    BY <1>1, <1>2, <1>3, <1>4, <1>5, <1>6, <1>7, QuietActions DEF Next

LEMMA InitDetectionInv == Init => DetectionInv
<1>. SUFFICES ASSUME NEW scenario \in Scenarios,
                     /\ connected = scenario.connected
                     /\ enabledInputs = {} /\ enabledOutputs = {} /\ answers = {}
                     /\ hookTasks = <<>> /\ inquiry = None
                     /\ replies = [r \in Requesters |-> "failed"]
                     /\ InitDetection(scenario.controllers)
              PROVE  DetectionInv
    BY DEF Init
<1>1. /\ detecting = FALSE /\ detection = [x \in Detectors |-> NoDetection] /\ saved = 0
      /\ controllers = scenario.controllers
    BY DEF InitDetection
<1>2. /\ connected \subseteq Devices /\ controllers \in Seq(ControllerRecords \cup {None})
      /\ Paired(controllers)
    BY <1>1, ScenariosAssumption
<1>3. /\ NoDetection.stage = "off"
      /\ NoDetection \in [stage: {"off", "spawned", "asking"}, current: Ports, todo: SUBSET Devices,
                          oldIns: SUBSET Devices, oldOuts: SUBSET Devices]
    BY DEF NoDetection, Ports
<1>4. DetectionTypes
    BY <1>1, <1>2, <1>3 DEF DetectionTypes
<1>5. OneTaskAsks /\ RepliesFit /\ PortsArePaired
    BY <1>1, <1>2, <1>3 DEF OneTaskAsks, RepliesFit, PortsArePaired
<1>6. hookTasks \in Seq({}) /\ Len(hookTasks) = 0
    OBVIOUS
<1>7. RequestsAreAsked /\ AnswersAreAsked
    BY <1>6 DEF RequestsAreAsked, AnswersAreAsked, IsQueue
<1>. QED  BY <1>4, <1>5, <1>7 DEF DetectionInv

(* No controller pairs ports of two devices, however many devices answer   *)
(* and whatever else goes on meanwhile, if inquiries don't overlap and     *)
(* nobody answers too late (process_midi_device_inquiry_command and        *)
(* maybe_create_controller_for_device).                                    *)
THEOREM DevicesStayPaired == NoMishap => (Spec => []DevicesArePaired)
<1>1. DetectionInv => DevicesArePaired
    BY DEF DetectionInv, PortsArePaired, DevicesArePaired
<1>2. ASSUME NoMishap
      PROVE  Spec => []DevicesArePaired
  <2>1. DetectionInv /\ [Next]_vars => DetectionInv'
      BY <1>2, NextDetectionInv
  <2>. QED  BY <1>1, <2>1, InitDetectionInv, PTL DEF Spec
<1>. QED  BY <1>2

(* When no detection is under way, only ports of recognized devices have   *)
(* been left enabled, under the same assumptions (detect_controllers).     *)
THEOREM DetectionNeverLeavesTraces == NoMishap => (Spec => []DetectionLeavesNoTraces)
<1>1. DetectionInv => DetectionLeavesNoTraces
    BY DEF DetectionInv, PortsArePaired, DetectionLeavesNoTraces
<1>2. ASSUME NoMishap
      PROVE  Spec => []DetectionLeavesNoTraces
  <2>1. DetectionInv /\ [Next]_vars => DetectionInv'
      BY <1>2, NextDetectionInv
  <2>. QED  BY <1>1, <2>1, InitDetectionInv, PTL DEF Spec
<1>. QED  BY <1>2

==============================================================================
