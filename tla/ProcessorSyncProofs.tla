------------------------- MODULE ProcessorSyncProofs -------------------------
(***************************************************************************)
(* What holds of the two processors of a unit for any compartments,        *)
(* mappings, outputs, capacities, outages and lost tasks: the processors   *)
(* keep their types, the channel its limits, the real-time processor       *)
(* mirrors the main processor once all tasks are processed, and the last   *)
(* lifecycle MIDI of each mapping fits as long as a unit's output doesn't  *)
(* change any more once set.                                               *)
(*                                                                         *)
(* The last needs that settings tasks arrive in the order in which the     *)
(* output was set (OutputsAreOrdered): an outdated "no output" behind the  *)
(* output would switch off feedback without any lifecycle message.         *)
(***************************************************************************)
EXTENDS ProcessorSync, TLAPS

Outputs == Destinations \cup {None}
MappingSets == [Mappings -> MappingStates \cup {None}]

\* Tasks in which settings have output d.
TasksWith(d) ==
    [type: {"UpdateSettings"}, dest: {d}]
    \cup [type: {"UpdateControlIsGloballyEnabled", "UpdateFeedbackIsGloballyEnabled"}, enabled: BOOLEAN]
    \cup [type: {"UpdateAllMappings"}, compartment: Compartments, mappings: MappingSets]
    \cup [type: {"UpdateSingleMapping"}, compartment: Compartments, id: Mappings, mapping: MappingStates]
    \cup [type: {"UpdatePersistentProcessingState"}, compartment: Compartments, id: Mappings,
          enabled: BOOLEAN]
    \cup [type: {"UpdateMappingsPartially", "UpdateTargetsPartially"}, compartment: Compartments,
          updates: UNION {[ms -> BOOLEAN] : ms \in SUBSET Mappings}]
    \cup [type: {"SetControlMode"}, mode: Modes]

Task == UNION {TasksWith(d) : d \in Outputs}

SyncTypes ==
    /\ TypeOK
    /\ circumstances \in [control : BOOLEAN, feedback : BOOLEAN]
    /\ sending \in Seq(TasksWith(main.dest))
    /\ queue \in Seq(Task)

------------------------------------------------------------------------------
(* Sequences                                                               *)

LEMMA TakeFirst ==
    ASSUME NEW S, NEW q \in Seq(S), q # <<>>
    PROVE  /\ Tail(q) \in Seq(S) /\ Len(q) \in Nat /\ Len(Tail(q)) = Len(q) - 1
           /\ 1 \in 1..Len(q) /\ Head(q) = q[1] /\ Head(q) \in S
           /\ \A k \in 1..Len(Tail(q)) : k + 1 \in 1..Len(q) /\ Tail(q)[k] = q[k + 1]
OBVIOUS

LEMMA AddLast ==
    ASSUME NEW S, NEW q \in Seq(S), NEW x \in S
    PROVE  /\ Append(q, x) \in Seq(S) /\ Len(q) \in Nat /\ Len(Append(q, x)) = Len(q) + 1
           /\ \A k \in 1..Len(q) : Append(q, x)[k] = q[k]
           /\ Append(q, x)[Len(q) + 1] = x
OBVIOUS

LEMMA ConcatTypes ==
    ASSUME NEW S, NEW q \in Seq(S), NEW r \in Seq(S)
    PROVE  q \o r \in Seq(S)
OBVIOUS

------------------------------------------------------------------------------
(* Main thread                                                             *)

LEMMA TaskKinds ==
    ASSUME NEW d \in Outputs
    PROVE  TasksWith(d) \subseteq Task
BY DEF Task

LEMMA ProcessorFields ==
    ASSUME NEW p \in ProcessorStates
    PROVE  /\ p.dest \in Outputs /\ p.control \in BOOLEAN /\ p.feedback \in BOOLEAN /\ p.mode \in Modes
           /\ p.mappings \in [Compartments -> MappingSets]
BY DEF ProcessorStates, Outputs, MappingSets

LEMMA SwitchTaskTypes ==
    ASSUME NEW p, NEW old, p.control \in BOOLEAN, p.feedback \in BOOLEAN, NEW d
    PROVE  SwitchTasks(old, p) \in Seq(TasksWith(d))
<1>1. ControlTask(p) \in TasksWith(d) /\ FeedbackTask(p) \in TasksWith(d)
    BY DEF ControlTask, FeedbackTask, TasksWith
<1>. HIDE DEF TasksWith
<1>. QED  BY <1>1 DEF SwitchTasks

LEMMA SettingsTaskTypes ==
    ASSUME NEW p
    PROVE  <<SettingsTask(p)>> \in Seq(TasksWith(p.dest))
<1>1. SettingsTask(p) \in TasksWith(p.dest)
    BY DEF SettingsTask, TasksWith
<1>. HIDE DEF TasksWith
<1>. QED  BY <1>1

LEMMA AllMappingsTaskTypes ==
    ASSUME NEW p \in ProcessorStates, NEW c \in Compartments, NEW d
    PROVE  AllMappingsTask(p, c) \in TasksWith(d)
BY ProcessorFields DEF AllMappingsTask, TasksWith

LEMMA FullSyncTypes ==
    ASSUME NEW p \in ProcessorStates
    PROVE  FullSync(p) \in Seq(TasksWith(p.dest))
<1>. DEFINE mappingTasks == [i \in DOMAIN CompartmentKinds |-> AllMappingsTask(p, CompartmentKinds[i])]
<1>1. \A i \in DOMAIN CompartmentKinds : AllMappingsTask(p, CompartmentKinds[i]) \in TasksWith(p.dest)
    BY AllMappingsTaskTypes DEF Compartments
<1>2. mappingTasks \in Seq(TasksWith(p.dest))
  <2>1. Len(CompartmentKinds) \in Nat /\ DOMAIN CompartmentKinds = 1..Len(CompartmentKinds)
      BY CompartmentsAssumption
  <2>. HIDE DEF TasksWith
  <2>. QED  BY <1>1, <2>1
<1>3. SwitchTasks(p, p) \in Seq(TasksWith(p.dest))
    BY ProcessorFields, SwitchTaskTypes
<1>. HIDE DEF mappingTasks
<1>4. <<SettingsTask(p)>> \o SwitchTasks(p, p) \in Seq(TasksWith(p.dest))
    BY <1>3, SettingsTaskTypes, ConcatTypes
<1>5. (<<SettingsTask(p)>> \o SwitchTasks(p, p)) \o mappingTasks \in Seq(TasksWith(p.dest))
    BY <1>2, <1>4, ConcatTypes
<1>. QED  BY <1>5 DEF FullSync, mappingTasks

\* A change of what the main processor has determined sends tasks about it.
ChangeIsTyped ==
    /\ sending = <<>>
    /\ main' \in ProcessorStates
    /\ sending' \in Seq(TasksWith(main'.dest))
    /\ circumstances' \in [control : BOOLEAN, feedback : BOOLEAN]
    /\ UNCHANGED <<rtVars, audioVars, queue, requests, dropped>>

\* Unless it may change, an output stays what it is once it is set.
OutputIsKept == "ChangeSettings" \in Ops \/ main.dest = None \/ main'.dest = main.dest

LEMMA ChangeKeepsTypes ==
    ASSUME SyncTypes, ChangeIsTyped
    PROVE  SyncTypes'
BY DEF SyncTypes, TypeOK, ChangeIsTyped, rtVars, audioVars

LEMMA ChangeMainIsTyped ==
    ASSUME SyncTypes, NEW op, NEW new \in ProcessorStates, NEW tasks \in Seq(TasksWith(new.dest)),
           ChangeMain(op, new, tasks), circumstances' \in [control : BOOLEAN, feedback : BOOLEAN]
    PROVE  ChangeIsTyped /\ main' = new
BY DEF ChangeMain, ChangeIsTyped

LEMMA OneTask ==
    ASSUME NEW S, NEW t \in S
    PROVE  <<t>> \in Seq(S)
OBVIOUS

LEMMA SwitchesTypes ==
    ASSUME NEW p \in ProcessorStates, NEW circ \in [control : BOOLEAN, feedback : BOOLEAN]
    PROVE  WithSwitches(p, circ) \in ProcessorStates /\ WithSwitches(p, circ).dest = p.dest
BY DEF WithSwitches, ProcessorStates

LEMMA UpdateSettingsIsTyped ==
    ASSUME SyncTypes, UpdateSettings
    PROVE  ChangeIsTyped /\ OutputIsKept
<1>1. PICK dest \in Outputs :
        LET new == WithSwitches([main EXCEPT !.dest = dest], circumstances)
        IN  /\ "ChangeSettings" \in Ops \/ main.dest = None
            /\ ChangeMain("UpdateSettings", new, <<SettingsTask(new)>> \o SwitchTasks(main, new))
            /\ UNCHANGED circumstances
    BY DEF UpdateSettings, Outputs
<1>. DEFINE moved == [main EXCEPT !.dest = dest]
            new == WithSwitches(moved, circumstances)
<1>2. moved \in ProcessorStates
    BY DEF SyncTypes, TypeOK, ProcessorStates, Outputs
<1>3. new \in ProcessorStates
    BY <1>2, SwitchesTypes DEF SyncTypes
<1>4. SwitchTasks(main, new) \in Seq(TasksWith(new.dest))
    BY <1>3, ProcessorFields, SwitchTaskTypes
<1>5. <<SettingsTask(new)>> \o SwitchTasks(main, new) \in Seq(TasksWith(new.dest))
    BY <1>4, SettingsTaskTypes, ConcatTypes
<1>. HIDE DEF new
<1>6. ChangeMain("UpdateSettings", new, <<SettingsTask(new)>> \o SwitchTasks(main, new))
        /\ UNCHANGED circumstances
    BY <1>1 DEF new
<1>7. ChangeIsTyped
    BY <1>3, <1>5, <1>6, ChangeMainIsTyped DEF SyncTypes
<1>. QED  BY <1>1, <1>7 DEF OutputIsKept

LEMMA PotentiallyEnableOrDisableIsTyped ==
    ASSUME SyncTypes, PotentiallyEnableOrDisable
    PROVE  ChangeIsTyped /\ OutputIsKept
<1>1. PICK circ \in [control : BOOLEAN, feedback : BOOLEAN] :
        /\ ChangeMain("PotentiallyEnableOrDisable", WithSwitches(main, circ),
                      SwitchTasks(main, WithSwitches(main, circ)))
        /\ circumstances' = circ
    BY DEF PotentiallyEnableOrDisable
<1>. DEFINE new == WithSwitches(main, circ)
<1>2. new \in ProcessorStates /\ new.dest = main.dest
    BY SwitchesTypes DEF SyncTypes, TypeOK
<1>3. SwitchTasks(main, new) \in Seq(TasksWith(new.dest))
    BY <1>2, ProcessorFields, SwitchTaskTypes
<1>. HIDE DEF new
<1>4. ChangeMain("PotentiallyEnableOrDisable", new, SwitchTasks(main, new)) /\ circumstances' = circ
    BY <1>1 DEF new
<1>. QED  BY <1>2, <1>3, <1>4, ChangeMainIsTyped DEF OutputIsKept

\* Changes of one task that leave the output alone
LEMMA ChangeOfOneTask ==
    ASSUME SyncTypes, NEW op, NEW new \in ProcessorStates, new.dest = main.dest,
           NEW task \in TasksWith(new.dest), ChangeMain(op, new, <<task>>), UNCHANGED circumstances
    PROVE  ChangeIsTyped /\ OutputIsKept
BY ChangeMainIsTyped, OneTask DEF OutputIsKept, SyncTypes

LEMMA MappingChangesAreTyped ==
    ASSUME SyncTypes,
           UpdateAllMappings \/ UpdateSingleMapping \/ UpdatePersistentProcessingState \/ SetControlMode
    PROVE  ChangeIsTyped /\ OutputIsKept
<1>0. main \in ProcessorStates
    BY DEF SyncTypes, TypeOK
<1>1. CASE UpdateAllMappings
  <2>1. PICK c \in Compartments, ms \in [Mappings -> NewMappings \cup {None}] :
            /\ ChangeMain("UpdateAllMappings", [main EXCEPT !.mappings[c] = ms],
                          <<AllMappingsTask([main EXCEPT !.mappings[c] = ms], c)>>)
            /\ UNCHANGED circumstances
      BY <1>1 DEF UpdateAllMappings
  <2>. DEFINE new == [main EXCEPT !.mappings[c] = ms]
  <2>2. ms \in MappingSets
      BY MappingsAssumption DEF MappingSets
  <2>3. new \in ProcessorStates /\ new.dest = main.dest
      BY <1>0, <2>2 DEF ProcessorStates, MappingSets
  <2>4. AllMappingsTask(new, c) \in TasksWith(new.dest)
      BY <2>3, AllMappingsTaskTypes
  <2>. HIDE DEF new
  <2>5. ChangeMain("UpdateAllMappings", new, <<AllMappingsTask(new, c)>>) /\ UNCHANGED circumstances
      BY <2>1 DEF new
  <2>. QED  BY <2>3, <2>4, <2>5, ChangeOfOneTask
<1>2. CASE UpdateSingleMapping
  <2>. DEFINE new(c, m, s) == [main EXCEPT !.mappings[c][m] = s]
              task(c, m, s) == [type |-> "UpdateSingleMapping", compartment |-> c, id |-> m, mapping |-> s]
  <2>1. PICK c \in Compartments, m \in Mappings, s \in MappingStates :
            ChangeMain("UpdateSingleMapping", new(c, m, s), <<task(c, m, s)>>) /\ UNCHANGED circumstances
      BY <1>2, MappingsAssumption DEF UpdateSingleMapping
  <2>2. new(c, m, s) \in ProcessorStates /\ new(c, m, s).dest = main.dest
      BY <1>0 DEF ProcessorStates
  <2>3. task(c, m, s) \in TasksWith(new(c, m, s).dest)
      BY DEF TasksWith
  <2>. HIDE DEF new, task
  <2>. QED  BY <2>1, <2>2, <2>3, ChangeOfOneTask
<1>3. CASE UpdatePersistentProcessingState
  <2>. DEFINE new(c, m, e) == [main EXCEPT !.mappings[c][m].enabled = e]
              task(c, m, e) == [type |-> "UpdatePersistentProcessingState", compartment |-> c,
                                id |-> m, enabled |-> e]
  <2>1. PICK c \in Compartments, e \in BOOLEAN, m \in Mappings :
            /\ m \in Present(main.mappings[c])
            /\ ChangeMain("UpdatePersistentProcessingState", new(c, m, e), <<task(c, m, e)>>)
            /\ UNCHANGED circumstances
      BY <1>3 DEF UpdatePersistentProcessingState, Present
  <2>2. m \in Mappings /\ main.mappings[c][m] \in MappingStates
      BY <1>0, <2>1 DEF Present, ProcessorStates
  <2>3. [main.mappings[c][m] EXCEPT !.enabled = e] \in MappingStates
      BY <2>2 DEF MappingStates
  <2>4. new(c, m, e) = [main EXCEPT !.mappings[c][m] = [main.mappings[c][m] EXCEPT !.enabled = e]]
      BY <1>0, <2>2 DEF ProcessorStates
  <2>5. new(c, m, e) \in ProcessorStates /\ new(c, m, e).dest = main.dest
      BY <1>0, <2>2, <2>3, <2>4 DEF ProcessorStates
  <2>6. task(c, m, e) \in TasksWith(new(c, m, e).dest)
      BY <2>2 DEF TasksWith
  <2>. HIDE DEF new, task
  <2>. QED  BY <2>1, <2>5, <2>6, ChangeOfOneTask
<1>4. CASE SetControlMode
  <2>. DEFINE new(mode) == [main EXCEPT !.mode = mode]
              task(mode) == [type |-> "SetControlMode", mode |-> mode]
  <2>1. PICK mode \in Modes : ChangeMain("SetControlMode", new(mode), <<task(mode)>>)
                                /\ UNCHANGED circumstances
      BY <1>4 DEF SetControlMode
  <2>2. new(mode) \in ProcessorStates /\ new(mode).dest = main.dest
      BY <1>0 DEF ProcessorStates
  <2>3. task(mode) \in TasksWith(new(mode).dest)
      BY DEF TasksWith
  <2>. HIDE DEF new, task
  <2>. QED  BY <2>1, <2>2, <2>3, ChangeOfOneTask
<1>. QED  BY <1>1, <1>2, <1>3, <1>4

\* What activation conditions and targets change of a mapping
Fields == {"active", "targetActive"}

LEMMA FieldUpdate ==
    ASSUME NEW s \in MappingStates, NEW field \in Fields, NEW b \in BOOLEAN
    PROVE  LET new == [s EXCEPT ![field] = b]
           IN  /\ new \in MappingStates /\ new[field] = b /\ new.enabled = s.enabled
               /\ field = "active" => new.targetActive = s.targetActive
               /\ field = "targetActive" => new.active = s.active
<1>1. CASE field = "active"
    BY <1>1 DEF MappingStates
<1>2. CASE field = "targetActive"
    BY <1>2 DEF MappingStates
<1>. QED  BY <1>1, <1>2 DEF Fields

LEMMA PartialChangesAreTyped ==
    ASSUME SyncTypes, UpdateMappingsPartially \/ UpdateTargetsPartially
    PROVE  ChangeIsTyped /\ OutputIsKept
<1>0. main \in ProcessorStates
    BY DEF SyncTypes, TypeOK
<1>1. PICK op \in {"UpdateMappingsPartially", "UpdateTargetsPartially"}, field \in Fields :
        UpdateMappingsOrTargets(op, field)
    BY DEF UpdateMappingsPartially, UpdateTargetsPartially, Fields
<1>. DEFINE ms(c, changed) == Toggled(main.mappings[c], changed, field)
            new(c, changed) == [main EXCEPT !.mappings[c] = ms(c, changed)]
            task(c, changed) == [type |-> op, compartment |-> c,
                                 updates |-> [m \in changed |-> ms(c, changed)[m][field]]]
<1>2. PICK c \in Compartments, changed \in SUBSET Mappings :
        /\ changed \subseteq Present(main.mappings[c])
        /\ ChangeMain(op, new(c, changed), <<task(c, changed)>>)
        /\ UNCHANGED circumstances
    BY <1>1 DEF UpdateMappingsOrTargets, Present
<1>3. \A m \in changed : main.mappings[c][m] \in MappingStates
    BY <1>0, <1>2 DEF Present, ProcessorStates
<1>4. \A m \in changed : main.mappings[c][m][field] \in BOOLEAN
    BY <1>3 DEF MappingStates, Fields
<1>5. \A m \in Mappings : ms(c, changed)[m] =
        IF m \in changed THEN [main.mappings[c][m] EXCEPT ![field] = ~main.mappings[c][m][field]]
        ELSE main.mappings[c][m]
    BY DEF Toggled
<1>6. \A m \in changed : ms(c, changed)[m] \in MappingStates /\ ms(c, changed)[m][field] \in BOOLEAN
  <2>. TAKE m \in changed
  <2>1. ms(c, changed)[m] = [main.mappings[c][m] EXCEPT ![field] = ~main.mappings[c][m][field]]
      BY <1>5
  <2>2. main.mappings[c][m] \in MappingStates /\ (~main.mappings[c][m][field]) \in BOOLEAN
      BY <1>3
  <2>3. \A s \in MappingStates, b \in BOOLEAN :
            [s EXCEPT ![field] = b] \in MappingStates /\ [s EXCEPT ![field] = b][field] = b
      BY FieldUpdate
  <2>4. [main.mappings[c][m] EXCEPT ![field] = ~main.mappings[c][m][field]] \in MappingStates
      BY <2>2, <2>3
  <2>5. [main.mappings[c][m] EXCEPT ![field] = ~main.mappings[c][m][field]][field] \in BOOLEAN
      BY <2>2, <2>3
  <2>. HIDE DEF ms
  <2>. QED  BY <2>1, <2>4, <2>5
<1>7. ms(c, changed) \in MappingSets
  <2>1. \A m \in Mappings : main.mappings[c][m] \in MappingStates \cup {None}
      BY <1>0 DEF ProcessorStates
  <2>2. ms(c, changed) = [m \in Mappings |-> ms(c, changed)[m]]
      BY DEF Toggled
  <2>. HIDE DEF ms
  <2>3. \A m \in Mappings : ms(c, changed)[m] \in MappingStates \cup {None}
      BY <1>5, <1>6, <2>1
  <2>. QED  BY <2>2, <2>3 DEF MappingSets
<1>. HIDE DEF ms
<1>8. new(c, changed) \in ProcessorStates /\ new(c, changed).dest = main.dest
    BY <1>0, <1>7 DEF ProcessorStates, MappingSets
<1>9. task(c, changed) \in TasksWith(new(c, changed).dest)
  <2>1. [m \in changed |-> ms(c, changed)[m][field]] \in [changed -> BOOLEAN]
      BY <1>6
  <2>2. [m \in changed |-> ms(c, changed)[m][field]] \in UNION {[x -> BOOLEAN] : x \in SUBSET Mappings}
      BY <2>1
  <2>. QED  BY <2>2 DEF TasksWith
<1>. HIDE DEF new, task
<1>. QED  BY <1>2, <1>8, <1>9, ChangeOfOneTask

LEMMA ChangesAreTyped ==
    ASSUME SyncTypes, Change
    PROVE  ChangeIsTyped /\ OutputIsKept
BY UpdateSettingsIsTyped, PotentiallyEnableOrDisableIsTyped, MappingChangesAreTyped,
   PartialChangesAreTyped DEF Change

------------------------------------------------------------------------------
(* Audio thread                                                            *)

Markers == Destinations \X Compartments \X Mappings

LastMidiFits(p, marks) == marks = IF ProcessorFeedbackIsOn(p) THEN AllMarks(p) ELSE {}

\* Handling task t keeps types, and the last lifecycle message of each mapping
\* fits afterwards if it did before, provided t doesn't move the output.
HandlesWell(t, o) ==
    /\ o.rt \in ProcessorStates
    /\ o.activated \in SUBSET Markers
    /\ o.rt.dest = IF t.type = "UpdateSettings" THEN t.dest ELSE rt.dest
    /\ LastMidiFits(rt, activated) /\ (t.type = "UpdateSettings" => rt.dest \in {None, t.dest})
        => LastMidiFits(o.rt, o.activated)

LEMMA MarkElements ==
    ASSUME NEW p, NEW c, NEW ms, NEW x
    PROVE  /\ x \in Marks(p, c, ms) <=> \E m \in ms : x = <<p.dest, c, m>>
           /\ x \in AllMarks(p) <=> \E k \in Compartments, m \in Mappings :
                    x = <<p.dest, k, m>> /\ FeedbackIsOn(p.mappings[k][m])
<1>1. \A k, ls : x \in Marks(p, k, ls) <=> \E m \in ls : x = <<p.dest, k, m>>
    BY DEF Marks
<1>2. x \in AllMarks(p) <=> \E k \in Compartments : x \in Marks(p, k, LitMappings(p, k))
    BY DEF AllMarks
<1>3. \A k, m : m \in LitMappings(p, k) <=> m \in Mappings /\ FeedbackIsOn(p.mappings[k][m])
    BY DEF LitMappings
<1>4. x \in AllMarks(p) <=> \E k \in Compartments : \E m \in LitMappings(p, k) : x = <<p.dest, k, m>>
    BY <1>1, <1>2
<1>. QED  BY <1>1, <1>3, <1>4

LEMMA MarkTypes ==
    ASSUME NEW p, p.dest \in Destinations
    PROVE  /\ AllMarks(p) \in SUBSET Markers
           /\ \A c \in Compartments, ms \in SUBSET Mappings : Marks(p, c, ms) \in SUBSET Markers
BY MarkElements DEF Markers

\* Replacing mappings of one compartment is a matter of the marks in it.
LEMMA MarksAfterReplacement ==
    ASSUME NEW p, NEW new, NEW c \in Compartments, new.dest = p.dest,
           \A k \in Compartments : k # c => new.mappings[k] = p.mappings[k],
           NEW off \in SUBSET Mappings, NEW on \in SUBSET Mappings,
           LitMappings(new, c) = (LitMappings(p, c) \ off) \cup on
    PROVE  (AllMarks(p) \ Marks(p, c, off)) \cup Marks(p, c, on) = AllMarks(new)
<1>1. \A m \in Mappings : FeedbackIsOn(new.mappings[c][m]) <=>
            (FeedbackIsOn(p.mappings[c][m]) /\ m \notin off) \/ m \in on
    BY DEF LitMappings
<1>. SUFFICES ASSUME NEW x
              PROVE  x \in (AllMarks(p) \ Marks(p, c, off)) \cup Marks(p, c, on) <=> x \in AllMarks(new)
    OBVIOUS
<1>2. ASSUME NEW k \in Compartments, NEW m \in Mappings, x = <<p.dest, k, m>>
      PROVE  /\ x \in AllMarks(p) <=> FeedbackIsOn(p.mappings[k][m])
             /\ x \in AllMarks(new) <=> FeedbackIsOn(new.mappings[k][m])
             /\ x \in Marks(p, c, off) <=> k = c /\ m \in off
             /\ x \in Marks(p, c, on) <=> k = c /\ m \in on
  <2>1. \A l, n : x = <<p.dest, l, n>> <=> l = k /\ n = m
      BY <1>2
  <2>2. ASSUME NEW q, q.dest = p.dest
        PROVE  x \in AllMarks(q) <=> FeedbackIsOn(q.mappings[k][m])
    <3>1. x \in AllMarks(q) <=> \E l \in Compartments, n \in Mappings :
            x = <<p.dest, l, n>> /\ FeedbackIsOn(q.mappings[l][n])
        BY <2>2, MarkElements
    <3>2. x \in AllMarks(q) <=> \E l \in Compartments, n \in Mappings :
            l = k /\ n = m /\ FeedbackIsOn(q.mappings[l][n])
        BY <2>1, <3>1
    <3>. QED  BY <3>2
  <2>4. \A ms : x \in Marks(p, c, ms) <=> k = c /\ m \in ms
      BY <2>1, MarkElements
  <2>. QED  BY <2>2, <2>4
<1>3. CASE \E k \in Compartments, m \in Mappings : x = <<p.dest, k, m>>
    BY <1>1, <1>2, <1>3
<1>4. CASE ~\E k \in Compartments, m \in Mappings : x = <<p.dest, k, m>>
    BY <1>4, MarkElements
<1>. QED  BY <1>3, <1>4

\* What a task is about, by its type.
LEMMA TaskFields ==
    ASSUME NEW t \in Task
    PROVE  /\ t.type \in {"UpdateSettings", "UpdateControlIsGloballyEnabled",
                          "UpdateFeedbackIsGloballyEnabled", "UpdateAllMappings",
                          "UpdateSingleMapping", "UpdatePersistentProcessingState",
                          "UpdateMappingsPartially", "UpdateTargetsPartially", "SetControlMode"}
           /\ t.type = "UpdateSettings" => t.dest \in Outputs
           /\ t.type \in {"UpdateControlIsGloballyEnabled", "UpdateFeedbackIsGloballyEnabled"}
                => t.enabled \in BOOLEAN
           /\ t.type = "UpdateAllMappings" => t.compartment \in Compartments /\ t.mappings \in MappingSets
           /\ t.type = "UpdateSingleMapping"
                => t.compartment \in Compartments /\ t.id \in Mappings /\ t.mapping \in MappingStates
           /\ t.type = "UpdatePersistentProcessingState"
                => t.compartment \in Compartments /\ t.id \in Mappings /\ t.enabled \in BOOLEAN
           /\ t.type \in {"UpdateMappingsPartially", "UpdateTargetsPartially"}
                => /\ t.compartment \in Compartments
                   /\ \A m \in DOMAIN t.updates : t.updates[m] \in BOOLEAN
           /\ t.type = "SetControlMode" => t.mode \in Modes
<1>1. PICK d \in Outputs : t \in TasksWith(d)
    BY DEF Task
<1>. QED  BY <1>1 DEF TasksWith

\* A processor whose output and mappings stay has the same marks.
LEMMA MarksStay ==
    ASSUME NEW p, NEW new, new.dest = p.dest, new.mappings = p.mappings
    PROVE  AllMarks(new) = AllMarks(p)
BY DEF AllMarks, Marks, LitMappings

LEMMA OnUpdateFeedbackHandlesWell ==
    ASSUME SyncTypes, NEW t \in Task, t.type = "UpdateFeedbackIsGloballyEnabled"
    PROVE  HandlesWell(t, OnUpdateFeedback(t))
<1>. DEFINE new == [rt EXCEPT !.feedback = t.enabled]
            o == OnUpdateFeedback(t)
<1>1. t.enabled \in BOOLEAN /\ rt \in ProcessorStates /\ activated \in SUBSET Markers
    BY TaskFields DEF SyncTypes, TypeOK, Markers
<1>2. /\ new \in ProcessorStates /\ new.dest = rt.dest /\ new.mappings = rt.mappings
      /\ new.feedback = t.enabled
    BY <1>1 DEF ProcessorStates
<1>3. AllMarks(new) = AllMarks(rt)
    BY <1>2, MarksStay
<1>4. rt.dest \in Destinations => AllMarks(rt) \in SUBSET Markers
    BY MarkTypes
<1>5. rt.dest \in Outputs
    BY <1>1, ProcessorFields
<1>. HIDE DEF new
<1>6. o.rt = new /\ o.activated =
        IF rt.dest = None \/ t.enabled = rt.feedback THEN activated
        ELSE IF t.enabled THEN activated \cup AllMarks(rt) ELSE activated \ AllMarks(rt)
    BY DEF OnUpdateFeedback, Outcome, new
<1>7. o.activated \in SUBSET Markers
    BY <1>1, <1>4, <1>5, <1>6 DEF Outputs
<1>8. LastMidiFits(rt, activated) => LastMidiFits(new, o.activated)
    BY <1>1, <1>2, <1>3, <1>6 DEF LastMidiFits, ProcessorFeedbackIsOn, ProcessorStates
<1>. QED  BY <1>2, <1>6, <1>7, <1>8 DEF HandlesWell

LEMMA OnUpdateSettingsHandlesWell ==
    ASSUME SyncTypes, NEW t \in Task, t.type = "UpdateSettings"
    PROVE  HandlesWell(t, OnUpdateSettings(t))
<1>. DEFINE new == [rt EXCEPT !.dest = t.dest]
            o == OnUpdateSettings(t)
<1>1. t.dest \in Outputs /\ rt \in ProcessorStates /\ activated \in SUBSET Markers
    BY TaskFields DEF SyncTypes, TypeOK, Markers
<1>2. /\ new \in ProcessorStates /\ new.dest = t.dest /\ new.mappings = rt.mappings
      /\ new.feedback = rt.feedback
    BY <1>1 DEF ProcessorStates, Outputs
<1>3. new.dest \in Destinations => AllMarks(new) \in SUBSET Markers
    BY MarkTypes
<1>4. rt.dest = t.dest => AllMarks(new) = AllMarks(rt)
    BY <1>2, MarksStay
<1>. HIDE DEF new
<1>5. o.rt = new /\ o.activated =
        IF ProcessorFeedbackIsOn(new) /\ new.dest # rt.dest THEN activated \cup AllMarks(new)
        ELSE activated
    BY DEF OnUpdateSettings, Outcome, new
<1>6. o.activated \in SUBSET Markers
    BY <1>1, <1>2, <1>3, <1>5 DEF ProcessorFeedbackIsOn, Outputs
<1>7. LastMidiFits(rt, activated) /\ rt.dest \in {None, t.dest} => LastMidiFits(new, o.activated)
    BY <1>2, <1>4, <1>5 DEF LastMidiFits, ProcessorFeedbackIsOn
<1>. QED  BY <1>2, <1>5, <1>6, <1>7 DEF HandlesWell

\* All tasks on mappings replace those of one compartment and mark some of them.
Replaces(o, c, ms, off, on) ==
    /\ c \in Compartments /\ ms \in MappingSets
    /\ off \in SUBSET Mappings /\ on \in SUBSET Mappings
    /\ o.rt = [rt EXCEPT !.mappings[c] = ms]
    /\ o.activated = IF ~ProcessorFeedbackIsOn(rt) THEN activated
                     ELSE (activated \ Marks(rt, c, off)) \cup Marks(rt, c, on)
    /\ \A m \in Mappings : FeedbackIsOn(ms[m]) <=>
            (FeedbackIsOn(rt.mappings[c][m]) /\ m \notin off) \/ m \in on

LEMMA ReplacementHandlesWell ==
    ASSUME SyncTypes, NEW t, t.type # "UpdateSettings",
           NEW o, NEW c, NEW ms, NEW off, NEW on, Replaces(o, c, ms, off, on)
    PROVE  HandlesWell(t, o)
<1>0. /\ c \in Compartments /\ ms \in MappingSets
      /\ off \in SUBSET Mappings /\ on \in SUBSET Mappings
      /\ o.rt = [rt EXCEPT !.mappings[c] = ms]
      /\ o.activated = IF ~ProcessorFeedbackIsOn(rt) THEN activated
                       ELSE (activated \ Marks(rt, c, off)) \cup Marks(rt, c, on)
      /\ \A m \in Mappings : FeedbackIsOn(ms[m]) <=>
            (FeedbackIsOn(rt.mappings[c][m]) /\ m \notin off) \/ m \in on
    BY DEF Replaces
<1>1. rt \in ProcessorStates /\ activated \in SUBSET Markers
    BY DEF SyncTypes, TypeOK, Markers
<1>2. /\ o.rt \in ProcessorStates /\ o.rt.dest = rt.dest /\ o.rt.feedback = rt.feedback
      /\ o.rt.mappings[c] = ms
      /\ \A k \in Compartments : k # c => o.rt.mappings[k] = rt.mappings[k]
    BY SMTT(30), <1>0, <1>1 DEF ProcessorStates, MappingSets
<1>3. ProcessorFeedbackIsOn(rt) => Marks(rt, c, on) \in SUBSET Markers
    BY <1>0, <1>1, MarkTypes, ProcessorFields DEF ProcessorFeedbackIsOn, Outputs
<1>4. o.activated \in SUBSET Markers
    BY <1>0, <1>1, <1>3
<1>5. LitMappings(o.rt, c) = (LitMappings(rt, c) \ off) \cup on
    BY <1>0, <1>2 DEF LitMappings
<1>6. (AllMarks(rt) \ Marks(rt, c, off)) \cup Marks(rt, c, on) = AllMarks(o.rt)
  <2>. DEFINE new == o.rt
  <2>1. new.dest = rt.dest /\ \A k \in Compartments : k # c => new.mappings[k] = rt.mappings[k]
      BY <1>2
  <2>2. LitMappings(new, c) = (LitMappings(rt, c) \ off) \cup on
      BY <1>5
  <2>. HIDE DEF new
  <2>3. (AllMarks(rt) \ Marks(rt, c, off)) \cup Marks(rt, c, on) = AllMarks(new)
      BY <1>0, <2>1, <2>2, MarksAfterReplacement
  <2>. QED  BY <2>3 DEF new
<1>7. LastMidiFits(rt, activated) => LastMidiFits(o.rt, o.activated)
    BY <1>0, <1>2, <1>6 DEF LastMidiFits, ProcessorFeedbackIsOn
<1>. QED  BY <1>2, <1>4, <1>7 DEF HandlesWell

LEMMA OnUpdateAllMappingsHandlesWell ==
    ASSUME SyncTypes, NEW t \in Task, t.type = "UpdateAllMappings"
    PROVE  HandlesWell(t, OnUpdateAllMappings(t))
<1>. DEFINE c == t.compartment
            new == [rt EXCEPT !.mappings[c] = t.mappings]
            o == OnUpdateAllMappings(t)
            on == LitMappings(new, c)
            off == LitMappings(rt, c)
<1>1. c \in Compartments /\ t.mappings \in MappingSets
    BY TaskFields
<1>2. new.mappings[c] = t.mappings /\ new.dest = rt.dest
    BY <1>1 DEF SyncTypes, TypeOK, ProcessorStates
<1>3. \A m \in Mappings : /\ m \in on <=> FeedbackIsOn(t.mappings[m])
                          /\ m \in off <=> FeedbackIsOn(rt.mappings[c][m])
    BY <1>2 DEF LitMappings
<1>4. on \in SUBSET Mappings /\ off \in SUBSET Mappings
    BY DEF LitMappings
<1>5. o.rt = new /\ o.activated = IF ~ProcessorFeedbackIsOn(rt) THEN activated
                                  ELSE (activated \ Marks(rt, c, off)) \cup Marks(new, c, on)
    BY DEF OnUpdateAllMappings, Outcome
<1>6. Marks(new, c, on) = Marks(rt, c, on)
    BY <1>2 DEF Marks
<1>7. /\ o.rt = [rt EXCEPT !.mappings[c] = t.mappings]
      /\ o.activated = IF ~ProcessorFeedbackIsOn(rt) THEN activated
                       ELSE (activated \ Marks(rt, c, off)) \cup Marks(rt, c, on)
    BY <1>5, <1>6
<1>8. \A m \in Mappings : FeedbackIsOn(t.mappings[m]) <=>
            (FeedbackIsOn(rt.mappings[c][m]) /\ m \notin off) \/ m \in on
    BY <1>3
<1>. HIDE DEF on, off, o, c
<1>9. Replaces(o, c, t.mappings, off, on)
    BY <1>1, <1>4, <1>7, <1>8 DEF Replaces
<1>10. HandlesWell(t, o)
    BY <1>9, ReplacementHandlesWell
<1>. QED  BY <1>10 DEF o

LEMMA MappingReplacedHandlesWell ==
    ASSUME SyncTypes, NEW t, t.type # "UpdateSettings",
           NEW c \in Compartments, NEW m \in Mappings, NEW s \in MappingStates
    PROVE  HandlesWell(t, MappingReplaced(c, m, s))
<1>. DEFINE ms == [rt.mappings[c] EXCEPT ![m] = s]
            on == IF FeedbackIsOn(s) THEN {m} ELSE {}
            off == IF ~FeedbackIsOn(s) /\ FeedbackIsOn(rt.mappings[c][m]) THEN {m} ELSE {}
            o == MappingReplaced(c, m, s)
<1>1. rt.mappings \in [Compartments -> MappingSets] /\ rt \in ProcessorStates
    BY ProcessorFields DEF SyncTypes, TypeOK
<1>2. ms \in MappingSets /\ ms[m] = s /\ \A n \in Mappings : n # m => ms[n] = rt.mappings[c][n]
    BY <1>1 DEF MappingSets
<1>3. o.rt = [rt EXCEPT !.mappings[c] = ms]
    BY <1>1 DEF MappingReplaced, Outcome, ProcessorStates
<1>4. \A p : Marks(p, c, {}) = {}
    BY DEF Marks
<1>5. o.activated = IF ~ProcessorFeedbackIsOn(rt) THEN activated
                    ELSE (activated \ Marks(rt, c, off)) \cup Marks(rt, c, on)
    BY <1>4 DEF MappingReplaced, Outcome
<1>6. \A n \in Mappings : FeedbackIsOn(ms[n]) <=>
            (FeedbackIsOn(rt.mappings[c][n]) /\ n \notin off) \/ n \in on
    BY <1>2
<1>7. on \in SUBSET Mappings /\ off \in SUBSET Mappings
    OBVIOUS
<1>. HIDE DEF on, off, ms, o
<1>8. Replaces(o, c, ms, off, on)
    BY <1>2, <1>3, <1>5, <1>6, <1>7 DEF Replaces
<1>9. HandlesWell(t, o)
    BY <1>8, ReplacementHandlesWell
<1>. QED  BY <1>9 DEF o

LEMMA UpdatedPartiallyHandlesWell ==
    ASSUME SyncTypes, NEW t \in Task, NEW field \in Fields,
           t.type \in {"UpdateMappingsPartially", "UpdateTargetsPartially"}
    PROVE  HandlesWell(t, UpdatedPartially(t, field))
<1>. DEFINE c == t.compartment
            old == rt.mappings[c]
            known == DOMAIN t.updates \cap Present(old)
            ms == [m \in Mappings |->
                    IF m \in known THEN [old[m] EXCEPT ![field] = t.updates[m]] ELSE old[m]]
            new == [rt EXCEPT !.mappings[c] = ms]
            on(active) == {m \in known : t.updates[m] = active /\ FeedbackIsOnIgnoring(field, ms[m])}
            o == UpdatedPartially(t, field)
<1>1. /\ c \in Compartments /\ \A m \in DOMAIN t.updates : t.updates[m] \in BOOLEAN
      /\ rt \in ProcessorStates /\ old \in MappingSets
    BY TaskFields, ProcessorFields DEF SyncTypes, TypeOK
<1>2. known \in SUBSET Mappings /\ \A m \in known : old[m] \in MappingStates
    BY <1>1 DEF Present, MappingSets
<1>3. \A s \in MappingStates, b \in BOOLEAN :
        LET n == [s EXCEPT ![field] = b]
        IN  /\ n \in MappingStates /\ n[field] = b /\ n.enabled = s.enabled
            /\ field = "active" => n.targetActive = s.targetActive
            /\ field = "targetActive" => n.active = s.active
    BY FieldUpdate
<1>4. ASSUME NEW m \in known
      PROVE  /\ ms[m] \in MappingStates
             /\ FeedbackIsOn(ms[m]) <=> m \in on(TRUE)
             /\ m \notin on(TRUE) /\ m \notin on(FALSE) => ~FeedbackIsOn(old[m])
  <2>1. ms[m] = [old[m] EXCEPT ![field] = t.updates[m]] /\ t.updates[m] \in BOOLEAN
      BY <1>1, <1>2
  <2>2. /\ ms[m] \in MappingStates /\ ms[m][field] = t.updates[m] /\ ms[m].enabled = old[m].enabled
        /\ field = "active" => ms[m].targetActive = old[m].targetActive
        /\ field = "targetActive" => ms[m].active = old[m].active
      BY SMTT(30), <1>2, <1>3, <2>1
  <2>3. FeedbackIsOn(ms[m]) <=> t.updates[m] /\ FeedbackIsOnIgnoring(field, ms[m])
    <3>1. CASE field = "active"
        BY <2>2, <3>1, NoneAssumption DEF FeedbackIsOn, FeedbackIsOnIgnoring
    <3>2. CASE field = "targetActive"
        BY <2>2, <3>2, NoneAssumption DEF FeedbackIsOn, FeedbackIsOnIgnoring
    <3>. QED  BY <3>1, <3>2 DEF Fields
  <2>4. FeedbackIsOn(old[m]) => FeedbackIsOnIgnoring(field, ms[m])
      BY <2>2 DEF FeedbackIsOn, FeedbackIsOnIgnoring, Fields
  <2>. HIDE DEF ms, known
  <2>5. \A active : m \in on(active) <=> t.updates[m] = active /\ FeedbackIsOnIgnoring(field, ms[m])
      OBVIOUS
  <2>. HIDE DEF on
  <2>. QED  BY <2>1, <2>2, <2>3, <2>4, <2>5
<1>5. ms \in MappingSets
  <2>1. \A m \in Mappings \ known : ms[m] = old[m] /\ old[m] \in MappingStates \cup {None}
      BY <1>1 DEF MappingSets
  <2>2. ms = [m \in Mappings |-> ms[m]]
      OBVIOUS
  <2>. HIDE DEF ms, known, on
  <2>3. \A m \in Mappings : ms[m] \in MappingStates \cup {None}
      BY <1>4, <2>1
  <2>. QED  BY <2>2, <2>3 DEF MappingSets
<1>6. new.mappings[c] = ms
    BY <1>1 DEF ProcessorStates
<1>7. /\ o.rt = new
      /\ o.activated = IF ~ProcessorFeedbackIsOn(rt) THEN activated
                       ELSE (activated \ Marks(rt, c, on(FALSE))) \cup Marks(rt, c, on(TRUE))
  <2>1. new = [rt EXCEPT !.mappings[c] =
                [m \in Mappings |-> IF m \in known THEN [@[m] EXCEPT ![field] = t.updates[m]] ELSE @[m]]]
      BY <1>1 DEF ProcessorStates
  <2>. QED  BY <1>6, <2>1 DEF UpdatedPartially, Outcome
<1>8. \A m \in Mappings \ known : ms[m] = old[m] /\ m \notin on(TRUE) /\ m \notin on(FALSE)
    OBVIOUS
<1>9. on(TRUE) \in SUBSET Mappings /\ on(FALSE) \in SUBSET Mappings
    BY <1>2
<1>10. \A m \in known : m \in on(FALSE) => m \notin on(TRUE)
    OBVIOUS
<1>. HIDE DEF ms, known, on, o, c, old
<1>11. \A m \in Mappings : FeedbackIsOn(ms[m]) <=>
            (FeedbackIsOn(old[m]) /\ m \notin on(FALSE)) \/ m \in on(TRUE)
    BY <1>4, <1>8, <1>10
<1>12. Replaces(o, c, ms, on(FALSE), on(TRUE))
    BY <1>1, <1>5, <1>7, <1>9, <1>11 DEF Replaces, old
<1>13. HandlesWell(t, o)
    BY <1>12, ReplacementHandlesWell
<1>. QED  BY <1>13 DEF o

LEMMA ProcessedHandlesWell ==
    ASSUME SyncTypes, NEW t \in Task
    PROVE  HandlesWell(t, Processed(t))
<1>0. rt \in ProcessorStates /\ activated \in SUBSET Markers
    BY DEF SyncTypes, TypeOK, Markers
\* Tasks without influence on lifecycle MIDI
<1>1. ASSUME NEW new \in ProcessorStates, new.dest = rt.dest, new.feedback = rt.feedback,
             new.mappings = rt.mappings, t.type # "UpdateSettings"
      PROVE  HandlesWell(t, Outcome(new, activated))
    BY <1>0, <1>1, MarksStay DEF HandlesWell, Outcome, LastMidiFits, ProcessorFeedbackIsOn
<1>2. CASE t.type = "UpdateControlIsGloballyEnabled"
  <2>. DEFINE new == [rt EXCEPT !.control = t.enabled]
  <2>1. /\ new \in ProcessorStates /\ new.dest = rt.dest /\ new.feedback = rt.feedback
        /\ new.mappings = rt.mappings
      BY <1>0, <1>2, TaskFields DEF ProcessorStates
  <2>2. Processed(t) = Outcome(new, activated)
      BY <1>2 DEF Processed
  <2>. HIDE DEF new
  <2>. QED  BY <1>1, <1>2, <2>1, <2>2
<1>3. CASE t.type = "SetControlMode"
  <2>. DEFINE new == [rt EXCEPT !.mode = t.mode]
  <2>1. /\ new \in ProcessorStates /\ new.dest = rt.dest /\ new.feedback = rt.feedback
        /\ new.mappings = rt.mappings
      BY <1>0, <1>3, TaskFields DEF ProcessorStates
  <2>2. Processed(t) = Outcome(new, activated)
      BY <1>3 DEF Processed
  <2>. HIDE DEF new
  <2>. QED  BY <1>1, <1>3, <2>1, <2>2
<1>4. CASE t.type = "UpdateFeedbackIsGloballyEnabled"
    BY <1>4, OnUpdateFeedbackHandlesWell DEF Processed
<1>5. CASE t.type = "UpdateSettings"
    BY <1>5, OnUpdateSettingsHandlesWell DEF Processed
<1>6. CASE t.type = "UpdateAllMappings"
    BY <1>6, OnUpdateAllMappingsHandlesWell DEF Processed
<1>7. CASE t.type = "UpdateSingleMapping"
  <2>1. Processed(t) = MappingReplaced(t.compartment, t.id, t.mapping)
      BY <1>7 DEF Processed
  <2>. QED  BY <1>7, <2>1, TaskFields, MappingReplacedHandlesWell
<1>8. CASE t.type = "UpdatePersistentProcessingState"
  <2>. DEFINE old == rt.mappings[t.compartment][t.id]
              s == [old EXCEPT !.enabled = t.enabled]
  <2>1. t.compartment \in Compartments /\ t.id \in Mappings /\ t.enabled \in BOOLEAN
      BY <1>8, TaskFields
  <2>2. CASE t.id \in Present(rt.mappings[t.compartment])
    <3>1. old \in MappingStates
        BY <1>0, <2>1, <2>2 DEF Present, ProcessorStates
    <3>2. s \in MappingStates
        BY <2>1, <3>1 DEF MappingStates
    <3>3. Processed(t) = MappingReplaced(t.compartment, t.id, s)
        BY <1>8, <2>2 DEF Processed
    <3>. HIDE DEF s
    <3>. QED  BY <1>8, <2>1, <3>2, <3>3, MappingReplacedHandlesWell
  <2>3. CASE t.id \notin Present(rt.mappings[t.compartment])
    <3>1. Processed(t) = Outcome(rt, activated)
        BY <1>8, <2>3 DEF Processed
    <3>. QED  BY <1>0, <1>1, <1>8, <3>1
  <2>. QED  BY <2>2, <2>3
<1>9. CASE t.type = "UpdateMappingsPartially"
    BY <1>9, UpdatedPartiallyHandlesWell DEF Processed, Fields
<1>10. CASE t.type = "UpdateTargetsPartially"
    BY <1>10, UpdatedPartiallyHandlesWell DEF Processed, Fields
<1>. QED  BY <1>2, <1>3, <1>4, <1>5, <1>6, <1>7, <1>8, <1>9, <1>10, TaskFields

------------------------------------------------------------------------------
(* Types                                                                   *)

LEMMA InitTypes == Init => SyncTypes
<1>. SUFFICES ASSUME Init PROVE SyncTypes
    OBVIOUS
<1>1. InitialState \in ProcessorStates
    BY DEF InitialState, ProcessorStates, NoMappings, Modes
<1>2. TypeOK
    BY <1>1, CapacityAssumption, FirstRunsAssumption DEF Init, TypeOK
<1>. QED  BY <1>2 DEF Init, SyncTypes

LEMMA SendTaskKeepsTypes ==
    ASSUME SyncTypes, SendTask
    PROVE  SyncTypes'
<1>1. main.dest \in Outputs
    BY ProcessorFields DEF SyncTypes, TypeOK
<1>2. sending # <<>> /\ sending \in Seq(TasksWith(main.dest)) /\ UNCHANGED main
    BY DEF SendTask, SyncTypes
<1>3. Head(sending) \in Task /\ sending' \in Seq(TasksWith(main'.dest))
    BY <1>1, <1>2, TakeFirst, TaskKinds DEF SendTask
<1>4. queue' \in Seq(Task) /\ Len(queue') <= QueueCapacity
  <2>1. CASE SendHasSpace
    <3>1. Len(queue) \in Nat /\ Len(queue) < QueueCapacity
        BY <2>1, CapacityAssumption DEF SendHasSpace, SyncTypes
    <3>. QED  BY <1>3, <2>1, <3>1, AddLast, CapacityAssumption DEF SendTask, SyncTypes
  <2>2. CASE ~SendHasSpace
      BY <2>2 DEF SendTask, SyncTypes, TypeOK
  <2>. QED  BY <2>1, <2>2
<1>. QED  BY <1>3, <1>4 DEF SyncTypes, TypeOK, SendTask, rtVars, audioVars

LEMMA ProcessTaskKeepsTypes ==
    ASSUME SyncTypes, ProcessTask
    PROVE  SyncTypes'
<1>1. /\ Head(queue) \in Task /\ Tail(queue) \in Seq(Task)
      /\ Len(queue) \in Nat /\ Len(Tail(queue)) = Len(queue) - 1
    BY TakeFirst DEF ProcessTask, SyncTypes
<1>2. HandlesWell(Head(queue), Processed(Head(queue)))
    BY <1>1, ProcessedHandlesWell
<1>3. rt' \in ProcessorStates /\ activated' \in SUBSET Markers
    BY <1>2 DEF HandlesWell, ProcessTask
<1>4. queue' = Tail(queue) /\ Len(queue') <= QueueCapacity
    BY <1>1, CapacityAssumption DEF ProcessTask, SyncTypes, TypeOK
<1>5. budget' \in 0..BulkSize
    BY CapacityAssumption DEF ProcessTask, SyncTypes, TypeOK
<1>. QED  BY <1>1, <1>3, <1>4, <1>5 DEF SyncTypes, TypeOK, ProcessTask, mainVars, audioVars, Markers

LEMMA ProcessResyncRequestKeepsTypes ==
    ASSUME SyncTypes, ProcessResyncRequest
    PROVE  SyncTypes'
<1>1. sending' \in Seq(TasksWith(main'.dest))
    BY FullSyncTypes DEF ProcessResyncRequest, SyncTypes, TypeOK
<1>2. requests' \in 0..RequestCapacity
    BY CapacityAssumption DEF ProcessResyncRequest, SyncTypes, TypeOK
<1>. QED  BY <1>1, <1>2 DEF SyncTypes, TypeOK, ProcessResyncRequest, rtVars, audioVars

\* Steps of the audio thread that don't process a task, and the audio device
LEMMA OtherStepsKeepTypes ==
    ASSUME SyncTypes,
           \/ BeginCycle \/ RequestFullSync \/ DiscardTasks \/ EndCycle \/ AudioDevice
           \/ UNCHANGED vars
    PROVE  SyncTypes'
<1>1. CASE BeginCycle
    BY <1>1, CapacityAssumption DEF SyncTypes, TypeOK, BeginCycle, mainVars
<1>2. CASE RequestFullSync
    BY <1>2, CapacityAssumption DEF SyncTypes, TypeOK, RequestFullSync, mainVars, audioVars
<1>3. CASE DiscardTasks
    BY <1>3, CapacityAssumption DEF SyncTypes, TypeOK, DiscardTasks, mainVars, audioVars
<1>4. CASE EndCycle
    BY <1>4 DEF SyncTypes, TypeOK, EndCycle, mainVars, audioVars
<1>5. CASE AudioDevice
    BY <1>5 DEF SyncTypes, TypeOK, AudioDevice, StopAudio, PassTime, StartAudio, mainVars, rtVars
<1>6. CASE UNCHANGED vars
    BY <1>6 DEF SyncTypes, TypeOK, vars, mainVars, rtVars, audioVars
<1>. QED  BY <1>1, <1>2, <1>3, <1>4, <1>5, <1>6

LEMMA NextTypes == SyncTypes /\ [Next]_vars => SyncTypes'
BY ChangesAreTyped, ChangeKeepsTypes, SendTaskKeepsTypes, ProcessResyncRequestKeepsTypes,
   ProcessTaskKeepsTypes, OtherStepsKeepTypes DEF Next, MainThread, AudioThread

\* Both processors keep the fields of a processor and the channels between them
\* stay within their limits (channels.rs, real_time_processor.rs).
THEOREM ProcessorTypes == Spec => []TypeOK
<1>1. SyncTypes => TypeOK
    BY DEF SyncTypes
<1>. QED  BY <1>1, InitTypes, NextTypes, PTL DEF Spec

------------------------------------------------------------------------------
(* The last lifecycle MIDI of each mapping                                 *)

NoMoves == "ChangeSettings" \notin Ops

IsSettings(task) == task.type = "UpdateSettings"

\* Settings arrive in the order in which they were determined: without output
\* at first, then with the one and only output.
OutputsAreOrdered ==
    /\ rt.dest \in {None, main.dest}
    /\ \A i \in 1..Len(queue) : IsSettings(queue[i]) =>
            /\ queue[i].dest \in {None, main.dest}
            /\ rt.dest # None => queue[i].dest = rt.dest
    /\ \A i, j \in 1..Len(queue) :
            i < j /\ IsSettings(queue[i]) /\ IsSettings(queue[j]) /\ queue[i].dest # None
                => queue[j].dest = queue[i].dest

LifecycleInv == SyncTypes /\ OutputsAreOrdered /\ LastMidiFits(rt, activated)

LEMMA ChangeKeepsLifecycle ==
    ASSUME NoMoves, LifecycleInv, Change
    PROVE  LifecycleInv'
<1>1. ChangeIsTyped /\ OutputIsKept
    BY ChangesAreTyped DEF LifecycleInv
<1>2. UNCHANGED <<rt, activated, queue>> /\ (main.dest = None \/ main'.dest = main.dest)
    BY <1>1 DEF ChangeIsTyped, OutputIsKept, NoMoves, rtVars
<1>3. OutputsAreOrdered'
    BY <1>2 DEF LifecycleInv, OutputsAreOrdered
<1>4. LastMidiFits(rt, activated)'
    BY <1>2 DEF LifecycleInv, LastMidiFits, ProcessorFeedbackIsOn, AllMarks, Marks, LitMappings
<1>. QED  BY <1>1, <1>3, <1>4, ChangeKeepsTypes DEF LifecycleInv

LEMMA SendTaskKeepsLifecycle ==
    ASSUME LifecycleInv, SendTask
    PROVE  LifecycleInv'
<1>1. UNCHANGED <<rt, activated, main>>
    BY DEF SendTask, rtVars
<1>2. LastMidiFits(rt, activated)'
    BY <1>1 DEF LifecycleInv, LastMidiFits, ProcessorFeedbackIsOn, AllMarks, Marks, LitMappings
<1>3. main.dest \in Outputs
    BY ProcessorFields DEF LifecycleInv, SyncTypes, TypeOK
<1>4. /\ Head(sending) \in Task
      /\ IsSettings(Head(sending)) => Head(sending).dest = main.dest
  <2>1. Head(sending) \in TasksWith(main.dest)
      BY TakeFirst DEF SendTask, LifecycleInv, SyncTypes
  <2>2. IsSettings(Head(sending)) => Head(sending).dest = main.dest
      BY <2>1 DEF TasksWith, IsSettings
  <2>. QED  BY <1>3, <2>1, <2>2, TaskKinds
<1>5. CASE queue' = queue
  <2>1. OutputsAreOrdered'
      BY <1>1, <1>5 DEF LifecycleInv, OutputsAreOrdered
  <2>. QED  BY <1>2, <2>1, SendTaskKeepsTypes DEF LifecycleInv
<1>6. CASE queue' = Append(queue, Head(sending))
  <2>1. /\ Len(queue) \in Nat /\ Len(queue') = Len(queue) + 1
        /\ \A k \in 1..Len(queue) : queue'[k] = queue[k]
        /\ queue'[Len(queue) + 1] = Head(sending)
      BY <1>4, <1>6, AddLast DEF LifecycleInv, SyncTypes
  <2>2. \A k \in 1..Len(queue') : k \in 1..Len(queue) \/ k = Len(queue) + 1
      BY <2>1
  <2>3. \A i \in 1..Len(queue') : IsSettings(queue'[i]) =>
            queue'[i].dest \in {None, main.dest} /\ (rt.dest # None => queue'[i].dest = rt.dest)
      BY <1>4, <2>1, <2>2 DEF LifecycleInv, OutputsAreOrdered
  <2>4. ASSUME NEW i \in 1..Len(queue'), NEW j \in 1..Len(queue'), i < j,
               IsSettings(queue'[i]), IsSettings(queue'[j]), queue'[i].dest # None
        PROVE  queue'[j].dest = queue'[i].dest
    <3>1. i \in 1..Len(queue)
        BY <2>1, <2>4
    <3>2. CASE j \in 1..Len(queue)
        BY <2>1, <2>4, <3>1, <3>2 DEF LifecycleInv, OutputsAreOrdered
    <3>3. CASE j = Len(queue) + 1
        BY <1>4, <2>1, <2>4, <3>1, <3>3 DEF LifecycleInv, OutputsAreOrdered
    <3>. QED  BY <2>2, <3>2, <3>3
  <2>5. rt.dest \in {None, main.dest}
      BY DEF LifecycleInv, OutputsAreOrdered
  <2>6. OutputsAreOrdered'
      BY <1>1, <2>3, <2>4, <2>5 DEF OutputsAreOrdered
  <2>. QED  BY <1>2, <2>6, SendTaskKeepsTypes DEF LifecycleInv
<1>. QED  BY <1>5, <1>6 DEF SendTask

LEMMA ProcessTaskKeepsLifecycle ==
    ASSUME LifecycleInv, ProcessTask
    PROVE  LifecycleInv'
<1>. DEFINE task == Head(queue)
            o == Processed(task)
<1>1. /\ task \in Task /\ 1 \in 1..Len(queue) /\ task = queue[1] /\ Len(queue) \in Nat
      /\ Len(Tail(queue)) = Len(queue) - 1
      /\ \A k \in 1..Len(Tail(queue)) : k + 1 \in 1..Len(queue) /\ Tail(queue)[k] = queue[k + 1]
    BY TakeFirst DEF ProcessTask, LifecycleInv, SyncTypes
<1>2. HandlesWell(task, o)
    BY <1>1, ProcessedHandlesWell DEF LifecycleInv
<1>3. rt' = o.rt /\ activated' = o.activated /\ queue' = Tail(queue) /\ UNCHANGED main
    BY DEF ProcessTask, mainVars
<1>. HIDE DEF o
<1>4. rt'.dest = IF IsSettings(task) THEN task.dest ELSE rt.dest
    BY <1>2, <1>3 DEF HandlesWell, IsSettings
<1>5. IsSettings(task) => rt.dest \in {None, task.dest} /\ task.dest \in {None, main.dest}
    BY <1>1 DEF LifecycleInv, OutputsAreOrdered
<1>6. LastMidiFits(o.rt, o.activated)
    BY <1>2, <1>5 DEF LifecycleInv, HandlesWell, IsSettings
<1>7. LastMidiFits(rt, activated)'
    BY <1>3, <1>6 DEF LastMidiFits, ProcessorFeedbackIsOn, AllMarks, Marks, LitMappings
<1>8. rt'.dest \in {None, main.dest}
    BY <1>4, <1>5 DEF LifecycleInv, OutputsAreOrdered
<1>9. ASSUME NEW i \in 1..Len(Tail(queue)), IsSettings(Tail(queue)[i])
      PROVE  /\ Tail(queue)[i].dest \in {None, main.dest}
             /\ rt'.dest # None => Tail(queue)[i].dest = rt'.dest
  <2>1. /\ i + 1 \in 1..Len(queue) /\ 1 < i + 1 /\ IsSettings(queue[i + 1])
        /\ Tail(queue)[i] = queue[i + 1]
      BY <1>1, <1>9
  <2>. QED  BY <1>1, <1>4, <2>1 DEF LifecycleInv, OutputsAreOrdered
<1>10. ASSUME NEW i \in 1..Len(Tail(queue)), NEW j \in 1..Len(Tail(queue)), i < j,
              IsSettings(Tail(queue)[i]), IsSettings(Tail(queue)[j]), Tail(queue)[i].dest # None
       PROVE  Tail(queue)[j].dest = Tail(queue)[i].dest
  <2>1. /\ i + 1 \in 1..Len(queue) /\ Tail(queue)[i] = queue[i + 1]
        /\ j + 1 \in 1..Len(queue) /\ Tail(queue)[j] = queue[j + 1]
        /\ i + 1 < j + 1
      BY <1>1, <1>10
  <2>. QED  BY <1>10, <2>1 DEF LifecycleInv, OutputsAreOrdered
<1>11. OutputsAreOrdered'
    BY <1>3, <1>8, <1>9, <1>10 DEF OutputsAreOrdered
<1>. QED  BY <1>7, <1>11, ProcessTaskKeepsTypes DEF LifecycleInv

LEMMA OtherStepsKeepLifecycle ==
    ASSUME LifecycleInv,
           \/ ProcessResyncRequest \/ BeginCycle \/ RequestFullSync \/ DiscardTasks \/ EndCycle
           \/ AudioDevice \/ UNCHANGED vars
    PROVE  LifecycleInv'
<1>1. SyncTypes'
    BY ProcessResyncRequestKeepsTypes, OtherStepsKeepTypes DEF LifecycleInv
<1>2. UNCHANGED <<rt, activated, main>> /\ (queue' = queue \/ queue' = <<>>)
    BY DEF ProcessResyncRequest, BeginCycle, RequestFullSync, DiscardTasks, EndCycle, AudioDevice,
       StopAudio, PassTime, StartAudio, vars, mainVars, rtVars
<1>3. OutputsAreOrdered'
  <2>1. CASE queue' = queue
      BY <1>2, <2>1 DEF LifecycleInv, OutputsAreOrdered
  <2>2. CASE queue' = <<>>
      BY <1>2, <2>2 DEF LifecycleInv, OutputsAreOrdered
  <2>. QED  BY <1>2, <2>1, <2>2
<1>4. LastMidiFits(rt, activated)'
    BY <1>2 DEF LifecycleInv, LastMidiFits, ProcessorFeedbackIsOn, AllMarks, Marks, LitMappings
<1>. QED  BY <1>1, <1>3, <1>4 DEF LifecycleInv

\* As long as the output of a unit stays once it is set, the last lifecycle
\* message of a mapping was "activate" if and only if feedback is sent for it,
\* whatever tasks got lost in whatever outages (real_time_processor.rs).
THEOREM LastLifecycleMidiAlwaysFits ==
    ASSUME NoMoves
    PROVE  Spec => []LastLifecycleMidiFits
<1>1. Init => LifecycleInv
  <2>. SUFFICES ASSUME Init PROVE LifecycleInv
      OBVIOUS
  <2>1. rt.dest = None /\ main.dest = None /\ activated = {} /\ Len(queue) = 0
      BY DEF Init, InitialState
  <2>2. OutputsAreOrdered
      BY <2>1 DEF OutputsAreOrdered
  <2>3. LastMidiFits(rt, activated)
      BY <2>1 DEF LastMidiFits, ProcessorFeedbackIsOn
  <2>. QED  BY <2>2, <2>3, InitTypes DEF LifecycleInv
<1>2. LifecycleInv /\ [Next]_vars => LifecycleInv'
    BY ChangeKeepsLifecycle, SendTaskKeepsLifecycle, ProcessTaskKeepsLifecycle, OtherStepsKeepLifecycle
       DEF Next, MainThread, AudioThread
<1>3. LifecycleInv => LastLifecycleMidiFits
    BY DEF LifecycleInv, LastMidiFits, LastLifecycleMidiFits
<1>. QED  BY <1>1, <1>2, <1>3, PTL DEF Spec


------------------------------------------------------------------------------
(* Mirroring. The tasks on their way lead the real-time processor to what  *)
(* the main processor has determined, unless a full resync is owed. Which  *)
(* states a sequence of tasks leads through is given as a trace: there is  *)
(* one for the channel at any time, and each step extends or shortens it.  *)

\* A processor apart from its control mode, which a full resync doesn't cover
Core(p) == [p EXCEPT !.mode = "Controlling"]
Cores == {p \in ProcessorStates : p.mode = "Controlling"}

UpdatedField(t) == IF t.type = "UpdateMappingsPartially" THEN "active" ELSE "targetActive"

MappingsAfter(ms, t) ==
    CASE t.type = "UpdateAllMappings" -> t.mappings
      [] t.type = "UpdateSingleMapping" -> [ms EXCEPT ![t.id] = t.mapping]
      [] t.type = "UpdatePersistentProcessingState" ->
            IF t.id \in Present(ms) THEN [ms EXCEPT ![t.id] = [@ EXCEPT !.enabled = t.enabled]] ELSE ms
      [] OTHER ->
            [m \in Mappings |-> IF m \in DOMAIN t.updates \cap Present(ms)
                                THEN [ms[m] EXCEPT ![UpdatedField(t)] = t.updates[m]] ELSE ms[m]]

\* What a task makes of the core of a processor.
Effect(p, t) ==
    CASE t.type = "UpdateSettings" -> [p EXCEPT !.dest = t.dest]
      [] t.type = "UpdateControlIsGloballyEnabled" -> [p EXCEPT !.control = t.enabled]
      [] t.type = "UpdateFeedbackIsGloballyEnabled" -> [p EXCEPT !.feedback = t.enabled]
      [] t.type = "SetControlMode" -> p
      [] OTHER -> [p EXCEPT !.mappings[t.compartment] = MappingsAfter(@, t)]

Leads(p, q, r) ==
    \E h \in [0..Len(q) -> Cores] :
        /\ h[0] = p /\ h[Len(q)] = r
        /\ \A k \in 1..Len(q) : h[k] = Effect(h[k - 1], q[k])

MappingTypes ==
    {"UpdateAllMappings", "UpdateSingleMapping", "UpdatePersistentProcessingState",
     "UpdateMappingsPartially", "UpdateTargetsPartially"}

LEMMA MappingsAfterTypes ==
    ASSUME NEW ms \in MappingSets, NEW t \in Task, t.type \in MappingTypes
    PROVE  t.compartment \in Compartments /\ MappingsAfter(ms, t) \in MappingSets
<1>1. t.compartment \in Compartments
    BY TaskFields DEF MappingTypes
<1>2. CASE t.type = "UpdateAllMappings"
    BY <1>2, TaskFields DEF MappingsAfter
<1>3. CASE t.type = "UpdateSingleMapping"
    BY <1>3, TaskFields DEF MappingsAfter, MappingSets
<1>4. CASE t.type = "UpdatePersistentProcessingState"
  <2>1. t.enabled \in BOOLEAN
      BY <1>4, TaskFields
  <2>2. t.id \in Present(ms) => ms[t.id] \in MappingStates /\ [ms[t.id] EXCEPT !.enabled = t.enabled] \in MappingStates
      BY <2>1 DEF Present, MappingSets, MappingStates
  <2>. QED  BY <1>1, <1>4, <2>2 DEF MappingsAfter, MappingSets
<1>5. CASE t.type \in {"UpdateMappingsPartially", "UpdateTargetsPartially"}
  <2>. DEFINE known == DOMAIN t.updates \cap Present(ms)
              field == UpdatedField(t)
              new == [m \in Mappings |-> IF m \in known THEN [ms[m] EXCEPT ![field] = t.updates[m]] ELSE ms[m]]
  <2>1. field \in Fields
      BY DEF UpdatedField, Fields
  <2>2. \A m \in known : ms[m] \in MappingStates /\ t.updates[m] \in BOOLEAN
      BY <1>5, TaskFields DEF Present, MappingSets
  <2>3. \A s \in MappingStates, b \in BOOLEAN : [s EXCEPT ![field] = b] \in MappingStates
      BY <2>1, FieldUpdate
  <2>4. MappingsAfter(ms, t) = new
      BY <1>5 DEF MappingsAfter
  <2>. HIDE DEF known, field
  <2>5. \A m \in Mappings : new[m] \in MappingStates \cup {None}
      BY <2>2, <2>3 DEF MappingSets
  <2>. QED  BY <1>1, <2>4, <2>5 DEF MappingSets
<1>. QED  BY <1>1, <1>2, <1>3, <1>4, <1>5 DEF MappingTypes

LEMMA EffectTypes ==
    ASSUME NEW p \in ProcessorStates, NEW t \in Task
    PROVE  Effect(p, t) \in ProcessorStates
<1>1. CASE t.type \in MappingTypes
  <2>. DEFINE c == t.compartment
              ms == MappingsAfter(p.mappings[c], t)
  <2>1. c \in Compartments
      BY <1>1, TaskFields DEF MappingTypes
  <2>2. ms \in MappingSets
      BY <1>1, <2>1, ProcessorFields, MappingsAfterTypes
  <2>3. Effect(p, t) = [p EXCEPT !.mappings[c] = ms]
      BY <1>1 DEF Effect, MappingTypes
  <2>. HIDE DEF c, ms
  <2>. QED  BY SMTT(30), <2>1, <2>2, <2>3 DEF ProcessorStates, MappingSets
<1>2. CASE t.type \notin MappingTypes
    BY <1>2, TaskFields DEF Effect, MappingTypes, ProcessorStates, Outputs
<1>. QED  BY <1>1, <1>2

LEMMA CoreEffectTypes ==
    ASSUME NEW p \in Cores, NEW t \in Task
    PROVE  Effect(p, t) \in Cores
<1>1. p \in ProcessorStates /\ p.mode = "Controlling"
    BY DEF Cores
<1>2. Effect(p, t) \in ProcessorStates
    BY <1>1, EffectTypes
<1>3. Effect(p, t).mode = p.mode
    BY <1>1, TaskFields DEF Effect, ProcessorStates
<1>. QED  BY <1>1, <1>2, <1>3 DEF Cores

LEMMA CoreTypes ==
    ASSUME NEW p \in ProcessorStates
    PROVE  /\ Core(p) \in ProcessorStates /\ Core(p) \in Cores
           /\ Core(p).dest = p.dest /\ Core(p).control = p.control /\ Core(p).feedback = p.feedback
           /\ Core(p).mappings = p.mappings
BY DEF Core, Cores, ProcessorStates, Modes

\* The mode has no influence on the effect of a task.
LEMMA EffectOnCore ==
    ASSUME NEW p \in ProcessorStates, NEW t \in Task
    PROVE  Core(Effect(p, t)) = Effect(Core(p), t)
<1>1. CASE t.type \in MappingTypes
  <2>. DEFINE c == t.compartment
              ms == MappingsAfter(p.mappings[c], t)
  <2>1. Effect(p, t) = [p EXCEPT !.mappings[c] = ms]
      BY <1>1 DEF Effect, MappingTypes
  <2>2. Effect(Core(p), t) = [Core(p) EXCEPT !.mappings[c] = ms]
      BY <1>1, CoreTypes DEF Effect, MappingTypes
  <2>. HIDE DEF c, ms
  <2>. QED  BY <2>1, <2>2 DEF ProcessorStates, Core
<1>2. CASE t.type \notin MappingTypes
    BY <1>2, TaskFields DEF Effect, MappingTypes, ProcessorStates, Core
<1>. QED  BY <1>1, <1>2

\* The handlers of the real-time processor have the effect of their task.
LEMMA ProcessedHasEffect ==
    ASSUME SyncTypes, NEW t \in Task
    PROVE  Core(Processed(t).rt) = Effect(Core(rt), t)
<1>0. rt \in ProcessorStates
    BY DEF SyncTypes, TypeOK
<1>1. CASE t.type = "SetControlMode"
  <2>1. Processed(t).rt = [rt EXCEPT !.mode = t.mode]
      BY <1>1 DEF Processed, Outcome
  <2>2. Effect(Core(rt), t) = Core(rt)
      BY <1>1 DEF Effect
  <2>. QED  BY <1>0, <2>1, <2>2 DEF Core, ProcessorStates
<1>2. CASE t.type # "SetControlMode"
  <2>1. Processed(t).rt = Effect(rt, t)
    <3>1. CASE t.type \in {"UpdateSettings", "UpdateControlIsGloballyEnabled", "UpdateFeedbackIsGloballyEnabled"}
        BY <3>1 DEF Processed, Outcome, OnUpdateSettings, OnUpdateFeedback, Effect
    <3>2. CASE t.type = "UpdateAllMappings"
        BY <3>2 DEF Processed, Outcome, OnUpdateAllMappings, Effect, MappingsAfter
    <3>3. CASE t.type = "UpdateSingleMapping"
        BY <3>3, <1>0, TaskFields DEF Processed, Outcome, MappingReplaced, Effect, MappingsAfter, ProcessorStates
    <3>4. CASE t.type = "UpdatePersistentProcessingState"
      <4>. DEFINE c == t.compartment
      <4>1. c \in Compartments /\ t.id \in Mappings
          BY <3>4, TaskFields
      <4>2. Effect(rt, t) = [rt EXCEPT !.mappings[c] = MappingsAfter(rt.mappings[c], t)]
          BY <3>4 DEF Effect
      <4>3. CASE t.id \in Present(rt.mappings[c])
        <5>1. Processed(t).rt = [rt EXCEPT !.mappings[c][t.id] = [rt.mappings[c][t.id] EXCEPT !.enabled = t.enabled]]
            BY <3>4, <4>3 DEF Processed, Outcome, MappingReplaced
        <5>2. MappingsAfter(rt.mappings[c], t) =
                [rt.mappings[c] EXCEPT ![t.id] = [rt.mappings[c][t.id] EXCEPT !.enabled = t.enabled]]
            BY <3>4, <4>3, <4>1, <1>0 DEF MappingsAfter, ProcessorStates
        <5>. QED  BY <1>0, <4>1, <4>2, <5>1, <5>2 DEF ProcessorStates
      <4>4. CASE t.id \notin Present(rt.mappings[c])
        <5>1. Processed(t).rt = rt
            BY <3>4, <4>4 DEF Processed, Outcome
        <5>2. MappingsAfter(rt.mappings[c], t) = rt.mappings[c]
            BY <3>4, <4>4 DEF MappingsAfter
        <5>. QED  BY <1>0, <4>1, <4>2, <5>1, <5>2 DEF ProcessorStates
      <4>. QED  BY <4>3, <4>4
    <3>5. CASE t.type \in {"UpdateMappingsPartially", "UpdateTargetsPartially"}
      <4>. DEFINE c == t.compartment
                  field == UpdatedField(t)
                  known == DOMAIN t.updates \cap Present(rt.mappings[c])
      <4>1. c \in Compartments
          BY <3>5, TaskFields
      <4>2. Processed(t) = UpdatedPartially(t, field)
          BY <3>5 DEF Processed, UpdatedField
      <4>3. Processed(t).rt = [rt EXCEPT !.mappings[c] =
                [m \in Mappings |-> IF m \in known THEN [@[m] EXCEPT ![field] = t.updates[m]] ELSE @[m]]]
          BY <4>2 DEF UpdatedPartially, Outcome
      <4>4. Effect(rt, t) = [rt EXCEPT !.mappings[c] =
                [m \in Mappings |-> IF m \in known THEN [@[m] EXCEPT ![field] = t.updates[m]] ELSE @[m]]]
          BY <1>0, <3>5, <4>1 DEF Effect, MappingsAfter, ProcessorStates
      <4>. QED  BY <4>3, <4>4
    <3>. QED  BY <1>2, <3>1, <3>2, <3>3, <3>4, <3>5, TaskFields
  <2>. QED  BY <1>0, <2>1, EffectOnCore
<1>. QED  BY <1>1, <1>2

------------------------------------------------------------------------------

LEMMA LeadsNowhere ==
    ASSUME NEW p \in Cores
    PROVE  /\ Leads(p, <<>>, p)
           /\ \A r : Leads(p, <<>>, r) => r = p
<1>1. Leads(p, <<>>, p)
  <2>. DEFINE h == [k \in 0..0 |-> p]
  <2>1. h \in [0..Len(<<>>) -> Cores] /\ h[0] = p /\ h[Len(<<>>)] = p
      OBVIOUS
  <2>2. \A k \in 1..Len(<<>>) : h[k] = Effect(h[k - 1], <<>>[k])
      OBVIOUS
  <2>. QED  BY <2>1, <2>2 DEF Leads
<1>. QED  BY <1>1 DEF Leads

LEMMA LeadsOneStep ==
    ASSUME NEW p \in Cores, NEW t \in Task
    PROVE  Leads(p, <<t>>, Effect(p, t)) /\ <<t>> \in Seq(Task)
<1>. DEFINE h == [k \in 0..1 |-> IF k = 0 THEN p ELSE Effect(p, t)]
<1>1. Effect(p, t) \in Cores
    BY CoreEffectTypes
<1>2. Len(<<t>>) = 1 /\ <<t>>[1] = t
    OBVIOUS
<1>3. h \in [0..Len(<<t>>) -> Cores] /\ h[0] = p /\ h[1] = Effect(p, t)
    BY <1>1, <1>2
<1>4. \A k \in 1..Len(<<t>>) : h[k] = Effect(h[k - 1], <<t>>[k])
    BY <1>2, <1>3
<1>5. Leads(p, <<t>>, Effect(p, t))
    BY <1>2, <1>3, <1>4 DEF Leads
<1>. QED  BY <1>5

LEMMA LeadsOn ==
    ASSUME NEW q \in Seq(Task), NEW s \in Seq(Task), NEW p, NEW r, NEW u, Leads(p, q, r), Leads(r, s, u)
    PROVE  Leads(p, q \o s, u) /\ q \o s \in Seq(Task)
<1>1. PICK f \in [0..Len(q) -> Cores] :
        f[0] = p /\ f[Len(q)] = r /\ \A k \in 1..Len(q) : f[k] = Effect(f[k - 1], q[k])
    BY DEF Leads
<1>2. PICK g \in [0..Len(s) -> Cores] :
        g[0] = r /\ g[Len(s)] = u /\ \A k \in 1..Len(s) : g[k] = Effect(g[k - 1], s[k])
    BY DEF Leads
<1>3. /\ q \o s \in Seq(Task) /\ Len(q) \in Nat /\ Len(s) \in Nat /\ Len(q \o s) = Len(q) + Len(s)
      /\ \A k \in 1..Len(q) : (q \o s)[k] = q[k]
      /\ \A k \in 1..(Len(q) + Len(s)) : k > Len(q) => (q \o s)[k] = s[k - Len(q)]
    OBVIOUS
<1>. DEFINE n == Len(q)
            qs == q \o s
            h == [k \in 0..(n + Len(s)) |-> IF k <= n THEN f[k] ELSE g[k - n]]
<1>4. n \in Nat /\ Len(s) \in Nat /\ Len(qs) = n + Len(s)
    BY <1>3
<1>5. h \in [0..Len(qs) -> Cores]
    BY <1>4
<1>6. h[0] = p /\ h[Len(qs)] = u
  <2>1. h[0] = f[0]
      BY <1>4
  <2>2. CASE Len(s) = 0
    <3>1. h[n + Len(s)] = f[n]
        BY <1>4, <2>2
    <3>. QED  BY <1>1, <1>2, <1>4, <2>1, <2>2, <3>1
  <2>3. CASE Len(s) # 0
    <3>1. n + Len(s) \in 0..(n + Len(s)) /\ ~(n + Len(s) <= n) /\ (n + Len(s)) - n = Len(s)
        BY <1>4, <2>3
    <3>2. h[n + Len(s)] = g[(n + Len(s)) - n]
        BY <3>1
    <3>. HIDE DEF h, n, qs
    <3>. QED  BY <1>1, <1>2, <1>4, <2>1, <3>1, <3>2
  <2>. QED  BY <2>2, <2>3
<1>7. ASSUME NEW k \in 1..Len(qs)
      PROVE  h[k] = Effect(h[k - 1], qs[k])
  <2>1. CASE k <= n
      BY <1>1, <1>3, <1>4, <2>1
  <2>2. CASE k > n
    <3>1. h[k] = g[k - n] /\ qs[k] = s[k - n] /\ k - n \in 1..Len(s)
        BY <1>3, <1>4, <2>2
    <3>2. h[k - 1] = g[(k - n) - 1]
        BY <1>1, <1>2, <1>4, <2>2
    <3>. QED  BY <1>2, <3>1, <3>2
  <2>. QED  BY <1>4, <2>1, <2>2
<1>8. Leads(p, qs, u)
    BY <1>5, <1>6, <1>7 DEF Leads
<1>. QED  BY <1>3, <1>8

\* The first task is taken from the sequence, its effect remains.
LEMMA LeadsAfterFirst ==
    ASSUME NEW q \in Seq(Task), q # <<>>, NEW p, NEW r, Leads(p, q, r)
    PROVE  /\ Leads(Effect(p, Head(q)), Tail(q), r)
           /\ p \in Cores /\ Effect(p, Head(q)) \in Cores
<1>1. PICK f \in [0..Len(q) -> Cores] :
        f[0] = p /\ f[Len(q)] = r /\ \A k \in 1..Len(q) : f[k] = Effect(f[k - 1], q[k])
    BY DEF Leads
<1>2. /\ Tail(q) \in Seq(Task) /\ Len(q) \in Nat /\ Len(Tail(q)) = Len(q) - 1
      /\ 1 \in 1..Len(q) /\ Head(q) = q[1]
      /\ \A k \in 1..Len(Tail(q)) : k + 1 \in 1..Len(q) /\ Tail(q)[k] = q[k + 1]
    BY TakeFirst
<1>. DEFINE h == [k \in 0..Len(Tail(q)) |-> f[k + 1]]
<1>3. h \in [0..Len(Tail(q)) -> Cores] /\ h[0] = f[1] /\ h[Len(Tail(q))] = r
    BY <1>1, <1>2
<1>4. f[1] = Effect(p, Head(q)) /\ f[1] \in Cores /\ p \in Cores
    BY <1>1, <1>2
<1>5. ASSUME NEW k \in 1..Len(Tail(q))
      PROVE  h[k] = Effect(h[k - 1], Tail(q)[k])
    BY <1>1, <1>2
<1>. QED  BY <1>3, <1>4, <1>5 DEF Leads

LEMMA LeadsTwoSteps ==
    ASSUME NEW p \in Cores, NEW t \in Task, NEW s \in Task
    PROVE  Leads(p, <<t, s>>, Effect(Effect(p, t), s)) /\ <<t, s>> \in Seq(Task)
<1>. DEFINE r == Effect(p, t)
            u == Effect(r, s)
            h == [k \in 0..2 |-> IF k = 0 THEN p ELSE IF k = 1 THEN r ELSE u]
<1>1. r \in Cores /\ u \in Cores
    BY CoreEffectTypes
<1>. HIDE DEF u, r
<1>2. Len(<<t, s>>) = 2 /\ <<t, s>>[1] = t /\ <<t, s>>[2] = s /\ <<t, s>> \in Seq(Task)
    OBVIOUS
<1>3. h \in [0..2 -> Cores] /\ h[0] = p /\ h[1] = r /\ h[2] = u
    BY <1>1
<1>4. \A k \in 1..2 : k = 1 \/ k = 2
    OBVIOUS
<1>5. \A k \in 1..2 : h[k] = Effect(h[k - 1], <<t, s>>[k])
    BY <1>2, <1>3, <1>4 DEF r, u
<1>6. Leads(p, <<t, s>>, u)
    BY ZenonT(30), <1>2, <1>3, <1>5 DEF Leads
<1>. QED  BY <1>2, <1>6 DEF r, u

------------------------------------------------------------------------------

\* The tasks of the switches and of settings and switches, for any processor
LEMMA LeadsToSwitches ==
    ASSUME NEW p \in Cores, NEW new \in ProcessorStates, NEW old
    PROVE  /\ SwitchTasks(old, new) \in Seq(Task)
           /\ Leads(p, SwitchTasks(old, new), [p EXCEPT !.control = new.control, !.feedback = new.feedback])
<1>. DEFINE t == ControlTask(new)
            s == FeedbackTask(new)
<1>1. t \in Task /\ s \in Task
  <2>1. t \in TasksWith(new.dest) /\ s \in TasksWith(new.dest) /\ new.dest \in Outputs
      BY ProcessorFields DEF ControlTask, FeedbackTask, TasksWith
  <2>. QED  BY <2>1, TaskKinds
<1>2. Effect(Effect(p, t), s) = [p EXCEPT !.control = new.control, !.feedback = new.feedback]
    BY DEF Effect, ControlTask, FeedbackTask, Cores, ProcessorStates
<1>. HIDE DEF t, s
<1>3. Leads(p, <<t, s>>, Effect(Effect(p, t), s)) /\ <<t, s>> \in Seq(Task)
    BY <1>1, LeadsTwoSteps
<1>. QED  BY <1>2, <1>3 DEF SwitchTasks, t, s

LEMMA LeadsToSettings ==
    ASSUME NEW p \in Cores, NEW new \in ProcessorStates, NEW old
    PROVE  /\ <<SettingsTask(new)>> \o SwitchTasks(old, new) \in Seq(Task)
           /\ Leads(p, <<SettingsTask(new)>> \o SwitchTasks(old, new),
                    [p EXCEPT !.dest = new.dest, !.control = new.control, !.feedback = new.feedback])
<1>. DEFINE t == SettingsTask(new)
            r == [p EXCEPT !.dest = new.dest]
<1>1. t \in Task
  <2>1. t \in TasksWith(new.dest) /\ new.dest \in Outputs
      BY ProcessorFields DEF SettingsTask, TasksWith
  <2>. QED  BY <2>1, TaskKinds
<1>2. Effect(p, t) = r
    BY DEF Effect, SettingsTask
<1>3. r \in Cores
    BY <1>1, <1>2, CoreEffectTypes
<1>4. Leads(p, <<t>>, r) /\ <<t>> \in Seq(Task)
    BY <1>1, <1>2, LeadsOneStep
<1>5. [r EXCEPT !.control = new.control, !.feedback = new.feedback]
        = [p EXCEPT !.dest = new.dest, !.control = new.control, !.feedback = new.feedback]
    BY DEF Cores, ProcessorStates
<1>. HIDE DEF r, t
<1>6. /\ SwitchTasks(old, new) \in Seq(Task)
      /\ Leads(r, SwitchTasks(old, new), [r EXCEPT !.control = new.control, !.feedback = new.feedback])
    BY <1>3, LeadsToSwitches
<1>7. /\ <<t>> \o SwitchTasks(old, new) \in Seq(Task)
      /\ Leads(p, <<t>> \o SwitchTasks(old, new), [r EXCEPT !.control = new.control, !.feedback = new.feedback])
    BY <1>4, <1>6, LeadsOn
<1>. QED  BY <1>5, <1>7 DEF t

\* A full resync leads from wherever the real-time processor is to the settings,
\* switches and mappings of the main processor.
LEMMA FullSyncLeadsBack ==
    ASSUME NEW p \in Cores, NEW new \in ProcessorStates
    PROVE  Leads(p, FullSync(new), Core(new)) /\ FullSync(new) \in Seq(Task)
<1>. DEFINE n == Len(CompartmentKinds)
            tasks == [i \in DOMAIN CompartmentKinds |-> AllMappingsTask(new, CompartmentKinds[i])]
            r == [p EXCEPT !.dest = new.dest, !.control = new.control, !.feedback = new.feedback]
            covered(k) == {CompartmentKinds[i] : i \in 1..k}
            mappings(k) == [c \in Compartments |-> IF c \in covered(k) THEN new.mappings[c] ELSE p.mappings[c]]
            h == [k \in 0..n |-> [r EXCEPT !.mappings = mappings(k)]]
<1>1. n \in Nat /\ DOMAIN CompartmentKinds = 1..n
    BY CompartmentsAssumption
<1>2. \A i \in 1..n : CompartmentKinds[i] \in Compartments
    BY <1>1 DEF Compartments
<1>3. \A i \in 1..n : tasks[i] = AllMappingsTask(new, CompartmentKinds[i]) /\ tasks[i] \in Task
  <2>1. \A c \in Compartments : AllMappingsTask(new, c) \in Task
      BY AllMappingsTaskTypes, TaskKinds, ProcessorFields
  <2>. QED  BY <1>1, <1>2, <2>1
<1>4. tasks \in Seq(Task) /\ Len(tasks) = n
  <2>1. tasks \in [1..n -> Task]
      BY <1>1, <1>3
  <2>. QED  BY <1>1, <2>1
<1>5. r \in Cores /\ r.mode = "Controlling" /\ r.mappings = p.mappings
      /\ r.dest = new.dest /\ r.control = new.control /\ r.feedback = new.feedback
    BY DEF Cores, ProcessorStates
<1>6. \A k \in 0..n : mappings(k) \in [Compartments -> MappingSets]
    BY ProcessorFields DEF Cores
<1>. HIDE DEF r, tasks, covered
<1>7. h \in [0..n -> Cores]
    BY <1>5, <1>6 DEF Cores, ProcessorStates, MappingSets
<1>8. h[0] = r
  <2>1. covered(0) = {}
      BY DEF covered
  <2>2. mappings(0) = r.mappings
      BY <1>5, <2>1, ProcessorFields DEF Cores
  <2>. QED  BY <1>1, <1>5, <2>2 DEF Cores, ProcessorStates
<1>9. h[n] = Core(new)
  <2>1. covered(n) = Compartments
      BY <1>1 DEF covered, Compartments
  <2>2. mappings(n) = new.mappings
      BY <2>1, ProcessorFields
  <2>. QED  BY <1>1, <1>5, <2>2 DEF Cores, ProcessorStates, Core
<1>10. ASSUME NEW k \in 1..n
       PROVE  h[k] = Effect(h[k - 1], tasks[k])
  <2>. DEFINE c == CompartmentKinds[k]
  <2>1. covered(k) = covered(k - 1) \cup {c}
      BY <1>1 DEF covered
  <2>2. c \in Compartments
      BY <1>2
  <2>3. mappings(k) = [mappings(k - 1) EXCEPT ![c] = new.mappings[c]]
    <3>. HIDE DEF c
    <3>. QED  BY <2>1, <2>2
  <2>4. tasks[k].type = "UpdateAllMappings" /\ tasks[k].compartment = c /\ tasks[k].mappings = new.mappings[c]
    <3>1. tasks[k] = AllMappingsTask(new, c)
        BY <1>3
    <3>. HIDE DEF c
    <3>. QED  BY <3>1 DEF AllMappingsTask
  <2>5. \A x : Effect(x, tasks[k]) = [x EXCEPT !.mappings[c] = new.mappings[c]]
      BY <2>4 DEF Effect, MappingsAfter
  <2>6. h[k - 1] = [r EXCEPT !.mappings = mappings(k - 1)] /\ h[k] = [r EXCEPT !.mappings = mappings(k)]
      BY <1>1
  <2>. HIDE DEF c, h, mappings
  <2>. QED  BY <1>5, <2>3, <2>5, <2>6 DEF Cores, ProcessorStates
<1>. HIDE DEF h
<1>11. Leads(r, tasks, Core(new))
    BY <1>4, <1>7, <1>8, <1>9, <1>10 DEF Leads
<1>. DEFINE front == <<SettingsTask(new)>> \o SwitchTasks(new, new)
<1>12. front \in Seq(Task) /\ Leads(p, front, r)
    BY LeadsToSettings DEF r
<1>. HIDE DEF front
<1>13. Leads(p, front \o tasks, Core(new)) /\ front \o tasks \in Seq(Task)
    BY <1>4, <1>11, <1>12, LeadsOn
<1>. QED  BY <1>13 DEF front, tasks, FullSync

------------------------------------------------------------------------------

\* Every change sends tasks which bring a mirror of the main processor up to date.
ChangeIsMirrored == sending' \in Seq(Task) /\ Leads(Core(main), sending', Core(main'))

LEMMA UpdateSettingsIsMirrored ==
    ASSUME SyncTypes, UpdateSettings
    PROVE  ChangeIsMirrored
<1>1. PICK dest \in Outputs :
        LET new == WithSwitches([main EXCEPT !.dest = dest], circumstances)
        IN  ChangeMain("UpdateSettings", new, <<SettingsTask(new)>> \o SwitchTasks(main, new))
    BY DEF UpdateSettings, Outputs
<1>. DEFINE new == WithSwitches([main EXCEPT !.dest = dest], circumstances)
            p == Core(main)
            moved == [p EXCEPT !.dest = new.dest, !.control = new.control, !.feedback = new.feedback]
<1>2. main' = new /\ sending' = <<SettingsTask(new)>> \o SwitchTasks(main, new)
    BY <1>1 DEF ChangeMain
<1>3. main \in ProcessorStates /\ new \in ProcessorStates
    BY SwitchesTypes DEF SyncTypes, TypeOK, ProcessorStates, Outputs
<1>4. new.mappings = main.mappings
    BY DEF WithSwitches, SyncTypes, TypeOK, ProcessorStates
<1>. HIDE DEF new
<1>5. moved = Core(new)
    BY <1>3, <1>4 DEF Core, ProcessorStates
<1>6. p \in Cores
    BY <1>3, CoreTypes
<1>. HIDE DEF p
<1>7. /\ <<SettingsTask(new)>> \o SwitchTasks(main, new) \in Seq(Task)
      /\ Leads(p, <<SettingsTask(new)>> \o SwitchTasks(main, new), moved)
    BY <1>3, <1>6, LeadsToSettings
<1>. QED  BY <1>2, <1>5, <1>7 DEF ChangeIsMirrored, p

LEMMA PotentiallyEnableOrDisableIsMirrored ==
    ASSUME SyncTypes, PotentiallyEnableOrDisable
    PROVE  ChangeIsMirrored
<1>1. PICK circ \in [control : BOOLEAN, feedback : BOOLEAN] :
        ChangeMain("PotentiallyEnableOrDisable", WithSwitches(main, circ),
                   SwitchTasks(main, WithSwitches(main, circ)))
    BY DEF PotentiallyEnableOrDisable
<1>. DEFINE new == WithSwitches(main, circ)
            p == Core(main)
            switched == [p EXCEPT !.control = new.control, !.feedback = new.feedback]
<1>2. main' = new /\ sending' = SwitchTasks(main, new)
    BY <1>1 DEF ChangeMain
<1>3. main \in ProcessorStates /\ new \in ProcessorStates
    BY SwitchesTypes DEF SyncTypes, TypeOK
<1>4. new.mappings = main.mappings /\ new.dest = main.dest
    BY <1>3 DEF WithSwitches, ProcessorStates
<1>. HIDE DEF new
<1>5. switched = Core(new)
    BY <1>3, <1>4 DEF Core, ProcessorStates
<1>6. p \in Cores
    BY <1>3, CoreTypes
<1>. HIDE DEF p
<1>7. SwitchTasks(main, new) \in Seq(Task) /\ Leads(p, SwitchTasks(main, new), switched)
    BY <1>3, <1>6, LeadsToSwitches
<1>. QED  BY <1>2, <1>5, <1>7 DEF ChangeIsMirrored, p

LEMMA ChangeOfOneTaskIsMirrored ==
    ASSUME SyncTypes, NEW op, NEW task \in Task, NEW new \in ProcessorStates, ChangeMain(op, new, <<task>>),
           Core(new) = Effect(Core(main), task)
    PROVE  ChangeIsMirrored
<1>1. main' = new /\ sending' = <<task>>
    BY DEF ChangeMain
<1>2. Core(main) \in Cores
    BY CoreTypes DEF SyncTypes, TypeOK
<1>. QED  BY <1>1, <1>2, LeadsOneStep DEF ChangeIsMirrored

\* It is the same for a processor and its core what becomes of the mappings.
LEMMA EffectOfMappings ==
    ASSUME NEW p \in ProcessorStates, NEW t \in Task, t.type \in MappingTypes
    PROVE  Effect(Core(p), t) =
                Core([p EXCEPT !.mappings[t.compartment] = MappingsAfter(p.mappings[t.compartment], t)])
<1>1. Effect(p, t) = [p EXCEPT !.mappings[t.compartment] = MappingsAfter(p.mappings[t.compartment], t)]
    BY DEF Effect, MappingTypes
<1>. QED  BY <1>1, EffectOnCore

LEMMA ChangeOfMappingsIsMirrored ==
    ASSUME SyncTypes, NEW op, NEW task \in Task, task.type \in MappingTypes, NEW new \in ProcessorStates,
           ChangeMain(op, new, <<task>>),
           new = [main EXCEPT !.mappings[task.compartment] =
                    MappingsAfter(main.mappings[task.compartment], task)]
    PROVE  ChangeIsMirrored
BY EffectOfMappings, ChangeOfOneTaskIsMirrored DEF SyncTypes, TypeOK

LEMMA SingleChangesAreMirrored ==
    ASSUME SyncTypes,
           UpdateAllMappings \/ UpdateSingleMapping \/ UpdatePersistentProcessingState \/ SetControlMode
    PROVE  ChangeIsMirrored
<1>0. main \in ProcessorStates /\ main.dest \in Outputs
    BY ProcessorFields DEF SyncTypes, TypeOK
<1>1. CASE UpdateAllMappings
  <2>1. PICK c \in Compartments, ms \in [Mappings -> NewMappings \cup {None}] :
            ChangeMain("UpdateAllMappings", [main EXCEPT !.mappings[c] = ms],
                       <<AllMappingsTask([main EXCEPT !.mappings[c] = ms], c)>>)
      BY <1>1 DEF UpdateAllMappings
  <2>. DEFINE new == [main EXCEPT !.mappings[c] = ms]
              task == AllMappingsTask(new, c)
  <2>2. ms \in MappingSets
      BY MappingsAssumption DEF MappingSets
  <2>3. new \in ProcessorStates /\ new.mappings[c] = ms
      BY <1>0, <2>2 DEF ProcessorStates, MappingSets
  <2>4. task.type = "UpdateAllMappings" /\ task.compartment = c /\ task.mappings = ms
    <3>. HIDE DEF new
    <3>. QED  BY <2>3 DEF AllMappingsTask
  <2>5. task \in Task
      BY <1>0, <2>3, AllMappingsTaskTypes, TaskKinds
  <2>6. ChangeMain("UpdateAllMappings", new, <<task>>)
      BY <2>1
  <2>. HIDE DEF task
  <2>7. new = [main EXCEPT !.mappings[task.compartment] = MappingsAfter(main.mappings[task.compartment], task)]
      BY <2>4 DEF MappingsAfter
  <2>8. task.type \in MappingTypes
      BY <2>4 DEF MappingTypes
  <2>. HIDE DEF new
  <2>. QED  BY <2>3, <2>5, <2>6, <2>7, <2>8, ChangeOfMappingsIsMirrored
<1>2. CASE UpdateSingleMapping
  <2>1. PICK c \in Compartments, m \in Mappings, s \in MappingStates :
            ChangeMain("UpdateSingleMapping", [main EXCEPT !.mappings[c][m] = s],
               <<[type |-> "UpdateSingleMapping", compartment |-> c, id |-> m, mapping |-> s]>>)
      BY <1>2, MappingsAssumption DEF UpdateSingleMapping
  <2>. DEFINE new == [main EXCEPT !.mappings[c][m] = s]
              task == [type |-> "UpdateSingleMapping", compartment |-> c, id |-> m, mapping |-> s]
  <2>2. new \in ProcessorStates
      BY <1>0 DEF ProcessorStates
  <2>3. task \in Task
      BY <1>0, TaskKinds DEF TasksWith
  <2>4. task.type = "UpdateSingleMapping" /\ task.compartment = c /\ task.id = m /\ task.mapping = s
      OBVIOUS
  <2>6. ChangeMain("UpdateSingleMapping", new, <<task>>)
      BY <2>1
  <2>. HIDE DEF task
  <2>7. new = [main EXCEPT !.mappings[task.compartment] = MappingsAfter(main.mappings[task.compartment], task)]
      BY <1>0, <2>4 DEF MappingsAfter, ProcessorStates
  <2>8. task.type \in MappingTypes
      BY <2>4 DEF MappingTypes
  <2>. HIDE DEF new
  <2>. QED  BY <2>2, <2>3, <2>6, <2>7, <2>8, ChangeOfMappingsIsMirrored
<1>3. CASE UpdatePersistentProcessingState
  <2>1. PICK c \in Compartments, e \in BOOLEAN, m \in Mappings :
            /\ m \in Present(main.mappings[c])
            /\ ChangeMain("UpdatePersistentProcessingState", [main EXCEPT !.mappings[c][m].enabled = e],
                   <<[type |-> "UpdatePersistentProcessingState", compartment |-> c, id |-> m,
                      enabled |-> e]>>)
      BY <1>3 DEF UpdatePersistentProcessingState, Present
  <2>. DEFINE new == [main EXCEPT !.mappings[c][m].enabled = e]
              task == [type |-> "UpdatePersistentProcessingState", compartment |-> c, id |-> m, enabled |-> e]
  <2>2. new = [main EXCEPT !.mappings[c][m] = [main.mappings[c][m] EXCEPT !.enabled = e]]
      BY <1>0 DEF ProcessorStates
  <2>3. [main.mappings[c][m] EXCEPT !.enabled = e] \in MappingStates
      BY SMTT(30), <1>0, <2>1 DEF Present, ProcessorStates, MappingStates
  <2>4. new \in ProcessorStates
      BY <1>0, <2>2, <2>3 DEF ProcessorStates
  <2>5. task \in Task
      BY <1>0, TaskKinds DEF TasksWith
  <2>6. task.type = "UpdatePersistentProcessingState" /\ task.compartment = c /\ task.id = m /\ task.enabled = e
      OBVIOUS
  <2>7. ChangeMain("UpdatePersistentProcessingState", new, <<task>>)
      BY <2>1
  <2>. HIDE DEF task
  <2>8. MappingsAfter(main.mappings[c], task) =
            [main.mappings[c] EXCEPT ![m] = [main.mappings[c][m] EXCEPT !.enabled = e]]
      BY <1>0, <2>1, <2>6 DEF MappingsAfter, ProcessorStates
  <2>9. new = [main EXCEPT !.mappings[task.compartment] = MappingsAfter(main.mappings[task.compartment], task)]
      BY <1>0, <2>2, <2>6, <2>8 DEF ProcessorStates
  <2>10. task.type \in MappingTypes
      BY <2>6 DEF MappingTypes
  <2>. HIDE DEF new
  <2>. QED  BY <2>4, <2>5, <2>7, <2>9, <2>10, ChangeOfMappingsIsMirrored
<1>4. CASE SetControlMode
  <2>1. PICK mode \in Modes : ChangeMain("SetControlMode", [main EXCEPT !.mode = mode],
                                         <<[type |-> "SetControlMode", mode |-> mode]>>)
      BY <1>4 DEF SetControlMode
  <2>. DEFINE new == [main EXCEPT !.mode = mode]
              task == [type |-> "SetControlMode", mode |-> mode]
  <2>2. new \in ProcessorStates /\ Core(new) = Core(main)
      BY <1>0 DEF ProcessorStates, Core
  <2>3. task \in Task
      BY <1>0, TaskKinds DEF TasksWith
  <2>4. Effect(Core(main), task) = Core(main)
      BY DEF Effect
  <2>5. ChangeMain("SetControlMode", new, <<task>>)
      BY <2>1
  <2>. HIDE DEF new, task
  <2>. QED  BY <2>2, <2>3, <2>4, <2>5, ChangeOfOneTaskIsMirrored
<1>. QED  BY <1>1, <1>2, <1>3, <1>4

LEMMA PartialChangesAreMirrored ==
    ASSUME SyncTypes, UpdateMappingsPartially \/ UpdateTargetsPartially
    PROVE  ChangeIsMirrored
<1>0. main \in ProcessorStates /\ main.dest \in Outputs
    BY ProcessorFields DEF SyncTypes, TypeOK
<1>1. PICK op \in {"UpdateMappingsPartially", "UpdateTargetsPartially"}, field \in Fields :
        /\ UpdateMappingsOrTargets(op, field)
        /\ field = IF op = "UpdateMappingsPartially" THEN "active" ELSE "targetActive"
    BY DEF UpdateMappingsPartially, UpdateTargetsPartially, Fields
<1>. DEFINE old(c) == main.mappings[c]
            ms(c, changed) == Toggled(old(c), changed, field)
            new(c, changed) == [main EXCEPT !.mappings[c] = ms(c, changed)]
            task(c, changed) == [type |-> op, compartment |-> c,
                                 updates |-> [m \in changed |-> ms(c, changed)[m][field]]]
<1>2. PICK c \in Compartments, changed \in SUBSET Mappings :
        /\ changed \subseteq Present(old(c))
        /\ ChangeMain(op, new(c, changed), <<task(c, changed)>>)
    BY <1>1 DEF UpdateMappingsOrTargets, Present
<1>3. new(c, changed) \in ProcessorStates /\ task(c, changed) \in Task
  <2>1. ChangeIsTyped
      BY PartialChangesAreTyped
  <2>2. main' = new(c, changed) /\ sending' = <<task(c, changed)>>
      BY <1>2 DEF ChangeMain
  <2>3. main' \in ProcessorStates /\ sending' \in Seq(TasksWith(main'.dest)) /\ main'.dest \in Outputs
      BY <2>1, ProcessorFields DEF ChangeIsTyped
  <2>. HIDE DEF new, task
  <2>4. Head(sending') = task(c, changed) /\ sending' # <<>>
      BY <2>2
  <2>5. Head(sending') \in TasksWith(main'.dest)
      BY <2>3, <2>4, TakeFirst
  <2>. QED  BY <2>2, <2>3, <2>4, <2>5, TaskKinds
<1>4. \A m \in changed : old(c)[m] \in MappingStates
    BY <1>0, <1>2 DEF Present, ProcessorStates
<1>5. \A m \in Mappings : ms(c, changed)[m] =
        IF m \in changed THEN [old(c)[m] EXCEPT ![field] = ~old(c)[m][field]] ELSE old(c)[m]
    BY DEF Toggled
<1>6. \A m \in changed : ms(c, changed)[m] = [old(c)[m] EXCEPT ![field] = ms(c, changed)[m][field]]
  <2>. TAKE m \in changed
  <2>1. old(c)[m] \in MappingStates /\ (~old(c)[m][field]) \in BOOLEAN
      BY <1>4
  <2>2. ms(c, changed)[m] = [old(c)[m] EXCEPT ![field] = ~old(c)[m][field]]
      BY <1>5
  <2>3. \A x \in MappingStates, b \in BOOLEAN :
            [x EXCEPT ![field] = b] \in MappingStates /\ [x EXCEPT ![field] = b][field] = b
      BY FieldUpdate
  <2>4. [old(c)[m] EXCEPT ![field] = ~old(c)[m][field]][field] = (~old(c)[m][field])
      BY <2>1, <2>3
  <2>. HIDE DEF ms, old
  <2>. QED  BY <2>2, <2>4
<1>7. /\ task(c, changed).type = op /\ task(c, changed).compartment = c
      /\ DOMAIN task(c, changed).updates = changed
      /\ \A m \in changed : task(c, changed).updates[m] = ms(c, changed)[m][field]
      /\ UpdatedField(task(c, changed)) = field
    BY <1>1 DEF UpdatedField
<1>8. MappingsAfter(old(c), task(c, changed)) = ms(c, changed)
  <2>1. ms(c, changed) = [m \in Mappings |-> ms(c, changed)[m]]
      BY DEF Toggled
  <2>. HIDE DEF ms, task, old
  <2>2. MappingsAfter(old(c), task(c, changed)) =
            [m \in Mappings |-> IF m \in changed \cap Present(old(c))
                THEN [old(c)[m] EXCEPT ![field] = task(c, changed).updates[m]] ELSE old(c)[m]]
      BY <1>7 DEF MappingsAfter
  <2>3. \A m \in Mappings : ms(c, changed)[m] =
            IF m \in changed \cap Present(old(c))
            THEN [old(c)[m] EXCEPT ![field] = task(c, changed).updates[m]] ELSE old(c)[m]
    <3>. TAKE m \in Mappings
    <3>1. CASE m \in changed
      <4>1. m \in Present(old(c)) /\ task(c, changed).updates[m] = ms(c, changed)[m][field]
          BY <1>2, <1>7, <3>1
      <4>2. ms(c, changed)[m] = [old(c)[m] EXCEPT ![field] = ms(c, changed)[m][field]]
          BY <1>6, <3>1
      <4>. QED  BY <3>1, <4>1, <4>2
    <3>2. CASE m \notin changed
        BY <1>5, <3>2
    <3>. QED  BY <3>1, <3>2
  <2>. QED  BY <2>1, <2>2, <2>3
<1>9. task(c, changed).type \in MappingTypes
    BY <1>7 DEF MappingTypes
<1>. HIDE DEF ms, task
<1>10. new(c, changed) = [main EXCEPT !.mappings[task(c, changed).compartment] =
            MappingsAfter(main.mappings[task(c, changed).compartment], task(c, changed))]
    BY <1>7, <1>8
<1>. HIDE DEF new
<1>. QED  BY <1>2, <1>3, <1>9, <1>10, ChangeOfMappingsIsMirrored

LEMMA ChangesAreMirrored ==
    ASSUME SyncTypes, Change
    PROVE  ChangeIsMirrored
BY UpdateSettingsIsMirrored, PotentiallyEnableOrDisableIsMirrored, SingleChangesAreMirrored,
   PartialChangesAreMirrored DEF Change

------------------------------------------------------------------------------

\* Nothing but an outage that the audio hook notices makes tasks get lost.
NoMishaps == Mishaps = {}

\* The real-time processor is going to ask for a full resync, or it has asked
\* and the main thread hasn't begun with it, or tasks got lost in an outage which
\* hasn't ended.
ResyncIsOwed == requests > 0 \/ rtStep = "request" \/ lastRun = "longAgo" \/ (dropped /\ ~audioRunning)

MirrorInv ==
    /\ SyncTypes
    /\ rtStep = "discard" => requests > 0
    /\ \E r \in Cores :
            Leads(Core(rt), queue, r) /\ (ResyncIsOwed \/ Leads(r, sending, Core(main)))

LEMMA SendingTypes ==
    ASSUME SyncTypes
    PROVE  sending \in Seq(Task) /\ queue \in Seq(Task)
<1>1. main.dest \in Outputs
    BY ProcessorFields DEF SyncTypes, TypeOK
<1>2. TasksWith(main.dest) \subseteq Task
    BY <1>1, TaskKinds
<1>. QED  BY <1>2 DEF SyncTypes

LEMMA InitMirrors == Init => MirrorInv
<1>. SUFFICES ASSUME Init PROVE MirrorInv
    OBVIOUS
<1>1. SyncTypes
    BY InitTypes
<1>2. Core(rt) \in Cores
    BY <1>1, CoreTypes DEF SyncTypes, TypeOK
<1>3. queue = <<>> /\ sending = <<>> /\ rt = main /\ rtStep = "idle"
    BY DEF Init
<1>4. Leads(Core(rt), queue, Core(rt)) /\ Leads(Core(rt), sending, Core(main))
    BY <1>2, <1>3, LeadsNowhere
<1>. QED  BY <1>1, <1>2, <1>3, <1>4 DEF MirrorInv

LEMMA ChangeKeepsMirror ==
    ASSUME MirrorInv, Change
    PROVE  MirrorInv'
<1>1. SyncTypes /\ ChangeIsTyped /\ ChangeIsMirrored
    BY ChangesAreTyped, ChangesAreMirrored DEF MirrorInv
<1>2. SyncTypes'
    BY <1>1, ChangeKeepsTypes
<1>3. sending = <<>> /\ UNCHANGED <<rt, rtStep, audioRunning, lastRun, queue, requests, dropped>>
    BY <1>1 DEF ChangeIsTyped, rtVars, audioVars
<1>4. PICK r \in Cores :
        Leads(Core(rt), queue, r) /\ (ResyncIsOwed \/ Leads(r, sending, Core(main)))
    BY DEF MirrorInv
<1>5. Core(rt') = Core(rt) /\ (ResyncIsOwed' <=> ResyncIsOwed)
    BY <1>3 DEF ResyncIsOwed
<1>6. CASE ResyncIsOwed
    BY <1>2, <1>3, <1>4, <1>5, <1>6 DEF MirrorInv
<1>7. CASE ~ResyncIsOwed
  <2>1. r = Core(main)
      BY <1>3, <1>4, <1>7, LeadsNowhere
  <2>2. Leads(r, sending', Core(main'))
      BY <1>1, <2>1 DEF ChangeIsMirrored
  <2>. QED  BY <1>2, <1>3, <1>4, <1>5, <2>2 DEF MirrorInv
<1>. QED  BY <1>6, <1>7

LEMMA SendTaskKeepsMirror ==
    ASSUME NoMishaps, MirrorInv, SendTask
    PROVE  MirrorInv'
<1>1. SyncTypes /\ SyncTypes'
    BY SendTaskKeepsTypes DEF MirrorInv
<1>2. UNCHANGED <<main, rt, rtStep, audioRunning, lastRun, requests>>
    BY DEF SendTask, rtVars, audioVars
<1>3. PICK r \in Cores :
        Leads(Core(rt), queue, r) /\ (ResyncIsOwed \/ Leads(r, sending, Core(main)))
    BY DEF MirrorInv
<1>4. ResyncIsOwed => ResyncIsOwed'
    BY <1>2 DEF ResyncIsOwed, SendTask
<1>5. sending \in Seq(Task) /\ queue \in Seq(Task) /\ Head(sending) \in Task
    BY <1>1, SendingTypes, TakeFirst DEF SendTask
<1>6. CASE SendHasSpace
  <2>. DEFINE task == Head(sending)
  <2>1. Leads(r, <<task>>, Effect(r, task)) /\ <<task>> \in Seq(Task) /\ Effect(r, task) \in Cores
      BY <1>5, LeadsOneStep, CoreEffectTypes
  <2>2. Leads(Core(rt), queue \o <<task>>, Effect(r, task))
      BY <1>3, <1>5, <2>1, LeadsOn
  <2>3. queue' = queue \o <<task>> /\ sending' = Tail(sending)
    <3>1. queue' = Append(queue, task)
        BY <1>6 DEF SendTask
    <3>2. Append(queue, task) = queue \o <<task>>
      <4>. HIDE DEF task
      <4>. QED  BY <1>5
    <3>. QED  BY <3>1, <3>2 DEF SendTask
  <2>4. ResyncIsOwed \/ Leads(Effect(r, task), sending', Core(main))
      BY <1>3, <1>5, <2>3, LeadsAfterFirst DEF SendTask
  <2>. HIDE DEF task
  <2>5. Leads(Core(rt'), queue', Effect(r, task)) /\ (ResyncIsOwed' \/ Leads(Effect(r, task), sending', Core(main')))
      BY <1>2, <1>4, <2>2, <2>3, <2>4
  <2>. QED  BY <1>1, <1>2, <2>1, <2>5 DEF MirrorInv
<1>7. CASE ~SendHasSpace
  <2>1. ResyncIsOwed' /\ queue' = queue
      BY <1>2, <1>7 DEF SendTask, ResyncIsOwed, NoMishaps
  <2>. QED  BY <1>1, <1>2, <1>3, <2>1 DEF MirrorInv
<1>. QED  BY <1>6, <1>7

LEMMA ProcessTaskKeepsMirror ==
    ASSUME MirrorInv, ProcessTask
    PROVE  MirrorInv'
<1>1. SyncTypes /\ SyncTypes'
    BY ProcessTaskKeepsTypes DEF MirrorInv
<1>2. UNCHANGED <<main, sending, rtStep, audioRunning, lastRun, requests, dropped>>
    BY DEF ProcessTask, mainVars, audioVars
<1>3. PICK r \in Cores :
        Leads(Core(rt), queue, r) /\ (ResyncIsOwed \/ Leads(r, sending, Core(main)))
    BY DEF MirrorInv
<1>4. queue \in Seq(Task) /\ queue # <<>> /\ Head(queue) \in Task
    BY <1>1, SendingTypes, TakeFirst DEF ProcessTask
<1>5. Core(rt') = Effect(Core(rt), Head(queue)) /\ queue' = Tail(queue)
    BY <1>1, <1>4, ProcessedHasEffect DEF ProcessTask
<1>6. Leads(Core(rt'), queue', r)
    BY <1>3, <1>4, <1>5, LeadsAfterFirst
<1>7. ResyncIsOwed' \/ Leads(r, sending', Core(main'))
    BY <1>2, <1>3 DEF ResyncIsOwed
<1>. QED  BY <1>1, <1>2, <1>6, <1>7 DEF MirrorInv

LEMMA ProcessResyncRequestKeepsMirror ==
    ASSUME NoMishaps, MirrorInv, ProcessResyncRequest
    PROVE  MirrorInv'
<1>1. SyncTypes /\ SyncTypes'
    BY ProcessResyncRequestKeepsTypes DEF MirrorInv
<1>2. UNCHANGED <<main, rt, rtStep, queue>> /\ rtStep # "discard" /\ sending' = FullSync(main)
    BY DEF ProcessResyncRequest, rtVars, NoMishaps
<1>3. PICK r \in Cores : Leads(Core(rt), queue, r)
    BY DEF MirrorInv
<1>4. Leads(r, sending', Core(main))
    BY <1>1, <1>2, <1>3, FullSyncLeadsBack DEF SyncTypes, TypeOK
<1>. QED  BY <1>1, <1>2, <1>3, <1>4 DEF MirrorInv

LEMMA OtherStepsKeepMirror ==
    ASSUME NoMishaps, MirrorInv,
           BeginCycle \/ RequestFullSync \/ DiscardTasks \/ EndCycle \/ AudioDevice \/ UNCHANGED vars
    PROVE  MirrorInv'
<1>1. SyncTypes /\ SyncTypes'
    BY OtherStepsKeepTypes DEF MirrorInv
<1>2. UNCHANGED <<main, sending, rt>>
    BY DEF BeginCycle, RequestFullSync, DiscardTasks, EndCycle, AudioDevice, StopAudio, PassTime,
       StartAudio, vars, mainVars, rtVars
<1>3. PICK r \in Cores :
        Leads(Core(rt), queue, r) /\ (ResyncIsOwed \/ Leads(r, sending, Core(main)))
    BY DEF MirrorInv
<1>4. requests \in Nat /\ RequestCapacity \in Nat \ {0}
    BY <1>1, CapacityAssumption DEF SyncTypes, TypeOK
<1>5. /\ rtStep' = "discard" => requests' > 0
      /\ ResyncIsOwed => ResyncIsOwed'
    BY <1>4 DEF MirrorInv, ResyncIsOwed, NoMishaps, BeginCycle, MightBeRebirth, RequestFullSync, DiscardTasks,
       EndCycle, AudioDevice, StopAudio, PassTime, StartAudio, vars, mainVars, rtVars, audioVars
<1>6. CASE DiscardTasks
  <2>1. queue' = <<>> /\ ResyncIsOwed' /\ Core(rt') \in Cores
      BY <1>1, <1>6, CoreTypes DEF DiscardTasks, MirrorInv, ResyncIsOwed, SyncTypes, TypeOK
  <2>2. Leads(Core(rt'), queue', Core(rt'))
      BY <2>1, LeadsNowhere
  <2>. QED  BY <1>1, <1>5, <2>1, <2>2 DEF MirrorInv
<1>7. CASE ~DiscardTasks
  <2>1. queue' = queue
      BY <1>7 DEF BeginCycle, RequestFullSync, EndCycle, AudioDevice, StopAudio, PassTime, StartAudio, vars
  <2>. QED  BY <1>1, <1>2, <1>3, <1>5, <2>1 DEF MirrorInv
<1>. QED  BY <1>6, <1>7

\* Whenever all tasks and requests are processed while audio runs, the real-time
\* processor works with what the main processor has determined, for any changes,
\* mappings, capacities and any number of outages which the audio hook notices
\* (real_time_processor.rs: request_full_sync_and_discard_tasks_if_successful).
THEOREM RtProcessorMirrorsMain ==
    ASSUME NoMishaps
    PROVE  Spec => []RtMirrorsMain
<1>1. MirrorInv /\ [Next]_vars => MirrorInv'
    BY ChangeKeepsMirror, SendTaskKeepsMirror, ProcessTaskKeepsMirror, ProcessResyncRequestKeepsMirror,
       OtherStepsKeepMirror DEF Next, MainThread, AudioThread
<1>2. MirrorInv => RtMirrorsMain
  <2>. SUFFICES ASSUME MirrorInv, Drained PROVE Mirrored
      BY DEF RtMirrorsMain
  <2>1. main \in ProcessorStates /\ rt \in ProcessorStates /\ Core(rt) \in Cores
      BY CoreTypes DEF MirrorInv, SyncTypes, TypeOK
  <2>2. queue = <<>> /\ sending = <<>> /\ ~ResyncIsOwed
      BY DEF Drained, Quiet, ResyncIsOwed
  <2>3. Core(rt) = Core(main)
      BY <2>1, <2>2, LeadsNowhere DEF MirrorInv
  <2>. QED  BY <2>1, <2>3 DEF Mirrored, Core, ProcessorStates
<1>. QED  BY <1>1, <1>2, InitMirrors, PTL DEF Spec

==============================================================================
