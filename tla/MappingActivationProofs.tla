----------------------- MODULE MappingActivationProofs -----------------------
(***************************************************************************)
(* What holds of activation conditions, parameters and transactions for    *)
(* any mappings, parameters, values, layouts and capacities: activation    *)
(* flags which are kept incrementally are always those of a complete       *)
(* evaluation, the channel never leads the main processor's parameters     *)
(* astray, later hits of a transaction see what earlier ones have done,    *)
(* exclusive groups show one target at most, and followers know what their *)
(* lead mappings are up to as soon as all is processed.                    *)
(***************************************************************************)
EXTENDS MappingActivation, WellFoundedInduction, TLAPS

ParamTask ==
    [type: {"UpdateSingleParamValue"}, param: Params, value: ParamValues]
    \cup [type: {"UpdateAllParams"}, params: [Params -> ParamValues]]

\* What the unit model and process_events submit.
Submission ==
    [type: {"UpdateAllMappings"}, data: Layouts]
    \cup [type: {"UpdateSingleMapping"}, mapping: Mappings,
          data: {d[m] : d \in Layouts, m \in Mappings}]
    \cup {NotifyConditionsChanged}

ParamTypes ==
    /\ canon \in [Params -> ParamValues]
    /\ params \in [Params -> ParamValues]
    /\ paramTasks \in Seq(ParamTask)

IsLayout(d) == DOMAIN d = Mappings /\ \A m \in Mappings : IsMappingData(d[m])

AreFlags(fl) == fl \in [Mappings -> [1..2 -> BOOLEAN]]

\* The flags of conditions on parameters are those of a complete evaluation.
FlagsAre(d, fl, ps) ==
    \A m \in {n \in Mappings : d[n] # None} : \A i \in 1..2 :
        ~DependsOnTarget(d[m].conditions[i]) => (fl[m][i] <=> IsFulfilled(d[m].conditions[i], ps))

\* Flags stay right only if conditions refer to existing parameters, also
\* those which are still on their way.
ActivationInv ==
    /\ ParamTypes
    /\ session \in Seq(Submission)
    /\ IsLayout(data)
    /\ AreFlags(flags)
    /\ FlagsMatchParams

------------------------------------------------------------------------------
(* Queues                                                                  *)

\* Taking the first element of a queue moves the others up.
LEMMA TailElements ==
    ASSUME NEW S, NEW q \in Seq(S), q # <<>>
    PROVE  /\ Tail(q) \in Seq(S) /\ Len(q) \in Nat /\ Len(Tail(q)) = Len(q) - 1
           /\ 1 \in 1..Len(q) /\ Head(q) = q[1] /\ Head(q) \in S
           /\ \A k \in 1..Len(Tail(q)) : k + 1 \in 1..Len(q) /\ Tail(q)[k] = q[k + 1]
OBVIOUS

LEMMA AppendElements ==
    ASSUME NEW S, NEW q \in Seq(S), NEW x \in S
    PROVE  /\ Append(q, x) \in Seq(S) /\ Len(q) \in Nat /\ Len(Append(q, x)) = Len(q) + 1
           /\ \A k \in 1..Len(q) : Append(q, x)[k] = q[k]
           /\ Append(q, x)[Len(q) + 1] = x
OBVIOUS

------------------------------------------------------------------------------
(* Operators on flags                                                      *)

\* A condition that isn't affected by a change is fulfilled as before.
LEMMA IncrementIsComplete ==
    ASSUME NEW c, RefersToParams(c), NEW ps \in [Params -> ParamValues],
           NEW p \in Params, NEW v \in ParamValues, NEW flag \in BOOLEAN,
           ~DependsOnTarget(c), flag <=> IsFulfilled(c, ps)
    PROVE  AfterParamUpdate(flag, c, [ps EXCEPT ![p] = v], p, ps[p])
                <=> IsFulfilled(c, [ps EXCEPT ![p] = v])
<1>. DEFINE new == [ps EXCEPT ![p] = v]
<1>1. \A q \in Params : q # p => new[q] = ps[q]
    OBVIOUS
<1>2. CASE IsAffected(c, new, p, ps[p])
    BY <1>2 DEF AfterParamUpdate
<1>3. CASE ~IsAffected(c, new, p, ps[p])
  <2>. HIDE DEF new
  <2>1. AfterParamUpdate(flag, c, new, p, ps[p]) = flag
      BY <1>3 DEF AfterParamUpdate
  <2>2. IsFulfilled(c, ps) <=> IsFulfilled(c, new)
    <3>1. CASE c.kind = "Modifiers"
      <4>1. \A q \in DOMAIN c.on : IsOn(ps[q]) <=> IsOn(new[q])
          BY <1>1, <1>3, <3>1 DEF IsAffected, RefersToParams
      <4>2. \A q \in DOMAIN c.on : IsOn(ps[q]) = IsOn(new[q])
          BY <4>1 DEF IsOn
      <4>. QED  BY <3>1, <4>2 DEF IsFulfilled
    <3>2. CASE c.kind = "Program"
        BY <1>1, <1>3, <3>2 DEF IsAffected, RefersToParams, IsFulfilled
    <3>3. CASE c.kind = "Script"
        BY <1>1, <1>3, <3>3 DEF IsAffected, RefersToParams, IsFulfilled
    <3>. QED  BY <3>1, <3>2, <3>3 DEF IsFulfilled
  <2>. QED  BY <2>1, <2>2 DEF new
<1>. QED  BY <1>2, <1>3

LEMMA IncrementsAreFlags ==
    ASSUME NEW c, NEW flag \in BOOLEAN, NEW new, NEW p, NEW old
    PROVE  AfterParamUpdate(flag, c, new, p, old) \in BOOLEAN
BY DEF AfterParamUpdate, IsFulfilled

\* Reports on lead mappings don't touch conditions on parameters.
LEMMA ReportsKeepFlags ==
    ASSUME NEW d, NEW fl, AreFlags(fl), NEW active, NEW leads, NEW ps, FlagsAre(d, fl, ps)
    PROVE  LET new == ReportLeads(d, fl, active, leads)
           IN  AreFlags(new) /\ FlagsAre(d, new, ps)
<1>. DEFINE new == ReportLeads(d, fl, active, leads)
            updated(m, i) ==
                LET c == d[m].conditions[i]
                    l == LeadMapping(c)
                    y == FinalTargetValue(active[l], CurrentValue(d[l].target, world))
                IN  IF l \in leads THEN AfterTargetValue(fl[m][i], c, l, y) ELSE fl[m][i]
<1>1. new = [m \in Mappings |-> IF d[m] = None THEN fl[m] ELSE [i \in 1..2 |-> updated(m, i)]]
    BY DEF ReportLeads
<1>2. \A m \in Mappings : \A i \in 1..2 : updated(m, i) \in BOOLEAN
  <2>1. \A c, y : Accepts(c, y) \in BOOLEAN
      BY DEF Accepts, IsOn
  <2>. QED  BY <2>1 DEF AfterTargetValue, AreFlags
<1>3. \A m \in Mappings : \A i \in 1..2 :
        ~DependsOnTarget(d[m].conditions[i]) => updated(m, i) = fl[m][i]
    BY DEF AfterTargetValue, LeadMapping
<1>. HIDE DEF new, updated
<1>4. AreFlags(new)
    BY <1>1, <1>2 DEF AreFlags
<1>5. FlagsAre(d, new, ps)
    BY <1>1, <1>3 DEF FlagsAre
<1>. QED  BY <1>4, <1>5 DEF new

LEMMA InitialFlagsAreRight ==
    ASSUME NEW d
    PROVE  /\ InitialFlags(d) \in [1..2 -> BOOLEAN]
           /\ d # None => \A i \in 1..2 : ~DependsOnTarget(d.conditions[i]) =>
                (InitialFlags(d)[i] <=> IsFulfilled(d.conditions[i], params))
<1>1. \A c : AfterAllParams(FALSE, c, params) \in BOOLEAN
    BY DEF AfterAllParams, IsFulfilled
<1>2. CASE d = None
    BY <1>2 DEF InitialFlags, NoFlags
<1>3. CASE d # None
  <2>1. InitialFlags(d) = [i \in 1..2 |-> AfterAllParams(FALSE, d.conditions[i], params)]
      BY <1>3 DEF InitialFlags
  <2>2. \A i \in 1..2 : ~DependsOnTarget(d.conditions[i]) =>
            AfterAllParams(FALSE, d.conditions[i], params) = IsFulfilled(d.conditions[i], params)
      BY DEF AfterAllParams
  <2>. QED  BY <1>1, <2>1, <2>2
<1>. QED  BY <1>2, <1>3

------------------------------------------------------------------------------
(* Steps                                                                   *)

LEMMA InvOfFlags == FlagsMatchParams <=> FlagsAre(data, flags, params)
BY DEF FlagsMatchParams, FlagsAre, Present

LEMMA InitActivation == Init => ActivationInv
<1>. SUFFICES ASSUME Init PROVE ActivationInv
    OBVIOUS
<1>1. ParamTypes
    BY ValuesAssumption DEF Init, ParamTypes
<1>2. IsLayout(data) /\ FlagsMatchParams
    BY DEF Init, IsLayout, IsMappingData, FlagsMatchParams, Present
<1>3. AreFlags(flags)
    BY DEF Init, AreFlags, NoFlags
<1>. QED  BY <1>1, <1>2, <1>3 DEF Init, ActivationInv

\* Other threads only touch the parameter manager and its channel.
LEMMA SettingKeepsTypes ==
    ASSUME ParamTypes, NEW task \in ParamTask, NEW affected, SendParamTask(task, affected),
           canon' \in [Params -> ParamValues], UNCHANGED params
    PROVE  ParamTypes'
BY AppendElements DEF ParamTypes, SendParamTask

LEMMA SetSingleParameterKeepsInv ==
    ASSUME ActivationInv, NEW p \in Params, NEW v \in ParamValues, NEW rendering \in BOOLEAN,
           SetSingleParameter(p, v, rendering)
    PROVE  ActivationInv'
<1>1. Single(p, v) \in ParamTask
    BY DEF Single, ParamTask
<1>2. canon' \in [Params -> ParamValues]
    BY DEF SetSingleParameter, ActivationInv, ParamTypes
<1>3. ParamTypes'
    BY <1>1, <1>2, SettingKeepsTypes DEF SetSingleParameter, ActivationInv, ParamTypes
<1>. QED  BY <1>3 DEF SetSingleParameter, ActivationInv, mappingVars, IsLayout, AreFlags,
             FlagsMatchParams, Present

LEMMA SetAllParametersKeepsInv ==
    ASSUME ActivationInv, NEW ps \in Presets, SetAllParameters(ps)
    PROVE  ActivationInv'
<1>1. AllParams(ps) \in ParamTask
    BY PresetsAssumption DEF AllParams, ParamTask
<1>2. canon' \in [Params -> ParamValues]
    BY PresetsAssumption DEF SetAllParameters
<1>3. ParamTypes'
    BY <1>1, <1>2, SettingKeepsTypes DEF SetAllParameters, ActivationInv
<1>. QED  BY <1>3 DEF SetAllParameters, ActivationInv, mappingVars, IsLayout, AreFlags,
             FlagsMatchParams, Present

\* What is left to show of a step that may change mappings, flags and parameters.
LEMMA ChangeKeepsInv ==
    ASSUME ActivationInv, ParamTypes', session' \in Seq(Submission), IsLayout(data'),
           AreFlags(flags'), FlagsAre(data', flags', params')
    PROVE  ActivationInv'
BY DEF ActivationInv, IsLayout, AreFlags, FlagsAre, FlagsMatchParams, Present

\* Most steps leave all of that alone.
LEMMA SameFlagsKeepInv ==
    ASSUME ActivationInv, UNCHANGED <<paramVars, params, data, flags>>, session' \in Seq(Submission)
    PROVE  ActivationInv'
<1>1. ParamTypes'
    BY DEF ActivationInv, ParamTypes, paramVars
<1>2. IsLayout(data') /\ AreFlags(flags') /\ FlagsAre(data', flags', params')
    BY InvOfFlags DEF ActivationInv
<1>. QED  BY <1>1, <1>2, ChangeKeepsInv

LEMMA SubmissionTypes ==
    /\ NotifyConditionsChanged \in Submission
    /\ \A d \in Layouts : UpdateAll(d) \in Submission /\ IsLayout(d)
    /\ \A d \in Layouts, m \in Mappings : UpdateSingle(m, d[m]) \in Submission
    /\ \A task \in Submission :
        /\ task.type = "UpdateAllMappings" => task.data \in Layouts
        /\ task.type = "UpdateSingleMapping" => task.mapping \in Mappings /\ IsMappingData(task.data)
<1>1. \A task \in Submission :
        /\ task.type = "UpdateAllMappings" => task.data \in Layouts
        /\ task.type = "UpdateSingleMapping" => task.mapping \in Mappings /\ IsMappingData(task.data)
    BY LayoutsAssumption DEF Submission, NotifyConditionsChanged
<1>2. \A d \in Layouts, m \in Mappings : UpdateSingle(m, d[m]) \in Submission
    BY DEF Submission, UpdateSingle
<1>3. \A d \in Layouts : UpdateAll(d) \in Submission /\ IsLayout(d)
    BY LayoutsAssumption DEF Submission, UpdateAll, IsLayout
<1>. QED  BY <1>1, <1>2, <1>3 DEF Submission

LEMMA SubmitKeepsInv ==
    ASSUME ActivationInv, SubmitMappings \/ SubmitMapping
    PROVE  ActivationInv'
<1>1. PICK task \in Submission : Submit(task)
    BY SubmissionTypes DEF SubmitMappings, SubmitMapping, Present
<1>. QED  BY <1>1, SameFlagsKeepInv, AppendElements DEF Submit, mappingVars, ActivationInv

LEMMA ProcessChangeEventsKeepsInv ==
    ASSUME ActivationInv, ProcessChangeEvents
    PROVE  ActivationInv'
<1>1. session' \in Seq(Submission)
    BY SubmissionTypes, AppendElements DEF ProcessChangeEvents, ActivationInv
<1>. QED  BY <1>1, SameFlagsKeepInv DEF ProcessChangeEvents, mappingVars

LEMMA UpdateAllMappingsKeepsInv ==
    ASSUME ActivationInv, UpdateAllMappings
    PROVE  ActivationInv'
<1>. DEFINE d == Head(session).data
            fresh == [m \in Mappings |-> InitialFlags(d[m])]
            active == [m \in Mappings |-> d[m] # None /\ ConditionsAreMet(d[m].target, world)]
<1>1. session # <<>> /\ Head(session) \in Submission /\ Tail(session) \in Seq(Submission)
    BY TailElements DEF UpdateAllMappings, Take, ActivationInv
<1>2. d \in Layouts /\ IsLayout(d)
    BY <1>1, SubmissionTypes DEF UpdateAllMappings
<1>3. AreFlags(fresh) /\ FlagsAre(d, fresh, params)
    BY InitialFlagsAreRight DEF AreFlags, FlagsAre
<1>4. /\ data' = d /\ flags' = ReportLeads(d, fresh, active, Leads(d))
      /\ session' = Tail(session) /\ UNCHANGED <<paramVars, params>>
    BY DEF UpdateAllMappings
<1>. HIDE DEF d, fresh, active
<1>5. AreFlags(flags') /\ FlagsAre(data', flags', params')
    BY <1>3, <1>4, ReportsKeepFlags
<1>6. ParamTypes'
    BY <1>4 DEF ActivationInv, ParamTypes, paramVars
<1>. QED  BY <1>1, <1>2, <1>4, <1>5, <1>6, ChangeKeepsInv

LEMMA UpdateSingleMappingKeepsInv ==
    ASSUME ActivationInv, UpdateSingleMapping
    PROVE  ActivationInv'
<1>. DEFINE m == Head(session).mapping
            d == [data EXCEPT ![m] = Head(session).data]
            fresh == [flags EXCEPT ![m] = InitialFlags(d[m])]
            active == [targetActive EXCEPT ![m] = ConditionsAreMet(d[m].target, world)]
            leads == {l \in Leads(d) : l = m \/ Follows(d, m, l)}
<1>1. session # <<>> /\ Head(session) \in Submission /\ Tail(session) \in Seq(Submission)
    BY TailElements DEF UpdateSingleMapping, Take, ActivationInv
<1>2. m \in Mappings /\ IsMappingData(Head(session).data)
    BY <1>1, SubmissionTypes DEF UpdateSingleMapping
<1>3. /\ data' = d /\ flags' = ReportLeads(d, fresh, active, leads)
      /\ session' = Tail(session) /\ UNCHANGED <<paramVars, params>>
    BY DEF UpdateSingleMapping
<1>4. IsLayout(d) /\ \A n \in Mappings \ {m} : d[n] = data[n]
    BY <1>2 DEF ActivationInv, IsLayout
<1>. HIDE DEF d
<1>5. fresh[m] = InitialFlags(d[m]) /\ \A n \in Mappings \ {m} : fresh[n] = flags[n]
    BY <1>2 DEF ActivationInv, AreFlags
<1>6. AreFlags(fresh)
    BY <1>2, InitialFlagsAreRight DEF ActivationInv, AreFlags
<1>. HIDE DEF fresh, active, leads, m
<1>7. FlagsAre(d, fresh, params)
  <2>1. FlagsAre(data, flags, params)
      BY InvOfFlags DEF ActivationInv
  <2>. SUFFICES ASSUME NEW n \in Mappings, d[n] # None, NEW i \in 1..2,
                       ~DependsOnTarget(d[n].conditions[i])
                PROVE  fresh[n][i] <=> IsFulfilled(d[n].conditions[i], params)
      BY DEF FlagsAre
  <2>2. CASE n = m
      BY SMTT(30), <1>5, <2>2, InitialFlagsAreRight
  <2>3. CASE n # m
      BY <1>4, <1>5, <2>1, <2>3 DEF FlagsAre
  <2>. QED  BY <2>2, <2>3
<1>8. AreFlags(flags') /\ FlagsAre(data', flags', params')
    BY <1>3, <1>6, <1>7, ReportsKeepFlags
<1>9. ParamTypes'
    BY <1>3 DEF ActivationInv, ParamTypes, paramVars
<1>. QED  BY <1>1, <1>3, <1>4, <1>8, <1>9, ChangeKeepsInv

LEMMA EndSessionKeepsInv ==
    ASSUME ActivationInv, EndSession
    PROVE  ActivationInv'
<1>. DEFINE active == [m \in Mappings |-> m \in Present /\ TargetIsActive(m)]
            updated == {m \in Present : active[m] # targetActive[m]}
<1>1. FlagsAre(data, flags, params) /\ AreFlags(flags)
    BY InvOfFlags DEF ActivationInv
<1>2. flags' = ReportLeads(data, flags, active, updated \cap Leads(data)) \/ flags' = flags
    BY DEF EndSession
<1>3. AreFlags(flags') /\ FlagsAre(data, flags', params)
    BY <1>1, <1>2, ReportsKeepFlags
<1>4. UNCHANGED <<paramVars, params, data, session>>
    BY DEF EndSession
<1>5. ParamTypes' /\ IsLayout(data') /\ session' \in Seq(Submission)
    BY <1>4 DEF ActivationInv, ParamTypes, paramVars
<1>. QED  BY <1>3, <1>4, <1>5, ChangeKeepsInv

\* Taking the next parameter task.
LEMMA NextParamTask ==
    ASSUME ParamTypes, paramTasks # <<>>
    PROVE  LET task == Head(paramTasks)
           IN  /\ task.type = "UpdateSingleParamValue" => task.param \in Params /\ task.value \in ParamValues
               /\ task.type = "UpdateAllParams" => task.params \in [Params -> ParamValues]
               /\ Tail(paramTasks) \in Seq(ParamTask)
<1>1. Head(paramTasks) \in ParamTask /\ Tail(paramTasks) \in Seq(ParamTask)
    BY TailElements DEF ParamTypes
<1>. QED  BY <1>1 DEF ParamTask

LEMMA UpdateSingleParamValueKeepsInv ==
    ASSUME ActivationInv, UpdateSingleParamValue
    PROVE  ActivationInv'
<1>. DEFINE p == Head(paramTasks).param
            v == Head(paramTasks).value
            new == [params EXCEPT ![p] = v]
            after(m, i) == AfterParamUpdate(flags[m][i], data[m].conditions[i], new, p, params[p])
<1>1. p \in Params /\ v \in ParamValues /\ Tail(paramTasks) \in Seq(ParamTask)
    BY NextParamTask DEF UpdateSingleParamValue, ActivationInv
<1>2. params \in [Params -> ParamValues] /\ new \in [Params -> ParamValues]
    BY <1>1 DEF ActivationInv, ParamTypes
<1>3. /\ params' = new
      /\ flags' = [m \in Mappings |-> IF data[m] = None THEN flags[m] ELSE [i \in 1..2 |-> after(m, i)]]
      /\ paramTasks' = Tail(paramTasks)
      /\ session' = Append(session, NotifyConditionsChanged)
      /\ UNCHANGED <<canon, data>>
    BY DEF UpdateSingleParamValue
<1>4. AreFlags(flags) /\ FlagsAre(data, flags, params) /\ IsLayout(data)
    BY InvOfFlags DEF ActivationInv
<1>5. \A m \in Mappings : \A i \in 1..2 : after(m, i) \in BOOLEAN
    BY <1>4, IncrementsAreFlags DEF AreFlags
<1>6. \A m \in Mappings : \A i \in 1..2 :
        data[m] # None /\ ~DependsOnTarget(data[m].conditions[i])
            => (after(m, i) <=> IsFulfilled(data[m].conditions[i], new))
  <2>. SUFFICES ASSUME NEW m \in Mappings, NEW i \in 1..2, data[m] # None,
                       ~DependsOnTarget(data[m].conditions[i])
                PROVE  after(m, i) <=> IsFulfilled(data[m].conditions[i], new)
      OBVIOUS
  <2>1. RefersToParams(data[m].conditions[i])
      BY <1>4 DEF IsLayout, IsMappingData
  <2>2. flags[m][i] \in BOOLEAN /\ (flags[m][i] <=> IsFulfilled(data[m].conditions[i], params))
      BY <1>4 DEF AreFlags, FlagsAre
  <2>. QED  BY <1>1, <1>2, <2>1, <2>2, IncrementIsComplete
<1>. HIDE DEF p, v, new, after
<1>7. AreFlags(flags') /\ FlagsAre(data', flags', params')
  <2>1. AreFlags(flags')
      BY <1>3, <1>4, <1>5 DEF AreFlags
  <2>2. FlagsAre(data', flags', params')
      BY <1>3, <1>6 DEF FlagsAre
  <2>. QED  BY <2>1, <2>2
<1>8. session' \in Seq(Submission)
    BY <1>3, SubmissionTypes, AppendElements DEF ActivationInv
<1>9. ParamTypes' /\ IsLayout(data')
    BY <1>1, <1>2, <1>3, <1>4 DEF ActivationInv, ParamTypes
<1>. QED  BY <1>7, <1>8, <1>9, ChangeKeepsInv

LEMMA UpdateAllParamsKeepsInv ==
    ASSUME ActivationInv, UpdateAllParams
    PROVE  ActivationInv'
<1>. DEFINE after(m, i) == AfterAllParams(flags[m][i], data[m].conditions[i], params')
<1>1. params' \in [Params -> ParamValues] /\ paramTasks' \in Seq(ParamTask)
    BY NextParamTask DEF UpdateAllParams, Take, ActivationInv
<1>2. /\ flags' = [m \in Mappings |-> IF data[m] = None THEN flags[m] ELSE [i \in 1..2 |-> after(m, i)]]
      /\ UNCHANGED <<canon, data, session>>
    BY DEF UpdateAllParams
<1>3. AreFlags(flags) /\ IsLayout(data)
    BY DEF ActivationInv
<1>4. \A m \in Mappings : \A i \in 1..2 : after(m, i) \in BOOLEAN
    BY <1>3 DEF AfterAllParams, IsFulfilled, AreFlags
<1>5. \A m \in Mappings : \A i \in 1..2 : ~DependsOnTarget(data[m].conditions[i])
            => after(m, i) = IsFulfilled(data[m].conditions[i], params')
    BY DEF AfterAllParams
<1>. HIDE DEF after
<1>6. AreFlags(flags')
    BY <1>2, <1>3, <1>4 DEF AreFlags
<1>7. FlagsAre(data', flags', params')
    BY <1>2, <1>5 DEF FlagsAre
<1>8. ParamTypes' /\ IsLayout(data') /\ session' \in Seq(Submission)
    BY <1>1, <1>2, <1>3 DEF ActivationInv, ParamTypes
<1>. QED  BY <1>6, <1>7, <1>8, ChangeKeepsInv

LEMMA MappingTargetValueChangedKeepsInv ==
    ASSUME ActivationInv, MappingTargetValueChanged
    PROVE  ActivationInv'
<1>. DEFINE lead == Head(feedback).lead
            y == FinalTargetValue(TRUE, Head(feedback).value)
            after(m, i) == AfterTargetValue(flags[m][i], data[m].conditions[i], lead, y)
<1>1. /\ flags' = [m \in Mappings |-> IF data[m] = None THEN flags[m] ELSE [i \in 1..2 |-> after(m, i)]]
      /\ UNCHANGED <<paramVars, params, data, session>>
    BY DEF MappingTargetValueChanged
<1>2. AreFlags(flags) /\ FlagsAre(data, flags, params) /\ IsLayout(data)
    BY InvOfFlags DEF ActivationInv
<1>3. \A m \in Mappings : \A i \in 1..2 : after(m, i) \in BOOLEAN
  <2>1. \A c : Accepts(c, y) \in BOOLEAN
      BY DEF Accepts, IsOn
  <2>. QED  BY <1>2, <2>1 DEF AfterTargetValue, AreFlags
<1>4. \A m \in Mappings : \A i \in 1..2 : ~DependsOnTarget(data[m].conditions[i])
            => after(m, i) = flags[m][i]
    BY DEF AfterTargetValue, LeadMapping
<1>. HIDE DEF after
<1>5. AreFlags(flags')
    BY <1>1, <1>2, <1>3 DEF AreFlags
<1>6. FlagsAre(data', flags', params')
    BY <1>1, <1>2, <1>4 DEF FlagsAre
<1>7. ParamTypes' /\ IsLayout(data') /\ session' \in Seq(Submission)
    BY <1>1, <1>2 DEF ActivationInv, ParamTypes, paramVars
<1>. QED  BY <1>5, <1>6, <1>7, ChangeKeepsInv

LEMMA NextActivation == ActivationInv /\ [Next]_vars => ActivationInv'
<1>. SUFFICES ASSUME ActivationInv, [Next]_vars PROVE ActivationInv'
    OBVIOUS
<1>0. session \in Seq(Submission)
    BY DEF ActivationInv
<1>1. CASE RememberChangedConditions
  <2>1. session' \in Seq(Submission)
      BY <1>0, <1>1, TailElements DEF RememberChangedConditions, Take
  <2>. QED  BY <1>1, <2>1, SameFlagsKeepInv DEF RememberChangedConditions, mappingVars
<1>2. CASE StartCycle \/ EndParams \/ EndFeedback \/ RunControl \/ PollSources \/ TouchTarget
                \/ UNCHANGED vars
    BY <1>0, <1>2, SameFlagsKeepInv
       DEF StartCycle, EndParams, EndFeedback, RunControl, PollSources, TouchTarget, vars, mappingVars
<1>3. CASE MainLoop
    BY <1>1, <1>2, <1>3, ProcessChangeEventsKeepsInv, UpdateAllMappingsKeepsInv,
       UpdateSingleMappingKeepsInv, EndSessionKeepsInv, UpdateSingleParamValueKeepsInv,
       UpdateAllParamsKeepsInv, MappingTargetValueChangedKeepsInv DEF MainLoop
<1>4. CASE Environment
    BY <1>2, <1>4, SetSingleParameterKeepsInv, SetAllParametersKeepsInv, SubmitKeepsInv DEF Environment
<1>. QED  BY <1>2, <1>3, <1>4 DEF Next

\* Whatever sequence of single changes, replacements of all parameters and edits
\* of mappings occurred, the flag of each condition on parameters is what a
\* complete evaluation gives (conditional_activation.rs, process_param_update).
THEOREM FlagsAreComplete == Spec => []FlagsMatchParams
<1>1. ActivationInv => FlagsMatchParams
    BY DEF ActivationInv
<1>. QED  BY <1>1, InitActivation, NextActivation, PTL DEF Spec

------------------------------------------------------------------------------
(* Parameters                                                              *)

\* The value of parameter p which the main processor has when it has processed
\* the tasks is the wanted one; it has the value old now.
Arrives(tasks, p, old, wanted) ==
    \/ \E i \in DOMAIN tasks :
            /\ Concerns(tasks[i], p)
            /\ ValueIn(tasks[i], p) = wanted
            /\ \A j \in (i + 1)..Len(tasks) : ~Concerns(tasks[j], p)
    \/ /\ old = wanted
       /\ \A i \in DOMAIN tasks : ~Concerns(tasks[i], p)

ArrivalInv == ParamTypes /\ ParamsReachMainProcessor

LEMMA InvOfArrival == ParamsReachMainProcessor <=>
    \A p \in Params \ unsent : Arrives(paramTasks, p, params[p], canon[p])
BY DEF ParamsReachMainProcessor, Arrives

\* A new task on a parameter decides, one on other parameters doesn't matter.
LEMMA AppendArrives ==
    ASSUME NEW q \in Seq(ParamTask), NEW task \in ParamTask, NEW p, NEW old, NEW wanted
    PROVE  /\ Concerns(task, p) => Arrives(Append(q, task), p, old, ValueIn(task, p))
           /\ ~Concerns(task, p) /\ Arrives(q, p, old, wanted)
                => Arrives(Append(q, task), p, old, wanted)
<1>. DEFINE r == Append(q, task)
<1>1. /\ r \in Seq(ParamTask) /\ Len(q) \in Nat /\ Len(r) = Len(q) + 1
      /\ \A k \in 1..Len(q) : r[k] = q[k]
      /\ r[Len(q) + 1] = task
    BY AppendElements
<1>2. DOMAIN q = 1..Len(q) /\ DOMAIN r = 1..Len(r)
    BY <1>1
<1>. HIDE DEF r
<1>3. ASSUME Concerns(task, p) PROVE Arrives(r, p, old, ValueIn(task, p))
  <2>1. Len(r) \in DOMAIN r /\ r[Len(r)] = task /\ (Len(r) + 1)..Len(r) = {}
      BY <1>1, <1>2
  <2>. QED  BY <1>3, <2>1 DEF Arrives
<1>4. ASSUME ~Concerns(task, p), Arrives(q, p, old, wanted) PROVE Arrives(r, p, old, wanted)
  <2>1. \A k \in 1..Len(r) : k \in 1..Len(q) \/ k = Len(q) + 1
      BY <1>1
  <2>2. CASE \A i \in DOMAIN q : ~Concerns(q[i], p)
    <3>1. old = wanted
        BY <1>4, <2>2 DEF Arrives
    <3>2. \A i \in DOMAIN r : ~Concerns(r[i], p)
        BY <1>1, <1>2, <1>4, <2>1, <2>2
    <3>. QED  BY <3>1, <3>2 DEF Arrives
  <2>3. CASE \E i \in DOMAIN q : Concerns(q[i], p)
    <3>1. PICK i \in DOMAIN q : /\ Concerns(q[i], p) /\ ValueIn(q[i], p) = wanted
                                /\ \A j \in (i + 1)..Len(q) : ~Concerns(q[j], p)
        BY <1>4, <2>3 DEF Arrives
    <3>2. i \in DOMAIN r /\ r[i] = q[i]
        BY <1>1, <1>2, <3>1
    <3>3. \A j \in (i + 1)..Len(r) : ~Concerns(r[j], p)
      <4>1. \A j \in (i + 1)..Len(r) : j = Len(q) + 1 \/ (j \in (i + 1)..Len(q) /\ j \in 1..Len(q))
          BY <1>1, <1>2, <3>1
      <4>. QED  BY <1>1, <1>4, <3>1, <4>1
    <3>. QED  BY <3>1, <3>2, <3>3 DEF Arrives
  <2>. QED  BY <2>2, <2>3
<1>. QED  BY <1>3, <1>4 DEF r

\* Processing a task brings about what it is about.
LEMMA TakeArrives ==
    ASSUME NEW q \in Seq(ParamTask), q # <<>>, NEW p, NEW old, NEW wanted, Arrives(q, p, old, wanted),
           NEW new, new = IF Concerns(Head(q), p) THEN ValueIn(Head(q), p) ELSE old
    PROVE  Arrives(Tail(q), p, new, wanted)
<1>. DEFINE r == Tail(q)
<1>1. /\ Len(q) \in Nat /\ Len(r) = Len(q) - 1 /\ 1 \in 1..Len(q) /\ Head(q) = q[1]
      /\ r \in Seq(ParamTask)
      /\ \A k \in 1..Len(r) : k + 1 \in 1..Len(q) /\ r[k] = q[k + 1]
    BY TailElements
<1>2. DOMAIN q = 1..Len(q) /\ DOMAIN r = 1..Len(r)
    BY <1>1
<1>. HIDE DEF r
<1>3. CASE \A i \in DOMAIN q : ~Concerns(q[i], p)
  <2>1. new = wanted
      BY <1>1, <1>2, <1>3 DEF Arrives
  <2>2. \A i \in DOMAIN r : ~Concerns(r[i], p)
      BY <1>1, <1>2, <1>3
  <2>. QED  BY <2>1, <2>2 DEF Arrives, r
<1>4. CASE \E i \in DOMAIN q : Concerns(q[i], p)
  <2>1. PICK i \in 1..Len(q) : /\ Concerns(q[i], p) /\ ValueIn(q[i], p) = wanted
                               /\ \A j \in (i + 1)..Len(q) : ~Concerns(q[j], p)
      BY <1>2, <1>4 DEF Arrives
  <2>2. CASE i = 1
    <3>1. new = wanted
        BY <1>1, <2>1, <2>2
    <3>2. \A k \in 1..Len(r) : k + 1 \in (i + 1)..Len(q)
        BY <1>1, <2>2
    <3>3. \A k \in DOMAIN r : ~Concerns(r[k], p)
        BY <1>1, <1>2, <2>1, <3>2
    <3>. QED  BY <3>1, <3>3 DEF Arrives, r
  <2>3. CASE i # 1
    <3>1. i - 1 \in DOMAIN r /\ r[i - 1] = q[i]
        BY <1>1, <1>2, <2>3
    <3>2. \A j \in ((i - 1) + 1)..Len(r) : ~Concerns(r[j], p)
      <4>1. \A j \in ((i - 1) + 1)..Len(r) : j \in 1..Len(r) /\ j + 1 \in (i + 1)..Len(q)
          BY <1>1
      <4>. QED  BY <1>1, <2>1, <4>1
    <3>. QED  BY <2>1, <3>1, <3>2 DEF Arrives, r
  <2>. QED  BY <2>2, <2>3
<1>. QED  BY <1>3, <1>4

\* A parameter whose latest task was dropped counts as unsent.
LEMMA SendKeepsArrival ==
    ASSUME ArrivalInv, NEW task \in ParamTask, NEW affected \in SUBSET Params,
           SendParamTask(task, affected), UNCHANGED params,
           canon' \in [Params -> ParamValues],
           \A p \in Params : (p \in affected) <=> Concerns(task, p),
           \A p \in Params : canon'[p] = IF p \in affected THEN ValueIn(task, p) ELSE canon[p]
    PROVE  ArrivalInv'
<1>1. ParamTypes'
    BY SettingKeepsTypes DEF ArrivalInv
<1>2. \A p \in Params \ unsent : Arrives(paramTasks, p, params[p], canon[p])
    BY InvOfArrival DEF ArrivalInv
<1>3. \A p \in Params \ unsent' : Arrives(paramTasks', p, params[p], canon'[p])
  <2>. SUFFICES ASSUME NEW p \in Params, p \notin unsent'
                PROVE  Arrives(paramTasks', p, params[p], canon'[p])
      OBVIOUS
  <2>1. CASE paramTasks' = Append(paramTasks, task) /\ unsent' = unsent \ affected
    <3>1. CASE p \in affected
        BY <2>1, <3>1, AppendArrives DEF ArrivalInv, ParamTypes
    <3>2. CASE p \notin affected
      <4>1. Arrives(paramTasks, p, params[p], canon[p]) /\ ~Concerns(task, p) /\ canon'[p] = canon[p]
          BY <1>2, <2>1, <3>2
      <4>. QED  BY <2>1, <4>1, AppendArrives DEF ArrivalInv, ParamTypes
    <3>. QED  BY <3>1, <3>2
  <2>2. CASE paramTasks' = paramTasks /\ unsent' = unsent \cup affected
      BY <1>2, <2>2
  <2>. QED  BY <2>1, <2>2 DEF SendParamTask
<1>4. ParamsReachMainProcessor'
    BY <1>3 DEF ParamsReachMainProcessor, Arrives
<1>. QED  BY <1>1, <1>4 DEF ArrivalInv

LEMMA SetSingleParameterKeepsArrival ==
    ASSUME ArrivalInv, NEW p \in Params, NEW v \in ParamValues, NEW rendering \in BOOLEAN,
           SetSingleParameter(p, v, rendering)
    PROVE  ArrivalInv'
<1>1. /\ canon' \in [Params -> ParamValues] /\ canon'[p] = v
      /\ \A q \in Params : q # p => canon'[q] = canon[q]
    BY DEF SetSingleParameter, ArrivalInv, ParamTypes
<1>2. CASE rendering
  <2>1. unsent' = unsent \cup {p} /\ UNCHANGED <<paramTasks, params>>
      BY <1>2 DEF SetSingleParameter
  <2>2. ParamTypes'
      BY <1>1, <2>1 DEF ArrivalInv, ParamTypes
  <2>3. \A q \in Params \ unsent' : Arrives(paramTasks', q, params'[q], canon'[q])
      BY <1>1, <2>1, InvOfArrival DEF ArrivalInv
  <2>4. ParamsReachMainProcessor'
      BY <2>3 DEF ParamsReachMainProcessor, Arrives
  <2>. QED  BY <2>2, <2>4 DEF ArrivalInv
<1>3. CASE ~rendering
  <2>1. /\ Single(p, v) \in ParamTask /\ ValueIn(Single(p, v), p) = v
        /\ \A q \in Params : (q \in {p}) <=> Concerns(Single(p, v), q)
      BY DEF Single, ParamTask, ValueIn, Concerns
  <2>2. SendParamTask(Single(p, v), {p}) /\ UNCHANGED params
      BY <1>3 DEF SetSingleParameter
  <2>3. \A q \in Params : canon'[q] = IF q \in {p} THEN ValueIn(Single(p, v), q) ELSE canon[q]
      BY <1>1, <2>1
  <2>. QED  BY <1>1, <2>1, <2>2, <2>3, SendKeepsArrival
<1>. QED  BY <1>2, <1>3

LEMMA SetAllParametersKeepsArrival ==
    ASSUME ArrivalInv, NEW ps \in Presets, SetAllParameters(ps)
    PROVE  ArrivalInv'
<1>1. ps \in [Params -> ParamValues] /\ canon' = ps
    BY PresetsAssumption DEF SetAllParameters
<1>2. /\ AllParams(ps) \in ParamTask
      /\ \A q \in Params : Concerns(AllParams(ps), q) /\ ValueIn(AllParams(ps), q) = ps[q]
    BY <1>1 DEF AllParams, ParamTask, ValueIn, Concerns
<1>3. SendParamTask(AllParams(ps), Params) /\ UNCHANGED params
    BY DEF SetAllParameters
<1>. QED  BY <1>1, <1>2, <1>3, SendKeepsArrival

LEMMA TakingKeepsArrival ==
    ASSUME ArrivalInv, UpdateSingleParamValue \/ UpdateAllParams
    PROVE  ArrivalInv'
<1>. DEFINE task == Head(paramTasks)
<1>1. /\ paramTasks # <<>> /\ paramTasks \in Seq(ParamTask) /\ paramTasks' = Tail(paramTasks)
      /\ UNCHANGED <<canon, unsent>>
    BY DEF UpdateSingleParamValue, UpdateAllParams, Take, ArrivalInv, ParamTypes
<1>2. /\ params' \in [Params -> ParamValues]
      /\ \A p \in Params : params'[p] = IF Concerns(task, p) THEN ValueIn(task, p) ELSE params[p]
  <2>1. CASE UpdateSingleParamValue
    <3>1. /\ task.type = "UpdateSingleParamValue" /\ task.param \in Params /\ task.value \in ParamValues
          /\ params' = [params EXCEPT ![task.param] = task.value]
        BY <2>1, NextParamTask DEF UpdateSingleParamValue, ArrivalInv
    <3>. QED  BY <3>1 DEF ArrivalInv, ParamTypes, Concerns, ValueIn
  <2>2. CASE UpdateAllParams
    <3>1. /\ task.type = "UpdateAllParams" /\ params' = task.params
          /\ task.params \in [Params -> ParamValues]
        BY <2>2, NextParamTask DEF UpdateAllParams, Take, ArrivalInv
    <3>. QED  BY <3>1 DEF Concerns, ValueIn
  <2>. QED  BY <2>1, <2>2
<1>3. ParamTypes'
    BY <1>1, <1>2, TailElements DEF ArrivalInv, ParamTypes
<1>4. \A p \in Params \ unsent : Arrives(paramTasks, p, params[p], canon[p])
    BY InvOfArrival DEF ArrivalInv
<1>5. \A p \in Params \ unsent' : Arrives(paramTasks', p, params'[p], canon'[p])
    BY <1>1, <1>2, <1>4, TakeArrives
<1>6. ParamsReachMainProcessor'
    BY <1>5 DEF ParamsReachMainProcessor, Arrives
<1>. QED  BY <1>3, <1>6 DEF ArrivalInv

LEMMA NextArrival == ArrivalInv /\ [Next]_vars => ArrivalInv'
<1>. SUFFICES ASSUME ArrivalInv, [Next]_vars PROVE ArrivalInv'
    OBVIOUS
<1>1. ASSUME UNCHANGED <<paramVars, params>> PROVE ArrivalInv'
    BY <1>1 DEF ArrivalInv, ParamTypes, ParamsReachMainProcessor, paramVars
<1>2. CASE SubmitMappings \/ SubmitMapping
    BY <1>1, <1>2 DEF SubmitMappings, SubmitMapping, Submit
<1>3. CASE \/ StartCycle \/ ProcessChangeEvents \/ UpdateAllMappings \/ UpdateSingleMapping
           \/ RememberChangedConditions \/ EndSession \/ EndParams \/ MappingTargetValueChanged
           \/ EndFeedback \/ RunControl \/ PollSources \/ TouchTarget \/ UNCHANGED vars
    BY <1>1, <1>3
       DEF StartCycle, ProcessChangeEvents, UpdateAllMappings, UpdateSingleMapping,
           RememberChangedConditions, EndSession, EndParams, MappingTargetValueChanged,
           EndFeedback, RunControl, PollSources, TouchTarget, vars
<1>4. CASE MainLoop
    BY <1>3, <1>4, TakingKeepsArrival DEF MainLoop
<1>5. CASE Environment
    BY <1>2, <1>3, <1>5, SetSingleParameterKeepsArrival, SetAllParametersKeepsArrival DEF Environment
<1>. QED  BY <1>3, <1>4, <1>5 DEF Next

\* Parameters set by any threads in any order arrive in the main processor with
\* the value they have in the parameter manager, except for those set while
\* rendering or dropped by a full channel (parameter_manager.rs).
THEOREM ParamsArrive == Spec => []ParamsReachMainProcessor
<1>1. Init => ArrivalInv
  <2>. SUFFICES ASSUME Init PROVE ArrivalInv
      OBVIOUS
  <2>1. ParamTypes
      BY InitActivation DEF ActivationInv
  <2>2. params = canon /\ \A i \in DOMAIN paramTasks : FALSE
      BY DEF Init
  <2>. QED  BY <2>1, <2>2 DEF ArrivalInv, ParamsReachMainProcessor
<1>2. ArrivalInv => ParamsReachMainProcessor
    BY DEF ArrivalInv
<1>. QED  BY <1>1, <1>2, NextArrival, PTL DEF Spec

------------------------------------------------------------------------------
(* Recursive functions on numbers. The library's induction theorems have   *)
(* operators as parameters; these lemmas have sets and functions instead.  *)

LEMMA Smallest ==
    ASSUME NEW T, T \subseteq Nat, T # {}
    PROVE  \E n \in T : \A k \in T : n =< k
<1>1. PICK n \in T : \A k \in T : <<k, n>> \notin OpToRel(<, Nat)
  BY NatLessThanWellFounded, WFMin, Zenon
<1>2. \A k \in T : ~(k < n)
  BY <1>1, Zenon DEF OpToRel
<1>. QED  BY <1>2

LEMMA Stepwise ==
    ASSUME NEW n \in Nat, NEW S, 0 \in S, \A k \in 1..n : k - 1 \in S => k \in S
    PROVE  \A k \in 0..n : k \in S
<1>. DEFINE T == {k \in 0..n : k \notin S}
<1>1. SUFFICES ASSUME T # {} PROVE FALSE
  OBVIOUS
<1>2. T \subseteq Nat
  OBVIOUS
<1>3. PICK k \in T : \A j \in T : k =< j
  <2>. HIDE DEF T
  <2>. QED  BY <1>1, <1>2, Smallest
<1>4. k \in 1..n
  <2>1. k \in 0..n /\ k # 0
    OBVIOUS
  <2>. QED  BY <2>1
<1>5. k - 1 \in 0..n /\ ~(k =< k - 1)
  BY <1>4
<1>6. k - 1 \in S
  BY <1>3, <1>5
<1>. QED  BY <1>4, <1>6

\* Each step leads from one of the sets W to the next.
StepsLead(n, W, step) == \A k \in 1..n : \A x \in W[k - 1] : step[k][x] \in W[k]

\* f begins with a, goes on step by step, and stays in the sets W.
GoesThrough(f, n, W, a, step) ==
    /\ f = [k \in 0..n |-> f[k]]
    /\ f[0] = a /\ \A k \in 1..n : f[k] = step[k][f[k - 1]]
    /\ \A k \in 0..n : f[k] \in W[k]

LEMMA Recursion ==
    ASSUME NEW n \in Nat, NEW W, NEW a \in W[0], NEW step, StepsLead(n, W, step)
    PROVE  \E f : GoesThrough(f, n, W, a, step)
<1>. DEFINE S == {k \in 0..n : \E f : GoesThrough(f, k, W, a, step)}
<1>1. 0 \in S
  <2>1. GoesThrough([i \in 0..0 |-> a], 0, W, a, step)
    BY DEF GoesThrough
  <2>. QED  BY <2>1
<1>2. ASSUME NEW k \in 1..n, k - 1 \in S PROVE k \in S
  <2>1. PICK f : GoesThrough(f, k - 1, W, a, step)
    BY <1>2
  <2>. DEFINE g == [i \in 0..k |-> IF i = k THEN step[k][f[k - 1]] ELSE f[i]]
  <2>2. \A i \in 0..(k - 1) : g[i] = f[i]
    OBVIOUS
  <2>3. g[k] = step[k][f[k - 1]] /\ DOMAIN g = 0..k /\ g = [i \in 0..k |-> g[i]]
    OBVIOUS
  <2>4. k - 1 \in 0..(k - 1) /\ f[k - 1] \in W[k - 1] /\ 0 \in 0..(k - 1)
    BY <2>1 DEF GoesThrough
  <2>. HIDE DEF g
  <2>5. ASSUME NEW i \in 0..k
        PROVE  (i # 0 => g[i] = step[i][g[i - 1]]) /\ g[i] \in W[i]
    <3>1. CASE i = k
      <4>1. g[i - 1] = f[k - 1] /\ i # 0
        BY <2>2, <2>4, <3>1
      <4>2. step[k][f[k - 1]] \in W[k]
        BY <2>4 DEF StepsLead
      <4>. QED  BY <2>3, <3>1, <4>1, <4>2
    <3>2. CASE i # k
      <4>1. i \in 0..(k - 1) /\ (i # 0 => i - 1 \in 0..(k - 1) /\ i \in 1..(k - 1))
        BY <3>2
      <4>2. (i # 0 => f[i] = step[i][f[i - 1]]) /\ f[i] \in W[i]
        BY <2>1, <4>1 DEF GoesThrough
      <4>. QED  BY <2>2, <4>1, <4>2
    <3>. QED  BY <3>1, <3>2
  <2>6. g[0] = a
    BY <2>1, <2>2, <2>4 DEF GoesThrough
  <2>7. \A i \in 1..k : i \in 0..k /\ i # 0
    OBVIOUS
  <2>8. (\A i \in 1..k : g[i] = step[i][g[i - 1]]) /\ \A i \in 0..k : g[i] \in W[i]
    BY <2>5, <2>7
  <2>9. GoesThrough(g, k, W, a, step)
    BY <2>3, <2>6, <2>8, Zenon DEF GoesThrough
  <2>. QED  BY <2>9
<1>3. n \in S
  <2>. HIDE DEF S
  <2>. QED  BY <1>1, <1>2, Stepwise
<1>. QED  BY <1>3

------------------------------------------------------------------------------
(* Controlling                                                             *)

\* Controlling some mappings in their order leads from one of the sets W to
\* the next, if controlling each of them does.
LEMMA ControlAllLeads ==
    ASSUME NEW d, NEW ms, NEW refreshed, NEW v, NEW W, NEW w \in W[0],
           \A m \in Mappings : \A x \in W[m - 1] :
              IF m \in ms THEN ControlInternal(d, m, v, m \in refreshed, x) \in W[m] ELSE x \in W[m]
    PROVE  ControlAll(d, ms, refreshed, v, w) \in W[MappingCount]
<1>. DEFINE n == MappingCount
            Step(f, m) == IF m = 0 THEN w
                          ELSE IF m \in ms THEN ControlInternal(d, m, v, m \in refreshed, f[m - 1])
                          ELSE f[m - 1]
            Defines(f) == f = [m \in 0..n |-> Step(f, m)]
            after == CHOOSE f : Defines(f)
<1>0. n \in Nat /\ Mappings = 1..n
  BY MappingsAssumption DEF Mappings
<1>1. PICK step : step = [m \in 1..n |-> [x \in W[m - 1] |->
            IF m \in ms THEN ControlInternal(d, m, v, m \in refreshed, x) ELSE x]]
  OBVIOUS
<1>. HIDE DEF n
<1>2. \A k \in 1..n : \A x \in W[k - 1] :
        /\ step[k][x] = IF k \in ms THEN ControlInternal(d, k, v, k \in refreshed, x) ELSE x
        /\ step[k][x] \in W[k]
  BY <1>0, <1>1
<1>3. PICK f : GoesThrough(f, n, W, w, step)
  <2>1. StepsLead(n, W, step)
    BY <1>2 DEF StepsLead
  <2>. QED  BY <1>0, <2>1, Recursion
<1>4. Defines(f)
  <2>1. ASSUME NEW k \in 0..n PROVE f[k] = Step(f, k)
    <3>1. CASE k = 0
      BY <1>3, <3>1 DEF GoesThrough
    <3>2. CASE k # 0
      <4>1. k \in 1..n /\ k - 1 \in 0..n
        BY <1>0, <3>2
      <4>2. f[k - 1] \in W[k - 1] /\ f[k] = step[k][f[k - 1]]
        BY <1>3, <4>1, <3>2 DEF GoesThrough
      <4>. QED  BY <1>2, <4>1, <4>2, <3>2
    <3>. QED  BY <3>1, <3>2
  <2>2. f = [k \in 0..n |-> f[k]]
    BY <1>3 DEF GoesThrough
  <2>. HIDE DEF Step
  <2>. QED  BY <2>1, <2>2
<1>5. Defines(after)
  <2>. HIDE DEF Defines
  <2>. QED  BY <1>4
<1>6. ControlAll(d, ms, refreshed, v, w) = after[n]
  BY DEF ControlAll, n
<1>. HIDE DEF after
<1>7. PICK S : S = {k \in 0..n : after[k] \in W[k]}
  OBVIOUS
<1>8. 0 \in S
  BY <1>0, <1>5, <1>7
<1>9. ASSUME NEW k \in 1..n, k - 1 \in S PROVE k \in S
  <2>1. after[k - 1] \in W[k - 1] /\ k \in 0..n /\ k # 0
    BY <1>0, <1>7, <1>9
  <2>2. after[k] = Step(after, k)
    <3>. HIDE DEF Step
    <3>. QED  BY <1>5, <2>1
  <2>3. after[k] = IF k \in ms THEN ControlInternal(d, k, v, k \in refreshed, after[k - 1]) ELSE after[k - 1]
    BY <2>1, <2>2
  <2>. QED  BY <1>0, <1>7, <2>1, <2>3
<1>10. n \in S
  BY <1>0, <1>8, <1>9, Stepwise
<1>. QED  BY <1>6, <1>7, <1>10 DEF n

LEMMA InteractAllLeads ==
    ASSUME NEW d, NEW on, NEW ms, NEW v, NEW W, NEW w \in W[0],
           \A m \in Mappings : \A x \in W[m - 1] :
              IF m \in ms THEN ProcessGroupInteraction(d, on, m, v, x) \in W[m] ELSE x \in W[m]
    PROVE  InteractAll(d, on, ms, v, w) \in W[MappingCount]
<1>. DEFINE n == MappingCount
            Step(f, m) == IF m = 0 THEN w
                          ELSE IF m \in ms THEN ProcessGroupInteraction(d, on, m, v, f[m - 1])
                          ELSE f[m - 1]
            Defines(f) == f = [m \in 0..n |-> Step(f, m)]
            after == CHOOSE f : Defines(f)
<1>0. n \in Nat /\ Mappings = 1..n
  BY MappingsAssumption DEF Mappings
<1>1. PICK step : step = [m \in 1..n |-> [x \in W[m - 1] |->
            IF m \in ms THEN ProcessGroupInteraction(d, on, m, v, x) ELSE x]]
  OBVIOUS
<1>. HIDE DEF n
<1>2. \A k \in 1..n : \A x \in W[k - 1] :
        /\ step[k][x] = IF k \in ms THEN ProcessGroupInteraction(d, on, k, v, x) ELSE x
        /\ step[k][x] \in W[k]
  BY <1>0, <1>1
<1>3. PICK f : GoesThrough(f, n, W, w, step)
  <2>1. StepsLead(n, W, step)
    BY <1>2 DEF StepsLead
  <2>. QED  BY <1>0, <2>1, Recursion
<1>4. Defines(f)
  <2>1. ASSUME NEW k \in 0..n PROVE f[k] = Step(f, k)
    <3>1. CASE k = 0
      BY <1>3, <3>1 DEF GoesThrough
    <3>2. CASE k # 0
      <4>1. k \in 1..n /\ k - 1 \in 0..n
        BY <1>0, <3>2
      <4>2. f[k - 1] \in W[k - 1] /\ f[k] = step[k][f[k - 1]]
        BY <1>3, <4>1, <3>2 DEF GoesThrough
      <4>. QED  BY <1>2, <4>1, <4>2, <3>2
    <3>. QED  BY <3>1, <3>2
  <2>2. f = [k \in 0..n |-> f[k]]
    BY <1>3 DEF GoesThrough
  <2>. HIDE DEF Step
  <2>. QED  BY <2>1, <2>2
<1>5. Defines(after)
  <2>. HIDE DEF Defines
  <2>. QED  BY <1>4
<1>6. InteractAll(d, on, ms, v, w) = after[n]
  BY DEF InteractAll, n
<1>. HIDE DEF after
<1>7. PICK S : S = {k \in 0..n : after[k] \in W[k]}
  OBVIOUS
<1>8. 0 \in S
  BY <1>0, <1>5, <1>7
<1>9. ASSUME NEW k \in 1..n, k - 1 \in S PROVE k \in S
  <2>1. after[k - 1] \in W[k - 1] /\ k \in 0..n /\ k # 0
    BY <1>0, <1>7, <1>9
  <2>2. after[k] = Step(after, k)
    <3>. HIDE DEF Step
    <3>. QED  BY <1>5, <2>1
  <2>3. after[k] = IF k \in ms THEN ProcessGroupInteraction(d, on, k, v, after[k - 1]) ELSE after[k - 1]
    BY <2>1, <2>2
  <2>. QED  BY <1>0, <1>7, <2>1, <2>3
<1>10. n \in S
  BY <1>0, <1>8, <1>9, Stepwise
<1>. QED  BY <1>6, <1>7, <1>10 DEF n

------------------------------------------------------------------------------
(* What controlling does to the world                                      *)

ChangeEvent ==
    [kind: {"TrackSelected"}, track: Tracks \cup {NoTrack}]
    \cup [kind: {"Switched"}, id: Switches, value: {0, 1}]

HitRecord == [mapping: Mappings, value: {0, 1}, met: BOOLEAN]

Worlds ==
    [selected: Tracks \cup {NoTrack}, switches: [Switches -> {0, 1}],
     events: Seq(ChangeEvent), reached: SUBSET Mappings, hits: Seq(HitRecord)]

\* Mappings which can be controlled.
PresentIn(d) == {m \in Mappings : d[m] # None}

LEMMA SelectedTypes ==
    ASSUME NEW w \in Worlds, NEW track \in Tracks \cup {NoTrack}
    PROVE  /\ Selected(w, track) \in Worlds
           /\ Selected(w, track).selected = track
           /\ Selected(w, track).switches = w.switches
           /\ Selected(w, track).hits = w.hits /\ Selected(w, track).reached = w.reached
<1>1. CASE track = w.selected
  BY <1>1 DEF Selected, Worlds
<1>2. CASE track # w.selected
  <2>1. PICK events : events = Append(w.events, SelectionEvent(track))
    OBVIOUS
  <2>2. SelectionEvent(track) \in ChangeEvent
    BY DEF SelectionEvent, ChangeEvent
  <2>3. events \in Seq(ChangeEvent)
    <3>1. w.events \in Seq(ChangeEvent)
      BY DEF Worlds
    <3>. HIDE DEF ChangeEvent
    <3>. QED  BY <2>1, <2>2, <3>1
  <2>4. Selected(w, track) = [w EXCEPT !.selected = track, !.events = events]
    BY <1>2, <2>1 DEF Selected, Worlds
  <2>. QED  BY <2>3, <2>4 DEF Worlds
<1>. QED  BY <1>1, <1>2

LEMMA SwitchedTypes ==
    ASSUME NEW w \in Worlds, NEW id \in Switches, NEW v \in {0, 1}
    PROVE  /\ Switched(w, id, v) \in Worlds
           /\ Switched(w, id, v).selected = w.selected
           /\ Switched(w, id, v).switches[id] = v
           /\ \A j \in Switches \ {id} : Switched(w, id, v).switches[j] = w.switches[j]
           /\ Switched(w, id, v).hits = w.hits /\ Switched(w, id, v).reached = w.reached
<1>1. CASE w.switches[id] = v
  BY <1>1 DEF Switched
<1>2. CASE w.switches[id] # v
  <2>1. PICK events : events = Append(w.events, SwitchEvent(id, v))
    OBVIOUS
  <2>2. SwitchEvent(id, v) \in ChangeEvent
    BY DEF SwitchEvent, ChangeEvent
  <2>3. events \in Seq(ChangeEvent)
    <3>1. w.events \in Seq(ChangeEvent)
      BY DEF Worlds
    <3>. QED  BY <2>1, <2>2, <3>1
  <2>4. PICK switches : switches = [w.switches EXCEPT ![id] = v]
    OBVIOUS
  <2>5. switches \in [Switches -> {0, 1}]
    BY <2>4 DEF Worlds
  <2>6. Switched(w, id, v) = [w EXCEPT !.switches = switches, !.events = events]
    BY <1>2, <2>1, <2>4 DEF Switched, Worlds
  <2>. QED  BY ZenonT(40), <2>3, <2>4, <2>5, <2>6 DEF Worlds
<1>. QED  BY <1>1, <1>2

\* What a target is.
LEMMA TargetKinds ==
    ASSUME NEW t \in Targets
    PROVE  \/ t.kind = "SelectTrack" /\ t.track \in Tracks
           \/ t.kind = "Switch" /\ t.id \in Switches /\ t.track \in Tracks \cup {NoTrack}
BY DEF Targets, SelectTrack, Switch

\* Hitting a target makes its value the one it is hit with.
LEMMA HitTypes ==
    ASSUME NEW t \in Targets, NEW v \in {0, 1}, NEW w \in Worlds
    PROVE  /\ Hit(t, v, w) \in Worlds
           /\ CurrentValue(t, Hit(t, v, w)) = v
           /\ Hit(t, v, w).hits = w.hits /\ Hit(t, v, w).reached = w.reached
<1>0. NoTrack \in Tracks \cup {NoTrack}
  OBVIOUS
<1>1. CASE t.kind = "Switch" /\ t.id \in Switches
  <2>1. PICK id \in Switches : id = t.id
    BY <1>1
  <2>2. Hit(t, v, w) = Switched(w, id, v)
    BY <1>1, <2>1 DEF Hit
  <2>3. /\ Hit(t, v, w) \in Worlds /\ Hit(t, v, w).switches[id] = v
        /\ Hit(t, v, w).hits = w.hits /\ Hit(t, v, w).reached = w.reached
    BY <2>2, SwitchedTypes
  <2>. QED  BY <1>1, <2>1, <2>3 DEF CurrentValue
<1>2. CASE t.kind = "SelectTrack" /\ t.track \in Tracks
  <2>1. CASE v = 1
    <3>1. Hit(t, v, w) = Selected(w, t.track)
      BY <1>2, <2>1 DEF Hit
    <3>. QED  BY <1>2, <2>1, <3>1, SelectedTypes DEF CurrentValue
  <2>2. CASE v = 0 /\ w.selected = t.track
    <3>1. Hit(t, v, w) = Selected(w, NoTrack)
      BY <1>2, <2>2 DEF Hit
    <3>2. NoTrack # t.track
      BY <1>2, TracksAssumption
    <3>. QED  BY <1>0, <1>2, <2>2, <3>1, <3>2, SelectedTypes DEF CurrentValue
  <2>3. CASE v = 0 /\ w.selected # t.track
    BY <1>2, <2>3 DEF Hit, CurrentValue
  <2>. QED  BY <2>1, <2>2, <2>3
<1>. QED  BY <1>1, <1>2, TargetKinds

\* Target t of mapping m was hit with a value; the hit is remembered.
IsHit(new, t, m, v, w) ==
    /\ new \in Worlds
    /\ CurrentValue(t, new) = v
    /\ new.selected = Hit(t, v, w).selected
    /\ new.switches = Hit(t, v, w).switches
    /\ new.events = Hit(t, v, w).events
    /\ new.reached = w.reached \cup {m}
    /\ \E h \in HitRecord : /\ h.mapping = m /\ h.value = v /\ h.met = ConditionsAreMet(t, w)
                           /\ new.hits = Append(w.hits, h)

\* Controlling a mapping either hits its target, which is remembered, or leaves
\* the world alone. The latter happens only if the conditions aren't met.
LEMMA ControlInternalTypes ==
    ASSUME NEW d, NEW m \in PresentIn(d), IsMappingData(d[m]), NEW v \in {0, 1},
           NEW refresh, NEW w \in Worlds
    PROVE  LET new == ControlInternal(d, m, v, refresh, w)
               t == d[m].target
           IN  \/ refresh /\ ~ConditionsAreMet(t, w) /\ new = w
               \/ (refresh => ConditionsAreMet(t, w)) /\ IsHit(new, t, m, v, w)
<1>. DEFINE t == d[m].target
            new == ControlInternal(d, m, v, refresh, w)
<1>1. CASE refresh /\ ~ConditionsAreMet(t, w)
  BY <1>1 DEF ControlInternal
<1>2. CASE ~(refresh /\ ~ConditionsAreMet(t, w))
  <2>1. t \in Targets
    BY DEF IsMappingData, PresentIn
  <2>2. PICK hit : hit = Hit(t, v, w)
    OBVIOUS
  <2>3. PICK record : record = [mapping |-> m, value |-> v, met |-> ConditionsAreMet(t, w)]
    OBVIOUS
  <2>4. hit \in Worlds /\ CurrentValue(t, hit) = v /\ hit.hits = w.hits /\ hit.reached = w.reached
    BY <2>1, <2>2, HitTypes
  <2>5. new = [hit EXCEPT !.reached = @ \cup {m}, !.hits = Append(@, record)]
    BY <1>2, <2>2, <2>3 DEF ControlInternal
  <2>6. record \in HitRecord /\ m \in Mappings
    BY <2>3 DEF HitRecord, ConditionsAreMet, PresentIn
  <2>. HIDE DEF new, t
  <2>7. PICK hits : hits = Append(hit.hits, record)
    OBVIOUS
  <2>8. hits \in Seq(HitRecord)
    <3>1. hit.hits \in Seq(HitRecord)
      BY <2>4 DEF Worlds
    <3>. QED  BY <2>6, <2>7, <3>1
  <2>9. new = [hit EXCEPT !.reached = hit.reached \cup {m}, !.hits = hits]
    BY <2>4, <2>5, <2>7 DEF Worlds
  <2>10. /\ new \in Worlds /\ new.selected = hit.selected /\ new.switches = hit.switches
         /\ new.events = hit.events /\ new.reached = hit.reached \cup {m} /\ new.hits = hits
    BY <2>4, <2>6, <2>8, <2>9 DEF Worlds
  <2>11. CurrentValue(t, new) = CurrentValue(t, hit)
    BY <2>10 DEF CurrentValue
  <2>12. record.mapping = m /\ record.value = v /\ record.met = ConditionsAreMet(t, w)
    BY <2>3
  <2>13. IsHit(new, t, m, v, w)
    BY <2>2, <2>4, <2>6, <2>7, <2>10, <2>11, <2>12 DEF IsHit
  <2>. QED  BY <1>2, <2>13 DEF t, new
<1>. QED  BY <1>1, <1>2

\* Whatever is on, controlling leads from worlds to worlds.
LEMMA ControlAllTypes ==
    ASSUME NEW d, IsLayout(d), NEW ms, ms \subseteq PresentIn(d), NEW refreshed,
           NEW v \in {0, 1}, NEW w \in Worlds
    PROVE  ControlAll(d, ms, refreshed, v, w) \in Worlds
<1>1. PICK W : W = [i \in 0..MappingCount |-> Worlds]
  OBVIOUS
<1>2. /\ \A m \in Mappings : W[m] = Worlds /\ W[m - 1] = Worlds
      /\ W[0] = Worlds /\ W[MappingCount] = Worlds
  BY <1>1, MappingsAssumption DEF Mappings
<1>3. ASSUME NEW m \in Mappings, NEW x \in W[m - 1]
      PROVE  IF m \in ms THEN ControlInternal(d, m, v, m \in refreshed, x) \in W[m] ELSE x \in W[m]
  <2>1. x \in Worlds
    BY <1>2
  <2>2. CASE m \in ms
    <3>1. m \in PresentIn(d) /\ IsMappingData(d[m])
      BY <2>2 DEF IsLayout
    <3>2. ControlInternal(d, m, v, m \in refreshed, x) \in Worlds
      BY <2>1, <3>1, ControlInternalTypes DEF IsHit
    <3>. QED  BY <1>2, <2>2, <3>2
  <2>. QED  BY <1>2, <2>1, <2>2
<1>4. ControlAll(d, ms, refreshed, v, w) \in W[MappingCount]
  BY <1>2, <1>3, ControlAllLeads
<1>. QED  BY <1>2, <1>4

\* The value of a target is zero or one.
LEMMA CurrentValueTypes ==
    ASSUME NEW t \in Targets, NEW w \in Worlds
    PROVE  CurrentValue(t, w) \in {0, 1}
BY TargetKinds DEF CurrentValue, Worlds

\* Group interaction does nothing or controls other mappings of the group, each
\* of which is resolved again.
LEMMA InteractionControls ==
    ASSUME NEW d, IsLayout(d), NEW on, on \subseteq PresentIn(d), NEW m \in on,
           NEW v \in {0, 1}, NEW w \in Worlds
    PROVE  LET new == ProcessGroupInteraction(d, on, m, v, w)
           IN  \/ new = w
               \/ \E others \in SUBSET PresentIn(d) : \E y \in {0, 1} :
                     new = ControlAll(d, others, others, y, w)
<1>. DEFINE new == ProcessGroupInteraction(d, on, m, v, w)
            others == {o \in on \ {m} : d[o].group = d[m].group}
            current == CurrentValue(d[m].target, w)
<1>1. current \in {0, 1}
  <2>1. d[m].target \in Targets
    BY DEF IsLayout, IsMappingData, PresentIn
  <2>. QED  BY <2>1, CurrentValueTypes
<1>2. \A gi : \A y \in {0, 1} : ControlValueForOthers(gi, y) \in {0, 1}
  BY DEF ControlValueForOthers, Opposite
<1>3. \A y : ProcessOtherMappings(d, on, m, y, w) = ControlAll(d, others, others, y, w)
  BY DEF ProcessOtherMappings
<1>. HIDE DEF current
<1>4. \/ new = w
      \/ new = ProcessOtherMappings(d, on, m, ControlValueForOthers(d[m].interaction, v), w)
      \/ new = ProcessOtherMappings(d, on, m, ControlValueForOthers(d[m].interaction, current), w)
  <2>1. CASE d[m].interaction = "None"
    BY <2>1 DEF ProcessGroupInteraction
  <2>2. CASE d[m].interaction \in {"SameControl", "InverseControl"}
    BY <2>2 DEF ProcessGroupInteraction
  <2>3. CASE d[m].interaction \notin {"None", "SameControl", "InverseControl"}
    BY <2>3 DEF ProcessGroupInteraction, current
  <2>. QED  BY <2>1, <2>2, <2>3
<1>5. others \in SUBSET PresentIn(d)
  OBVIOUS
<1>. HIDE DEF others, new
<1>. QED  BY <1>1, <1>2, <1>3, <1>4, <1>5 DEF new

LEMMA InteractionTypes ==
    ASSUME NEW d, IsLayout(d), NEW on, on \subseteq PresentIn(d), NEW m \in on,
           NEW v \in {0, 1}, NEW w \in Worlds
    PROVE  ProcessGroupInteraction(d, on, m, v, w) \in Worlds
<1>1. \A others \in SUBSET PresentIn(d) : \A y \in {0, 1} :
        ControlAll(d, others, others, y, w) \in Worlds
  BY ControlAllTypes
<1>. QED  BY SMTT(30), <1>1, InteractionControls

LEMMA InteractAllTypes ==
    ASSUME NEW d, IsLayout(d), NEW on, on \subseteq PresentIn(d), NEW ms, ms \subseteq on,
           NEW v \in {0, 1}, NEW w \in Worlds
    PROVE  InteractAll(d, on, ms, v, w) \in Worlds
<1>1. PICK W : W = [i \in 0..MappingCount |-> Worlds]
  OBVIOUS
<1>2. /\ \A m \in Mappings : W[m] = Worlds /\ W[m - 1] = Worlds
      /\ W[0] = Worlds /\ W[MappingCount] = Worlds
  BY <1>1, MappingsAssumption DEF Mappings
<1>3. ASSUME NEW m \in Mappings, NEW x \in W[m - 1]
      PROVE  IF m \in ms THEN ProcessGroupInteraction(d, on, m, v, x) \in W[m] ELSE x \in W[m]
  BY <1>2, InteractionTypes
<1>4. InteractAll(d, on, ms, v, w) \in W[MappingCount]
  BY <1>2, <1>3, InteractAllLeads
<1>. QED  BY <1>2, <1>4

LEMMA BeginTransactionTypes ==
    ASSUME NEW w \in Worlds
    PROVE  LET new == BeginTransaction(w)
           IN  /\ new \in Worlds /\ new.hits = <<>> /\ new.reached = {}
               /\ new.selected = w.selected /\ new.switches = w.switches /\ new.events = w.events
<1>1. <<>> \in Seq(HitRecord) /\ {} \in SUBSET Mappings
  OBVIOUS
<1>. QED  BY <1>1 DEF BeginTransaction, Worlds

LEMMA ProcessMessageTypes ==
    ASSUME NEW d, IsLayout(d), NEW on, on \subseteq PresentIn(d), NEW source,
           NEW v \in {0, 1}, NEW w \in Worlds
    PROVE  ProcessMessage(d, on, source, v, w) \in Worlds
<1>. DEFINE matches == {m \in on : d[m].source = source}
            later == {m \in matches : \E k \in matches : k < m}
<1>1. ControlAll(d, matches, later, v, BeginTransaction(w)) \in Worlds
  BY ControlAllTypes, BeginTransactionTypes
<1>2. matches \subseteq on
  OBVIOUS
<1>. HIDE DEF matches, later
<1>3. InteractAll(d, on, matches, v, ControlAll(d, matches, later, v, BeginTransaction(w))) \in Worlds
  BY <1>1, <1>2, InteractAllTypes
<1>. QED  BY <1>3 DEF ProcessMessage, matches, later

LEMMA PollControlTypes ==
    ASSUME NEW d, IsLayout(d), NEW on, on \subseteq PresentIn(d), NEW m \in on, NEW w \in Worlds
    PROVE  PollControl(d, on, m, w) \in Worlds
<1>1. PICK begun : begun = BeginTransaction(w)
  OBVIOUS
<1>2. m \in PresentIn(d) /\ IsMappingData(d[m]) /\ begun \in Worlds
  BY <1>1, BeginTransactionTypes DEF PresentIn, IsLayout
<1>3. ControlInternal(d, m, 1, FALSE, begun) \in Worlds
  BY ZenonT(40), <1>2, ControlInternalTypes DEF IsHit
<1>. QED  BY <1>1, <1>3, InteractionTypes DEF PollControl

------------------------------------------------------------------------------
(* Words: deferred values of lead mappings                                 *)

Word == [type: {"MappingTargetValueChanged"}, lead: Mappings, value: {0, 1}]

\* Chaining sequences leads from one of the sets W to the next, if appending
\* each of them does.
LEMMA FlattenLeads ==
    ASSUME NEW S, NEW n \in Nat, NEW seqs, seqs = [i \in 1..n |-> seqs[i]],
           \A i \in 1..n : seqs[i] \in Seq(S),
           NEW W, <<>> \in W[0], \A i \in 1..n : \A x \in W[i - 1] : x \o seqs[i] \in W[i]
    PROVE  FlattenSeq(seqs) \in W[n]
<1>1. Len(seqs) = n
  OBVIOUS
<1>2. CASE n = 0
  <2>1. FlattenSeq(seqs) = seqs
    BY <1>1, <1>2 DEF FlattenSeq
  <2>2. seqs = <<>>
    BY <1>2
  <2>. QED  BY <1>2, <2>1, <2>2
<1>3. CASE n # 0
  <2>. DEFINE Step(f, i) == IF i = 1 THEN seqs[i] ELSE f[i - 1] \o seqs[i]
              Defines(f) == f = [i \in 1..n |-> Step(f, i)]
              flat == CHOOSE f : Defines(f)
  <2>1. FlattenSeq(seqs) = flat[n]
    BY <1>1, <1>3 DEF FlattenSeq
  <2>2. PICK step : step = [k \in 1..n |-> [x \in W[k - 1] |-> x \o seqs[k]]]
    OBVIOUS
  <2>3. \A k \in 1..n : \A x \in W[k - 1] : step[k][x] = x \o seqs[k] /\ step[k][x] \in W[k]
    BY <2>2
  <2>. HIDE DEF flat
  <2>4. PICK f : GoesThrough(f, n, W, <<>>, step)
    <3>1. StepsLead(n, W, step)
      BY <2>3 DEF StepsLead
    <3>. QED  BY <3>1, Recursion
  <2>5. \A k \in 1..n : f[k] = f[k - 1] \o seqs[k]
    <3>. SUFFICES ASSUME NEW k \in 1..n PROVE f[k] = f[k - 1] \o seqs[k]
      OBVIOUS
    <3>1. k - 1 \in 0..n
      OBVIOUS
    <3>2. f[k] = step[k][f[k - 1]] /\ f[k - 1] \in W[k - 1]
      BY <2>4, <3>1 DEF GoesThrough
    <3>. QED  BY <2>3, <3>2
  <2>6. PICK g : g = [k \in 1..n |-> f[k]]
    OBVIOUS
  <2>7. Defines(g)
    <3>1. ASSUME NEW i \in 1..n PROVE g[i] = Step(g, i)
      <4>1. CASE i = 1
        <5>1. f[0] = <<>>
          BY <2>4 DEF GoesThrough
        <5>2. i - 1 = 0
          BY <4>1
        <5>3. f[i] = f[i - 1] \o seqs[i] /\ seqs[i] \in Seq(S)
          BY <2>5, Zenon
        <5>4. f[i] = <<>> \o seqs[i]
          BY <5>1, <5>2, <5>3, Zenon
        <5>5. <<>> \o seqs[i] = seqs[i]
          BY <5>3
        <5>. QED  BY <2>6, <4>1, <5>4, <5>5
      <4>2. CASE i # 1
        <5>1. i - 1 \in 1..n
          BY <4>2
        <5>. QED  BY <2>5, <2>6, <4>2, <5>1
      <4>. QED  BY <4>1, <4>2
    <3>. HIDE DEF Step
    <3>. QED  BY <2>6, <3>1
  <2>8. Defines(flat)
    <3>. HIDE DEF Defines
    <3>. QED  BY <2>7 DEF flat
  <2>9. PICK T : T = {k \in 0..n : k = 0 \/ flat[k] = f[k]}
    OBVIOUS
  <2>10. ASSUME NEW k \in 1..n, k - 1 \in T PROVE k \in T
    <3>1. flat[k] = Step(flat, k)
      <4>. HIDE DEF Step
      <4>. QED  BY <2>8
    <3>2. g[k] = Step(g, k) /\ g[k] = f[k]
      <4>. HIDE DEF Step
      <4>. QED  BY <2>6, <2>7
    <3>3. CASE k = 1
      BY <2>9, <3>1, <3>2, <3>3
    <3>4. CASE k # 1
      <4>1. k - 1 \in 1..n /\ flat[k - 1] = f[k - 1] /\ g[k - 1] = f[k - 1]
        BY <2>6, <2>9, <2>10, <3>4
      <4>2. flat[k] = flat[k - 1] \o seqs[k]
        BY <3>1, <3>4
      <4>3. f[k] = flat[k - 1] \o seqs[k]
        BY <2>5, <4>1
      <4>4. flat[k] = f[k] /\ k \in 0..n
        <5>1. flat[k] = f[k]
          BY <4>2, <4>3, Zenon
        <5>. QED  BY <5>1
      <4>. QED  BY <2>9, <4>4
    <3>. QED  BY <3>3, <3>4
  <2>11. n \in T
    <3>1. 0 \in T
      BY <2>9
    <3>. QED  BY <2>10, <3>1, Stepwise
  <2>12. f[n] \in W[n]
    BY <2>4 DEF GoesThrough
  <2>. QED  BY <1>3, <2>1, <2>9, <2>11, <2>12
<1>. QED  BY <1>2, <1>3

LEMMA FlattenTypes ==
    ASSUME NEW S, NEW n \in Nat, NEW seqs, seqs = [i \in 1..n |-> seqs[i]],
           \A i \in 1..n : seqs[i] \in Seq(S)
    PROVE  FlattenSeq(seqs) \in Seq(S)
<1>1. PICK W : W = [i \in 0..n |-> Seq(S)]
  OBVIOUS
<1>2. <<>> \in W[0] /\ W[n] = Seq(S) /\ \A i \in 1..n : \A x \in W[i - 1] : x \o seqs[i] \in W[i]
  BY <1>1
<1>. QED  BY <1>2, FlattenLeads

\* The tasks of an event are words.
LEMMA LeadTasksAreWords ==
    ASSUME IsLayout(data), NEW e \in ChangeEvent
    PROVE  LeadTasks(e) \in Seq(Word)
<1>. DEFINE leads == {m \in Present : IsLeadMapping(data, m) /\ IsAbout(e, data[m].target)}
            task(m) == ValueChanged(m, ValueInEvent(e, data[m].target))
<1>1. PICK seqs : seqs = [m \in Mappings |-> IF m \in leads THEN <<task(m)>> ELSE <<>>]
  OBVIOUS
<1>2. LeadTasks(e) = FlattenSeq(seqs)
  BY <1>1 DEF LeadTasks
<1>3. ASSUME NEW m \in leads PROVE task(m) \in Word
  <2>1. ValueInEvent(e, data[m].target) \in {0, 1}
    BY DEF ValueInEvent, ChangeEvent
  <2>. QED  BY <2>1 DEF ValueChanged, Word, Present
<1>. HIDE DEF leads, task
<1>4. MappingCount \in Nat /\ seqs = [i \in 1..MappingCount |-> seqs[i]]
  BY <1>1, MappingsAssumption DEF Mappings
<1>5. \A i \in 1..MappingCount : seqs[i] \in Seq(Word)
  BY <1>1, <1>3 DEF Mappings
<1>. QED  BY <1>2, <1>4, <1>5, FlattenTypes

\* What process_events sends to the main processor.
Deferred == FlattenSeq([i \in DOMAIN world.events |-> LeadTasks(world.events[i])])

LEMMA DeferredAreWords ==
    ASSUME IsLayout(data), world \in Worlds
    PROVE  Deferred \in Seq(Word)
<1>1. PICK seqs : seqs = [i \in DOMAIN world.events |-> LeadTasks(world.events[i])]
  OBVIOUS
<1>2. PICK n \in Nat : n = Len(world.events) /\ DOMAIN world.events = 1..n
  BY DEF Worlds
<1>3. \A i \in 1..n : world.events[i] \in ChangeEvent
  BY <1>2 DEF Worlds
<1>4. seqs = [i \in 1..n |-> seqs[i]] /\ \A i \in 1..n : seqs[i] \in Seq(Word)
  BY <1>1, <1>2, <1>3, LeadTasksAreWords
<1>. QED  BY <1>1, <1>4, FlattenTypes DEF Deferred

------------------------------------------------------------------------------
(* Types                                                                   *)

LoopTypes == phase \in Phases /\ budget \in Nat /\ conditionsChanged \in BOOLEAN

TypeInv ==
    /\ ActivationInv
    /\ Len(paramTasks) =< ParamCapacity /\ unsent \subseteq Params
    /\ targetActive \in [Mappings -> BOOLEAN]
    /\ world \in Worlds
    /\ feedback \in Seq(Word)
    /\ LoopTypes

LEMMA InitTypes == Init => TypeInv
<1>. SUFFICES ASSUME Init PROVE TypeInv
  OBVIOUS
<1>1. world \in Worlds
  <2>1. <<>> \in Seq(ChangeEvent) /\ <<>> \in Seq(HitRecord) /\ {} \in SUBSET Mappings
    OBVIOUS
  <2>2. [id \in Switches |-> 0] \in [Switches -> {0, 1}]
    OBVIOUS
  <2>. QED  BY <2>1, <2>2 DEF Init, Worlds
<1>2. paramTasks = <<>> /\ unsent = {} /\ feedback = <<>> /\ targetActive \in [Mappings -> BOOLEAN]
  BY DEF Init
<1>3. LoopTypes
  BY BoundsAssumption DEF Init, LoopTypes, Phases
<1>. QED  BY <1>1, <1>2, <1>3, InitActivation, BoundsAssumption DEF TypeInv

LEMMA EnteringKeepsTypes ==
    ASSUME NEW p \in Phases, EnterPhase(p)
    PROVE  LoopTypes'
BY BoundsAssumption DEF EnterPhase, LoopTypes

LEMMA TakingKeepsTypes ==
    ASSUME NEW channel, NEW p, Take(channel, p), LoopTypes, conditionsChanged' \in BOOLEAN
    PROVE  LoopTypes'
BY DEF Take, LoopTypes

LEMMA ForgettingKeepsTypes ==
    ASSUME world \in Worlds, Forget
    PROVE  world' \in Worlds
BY BeginTransactionTypes DEF Forget

\* The mappings that are on are there.
LEMMA OnIsPresent == On \subseteq PresentIn(data) /\ Present = PresentIn(data)
BY DEF On, Present, PresentIn

\* How each step changes the world.
LEMMA WorldTypes ==
    ASSUME TypeInv, [Next]_vars
    PROVE  world' \in Worlds
<1>0. world \in Worlds /\ IsLayout(data)
  BY DEF TypeInv, ActivationInv
<1>1. CASE \/ StartCycle \/ EndSession \/ EndParams \/ EndFeedback
           \/ UpdateAllMappings \/ UpdateSingleMapping \/ RememberChangedConditions
           \/ UpdateAllParams \/ MappingTargetValueChanged
  BY <1>0, <1>1, ForgettingKeepsTypes
     DEF StartCycle, EndSession, EndParams, EndFeedback, UpdateAllMappings, UpdateSingleMapping,
         RememberChangedConditions, UpdateAllParams, MappingTargetValueChanged, Take
<1>2. CASE ProcessChangeEvents
  <2>1. PICK begun \in Worlds : begun = BeginTransaction(world)
    BY <1>0, BeginTransactionTypes
  <2>2. world' = [begun EXCEPT !.events = <<>>]
    BY <1>2, <2>1 DEF ProcessChangeEvents
  <2>3. <<>> \in Seq(ChangeEvent)
    OBVIOUS
  <2>. QED  BY <2>2, <2>3 DEF Worlds
<1>3. CASE UpdateSingleParamValue
  <2>. DEFINE task == Head(paramTasks)
              after(m, i) ==
                AfterParamUpdate(flags[m][i], data[m].conditions[i],
                                 [params EXCEPT ![task.param] = task.value], task.param, params[task.param])
              updated == [m \in Mappings |->
                            IF data[m] = None THEN flags[m] ELSE [i \in 1..2 |-> after(m, i)]]
              on == {m \in Present : updated[m][1] /\ updated[m][2] /\ targetActive[m]}
              v == IF IsOn(task.value) THEN 1 ELSE 0
  <2>1. world' = ProcessMessage(data, on, ParamSource(task.param), v, world)
    BY <1>3 DEF UpdateSingleParamValue
  <2>2. v \in {0, 1} /\ on \subseteq PresentIn(data)
    BY OnIsPresent
  <2>. HIDE DEF v, on
  <2>. QED  BY <1>0, <2>1, <2>2, ProcessMessageTypes
<1>4. CASE RunControl
  <2>1. CASE Forget
    BY <1>0, <2>1, ForgettingKeepsTypes
  <2>2. CASE \E msg \in Messages : world' = ProcessMessage(data, On, msg[1], msg[2], world)
    BY <1>0, <2>2, OnIsPresent, MessagesAssumption, ProcessMessageTypes
  <2>. QED  BY <1>4, <2>1, <2>2 DEF RunControl
<1>5. CASE PollSources
  <2>1. CASE Forget
    BY <1>0, <2>1, ForgettingKeepsTypes
  <2>2. CASE \E m \in On : data[m].source = Timer /\ world' = PollControl(data, On, m, world)
    BY <1>0, <2>2, OnIsPresent, PollControlTypes
  <2>. QED  BY <1>5, <2>1, <2>2 DEF PollSources
<1>6. CASE TouchTarget
  <2>1. BeginTransaction(world) \in Worlds
    BY <1>0, BeginTransactionTypes
  <2>2. CASE \E track \in Tracks : world' = Selected(BeginTransaction(world), track)
    BY <2>1, <2>2, SelectedTypes
  <2>3. CASE \E id \in Switches, v \in {0, 1} : world' = Switched(BeginTransaction(world), id, v)
    BY <2>1, <2>3, SwitchedTypes
  <2>. QED  BY <1>6, <2>2, <2>3 DEF TouchTarget
<1>7. ASSUME UNCHANGED world PROVE world' \in Worlds
  BY <1>0, <1>7
<1>8. CASE Environment
  BY <1>6, <1>7, <1>8
     DEF Environment, SetSingleParameter, SetAllParameters, SubmitMappings, SubmitMapping, Submit
<1>9. CASE MainLoop
  BY <1>1, <1>2, <1>3, <1>4, <1>5, <1>9 DEF MainLoop
<1>. QED  BY <1>7, <1>8, <1>9 DEF Next, vars

LEMMA LoopKeepsTypes ==
    ASSUME TypeInv, [Next]_vars
    PROVE  LoopTypes'
<1>0. LoopTypes
  BY DEF TypeInv
<1>1. CASE \/ StartCycle \/ EndSession \/ EndParams \/ EndFeedback \/ RunControl \/ PollSources
  BY <1>1, EnteringKeepsTypes
     DEF StartCycle, EndSession, EndParams, EndFeedback, RunControl, PollSources, Phases
<1>2. CASE ProcessChangeEvents
  <2>1. \E p \in Phases : EnterPhase(p)
    BY <1>2 DEF ProcessChangeEvents, Phases
  <2>. QED  BY <2>1, EnteringKeepsTypes
<1>3. CASE \/ UpdateAllMappings \/ UpdateSingleMapping \/ RememberChangedConditions
           \/ UpdateAllParams \/ MappingTargetValueChanged
  <2>1. conditionsChanged' \in BOOLEAN /\ \E channel, p : Take(channel, p)
    BY <1>0, <1>3 DEF UpdateAllMappings, UpdateSingleMapping, RememberChangedConditions,
         UpdateAllParams, MappingTargetValueChanged, LoopTypes
  <2>. QED  BY <1>0, <2>1, TakingKeepsTypes
<1>4. CASE UpdateSingleParamValue
  <2>1. budget > 0 /\ budget' = budget - 1 /\ UNCHANGED <<phase, conditionsChanged>>
    BY <1>4 DEF UpdateSingleParamValue
  <2>. QED  BY <1>0, <2>1 DEF LoopTypes
<1>5. ASSUME UNCHANGED loopVars PROVE LoopTypes'
  BY <1>0, <1>5 DEF loopVars, LoopTypes
<1>6. CASE Environment
  BY <1>5, <1>6 DEF Environment, SetSingleParameter, SetAllParameters, SubmitMappings,
     SubmitMapping, Submit, TouchTarget
<1>7. CASE MainLoop
  BY <1>1, <1>2, <1>3, <1>4, <1>7 DEF MainLoop
<1>. QED  BY <1>5, <1>6, <1>7 DEF Next, vars

\* The channel of parameters stays within its capacity.
LEMMA CapacityKept ==
    ASSUME TypeInv, [Next]_vars
    PROVE  Len(paramTasks') =< ParamCapacity /\ unsent' \subseteq Params
<1>0. /\ Len(paramTasks) =< ParamCapacity /\ unsent \subseteq Params /\ ParamCapacity \in Nat
      /\ paramTasks \in Seq(ParamTask)
  BY BoundsAssumption DEF TypeInv, ActivationInv, ParamTypes
<1>1. ASSUME UNCHANGED <<paramTasks, unsent>>
      PROVE  Len(paramTasks') =< ParamCapacity /\ unsent' \subseteq Params
  BY <1>0, <1>1
<1>2. ASSUME NEW task \in ParamTask, NEW affected \in SUBSET Params, SendParamTask(task, affected)
      PROVE  Len(paramTasks') =< ParamCapacity /\ unsent' \subseteq Params
  <2>1. Len(Append(paramTasks, task)) = Len(paramTasks) + 1 /\ Len(paramTasks) \in Nat
    BY <1>0, AppendElements
  <2>. QED  BY <1>0, <1>2, <2>1 DEF SendParamTask
<1>3. CASE UpdateSingleParamValue \/ UpdateAllParams
  <2>1. paramTasks # <<>> /\ paramTasks' = Tail(paramTasks) /\ UNCHANGED unsent
    BY <1>3 DEF UpdateSingleParamValue, UpdateAllParams, Take
  <2>2. Len(Tail(paramTasks)) = Len(paramTasks) - 1 /\ Len(paramTasks) \in Nat
    BY <1>0, <2>1, TailElements
  <2>. QED  BY <1>0, <2>1, <2>2
<1>4. ASSUME NEW p \in Params, NEW v \in ParamValues, NEW rendering \in BOOLEAN,
             SetSingleParameter(p, v, rendering)
      PROVE  Len(paramTasks') =< ParamCapacity /\ unsent' \subseteq Params
  <2>1. Single(p, v) \in ParamTask
    BY DEF Single, ParamTask
  <2>. QED  BY <1>0, <1>2, <1>4, <2>1 DEF SetSingleParameter
<1>5. ASSUME NEW ps \in Presets, SetAllParameters(ps)
      PROVE  Len(paramTasks') =< ParamCapacity /\ unsent' \subseteq Params
  <2>1. AllParams(ps) \in ParamTask
    BY PresetsAssumption DEF AllParams, ParamTask
  <2>. QED  BY <1>2, <1>5, <2>1 DEF SetAllParameters
<1>6. CASE Environment
  BY <1>1, <1>4, <1>5, <1>6 DEF Environment, SubmitMappings, SubmitMapping, Submit, TouchTarget, paramVars
<1>7. CASE MainLoop
  BY <1>1, <1>3, <1>7 DEF MainLoop, StartCycle, ProcessChangeEvents, UpdateAllMappings,
     UpdateSingleMapping, RememberChangedConditions, EndSession, EndParams,
     MappingTargetValueChanged, EndFeedback, RunControl, PollSources, paramVars
<1>. QED  BY <1>1, <1>6, <1>7 DEF Next, vars, paramVars

LEMMA ChannelTypes ==
    ASSUME TypeInv, [Next]_vars
    PROVE  feedback' \in Seq(Word) /\ targetActive' \in [Mappings -> BOOLEAN]
<1>0. feedback \in Seq(Word) /\ targetActive \in [Mappings -> BOOLEAN] /\ IsLayout(data) /\ world \in Worlds
  BY DEF TypeInv, ActivationInv
<1>1. ASSUME UNCHANGED <<feedback, targetActive>>
      PROVE  feedback' \in Seq(Word) /\ targetActive' \in [Mappings -> BOOLEAN]
  BY <1>0, <1>1
<1>2. CASE ProcessChangeEvents
  <2>1. feedback' = feedback \o Deferred /\ UNCHANGED targetActive
    BY <1>2 DEF ProcessChangeEvents, Deferred, mappingVars
  <2>. QED  BY <1>0, <2>1, DeferredAreWords
<1>3. \A t, w : ConditionsAreMet(t, w) \in BOOLEAN
  BY DEF ConditionsAreMet
<1>4. CASE UpdateAllMappings
  BY <1>0, <1>3, <1>4 DEF UpdateAllMappings
<1>5. CASE UpdateSingleMapping
  BY <1>0, <1>3, <1>5 DEF UpdateSingleMapping
<1>6. CASE EndSession
  BY <1>0, <1>3, <1>6 DEF EndSession, TargetIsActive
<1>7. CASE MappingTargetValueChanged
  BY <1>0, <1>7, TailElements DEF MappingTargetValueChanged, Take
<1>8. CASE Environment
  BY <1>1, <1>8 DEF Environment, SetSingleParameter, SetAllParameters, SubmitMappings, SubmitMapping,
     Submit, TouchTarget, mappingVars
<1>9. CASE MainLoop
  BY <1>1, <1>2, <1>4, <1>5, <1>6, <1>7, <1>9 DEF MainLoop, StartCycle, RememberChangedConditions,
     UpdateSingleParamValue, UpdateAllParams, EndParams, EndFeedback, RunControl, PollSources, mappingVars
<1>. QED  BY <1>1, <1>8, <1>9 DEF Next, vars, mappingVars

LEMMA NextTypes == TypeInv /\ [Next]_vars => TypeInv'
<1>. SUFFICES ASSUME TypeInv, [Next]_vars PROVE TypeInv'
  OBVIOUS
<1>1. ActivationInv'
  BY NextActivation DEF TypeInv
<1>. QED  BY <1>1, WorldTypes, LoopKeepsTypes, CapacityKept, ChannelTypes DEF TypeInv

\* The channels hold the tasks they are made for, and parameters, flags and
\* targets exist for each parameter and mapping, whatever happens
\* (main_processor.rs, collections and channels).
THEOREM ActivationTypes == Spec => []TypeOK
<1>1. ASSUME TypeInv PROVE TypeOK
  <2>1. /\ canon \in [Params -> ParamValues] /\ params \in [Params -> ParamValues]
        /\ DOMAIN data = Mappings /\ flags \in [Mappings -> [1..2 -> BOOLEAN]]
    BY <1>1 DEF TypeInv, ActivationInv, ParamTypes, IsLayout, AreFlags
  <2>2. world.selected \in Tracks \cup {NoTrack} /\ world.switches \in [Switches -> {0, 1}]
    BY <1>1 DEF TypeInv, Worlds
  <2>3. \A i \in DOMAIN session :
            session[i].type \in {"NotifyConditionsChanged", "UpdateSingleMapping", "UpdateAllMappings"}
    BY <1>1 DEF TypeInv, ActivationInv, Submission, NotifyConditionsChanged
  <2>4. \A i \in DOMAIN feedback : feedback[i].lead \in Mappings /\ feedback[i].value \in {0, 1}
    <3>1. \A i \in DOMAIN feedback : feedback[i] \in Word
      BY <1>1 DEF TypeInv
    <3>2. \A word \in Word : word.lead \in Mappings /\ word.value \in {0, 1}
      BY DEF Word
    <3>. QED  BY <3>1, <3>2
  <2>. QED  BY <1>1, <2>1, <2>2, <2>3, <2>4 DEF TypeOK, TypeInv, LoopTypes
<1>. QED  BY <1>1, InitTypes, NextTypes, PTL DEF Spec

------------------------------------------------------------------------------
(* Hits                                                                    *)

\* Only the first hit may have met a target whose conditions aren't met.
StaleFirst(hits) == \A i \in DOMAIN hits : hits[i].met \/ i = 1

LEMMA AppendKeepsStaleFirst ==
    ASSUME NEW hits \in Seq(HitRecord), StaleFirst(hits), NEW h \in HitRecord, h.met \/ hits = <<>>
    PROVE  StaleFirst(Append(hits, h)) /\ Append(hits, h) # <<>>
<1>1. PICK new \in Seq(HitRecord) : new = Append(hits, h)
  BY AppendElements
<1>2. /\ DOMAIN new = 1..(Len(hits) + 1) /\ DOMAIN hits = 1..Len(hits) /\ Len(hits) \in Nat
      /\ \A i \in 1..Len(hits) : new[i] = hits[i]
      /\ new[Len(hits) + 1] = h
  BY <1>1, AppendElements
<1>3. ASSUME NEW i \in DOMAIN new PROVE new[i].met \/ i = 1
  <2>1. CASE i \in 1..Len(hits)
    BY <1>2, <2>1 DEF StaleFirst
  <2>2. CASE i \notin 1..Len(hits)
    <3>1. i = Len(hits) + 1
      BY <1>2, <2>2
    <3>2. hits = <<>> => Len(hits) = 0
      OBVIOUS
    <3>. QED  BY <1>2, <3>1, <3>2
  <2>. QED  BY <2>1, <2>2
<1>4. new # <<>>
  BY <1>2
<1>. QED  BY <1>1, <1>3, <1>4 DEF StaleFirst

\* Controlling a mapping hits it unless it is resolved again; it can't be stale
\* if it is resolved again, or it is the first one.
LEMMA ControlKeepsStaleFirst ==
    ASSUME NEW d, IsLayout(d), NEW m \in PresentIn(d), NEW v \in {0, 1}, NEW refresh,
           NEW w \in Worlds, StaleFirst(w.hits), refresh \/ w.hits = <<>>
    PROVE  LET new == ControlInternal(d, m, v, refresh, w)
           IN  new \in Worlds /\ StaleFirst(new.hits) /\ ((refresh /\ new = w) \/ new.hits # <<>>)
<1>. DEFINE new == ControlInternal(d, m, v, refresh, w)
            t == d[m].target
<1>0. IsMappingData(d[m])
  BY DEF IsLayout, PresentIn
<1>1. \/ refresh /\ new = w
      \/ (refresh => ConditionsAreMet(t, w)) /\ IsHit(new, t, m, v, w)
  BY <1>0, ControlInternalTypes
<1>2. w.hits \in Seq(HitRecord)
  BY DEF Worlds
<1>. HIDE DEF new
<1>. QED  BY <1>1, <1>2, AppendKeepsStaleFirst DEF IsHit, new

\* If all mappings are resolved again, no matter how many are hit.
LEMMA OthersKeepStaleFirst ==
    ASSUME NEW d, IsLayout(d), NEW ms, ms \subseteq PresentIn(d), NEW v \in {0, 1},
           NEW w \in Worlds, StaleFirst(w.hits)
    PROVE  LET new == ControlAll(d, ms, ms, v, w)
           IN  new \in Worlds /\ StaleFirst(new.hits)
<1>. DEFINE Good == {x \in Worlds : StaleFirst(x.hits)}
<1>1. PICK W : W = [i \in 0..MappingCount |-> Good]
  OBVIOUS
<1>2. /\ \A m \in Mappings : W[m] = Good /\ W[m - 1] = Good
      /\ W[0] = Good /\ W[MappingCount] = Good
  BY <1>1, MappingsAssumption DEF Mappings
<1>3. ASSUME NEW m \in Mappings, NEW x \in Good
      PROVE  IF m \in ms THEN ControlInternal(d, m, v, m \in ms, x) \in Good ELSE x \in Good
  <2>1. CASE m \in ms
    <3>1. ControlInternal(d, m, v, m \in ms, x) = ControlInternal(d, m, v, TRUE, x)
      BY <2>1 DEF ControlInternal
    <3>2. ControlInternal(d, m, v, TRUE, x) \in Good
      BY <2>1, ControlKeepsStaleFirst
    <3>. QED  BY <2>1, <3>1, <3>2
  <2>. QED  BY <2>1
<1>. HIDE DEF Good
<1>4. ControlAll(d, ms, ms, v, w) \in W[MappingCount]
  <2>1. w \in W[0]
    BY <1>2 DEF Good
  <2>. QED  BY <1>2, <1>3, <2>1, ControlAllLeads
<1>. QED  BY <1>2, <1>4 DEF Good

LEMMA InteractionKeepsStaleFirst ==
    ASSUME NEW d, IsLayout(d), NEW on, on \subseteq PresentIn(d), NEW m \in on,
           NEW v \in {0, 1}, NEW w \in Worlds, StaleFirst(w.hits)
    PROVE  LET new == ProcessGroupInteraction(d, on, m, v, w)
           IN  new \in Worlds /\ StaleFirst(new.hits)
<1>. DEFINE Good == {x \in Worlds : StaleFirst(x.hits)}
<1>1. \A others \in SUBSET PresentIn(d) : \A y \in {0, 1} : ControlAll(d, others, others, y, w) \in Good
  BY OthersKeepStaleFirst
<1>2. w \in Good
  OBVIOUS
<1>. HIDE DEF Good
<1>3. ProcessGroupInteraction(d, on, m, v, w) \in Good
  BY <1>1, <1>2, InteractionControls
<1>. QED  BY <1>3 DEF Good

LEMMA InteractAllKeepsStaleFirst ==
    ASSUME NEW d, IsLayout(d), NEW on, on \subseteq PresentIn(d), NEW ms, ms \subseteq on,
           NEW v \in {0, 1}, NEW w \in Worlds, StaleFirst(w.hits)
    PROVE  StaleFirst(InteractAll(d, on, ms, v, w).hits)
<1>. DEFINE Good == {x \in Worlds : StaleFirst(x.hits)}
<1>1. PICK W : W = [i \in 0..MappingCount |-> Good]
  OBVIOUS
<1>2. /\ \A m \in Mappings : W[m] = Good /\ W[m - 1] = Good
      /\ W[0] = Good /\ W[MappingCount] = Good
  BY <1>1, MappingsAssumption DEF Mappings
<1>3. ASSUME NEW m \in ms, NEW x \in Good PROVE ProcessGroupInteraction(d, on, m, v, x) \in Good
  BY InteractionKeepsStaleFirst
<1>. HIDE DEF Good
<1>4. InteractAll(d, on, ms, v, w) \in W[MappingCount]
  <2>1. w \in W[0]
    BY <1>2 DEF Good
  <2>. QED  BY <1>2, <1>3, <2>1, InteractAllLeads
<1>. QED  BY <1>2, <1>4 DEF Good

\* Of the mappings that match a message, only the first one isn't resolved again.
LEMMA MatchesKeepStaleFirst ==
    ASSUME NEW d, IsLayout(d), NEW ms, ms \subseteq PresentIn(d), NEW v \in {0, 1},
           NEW w \in Worlds, w.hits = <<>>
    PROVE  LET later == {m \in ms : \E k \in ms : k < m}
           IN  StaleFirst(ControlAll(d, ms, later, v, w).hits)
<1>. DEFINE later == {m \in ms : \E k \in ms : k < m}
            Good(i) == {x \in Worlds : StaleFirst(x.hits) /\ (x.hits = <<>> \/ \E k \in ms : k =< i)}
<1>1. PICK W : W = [i \in 0..MappingCount |-> Good(i)]
  OBVIOUS
<1>2. /\ \A m \in Mappings : W[m] = Good(m) /\ W[m - 1] = Good(m - 1) /\ m \in Nat
      /\ W[0] = Good(0) /\ W[MappingCount] = Good(MappingCount)
  BY <1>1, MappingsAssumption DEF Mappings
<1>3. ms \subseteq Nat
  BY MappingsAssumption DEF PresentIn, Mappings
<1>4. ASSUME NEW m \in Mappings, NEW x \in Good(m - 1)
      PROVE  IF m \in ms THEN ControlInternal(d, m, v, m \in later, x) \in Good(m) ELSE x \in Good(m)
  <2>1. CASE m \in ms
    <3>1. m \in later \/ x.hits = <<>>
      <4>1. CASE \E k \in ms : k =< m - 1
        <5>1. PICK k \in ms : k =< m - 1
          BY <4>1
        <5>2. k < m
          BY <1>2, <1>3, <5>1
        <5>. QED  BY <2>1, <5>2
      <4>2. CASE ~\E k \in ms : k =< m - 1
        BY <4>2
      <4>. QED  BY <4>1, <4>2
    <3>2. \E k \in ms : k =< m
      BY <1>2, <2>1
    <3>. HIDE DEF later
    <3>3. LET new == ControlInternal(d, m, v, m \in later, x) IN new \in Worlds /\ StaleFirst(new.hits)
      <4>1. m \in PresentIn(d) /\ x \in Worlds /\ StaleFirst(x.hits)
        BY <2>1
      <4>. QED  BY <3>1, <4>1, ControlKeepsStaleFirst, Zenon
    <3>. QED  BY <2>1, <3>2, <3>3
  <2>2. CASE m \notin ms
    <3>1. \A k \in ms : k =< m - 1 => k =< m
      BY <1>2, <1>3
    <3>. QED  BY <2>2, <3>1
  <2>. QED  BY <2>1, <2>2
<1>5. w \in Good(0)
  BY DEF StaleFirst
<1>. HIDE DEF Good, later
<1>6. ControlAll(d, ms, later, v, w) \in W[MappingCount]
  BY <1>2, <1>4, <1>5, ControlAllLeads
<1>. QED  BY <1>2, <1>6 DEF Good, later

LEMMA MessageKeepsStaleFirst ==
    ASSUME NEW d, IsLayout(d), NEW on, on \subseteq PresentIn(d), NEW source,
           NEW v \in {0, 1}, NEW w \in Worlds
    PROVE  StaleFirst(ProcessMessage(d, on, source, v, w).hits)
<1>. DEFINE matches == {m \in on : d[m].source = source}
            later == {m \in matches : \E k \in matches : k < m}
<1>1. PICK begun \in Worlds : begun = BeginTransaction(w) /\ begun.hits = <<>>
  BY BeginTransactionTypes
<1>2. PICK x : x = ControlAll(d, matches, later, v, begun)
  OBVIOUS
<1>3. matches \subseteq on /\ matches \subseteq PresentIn(d)
  OBVIOUS
<1>. HIDE DEF matches
<1>4. StaleFirst(x.hits) /\ x \in Worlds
  <2>1. StaleFirst(x.hits)
    BY <1>1, <1>2, <1>3, MatchesKeepStaleFirst
  <2>2. x \in Worlds
    <3>. HIDE DEF later
    <3>. QED  BY <1>1, <1>2, <1>3, ControlAllTypes
  <2>. QED  BY <2>1, <2>2
<1>5. ProcessMessage(d, on, source, v, w) = InteractAll(d, on, matches, v, x)
  BY <1>1, <1>2 DEF ProcessMessage, matches
<1>. QED  BY <1>3, <1>4, <1>5, InteractAllKeepsStaleFirst

LEMMA PollKeepsStaleFirst ==
    ASSUME NEW d, IsLayout(d), NEW on, on \subseteq PresentIn(d), NEW m \in on, NEW w \in Worlds
    PROVE  StaleFirst(PollControl(d, on, m, w).hits)
<1>1. PICK begun \in Worlds : begun = BeginTransaction(w) /\ begun.hits = <<>>
  BY BeginTransactionTypes
<1>2. PICK x : x = ControlInternal(d, m, 1, FALSE, begun)
  OBVIOUS
<1>3. x \in Worlds /\ StaleFirst(x.hits)
  <2>1. StaleFirst(begun.hits)
    BY <1>1 DEF StaleFirst
  <2>. QED  BY <1>1, <1>2, <2>1, ControlKeepsStaleFirst
<1>4. PollControl(d, on, m, w) = ProcessGroupInteraction(d, on, m, 0, x)
  BY <1>1, <1>2 DEF PollControl
<1>. QED  BY <1>3, <1>4, InteractionKeepsStaleFirst

\* What a step does to the world: nothing, it forgets the transaction, or it
\* controls mappings that are on afterwards as well.
LEMMA WorldSteps ==
    ASSUME TypeInv, [Next]_vars
    PROVE  \/ UNCHANGED <<world, data, flags, targetActive>>
           \/ world'.hits = <<>>
           \/ /\ UNCHANGED data
              /\ \/ \E source : \E v \in {0, 1} : world' = ProcessMessage(data, On', source, v, world)
                 \/ \E m \in On' : world' = PollControl(data, On', m, world)
<1>0. world \in Worlds
  BY DEF TypeInv
<1>1. PICK begun \in Worlds : begun = BeginTransaction(world) /\ begun.hits = <<>>
  BY <1>0, BeginTransactionTypes
<1>2. ASSUME Forget PROVE world'.hits = <<>>
  BY <1>1, <1>2 DEF Forget
<1>3. ASSUME UNCHANGED <<data, flags, targetActive>> PROVE On' = On
  BY <1>3 DEF On, Present, IsActive
<1>4. CASE \/ StartCycle \/ EndSession \/ EndParams \/ EndFeedback
           \/ UpdateAllMappings \/ UpdateSingleMapping \/ RememberChangedConditions
           \/ UpdateAllParams \/ MappingTargetValueChanged
  BY <1>2, <1>4
     DEF StartCycle, EndSession, EndParams, EndFeedback, UpdateAllMappings, UpdateSingleMapping,
         RememberChangedConditions, UpdateAllParams, MappingTargetValueChanged, Take
<1>5. CASE ProcessChangeEvents
  <2>1. world' = [begun EXCEPT !.events = <<>>]
    BY <1>1, <1>5 DEF ProcessChangeEvents
  <2>. QED  BY <1>1, <2>1 DEF Worlds
<1>6. CASE UpdateSingleParamValue
  <2>. DEFINE task == Head(paramTasks)
              after(m, i) ==
                AfterParamUpdate(flags[m][i], data[m].conditions[i],
                                 [params EXCEPT ![task.param] = task.value], task.param, params[task.param])
              updated == [m \in Mappings |->
                            IF data[m] = None THEN flags[m] ELSE [i \in 1..2 |-> after(m, i)]]
              on == {m \in Present : updated[m][1] /\ updated[m][2] /\ targetActive[m]}
              v == IF IsOn(task.value) THEN 1 ELSE 0
  <2>1. /\ world' = ProcessMessage(data, on, ParamSource(task.param), v, world)
        /\ flags' = updated /\ UNCHANGED <<data, targetActive>>
    BY <1>6 DEF UpdateSingleParamValue
  <2>2. v \in {0, 1}
    OBVIOUS
  <2>. HIDE DEF v, updated
  <2>3. On' = on
    BY <2>1 DEF On, Present, IsActive
  <2>. HIDE DEF on
  <2>. QED  BY <2>1, <2>2, <2>3
<1>7. CASE RunControl
  <2>1. UNCHANGED <<data, flags, targetActive>>
    BY <1>7 DEF RunControl, mappingVars
  <2>2. Forget \/ \E msg \in Messages : world' = ProcessMessage(data, On', msg[1], msg[2], world)
    BY <1>3, <1>7, <2>1 DEF RunControl
  <2>. QED  BY <1>2, <2>1, <2>2, MessagesAssumption
<1>8. CASE PollSources
  <2>1. UNCHANGED <<data, flags, targetActive>>
    BY <1>8 DEF PollSources, mappingVars
  <2>2. Forget \/ \E m \in On' : world' = PollControl(data, On', m, world)
    BY <1>3, <1>8, <2>1 DEF PollSources
  <2>. QED  BY <1>2, <2>1, <2>2
<1>9. CASE TouchTarget
  <2>1. CASE \E track \in Tracks : world' = Selected(begun, track)
    BY <1>1, <2>1, SelectedTypes
  <2>2. CASE \E id \in Switches, v \in {0, 1} : world' = Switched(begun, id, v)
    BY <1>1, <2>2, SwitchedTypes
  <2>. QED  BY <1>1, <1>9, <2>1, <2>2 DEF TouchTarget
<1>10. ASSUME UNCHANGED <<world, mappingVars>> PROVE UNCHANGED <<world, data, flags, targetActive>>
  BY <1>10 DEF mappingVars
<1>11. CASE Environment
  BY <1>9, <1>10, <1>11
     DEF Environment, SetSingleParameter, SetAllParameters, SubmitMappings, SubmitMapping, Submit
<1>12. CASE MainLoop
  BY <1>4, <1>5, <1>6, <1>7, <1>8, <1>12 DEF MainLoop
<1>. QED  BY <1>10, <1>11, <1>12 DEF Next, vars

LEMMA NextStaleFirst == TypeInv /\ StaleFirst(world.hits) /\ [Next]_vars => StaleFirst(world.hits)'
<1>. SUFFICES ASSUME TypeInv, StaleFirst(world.hits), [Next]_vars PROVE StaleFirst(world.hits)'
  OBVIOUS
<1>1. IsLayout(data) /\ world \in Worlds
  BY DEF TypeInv, ActivationInv
<1>2. CASE UNCHANGED <<world, data, flags, targetActive>>
  BY <1>2 DEF StaleFirst
<1>3. CASE world'.hits = <<>>
  BY <1>3 DEF StaleFirst
<1>4. CASE /\ UNCHANGED data
           /\ \/ \E source : \E v \in {0, 1} : world' = ProcessMessage(data, On', source, v, world)
              \/ \E m \in On' : world' = PollControl(data, On', m, world)
  <2>1. On' \subseteq PresentIn(data)
    BY <1>4 DEF On, Present, PresentIn
  <2>. QED  BY <1>1, <1>4, <2>1, MessageKeepsStaleFirst, PollKeepsStaleFirst
<1>. QED  BY <1>2, <1>3, <1>4, WorldSteps

\* Within a transaction, only the first match can hit a target whose conditions
\* aren't met, however many mappings match and whatever their group interaction
\* (main_processor.rs, "Previous mappings in this transaction could affect
\* subsequent mappings!").
THEOREM LaterHitsAreFresh == Spec => []OnlyFirstHitCanBeStale
<1>1. Init => StaleFirst(world.hits)
  BY DEF Init, StaleFirst
<1>2. StaleFirst(world.hits) => OnlyFirstHitCanBeStale
  BY DEF StaleFirst, OnlyFirstHitCanBeStale
<1>. QED  BY <1>1, <1>2, InitTypes, NextTypes, NextStaleFirst, PTL DEF Spec

------------------------------------------------------------------------------
(* Exclusive groups                                                        *)

LEMMA FirstOfAppend ==
    ASSUME NEW hits \in Seq(HitRecord), NEW h \in HitRecord
    PROVE  Append(hits, h) # <<>> /\ Append(hits, h)[1] = IF hits = <<>> THEN h ELSE hits[1]
<1>1. PICK new \in Seq(HitRecord) : new = Append(hits, h)
  BY AppendElements
<1>2. /\ DOMAIN new = 1..(Len(hits) + 1) /\ Len(hits) \in Nat
      /\ \A i \in 1..Len(hits) : new[i] = hits[i]
      /\ new[Len(hits) + 1] = h
  BY <1>1, AppendElements
<1>3. hits = <<>> <=> Len(hits) = 0
  OBVIOUS
<1>4. hits # <<>> => 1 \in 1..Len(hits)
  BY <1>2, <1>3
<1>5. hits = <<>> => new[1] = h
  BY <1>2, <1>3
<1>6. new # <<>>
  BY <1>2
<1>. QED  BY <1>1, <1>2, <1>4, <1>5, <1>6

\* Controlling a mapping adds a hit, or leaves the world alone.
AddsHit(new, w, m) == \E h \in HitRecord : h.mapping = m /\ new.hits = Append(w.hits, h)

LEMMA ControlHits ==
    ASSUME NEW d, IsLayout(d), NEW m \in PresentIn(d), NEW v \in {0, 1}, NEW refresh, NEW w \in Worlds
    PROVE  LET new == ControlInternal(d, m, v, refresh, w)
           IN  (refresh /\ new = w) \/ (new \in Worlds /\ AddsHit(new, w, m))
<1>. DEFINE new == ControlInternal(d, m, v, refresh, w)
<1>1. IsMappingData(d[m])
  BY DEF IsLayout, PresentIn
<1>2. (refresh /\ new = w) \/ IsHit(new, d[m].target, m, v, w)
  BY <1>1, ControlInternalTypes
<1>. HIDE DEF new
<1>. QED  BY <1>2 DEF new, AddsHit, IsHit

\* Controlling nothing, or one mapping only.
LEMMA ControlOne ==
    ASSUME NEW d, NEW m \in Mappings, NEW v, NEW w
    PROVE  ControlAll(d, {m}, {}, v, w) = ControlInternal(d, m, v, FALSE, w)
<1>. DEFINE new == ControlInternal(d, m, v, FALSE, w)
<1>1. PICK W : W = [i \in 0..MappingCount |-> IF i < m THEN {w} ELSE {new}]
  OBVIOUS
<1>2. /\ \A k \in Mappings : k \in 0..MappingCount /\ k - 1 \in 0..MappingCount
      /\ 0 \in 0..MappingCount /\ MappingCount \in 0..MappingCount /\ 0 < m /\ ~(MappingCount < m)
  BY MappingsAssumption DEF Mappings
<1>3. ControlInternal(d, m, v, m \in {}, w) = new
  BY DEF ControlInternal
<1>. HIDE DEF new
<1>4. ASSUME NEW k \in Mappings, NEW x \in W[k - 1]
      PROVE  IF k \in {m} THEN ControlInternal(d, k, v, k \in {}, x) \in W[k] ELSE x \in W[k]
  <2>1. CASE k = m
    <3>1. m - 1 < m /\ ~(m < m)
      BY DEF Mappings
    <3>2. W[k - 1] = {w} /\ W[k] = {new}
      BY <1>1, <1>2, <2>1, <3>1
    <3>. QED  BY <1>3, <2>1, <3>2
  <2>2. CASE k # m
    <3>1. k - 1 < m <=> k < m
      BY <2>2 DEF Mappings
    <3>2. W[k - 1] = W[k]
      BY <1>1, <1>2, <3>1
    <3>. QED  BY <2>2, <3>2
  <2>. QED  BY <2>1, <2>2
<1>5. w \in W[0] /\ W[MappingCount] = {new}
  BY <1>1, <1>2
<1>6. ControlAll(d, {m}, {}, v, w) \in W[MappingCount]
  BY <1>4, <1>5, ControlAllLeads
<1>. QED  BY <1>5, <1>6 DEF new

LEMMA InteractOne ==
    ASSUME NEW d, NEW on, NEW m \in Mappings, NEW v, NEW w
    PROVE  InteractAll(d, on, {m}, v, w) = ProcessGroupInteraction(d, on, m, v, w)
<1>. DEFINE new == ProcessGroupInteraction(d, on, m, v, w)
<1>1. PICK W : W = [i \in 0..MappingCount |-> IF i < m THEN {w} ELSE {new}]
  OBVIOUS
<1>2. /\ \A k \in Mappings : k \in 0..MappingCount /\ k - 1 \in 0..MappingCount
      /\ 0 \in 0..MappingCount /\ MappingCount \in 0..MappingCount /\ 0 < m /\ ~(MappingCount < m)
  BY MappingsAssumption DEF Mappings
<1>. HIDE DEF new
<1>3. ASSUME NEW k \in Mappings, NEW x \in W[k - 1]
      PROVE  IF k \in {m} THEN ProcessGroupInteraction(d, on, k, v, x) \in W[k] ELSE x \in W[k]
  <2>1. CASE k = m
    <3>1. m - 1 < m /\ ~(m < m)
      BY DEF Mappings
    <3>2. W[k - 1] = {w} /\ W[k] = {new}
      BY <1>1, <1>2, <2>1, <3>1
    <3>. QED  BY <2>1, <3>2 DEF new
  <2>2. CASE k # m
    <3>1. k - 1 < m <=> k < m
      BY <2>2 DEF Mappings
    <3>2. W[k - 1] = W[k]
      BY <1>1, <1>2, <3>1
    <3>. QED  BY <2>2, <3>2
  <2>. QED  BY <2>1, <2>2
<1>4. w \in W[0] /\ W[MappingCount] = {new}
  BY <1>1, <1>2
<1>5. InteractAll(d, on, {m}, v, w) \in W[MappingCount]
  BY <1>3, <1>4, InteractAllLeads
<1>. QED  BY <1>4, <1>5 DEF new

LEMMA ControlNone ==
    ASSUME NEW d, NEW v, NEW w
    PROVE  ControlAll(d, {}, {}, v, w) = w
<1>1. PICK W : W = [i \in 0..MappingCount |-> {w}]
  OBVIOUS
<1>2. /\ \A m \in Mappings : W[m] = {w} /\ W[m - 1] = {w}
      /\ W[0] = {w} /\ W[MappingCount] = {w}
  BY <1>1, MappingsAssumption DEF Mappings
<1>3. ControlAll(d, {}, {}, v, w) \in W[MappingCount]
  BY <1>2, ControlAllLeads
<1>. QED  BY <1>2, <1>3

LEMMA InteractNone ==
    ASSUME NEW d, NEW on, NEW v, NEW w
    PROVE  InteractAll(d, on, {}, v, w) = w
<1>1. PICK W : W = [i \in 0..MappingCount |-> {w}]
  OBVIOUS
<1>2. /\ \A m \in Mappings : W[m] = {w} /\ W[m - 1] = {w}
      /\ W[0] = {w} /\ W[MappingCount] = {w}
  BY <1>1, MappingsAssumption DEF Mappings
<1>3. InteractAll(d, on, {}, v, w) \in W[MappingCount]
  BY <1>2, InteractAllLeads
<1>. QED  BY <1>2, <1>3

\* The first hit is never forgotten within a transaction.
BeginsWith(w, h) == w \in Worlds /\ w.hits # <<>> /\ w.hits[1] = h

LEMMA ControlKeepsFirstHit ==
    ASSUME NEW d, IsLayout(d), NEW m \in PresentIn(d), NEW v \in {0, 1}, NEW refresh,
           NEW h, NEW w, BeginsWith(w, h)
    PROVE  BeginsWith(ControlInternal(d, m, v, refresh, w), h)
<1>. DEFINE new == ControlInternal(d, m, v, refresh, w)
<1>1. w \in Worlds /\ w.hits \in Seq(HitRecord)
  BY DEF BeginsWith, Worlds
<1>2. new = w \/ (new \in Worlds /\ AddsHit(new, w, m))
  BY <1>1, ControlHits
<1>. HIDE DEF new
<1>. QED  BY <1>1, <1>2, FirstOfAppend DEF BeginsWith, AddsHit, new

LEMMA ControlAllKeepsFirstHit ==
    ASSUME NEW d, IsLayout(d), NEW ms, ms \subseteq PresentIn(d), NEW refreshed, NEW v \in {0, 1},
           NEW h, NEW w, BeginsWith(w, h)
    PROVE  BeginsWith(ControlAll(d, ms, refreshed, v, w), h)
<1>. DEFINE Good == {x \in Worlds : BeginsWith(x, h)}
<1>1. PICK W : W = [i \in 0..MappingCount |-> Good]
  OBVIOUS
<1>2. /\ \A m \in Mappings : W[m] = Good /\ W[m - 1] = Good
      /\ W[0] = Good /\ W[MappingCount] = Good
  BY <1>1, MappingsAssumption DEF Mappings
<1>3. \A x : x \in Good <=> BeginsWith(x, h)
  BY DEF BeginsWith
<1>. HIDE DEF Good
<1>4. ASSUME NEW m \in ms, NEW x \in Good PROVE ControlInternal(d, m, v, m \in refreshed, x) \in Good
  BY <1>3, ControlKeepsFirstHit
<1>5. ControlAll(d, ms, refreshed, v, w) \in W[MappingCount]
  BY <1>2, <1>3, <1>4, ControlAllLeads
<1>. QED  BY <1>2, <1>3, <1>5

LEMMA InteractionKeepsFirstHit ==
    ASSUME NEW d, IsLayout(d), NEW on, on \subseteq PresentIn(d), NEW m \in on,
           NEW v \in {0, 1}, NEW h, NEW w, BeginsWith(w, h)
    PROVE  BeginsWith(ProcessGroupInteraction(d, on, m, v, w), h)
<1>1. \A others \in SUBSET PresentIn(d) : \A y \in {0, 1} :
        BeginsWith(ControlAll(d, others, others, y, w), h)
  BY ControlAllKeepsFirstHit
<1>2. w \in Worlds
  BY DEF BeginsWith
<1>. QED  BY <1>1, <1>2, InteractionControls

LEMMA InteractAllKeepsFirstHit ==
    ASSUME NEW d, IsLayout(d), NEW on, on \subseteq PresentIn(d), NEW ms, ms \subseteq on,
           NEW v \in {0, 1}, NEW h, NEW w, BeginsWith(w, h)
    PROVE  BeginsWith(InteractAll(d, on, ms, v, w), h)
<1>. DEFINE Good == {x \in Worlds : BeginsWith(x, h)}
<1>1. PICK W : W = [i \in 0..MappingCount |-> Good]
  OBVIOUS
<1>2. /\ \A m \in Mappings : W[m] = Good /\ W[m - 1] = Good
      /\ W[0] = Good /\ W[MappingCount] = Good
  BY <1>1, MappingsAssumption DEF Mappings
<1>3. \A x : x \in Good <=> BeginsWith(x, h)
  BY DEF BeginsWith
<1>. HIDE DEF Good
<1>4. ASSUME NEW m \in ms, NEW x \in Good PROVE ProcessGroupInteraction(d, on, m, v, x) \in Good
  BY <1>3, InteractionKeepsFirstHit
<1>5. InteractAll(d, on, ms, v, w) \in W[MappingCount]
  BY <1>2, <1>3, <1>4, InteractAllLeads
<1>. QED  BY <1>2, <1>3, <1>5

\* If there are matches, the first hit is one of them.
LEMMA FirstHitMatches ==
    ASSUME NEW d, IsLayout(d), NEW ms, ms \subseteq PresentIn(d), ms # {}, NEW v \in {0, 1},
           NEW w \in Worlds, w.hits = <<>>
    PROVE  LET later == {m \in ms : \E k \in ms : k < m}
           IN  \E h : h.mapping \in ms /\ BeginsWith(ControlAll(d, ms, later, v, w), h)
<1>. DEFINE later == {m \in ms : \E k \in ms : k < m}
            Begun(x) == \E h : h.mapping \in ms /\ BeginsWith(x, h)
            Good(i) == {x \in Worlds : Begun(x) \/ (x.hits = <<>> /\ \A k \in ms : ~(k =< i))}
<1>1. PICK W : W = [i \in 0..MappingCount |-> Good(i)]
  OBVIOUS
<1>2. /\ \A m \in Mappings : W[m] = Good(m) /\ W[m - 1] = Good(m - 1) /\ m \in Nat /\ m - 1 \in Nat
      /\ W[0] = Good(0) /\ W[MappingCount] = Good(MappingCount)
  BY <1>1, MappingsAssumption DEF Mappings
<1>3. ms \subseteq Mappings /\ ms \subseteq Nat
  BY MappingsAssumption DEF PresentIn, Mappings
<1>4. ASSUME NEW m \in Mappings, NEW x \in Good(m - 1)
      PROVE  IF m \in ms THEN ControlInternal(d, m, v, m \in later, x) \in Good(m) ELSE x \in Good(m)
  <2>. DEFINE new == ControlInternal(d, m, v, m \in later, x)
  <2>1. CASE m \in ms /\ Begun(x)
    <3>1. PICK h : h.mapping \in ms /\ BeginsWith(x, h)
      BY <2>1
    <3>. HIDE DEF later
    <3>2. BeginsWith(new, h)
      BY <2>1, <3>1, ControlKeepsFirstHit
    <3>3. Begun(new) /\ new \in Worlds
      BY <3>1, <3>2 DEF BeginsWith
    <3>. HIDE DEF Begun, new
    <3>4. new \in Good(m)
      BY <3>3
    <3>. QED  BY <2>1, <3>4 DEF new
  <2>2. CASE m \in ms /\ ~Begun(x)
    <3>1. x \in Worlds /\ x.hits = <<>> /\ \A k \in ms : ~(k =< m - 1)
      BY <2>2
    <3>2. m \notin later
      <4>1. \A k \in ms : ~(k < m)
        BY <1>2, <1>3, <3>1
      <4>. QED  BY <4>1
    <3>. HIDE DEF later
    <3>3. PICK record \in HitRecord : record.mapping = m /\ new \in Worlds /\ new.hits = Append(x.hits, record)
      <4>1. m \in PresentIn(d) /\ x \in Worlds
        BY <2>2, <3>1
      <4>2. new = ControlInternal(d, m, v, FALSE, x)
        BY <3>2 DEF ControlInternal
      <4>. HIDE DEF new
      <4>3. new \in Worlds /\ AddsHit(new, x, m)
        BY <4>1, <4>2, ControlHits
      <4>. QED  BY <4>3 DEF AddsHit
    <3>. HIDE DEF new
    <3>4. new.hits # <<>> /\ new.hits[1] = record
      <4>1. x.hits \in Seq(HitRecord)
        BY <3>1 DEF Worlds
      <4>. QED  BY <3>1, <3>3, <4>1, FirstOfAppend
    <3>5. Begun(new)
      BY <2>2, <3>3, <3>4 DEF BeginsWith
    <3>. HIDE DEF Begun
    <3>6. new \in Good(m)
      BY <3>3, <3>5
    <3>. QED  BY <2>2, <3>6 DEF new
  <2>3. CASE m \notin ms
    <3>1. ASSUME NEW k \in ms, ~(k =< m - 1) PROVE ~(k =< m)
      <4>1. k \in Nat /\ m \in Nat /\ k # m
        BY <1>2, <1>3, <2>3
      <4>. QED  BY <3>1, <4>1
    <3>. HIDE DEF Begun
    <3>. QED  BY <2>3, <3>1
  <2>. QED  BY <2>1, <2>2, <2>3
<1>5. w \in Good(0)
  BY <1>3 DEF Mappings
<1>6. Good(MappingCount) \subseteq {x \in Worlds : Begun(x)}
  <2>1. \A k \in ms : k =< MappingCount
    BY <1>3, MappingsAssumption DEF Mappings
  <2>. HIDE DEF Begun
  <2>. QED  BY <2>1
<1>. HIDE DEF Good, later
<1>7. ControlAll(d, ms, later, v, w) \in W[MappingCount]
  BY <1>2, <1>4, <1>5, ControlAllLeads
<1>. QED  BY <1>2, <1>6, <1>7 DEF later

\* Hitting a target with zero selects and switches on nothing.
LEMMA HitZero ==
    ASSUME NEW t \in Targets, NEW v \in {0, 1}, v # 1, NEW w \in Worlds
    PROVE  LET new == Hit(t, v, w)
           IN  /\ new.selected = w.selected \/ new.selected = NoTrack
               /\ \A id \in Switches : new.switches[id] = w.switches[id] \/ new.switches[id] = 0
<1>1. CASE t.kind = "Switch" /\ t.id \in Switches
  <2>1. PICK id \in Switches : id = t.id
    BY <1>1
  <2>2. Hit(t, v, w) = Switched(w, id, v)
    BY <1>1, <2>1 DEF Hit
  <2>3. PICK new : new = Switched(w, id, v)
    OBVIOUS
  <2>4. new.selected = w.selected /\ new.switches[id] = v
        /\ \A j \in Switches \ {id} : new.switches[j] = w.switches[j]
    BY <2>3, SwitchedTypes
  <2>5. v = 0
    OBVIOUS
  <2>. QED  BY <2>2, <2>3, <2>4, <2>5
<1>2. CASE t.kind = "SelectTrack"
  <2>1. Hit(t, v, w) = w \/ Hit(t, v, w) = Selected(w, NoTrack)
    BY <1>2 DEF Hit
  <2>2. NoTrack \in Tracks \cup {NoTrack}
    OBVIOUS
  <2>. QED  BY <2>1, <2>2, SelectedTypes
<1>. QED  BY <1>1, <1>2, TargetKinds

\* A switch is not shown on.
IsShownOff(t, w) == t.kind = "Switch" /\ ConditionsAreMet(t, w) => CurrentValue(t, w) = 0

LEMMA ZeroKeepsOff ==
    ASSUME NEW d, IsLayout(d), NEW m \in PresentIn(d), NEW o \in PresentIn(d), NEW w \in Worlds,
           NEW v \in {0, 1}, v # 1, NEW refresh, refresh,
           o = m \/ IsShownOff(d[o].target, w)
    PROVE  IsShownOff(d[o].target, ControlInternal(d, m, v, refresh, w))
<1>. DEFINE new == ControlInternal(d, m, v, refresh, w)
            t == d[m].target
            u == d[o].target
<1>0. IsMappingData(d[m]) /\ t \in Targets /\ u \in Targets
  BY DEF IsLayout, PresentIn, IsMappingData
<1>1. PICK hit : hit = Hit(t, v, w)
  OBVIOUS
<1>2. \/ ~ConditionsAreMet(t, w) /\ new = w
      \/ CurrentValue(t, new) = 0 /\ new.selected = hit.selected /\ new.switches = hit.switches
  <2>1. v = 0
    OBVIOUS
  <2>2. \/ refresh /\ ~ConditionsAreMet(t, w) /\ new = w
        \/ IsHit(new, t, m, v, w)
    BY <1>0, ControlInternalTypes
  <2>. HIDE DEF new
  <2>. QED  BY <1>1, <2>1, <2>2 DEF IsHit
<1>3. /\ hit.selected = w.selected \/ hit.selected = NoTrack
      /\ \A id \in Switches : hit.switches[id] = w.switches[id] \/ hit.switches[id] = 0
  BY <1>0, <1>1, HitZero
<1>4. u.kind = "Switch" => u.id \in Switches
  BY <1>0, TargetKinds
<1>. HIDE DEF new, t, u
<1>5. CASE ~ConditionsAreMet(t, w) /\ new = w
  BY <1>5 DEF IsShownOff, new, t, u
<1>6. CASE CurrentValue(t, new) = 0 /\ new.selected = hit.selected /\ new.switches = hit.switches
  <2>1. CASE o = m
    BY <1>6, <2>1 DEF IsShownOff, new, t, u
  <2>2. CASE o # m
    <3>. SUFFICES ASSUME u.kind = "Switch", ConditionsAreMet(u, new) PROVE CurrentValue(u, new) = 0
      BY DEF IsShownOff, new, u
    <3>1. ConditionsAreMet(u, w)
      BY <1>3, <1>6 DEF ConditionsAreMet
    <3>2. CurrentValue(u, w) = 0
      BY <2>2, <3>1 DEF IsShownOff, u
    <3>. QED  BY <1>3, <1>4, <1>6, <3>2 DEF CurrentValue
  <2>. QED  BY <2>1, <2>2
<1>. QED  BY <1>2, <1>5, <1>6

LEMMA OthersTurnOff ==
    ASSUME NEW d, IsLayout(d), NEW ms, ms \subseteq PresentIn(d), NEW v \in {0, 1}, v # 1, NEW w \in Worlds
    PROVE  \A o \in ms : IsShownOff(d[o].target, ControlAll(d, ms, ms, v, w))
<1>. DEFINE Good(i) == {x \in Worlds : \A o \in ms : o =< i => IsShownOff(d[o].target, x)}
<1>1. PICK W : W = [i \in 0..MappingCount |-> Good(i)]
  OBVIOUS
<1>2. /\ \A m \in Mappings : W[m] = Good(m) /\ W[m - 1] = Good(m - 1) /\ m \in Nat
      /\ W[0] = Good(0) /\ W[MappingCount] = Good(MappingCount)
  BY <1>1, MappingsAssumption DEF Mappings
<1>3. ms \subseteq Mappings /\ ms \subseteq Nat
  BY MappingsAssumption DEF PresentIn, Mappings
<1>4. ASSUME NEW m \in Mappings, NEW x \in Good(m - 1)
      PROVE  IF m \in ms THEN ControlInternal(d, m, v, m \in ms, x) \in Good(m) ELSE x \in Good(m)
  <2>0. x \in Worlds
    OBVIOUS
  <2>1. ASSUME NEW o \in ms, o =< m PROVE o = m \/ o =< m - 1
    <3>1. o \in Nat /\ m \in Nat
      BY <1>2, <1>3
    <3>. QED  BY <2>1, <3>1
  <2>2. CASE m \in ms
    <3>1. PICK new : new = ControlInternal(d, m, v, TRUE, x)
      OBVIOUS
    <3>2. ControlInternal(d, m, v, m \in ms, x) = new
      BY <2>2, <3>1 DEF ControlInternal
    <3>3. m \in PresentIn(d) /\ IsMappingData(d[m])
      BY <2>2 DEF IsLayout
    <3>4. new \in Worlds
      <4>1. new = x \/ IsHit(new, d[m].target, m, v, x)
        BY <2>0, <3>1, <3>3, ControlInternalTypes, Zenon
      <4>. QED  BY <2>0, <4>1 DEF IsHit
    <3>5. \A o \in ms : o =< m => IsShownOff(d[o].target, new)
      BY <2>0, <2>1, <2>2, <3>1, ZeroKeepsOff
    <3>. QED  BY <2>2, <3>2, <3>4, <3>5
  <2>3. CASE m \notin ms
    BY <2>1, <2>3
  <2>. QED  BY <2>2, <2>3
<1>5. w \in Good(0)
  BY <1>3 DEF Mappings
<1>6. \A x \in Good(MappingCount) : \A o \in ms : IsShownOff(d[o].target, x)
  <2>1. \A o \in ms : o =< MappingCount
    BY <1>3, MappingsAssumption DEF Mappings
  <2>. QED  BY <2>1
<1>. HIDE DEF Good
<1>7. ControlAll(d, ms, ms, v, w) \in W[MappingCount]
  BY <1>2, <1>4, <1>5, ControlAllLeads
<1>. QED  BY <1>2, <1>6, <1>7

ExclusiveInteractions == {"InverseTargetValue", "InverseTargetValueOnOnly"}

\* The others of the group of a mapping are off.
OthersAreOff(d, on, m, w) ==
    \A o \in on \ {m} : d[o].group = d[m].group => IsShownOff(d[o].target, w)

\* A mapping whose target was just switched on turns the others off.
LEMMA InteractionTurnsOff ==
    ASSUME NEW d, IsLayout(d), NEW on, on \subseteq PresentIn(d), NEW m \in on, NEW v,
           d[m].interaction \in ExclusiveInteractions,
           NEW w \in Worlds, m \in w.reached, CurrentValue(d[m].target, w) = 1
    PROVE  OthersAreOff(d, on, m, ProcessGroupInteraction(d, on, m, v, w))
<1>. DEFINE others == {o \in on \ {m} : d[o].group = d[m].group}
<1>1. ProcessGroupInteraction(d, on, m, v, w)
        = ProcessOtherMappings(d, on, m, ControlValueForOthers(d[m].interaction, 1), w)
  BY DEF ProcessGroupInteraction, ExclusiveInteractions
<1>2. ControlValueForOthers(d[m].interaction, 1) = 0
  BY DEF ControlValueForOthers, Opposite, InverseInteractions, ExclusiveInteractions
<1>3. ProcessGroupInteraction(d, on, m, v, w) = ControlAll(d, others, others, 0, w)
  BY <1>1, <1>2 DEF ProcessOtherMappings
<1>4. others \subseteq PresentIn(d)
  OBVIOUS
<1>5. \A o \in on \ {m} : d[o].group = d[m].group => o \in others
  OBVIOUS
<1>. HIDE DEF others
<1>. QED  BY <1>3, <1>4, <1>5, OthersTurnOff DEF OthersAreOff

\* The first hit is the one of mapping m with value v.
FirstHit(w, m, v) == \E h : h.mapping = m /\ h.value = v /\ BeginsWith(w, h)

\* Hitting the first target of a transaction.
LEMMA FirstControl ==
    ASSUME NEW d, IsLayout(d), NEW m \in PresentIn(d), NEW v \in {0, 1},
           NEW refresh, ~refresh, NEW w \in Worlds, w.hits = <<>>
    PROVE  LET new == ControlInternal(d, m, v, refresh, w)
           IN  /\ new \in Worlds /\ m \in new.reached /\ CurrentValue(d[m].target, new) = v
               /\ FirstHit(new, m, v)
<1>. DEFINE new == ControlInternal(d, m, v, refresh, w)
<1>1. IsMappingData(d[m]) /\ w.hits \in Seq(HitRecord)
  BY DEF IsLayout, PresentIn, Worlds
<1>2. IsHit(new, d[m].target, m, v, w)
  BY <1>1, ControlInternalTypes
<1>. HIDE DEF new
<1>3. PICK h \in HitRecord : h.mapping = m /\ h.value = v /\ new.hits = Append(w.hits, h)
  BY <1>2 DEF IsHit
<1>4. BeginsWith(new, h)
  BY <1>1, <1>2, <1>3, FirstOfAppend DEF BeginsWith, IsHit
<1>. QED  BY <1>2, <1>3, <1>4 DEF FirstHit, IsHit, new

\* What GroupIsExclusive says of mappings, those of them that are on, and a world.
Exclusive(d, on, w) ==
    w.hits # <<>> =>
        LET m == w.hits[1].mapping
        IN  /\ d[m].interaction \in ExclusiveInteractions
            /\ w.hits[1].value = 1
            /\ {o \in on : d[o].source = d[m].source} = {m}
            => OthersAreOff(d, on, m, w)

LEMMA PollIsExclusive ==
    ASSUME NEW d, IsLayout(d), NEW on, on \subseteq PresentIn(d), NEW m \in on, NEW w \in Worlds
    PROVE  Exclusive(d, on, PollControl(d, on, m, w))
<1>1. PICK begun \in Worlds : begun = BeginTransaction(w) /\ begun.hits = <<>>
  BY BeginTransactionTypes
<1>2. PICK x : x = ControlInternal(d, m, 1, FALSE, begun)
  OBVIOUS
<1>3. x \in Worlds /\ m \in x.reached /\ CurrentValue(d[m].target, x) = 1 /\ FirstHit(x, m, 1)
  BY <1>1, <1>2, FirstControl
<1>4. PICK new : new = ProcessGroupInteraction(d, on, m, 0, x)
  OBVIOUS
<1>5. new = PollControl(d, on, m, w)
  BY <1>1, <1>2, <1>4 DEF PollControl
<1>6. PICK h : h.mapping = m /\ h.value = 1 /\ BeginsWith(x, h)
  BY <1>3 DEF FirstHit
<1>7. BeginsWith(new, h)
  BY <1>4, <1>6, InteractionKeepsFirstHit
<1>8. d[m].interaction \in ExclusiveInteractions => OthersAreOff(d, on, m, new)
  BY <1>3, <1>4, InteractionTurnsOff
<1>. QED  BY <1>5, <1>6, <1>7, <1>8 DEF Exclusive, BeginsWith

LEMMA MessageIsExclusive ==
    ASSUME NEW d, IsLayout(d), NEW on, on \subseteq PresentIn(d), NEW source,
           NEW v \in {0, 1}, NEW w \in Worlds
    PROVE  Exclusive(d, on, ProcessMessage(d, on, source, v, w))
<1>. DEFINE matches == {m \in on : d[m].source = source}
            later == {m \in matches : \E k \in matches : k < m}
<1>1. PICK begun \in Worlds : begun = BeginTransaction(w) /\ begun.hits = <<>>
  BY BeginTransactionTypes
<1>2. PICK x : x = ControlAll(d, matches, later, v, begun)
  OBVIOUS
<1>3. PICK new : new = InteractAll(d, on, matches, v, x)
  OBVIOUS
<1>4. new = ProcessMessage(d, on, source, v, w)
  BY <1>1, <1>2, <1>3 DEF ProcessMessage
<1>5. matches \subseteq on /\ matches \subseteq PresentIn(d)
  OBVIOUS
<1>6. CASE matches = {}
  <2>1. x = begun
    <3>1. ControlAll(d, {}, {}, v, begun) = begun
      BY ControlNone
    <3>2. later = {}
      BY <1>6
    <3>. QED  BY <1>2, <1>6, <3>1, <3>2
  <2>2. new = begun
    BY <1>3, <1>6, <2>1, InteractNone
  <2>. QED  BY <1>1, <1>4, <2>2 DEF Exclusive
<1>7. CASE matches # {}
  <2>1. PICK h : h.mapping \in matches /\ BeginsWith(x, h)
    <3>. HIDE DEF matches
    <3>. QED  BY <1>1, <1>2, <1>5, <1>7, FirstHitMatches
  <2>2. BeginsWith(new, h)
    <3>. HIDE DEF matches, later
    <3>. QED  BY <1>3, <1>5, <2>1, InteractAllKeepsFirstHit
  <2>3. PICK m : m = h.mapping
    OBVIOUS
  <2>4. ASSUME d[m].interaction \in ExclusiveInteractions, h.value = 1,
               {o \in on : d[o].source = d[m].source} = {m}
        PROVE  OthersAreOff(d, on, m, new)
    <3>1. m \in on /\ d[m].source = source
      BY <2>1, <2>3
    <3>2. matches = {m}
      BY <2>4, <3>1
    <3>3. m \in Mappings /\ m \in PresentIn(d)
      BY <3>1 DEF PresentIn
    <3>4. later = {}
      BY <3>2, <3>3 DEF Mappings
    <3>5. x = ControlInternal(d, m, v, FALSE, begun)
      <4>1. x = ControlAll(d, {m}, {}, v, begun)
        BY <1>2, <3>2, <3>4
      <4>. QED  BY <3>3, <4>1, ControlOne
    <3>6. new = ProcessGroupInteraction(d, on, m, v, x)
      <4>1. new = InteractAll(d, on, {m}, v, x)
        BY <1>3, <3>2
      <4>. QED  BY <3>3, <4>1, InteractOne
    <3>. HIDE DEF matches, later
    <3>7. x \in Worlds /\ m \in x.reached /\ CurrentValue(d[m].target, x) = v /\ FirstHit(x, m, v)
      BY <1>1, <3>3, <3>5, FirstControl
    <3>8. v = 1
      BY <2>1, <2>4, <3>7 DEF FirstHit, BeginsWith
    <3>. QED  BY <2>4, <3>1, <3>6, <3>7, <3>8, InteractionTurnsOff
  <2>5. new.hits[1] = h
    BY <2>2 DEF BeginsWith
  <2>. HIDE DEF matches, later
  <2>. QED  BY <1>4, <2>3, <2>4, <2>5 DEF Exclusive
<1>. QED  BY <1>6, <1>7

LEMMA InvOfExclusive == Exclusive(data, On, world) => GroupIsExclusive
BY DEF Exclusive, ExclusiveInteractions, OthersAreOff, IsShownOff, GroupIsExclusive, TargetIsActive

LEMMA NextExclusive == TypeInv /\ Exclusive(data, On, world) /\ [Next]_vars => Exclusive(data, On, world)'
<1>. SUFFICES ASSUME TypeInv, Exclusive(data, On, world), [Next]_vars
              PROVE  Exclusive(data', On', world')
  BY DEF Exclusive, OthersAreOff, IsShownOff
<1>1. IsLayout(data) /\ world \in Worlds
  BY DEF TypeInv, ActivationInv
<1>2. CASE UNCHANGED <<world, data, flags, targetActive>>
  <2>1. On' = On
    BY <1>2 DEF On, Present, IsActive
  <2>. QED  BY <1>2, <2>1
<1>3. CASE world'.hits = <<>>
  BY <1>3 DEF Exclusive
<1>4. CASE /\ UNCHANGED data
           /\ \/ \E source : \E v \in {0, 1} : world' = ProcessMessage(data, On', source, v, world)
              \/ \E m \in On' : world' = PollControl(data, On', m, world)
  <2>1. On' \subseteq PresentIn(data)
    BY <1>4 DEF On, Present, PresentIn
  <2>. QED  BY <1>1, <1>4, <2>1, MessageIsExclusive, PollIsExclusive
<1>. QED  BY <1>2, <1>3, <1>4, WorldSteps

\* If the value which a mapping hits its target with is the first hit of a
\* transaction and turns the others of its group off, the group shows at most
\* that one target on afterwards, whatever the others' targets depend on
\* (main_processor.rs, process_group_interaction; glue-section.adoc).
THEOREM GroupsAreExclusive == Spec => []GroupIsExclusive
<1>1. Init => Exclusive(data, On, world)
  BY DEF Init, Exclusive
<1>. QED  BY <1>1, InvOfExclusive, InitTypes, NextTypes, NextExclusive, PTL DEF Spec

------------------------------------------------------------------------------
(* Last words                                                              *)

\* The last word about a lead mapping carries a value.
Says(q, l, v) ==
    \E i \in 1..Len(q) : q[i].lead = l /\ q[i].value = v /\ \A j \in (i + 1)..Len(q) : q[j].lead # l

Silent(q, l) == \A i \in 1..Len(q) : q[i].lead # l

\* Later words count.
LEMMA LastWords ==
    ASSUME NEW q \in Seq(Word), NEW r \in Seq(Word), NEW l
    PROVE  /\ \A v : Says(r, l, v) => Says(q \o r, l, v)
           /\ Silent(r, l) => \A v : Says(q, l, v) => Says(q \o r, l, v)
           /\ Silent(r, l) /\ Silent(q, l) => Silent(q \o r, l)
<1>0. q \o r \in Seq(Word)
  OBVIOUS
<1>1. PICK s \in Seq(Word) : s = q \o r
  BY <1>0, Zenon
<1>2. PICK n \in Nat : n = Len(q)
  OBVIOUS
<1>3. PICK k \in Nat : k = Len(r)
  OBVIOUS
<1>4. /\ Len(s) = n + k
      /\ \A i \in 1..n : s[i] = q[i]
      /\ \A i \in 1..k : s[n + i] = r[i]
  BY <1>1, <1>2, <1>3
<1>5. \A j \in 1..Len(s) : j \in 1..n \/ (j - n \in 1..k /\ s[j] = r[j - n])
  <2>. SUFFICES ASSUME NEW j \in 1..Len(s), ~(j \in 1..n) PROVE j - n \in 1..k /\ s[j] = r[j - n]
    OBVIOUS
  <2>1. j - n \in 1..k /\ n + (j - n) = j
    BY <1>4
  <2>. QED  BY <1>4, <2>1
<1>6. ASSUME NEW v, Says(r, l, v) PROVE Says(s, l, v)
  <2>1. PICK i \in 1..k : r[i].lead = l /\ r[i].value = v /\ \A j \in (i + 1)..k : r[j].lead # l
    BY <1>3, <1>6 DEF Says
  <2>2. n + i \in 1..Len(s) /\ s[n + i] = r[i]
    <3>1. n + i \in 1..(n + k)
      OBVIOUS
    <3>2. Len(s) = n + k
      BY <1>4, Zenon
    <3>3. s[n + i] = r[i]
      BY <1>4, Zenon
    <3>. QED  BY <3>1, <3>2, <3>3, Zenon
  <2>3. ASSUME NEW j \in (n + i + 1)..Len(s) PROVE s[j].lead # l
    <3>0. Len(s) = n + k
      BY <1>4, Zenon
    <3>1. i \in Nat /\ Len(s) = n + k
      BY <3>0
    <3>2. j \in Int /\ n + i + 1 =< j /\ j =< n + k
      BY <3>1
    <3>3. j \in 1..(n + k) /\ j \notin 1..n /\ j - n \in (i + 1)..k
      BY <3>1, <3>2
    <3>. QED  BY <1>4, <1>5, <2>1, <3>3
  <2>. QED  BY <2>1, <2>2, <2>3 DEF Says
<1>7. ASSUME NEW v, Silent(r, l), Says(q, l, v) PROVE Says(s, l, v)
  <2>1. PICK i \in 1..n : q[i].lead = l /\ q[i].value = v /\ \A j \in (i + 1)..n : q[j].lead # l
    BY <1>2, <1>7 DEF Says
  <2>2. i \in 1..Len(s) /\ s[i] = q[i]
    BY <1>4
  <2>3. ASSUME NEW j \in (i + 1)..Len(s) PROVE s[j].lead # l
    <3>1. j \in 1..Len(s) /\ (j \in 1..n => j \in (i + 1)..n)
      BY <1>4
    <3>2. CASE j \in 1..n
      BY <1>4, <2>1, <3>1, <3>2
    <3>3. CASE j \notin 1..n
      BY <1>3, <1>5, <1>7, <3>1, <3>3 DEF Silent
    <3>. QED  BY <3>2, <3>3
  <2>. QED  BY <2>1, <2>2, <2>3 DEF Says
<1>8. ASSUME Silent(r, l), Silent(q, l) PROVE Silent(s, l)
  <2>1. ASSUME NEW j \in 1..Len(s) PROVE s[j].lead # l
    <3>1. CASE j \in 1..n
      BY <1>2, <1>4, <1>8, <3>1 DEF Silent
    <3>2. CASE j \notin 1..n
      BY <1>3, <1>5, <1>8, <3>2 DEF Silent
    <3>. QED  BY <3>1, <3>2
  <2>. QED  BY <2>1 DEF Silent
<1>. QED  BY <1>1, <1>6, <1>7, <1>8

LEMMA OneWord ==
    ASSUME NEW x \in Word
    PROVE  /\ <<x>> \in Seq(Word) /\ Says(<<x>>, x.lead, x.value)
           /\ \A l : l # x.lead => Silent(<<x>>, l)
<1>0. <<x>> \in Seq(Word)
  OBVIOUS
<1>1. PICK s \in Seq(Word) : s = <<x>>
  BY <1>0, Zenon
<1>2. Len(s) = 1 /\ s[1] = x
  BY <1>1
<1>3. Says(s, x.lead, x.value)
  <2>1. 1 \in 1..Len(s) /\ \A j \in (1 + 1)..Len(s) : FALSE
    BY <1>2
  <2>. QED  BY <1>2, <2>1 DEF Says
<1>4. \A l : l # x.lead => Silent(s, l)
  BY <1>2 DEF Silent
<1>. QED  BY <1>1, <1>3, <1>4

LEMMA NoWords ==
    \A l : Silent(<<>>, l)
BY DEF Silent

\* Taking a word: it was the last one, or another one is.
LEMMA TakeWord ==
    ASSUME NEW q \in Seq(Word), q # <<>>, NEW l
    PROVE  /\ Silent(q, l) => Silent(Tail(q), l) /\ Head(q).lead # l
           /\ \A v : Says(q, l, v) => \/ Says(Tail(q), l, v)
                                      \/ Head(q).lead = l /\ Head(q).value = v /\ Silent(Tail(q), l)
<1>1. PICK r \in Seq(Word) : r = Tail(q)
  BY TailElements
<1>2. PICK n \in Nat : n = Len(r)
  BY <1>1
<1>3. /\ Len(q) = n + 1 /\ Head(q) = q[1]
      /\ \A k \in 1..n : r[k] = q[k + 1]
  BY <1>1, <1>2, TailElements
<1>4. ASSUME Silent(q, l) PROVE Silent(r, l) /\ Head(q).lead # l
  <2>1. \A k \in 1..n : k + 1 \in 1..Len(q)
    BY <1>3
  <2>2. 1 \in 1..Len(q)
    BY <1>3
  <2>. QED  BY <1>2, <1>3, <1>4, <2>1, <2>2 DEF Silent
<1>5. ASSUME NEW v, Says(q, l, v)
      PROVE  Says(r, l, v) \/ (Head(q).lead = l /\ Head(q).value = v /\ Silent(r, l))
  <2>1. PICK i \in 1..(n + 1) : q[i].lead = l /\ q[i].value = v /\ \A j \in (i + 1)..(n + 1) : q[j].lead # l
    BY <1>3, <1>5 DEF Says
  <2>2. CASE i = 1
    <3>1. \A k \in 1..n : k + 1 \in (i + 1)..(n + 1)
      BY <2>2
    <3>2. Silent(r, l)
      BY <1>2, <1>3, <2>1, <3>1 DEF Silent
    <3>. QED  BY <1>3, <2>1, <2>2, <3>2
  <2>3. CASE i # 1
    <3>1. i - 1 \in 1..n /\ (i - 1) + 1 = i
      BY <2>3
    <3>2. r[i - 1] = q[i]
      BY <1>3, <3>1
    <3>3. ASSUME NEW j \in ((i - 1) + 1)..n PROVE r[j].lead # l
      <4>1. j \in 1..n /\ j + 1 \in (i + 1)..(n + 1)
        BY <3>1
      <4>. QED  BY <1>3, <2>1, <4>1
    <3>4. Says(r, l, v)
      BY <1>2, <2>1, <3>1, <3>2, <3>3 DEF Says
    <3>. QED  BY <3>4
  <2>. QED  BY <2>2, <2>3
<1>. QED  BY <1>1, <1>4, <1>5

\* A lead mapping which an event is about.
ConcernedBy(e, l) == l \in Leads(data) /\ IsAbout(e, data[l].target)

LEMMA LeadTasksTell ==
    ASSUME IsLayout(data), NEW e \in ChangeEvent
    PROVE  \A l \in Mappings :
                IF ConcernedBy(e, l) THEN Says(LeadTasks(e), l, ValueInEvent(e, data[l].target))
                ELSE Silent(LeadTasks(e), l)
<1>. DEFINE leads == {m \in Present : IsLeadMapping(data, m) /\ IsAbout(e, data[m].target)}
            value(m) == ValueInEvent(e, data[m].target)
            task(m) == ValueChanged(m, value(m))
            Told(q, l, i) == IF l \in leads /\ l =< i THEN Says(q, l, value(l)) ELSE Silent(q, l)
            Good(i) == {q \in Seq(Word) : \A l \in Mappings : Told(q, l, i)}
<1>1. PICK seqs : seqs = [m \in Mappings |-> IF m \in leads THEN <<task(m)>> ELSE <<>>]
  OBVIOUS
<1>2. LeadTasks(e) = FlattenSeq(seqs)
  BY <1>1 DEF LeadTasks
<1>3. ASSUME NEW m \in leads PROVE task(m) \in Word /\ task(m).lead = m /\ task(m).value = value(m)
  <2>1. value(m) \in {0, 1}
    BY DEF ValueInEvent, ChangeEvent
  <2>. HIDE DEF value
  <2>. QED  BY <2>1 DEF ValueChanged, Word, Present
<1>4. \A l \in Mappings : l \in leads <=> ConcernedBy(e, l)
  BY DEF ConcernedBy, Leads, Present
<1>. HIDE DEF leads, value, task
<1>5. MappingCount \in Nat /\ seqs = [i \in 1..MappingCount |-> seqs[i]]
  BY <1>1, MappingsAssumption DEF Mappings
<1>6. ASSUME NEW m \in Mappings
      PROVE  /\ seqs[m] \in Seq(Word)
             /\ m \in leads => Says(seqs[m], m, value(m))
             /\ \A l : l # m \/ m \notin leads => Silent(seqs[m], l)
  <2>1. CASE m \in leads
    <3>1. seqs[m] = <<task(m)>>
      BY <1>1, <2>1
    <3>. QED  BY <1>3, <2>1, <3>1, OneWord
  <2>2. CASE m \notin leads
    <3>1. seqs[m] = <<>>
      BY <1>1, <2>2
    <3>. QED  BY <2>2, <3>1, NoWords
  <2>. QED  BY <2>1, <2>2
<1>7. PICK W : W = [i \in 0..MappingCount |-> Good(i)]
  OBVIOUS
<1>8. /\ \A m \in Mappings : W[m] = Good(m) /\ W[m - 1] = Good(m - 1) /\ m \in Nat
      /\ W[0] = Good(0) /\ W[MappingCount] = Good(MappingCount)
      /\ \A m \in Mappings : m =< MappingCount /\ ~(m =< 0)
  BY <1>7, MappingsAssumption DEF Mappings
<1>9. <<>> \in Good(0)
  BY <1>8, NoWords
<1>10. ASSUME NEW m \in Mappings, NEW q \in Good(m - 1) PROVE q \o seqs[m] \in Good(m)
  <2>1. q \in Seq(Word) /\ seqs[m] \in Seq(Word) /\ q \o seqs[m] \in Seq(Word)
    BY <1>6
  <2>2. ASSUME NEW l \in Mappings PROVE Told(q \o seqs[m], l, m)
    <3>1. Told(q, l, m - 1)
      OBVIOUS
    <3>2. CASE l = m
      <4>1. m =< m /\ ~(m =< m - 1)
        BY <1>8
      <4>2. Silent(q, l)
        BY <3>1, <3>2, <4>1
      <4>3. m \in leads => Says(q \o seqs[m], l, value(l))
        BY <1>6, <2>1, <3>2, LastWords
      <4>4. m \notin leads => Silent(q \o seqs[m], l)
        BY <1>6, <2>1, <4>2, LastWords
      <4>. QED  BY <3>2, <4>1, <4>3, <4>4
    <3>3. CASE l # m
      <4>1. l =< m <=> l =< m - 1
        BY <1>8, <3>3
      <4>2. Silent(seqs[m], l)
        BY <1>6, <3>3
      <4>3. /\ Says(q, l, value(l)) => Says(q \o seqs[m], l, value(l))
            /\ Silent(q, l) => Silent(q \o seqs[m], l)
        BY <2>1, <4>2, LastWords
      <4>. QED  BY <3>1, <4>1, <4>3
    <3>. QED  BY <3>2, <3>3
  <2>. HIDE DEF Told
  <2>. QED  BY <2>1, <2>2
<1>11. FlattenSeq(seqs) \in Good(MappingCount)
  <2>1. \A i \in 1..MappingCount : i \in Mappings
    BY DEF Mappings
  <2>. HIDE DEF Good
  <2>2. \A i \in 1..MappingCount : seqs[i] \in Seq(Word)
    BY <1>6, <2>1
  <2>3. \A i \in 1..MappingCount : \A x \in W[i - 1] : x \o seqs[i] \in W[i]
    BY <1>8, <1>10, <2>1
  <2>. QED  BY <1>5, <1>8, <1>9, <2>2, <2>3, FlattenLeads
<1>12. \A l \in Mappings : Told(LeadTasks(e), l, MappingCount)
  <2>. HIDE DEF Told
  <2>. QED  BY <1>2, <1>11
<1>. QED  BY <1>4, <1>8, <1>12 DEF value

\* The last change event about a target carries a value.
EventTells(es, t, v) ==
    \E i \in 1..Len(es) :
        /\ IsAbout(es[i], t) /\ ValueInEvent(es[i], t) = v
        /\ \A j \in (i + 1)..Len(es) : ~IsAbout(es[j], t)

NoEvent(es, t) == \A i \in 1..Len(es) : ~IsAbout(es[i], t)

\* What process_events defers agrees with the last change events.
LEMMA DeferredTells ==
    ASSUME IsLayout(data), world \in Worlds
    PROVE  \A l \in Mappings :
                /\ l \notin Leads(data) => Silent(Deferred, l)
                /\ l \in Leads(data) =>
                     /\ NoEvent(world.events, data[l].target) => Silent(Deferred, l)
                     /\ \A v : EventTells(world.events, data[l].target, v) => Says(Deferred, l, v)
<1>. DEFINE es == world.events
            t(l) == data[l].target
            Quiet(i, l) == \A j \in 1..i : ~IsAbout(es[j], t(l))
            Tells(i, l, v) == \E k \in 1..i : /\ IsAbout(es[k], t(l)) /\ ValueInEvent(es[k], t(l)) = v
                                              /\ \A j \in (k + 1)..i : ~IsAbout(es[j], t(l))
            Told(q, l, i) ==
                /\ l \notin Leads(data) => Silent(q, l)
                /\ l \in Leads(data) => /\ Quiet(i, l) => Silent(q, l)
                                        /\ \A v : Tells(i, l, v) => Says(q, l, v)
            Good(i) == {q \in Seq(Word) : \A l \in Mappings : Told(q, l, i)}
<1>1. PICK seqs : seqs = [i \in DOMAIN es |-> LeadTasks(es[i])]
  OBVIOUS
<1>2. PICK n \in Nat : n = Len(es) /\ DOMAIN es = 1..n
  BY DEF Worlds
<1>3. \A i \in 1..n : es[i] \in ChangeEvent
  BY <1>2 DEF Worlds
<1>4. Deferred = FlattenSeq(seqs) /\ seqs = [i \in 1..n |-> seqs[i]]
      /\ \A i \in 1..n : seqs[i] = LeadTasks(es[i])
  BY <1>1, <1>2 DEF Deferred
<1>. HIDE DEF es, t
<1>5. \A i \in 1..n : seqs[i] \in Seq(Word)
  BY <1>3, <1>4, LeadTasksAreWords
<1>6. \A i \in 1..n : \A l \in Mappings :
        IF ConcernedBy(es[i], l) THEN Says(seqs[i], l, ValueInEvent(es[i], t(l))) ELSE Silent(seqs[i], l)
  <2>1. \A i \in 1..n : \A l \in Mappings :
          IF ConcernedBy(es[i], l) THEN Says(LeadTasks(es[i]), l, ValueInEvent(es[i], data[l].target))
          ELSE Silent(LeadTasks(es[i]), l)
    BY <1>3, LeadTasksTell
  <2>. QED  BY <1>4, <2>1 DEF t
<1>7. PICK W : W = [i \in 0..n |-> Good(i)]
  OBVIOUS
<1>8. <<>> \in Good(0)
  BY NoWords
<1>9. ASSUME NEW i \in 1..n, NEW q \in Good(i - 1) PROVE q \o seqs[i] \in Good(i)
  <2>1. q \in Seq(Word) /\ seqs[i] \in Seq(Word) /\ q \o seqs[i] \in Seq(Word)
    BY <1>5
  <2>2. ASSUME NEW l \in Mappings PROVE Told(q \o seqs[i], l, i)
    <3>1. Told(q, l, i - 1)
      OBVIOUS
    <3>2. i \in 1..i /\ i \in Nat /\ \A j \in (i + 1)..i : FALSE
      OBVIOUS
    <3>3. CASE ConcernedBy(es[i], l)
      <4>1. l \in Leads(data) /\ IsAbout(es[i], t(l))
        BY <3>3 DEF ConcernedBy, t
      <4>2. Says(q \o seqs[i], l, ValueInEvent(es[i], t(l)))
        BY <1>6, <2>1, <3>3, LastWords
      <4>3. ~Quiet(i, l)
        BY <3>2, <4>1
      <4>4. ASSUME NEW v, Tells(i, l, v) PROVE v = ValueInEvent(es[i], t(l))
        <5>1. PICK k \in 1..i : /\ IsAbout(es[k], t(l)) /\ ValueInEvent(es[k], t(l)) = v
                                /\ \A j \in (k + 1)..i : ~IsAbout(es[j], t(l))
          BY <4>4
        <5>2. k # i => i \in (k + 1)..i
          OBVIOUS
        <5>. QED  BY <4>1, <5>1, <5>2
      <4>. HIDE DEF Quiet, Tells
      <4>. QED  BY <4>1, <4>2, <4>3, <4>4
    <3>4. CASE ~ConcernedBy(es[i], l)
      <4>1. Silent(seqs[i], l)
        BY <1>6, <3>4
      <4>2. /\ \A v : Says(q, l, v) => Says(q \o seqs[i], l, v)
            /\ Silent(q, l) => Silent(q \o seqs[i], l)
        BY <2>1, <4>1, LastWords
      <4>3. CASE l \notin Leads(data)
        <5>. HIDE DEF Quiet, Tells
        <5>. QED  BY <3>1, <4>2, <4>3
      <4>4. CASE l \in Leads(data)
        <5>1. ~IsAbout(es[i], t(l))
          BY <3>4, <4>4 DEF ConcernedBy, t
        <5>2. Quiet(i, l) => Quiet(i - 1, l)
          OBVIOUS
        <5>3. ASSUME NEW v, Tells(i, l, v) PROVE Tells(i - 1, l, v)
          <6>1. PICK k \in 1..i : /\ IsAbout(es[k], t(l)) /\ ValueInEvent(es[k], t(l)) = v
                                  /\ \A j \in (k + 1)..i : ~IsAbout(es[j], t(l))
            BY <5>3
          <6>2. k # i
            BY <5>1, <6>1
          <6>3. k \in 1..(i - 1) /\ \A j \in (k + 1)..(i - 1) : j \in (k + 1)..i
            BY <6>2
          <6>. QED  BY <6>1, <6>3
        <5>. HIDE DEF Quiet, Tells
        <5>. QED  BY <3>1, <4>2, <4>4, <5>2, <5>3
      <4>. QED  BY <4>3, <4>4
    <3>. QED  BY <3>3, <3>4
  <2>. HIDE DEF Told
  <2>. QED  BY <2>1, <2>2
<1>10. Deferred \in Good(n)
  <2>. HIDE DEF Good
  <2>1. <<>> \in W[0] /\ W[n] = Good(n) /\ \A i \in 1..n : W[i] = Good(i) /\ W[i - 1] = Good(i - 1)
    BY <1>7, <1>8
  <2>2. \A i \in 1..n : \A x \in W[i - 1] : x \o seqs[i] \in W[i]
    BY <1>9, <2>1
  <2>. QED  BY SMTT(30), <1>4, <1>5, <2>1, <2>2, FlattenLeads
<1>11. \A l \in Mappings : Told(Deferred, l, n)
  <2>. HIDE DEF Told
  <2>. QED  BY <1>10
<1>12. \A l : /\ NoEvent(world.events, data[l].target) => Quiet(n, l)
              /\ \A v : EventTells(world.events, data[l].target, v) => Tells(n, l, v)
  BY <1>2 DEF NoEvent, EventTells, es, t
<1>. HIDE DEF Quiet, Tells
<1>. QED  BY <1>11, <1>12

\* Appending an event.
LEMMA AppendEvent ==
    ASSUME NEW es \in Seq(ChangeEvent), NEW e \in ChangeEvent, NEW t
    PROVE  /\ IsAbout(e, t) => EventTells(Append(es, e), t, ValueInEvent(e, t))
           /\ ~IsAbout(e, t) => /\ \A v : EventTells(es, t, v) => EventTells(Append(es, e), t, v)
                                /\ NoEvent(es, t) => NoEvent(Append(es, e), t)
<1>0. Append(es, e) \in Seq(ChangeEvent)
  BY AppendElements
<1>1. PICK s \in Seq(ChangeEvent) : s = Append(es, e)
  BY <1>0, Zenon
<1>2. PICK n \in Nat : n = Len(es)
  OBVIOUS
<1>3. Len(s) = n + 1 /\ s[n + 1] = e /\ \A k \in 1..n : s[k] = es[k]
  BY <1>1, <1>2, AppendElements
<1>4. ASSUME IsAbout(e, t) PROVE EventTells(s, t, ValueInEvent(e, t))
  <2>1. n + 1 \in 1..Len(s) /\ \A j \in ((n + 1) + 1)..Len(s) : FALSE
    BY <1>3
  <2>. QED  BY <1>3, <1>4, <2>1 DEF EventTells
<1>5. ASSUME ~IsAbout(e, t), NEW v, EventTells(es, t, v) PROVE EventTells(s, t, v)
  <2>1. PICK i \in 1..n : /\ IsAbout(es[i], t) /\ ValueInEvent(es[i], t) = v
                          /\ \A j \in (i + 1)..n : ~IsAbout(es[j], t)
    BY <1>2, <1>5 DEF EventTells
  <2>2. i \in 1..Len(s) /\ s[i] = es[i]
    BY <1>3
  <2>3. ASSUME NEW j \in (i + 1)..Len(s) PROVE ~IsAbout(s[j], t)
    <3>1. Len(s) = n + 1
      BY <1>3, Zenon
    <3>2. j = n + 1 \/ (j \in (i + 1)..n /\ j \in 1..n)
      BY <3>1
    <3>. QED  BY <1>3, <1>5, <2>1, <3>2
  <2>. QED  BY <2>1, <2>2, <2>3 DEF EventTells
<1>6. ASSUME ~IsAbout(e, t), NoEvent(es, t) PROVE NoEvent(s, t)
  <2>1. ASSUME NEW j \in 1..Len(s) PROVE ~IsAbout(s[j], t)
    <3>1. Len(s) = n + 1
      BY <1>3, Zenon
    <3>2. j = n + 1 \/ j \in 1..n
      BY <3>1
    <3>. QED  BY <1>2, <1>3, <1>6, <3>2 DEF NoEvent
  <2>. QED  BY <2>1 DEF NoEvent
<1>. QED  BY <1>1, <1>4, <1>5, <1>6

------------------------------------------------------------------------------
(* Change events                                                           *)

SelectionPending(w) == \E i \in 1..Len(w.events) : w.events[i].kind = "TrackSelected"

\* Either nothing has been heard of a target and its value is the one in a world
\* before, or the last event carries its value.
ArisesFrom(w, before) ==
    /\ w \in Worlds
    /\ \A t \in Targets :
        \/ EventTells(w.events, t, CurrentValue(t, w))
        \/ /\ NoEvent(w.events, t) /\ NoEvent(before.events, t)
           /\ CurrentValue(t, w) = CurrentValue(t, before)
    /\ SelectionPending(w) \/ (~SelectionPending(before) /\ w.selected = before.selected)

\* The queued events tell the truth.
Truthful(w) == ArisesFrom(w, w)

LEMMA SameArises ==
    ASSUME NEW before, NEW w, ArisesFrom(w, before), NEW new \in Worlds,
           new.selected = w.selected, new.switches = w.switches, new.events = w.events
    PROVE  ArisesFrom(new, before)
BY DEF ArisesFrom, SelectionPending, CurrentValue

LEMMA SelectedArises ==
    ASSUME NEW before, NEW w, ArisesFrom(w, before), NEW track \in Tracks \cup {NoTrack}
    PROVE  ArisesFrom(Selected(w, track), before)
<1>. DEFINE e == SelectionEvent(track)
<1>0. w \in Worlds /\ w.events \in Seq(ChangeEvent)
  BY DEF ArisesFrom, Worlds
<1>1. PICK new : new = Selected(w, track)
  OBVIOUS
<1>2. CASE track = w.selected
  BY <1>1, <1>2 DEF Selected
<1>3. CASE track # w.selected
  <2>1. new \in Worlds /\ new.selected = track /\ new.switches = w.switches
    BY <1>0, <1>1, SelectedTypes
  <2>2. new.events = Append(w.events, e)
    BY <1>0, <1>1, <1>3 DEF Selected, Worlds
  <2>3. e \in ChangeEvent /\ e.kind = "TrackSelected" /\ e.track = track
    BY DEF SelectionEvent, ChangeEvent
  <2>. HIDE DEF e
  <2>4. ASSUME NEW t \in Targets
        PROVE  \/ EventTells(new.events, t, CurrentValue(t, new))
               \/ /\ NoEvent(new.events, t) /\ NoEvent(before.events, t)
                  /\ CurrentValue(t, new) = CurrentValue(t, before)
    <3>1. CASE t.kind = "SelectTrack"
      <4>1. IsAbout(e, t)
        BY <2>3, <3>1 DEF IsAbout
      <4>2. CurrentValue(t, new) = ValueInEvent(e, t)
        BY <2>1, <2>3, <3>1 DEF CurrentValue, ValueInEvent
      <4>3. EventTells(new.events, t, ValueInEvent(e, t))
        BY <1>0, <2>2, <2>3, <4>1, AppendEvent
      <4>. QED  BY <4>2, <4>3
    <3>2. CASE t.kind = "Switch"
      <4>1. ~IsAbout(e, t)
        BY <2>3, <3>2 DEF IsAbout
      <4>2. CurrentValue(t, new) = CurrentValue(t, w)
        BY <2>1, <3>2 DEF CurrentValue
      <4>3. /\ \A v : EventTells(w.events, t, v) => EventTells(new.events, t, v)
            /\ NoEvent(w.events, t) => NoEvent(new.events, t)
        BY <1>0, <2>2, <2>3, <4>1, AppendEvent
      <4>. QED  BY <4>2, <4>3 DEF ArisesFrom
    <3>. QED  BY <3>1, <3>2, TargetKinds
  <2>5. SelectionPending(new)
    <3>1. Len(new.events) = Len(w.events) + 1 /\ Len(w.events) \in Nat /\ new.events[Len(w.events) + 1] = e
      BY <1>0, <2>2, <2>3, AppendElements
    <3>2. Len(w.events) + 1 \in 1..Len(new.events)
      BY <3>1
    <3>. QED  BY <2>3, <3>1, <3>2 DEF SelectionPending
  <2>6. ArisesFrom(new, before)
    BY <2>1, <2>4, <2>5 DEF ArisesFrom
  <2>. QED  BY <1>1, <2>6
<1>. QED  BY <1>2, <1>3

LEMMA SwitchedArises ==
    ASSUME NEW before, NEW w, ArisesFrom(w, before), NEW id \in Switches, NEW v \in {0, 1}
    PROVE  ArisesFrom(Switched(w, id, v), before)
<1>. DEFINE e == SwitchEvent(id, v)
<1>0. w \in Worlds /\ w.events \in Seq(ChangeEvent)
  BY DEF ArisesFrom, Worlds
<1>1. PICK new : new = Switched(w, id, v)
  OBVIOUS
<1>2. CASE w.switches[id] = v
  BY <1>1, <1>2 DEF Switched
<1>3. CASE w.switches[id] # v
  <2>1. /\ new \in Worlds /\ new.selected = w.selected
        /\ new.switches[id] = v /\ \A j \in Switches \ {id} : new.switches[j] = w.switches[j]
    BY <1>0, <1>1, SwitchedTypes
  <2>2. new.events = Append(w.events, e)
    BY <1>0, <1>1, <1>3 DEF Switched, Worlds
  <2>3. e \in ChangeEvent /\ e.kind = "Switched" /\ e.id = id /\ e.value = v
    BY DEF SwitchEvent, ChangeEvent
  <2>. HIDE DEF e
  <2>4. ASSUME NEW t \in Targets
        PROVE  \/ EventTells(new.events, t, CurrentValue(t, new))
               \/ /\ NoEvent(new.events, t) /\ NoEvent(before.events, t)
                  /\ CurrentValue(t, new) = CurrentValue(t, before)
    <3>1. CASE t.kind = "Switch" /\ t.id = id
      <4>1. IsAbout(e, t)
        BY <2>3, <3>1 DEF IsAbout
      <4>2. CurrentValue(t, new) = ValueInEvent(e, t)
        BY <2>1, <2>3, <3>1 DEF CurrentValue, ValueInEvent
      <4>3. EventTells(new.events, t, ValueInEvent(e, t))
        BY <1>0, <2>2, <2>3, <4>1, AppendEvent
      <4>. QED  BY <4>2, <4>3
    <3>2. CASE ~(t.kind = "Switch" /\ t.id = id)
      <4>1. ~IsAbout(e, t)
        BY <2>3, <3>2 DEF IsAbout
      <4>2. CurrentValue(t, new) = CurrentValue(t, w)
        BY <2>1, <3>2, TargetKinds DEF CurrentValue
      <4>3. /\ \A y : EventTells(w.events, t, y) => EventTells(new.events, t, y)
            /\ NoEvent(w.events, t) => NoEvent(new.events, t)
        BY <1>0, <2>2, <2>3, <4>1, AppendEvent
      <4>. QED  BY <4>2, <4>3 DEF ArisesFrom
    <3>. QED  BY <3>1, <3>2
  <2>5. SelectionPending(w) => SelectionPending(new)
    <3>1. /\ Len(new.events) = Len(w.events) + 1 /\ Len(w.events) \in Nat
          /\ \A k \in 1..Len(w.events) : new.events[k] = w.events[k]
      BY <1>0, <2>2, <2>3, AppendElements
    <3>2. \A k \in 1..Len(w.events) : k \in 1..Len(new.events)
      BY <3>1
    <3>. QED  BY <3>1, <3>2 DEF SelectionPending
  <2>6. ArisesFrom(new, before)
    BY <2>1, <2>4, <2>5 DEF ArisesFrom
  <2>. QED  BY <1>1, <2>6
<1>. QED  BY <1>2, <1>3

LEMMA HitArises ==
    ASSUME NEW before, NEW w, ArisesFrom(w, before), NEW t \in Targets, NEW v \in {0, 1}
    PROVE  ArisesFrom(Hit(t, v, w), before)
<1>1. CASE t.kind = "Switch" /\ t.id \in Switches
  <2>1. Hit(t, v, w) = Switched(w, t.id, v)
    BY <1>1 DEF Hit
  <2>. QED  BY <1>1, <2>1, SwitchedArises
<1>2. CASE t.kind = "SelectTrack" /\ t.track \in Tracks
  <2>1. \/ Hit(t, v, w) = w
        \/ \E track \in Tracks \cup {NoTrack} : Hit(t, v, w) = Selected(w, track)
    BY <1>2 DEF Hit
  <2>. QED  BY <2>1, SelectedArises
<1>. QED  BY <1>1, <1>2, TargetKinds

LEMMA ControlArises ==
    ASSUME NEW d, IsLayout(d), NEW m \in PresentIn(d), NEW v \in {0, 1}, NEW refresh,
           NEW before, NEW w, ArisesFrom(w, before)
    PROVE  ArisesFrom(ControlInternal(d, m, v, refresh, w), before)
<1>. DEFINE new == ControlInternal(d, m, v, refresh, w)
            t == d[m].target
<1>1. IsMappingData(d[m]) /\ t \in Targets /\ w \in Worlds
  BY DEF IsLayout, PresentIn, IsMappingData, ArisesFrom
<1>2. new = w \/ IsHit(new, t, m, v, w)
  BY <1>1, ControlInternalTypes
<1>3. PICK hit : hit = Hit(t, v, w) /\ ArisesFrom(hit, before)
  BY <1>1, HitArises
<1>. HIDE DEF new, t
<1>4. ASSUME IsHit(new, t, m, v, w) PROVE ArisesFrom(new, before)
  <2>1. new \in Worlds /\ new.selected = hit.selected /\ new.switches = hit.switches /\ new.events = hit.events
    BY <1>3, <1>4 DEF IsHit
  <2>. QED  BY <1>3, <2>1, SameArises
<1>. QED  BY <1>2, <1>4 DEF new

LEMMA ControlAllArises ==
    ASSUME NEW d, IsLayout(d), NEW ms, ms \subseteq PresentIn(d), NEW refreshed, NEW v \in {0, 1},
           NEW before, NEW w, ArisesFrom(w, before)
    PROVE  ArisesFrom(ControlAll(d, ms, refreshed, v, w), before)
<1>. DEFINE Good == {x \in Worlds : ArisesFrom(x, before)}
<1>1. PICK W : W = [i \in 0..MappingCount |-> Good]
  OBVIOUS
<1>2. /\ \A m \in Mappings : W[m] = Good /\ W[m - 1] = Good
      /\ W[0] = Good /\ W[MappingCount] = Good
  BY <1>1, MappingsAssumption DEF Mappings
<1>3. \A x : x \in Good <=> ArisesFrom(x, before)
  BY DEF ArisesFrom
<1>. HIDE DEF Good
<1>4. ASSUME NEW m \in ms, NEW x \in Good PROVE ControlInternal(d, m, v, m \in refreshed, x) \in Good
  BY <1>3, ControlArises
<1>5. ControlAll(d, ms, refreshed, v, w) \in W[MappingCount]
  BY <1>2, <1>3, <1>4, ControlAllLeads
<1>. QED  BY <1>2, <1>3, <1>5

LEMMA InteractionArises ==
    ASSUME NEW d, IsLayout(d), NEW on, on \subseteq PresentIn(d), NEW m \in on, NEW v \in {0, 1},
           NEW before, NEW w, ArisesFrom(w, before)
    PROVE  ArisesFrom(ProcessGroupInteraction(d, on, m, v, w), before)
<1>1. \A others \in SUBSET PresentIn(d) : \A y \in {0, 1} :
        ArisesFrom(ControlAll(d, others, others, y, w), before)
  BY ControlAllArises
<1>2. w \in Worlds
  BY DEF ArisesFrom
<1>. QED  BY <1>1, <1>2, InteractionControls

LEMMA InteractAllArises ==
    ASSUME NEW d, IsLayout(d), NEW on, on \subseteq PresentIn(d), NEW ms, ms \subseteq on,
           NEW v \in {0, 1}, NEW before, NEW w, ArisesFrom(w, before)
    PROVE  ArisesFrom(InteractAll(d, on, ms, v, w), before)
<1>. DEFINE Good == {x \in Worlds : ArisesFrom(x, before)}
<1>1. PICK W : W = [i \in 0..MappingCount |-> Good]
  OBVIOUS
<1>2. /\ \A m \in Mappings : W[m] = Good /\ W[m - 1] = Good
      /\ W[0] = Good /\ W[MappingCount] = Good
  BY <1>1, MappingsAssumption DEF Mappings
<1>3. \A x : x \in Good <=> ArisesFrom(x, before)
  BY DEF ArisesFrom
<1>. HIDE DEF Good
<1>4. ASSUME NEW m \in ms, NEW x \in Good PROVE ProcessGroupInteraction(d, on, m, v, x) \in Good
  BY <1>3, InteractionArises
<1>5. InteractAll(d, on, ms, v, w) \in W[MappingCount]
  BY <1>2, <1>3, <1>4, InteractAllLeads
<1>. QED  BY <1>2, <1>3, <1>5

LEMMA BeginningArises ==
    ASSUME NEW before, NEW w, ArisesFrom(w, before)
    PROVE  ArisesFrom(BeginTransaction(w), before)
<1>1. w \in Worlds
  BY DEF ArisesFrom
<1>. QED  BY <1>1, BeginTransactionTypes, SameArises

LEMMA MessageArises ==
    ASSUME NEW d, IsLayout(d), NEW on, on \subseteq PresentIn(d), NEW source, NEW v \in {0, 1},
           NEW before, NEW w, ArisesFrom(w, before)
    PROVE  ArisesFrom(ProcessMessage(d, on, source, v, w), before)
<1>. DEFINE matches == {m \in on : d[m].source = source}
            later == {m \in matches : \E k \in matches : k < m}
<1>1. PICK x : x = ControlAll(d, matches, later, v, BeginTransaction(w))
  OBVIOUS
<1>2. matches \subseteq on /\ matches \subseteq PresentIn(d)
  OBVIOUS
<1>3. ProcessMessage(d, on, source, v, w) = InteractAll(d, on, matches, v, x)
  BY <1>1 DEF ProcessMessage
<1>. HIDE DEF matches, later
<1>4. ArisesFrom(x, before)
  BY <1>1, <1>2, BeginningArises, ControlAllArises
<1>. QED  BY <1>2, <1>3, <1>4, InteractAllArises

LEMMA PollArises ==
    ASSUME NEW d, IsLayout(d), NEW on, on \subseteq PresentIn(d), NEW m \in on,
           NEW before, NEW w, ArisesFrom(w, before)
    PROVE  ArisesFrom(PollControl(d, on, m, w), before)
<1>1. PICK x : x = ControlInternal(d, m, 1, FALSE, BeginTransaction(w))
  OBVIOUS
<1>2. ArisesFrom(x, before)
  BY <1>1, BeginningArises, ControlArises
<1>3. PollControl(d, on, m, w) = ProcessGroupInteraction(d, on, m, 0, x)
  BY <1>1 DEF PollControl
<1>. QED  BY <1>2, <1>3, InteractionArises

------------------------------------------------------------------------------
(* Followers                                                               *)

\* A mapping is about a target in one of the layouts.
IsTargetOf(l, t) == \E d \in Layouts : d[l] # None /\ d[l].target = t

\* A mapping is a lead mapping in one of the layouts.
PotentialLead(l) == \E d \in Layouts : IsLeadMapping(d, l)

\* The user may edit lead mappings but doesn't give them another target.
LeadsKeepTargets ==
    \A l \in Mappings : PotentialLead(l) =>
        \A t, u \in Targets : IsTargetOf(l, t) /\ IsTargetOf(l, u) => t = u

\* Each cycle processes all deferred target value changes.
KeepsUp == phase = "feedback" /\ phase' # "feedback" => feedback = <<>>

\* Mapping data is what one of the layouts says.
LaidOut(m, x) == x # None /\ \E d \in Layouts : d[m] = x
AreLaidOut(d) == \A m \in Mappings : d[m] # None => LaidOut(m, d[m])

\* The mappings which follow a lead mapping have processed a value of its target.
Informed(d, fl, active, l, v) ==
    d[l] # None /\ active[l] =>
        \A m \in PresentIn(d) : \A i \in 1..2 :
            LeadMapping(d[m].conditions[i]) = l => (fl[m][i] <=> Accepts(d[m].conditions[i], v))

\* They have, or they will have when they have processed the words in q.
Knows(d, fl, active, q, l, v) ==
    Says(q, l, v) \/ (Silent(q, l) /\ Informed(d, fl, active, l, v))

LEMMA NoFollowersInformed ==
    ASSUME NEW d, NEW fl, NEW active, NEW l \in Mappings, l \notin Leads(d), NEW v
    PROVE  Informed(d, fl, active, l, v)
BY DEF Informed, Leads, IsLeadMapping, Follows, PresentIn

\* A report informs the followers of the lead mappings it is about.
LEMMA ReportInforms ==
    ASSUME NEW d, NEW fl, NEW active, NEW leads, NEW l \in Mappings, l \in leads,
           active[l] \in BOOLEAN, NEW t, d[l] # None => d[l].target = t
    PROVE  Informed(d, ReportLeads(d, fl, active, leads), active, l, CurrentValue(t, world))
<1>. DEFINE y(k) == FinalTargetValue(active[k], CurrentValue(d[k].target, world))
            updated(m, i) ==
                LET c == d[m].conditions[i]
                    k == LeadMapping(c)
                IN  IF k \in leads THEN AfterTargetValue(fl[m][i], c, k, y(k)) ELSE fl[m][i]
<1>1. PICK new : new = ReportLeads(d, fl, active, leads)
  OBVIOUS
<1>2. new = [m \in Mappings |-> IF d[m] = None THEN fl[m] ELSE [i \in 1..2 |-> updated(m, i)]]
  BY <1>1 DEF ReportLeads
<1>3. ASSUME d[l] # None, active[l], NEW m \in PresentIn(d), NEW i \in 1..2,
             LeadMapping(d[m].conditions[i]) = l
      PROVE  new[m][i] <=> Accepts(d[m].conditions[i], CurrentValue(t, world))
  <2>1. new[m][i] = updated(m, i)
    <3>. HIDE DEF updated
    <3>. QED  BY <1>2 DEF PresentIn
  <2>2. updated(m, i) = AfterTargetValue(fl[m][i], d[m].conditions[i], l, y(l))
    BY <1>3
  <2>3. y(l) = CurrentValue(t, world)
    BY <1>3 DEF FinalTargetValue
  <2>4. l # None
    BY MappingsAssumption
  <2>. HIDE DEF y, updated
  <2>. QED  BY <1>3, <2>1, <2>2, <2>3, <2>4 DEF AfterTargetValue
<1>. QED  BY <1>1, <1>3 DEF Informed

\* It doesn't matter for the followers of others.
LEMMA ReportKeepsInformed ==
    ASSUME NEW d, NEW fl, NEW active, NEW leads, NEW l \in Mappings, l \notin leads, NEW v,
           Informed(d, fl, active, l, v)
    PROVE  Informed(d, ReportLeads(d, fl, active, leads), active, l, v)
<1>. DEFINE y(k) == FinalTargetValue(active[k], CurrentValue(d[k].target, world))
            updated(m, i) ==
                LET c == d[m].conditions[i]
                    k == LeadMapping(c)
                IN  IF k \in leads THEN AfterTargetValue(fl[m][i], c, k, y(k)) ELSE fl[m][i]
<1>1. PICK new : new = ReportLeads(d, fl, active, leads)
  OBVIOUS
<1>2. new = [m \in Mappings |-> IF d[m] = None THEN fl[m] ELSE [i \in 1..2 |-> updated(m, i)]]
  BY <1>1 DEF ReportLeads
<1>3. ASSUME NEW m \in PresentIn(d), NEW i \in 1..2, LeadMapping(d[m].conditions[i]) = l
      PROVE  new[m][i] = fl[m][i]
  <2>1. new[m][i] = updated(m, i)
    <3>. HIDE DEF updated
    <3>. QED  BY <1>2 DEF PresentIn
  <2>2. updated(m, i) = fl[m][i]
    BY <1>3
  <2>. QED  BY <2>1, <2>2
<1>. QED  BY <1>1, <1>3 DEF Informed

\* What a lead mapping is about doesn't depend on the layout.
LEMMA LeadsTarget ==
    ASSUME LeadsKeepTargets, NEW l \in Mappings, PotentialLead(l), NEW t \in Targets, IsTargetOf(l, t),
           NEW d, IsLayout(d), AreLaidOut(d), d[l] # None
    PROVE  d[l].target = t
<1>1. d[l].target \in Targets
  BY DEF IsLayout, IsMappingData
<1>2. IsTargetOf(l, d[l].target)
  BY DEF AreLaidOut, LaidOut, IsTargetOf
<1>. QED  BY <1>1, <1>2 DEF LeadsKeepTargets

LEMMA LeadsArePotential ==
    ASSUME NEW d, AreLaidOut(d), NEW m \in PresentIn(d), NEW i \in 1..2, NEW l \in Mappings,
           LeadMapping(d[m].conditions[i]) = l
    PROVE  PotentialLead(l)
<1>1. PICK e \in Layouts : e[m] = d[m] /\ d[m] # None /\ m \in Mappings
  BY DEF AreLaidOut, LaidOut, PresentIn
<1>. QED  BY <1>1 DEF PotentialLead, IsLeadMapping, Follows

\* Except when process_events clears the events, the world changes only in a way
\* that leaves events about what has changed.
LEMMA WorldArises ==
    ASSUME TypeInv, Truthful(world), [Next]_vars
    PROVE  ArisesFrom(world', world) \/ ProcessChangeEvents
<1>0. world \in Worlds /\ IsLayout(data) /\ ArisesFrom(world, world)
  BY DEF TypeInv, ActivationInv, Truthful
<1>1. ASSUME Forget PROVE ArisesFrom(world', world)
  BY <1>0, <1>1, BeginningArises DEF Forget
<1>2. CASE \/ StartCycle \/ EndSession \/ EndParams \/ EndFeedback
           \/ UpdateAllMappings \/ UpdateSingleMapping \/ RememberChangedConditions
           \/ UpdateAllParams \/ MappingTargetValueChanged
  BY <1>1, <1>2
     DEF StartCycle, EndSession, EndParams, EndFeedback, UpdateAllMappings, UpdateSingleMapping,
         RememberChangedConditions, UpdateAllParams, MappingTargetValueChanged, Take
<1>3. CASE UpdateSingleParamValue
  <2>. DEFINE task == Head(paramTasks)
              after(m, i) ==
                AfterParamUpdate(flags[m][i], data[m].conditions[i],
                                 [params EXCEPT ![task.param] = task.value], task.param, params[task.param])
              updated == [m \in Mappings |->
                            IF data[m] = None THEN flags[m] ELSE [i \in 1..2 |-> after(m, i)]]
              on == {m \in Present : updated[m][1] /\ updated[m][2] /\ targetActive[m]}
              v == IF IsOn(task.value) THEN 1 ELSE 0
  <2>1. world' = ProcessMessage(data, on, ParamSource(task.param), v, world)
    BY <1>3 DEF UpdateSingleParamValue
  <2>2. v \in {0, 1} /\ on \subseteq PresentIn(data)
    BY OnIsPresent
  <2>. HIDE DEF v, on
  <2>. QED  BY <1>0, <2>1, <2>2, MessageArises
<1>4. CASE RunControl
  <2>1. CASE \E msg \in Messages : world' = ProcessMessage(data, On, msg[1], msg[2], world)
    BY <1>0, <2>1, OnIsPresent, MessagesAssumption, MessageArises
  <2>. QED  BY <1>1, <1>4, <2>1 DEF RunControl
<1>5. CASE PollSources
  <2>1. CASE \E m \in On : data[m].source = Timer /\ world' = PollControl(data, On, m, world)
    BY <1>0, <2>1, OnIsPresent, PollArises
  <2>. QED  BY <1>1, <1>5, <2>1 DEF PollSources
<1>6. CASE TouchTarget
  <2>1. ArisesFrom(BeginTransaction(world), world)
    BY <1>0, BeginningArises
  <2>2. CASE \E track \in Tracks : world' = Selected(BeginTransaction(world), track)
    BY <2>1, <2>2, SelectedArises
  <2>3. CASE \E id \in Switches, v \in {0, 1} : world' = Switched(BeginTransaction(world), id, v)
    BY <2>1, <2>3, SwitchedArises
  <2>. QED  BY <1>6, <2>2, <2>3 DEF TouchTarget
<1>7. ASSUME UNCHANGED world PROVE ArisesFrom(world', world)
  BY <1>0, <1>7, Zenon
<1>8. CASE Environment
  BY <1>6, <1>7, <1>8
     DEF Environment, SetSingleParameter, SetAllParameters, SubmitMappings, SubmitMapping, Submit
<1>9. CASE MainLoop
  BY <1>2, <1>3, <1>4, <1>5, <1>9 DEF MainLoop
<1>. QED  BY <1>7, <1>8, <1>9 DEF Next, vars

\* Clearing the events doesn't change any values.
LEMMA EventsAreCleared ==
    ASSUME world \in Worlds, ProcessChangeEvents
    PROVE  /\ world' \in Worlds /\ world'.events = <<>>
           /\ world'.selected = world.selected /\ world'.switches = world.switches
           /\ \A t : NoEvent(world'.events, t) /\ CurrentValue(t, world') = CurrentValue(t, world)
<1>1. PICK begun \in Worlds :
        begun = BeginTransaction(world) /\ begun.selected = world.selected /\ begun.switches = world.switches
  BY BeginTransactionTypes
<1>2. world' = [begun EXCEPT !.events = <<>>]
  BY <1>1 DEF ProcessChangeEvents
<1>3. <<>> \in Seq(ChangeEvent)
  OBVIOUS
<1>4. /\ world' \in Worlds /\ world'.events = <<>>
      /\ world'.selected = world.selected /\ world'.switches = world.switches
  BY <1>1, <1>2, <1>3 DEF Worlds
<1>5. \A t : CurrentValue(t, world') = CurrentValue(t, world)
  BY <1>4 DEF CurrentValue
<1>6. \A t : NoEvent(world'.events, t)
  BY <1>4 DEF NoEvent
<1>. QED  BY <1>4, <1>5, <1>6

LEMMA NextTruthful ==
    ASSUME TypeInv, Truthful(world), [Next]_vars
    PROVE  Truthful(world')
<1>1. CASE ArisesFrom(world', world)
  BY <1>1 DEF Truthful, ArisesFrom
<1>2. CASE ProcessChangeEvents
  <2>1. world' \in Worlds /\ \A t : NoEvent(world'.events, t)
    BY <1>2, EventsAreCleared DEF TypeInv
  <2>. QED  BY <2>1 DEF Truthful, ArisesFrom
<1>. QED  BY <1>1, <1>2, WorldArises

------------------------------------------------------------------------------
(* What followers know                                                     *)

AllKnow ==
    \A l \in Mappings : \A t \in Targets :
        PotentialLead(l) /\ IsTargetOf(l, t) /\ NoEvent(world.events, t)
            => Knows(data, flags, targetActive, feedback, l, CurrentValue(t, world))

\* Between two cycles, only lead mappings are talked about.
OnlyLeadsWaiting ==
    phase \in {"idle", "events"} => \A l \in Mappings \ Leads(data) : Silent(feedback, l)

DrainedInv == phase \in {"control", "poll", "ownEvents"} => feedback = <<>>

ChangesInv == conditionsChanged => phase = "session"

RefreshPending == \E i \in 1..Len(session) : session[i].type = "NotifyConditionsChanged"

\* Whether targets are active is known, or targets will be refreshed.
ActiveInv ==
    \/ SelectionPending(world) \/ RefreshPending \/ conditionsChanged
    \/ \A m \in Present : targetActive[m] <=> TargetIsActive(m)

\* The unit model submits what is in a layout.
SubmissionsInv ==
    \A i \in 1..Len(session) :
        session[i].type = "UpdateSingleMapping" => LaidOut(session[i].mapping, session[i].data)

FollowInv ==
    /\ TypeInv
    /\ Truthful(world)
    /\ AreLaidOut(data)
    /\ SubmissionsInv
    /\ OnlyLeadsWaiting /\ DrainedInv /\ ChangesInv
    /\ ActiveInv
    /\ AllKnow

LEMMA InitFollows == Init => FollowInv
<1>. SUFFICES ASSUME Init PROVE FollowInv
  OBVIOUS
<1>1. TypeInv
  BY InitTypes
<1>2. \A m \in Mappings : data[m] = None
  BY DEF Init
<1>3. Truthful(world)
  <2>1. \A t : NoEvent(world.events, t)
    BY DEF Init, NoEvent
  <2>. QED  BY <1>1, <2>1 DEF Truthful, ArisesFrom, TypeInv
<1>4. AreLaidOut(data) /\ ActiveInv
  BY <1>2 DEF AreLaidOut, ActiveInv, Present
<1>5. SubmissionsInv /\ OnlyLeadsWaiting /\ DrainedInv /\ ChangesInv
  BY NoWords DEF Init, SubmissionsInv, OnlyLeadsWaiting, DrainedInv, ChangesInv
<1>6. AllKnow
  <2>1. feedback = <<>> /\ \A l : Silent(feedback, l)
    BY NoWords DEF Init
  <2>2. \A l \in Mappings : \A v : Informed(data, flags, targetActive, l, v)
    BY <1>2 DEF Informed
  <2>. QED  BY <2>1, <2>2 DEF AllKnow, Knows
<1>. QED  BY <1>1, <1>3, <1>4, <1>5, <1>6 DEF FollowInv

\* How the channel of the session changes.
LEMMA SessionSteps ==
    ASSUME TypeInv, [Next]_vars
    PROVE  \/ UNCHANGED session
           \/ session # <<>> /\ session' = Tail(session) /\ phase = "session"
              /\ (UpdateAllMappings \/ UpdateSingleMapping \/ RememberChangedConditions)
           \/ \E x \in Submission :
                /\ session' = Append(session, x)
                /\ x.type = "UpdateSingleMapping" => LaidOut(x.mapping, x.data)
<1>1. CASE UpdateAllMappings \/ UpdateSingleMapping \/ RememberChangedConditions
  BY <1>1 DEF UpdateAllMappings, UpdateSingleMapping, RememberChangedConditions, Take
<1>2. NotifyConditionsChanged \in Submission /\ NotifyConditionsChanged.type # "UpdateSingleMapping"
  BY DEF Submission, NotifyConditionsChanged
<1>3. CASE ProcessChangeEvents \/ UpdateSingleParamValue
  <2>1. UNCHANGED session \/ session' = Append(session, NotifyConditionsChanged)
    BY <1>3 DEF ProcessChangeEvents, UpdateSingleParamValue
  <2>. QED  BY <1>2, <2>1
<1>4. CASE SubmitMapping
  <2>1. PICK m \in Present, d \in Layouts : d[m] # None /\ session' = Append(session, UpdateSingle(m, d[m]))
    BY <1>4 DEF SubmitMapping, Submit
  <2>2. PICK x : x = UpdateSingle(m, d[m])
    OBVIOUS
  <2>3. x \in Submission
    BY <2>2, SubmissionTypes DEF Present
  <2>4. x.mapping = m /\ x.data = d[m]
    BY <2>2 DEF UpdateSingle
  <2>5. LaidOut(x.mapping, x.data)
    BY <2>1, <2>4 DEF LaidOut
  <2>. QED  BY <2>1, <2>2, <2>3, <2>5
<1>5. CASE SubmitMappings
  <2>1. PICK d \in Layouts : session' = Append(session, UpdateAll(d))
    BY <1>5 DEF SubmitMappings, Submit
  <2>2. UpdateAll(d) \in Submission /\ UpdateAll(d).type # "UpdateSingleMapping"
    BY SubmissionTypes DEF UpdateAll
  <2>. QED  BY <2>1, <2>2
<1>6. CASE MainLoop
  BY <1>1, <1>3, <1>6 DEF MainLoop, StartCycle, EndSession, UpdateAllParams, EndParams,
     MappingTargetValueChanged, EndFeedback, RunControl, PollSources
<1>7. CASE Environment
  BY <1>4, <1>5, <1>7 DEF Environment, SetSingleParameter, SetAllParameters, TouchTarget
<1>. QED  BY <1>6, <1>7 DEF Next, vars

LEMMA NextSubmissions ==
    ASSUME TypeInv, SubmissionsInv, [Next]_vars
    PROVE  SubmissionsInv'
<1>0. session \in Seq(Submission)
  BY DEF TypeInv, ActivationInv
<1>1. CASE UNCHANGED session
  BY <1>1 DEF SubmissionsInv
<1>2. CASE session # <<>> /\ session' = Tail(session)
  BY <1>0, <1>2, TailElements DEF SubmissionsInv
<1>3. ASSUME NEW x \in Submission, session' = Append(session, x),
             x.type = "UpdateSingleMapping" => LaidOut(x.mapping, x.data)
      PROVE  SubmissionsInv'
  <2>1. PICK q : q = session'
    OBVIOUS
  <2>2. /\ Len(q) = Len(session) + 1 /\ Len(session) \in Nat
        /\ q[Len(session) + 1] = x /\ \A k \in 1..Len(session) : q[k] = session[k]
    BY <1>0, <1>3, <2>1, AppendElements
  <2>3. ASSUME NEW k \in 1..Len(q)
        PROVE  q[k].type = "UpdateSingleMapping" => LaidOut(q[k].mapping, q[k].data)
    <3>1. k \in 1..Len(session) \/ k = Len(session) + 1
      BY <2>2
    <3>. QED  BY <1>3, <2>2, <3>1 DEF SubmissionsInv
  <2>. QED  BY <2>1, <2>3 DEF SubmissionsInv
<1>. QED  BY <1>1, <1>2, <1>3, SessionSteps

\* What a submission to change a single mapping is about.
LEMMA SingleSubmission ==
    ASSUME TypeInv, SubmissionsInv, UpdateSingleMapping
    PROVE  /\ Head(session).mapping \in Mappings
           /\ LaidOut(Head(session).mapping, Head(session).data)
<1>1. session \in Seq(Submission) /\ session # <<>> /\ Head(session).type = "UpdateSingleMapping"
  BY DEF TypeInv, ActivationInv, UpdateSingleMapping, Take
<1>2. Head(session) \in Submission /\ Head(session) = session[1] /\ 1 \in 1..Len(session)
  BY <1>1, TailElements
<1>. QED  BY <1>1, <1>2, SubmissionTypes DEF SubmissionsInv

LEMMA NextLaidOut ==
    ASSUME TypeInv, SubmissionsInv, AreLaidOut(data), [Next]_vars
    PROVE  AreLaidOut(data')
<1>0. session \in Seq(Submission) /\ IsLayout(data)
  BY DEF TypeInv, ActivationInv
<1>1. CASE UNCHANGED data
  BY <1>1 DEF AreLaidOut
<1>2. CASE UpdateAllMappings
  <2>1. session # <<>> /\ Head(session).type = "UpdateAllMappings" /\ data' = Head(session).data
    BY <1>2 DEF UpdateAllMappings, Take
  <2>2. data' \in Layouts
    BY <1>0, <2>1, SubmissionTypes, TailElements
  <2>. QED  BY <2>2 DEF AreLaidOut, LaidOut
<1>3. CASE UpdateSingleMapping
  <2>1. PICK m, x : m = Head(session).mapping /\ x = Head(session).data
    OBVIOUS
  <2>2. m \in Mappings /\ LaidOut(m, x)
    BY <1>3, <2>1, SingleSubmission
  <2>3. data' = [data EXCEPT ![m] = x]
    BY <1>3, <2>1 DEF UpdateSingleMapping
  <2>4. data'[m] = x /\ \A n \in Mappings \ {m} : data'[n] = data[n]
    BY <1>0, <2>2, <2>3 DEF IsLayout
  <2>. QED  BY <2>2, <2>4 DEF AreLaidOut
<1>4. CASE MainLoop
  BY <1>1, <1>2, <1>3, <1>4 DEF MainLoop, StartCycle, ProcessChangeEvents, RememberChangedConditions,
     EndSession, UpdateSingleParamValue, UpdateAllParams, EndParams, MappingTargetValueChanged,
     EndFeedback, RunControl, PollSources, mappingVars
<1>5. CASE Environment
  BY <1>1, <1>5 DEF Environment, SetSingleParameter, SetAllParameters, SubmitMappings, SubmitMapping,
     Submit, TouchTarget, mappingVars
<1>. QED  BY <1>1, <1>4, <1>5 DEF Next, vars, mappingVars

\* The channel of deferred values is empty when the cycle comes to controlling.
LEMMA NextDrained ==
    ASSUME TypeInv, DrainedInv, ChangesInv, [Next]_vars, [KeepsUp]_vars
    PROVE  DrainedInv' /\ ChangesInv'
<1>1. ASSUME NEW p, EnterPhase(p) PROVE ChangesInv' /\ phase' = p
  BY <1>1 DEF EnterPhase, ChangesInv
<1>2. CASE StartCycle \/ EndSession \/ EndParams
  BY <1>1, <1>2 DEF StartCycle, EndSession, EndParams, DrainedInv
<1>3. CASE ProcessChangeEvents
  <2>1. (\E p : EnterPhase(p)) /\ phase' \in {"session", "idle"}
    BY <1>3 DEF ProcessChangeEvents, EnterPhase
  <2>. QED  BY <1>1, <2>1 DEF DrainedInv
<1>4. CASE EndFeedback
  <2>1. phase = "feedback" /\ phase' = "control" /\ ChangesInv' /\ UNCHANGED feedback
    BY <1>1, <1>4 DEF EndFeedback
  <2>2. feedback = <<>>
    BY <2>1 DEF KeepsUp, vars, loopVars
  <2>. QED  BY <2>1, <2>2 DEF DrainedInv
<1>5. CASE RunControl \/ PollSources
  <2>1. phase \in {"control", "poll"} /\ UNCHANGED feedback /\ ChangesInv'
    BY <1>1, <1>5 DEF RunControl, PollSources
  <2>. QED  BY <2>1 DEF DrainedInv
<1>6. CASE UpdateAllMappings \/ UpdateSingleMapping \/ RememberChangedConditions
  <2>1. phase = "session" /\ UNCHANGED phase
    BY <1>6 DEF UpdateAllMappings, UpdateSingleMapping, RememberChangedConditions, Take
  <2>. QED  BY <2>1 DEF DrainedInv, ChangesInv
<1>7. CASE UpdateSingleParamValue \/ UpdateAllParams \/ MappingTargetValueChanged
  <2>1. phase \in {"params", "feedback"} /\ UNCHANGED <<phase, conditionsChanged>>
    BY <1>7 DEF UpdateSingleParamValue, UpdateAllParams, MappingTargetValueChanged, Take
  <2>. QED  BY <2>1 DEF DrainedInv, ChangesInv
<1>8. ASSUME UNCHANGED <<feedback, loopVars>> PROVE DrainedInv' /\ ChangesInv'
  BY <1>8 DEF DrainedInv, ChangesInv, loopVars
<1>9. CASE MainLoop
  BY <1>2, <1>3, <1>4, <1>5, <1>6, <1>7, <1>9 DEF MainLoop
<1>10. CASE Environment
  BY <1>8, <1>10 DEF Environment, SetSingleParameter, SetAllParameters, SubmitMappings, SubmitMapping,
     Submit, TouchTarget
<1>. QED  BY <1>8, <1>9, <1>10 DEF Next, vars

LEMMA NextOnlyLeads ==
    ASSUME TypeInv, DrainedInv, OnlyLeadsWaiting, [Next]_vars
    PROVE  OnlyLeadsWaiting'
<1>1. ASSUME UNCHANGED <<data, feedback>>, phase \in {"idle", "events"} PROVE OnlyLeadsWaiting'
  BY <1>1 DEF OnlyLeadsWaiting, Leads
<1>2. ASSUME phase' \notin {"idle", "events"} PROVE OnlyLeadsWaiting'
  BY <1>2 DEF OnlyLeadsWaiting
<1>3. CASE StartCycle
  BY <1>1, <1>3 DEF StartCycle, mappingVars
<1>4. CASE ProcessChangeEvents
  <2>1. CASE phase = "events"
    <3>1. phase' = "session"
      BY <1>4, <2>1 DEF ProcessChangeEvents, EnterPhase
    <3>. QED  BY <1>2, <3>1
  <2>2. CASE phase = "ownEvents"
    <3>1. feedback' = <<>> \o Deferred /\ Deferred \in Seq(Word)
      BY <1>4, <2>2, DeferredAreWords DEF ProcessChangeEvents, DrainedInv, Deferred, TypeInv, ActivationInv
    <3>2. feedback' = Deferred
      BY <3>1
    <3>3. \A l \in Mappings \ Leads(data) : Silent(Deferred, l)
      BY DeferredTells DEF TypeInv, ActivationInv
    <3>4. Leads(data') = Leads(data)
      BY <1>4 DEF ProcessChangeEvents, mappingVars
    <3>. QED  BY <3>2, <3>3, <3>4 DEF OnlyLeadsWaiting
  <2>. QED  BY <1>4, <2>1, <2>2 DEF ProcessChangeEvents
<1>5. CASE \/ UpdateAllMappings \/ UpdateSingleMapping \/ RememberChangedConditions
           \/ UpdateSingleParamValue \/ UpdateAllParams \/ MappingTargetValueChanged
  BY <1>2, <1>5 DEF UpdateAllMappings, UpdateSingleMapping, RememberChangedConditions,
     UpdateSingleParamValue, UpdateAllParams, MappingTargetValueChanged, Take
<1>6. CASE EndSession \/ EndParams \/ EndFeedback \/ RunControl \/ PollSources
  BY <1>2, <1>6 DEF EndSession, EndParams, EndFeedback, RunControl, PollSources, EnterPhase
<1>7. ASSUME UNCHANGED <<data, feedback, phase>> PROVE OnlyLeadsWaiting'
  BY <1>7 DEF OnlyLeadsWaiting, Leads
<1>8. CASE MainLoop
  BY <1>3, <1>4, <1>5, <1>6, <1>8 DEF MainLoop
<1>9. CASE Environment
  BY <1>7, <1>9 DEF Environment, SetSingleParameter, SetAllParameters, SubmitMappings, SubmitMapping,
     Submit, TouchTarget, mappingVars, loopVars
<1>. QED  BY <1>7, <1>8, <1>9 DEF Next, vars, mappingVars, loopVars

\* A refresh that waits in the channel of the session is executed in the end.
LEMMA RefreshStays ==
    ASSUME TypeInv, RefreshPending, [Next]_vars
    PROVE  RefreshPending' \/ conditionsChanged'
<1>0. session \in Seq(Submission)
  BY DEF TypeInv, ActivationInv
<1>1. PICK i \in 1..Len(session) : session[i].type = "NotifyConditionsChanged"
  BY DEF RefreshPending
<1>2. CASE UNCHANGED session
  BY <1>2 DEF RefreshPending
<1>3. CASE session # <<>> /\ session' = Tail(session)
           /\ (UpdateAllMappings \/ UpdateSingleMapping \/ RememberChangedConditions)
  <2>1. PICK q : q = session'
    OBVIOUS
  <2>2. /\ Len(q) = Len(session) - 1 /\ Len(session) \in Nat /\ Head(session) = session[1]
        /\ \A k \in 1..Len(q) : q[k] = session[k + 1]
    BY <1>0, <1>3, <2>1, TailElements
  <2>3. CASE i = 1
    <3>1. RememberChangedConditions
      BY <1>1, <1>3, <2>2, <2>3 DEF UpdateAllMappings, UpdateSingleMapping
    <3>. QED  BY <3>1 DEF RememberChangedConditions
  <2>4. CASE i # 1
    <3>1. i - 1 \in 1..Len(q) /\ (i - 1) + 1 = i
      BY <2>2, <2>4
    <3>2. q[i - 1] = session[i]
      BY <2>2, <3>1
    <3>. QED  BY <1>1, <2>1, <3>1, <3>2 DEF RefreshPending
  <2>. QED  BY <2>3, <2>4
<1>4. ASSUME NEW x \in Submission, session' = Append(session, x) PROVE RefreshPending'
  <2>1. PICK q : q = session'
    OBVIOUS
  <2>2. Len(q) = Len(session) + 1 /\ Len(session) \in Nat /\ \A k \in 1..Len(session) : q[k] = session[k]
    BY <1>0, <1>4, <2>1, AppendElements
  <2>3. i \in 1..Len(q)
    BY <2>2
  <2>. QED  BY <1>1, <2>1, <2>2, <2>3 DEF RefreshPending
<1>. QED  BY <1>2, <1>3, <1>4, SessionSteps

LEMMA RefreshIsSubmitted ==
    ASSUME TypeInv, session' = Append(session, NotifyConditionsChanged)
    PROVE  RefreshPending'
<1>1. NotifyConditionsChanged \in Submission /\ NotifyConditionsChanged.type = "NotifyConditionsChanged"
  BY DEF Submission, NotifyConditionsChanged
<1>2. PICK q : q = session'
  OBVIOUS
<1>3. Len(q) = Len(session) + 1 /\ Len(session) \in Nat /\ q[Len(session) + 1] = NotifyConditionsChanged
  BY <1>1, <1>2, AppendElements DEF TypeInv, ActivationInv
<1>4. Len(session) + 1 \in 1..Len(q)
  BY <1>3
<1>. QED  BY <1>1, <1>2, <1>3, <1>4 DEF RefreshPending

\* Which targets are active depends on the selected track.
AllActiveKnown == \A m \in Present : targetActive[m] <=> TargetIsActive(m)

LEMMA SameActiveKnown ==
    ASSUME UNCHANGED <<data, targetActive>>, world'.selected = world.selected, AllActiveKnown
    PROVE  AllActiveKnown'
BY DEF AllActiveKnown, Present, TargetIsActive, ConditionsAreMet

LEMMA NextActive ==
    ASSUME TypeInv, Truthful(world), SubmissionsInv, ChangesInv, ActiveInv, [Next]_vars
    PROVE  ActiveInv'
<1>0. world \in Worlds /\ IsLayout(data) /\ targetActive \in [Mappings -> BOOLEAN]
  BY DEF TypeInv, ActivationInv
<1>1. CASE RefreshPending
  BY <1>1, RefreshStays DEF ActiveInv
<1>2. CASE ~RefreshPending /\ ProcessChangeEvents
  <2>1. CASE SelectionPending(world)
    <3>1. \E i \in DOMAIN world.events : ChangesConditions(world.events[i])
      <4>1. DOMAIN world.events = 1..Len(world.events)
        BY <1>0 DEF Worlds
      <4>. QED  BY <2>1, <4>1 DEF SelectionPending, ChangesConditions
    <3>2. session' = Append(session, NotifyConditionsChanged)
      BY <1>2, <3>1 DEF ProcessChangeEvents
    <3>. QED  BY <3>2, RefreshIsSubmitted DEF ActiveInv
  <2>2. CASE ~SelectionPending(world)
    <3>1. AllActiveKnown
      BY <1>2, <2>2 DEF ActiveInv, AllActiveKnown, ChangesInv, ProcessChangeEvents
    <3>2. world'.selected = world.selected /\ UNCHANGED <<data, targetActive>>
      BY <1>0, <1>2, EventsAreCleared DEF ProcessChangeEvents, mappingVars
    <3>3. AllActiveKnown'
      BY <3>1, <3>2, SameActiveKnown
    <3>. QED  BY <3>3 DEF ActiveInv, AllActiveKnown
  <2>. QED  BY <2>1, <2>2
<1>3. CASE ~RefreshPending /\ ~ProcessChangeEvents
  <2>1. SelectionPending(world') \/ (~SelectionPending(world) /\ world'.selected = world.selected)
    BY <1>3, WorldArises DEF ArisesFrom
  <2>2. CASE SelectionPending(world')
    BY <2>2 DEF ActiveInv
  <2>3. CASE ~SelectionPending(world) /\ world'.selected = world.selected
    <3>0. \A t : ConditionsAreMet(t, world') = ConditionsAreMet(t, world)
      BY <2>3 DEF ConditionsAreMet
    <3>1. conditionsChanged \/ AllActiveKnown
      BY <1>3, <2>3 DEF ActiveInv, AllActiveKnown
    <3>2. CASE EndSession
      <4>1. CASE conditionsChanged
        <5>1. targetActive' = [m \in Mappings |-> m \in Present /\ TargetIsActive(m)] /\ UNCHANGED data
          BY <3>2, <4>1 DEF EndSession
        <5>2. AllActiveKnown'
          BY <3>0, <5>1 DEF AllActiveKnown, Present, TargetIsActive
        <5>. QED  BY <5>2 DEF ActiveInv, AllActiveKnown
      <4>2. CASE ~conditionsChanged
        <5>1. UNCHANGED <<data, targetActive>>
          BY <3>2, <4>2 DEF EndSession
        <5>. QED  BY <2>3, <3>1, <4>2, <5>1, SameActiveKnown DEF ActiveInv, AllActiveKnown
      <4>. QED  BY <4>1, <4>2
    <3>3. CASE UpdateAllMappings
      <4>1. PICK d : d = Head(session).data
        OBVIOUS
      <4>2. data' = d /\ targetActive' = [m \in Mappings |-> d[m] # None /\ ConditionsAreMet(d[m].target, world)]
        BY <3>3, <4>1 DEF UpdateAllMappings
      <4>3. AllActiveKnown'
        BY <3>0, <4>2 DEF AllActiveKnown, Present, TargetIsActive
      <4>. QED  BY <4>3 DEF ActiveInv, AllActiveKnown
    <3>4. CASE UpdateSingleMapping
      <4>1. PICK m \in Mappings : m = Head(session).mapping
        BY <3>4, SingleSubmission
      <4>2. PICK x : x = Head(session).data
        OBVIOUS
      <4>3. PICK d : d = [data EXCEPT ![m] = x]
        OBVIOUS
      <4>4. /\ data' = d /\ UNCHANGED conditionsChanged
            /\ targetActive' = [targetActive EXCEPT ![m] = ConditionsAreMet(d[m].target, world)]
        BY <3>4, <4>1, <4>2, <4>3 DEF UpdateSingleMapping
      <4>5. \A n \in Mappings \ {m} : d[n] = data[n] /\ targetActive'[n] = targetActive[n]
        BY <1>0, <4>2, <4>3, <4>4 DEF IsLayout
      <4>6. targetActive'[m] = ConditionsAreMet(d[m].target, world)
        BY <1>0, <4>2, <4>4
      <4>7. AllActiveKnown => AllActiveKnown'
        BY <3>0, <4>4, <4>5, <4>6 DEF AllActiveKnown, Present, TargetIsActive
      <4>. QED  BY <3>1, <4>4, <4>7 DEF ActiveInv, AllActiveKnown
    <3>5. ASSUME UNCHANGED <<data, targetActive>>, conditionsChanged => conditionsChanged' PROVE ActiveInv'
      BY <2>3, <3>1, <3>5, SameActiveKnown DEF ActiveInv, AllActiveKnown
    <3>6. CASE StartCycle \/ EndParams \/ EndFeedback \/ RunControl \/ PollSources
      BY <3>5, <3>6 DEF StartCycle, EndParams, EndFeedback, RunControl, PollSources, ChangesInv,
         mappingVars
    <3>7. CASE \/ RememberChangedConditions \/ UpdateSingleParamValue \/ UpdateAllParams
               \/ MappingTargetValueChanged
      BY <3>5, <3>7 DEF RememberChangedConditions, UpdateSingleParamValue, UpdateAllParams,
         MappingTargetValueChanged, mappingVars
    <3>8. CASE MainLoop
      BY <1>3, <3>2, <3>3, <3>4, <3>6, <3>7, <3>8 DEF MainLoop
    <3>9. CASE Environment
      BY <3>5, <3>9 DEF Environment, SetSingleParameter, SetAllParameters, SubmitMappings,
         SubmitMapping, Submit, TouchTarget, mappingVars, loopVars
    <3>. QED  BY <3>5, <3>8, <3>9 DEF Next, vars, mappingVars, loopVars
  <2>. QED  BY <2>1, <2>2, <2>3
<1>. QED  BY <1>1, <1>2, <1>3

\* Lead mappings that are updated report the value at once.
LEMMA UpdateAllInforms ==
    ASSUME LeadsKeepTargets, TypeInv, AreLaidOut(data'), UpdateAllMappings,
           NEW l \in Mappings, PotentialLead(l), NEW t \in Targets, IsTargetOf(l, t)
    PROVE  Informed(data', flags', targetActive', l, CurrentValue(t, world))
<1>1. PICK d : d = Head(session).data
  OBVIOUS
<1>2. PICK fresh : fresh = [m \in Mappings |-> InitialFlags(d[m])]
  OBVIOUS
<1>3. PICK active : active = [m \in Mappings |-> d[m] # None /\ ConditionsAreMet(d[m].target, world)]
  OBVIOUS
<1>4. data' = d /\ targetActive' = active /\ flags' = ReportLeads(d, fresh, active, Leads(d))
  BY <1>1, <1>2, <1>3 DEF UpdateAllMappings
<1>5. IsLayout(d) /\ active[l] \in BOOLEAN
  <2>1. session # <<>> /\ session \in Seq(Submission) /\ Head(session).type = "UpdateAllMappings"
    BY DEF UpdateAllMappings, Take, TypeInv, ActivationInv
  <2>2. d \in Layouts
    BY <1>1, <2>1, SubmissionTypes, TailElements
  <2>. QED  BY <1>3, <2>2, LayoutsAssumption DEF IsLayout, ConditionsAreMet
<1>6. d[l] # None => d[l].target = t
  BY <1>4, <1>5, LeadsTarget
<1>7. CASE l \in Leads(d)
  BY <1>4, <1>5, <1>6, <1>7, ReportInforms
<1>8. CASE l \notin Leads(d)
  BY <1>4, <1>8, NoFollowersInformed
<1>. QED  BY <1>7, <1>8

LEMMA UpdateSingleInforms ==
    ASSUME LeadsKeepTargets, TypeInv, SubmissionsInv, AreLaidOut(data'), UpdateSingleMapping,
           NEW l \in Mappings, PotentialLead(l), NEW t \in Targets, IsTargetOf(l, t),
           Informed(data, flags, targetActive, l, CurrentValue(t, world))
    PROVE  Informed(data', flags', targetActive', l, CurrentValue(t, world))
<1>0. IsLayout(data) /\ IsLayout(data') /\ AreFlags(flags) /\ targetActive \in [Mappings -> BOOLEAN]
  BY NextActivation DEF TypeInv, ActivationInv, Next, MainLoop
<1>1. PICK m \in Mappings : m = Head(session).mapping
  BY SingleSubmission
<1>2. PICK x : x = Head(session).data
  OBVIOUS
<1>3. PICK d : d = [data EXCEPT ![m] = x]
  OBVIOUS
<1>4. PICK fresh : fresh = [flags EXCEPT ![m] = InitialFlags(d[m])]
  OBVIOUS
<1>5. PICK active : active = [targetActive EXCEPT ![m] = ConditionsAreMet(d[m].target, world)]
  OBVIOUS
<1>6. PICK leads : leads = {k \in Leads(d) : k = m \/ Follows(d, m, k)}
  OBVIOUS
<1>7. data' = d /\ targetActive' = active /\ flags' = ReportLeads(d, fresh, active, leads)
  BY <1>1, <1>2, <1>3, <1>4, <1>5, <1>6 DEF UpdateSingleMapping
<1>8. active[l] \in BOOLEAN
  BY <1>0, <1>1, <1>5 DEF ConditionsAreMet
<1>9. d[l] # None => d[l].target = t
  BY <1>0, <1>7, LeadsTarget
<1>10. CASE l \in leads
  BY <1>7, <1>8, <1>9, <1>10, ReportInforms
<1>11. CASE l \notin Leads(d)
  BY <1>7, <1>11, NoFollowersInformed
<1>12. CASE l \in Leads(d) /\ l \notin leads
  <2>1. l # m /\ ~Follows(d, m, l)
    BY <1>6, <1>12
  <2>2. \A n \in Mappings \ {m} : d[n] = data[n] /\ fresh[n] = flags[n] /\ active[n] = targetActive[n]
    BY <1>0, <1>1, <1>3, <1>4, <1>5 DEF IsLayout, AreFlags
  <2>3. \A n \in PresentIn(d) : \A i \in 1..2 :
            LeadMapping(d[n].conditions[i]) = l => n \in PresentIn(data) /\ n # m
    BY <2>1, <2>2 DEF PresentIn, Follows
  <2>4. Informed(d, fresh, active, l, CurrentValue(t, world))
    BY <2>1, <2>2, <2>3 DEF Informed, PresentIn
  <2>. QED  BY <1>7, <1>12, <2>4, ReportKeepsInformed
<1>. QED  BY <1>10, <1>11, <1>12

LEMMA EndSessionInforms ==
    ASSUME LeadsKeepTargets, TypeInv, AreLaidOut(data), EndSession,
           NEW l \in Mappings, PotentialLead(l), NEW t \in Targets, IsTargetOf(l, t),
           Informed(data, flags, targetActive, l, CurrentValue(t, world))
    PROVE  Informed(data', flags', targetActive', l, CurrentValue(t, world))
<1>0. IsLayout(data) /\ targetActive \in [Mappings -> BOOLEAN]
  BY DEF TypeInv, ActivationInv
<1>1. CASE ~conditionsChanged
  BY <1>1, Zenon DEF EndSession
<1>2. CASE conditionsChanged
  <2>1. PICK active : active = [m \in Mappings |-> m \in Present /\ TargetIsActive(m)]
    OBVIOUS
  <2>2. PICK leads : leads = {m \in Present : active[m] # targetActive[m]} \cap Leads(data)
    OBVIOUS
  <2>3. /\ UNCHANGED data /\ targetActive' = active
        /\ flags' = ReportLeads(data, flags, active, leads)
    BY <1>2, <2>1, <2>2 DEF EndSession
  <2>4. active[l] \in BOOLEAN
    BY <2>1 DEF TargetIsActive, ConditionsAreMet
  <2>5. data[l] # None => data[l].target = t
    BY <1>0, LeadsTarget
  <2>6. CASE l \in leads
    BY <2>3, <2>4, <2>5, <2>6, ReportInforms
  <2>7. CASE l \notin Leads(data)
    BY <2>3, <2>7, NoFollowersInformed
  <2>8. CASE l \in Leads(data) /\ l \notin leads
    <3>1. active[l] = targetActive[l]
      BY <2>2, <2>8 DEF Leads, Present
    <3>2. Informed(data, flags, active, l, CurrentValue(t, world))
      BY <3>1 DEF Informed
    <3>. QED  BY <2>3, <2>8, <3>2, ReportKeepsInformed
  <2>. QED  BY <2>6, <2>7, <2>8
<1>. QED  BY <1>1, <1>2

\* Parameters have nothing to do with it.
LEMMA ParamsKeepInformed ==
    ASSUME TypeInv, UpdateSingleParamValue \/ UpdateAllParams,
           NEW l \in Mappings, NEW v, Informed(data, flags, targetActive, l, v)
    PROVE  Informed(data', flags', targetActive', l, v)
<1>0. l # None
  BY MappingsAssumption
<1>1. ASSUME NEW m \in PresentIn(data), NEW i \in 1..2, LeadMapping(data[m].conditions[i]) = l
      PROVE  flags'[m][i] = flags[m][i]
  <2>0. data[m].conditions[i].kind = "TargetValue" /\ data[m] # None /\ m \in Mappings
    BY <1>0, <1>1 DEF LeadMapping, DependsOnTarget, PresentIn
  <2>1. CASE UpdateSingleParamValue
    <3>. DEFINE task == Head(paramTasks)
                new == [params EXCEPT ![task.param] = task.value]
                after(n, k) ==
                    AfterParamUpdate(flags[n][k], data[n].conditions[k], new, task.param, params[task.param])
    <3>1. flags' = [n \in Mappings |-> IF data[n] = None THEN flags[n] ELSE [k \in 1..2 |-> after(n, k)]]
      BY <2>1 DEF UpdateSingleParamValue
    <3>2. after(m, i) = flags[m][i]
      BY <2>0 DEF AfterParamUpdate, IsAffected
    <3>. HIDE DEF after
    <3>. QED  BY <2>0, <3>1, <3>2
  <2>2. CASE UpdateAllParams
    <3>. DEFINE after(n, k) == AfterAllParams(flags[n][k], data[n].conditions[k], params')
    <3>1. flags' = [n \in Mappings |-> IF data[n] = None THEN flags[n] ELSE [k \in 1..2 |-> after(n, k)]]
      BY <2>2 DEF UpdateAllParams
    <3>2. after(m, i) = flags[m][i]
      BY <2>0 DEF AfterAllParams, DependsOnTarget
    <3>. HIDE DEF after
    <3>. QED  BY <2>0, <3>1, <3>2
  <2>. QED  BY <2>1, <2>2
<1>2. UNCHANGED <<data, targetActive>>
  BY DEF UpdateSingleParamValue, UpdateAllParams
<1>. QED  BY <1>1, <1>2 DEF Informed

\* A deferred value that is processed.
LEMMA ValueChangeInforms ==
    ASSUME TypeInv, MappingTargetValueChanged, NEW l \in Mappings
    PROVE  /\ Head(feedback).lead = l
                => Informed(data', flags', targetActive', l, Head(feedback).value)
           /\ Head(feedback).lead # l
                => \A v : Informed(data, flags, targetActive, l, v)
                            => Informed(data', flags', targetActive', l, v)
<1>. DEFINE lead == Head(feedback).lead
            y == FinalTargetValue(TRUE, Head(feedback).value)
            after(m, i) == AfterTargetValue(flags[m][i], data[m].conditions[i], lead, y)
<1>1. /\ flags' = [m \in Mappings |-> IF data[m] = None THEN flags[m] ELSE [i \in 1..2 |-> after(m, i)]]
      /\ UNCHANGED <<data, targetActive>>
  BY DEF MappingTargetValueChanged
<1>2. y = Head(feedback).value
  BY DEF FinalTargetValue
<1>3. l # None
  BY MappingsAssumption
<1>4. ASSUME NEW m \in PresentIn(data), NEW i \in 1..2, LeadMapping(data[m].conditions[i]) = l
      PROVE  flags'[m][i] = after(m, i)
  <2>. HIDE DEF after
  <2>. QED  BY <1>1 DEF PresentIn
<1>. HIDE DEF lead, y
<1>5. ASSUME NEW m, NEW i, LeadMapping(data[m].conditions[i]) = l
      PROVE  after(m, i) = IF lead = l THEN Accepts(data[m].conditions[i], y) ELSE flags[m][i]
  BY <1>3, <1>5 DEF AfterTargetValue
<1>. HIDE DEF after
<1>6. ASSUME lead = l PROVE Informed(data', flags', targetActive', l, y)
  <2>1. \A m \in PresentIn(data) : \A i \in 1..2 : LeadMapping(data[m].conditions[i]) = l =>
            (flags'[m][i] <=> Accepts(data[m].conditions[i], y))
    BY <1>4, <1>5, <1>6
  <2>. QED  BY <1>1, <2>1, Zenon DEF Informed
<1>7. ASSUME lead # l, NEW v, Informed(data, flags, targetActive, l, v)
      PROVE  Informed(data', flags', targetActive', l, v)
  BY <1>1, <1>4, <1>5, <1>7 DEF Informed
<1>. QED  BY <1>2, <1>6, <1>7 DEF lead

LEMMA ProcessChangeEventsInforms ==
    ASSUME LeadsKeepTargets, FollowInv, ProcessChangeEvents
    PROVE  AllKnow'
<1>0. /\ feedback \in Seq(Word) /\ Deferred \in Seq(Word) /\ IsLayout(data) /\ AreLaidOut(data)
      /\ world \in Worlds /\ AllKnow
  BY DeferredAreWords DEF FollowInv, TypeInv, ActivationInv
<1>1. feedback' = feedback \o Deferred /\ UNCHANGED <<data, flags, targetActive>>
  BY DEF ProcessChangeEvents, Deferred, mappingVars
<1>. SUFFICES ASSUME NEW l \in Mappings, NEW t \in Targets, PotentialLead(l), IsTargetOf(l, t)
              PROVE  Knows(data, flags, targetActive, feedback \o Deferred, l, CurrentValue(t, world'))
  BY <1>1 DEF AllKnow
<1>2. PICK v : v = CurrentValue(t, world)
  OBVIOUS
<1>3. CurrentValue(t, world') = v
  BY <1>0, <1>2, EventsAreCleared
<1>4. CASE l \in Leads(data)
  <2>1. data[l].target = t
    BY <1>0, <1>4, LeadsTarget DEF Leads
  <2>2. CASE NoEvent(world.events, t)
    <3>1. Silent(Deferred, l)
      BY <1>0, <1>4, <2>1, <2>2, DeferredTells
    <3>2. Knows(data, flags, targetActive, feedback, l, v)
      BY <1>0, <1>2, <2>2 DEF AllKnow
    <3>. QED  BY <1>0, <1>3, <3>1, <3>2, LastWords DEF Knows
  <2>3. CASE EventTells(world.events, t, v)
    <3>1. Says(Deferred, l, v)
      BY <1>0, <1>4, <2>1, <2>3, DeferredTells
    <3>. QED  BY <1>0, <1>3, <3>1, LastWords DEF Knows
  <2>. QED  BY <1>2, <2>2, <2>3 DEF FollowInv, Truthful, ArisesFrom
<1>5. CASE l \notin Leads(data)
  <2>1. Silent(Deferred, l)
    BY <1>0, <1>5, DeferredTells
  <2>2. Silent(feedback, l)
    <3>1. CASE phase = "events"
      BY <1>5, <3>1 DEF FollowInv, OnlyLeadsWaiting
    <3>2. CASE phase = "ownEvents"
      BY <3>2, NoWords DEF FollowInv, DrainedInv
    <3>. QED  BY <3>1, <3>2 DEF ProcessChangeEvents
  <2>3. Informed(data, flags, targetActive, l, v)
    BY <1>5, NoFollowersInformed
  <2>. QED  BY <1>0, <1>3, <2>1, <2>2, <2>3, LastWords DEF Knows
<1>. QED  BY <1>4, <1>5

\* The channel of deferred values in the other steps.
LEMMA FeedbackSteps ==
    ASSUME [Next]_vars, ~ProcessChangeEvents, ~MappingTargetValueChanged
    PROVE  /\ UNCHANGED feedback
           /\ \/ UNCHANGED <<data, flags, targetActive>>
              \/ UpdateAllMappings \/ UpdateSingleMapping \/ EndSession
              \/ UpdateSingleParamValue \/ UpdateAllParams
<1>1. CASE UpdateAllMappings \/ UpdateSingleMapping \/ EndSession \/ UpdateSingleParamValue \/ UpdateAllParams
  BY <1>1 DEF UpdateAllMappings, UpdateSingleMapping, EndSession, UpdateSingleParamValue, UpdateAllParams
<1>2. CASE MainLoop
  BY <1>1, <1>2 DEF MainLoop, StartCycle, RememberChangedConditions, EndParams, EndFeedback,
     RunControl, PollSources, mappingVars
<1>3. CASE Environment
  BY <1>3 DEF Environment, SetSingleParameter, SetAllParameters, SubmitMappings, SubmitMapping,
     Submit, TouchTarget, mappingVars
<1>. QED  BY <1>2, <1>3 DEF Next, vars, mappingVars

LEMMA NextAllKnow ==
    ASSUME LeadsKeepTargets, FollowInv, [Next]_vars, AreLaidOut(data')
    PROVE  AllKnow'
<1>0. TypeInv /\ SubmissionsInv /\ AreLaidOut(data) /\ AllKnow /\ feedback \in Seq(Word) /\ Truthful(world)
  BY DEF FollowInv, TypeInv
<1>1. CASE ProcessChangeEvents
  BY <1>1, ProcessChangeEventsInforms
<1>2. CASE ~ProcessChangeEvents
  <2>. SUFFICES ASSUME NEW l \in Mappings, NEW t \in Targets, PotentialLead(l), IsTargetOf(l, t),
                       NoEvent(world'.events, t)
                PROVE  Knows(data', flags', targetActive', feedback', l, CurrentValue(t, world'))
    BY DEF AllKnow
  <2>1. PICK v : v = CurrentValue(t, world)
    OBVIOUS
  <2>2. NoEvent(world.events, t) /\ CurrentValue(t, world') = v
    <3>1. ~EventTells(world'.events, t, CurrentValue(t, world'))
      BY DEF NoEvent, EventTells
    <3>. QED  BY <1>0, <1>2, <2>1, <3>1, WorldArises DEF ArisesFrom
  <2>3. Knows(data, flags, targetActive, feedback, l, v)
    BY <1>0, <2>1, <2>2 DEF AllKnow
  <2>4. CASE MappingTargetValueChanged
    <3>1. feedback # <<>> /\ feedback' = Tail(feedback)
      BY <2>4 DEF MappingTargetValueChanged, Take
    <3>2. CASE Head(feedback).lead = l
      <4>1. \/ Says(Tail(feedback), l, v)
            \/ Head(feedback).value = v /\ Silent(Tail(feedback), l)
        BY <1>0, <2>3, <3>1, <3>2, TakeWord DEF Knows
      <4>2. Informed(data', flags', targetActive', l, Head(feedback).value)
        BY <1>0, <2>4, <3>2, ValueChangeInforms
      <4>. QED  BY <2>2, <3>1, <4>1, <4>2 DEF Knows
    <3>3. CASE Head(feedback).lead # l
      <4>1. \/ Says(Tail(feedback), l, v)
            \/ Informed(data, flags, targetActive, l, v) /\ Silent(Tail(feedback), l)
        BY <1>0, <2>3, <3>1, <3>3, TakeWord DEF Knows
      <4>2. Informed(data, flags, targetActive, l, v) => Informed(data', flags', targetActive', l, v)
        BY <1>0, <2>4, <3>3, ValueChangeInforms
      <4>. QED  BY <2>2, <3>1, <4>1, <4>2 DEF Knows
    <3>. QED  BY <3>2, <3>3
  <2>5. CASE ~MappingTargetValueChanged
    <3>1. UNCHANGED feedback
      BY <1>2, <2>5, FeedbackSteps
    <3>2. ASSUME Informed(data, flags, targetActive, l, v)
          PROVE  Informed(data', flags', targetActive', l, v)
      <4>1. CASE UNCHANGED <<data, flags, targetActive>>
        BY <3>2, <4>1, Zenon
      <4>2. CASE UpdateAllMappings
        BY <1>0, <2>1, <4>2, UpdateAllInforms
      <4>3. CASE UpdateSingleMapping
        BY <1>0, <2>1, <3>2, <4>3, UpdateSingleInforms
      <4>4. CASE EndSession
        BY <1>0, <2>1, <3>2, <4>4, EndSessionInforms
      <4>5. CASE UpdateSingleParamValue \/ UpdateAllParams
        BY <1>0, <3>2, <4>5, ParamsKeepInformed
      <4>. QED  BY <1>2, <2>5, <4>1, <4>2, <4>3, <4>4, <4>5, FeedbackSteps
    <3>. QED  BY <2>2, <2>3, <3>1, <3>2, Zenon DEF Knows
  <2>. QED  BY <2>4, <2>5
<1>. QED  BY <1>1, <1>2

LEMMA NextFollows ==
    ASSUME LeadsKeepTargets, FollowInv, [Next]_vars, [KeepsUp]_vars
    PROVE  FollowInv'
<1>1. TypeInv' /\ Truthful(world')
  BY NextTypes, NextTruthful DEF FollowInv
<1>2. SubmissionsInv' /\ AreLaidOut(data')
  BY NextSubmissions, NextLaidOut DEF FollowInv
<1>3. OnlyLeadsWaiting' /\ DrainedInv' /\ ChangesInv' /\ ActiveInv'
  BY NextOnlyLeads, NextDrained, NextActive DEF FollowInv
<1>4. AllKnow'
  BY <1>2, NextAllKnow
<1>. QED  BY <1>1, <1>2, <1>3, <1>4 DEF FollowInv

LEMMA FollowersKnow == FollowInv => FollowersKnowActiveLeads
<1>. SUFFICES ASSUME FollowInv, Settled, NEW m \in Present, NEW i \in 1..2,
                     NEW lead, lead = LeadMapping(data[m].conditions[i]),
                     lead \in Present, TargetIsActive(lead)
              PROVE  flags[m][i] <=> Accepts(data[m].conditions[i], CurrentValue(data[lead].target, world))
  BY DEF FollowersKnowActiveLeads
<1>1. /\ lead \in Mappings /\ data[lead] # None /\ m \in PresentIn(data) /\ m \in Mappings
      /\ AreLaidOut(data) /\ IsLayout(data)
  BY DEF Present, PresentIn, FollowInv, TypeInv, ActivationInv
<1>2. PICK t : t = data[lead].target
  OBVIOUS
<1>3. PotentialLead(lead) /\ t \in Targets /\ IsTargetOf(lead, t)
  <2>1. PotentialLead(lead)
    BY <1>1, LeadsArePotential
  <2>2. t \in Targets
    BY <1>1, <1>2 DEF IsLayout, IsMappingData
  <2>. QED  BY <1>1, <1>2, <2>1, <2>2 DEF AreLaidOut, LaidOut, IsTargetOf
<1>4. NoEvent(world.events, t) /\ ~SelectionPending(world) /\ ~RefreshPending /\ ~conditionsChanged
  BY DEF Settled, NoEvent, SelectionPending, RefreshPending, FollowInv, ChangesInv
<1>5. targetActive[lead]
  BY <1>4 DEF FollowInv, ActiveInv
<1>6. Knows(data, flags, targetActive, feedback, lead, CurrentValue(t, world))
  BY <1>1, <1>3, <1>4 DEF FollowInv, AllKnow
<1>7. \A v : ~Says(feedback, lead, v)
  BY DEF Settled, Says
<1>. QED  BY <1>1, <1>2, <1>5, <1>6, <1>7 DEF Knows, Informed

\* As soon as all is processed, a mapping that follows an active target is in
\* the state which the current value of the target asks for, whether it was
\* reported at once or by a deferred target value change (main_processor.rs,
\* process_conditional_activation_target_value_change). That needs two
\* hypotheses: a deferred value outlives an edit of the lead mapping, so lead
\* mappings keep their target, and it outlives a cycle that processes only a
\* part of the channel.
THEOREM FollowersKnowTheirLeads ==
    ASSUME LeadsKeepTargets
    PROVE  Spec /\ [][KeepsUp]_vars => []FollowersKnowActiveLeads
<1>1. FollowInv /\ [Next]_vars /\ [KeepsUp]_vars => FollowInv'
  BY NextFollows
<1>. QED  BY <1>1, InitFollows, FollowersKnow, PTL DEF Spec

==============================================================================
