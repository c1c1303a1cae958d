--------------------------- MODULE PotUnitProofs ---------------------------
(***************************************************************************)
(* What the build counter guarantees, for every number of kinds, presets,  *)
(* databases and builds: a running refresh is always the latest build, and *)
(* a settled unit displays exactly what its filters ask for.               *)
(***************************************************************************)
EXTENDS PotUnit, TLAPS

(* Builds are numbered in the order of their requests. *)
BuildsAreNumbered ==
  /\ buildCounter \in Nat
  /\ \A t \in tasks \cup working : t.number \in Nat /\ t.number <= buildCounter

(* The worker has one build at most, and there is at most one latest, *)
(* waiting or being worked on.                                        *)
LatestIsUnique ==
  /\ \A t, u \in working : t = u
  /\ \A t, u \in tasks \cup working : IsLatest(t) /\ IsLatest(u) => t = u
  /\ tasks \cap working = {}

(* The spinner turns for the build being worked on. *)
SpinnerTellsWork == \A t \in working : running = t.hint

RefreshInWorkIsLatest == \A t \in working : t.hint.change = "TotalRefresh" => IsLatest(t)

(* Unless a change was ignored, the latest build has the present input. *)
LatestHasInput ==
  ~ignored => \A t \in tasks \cup working : IsLatest(t) => t.input = BuildInput

PotInv ==
  /\ BuildsAreNumbered
  /\ LatestIsUnique
  /\ SpinnerTellsWork
  /\ RefreshInWorkIsLatest
  /\ RefreshIsNeverSuperseded
  /\ LatestHasInput
  /\ PresetsMatchFilters

-----------------------------------------------------------------------------
LEMMA InitPotInv == Init => PotInv
BY DEF Init, PotInv, BuildsAreNumbered, LatestIsUnique, SpinnerTellsWork, RefreshInWorkIsLatest,
       RefreshIsNeverSuperseded, LatestHasInput, PresetsMatchFilters, IsLatest, Settled,
       IsRefreshing, NoHint, Hint

(* Whatever changes the input ends with RebuildCollections. During a       *)
(* refresh the build in work stays the latest, else the request is.        *)
LEMMA RequestsKeepInv ==
  ASSUME NEW hint, PotInv, RebuildCollections(hint), UNCHANGED <<resultVars, workerVars, disk>>
  PROVE  PotInv'
<1> USE DEF resultVars, workerVars
<1>1. CASE IsRefreshing
  <2>1. /\ UNCHANGED <<buildCounter, tasks, working, running>>
        /\ BuildInput' # BuildInput => ignored'
        /\ ignored => ignored'
    BY <1>1 DEF RebuildCollections, CountsRequest, Ignore, IsRefreshing
  <2>2. PICK t \in working : IsLatest(t)
    BY <1>1 DEF PotInv, RefreshIsNeverSuperseded
  <2>3. ~Settled'
    BY <2>1, <2>2 DEF Settled, IsLatest
  <2>4. LatestHasInput'
    BY <2>1 DEF PotInv, LatestHasInput, IsLatest
  <2> QED
    BY <2>1, <2>3, <2>4 DEF PotInv, BuildsAreNumbered, LatestIsUnique, SpinnerTellsWork,
      RefreshInWorkIsLatest, RefreshIsNeverSuperseded, PresetsMatchFilters, IsLatest, IsRefreshing
<1>2. CASE ~IsRefreshing
  <2> DEFINE new == [number |-> buildCounter + 1, hint |-> hint, input |-> BuildInput']
  <2>1. /\ buildCounter' = buildCounter + 1
        /\ tasks' = tasks \cup {new}
        /\ UNCHANGED <<working, running>>
    BY <1>2 DEF RebuildCollections, CountsRequest, Enqueue
  <2>2. BuildsAreNumbered'
    BY <2>1 DEF PotInv, BuildsAreNumbered
  <2>3. \A t \in tasks \cup working : ~IsLatest(t)' /\ t # new
    BY <2>1 DEF PotInv, BuildsAreNumbered, IsLatest
  <2>4. new.number = buildCounter' /\ ~Settled'
    <3>1. new \in tasks' /\ new.number = buildCounter'
      BY <2>1
    <3> QED
      BY <3>1 DEF IsLatest, Settled
  <2>5. LatestIsUnique' /\ LatestHasInput'
    BY <2>1, <2>3 DEF PotInv, LatestIsUnique, LatestHasInput
  <2>6. SpinnerTellsWork' /\ RefreshInWorkIsLatest' /\ RefreshIsNeverSuperseded'
    BY <1>2, <2>1 DEF PotInv, SpinnerTellsWork, RefreshInWorkIsLatest, RefreshIsNeverSuperseded,
      IsRefreshing
  <2> QED
    BY <2>2, <2>4, <2>5, <2>6 DEF PotInv, PresetsMatchFilters
<1> QED
  BY <1>1, <1>2

(* Starting the latest build doesn't settle anything, and dropping another *)
(* one neither.                                                            *)
LEMMA StartsKeepInv ==
  ASSUME PotInv, NEW task \in tasks, StartBuild(task)
  PROVE  PotInv'
<1>1. /\ UNCHANGED <<buildCounter, ignored, filters, search, excludes, showExcluded, presets,
                     crawled>>
      /\ working = {}
      /\ tasks' = tasks \ {task}
  BY DEF StartBuild, inputVars, resultVars
<1>2. BuildInput' = BuildInput /\ \A t : IsLatest(t)' = IsLatest(t)
  BY <1>1 DEF BuildInput, EffectiveExcludes, IsLatest
<1>3. CASE IsLatest(task)
  <2>1. working' = {task} /\ running' = task.hint
    BY <1>3 DEF StartBuild
  <2> QED
    BY <1>1, <1>2, <1>3, <2>1 DEF PotInv, BuildsAreNumbered, LatestIsUnique, SpinnerTellsWork,
      RefreshInWorkIsLatest, RefreshIsNeverSuperseded, LatestHasInput, PresetsMatchFilters, Settled
<1>4. CASE ~IsLatest(task)
  <2>1. UNCHANGED <<working, running>>
    BY <1>4 DEF StartBuild
  <2>2. Settled' => Settled
    BY <1>1, <1>2, <1>4, <2>1 DEF Settled
  <2>3. PresetsMatchFilters'
    BY <1>1, <1>2, <2>2 DEF PotInv, PresetsMatchFilters
  <2> QED
    BY <1>1, <1>2, <2>1, <2>3 DEF PotInv, BuildsAreNumbered, LatestIsUnique, SpinnerTellsWork,
      RefreshInWorkIsLatest, RefreshIsNeverSuperseded, LatestHasInput, IsRefreshing
<1> QED
  BY <1>3, <1>4

(* The databases change under the latest build, so nothing is settled yet. *)
LEMMA RefreshesKeepInv ==
  ASSUME PotInv, NEW task \in working, RefreshDatabases(task)
  PROVE  PotInv'
<1>1. UNCHANGED <<inputVars, resultVars, requestVars, running, working>>
  BY DEF RefreshDatabases
<1>2. ~Settled
  BY DEF RefreshDatabases, NeedsRefresh, PotInv, RefreshInWorkIsLatest, Settled
<1> QED
  BY <1>1, <1>2 DEF PotInv, inputVars, resultVars, requestVars, BuildsAreNumbered, LatestIsUnique,
    SpinnerTellsWork, RefreshInWorkIsLatest, RefreshIsNeverSuperseded, LatestHasInput, IsLatest,
    PresetsMatchFilters, Settled, IsRefreshing, BuildInput, EffectiveExcludes

(* The outcome of the latest build fits the present input: the unit clears *)
(* the same filters as the build did, because it looks at the same items.  *)
LEMMA OutcomesFit ==
  ASSUME PotInv, NEW task \in working, FinishBuild(task), IsLatest(task), ~ignored
  PROVE  presets' = PresetsFor(filters', BuildInput', Contents[crawled'])
<1> DEFINE affected == AffectedKinds(task.hint)
           items == [k \in Kinds |-> FilterItems(k, task.input, Contents[crawled])]
           remaining == ClearIfNotAvailableAnymore(task.input.filters, affected, items)
<1>1. task.input = BuildInput
  BY DEF PotInv, LatestHasInput
<1>2. /\ presets' = PresetsFor(remaining, task.input, Contents[crawled])
      /\ collections' = MergedCollections(items, affected)
      /\ filters' = ClearIfNotAvailableAnymore(filters, affected, collections')
      /\ UNCHANGED <<search, excludes, showExcluded, crawled>>
  BY DEF FinishBuild, NotifyBuildOutcomeReady, BuildCollections, RemainingFilters
<1>3. \A k \in Kinds : k \in affected => collections'[k] = items[k]
  BY <1>2 DEF MergedCollections
<1>4. filters' = remaining
  <2>1. task.input.filters = filters
    BY <1>1 DEF BuildInput
  <2> QED
    BY <1>2, <1>3, <2>1 DEF ClearIfNotAvailableAnymore
<1>5. BuildInput'.search = task.input.search /\ BuildInput'.excludes = task.input.excludes
  BY <1>1, <1>2 DEF BuildInput, EffectiveExcludes
<1> QED
  BY <1>2, <1>4, <1>5 DEF PresetsFor

LEMMA FinishesKeepInv ==
  ASSUME PotInv, NEW task \in working, FinishBuild(task)
  PROVE  PotInv'
<1>1. /\ UNCHANGED <<search, excludes, showExcluded, buildCounter, tasks, ignored, crawled>>
      /\ working' = {}
      /\ \A t : IsLatest(t)' = IsLatest(t)
  BY DEF FinishBuild, IsLatest
<1>2. BuildsAreNumbered' /\ LatestIsUnique' /\ SpinnerTellsWork' /\ RefreshInWorkIsLatest'
  BY <1>1 DEF PotInv, BuildsAreNumbered, LatestIsUnique, SpinnerTellsWork, RefreshInWorkIsLatest
<1>3. CASE IsLatest(task)
  <2>1. ~IsRefreshing'
    BY <1>3 DEF FinishBuild, NotifyBuildOutcomeReady, TaskAfterBuild, IsRefreshing, NoHint, Hint
  <2>2. \A t \in tasks' : ~IsLatest(t)'
    BY <1>1, <1>3 DEF PotInv, LatestIsUnique
  <2>3. PresetsMatchFilters'
    BY <1>1, <1>3, OutcomesFit DEF PresetsMatchFilters
  <2> QED
    BY <1>1, <1>2, <2>1, <2>2, <2>3 DEF PotInv, RefreshIsNeverSuperseded, LatestHasInput
<1>4. CASE ~IsLatest(task)
  <2>1. UNCHANGED <<filters, presets, running>>
    BY <1>4 DEF FinishBuild, resultVars
  <2>2. ~IsRefreshing
    BY <1>4 DEF PotInv, SpinnerTellsWork, RefreshInWorkIsLatest, IsRefreshing
  <2>3. BuildInput' = BuildInput
    BY <1>1, <2>1 DEF BuildInput, EffectiveExcludes
  <2>4. Settled' => Settled
    BY <1>1, <1>4 DEF Settled, PotInv, LatestIsUnique
  <2> QED
    BY <1>1, <1>2, <2>1, <2>2, <2>3, <2>4 DEF PotInv, RefreshIsNeverSuperseded, LatestHasInput,
      PresetsMatchFilters, IsRefreshing
<1> QED
  BY <1>3, <1>4

LEMMA NextPotInv == PotInv /\ [Next]_vars => PotInv'
<1> SUFFICES ASSUME PotInv, [Next]_vars PROVE PotInv'
  OBVIOUS
<1>1. CASE UserActs
  BY <1>1, RequestsKeepInv DEF UserActs, SetFilter, ChangeSearchExpression, IncludeFilterItem,
    SetShowExcludedFilterItems, ToggleFavorite, RefreshPot
<1>2. CASE DiskChanges \/ UNCHANGED vars
  <2>1. UNCHANGED <<inputVars, resultVars, requestVars, workerVars>>
    BY <1>2 DEF DiskChanges, vars
  <2> QED
    BY <2>1 DEF PotInv, inputVars, resultVars, requestVars, workerVars, BuildsAreNumbered,
      LatestIsUnique, SpinnerTellsWork, RefreshInWorkIsLatest, RefreshIsNeverSuperseded,
      LatestHasInput, PresetsMatchFilters, Settled, IsLatest, IsRefreshing, BuildInput,
      EffectiveExcludes
<1>3. CASE WorkerActs
  BY <1>3, StartsKeepInv, RefreshesKeepInv, FinishesKeepInv DEF WorkerActs
<1> QED
  BY <1>1, <1>2, <1>3 DEF Next

-----------------------------------------------------------------------------
(* Types *)

LEMMA AffectedAreKinds == \A hint : AffectedKinds(hint) \subseteq Kinds
BY DEF AffectedKinds, DependentKinds

LEMMA ItemsAreValues ==
  ASSUME NEW kind \in Kinds, NEW input, NEW content \in SUBSET Presets
  PROVE  FilterItems(kind, input, content) \subseteq Values
BY PotAssumption DEF FilterItems, Values

LEMMA InitTypeOK == Init => TypeOK
<1> SUFFICES ASSUME Init PROVE TypeOK
  OBVIOUS
<1>1. BuildInput \in Inputs
  BY DEF Init, BuildInput, EffectiveExcludes, Inputs
<1>2. tasks \cup working = {[number |-> 1, hint |-> TotalRefresh, input |-> BuildInput]}
  BY DEF Init
<1>3. \A t \in tasks \cup working : t \in Tasks
  BY <1>1, <1>2 DEF Tasks, Hints
<1> QED
  BY <1>1, <1>3, PotAssumption DEF Init, TypeOK, Hints

LEMMA RequestsKeepType ==
  ASSUME TypeOK, NEW hint \in Hints, RebuildCollections(hint),
         UNCHANGED <<resultVars, workerVars, disk>>,
         filters' \in [Kinds -> Values \cup {Any}], search' \in Searches,
         excludes' \in SUBSET (Kinds \X Values), showExcluded' \in BOOLEAN
  PROVE  TypeOK'
<1>1. BuildInput' \in Inputs
  BY DEF BuildInput, EffectiveExcludes, Inputs
<1>2. /\ buildCounter' \in Nat /\ ignored' \in BOOLEAN
      /\ missed' \subseteq Kinds /\ owed' \subseteq Kinds
  <2>1. AffectedKinds(hint) \subseteq Kinds
    BY AffectedAreKinds
  <2>2. CASE IsRefreshing
    BY <2>1, <2>2 DEF TypeOK, RebuildCollections, CountsRequest, Ignore
  <2>3. CASE ~IsRefreshing
    <3>1. /\ buildCounter' = buildCounter + 1 /\ ignored' = FALSE /\ missed' = {}
          /\ owed' = owed \cup missed \cup AffectedKinds(hint)
      BY <2>3 DEF RebuildCollections, CountsRequest, Enqueue
    <3>2. buildCounter \in Nat /\ missed \subseteq Kinds /\ owed \subseteq Kinds
      BY DEF TypeOK
    <3>3. owed' \subseteq Kinds
      BY <2>1, <3>1, <3>2
    <3>4. buildCounter' \in Nat
      BY <3>1, <3>2
    <3> QED
      BY <3>1, <3>3, <3>4, Zenon
  <2> QED
    BY <2>2, <2>3
<1>3. \A t \in tasks' \cup working' : t \in Tasks
  BY <1>1, <1>2 DEF TypeOK, RebuildCollections, Ignore, Enqueue, Tasks, workerVars
<1> QED
  BY <1>1, <1>2, <1>3 DEF TypeOK, resultVars, workerVars

LEMMA UserKeepsType == TypeOK /\ UserActs => TypeOK'
<1> SUFFICES ASSUME TypeOK, UserActs PROVE TypeOK'
  OBVIOUS
<1>1. /\ filters \in [Kinds -> Values \cup {Any}] /\ search \in Searches
      /\ excludes \in SUBSET (Kinds \X Values) /\ showExcluded \in BOOLEAN
      /\ collections \in [Kinds -> SUBSET Values]
  BY DEF TypeOK, BuildInput, Inputs
<1>2. ClearInvalidFilters => filters' \in [Kinds -> Values \cup {Any}]
  BY <1>1 DEF ClearInvalidFilters, ClearExcludedOnes
<1>3. ASSUME NEW k \in Kinds, NEW v \in collections[k] \cup {Any}, SetFilter(k, v) PROVE TypeOK'
  <2>1. Filter(k) \in Hints /\ filters' \in [Kinds -> Values \cup {Any}]
    BY <1>1, <1>3 DEF SetFilter, Hints
  <2> QED
    BY <1>1, <1>3, <2>1, RequestsKeepType DEF SetFilter
<1>4. ASSUME NEW s \in Searches, ChangeSearchExpression(s) PROVE TypeOK'
  BY <1>1, <1>4, RequestsKeepType DEF ChangeSearchExpression, Hints
<1>5. ASSUME NEW k \in AllowsExcludes, NEW v \in collections[k], IncludeFilterItem(k, v)
      PROVE  TypeOK'
  <2>1. excludes' \in SUBSET (Kinds \X Values)
    BY <1>1, <1>5 DEF IncludeFilterItem, AllowsExcludes
  <2> QED
    BY <1>1, <1>2, <1>5, <2>1, RequestsKeepType DEF IncludeFilterItem, Hints
<1>6. CASE SetShowExcludedFilterItems
  BY <1>1, <1>2, <1>6, RequestsKeepType DEF SetShowExcludedFilterItems, Hints
<1>7. CASE ToggleFavorite
  BY <1>1, <1>7, RequestsKeepType DEF ToggleFavorite, inputVars, Hints
<1>8. CASE RefreshPot
  BY <1>1, <1>8, RequestsKeepType DEF RefreshPot, inputVars, Hints
<1> QED
  BY <1>3, <1>4, <1>5, <1>6, <1>7, <1>8 DEF UserActs

LEMMA WorkerKeepsType == TypeOK /\ WorkerActs => TypeOK'
<1> SUFFICES ASSUME TypeOK, WorkerActs PROVE TypeOK'
  OBVIOUS
<1>1. \A t \in tasks \cup working : t.hint \in Hints /\ t.input \in Inputs
  BY DEF TypeOK, Tasks
<1>2. ASSUME NEW t \in tasks, StartBuild(t) PROVE TypeOK'
  <2>1. BuildInput' = BuildInput /\ running' \in Hints /\ refreshed' \in BOOLEAN
    BY <1>1, <1>2 DEF StartBuild, inputVars, BuildInput, EffectiveExcludes, TypeOK
  <2>2. tasks' \cup working' \subseteq tasks \cup working
    BY <1>2 DEF StartBuild
  <2> QED
    BY <1>2, <2>1, <2>2 DEF StartBuild, inputVars, resultVars, TypeOK
<1>3. ASSUME NEW t \in working, RefreshDatabases(t) PROVE TypeOK'
  BY <1>3 DEF RefreshDatabases, inputVars, resultVars, requestVars, TypeOK, BuildInput,
    EffectiveExcludes
<1>4. ASSUME NEW t \in working, FinishBuild(t) PROVE TypeOK'
  <2> DEFINE affected == AffectedKinds(t.hint)
             output == BuildCollections(t.input, affected, Contents[crawled])
  <2>1. /\ UNCHANGED <<search, excludes, showExcluded, buildCounter, tasks, ignored, missed,
                       refreshed, crawled, disk>>
        /\ working' = {}
    BY <1>4 DEF FinishBuild
  <2>2. Contents[crawled] \subseteq Presets
    BY PotAssumption DEF TypeOK
  <2>3. output.presets \subseteq Presets /\ output.items \in [Kinds -> SUBSET Values]
    BY <2>2, ItemsAreValues DEF BuildCollections, PresetsFor
  <2>4. filters \in [Kinds -> Values \cup {Any}] /\ collections \in [Kinds -> SUBSET Values]
    BY DEF TypeOK, BuildInput, Inputs
  <2>5. /\ filters' \in [Kinds -> Values \cup {Any}]
        /\ collections' \in [Kinds -> SUBSET Values]
        /\ presets' \subseteq Presets
        /\ running' \in Hints
        /\ owed' \subseteq Kinds
    <3>1. CASE IsLatest(t)
      <4>1. NotifyBuildOutcomeReady(output, affected)
        BY <1>4, <3>1 DEF FinishBuild
      <4>2. collections' \in [Kinds -> SUBSET Values]
        BY <4>1, <2>3, <2>4 DEF NotifyBuildOutcomeReady, MergedCollections
      <4>3. filters' \in [Kinds -> Values \cup {Any}]
        BY <4>1, <2>4 DEF NotifyBuildOutcomeReady, RemainingFilters, ClearIfNotAvailableAnymore
      <4> QED
        BY <4>1, <4>2, <4>3, <2>3 DEF NotifyBuildOutcomeReady, TaskAfterBuild, TypeOK, Hints
    <3>2. CASE ~IsLatest(t)
      BY <1>4, <3>2, <2>4 DEF FinishBuild, resultVars, TypeOK
    <3> QED
      BY <3>1, <3>2
  <2>6. BuildInput' \in Inputs
    BY <2>1, <2>5 DEF TypeOK, BuildInput, EffectiveExcludes, Inputs
  <2> QED
    BY <2>1, <2>5, <2>6 DEF TypeOK
<1> QED
  BY <1>2, <1>3, <1>4 DEF WorkerActs

LEMMA NextTypeOK == TypeOK /\ [Next]_vars => TypeOK'
<1> SUFFICES ASSUME TypeOK, DiskChanges \/ UNCHANGED vars PROVE TypeOK'
  BY UserKeepsType, WorkerKeepsType DEF Next
<1>1. UNCHANGED <<inputVars, resultVars, requestVars, workerVars>> /\ disk' \in DOMAIN Contents
  BY DEF DiskChanges, vars, TypeOK
<1> QED
  BY <1>1 DEF TypeOK, inputVars, resultVars, requestVars, workerVars, BuildInput, EffectiveExcludes

-----------------------------------------------------------------------------
(* Displayed filter items *)

(* The items of kinds that no build owes are among those which the         *)
(* databases would come up with now.                                       *)
ItemsFit ==
  \A k \in Kinds \ (owed \cup missed) :
    collections[k] \subseteq FilterItems(k, BuildInput, Contents[crawled])

(* The latest build makes up for what it owes, with an input that is still *)
(* good for all kinds but those affected by ignored changes.               *)
LatestBuildDelivers ==
  \A t \in tasks \cup working : IsLatest(t) =>
    /\ AffectedKinds(t.hint) \subseteq owed
    /\ \A k \in Kinds \ missed, i \in DOMAIN Contents :
         FilterItems(k, t.input, Contents[i]) \subseteq FilterItems(k, BuildInput, Contents[i])

ItemsInv ==
  /\ ItemsFit
  /\ LatestBuildDelivers
  /\ ~ignored => missed = {}

LEMMA InitItemsInv == Init => ItemsInv
<1> SUFFICES ASSUME Init PROVE ItemsInv
  OBVIOUS
<1>1. \A t \in tasks \cup working : t.hint = TotalRefresh /\ t.input = BuildInput
  BY DEF Init
<1> QED
  BY <1>1, AffectedAreKinds DEF Init, ItemsInv, ItemsFit, LatestBuildDelivers

(* No two of the kinds are at the same position. *)
LEMMA PositionsDiffer ==
  \A j, k \in Kinds : j # k /\ j \notin DependentKinds(k) => k \in DependentKinds(j)
BY PotAssumption DEF DependentKinds, DependencyPosition

(* Changing the filter of a kind only affects the items of its dependents. *)
LEMMA OnlyDependentsAreAffected ==
  ASSUME NEW kind \in Kinds, NEW item, NEW k \in Kinds \ DependentKinds(kind), NEW content,
         NEW input, NEW changed,
         input.filters = [j \in Kinds |-> input.filters[j]],
         changed.filters = [input.filters EXCEPT ![kind] = item],
         changed.excludes = input.excludes
  PROVE  FilterItems(k, changed, content) = FilterItems(k, input, content)
<1>1. k = kind \/ kind \in DependentKinds(k)
  BY PositionsDiffer
<1>2. \A j \in Kinds : j # kind => changed.filters[j] = input.filters[j]
  OBVIOUS
<1>3. ClearThisAndDependentFilters(changed.filters, k)
        = ClearThisAndDependentFilters(input.filters, k)
  BY <1>1, <1>2 DEF ClearThisAndDependentFilters
<1> QED
  BY <1>3 DEF FilterItems

(* Clearing filters can only make more items available. *)
LEMMA ClearingAddsItems ==
  ASSUME NEW k \in Kinds, NEW content \in SUBSET Presets, NEW input, NEW cleared,
         \A j \in Kinds : cleared.filters[j] \in {Any, input.filters[j]},
         cleared.excludes = input.excludes
  PROVE  FilterItems(k, input, content) \subseteq FilterItems(k, cleared, content)
<1> DEFINE old == ClearThisAndDependentFilters(input.filters, k)
           new == ClearThisAndDependentFilters(cleared.filters, k)
<1>1. \A j \in Kinds : new[j] \in {Any, old[j]}
  BY DEF ClearThisAndDependentFilters
<1>2. ASSUME NEW p \in Presets PROVE Matches(p, old, input.excludes) => Matches(p, new, cleared.excludes)
  <2>1. \A c \in Cores[p] : DOMAIN c \subseteq Kinds
    BY PotAssumption
  <2> QED
    BY <1>1, <2>1 DEF Matches
<1> QED
  BY <1>2 DEF FilterItems

LEMMA RequestsKeepItems ==
  ASSUME PotInv, ItemsInv, NEW hint, RebuildCollections(hint),
         UNCHANGED <<resultVars, workerVars, disk>>,
         \A k \in Kinds \ AffectedKinds(hint), i \in DOMAIN Contents :
           FilterItems(k, BuildInput', Contents[i]) = FilterItems(k, BuildInput, Contents[i]),
         crawled \in DOMAIN Contents
  PROVE  ItemsInv'
<1> USE DEF resultVars, workerVars
<1>1. CASE IsRefreshing /\ BuildInput' = BuildInput
  <2>1. UNCHANGED <<buildCounter, tasks, owed, missed, ignored>>
    BY <1>1 DEF RebuildCollections, CountsRequest, Ignore
  <2> QED
    BY <1>1, <2>1 DEF ItemsInv, ItemsFit, LatestBuildDelivers, IsLatest
<1>2. CASE IsRefreshing /\ BuildInput' # BuildInput
  <2>1. /\ UNCHANGED <<buildCounter, tasks, owed>>
        /\ missed' = missed \cup AffectedKinds(hint) /\ ignored'
    BY <1>2 DEF RebuildCollections, CountsRequest, Ignore
  <2> QED
    BY <2>1 DEF ItemsInv, ItemsFit, LatestBuildDelivers, IsLatest
<1>3. CASE ~IsRefreshing
  <2> DEFINE new == [number |-> buildCounter + 1, hint |-> hint, input |-> BuildInput']
  <2>1. /\ buildCounter' = buildCounter + 1
        /\ tasks' = tasks \cup {new}
        /\ missed' = {}
        /\ owed' = owed \cup missed \cup AffectedKinds(hint)
    BY <1>3 DEF RebuildCollections, CountsRequest, Enqueue
  <2>2. \A t \in tasks \cup working : ~IsLatest(t)'
    BY <2>1 DEF PotInv, BuildsAreNumbered, IsLatest
  <2>3. LatestBuildDelivers'
    BY <2>1, <2>2 DEF LatestBuildDelivers
  <2>4. ItemsFit'
    BY <2>1 DEF ItemsInv, ItemsFit
  <2> QED
    BY <2>1, <2>3, <2>4 DEF ItemsInv
<1> QED
  BY <1>1, <1>2, <1>3

LEMMA UserKeepsItems == TypeOK /\ PotInv /\ ItemsInv /\ UserActs => ItemsInv'
<1> SUFFICES ASSUME TypeOK, PotInv, ItemsInv, UserActs PROVE ItemsInv'
  OBVIOUS
<1>1. crawled \in DOMAIN Contents /\ filters = [j \in Kinds |-> filters[j]]
  BY DEF TypeOK, BuildInput, Inputs
<1>2. ASSUME NEW k \in Kinds, NEW v, SetFilter(k, v) PROVE ItemsInv'
  <2>1. /\ BuildInput'.filters = [BuildInput.filters EXCEPT ![k] = v]
        /\ BuildInput'.excludes = BuildInput.excludes
        /\ BuildInput.filters = [j \in Kinds |-> BuildInput.filters[j]]
        /\ AffectedKinds(Filter(k)) = DependentKinds(k)
    BY <1>1, <1>2 DEF SetFilter, BuildInput, EffectiveExcludes, AffectedKinds, Filter, Hint
  <2>2. \A j \in Kinds \ AffectedKinds(Filter(k)), i \in DOMAIN Contents :
          FilterItems(j, BuildInput', Contents[i]) = FilterItems(j, BuildInput, Contents[i])
    BY <2>1, OnlyDependentsAreAffected
  <2> QED
    BY <1>1, <1>2, <2>2, RequestsKeepItems DEF SetFilter
<1>3. ASSUME NEW s, ChangeSearchExpression(s) PROVE ItemsInv'
  <2>1. BuildInput'.filters = BuildInput.filters /\ BuildInput'.excludes = BuildInput.excludes
    BY <1>3 DEF ChangeSearchExpression, BuildInput, EffectiveExcludes
  <2>2. \A j, i : FilterItems(j, BuildInput', Contents[i]) = FilterItems(j, BuildInput, Contents[i])
    BY <2>1 DEF FilterItems
  <2> QED
    BY <1>1, <1>3, <2>2, RequestsKeepItems DEF ChangeSearchExpression
<1>4. CASE (\E k, v : IncludeFilterItem(k, v)) \/ SetShowExcludedFilterItems
  <2>1. AffectedKinds(Normal) = Kinds
    BY DEF AffectedKinds, Normal, Hint
  <2> QED
    BY <1>1, <1>4, <2>1, RequestsKeepItems DEF IncludeFilterItem, SetShowExcludedFilterItems
<1>5. CASE ToggleFavorite \/ RefreshPot
  <2>1. BuildInput' = BuildInput
    BY <1>5 DEF ToggleFavorite, RefreshPot, inputVars, BuildInput, EffectiveExcludes
  <2> QED
    BY <1>1, <1>5, <2>1, RequestsKeepItems DEF ToggleFavorite, RefreshPot
<1> QED
  BY <1>2, <1>3, <1>4, <1>5 DEF UserActs

LEMMA WorkerKeepsItems == TypeOK /\ PotInv /\ ItemsInv /\ WorkerActs => ItemsInv'
<1> SUFFICES ASSUME TypeOK, PotInv, ItemsInv, WorkerActs PROVE ItemsInv'
  OBVIOUS
<1>1. ASSUME NEW t \in tasks, StartBuild(t) PROVE ItemsInv'
  <2>1. /\ UNCHANGED <<inputVars, resultVars, buildCounter, ignored, missed, owed, crawled>>
        /\ tasks' \cup working' \subseteq tasks \cup working
    BY <1>1 DEF StartBuild
  <2> QED
    BY <2>1 DEF ItemsInv, ItemsFit, LatestBuildDelivers, IsLatest, inputVars, resultVars,
      BuildInput, EffectiveExcludes
<1>2. ASSUME NEW t \in working, RefreshDatabases(t) PROVE ItemsInv'
  <2>1. UNCHANGED <<inputVars, resultVars, requestVars, working>>
    BY <1>2 DEF RefreshDatabases
  <2>2. IsLatest(t) /\ AffectedKinds(t.hint) = Kinds
    BY <1>2 DEF RefreshDatabases, NeedsRefresh, PotInv, RefreshInWorkIsLatest, AffectedKinds
  <2>3. Kinds \subseteq owed'
    BY <2>1, <2>2 DEF ItemsInv, LatestBuildDelivers, requestVars
  <2> QED
    BY ZenonT(60), <2>1, <2>3 DEF ItemsInv, ItemsFit, LatestBuildDelivers, IsLatest, inputVars, requestVars,
      BuildInput, EffectiveExcludes
<1>3. ASSUME NEW t \in working, FinishBuild(t), IsLatest(t) PROVE ItemsInv'
  <2> DEFINE affected == AffectedKinds(t.hint)
             content == Contents[crawled]
             items == [k \in Kinds |-> FilterItems(k, t.input, content)]
  <2>1. /\ UNCHANGED <<search, excludes, showExcluded, buildCounter, tasks, ignored, missed,
                       crawled>>
        /\ working' = {}
        /\ collections' = MergedCollections(items, affected)
        /\ filters' = ClearIfNotAvailableAnymore(filters, affected, collections')
        /\ owed' = owed \ affected
    BY <1>3 DEF FinishBuild, NotifyBuildOutcomeReady, BuildCollections, RemainingFilters
  <2>2. crawled \in DOMAIN Contents /\ content \subseteq Presets
    BY PotAssumption DEF TypeOK
  <2>3. /\ \A j \in Kinds : BuildInput'.filters[j] \in {Any, BuildInput.filters[j]}
        /\ BuildInput'.excludes = BuildInput.excludes
    BY <2>1 DEF BuildInput, EffectiveExcludes, ClearIfNotAvailableAnymore
  <2>4. \A k \in Kinds :
          FilterItems(k, BuildInput, content) \subseteq FilterItems(k, BuildInput', content)
    BY <2>2, <2>3, ClearingAddsItems
  <2>5. ASSUME NEW k \in Kinds \ (owed' \cup missed')
        PROVE  collections'[k] \subseteq FilterItems(k, BuildInput, content)
    <3>1. CASE k \in affected
      <4>1. collections'[k] = FilterItems(k, t.input, content)
        BY <2>1, <3>1 DEF MergedCollections
      <4> QED
        BY <1>3, <2>1, <2>2, <2>5, <4>1 DEF ItemsInv, LatestBuildDelivers
    <3>2. CASE k \notin affected
      <4>1. collections'[k] = collections[k]
        BY <2>1, <3>2 DEF MergedCollections
      <4> QED
        BY <2>1, <2>5, <3>2, <4>1 DEF ItemsInv, ItemsFit
    <3> QED
      BY <3>1, <3>2
  <2>6. ItemsFit'
    BY <2>1, <2>4, <2>5 DEF ItemsFit
  <2>7. \A u \in tasks' \cup working' : ~IsLatest(u)'
    BY <1>3, <2>1 DEF PotInv, LatestIsUnique, IsLatest
  <2> QED
    BY <2>1, <2>6, <2>7 DEF ItemsInv, LatestBuildDelivers
<1>4. ASSUME NEW t \in working, FinishBuild(t), ~IsLatest(t) PROVE ItemsInv'
  <2>1. /\ UNCHANGED <<filters, search, excludes, showExcluded, resultVars, buildCounter, tasks,
                       ignored, missed, owed, crawled>>
        /\ working' = {}
    BY <1>4 DEF FinishBuild
  <2> QED
    BY SMTT(30), <2>1 DEF ItemsInv, ItemsFit, LatestBuildDelivers, IsLatest, resultVars, BuildInput,
      EffectiveExcludes
<1> QED
  BY <1>1, <1>2, <1>3, <1>4 DEF WorkerActs

LEMMA NextItemsInv == TypeOK /\ PotInv /\ ItemsInv /\ [Next]_vars => ItemsInv'
<1> SUFFICES ASSUME ItemsInv, DiskChanges \/ UNCHANGED vars PROVE ItemsInv'
  BY UserKeepsItems, WorkerKeepsItems DEF Next
<1>1. UNCHANGED <<inputVars, resultVars, requestVars, workerVars>>
  BY DEF DiskChanges, vars
<1> QED
  BY ZenonT(60), <1>1 DEF ItemsInv, ItemsFit, LatestBuildDelivers, IsLatest, inputVars, resultVars,
    requestVars, workerVars, BuildInput, EffectiveExcludes

-----------------------------------------------------------------------------
(* A running refresh is the latest build, so its outcome is never thrown   *)
(* away and the unit never stays refreshing for good (rebuild_collections, *)
(* is_refreshing).                                                         *)
THEOREM RefreshesAreNeverWasted == Spec => []RefreshIsNeverSuperseded
<1>1. PotInv => RefreshIsNeverSuperseded
  BY DEF PotInv
<1> QED
  BY InitPotInv, NextPotInv, <1>1, PTL DEF Spec

(* When nothing is outstanding and no change was ignored, the displayed    *)
(* presets are those which the filters, search expression and excludes ask *)
(* for (rebuild_collections, notify_build_outcome_ready).                  *)
THEOREM SettledUnitsShowMatches == Spec => []PresetsMatchFilters
<1>1. PotInv => PresetsMatchFilters
  BY DEF PotInv
<1> QED
  BY InitPotInv, NextPotInv, <1>1, PTL DEF Spec

(* Type correctness of the preset browser. *)
THEOREM PotUnitTypes == Spec => []TypeOK
BY InitTypeOK, NextTypeOK, PTL DEF Spec

(* When nothing is outstanding, each displayed filter item is one which    *)
(* the databases would come up with now, unless its kind is still owed     *)
(* (affected_kinds, notify_build_outcome_ready).                           *)
THEOREM ListedItemsStayCurrent == Spec => []ListedItemsAreCurrent
<1>1. ItemsInv => ListedItemsAreCurrent
  BY DEF ItemsInv, ItemsFit, ListedItemsAreCurrent
<1> QED
  BY InitPotInv, NextPotInv, InitTypeOK, NextTypeOK, InitItemsInv, NextItemsInv, <1>1, PTL DEF Spec
=============================================================================
