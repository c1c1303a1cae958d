------------------------------ MODULE PotUnit ------------------------------
(***************************************************************************)
(* The preset browser of one instance (pot/src/lib.rs, RuntimePotUnit).    *)
(* The main thread changes filters, search expression and excludes and     *)
(* requests a build of what the user sees: the filter items of each kind   *)
(* and the presets. The pot worker, a runtime with a single thread, serves *)
(* the requests one at a time. Both share the unit under a mutex, which    *)
(* the worker releases while it refreshes the databases and while it       *)
(* queries them, so requests arrive in the middle of a build.              *)
(*                                                                         *)
(* Requests wait in a set: the runtime promises no order, and a debounced  *)
(* request just waits longer. The model leaves out what no build depends   *)
(* on (preview sounds, destination, the selected preset), the kinds whose  *)
(* items are constant, and the database of Komplete with the kinds that    *)
(* only it supports. All others look for presets in memory: in directories *)
(* and projects, where a preset may use several plug-ins, thus belong to   *)
(* several products at once, among the saved and the default FX presets.   *)
(***************************************************************************)
EXTENDS Integers

CONSTANTS
  Kinds,      \* the filter kinds looked at, none of those with constant items
  Databases,  \* the provider databases, the items of kind "Database"
  Presets,    \* everything that can be found on disk
  Cores,      \* Cores[p]: per plug-in of preset p, its item of each kind its database supports
  Hits,       \* Hits[s]: the presets which match search expression s
  Contents,   \* Contents[i]: the presets on disk, one way or the other; 0: none
  Selectable, \* the pairs of kind and item which the user ever selects (bound)
  Excludable, \* the pairs of kind and item which the user ever excludes (bound)
  MaxBuilds   \* bound on the number of requested builds

Any == "any"  \* no filter set
Searches == DOMAIN Hits
Values == Databases \cup UNION {{c[k] : k \in DOMAIN c} : c \in UNION {Cores[p] : p \in Presets}}

(* Filter kinds with lower positions affect those with higher ones. *)
DependencyPosition ==
  [Database |-> 0, IsAvailable |-> 0, IsSupported |-> 0, IsUser |-> 0, ProductKind |-> 0,
   IsFavorite |-> 0, Project |-> 1, Bank |-> 2, SubBank |-> 3, Category |-> 4,
   SubCategory |-> 5, Mode |-> 6, HasPreview |-> 7]

AllowsExcludes == {"Database", "Bank", "SubBank"} \cap Kinds

ASSUME PotAssumption ==
  /\ Kinds \subseteq {"Database", "Project", "Bank"}
  /\ \A p \in Presets : \A c, d \in Cores[p] :
       DOMAIN c = DOMAIN d /\ \A k \in DOMAIN c : k \in Kinds /\ (k = "Bank" \/ c[k] = d[k])
  /\ Any \notin Values
  /\ \A s \in Searches : Hits[s] \subseteq Presets
  /\ \A i \in DOMAIN Contents : Contents[i] \subseteq Presets
  /\ {0, 1} \subseteq DOMAIN Contents
  /\ Contents[0] = {}
  /\ MaxBuilds \in Nat

VARIABLES
  filters,       \* the selected item of each kind, or Any
  search,        \* the search expression
  excludes,      \* the excluded items, pairs of kind and item
  showExcluded,  \* whether excluded items are displayed nevertheless
  buildCounter,  \* the number of the latest requested build
  running,       \* change hint of the build for which the spinner turns
  collections,   \* the displayed filter items of each kind
  presets,       \* the displayed presets
  tasks,         \* builds which the worker hasn't started yet
  working,       \* the build which the worker is busy with, if any
  refreshed,     \* whether that build has refreshed the databases
  disk,          \* which contents are on disk
  crawled,       \* which contents the databases know
  ignored,       \* history: whether a change was ignored since the latest request
  missed,        \* history: the kinds affected by such changes
  owed           \* history: kinds affected by changes before that request, not rebuilt since

inputVars == <<filters, search, excludes, showExcluded>>
resultVars == <<collections, presets>>
requestVars == <<buildCounter, tasks, ignored, missed, owed>>
workerVars == <<running, working, refreshed, crawled>>
vars == <<inputVars, resultVars, requestVars, workerVars, disk>>

Hint(change, kind) == [change |-> change, kind |-> kind]
NoHint == Hint("None", "none")
Normal == Hint("Normal", "none")
TotalRefresh == Hint("TotalRefresh", "none")
SearchExpression == Hint("SearchExpression", "none")
Filter(kind) == Hint("Filter", kind)

\* Mutant: no kind depends on another.
NoKinds(kind) == {}

DependentKinds(kind) == {k \in Kinds : DependencyPosition[k] > DependencyPosition[kind]}

AffectedKinds(hint) ==
  CASE hint.change = "Filter" -> DependentKinds(hint.kind)
    [] hint.change = "SearchExpression" -> {}
    [] OTHER -> Kinds

-----------------------------------------------------------------------------
(* What a build computes *)

EffectiveExcludes == IF showExcluded THEN {} ELSE excludes
BuildInput == [filters |-> filters, search |-> search, excludes |-> EffectiveExcludes]

(* A preset matches if any of its plug-ins passes all filters of the kinds *)
(* which the database knows, and isn't excluded.                           *)
Matches(p, fs, excluded) ==
  \E c \in Cores[p] : \A k \in DOMAIN c : fs[k] \in {Any, c[k]} /\ <<k, c[k]>> \notin excluded

(* A database that doesn't know a kind has no presets if it is filtered.   *)
NoUnsupportedFilterIsSet(p, fs) == \A c \in Cores[p] : \A k \in Kinds \ DOMAIN c : fs[k] = Any

ClearThisAndDependentFilters(fs, kind) ==
  [k \in Kinds |-> IF k = kind \/ k \in DependentKinds(kind) THEN Any ELSE fs[k]]

(* The items of a kind depend on the filters of lower kinds, those of      *)
(* "Database" just on the excludes: a database is listed even if it has no *)
(* presets. A preset contributes the items of all its plug-ins, also of    *)
(* those which don't match or are excluded.                                *)
FilterItems(kind, input, content) ==
  IF kind = "Database"
    THEN {d \in Databases : <<kind, d>> \notin input.excludes}
    ELSE LET fs == ClearThisAndDependentFilters(input.filters, kind)
             matching == {p \in content : Matches(p, fs, input.excludes)}
         IN {c[kind] : c \in {d \in UNION {Cores[p] : p \in matching} : kind \in DOMAIN d}}

ClearIfNotAvailableAnymore(fs, affected, items) ==
  [k \in Kinds |-> IF k \in affected /\ fs[k] \notin items[k] THEN Any ELSE fs[k]]

ClearExcludedOnes(fs, excluded) ==
  [k \in Kinds |-> IF <<k, fs[k]>> \in excluded THEN Any ELSE fs[k]]

PresetsFor(fs, input, content) ==
  {p \in content \cap Hits[input.search] :
     NoUnsupportedFilterIsSet(p, fs) /\ Matches(p, fs, input.excludes)}

(* Filters whose item isn't available anymore don't influence the presets. *)
BuildCollections(input, affected, content) ==
  LET items == [k \in Kinds |-> FilterItems(k, input, content)]
      remaining == ClearIfNotAvailableAnymore(input.filters, affected, items)
  IN [items |-> items, presets |-> PresetsFor(remaining, input, content)]

-----------------------------------------------------------------------------
(* The main thread *)

IsRefreshing == running.change = "TotalRefresh"

\* Mutant: counts the request before it looks whether a refresh is running.
CountsEachRequest == TRUE

CountsRequest == ~IsRefreshing

Ignore(hint) ==
  /\ IF BuildInput' = BuildInput
       THEN UNCHANGED <<ignored, missed>>
       ELSE ignored' = TRUE /\ missed' = missed \cup AffectedKinds(hint)
  /\ UNCHANGED <<tasks, owed>>

Enqueue(hint) ==
  /\ tasks' = tasks \cup {[number |-> buildCounter', hint |-> hint, input |-> BuildInput']}
  /\ ignored' = FALSE
  /\ missed' = {}
  /\ owed' = owed \cup missed \cup AffectedKinds(hint)

(* Last step of each operation below: requests a build of the new input,  *)
(* except while a refresh is running.                                     *)
RebuildCollections(hint) ==
  /\ IF CountsRequest
       THEN buildCounter < MaxBuilds /\ buildCounter' = buildCounter + 1
       ELSE UNCHANGED buildCounter
  /\ IF IsRefreshing THEN Ignore(hint) ELSE Enqueue(hint)

(* The user or a mapping selects one of the displayed items, or none. *)
SetFilter(kind, item) ==
  /\ filters' = [filters EXCEPT ![kind] = item]
  /\ UNCHANGED <<search, excludes, showExcluded>>
  /\ RebuildCollections(Filter(kind))
  /\ UNCHANGED <<resultVars, workerVars, disk>>

ChangeSearchExpression(expression) ==
  /\ search' = expression
  /\ UNCHANGED <<filters, excludes, showExcluded>>
  /\ RebuildCollections(SearchExpression)
  /\ UNCHANGED <<resultVars, workerVars, disk>>

ClearInvalidFilters ==
  filters' = IF showExcluded' THEN filters ELSE ClearExcludedOnes(filters, excludes')

(* The context menu of a displayed item excludes it, or includes it again. *)
IncludeFilterItem(kind, item) ==
  /\ excludes' = IF <<kind, item>> \in excludes THEN excludes \ {<<kind, item>>}
                 ELSE excludes \cup {<<kind, item>>}
  /\ UNCHANGED <<search, showExcluded>>
  /\ ClearInvalidFilters
  /\ RebuildCollections(Normal)
  /\ UNCHANGED <<resultVars, workerVars, disk>>

SetShowExcludedFilterItems ==
  /\ showExcluded' = ~showExcluded
  /\ UNCHANGED <<search, excludes>>
  /\ ClearInvalidFilters
  /\ RebuildCollections(Normal)
  /\ UNCHANGED <<resultVars, workerVars, disk>>

(* Favorites aren't part of the build input yet. *)
ToggleFavorite ==
  /\ UNCHANGED inputVars
  /\ RebuildCollections(Filter("IsFavorite"))
  /\ UNCHANGED <<resultVars, workerVars, disk>>

RefreshPot ==
  /\ UNCHANGED inputVars
  /\ RebuildCollections(TotalRefresh)
  /\ UNCHANGED <<resultVars, workerVars, disk>>

(* Preset files come and go. *)
DiskChanges ==
  /\ disk + 1 \in DOMAIN Contents
  /\ disk' = disk + 1
  /\ UNCHANGED <<inputVars, resultVars, requestVars, workerVars>>

-----------------------------------------------------------------------------
(* The pot worker *)

IsLatest(task) == task.number = buildCounter

(* A build which has been superseded already isn't worth to be started. *)
StartBuild(task) ==
  /\ working = {}
  /\ tasks' = tasks \ {task}
  /\ IF IsLatest(task)
       THEN /\ working' = {task}
            /\ running' = task.hint
            /\ refreshed' = FALSE
       ELSE UNCHANGED <<working, running, refreshed>>
  /\ UNCHANGED <<inputVars, resultVars, buildCounter, ignored, missed, owed, crawled, disk>>

NeedsRefresh(task) == task.hint.change = "TotalRefresh" /\ ~refreshed

RefreshDatabases(task) ==
  /\ NeedsRefresh(task)
  /\ crawled' = disk
  /\ refreshed' = TRUE
  /\ UNCHANGED <<inputVars, resultVars, requestVars, running, working, disk>>

\* Mutant: the displayed collections are replaced as a whole.
MergedWithNothing(items, affected) == [k \in affected |-> items[k]]

(* The rebuilt kinds replace the displayed ones. *)
MergedCollections(items, affected) ==
  [k \in Kinds |-> IF k \in affected THEN items[k] ELSE collections[k]]

\* Mutant: filters are checked against the items displayed before.
FiltersFitOldItems(affected) == ClearIfNotAvailableAnymore(filters, affected, collections)

RemainingFilters(affected) == ClearIfNotAvailableAnymore(filters, affected, collections')

\* Mutant: the finished build isn't reset.
TaskStays == running

TaskAfterBuild == NoHint

(* The unit's part of finishing a build which is the latest. *)
NotifyBuildOutcomeReady(output, affected) ==
  /\ running' = TaskAfterBuild
  /\ presets' = output.presets
  /\ collections' = MergedCollections(output.items, affected)
  /\ filters' = RemainingFilters(affected)
  /\ owed' = owed \ affected

(* The outcome of a build which has been superseded meanwhile is wasted. *)
FinishBuild(task) ==
  LET affected == AffectedKinds(task.hint) IN
  /\ ~NeedsRefresh(task)
  /\ working' = {}
  /\ IF IsLatest(task)
       THEN NotifyBuildOutcomeReady(BuildCollections(task.input, affected, Contents[crawled]),
                                    affected)
       ELSE UNCHANGED <<filters, resultVars, running, owed>>
  /\ UNCHANGED <<search, excludes, showExcluded, buildCounter, tasks, ignored, missed,
                 refreshed, crawled, disk>>

-----------------------------------------------------------------------------
(* A unit starts with nothing displayed and requests a refresh at once.    *)
(* The search expression is empty, so it matches everything. The first     *)
(* unit finds databases which have never been refreshed.                   *)
Init ==
  /\ filters = [k \in Kinds |-> Any]
  /\ search \in {s \in Searches : Hits[s] = Presets}
  /\ excludes = {}
  /\ showExcluded = FALSE
  /\ buildCounter = 1
  /\ running = NoHint
  /\ collections = [k \in Kinds |-> {}]
  /\ presets = {}
  /\ tasks = {[number |-> 1, hint |-> TotalRefresh, input |-> BuildInput]}
  /\ working = {}
  /\ refreshed = FALSE
  /\ disk = 1
  /\ crawled = 0
  /\ ignored = FALSE
  /\ missed = {}
  /\ owed = Kinds

UserActs ==
  \/ \E k \in Kinds : \E v \in collections[k] \cup {Any} :
       (v = Any \/ <<k, v>> \in Selectable) /\ SetFilter(k, v)
  \/ \E s \in Searches \ {search} : ChangeSearchExpression(s)
  \/ \E k \in AllowsExcludes : \E v \in collections[k] :
       <<k, v>> \in Excludable /\ IncludeFilterItem(k, v)
  \/ SetShowExcludedFilterItems
  \/ ToggleFavorite
  \/ RefreshPot

WorkerActs ==
  \/ \E t \in tasks : StartBuild(t)
  \/ \E t \in working : RefreshDatabases(t)
  \/ \E t \in working : FinishBuild(t)

Next == UserActs \/ DiskChanges \/ WorkerActs

(* The worker thread is scheduled and its queries end. *)
Spec == Init /\ [][Next]_vars /\ WF_vars(WorkerActs)

-----------------------------------------------------------------------------
Inputs == [filters : [Kinds -> Values \cup {Any}], search : Searches,
           excludes : SUBSET (Kinds \X Values)]
Hints == {NoHint, Normal, TotalRefresh, SearchExpression}
           \cup {Filter(k) : k \in Kinds \cup {"IsFavorite"}}
Tasks == [number : Nat, hint : Hints, input : Inputs]

(* Type invariant of the unit, its requests and the worker. *)
TypeOK ==
  /\ BuildInput \in Inputs
  /\ excludes \in SUBSET (Kinds \X Values)
  /\ showExcluded \in BOOLEAN
  /\ buildCounter \in Nat
  /\ running \in Hints
  /\ collections \in [Kinds -> SUBSET Values]
  /\ presets \subseteq Presets
  /\ \A t \in tasks \cup working : t \in Tasks
  /\ refreshed \in BOOLEAN
  /\ disk \in DOMAIN Contents
  /\ crawled \in DOMAIN Contents
  /\ ignored \in BOOLEAN
  /\ missed \subseteq Kinds
  /\ owed \subseteq Kinds

(* Nothing requested is outstanding: the latest build is neither waiting  *)
(* nor being worked on.                                                   *)
Settled == \A t \in tasks \cup working : ~IsLatest(t)

(* A refresh lets no other build be requested until it ends. So the       *)
(* running one is always the latest, and its outcome, which alone ends    *)
(* the refresh and lets the user's changes take effect again, is never    *)
(* thrown away (rebuild_collections returns early before it increases the *)
(* build counter).                                                        *)
RefreshIsNeverSuperseded ==
  IsRefreshing => \E t \in working : IsLatest(t)

(* When nothing is outstanding, the displayed presets are exactly those   *)
(* which match the filters, search expression and excludes as they are    *)
(* now, in whatever order the builds were requested, superseded and run,  *)
(* and although a build may have cleared filters in between. Doesn't hold *)
(* for changes made while a refresh was running, which are ignored.       *)
PresetsMatchFilters ==
  Settled /\ ~ignored => presets = PresetsFor(filters, BuildInput, Contents[crawled])

(* When nothing is outstanding, no stale filter item is on display: each   *)
(* is among those which the databases would come up with now, although     *)
(* builds replace different kinds of items, are superseded and clear       *)
(* filters on which other items depend. Such an item needn't lead to a     *)
(* preset: databases are listed anyway, and so are an excluded product of  *)
(* a preset which also uses another one, and the products in databases     *)
(* that don't know a filtered kind. Doesn't hold for kinds whose rebuild   *)
(* was wasted, or ignored, and which no build affected that came later     *)
(* (affected_kinds, notify_build_outcome_ready).                           *)
ListedItemsAreCurrent ==
  Settled /\ ~ignored =>
    \A k \in Kinds \ owed : collections[k] \subseteq FilterItems(k, BuildInput, Contents[crawled])

(* Each requested build or a later one ends up on display and the spinner *)
(* stops, with a user who can do just so many things.                     *)
ChangesShow == ~Settled ~> Settled /\ running = NoHint
=============================================================================
