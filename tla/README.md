# Formal models of ReaLearn

ReaLearn (crate `main`, with the crates `pot`, `allocator`, `rx-util` and `base`) connects MIDI, OSC and Stream Deck controllers
with REAPER. A *unit* holds mappings from a source (control element) to a target. Control flows from source to target, feedback
(lights, motor faders) from target to source. Many units run in the same process and may share controllers.

This directory holds TLA+ models of the parts of that system which are hard to test, TLC configurations and TLAPS proofs.
Line numbers in `PROJECT.json` ("map") connect each definition with the code it stands for.

## 1. Inventory

Threads: REAPER's *main thread* calls the control surface (about 30 times per second), the user interface and the plug-in's
main-thread callbacks. *Audio threads* call the global audio hook before and after each block and the plug-in's `process`. The pot
worker, the deallocation thread and servers talk to the main thread through channels or mutexes. Main thread code is not concurrent
with itself, but it is interleaved at the granularity of callbacks, queue tasks and await points.

| Component | State | Operations | Talks to | Hard about it | Correct if |
|---|---|---|---|---|---|
| Device usage tables (`domain/backbone.rs`) | units per control input and feedback output, superior units | `update_io_usage`, `make_superior/inferior`, `control/feedback_is_allowed` | main processors and control surface (calls) | incremental update of two tables, decisions by counting | one device per unit and table, floors respected, changes reported |
| Feedback orchestration (`domain/main_processor.rs`, `domain/control_surface.rs`) | per unit: settings, enabled flags, mappings, memory of sent feedback; global: event queue | settings, mappings, single mapping, activation, target value, conditions, circumstances, drop; event processing | event queue, usage tables, audio hook (lights) | events of several units cross; state changes between release and takeover | unused lights off, used lights current, floors effective, no flicker, convergence |
| Sync of the real-time processor (`domain/real_time_processor.rs`, `base/channels.rs`, `unit_model.rs`) | settings, switches, mappings and control mode twice; bounded channel | tasks for each change, full resync on rebirth | lossy channel one way, request channel the other way | two threads, outages, dropped and discarded tasks | copy equals original when drained; last lifecycle MIDI fits |
| Control path (`main_processor.rs`, `mapping.rs`, `conditional_activation.rs`) | mappings, activation flags, group relations, lead and follow mappings | control event, group interaction, activation by parameters and by target value, polling | control task channel, targets, feedback | flags kept incrementally, targets that influence each other within a call | flags as a full evaluation would set them, followers know their leads, groups exclusive |
| Parameters (`parameter_manager.rs`) | shared parameter values | set from any thread | bounded channel | value and task under one lock, overflow | main processor catches up |
| Audio hook (`audio_hook.rs`) | registered processors and instances, capture state, device inquiry | one command per block, process MIDI, inquiry timeout | command channel, real-time processors | add/remove order, late replies | drives exactly the registered units, inquiries end |
| Backbone shell, plug-ins (`backbone_shell.rs`, `unit_shell.rs`, `instance_shell.rs`) | awake or asleep, instances, units | load, unload, wake up, go to sleep, register | audio hook, control surface, deallocator | waits of `go_to_sleep`, tasks that outlive a sleep | sleeps finally, nothing left in the hook |
| Auto units and controllers (`auto_units.rs`, `controller_manager.rs`) | controllers, generated units | async update | units, devices | triggers, matching while devices come and go | one unit per matching controller |
| Controller detection (`controller_detection.rs`) | running flag, one task, REAPER's MIDI preferences | detect, ask, restore | audio hook (inquiries) | waits that overlap with saves and device changes | ports paired, no traces, ends |
| Backbone actions (`backbone_shell.rs`, `message_panel.rs`) | sessions, one panel | find or learn by source | audio hook (capture state) | several sessions share panel and state | capturing exactly while the panel asks |
| Learning (`unit_model.rs`, `header_panel.rs`, `rx-util`) | mappings which learn, state of "learn many", deferred closures, subscriptions, control mode | learn source, target, many, filter; remove, replace | main processor, real-time processor, control surface, user | deferred notifications, subscriptions that end each other | control returns, learning works, "learn many" in step |
| Pot (`pot/src/lib.rs`) | filters, search, excludes, displayed items and presets, build counter | filter, search, exclude, refresh, build | pot worker (mutex, requests) | requests in the middle of builds, superseded builds | display belongs to current filters, refreshes count |
| Deferring allocator (`allocator`) | queue of deallocations | dealloc in real time | deallocation thread | overflow, shutdown | freed, nothing left at sleep |
| MIDI input in the audio thread (`real_time_processor.rs`, `midi_source_scanner.rs`) | scanner state, control mode | match, filter, scan 14-bit and (N)RPN | control task channel | partial messages, timeouts | messages recognized once |
| Control surface (`control_surface.rs`) | capturing state, main processors | event loops, capture of targets and OSC | all main processors | order of the phases, bulk limits | nothing starves |
| Channels (`base/channels.rs`) | bounded and unbounded queues | send, send complaining, send if space, receive | all threads | overflow policy | no loss where promised, order |
| Last touched targets (`backbone.rs`) | most recent touch per target type and cause | update, find | change events | order and duplicates | find returns the latest match |
| Unit and instance state (`unit.rs`, `instance.rs`) | active mappings per group, snapshots, tags | select, load, exclusivity | targets | order of (de)activation | exclusivity |
| Targets, sources, mode, scripting, persistence, servers, most of the user interface, change detectors | – | adapters, conversion, I/O | – | outside of TLC's reach or independent | – |

The list of all parts with the reason for leaving parts out is in `PROJECT.json` ("components"), the hazards with their lines
under "hazards". `playtime-clip-engine`, `helgoboss-learn` and `reaper-rs` are git submodules or dependencies that aren't part
of the repository.

## 2. Modules

| Module | Models | Remarks |
|---|---|---|
| `UsageTables` | the pure functions on device usage tables | used by `IoUsage` and `FeedbackOrchestration` |
| `IoUsage` | both usage tables and the superior units as a component | a step is one call of the backbone |
| `DeviceOccupancy` | abstract specification: each unit occupies at most one device per direction | `IoUsage` implements it |
| `FeedbackOrchestration` | feedback part of all main processors, the event queue, the feedback table | |
| `ProcessorSync` | both processors of one unit, the task channel, audio outages | |
| `ActivationConditions` | the two conditions of a mapping, evaluated fully or incrementally | operators only |
| `MappingControl` | what one control message does to mappings, groups and targets | operators only |
| `MappingActivation` | parameter manager, main processor and main loop of one unit | composes the two above |
| `AudioHook` | tasks of the hook, device inquiries, capture state | |
| `SourceCapture` | backbone actions that wait for a touched control element | extends `AudioHook` |
| `ControllerDetection` | detection of controllers, the global list of controllers | extends `AudioHook` |
| `AutoUnits` | instances, units, units that are loaded for controllers | extends `ControllerDetection` |
| `DeferringAllocator` | the channel and thread that free what the audio thread drops | |
| `Backbone` | plug-ins, waking up and sleeping | composes the five above |
| `PotUnit` | preset browser of one instance and the pot worker | |
| `UnitLearning` | learning of sources and targets, deferred notifications, control mode in both processors | |
| `IoUsageProofs`, `FeedbackProofs`, `ProcessorSyncProofs`, `MappingActivationProofs`, `BackboneProofs`, `AutoUnitsProofs`, `PotUnitProofs`, `UnitLearningProofs` | theorems | TLAPS |
| `MC...` | small instances | one `.cfg` per run |

### FeedbackOrchestration

`settings`, `circumstances` (FX bypass, disarmed track), `controlEnabled` and `feedbackEnabled` are the settings and globally-enabled
flags of `Basics`; `on`, `source`, `targetValue` abstract `collections.mappings` (a mapping is effectively on or not, its source is its
feedback address, its target has one value); `lastFeedback` is `last_feedback_checksum_by_address`; `events` is the channel of
`UnitOrchestrationEvent`s; `room` is what is left of the bulk of the running cycle; `light` is what the device shows. Lights are written
directly: the feedback channel to the global audio hook is a FIFO shared by all units, so it delays but doesn't reorder.

Each operation is one handler in the main thread, including the events it queues and the feedback it sends, in the order of the code.
`BeginCycle`/`ProcessEvent` are `process_instance_orchestration_events`. A handler that releases several addresses does so in hash-map order
in the code and in a fixed order in the model; the addresses don't influence each other.

### ProcessorSync

`main` and `rt` are the shared part of the two processors. A handler of the main thread changes `main` and puts its tasks into `sending`;
`SendTask` sends them one by one, so audio thread steps and outages fall between any two. `queue` is the channel of normal
real-time tasks with the drop policy of `SenderToRealTimeThread`. The audio thread's cycle is `BeginCycle`, then in case of a rebirth
`RequestFullSync` and `DiscardTasks`, then `ProcessTask` up to `BulkSize` times, then `EndCycle`. `activated` remembers for each
mapping and device whether the last lifecycle MIDI was "activate". `dropped` is a history variable that only restricts the environment
(see below).

The unit model and the main processor live in the same thread and are connected by an unbounded FIFO; the model applies a change to both
at once. Output via FX output, Stream Deck (which also enables feedback without an output), sample rate and logging tasks are left out.

### MappingActivation

`canon` and `paramTasks` are the parameter manager and its bounded channel, `params` the main processor's copy; `unsent` is a history of
the parameters whose latest value didn't get through. `data`, `flags` and `targetActive` are the mappings with `activation_state` and
`options.target_is_active`. `world` is REAPER: the selected track, switches, and the change events not yet seen. `session` and
`feedback` are the channels of normal and feedback tasks. `phase` walks through one cycle of the main loop in the order of `run_internal` and
`run_essential`/`run_control`, `budget` counts down the bulk. Controlling is one step per message: `MappingControl` walks over the
matching mappings in their order, because the code does so in one call, each hit changing the world for the next. Mappings are numbers, and
`ControlAll` and `InteractAll` are functions of how many of them have been passed, so that proofs can follow them step by step.

### Backbone

One action per user operation, async task, await point, audio block or turn of the deallocation thread. The hook's channel, its registered
processors, capture state and inquiry are as in the code; a device is its pair of ports. A detection task's state is what its future holds at
the await point (`detection`), `detecting` is the static `IS_RUNNING`. `phase` is the application state, with the waits of `go_to_sleep` as
states of their own; the budget bounds what the user and the devices do. Tasks and futures of different units or sessions commute
where the code leaves their order open. What differs: a device that is plugged in is noticed at once (not within two seconds); sessions that wait for
a target end with their panel; OSC capture, Playtime and preset loading are left out.

### PotUnit

The inputs (`filters`, `search`, `excludes`, `showExcluded`), the results on display and `buildCounter` are the fields of `RuntimePotUnit`
under its mutex; `running` is the change hint of the spinner. Requests (`tasks`) are a set, since the runtime promises no order and a
debounced request just waits longer. The worker takes one request at a time and releases the mutex while it refreshes and queries, so a build is
three steps: start (with the input at that moment), refresh, finish. A preset is the set of plug-ins it uses (`Cores`, the
`plugin_cores` or `used_plugins` of an entry), each with its item of every kind that its database knows: directories know databases and products (kind
`Bank`), project databases also projects. As in the code, a preset matches if one of its plug-ins passes filters and excludes together, filters of kinds which the
database doesn't know are ignored when items are gathered but leave it without presets, and a matching preset contributes the products of all its
plug-ins to the items. Presets whose plug-in isn't installed, and the database of Komplete with its further kinds (filtered by SQL), are left out. `ignored`, `missed` and `owed` are histories of changes that the code skips on purpose or by
accident; only properties look at them.

### UnitLearning

`unit` is one record: the mappings, the two "which learns" properties, `learn_many_state`, the filter switch of the main panel, and what is under way in
the main thread: `observers` (subscriptions in the order of subscribing), `tasks` (closures of `do_later_in_main_thread_asap`),
`futures` (of target learning), and the channels to control surface and main processor. `mode` and `rtMode` are the control modes of the two
processors, `capturing` the control surface's capture sender of this unit. A cycle is `tasks`, `futures`, `surface`, `processors`, as in `run_internal`.
rxRust is external; from it the model takes that a notification is queued only if there is a live subscription, that subscriptions get it in order,
and that a subscription ends with the notification it is `take_until`. `disturbed` is a history: the user has mixed kinds of
learning, clicked before everything was processed, or touched a target before a future that was spawned by a click had replaced the capturing one
(`StartsToCapture`); it is forgotten once everything is as in the beginning.

## 3. Runs

| Run | Instance | Shows |
|---|---|---|
| `io_usage` | 3 units, 2 inputs, 2 outputs | types, floors decided correctly, implements `DeviceOccupancy` |
| `sharing` | 2 units, 2 mappings each, 1 light | with editing, presets, target changes, bypass: drained means lights off if unused, current if used |
| `floors` | 3 units (1 superior), 2 lights | exact usage table, floors take effect, and all lights converge (liveness) |
| `flicker` | 2 units, all operations except removal | at no single step a light takes a value nobody may send, nor goes dark while somebody should show it |
| `processor_sync` | 1 mapping, 1 device, channel of 3, 3 changes, 2 outages | the copy equals the original when drained, the last lifecycle MIDI of each mapping is "activate" exactly if feedback is sent for it, the copy catches up (liveness) |
| `activation` | 3 mappings in 2 layouts, 1 parameter with 3 values, 2 tracks, 2 switches | incremental activation equals full evaluation, parameters arrive, followers know active leads (also as liveness), only the first hit of a transaction can be stale, groups are exclusive |
| `backbone` | 2 devices, 2 instances, 6 unit IDs, 6 scenarios | hook mirrors units, auto units accurate, ports paired and restored, capture matches panel, garbage freed; sleeping and detecting end (liveness) |
| `pot` | 3 kinds, a directory and a project database, 2 presets of which one has 2 products, 3 builds | refreshes count, displayed presets match the filters, no listed item is stale; changes show (liveness) |
| `learning` | up to 3 clicks and 3 events, 5 together, 2 mappings in the beginning | control returns to both threads, learning is effective, "learn many" keeps in step and finishes mappings |
| `settings_drop_claim`, `resync_race`, `learning_stop` | small | counterexamples, see section 5 |

**Bounds.** `Bulk = 2` instead of 30 makes cycles end in the middle of the events of one handler, which 30 would hide. `MaxPending` bounds how many
events may wait when a new operation starts: 0 means operations start when the queue is empty, but events which the processing of events
creates are never bounded; `sharing` allows 1, so that an operation falls between release and takeover. Two mappings with one address cover
sharing within a unit, two or three units sharing among units; two values (one of them off) tell a current from an
outdated light. In `ProcessorSync` the channel of 3 (1000 in the code) drops from the third task on while audio is off, whereas a settings
change has three tasks and a full sync four, so every way of losing part of a handler occurs; `BulkSize = 2` (100) splits handlers over
cycles; two outages let the second one hit the resync of the first. `RequestCapacity = 1` (10000) makes the request fail while one is pending.

In `MappingActivation` a parameter channel of 1 (20000) with bulks of 1 (500) overflows and falls behind at once; a `Bulk` of 6 (1000) is never
exhausted, since one pending task or event (`MaxPending`) leads to less. At most one timer event and one message per cycle is
enough to let two control events meet one set of change events. In `Backbone` the hook's channel (20) and the unit IDs never run out; the
deallocator's channel of 8 isn't full either, overflow is discussed in section 5. Each scenario of `MCBackbone` spends its budget on the
operations that may interfere: plug-ins with audio outages, units with global control, controllers with devices, detection with
saving, sleep during detection, learning with sleep (390 000 states, two minutes).

In `PotUnit` three builds suffice for one superseded, one superseding and one in work. A directory and a project database differ in the kinds
they support ("Project"), so that a filter may be unsupported; "Database", "Project" and "Bank" depend on each other in a chain. The preset in the
directory uses plug-ins of two products: `Excludable` lets the user exclude just one of them, so that the other still matches. `Selectable`
leaves out "d1". Both keep the number of states low (190 000 take more than two minutes, as each step of the worker queries the databases). What is on disk at last has no preset of the directory, but the directory is still listed.

In `UnitLearning` three clicks start, disturb and stop anything and three events are a source, a target and a stray one; at most one click falls between two
cycles, as no user is faster than the main loop. Of two mappings in the beginning one can take over from the other. The run has 2 million states (a minute)
with clicks and events bounded together (`Few`); without `Few` it passes as well (8.4 million states), as do four clicks with `Few`
(5.7 million). Numbers of mappings and futures
are bounds of the model (`HasNumbers`: a click or a touch waits for a free one); in the run they are never exhausted.

**Choice of operations.** `Ops` gives each unit its operations because the code doesn't keep the properties under all of them (section 5).
`floors` loads superior units last (`LoadedAfter`) and doesn't change settings later. `sharing` doesn't remove units.

**Deadlock** is checked only in `io_usage`; all other instances end when their bounds or budgets are used up and nothing is pending.

**Fairness.** No fairness for anything the user, a device or an outage does. Weak fairness of
- `FeedbackOrchestration`: `BeginCycle` and `ProcessEvent`, because REAPER keeps calling the control surface;
- `ProcessorSync`: the main thread (same reason) and the audio thread, whose steps are only enabled while audio runs;
- `MappingActivation`: the main loop;
- `Backbone`: blocks keep coming while there are tasks, answers that are under way arrive, a second passes (`MIDI_DEVICE_INQUIRY` timeout), the
  deallocation thread is scheduled, the bounded waits of `go_to_sleep` end, ready tasks are continued;
- `PotUnit`: the worker, a thread of its own.

**Environment of ProcessorSync.** `Mishaps = {}` in the passing run excludes three things, each named and each switchable:
`UnnoticedOutage` (tasks are dropped in an outage shorter than a second or before the first cycle, which takes more than 500 tasks),
`Overload` (the running audio thread, which takes 100 tasks per block, is slower than the main thread), `MainOvertakesDiscard` (the main
thread answers a request before the audio thread executes its next statement; run `resync_race`).

**Environment of Backbone.** `Mishaps` excludes `OverlappingInquiries` (another task asks a device while an inquiry is under way) and
`LateAnswers` (a device answers after the timeout). Either one breaks `DevicesArePaired`, since the hook has room for one inquiry and takes the first
reply it sees.

**Mutants.** Each property of a passing run is violated if a definition of the model is replaced by a broken variant next to it
(`PROJECT.json` "mutants"), for example `CanTakeOverFromOthers`, `ChangedSwitchTasks` or `StopLearningManyMappingsLast`.

## 4. Proofs

Each theorem holds for every value of the constants that the `ASSUME`s of the modules admit; whatever else it needs is a hypothesis in its statement.

**Usage tables.** `IoUsageProofs` proves, for every finite set of units and every set of devices (`NoDevice` is no device):

- `TypeCorrectness`: both tables stay tables of units, superior units stay units.
- `DevicesAreExclusivePerUnit`: no unit is registered for two devices of a table.
- `FloorsAreRespectedAlways`: for registered units the count-based decision `InteractionIsAllowed` agrees with the rule "you are superior or
  nobody superior uses the device".
- `ImplementsOccupancyAlways`: `IoUsage` implements `DeviceOccupancy` under the mapping `InputOf`, `OutputOf`; in particular `update_io_usage` returns
  true exactly if the unit's device has changed.

The inductive invariant is `Inv`: each table is an `IsTable`, that is a function from devices to sets of units in which no unit occurs
twice. Exclusivity has to be part of it because `update_io_usage` remembers just one previous device: without exclusivity the reported change
would depend on the iteration order. The first part of the module has the lemmas on a single table (lookup after update, preservation).

**Feedback.** `FeedbackProofs` is about `FeedbackOrchestration` with any finite set of units, any outputs, addresses, mappings and values.

- `FeedbackTypeCorrectness`, and `LightsDontFlicker` for all operations, removal and floors included. No history is needed: in each state
  `ProcessEvent` finds a unit that takes a light over if there is one, and whatever is sent is the value of a mapping that may send. The proof shows of the unit that
  writes a light last (`LastWriter`) that it may send there.
- `UsagesBecomeAccurate` and `FloorsDecide`, under `OpsAnnounceUsage`. The invariant `UsageInv` says of each unit: the last queued
  `IoUpdated` event about it names what it claims, or there is none and the table has exactly that. The hypothesis leaves out the four operations which
  don't keep it: `UpdateSettings` drops the claim of a superior unit (run `settings_drop_claim`), and activation effects, `UpdateSingleMapping` and
  `UpdatePersistentMappingProcessingState` announce nothing (section 5).
- `UnusedLightsGoOff` and `UsedLightsBecomeCurrent`, under `OnlySharing`. `SharingInv` says of each light that somebody cares for it
  (`CaredFor`): a unit using it shows its value and knows; or a release is queued by a unit whose last feedback there wasn't "off", so that
  processing the release changes the light; or it is off, and nobody uses it unless a release is queued, whose takeover sends. The middle part is the point: a queue
  of any number of releases by several units of the same light is processed in any mixture with new mappings, and it is the unit's memory of what it
  has sent that tells a release which must act from one that is stale. `OnlySharing` leaves out superior units (they may cover a light without
  caring for it), removal (its lights aren't taken over on purpose), outputs that keep their lights, and changes of conditions, activation effects
  and single processing states: these compare with what the unit has sent before, so with shared addresses a light can stay behind. TLC finds that if
  `ProcessChangedConditions` is added to the run `sharing` with two mappings at one address.

**Real-time processor.** `ProcessorSyncProofs` proves `ProcessorTypes` and, for any number of compartments and mappings and any capacities:

- `LastLifecycleMidiAlwaysFits`, also with all `Mishaps`, assuming that an output which is set doesn't change (`NoMoves`: `"ChangeSettings" \notin Ops`, as in
  the runs). Each handler of the audio thread is shown to keep that by itself (`HandlesWell`, with one lemma for everything that replaces mappings
  of a compartment). Settings are the exception: an outdated "no output" behind the real one would end feedback without any message.
  `OutputsAreOrdered` excludes that: in the real-time processor, the channel and what is being sent, the output comes after "no output". Losing tasks keeps that order.
- `RtProcessorMirrorsMain`, without mishaps (`Mishaps = {}`, as in the runs), with any number of noticed outages. `MirrorInv` says: the tasks in the channel
  lead the copy to some state `r`, and what is being sent leads `r` to the original, unless a resync is owed (`ResyncIsOwed`: asked for, about to be asked for, or tasks were lost
  in an outage that still lasts). `Leads` is a run through intermediate states, so that taking, appending and handling tasks are lemmas of a line each; that a
  full resync leads *any* state to the original is the heart (`FullSyncLeadsBack`), as a resync meets whatever the discarded tasks have left behind.

**Control path.** `MappingActivationProofs` is about any mappings, layouts, parameters, values, targets and capacities (assumptions:
conditions refer to existing parameters, presets are complete, 0 is a parameter value).

- `ActivationTypes`, `FlagsAreComplete`. `ActivationInv` says that flags are those of a complete evaluation and that whatever is on its way in the two
  channels has the right shape, since a later step evaluates it. The heart is `IncrementIsComplete`: a condition which `IsAffected` passes over is
  fulfilled as before.
- `ParamsArrive`. `ArrivalInv` follows each parameter: the last task about it, or the copy if there is none, has the wanted value. Appending and taking
  a task preserve that (`AppendArrives`, `TakeArrives`).
- `LaterHitsAreFresh`, `GroupsAreExclusive`. Both need to know what a transaction does that may control any number of mappings, each of them
  with group interaction. `ControlAllLeads` and `InteractAllLeads` say: if controlling one mapping leads from each set of worlds of a chain to the
  next, controlling all leads from the first to the last. For exclusiveness the sets are "no switch of the mappings passed so far shows on"; later mappings of the walk
  keep that, as a hit with zero neither switches anything on nor selects a track that would activate a target which was passed over (`ZeroKeepsOff`).
- `FollowersKnowTheirLeads`. `FollowInv` says of each lead mapping whose target has no event waiting: the last deferred word about it carries the
  current value, or there is no such word and its followers have processed that value (`Knows`). To keep that, the events that REAPER queues must tell the truth
  (`Truthful`: the last event about a target carries its value, otherwise the value hasn't changed; `MessageArises` shows it for whole
  transactions), a word must not outlive the lead role of its mapping (`OnlyLeadsWaiting`, `DrainedInv`), and a change of the selected track must lead to
  a refresh that isn't forgotten (`ActiveInv`). There are two hypotheses, and TLC finds the property violated without either (section 5):
  `LeadsKeepTargets` (edits leave a lead mapping its target) and `[][KeepsUp]_vars` (each cycle processes all deferred values; the code takes up to 1000).
  Both hold in the run `activation`.

**Backbone.** All of these are about the whole composition, for any devices, instances, units, sessions, controllers and scenarios.

- `BackboneTypes` (in `AutoUnitsProofs`): types and capacities.
- `DevicesStayPaired`, `DetectionNeverLeavesTraces`, assuming `Mishaps = {}` (`NoMishap`). `DetectionInv` follows a request from
  the task to the hook and back: types; at most one task is asking; each request in the channel and the inquiry in the hook belong to the task
  which waits for them; only devices that were asked are about to answer; each reply that waits fits the question; so the ports stay paired. It has to cover
  the hook's channel because a reply is recognized by nothing but the fact that there is no other inquiry.
- `AutoUnitsBecomeAccurate`. `AccuracyInv` adds to accuracy itself that auto units belong to different controllers and that a sleeping backbone has no units.
  The proof of one update (`auto_units.rs`) shows that what it removes, corrects and adds makes the units accurate from *any* state.
- `CaptureFollowsPanel`: the last task about capturing in the hook's channel is what the panel wants, or there is none and it is done (`CaptureInv`).
- `HookFollowsUnits`: for each unit and instance, the last task about it in the channel says whether it is registered, or there is none and the hook
  agrees (`HookInv`, `Leads`). The proof has one lemma for queues that lead from one set to another; since a unit's ID may be used again, "last" matters.
- `SleepLeavesNoGarbage`: `GarbageInv` says that the thread runs and no `Stop` waits as long as the hook is there, that only the
  last command can be `Stop` while the thread is joined, and that the channel is empty when asleep. The proof first reduces each action of `Next` to
  one of few steps on garbage (`StepsOnGarbage`).

`CaptureFollowsPanel` and `HookFollowsUnits` have the hypothesis `[][HasRoom]_vars`: no step meets a full hook channel. The code logs and drops a task
then, and nothing sends it again, so without it both are wrong. TLC's instance never fills the channel.

**Pot.** `PotUnitProofs` proves types, `RefreshesAreNeverWasted`, `SettledUnitsShowMatches` and `ListedItemsStayCurrent` for any databases,
presets, plug-ins and number of builds. `PotInv` says that no build has a number beyond the counter, that at most one is the latest, that
the spinner turns for the build in work, that a refresh in work is the latest, and that the latest request has the present input unless
a change was ignored. `ItemsInv` adds, for the kinds a build doesn't recompute, that what is on display is compatible with it: this needs that kinds are totally ordered
(`PositionsDiffer`), that a filter only affects dependents, and that clearing filters only adds items.

**Learning.** `UnitLearningProofs` proves `LearningTypes` and `ControlAlwaysReturns` for any mappings, sources, numbers of futures and clicks, also where the
user mixes kinds of learning. A step is a closure, an event or a future with all synchronous reactions, so the proof goes through the reactions as
functions on the record `unit` (`Sound`: what is under way makes sense). `LearningInv` says where the duty to return control is: if nothing is
learned any more, control is on, or a notification, closure, future or channel element that returns it is on its way, and nothing behind it takes it away again
(`Owes`, `WillReturn`). The audio thread is where the tasks it hasn't done let it be (`LastOf(rtTasks, rtMode) = mode`).

`LearningIsAlwaysEffective`, `LearnManyAlwaysInStep` and `LearnManyAlwaysFinishes` hold as long as the unit isn't `disturbed`. None of these
properties is inductive, as they speak of settled states only, so `SessionInv` says what a unit can be on the way. It has four parts:

- `InSession`: one of 14 situations (`Rests`, `LearnsOneSource`, `SourceOfOneEnds`, `ManyGoesOn`, ...), each with what is shown as learning, the exact
  subscriptions in their order, and what is still to be told (`Todo`: the queued notifications and triggered reactions. Captured messages
  that wait as closures may be anything). `MainCapturing` has two orders, since the first mapping's subscriptions come before the one that
  waits for finished mappings, and those of all others after it.
- `SourceIsKept`: "learn many" has a mapping that learns its source, has one, or was removed.
- `TargetsInv`: a target is captured, or will be, exactly while one is learned, with no touch left from before. So a late touch never meets the
  next source (`Quiet`).
- `ModeInv`: the last mode change on its way to the processor is the one that learning needs.

For each operation and reaction the proof first shows what it does to every field (`StopManyDoes`, `AddOneDoes`, `StoppedDoes`, ...), then who is told
in each situation (`MainIsTold`, `ControllerIsTold`, ...), and from both that a closure leads from one situation to another (`RunTaskInSession`), as do
polled futures, the phases of the main loop, captured messages, touched targets and proper clicks. A click is proper if everything is settled (`ProperClick`),
and after a mess it starts anew only from the initial situation. Each of these steps also satisfies `ManyStep`, from which the action property
follows (`StepInSession`). TLC checked `SessionInv` first, on the instance of `learning` with two events. With the second mapping it refuted an earlier version of the model
whose `disturbed` didn't count early touches (section 5, last point on learning).

**Only model-checked** are the liveness properties (`LightsConverge`, `RtCatchesUp`, `FollowersEventuallyFollow`, `FallsAsleep`, `DetectionEnds`, `ChangesShow`): liveness
under fairness, and ENABLED, are beyond the proof system. All invariants and action properties of the passing runs are proved. The provers also can't instantiate the
library's induction theorems; where a fact about a fold or a recursive function is needed (`FlattenedElements`, `SelectedElements`, `Recursion`, `FlattenLeads`), the proof takes
the smallest counterexample instead.

## 5. What the models say about the code

Counterexamples with a run of their own (details under "findings"):

- `settings_drop_claim`: a settings sync of a superior unit releases its device and doesn't claim it again.
- `resync_race`: a resync answered too fast is discarded together with the old tasks.
- `learning_stop`: stopping "learn many" removes whichever mapping is learning its source, be it an old one.

Known limits, seen while exploring or reading. The passing runs steer around them, and properties except them where they say so.

Feedback and its devices:

- If a unit is removed while its `SourceReleased` event waits, nobody switches the light off.
- Moving a unit to another output leaves its lights on at the old one (`main_processor.rs:1470`; the comment at 358 promises otherwise).
- Re-enabling a mapping may not send because the value is mistaken for a duplicate (`main_processor.rs:2698`, comment at 3902).
- A superior unit is no obstacle for a unit that isn't registered for the output ("it's just us"): the latter writes over its lights. Units
  register as soon as they have an active mapping, hence the order of loading.
- `UpdateSingleMapping`, `UpdatePersistentMappingProcessingState` and activation effects don't announce a changed device usage.
- Switching a unit to another floor isn't announced either (`unit_model.rs:2612`).
- Dropping a unit switches lights off that units on the same floor share with it.
- Lifecycle MIDI for deactivation goes to the new device if the output changes (`real_time_processor.rs:308`), so the runs don't change an
  existing MIDI destination.
- "Activate" is sent again when a mapping that is on is updated (`real_time_processor.rs:387`); the history `activated` is a set of last messages, so the
  model says nothing of how often a message is sent.
- The checksum of an OSC color hashes red twice and omits blue (`main_processor.rs:211`); the model's checksums are the values.

Processors and channels:

- The control mode isn't part of the full resync (`unit_model.rs:550`, versus the comment `channels.rs:327`).
- The very first audio cycle never counts as rebirth, nor does an outage up to a second (`audio_hook.rs:235`).
- `send_complaining` uses up its single complaint on the first send even if that succeeds (`channels.rs:286`).
- A changed value of a lead mapping reaches its followers as that of an active target, even if the target is inactive (`main_processor.rs:894`, versus the
  comment at 912); the properties on followers leave such leads out.
- A deferred value of a lead mapping (`main_processor.rs:885`) isn't tied to the target it was read from. If the user gives the lead mapping another
  target while it waits, the followers get the new target's value first and the old one's last.
- Neither is it tied to the lead role: if a cycle leaves deferred values behind (more than 1000), the mapping ceases to be a lead mapping and
  becomes one again, an old value arrives after the current one.
- A polled source (timer) with control-based group interaction controls its group with value 0 (`main_processor.rs:585`).
- The MIDI scanner passes all but the last value to its guess, so a single message counts as range element, not as button; resetting it keeps the device ID.

Backbone:

- A detection whose reply comes while the backbone sleeps is dropped at wake-up: it counts as running from then on (`control_surface.rs:367`).
- The stop signal of the deallocation thread is lost if the channel is full.
- Ports of an auto unit that the user has edited are never corrected (`unit_model.rs:373`); a Stream Deck unit without output
  vetoes against auto units (448); a changed preset doesn't trigger their update.
- What the user changes in REAPER's MIDI preferences during a detection is undone at its end.
- Captured messages that wait for an old session can close the panel of a newer one.

Pot:

- Changes during a refresh are skipped, so the display stays behind (`lib.rs:1001`); a refresh that is superseded before it starts is lost.
- A build that supersedes one which affects more kinds leaves these kinds stale (history `owed`).
- A build that clears a filter whose item has vanished has computed dependent kinds under that filter.
- A listed product may lead to no preset: a preset that uses two plug-ins lists both products even if one is excluded (`directory.rs:139`, `projects.rs:176`), and
  directories list products although a project is selected (`pot_database.rs:368` then skips their presets). Databases without presets are listed, too
  (`pot_database.rs:221`). `ListedItemsAreCurrent` therefore compares with what the databases come up with; TLC finds the other cases if it is to demand presets.
- Queries re-acquire the read lock of the databases recursively, which blocks if a writer waits in between.
- Changed search fields trigger no rebuild; a refresh of one instance leaves the preset IDs of the others stale; excludes are global but
  other units aren't rebuilt.

Learning (`ControlReturns` is checked including these, the other properties without):

- "Learn many" started while a source is being learned delivers the end of that to the new subscriptions: in the main compartment the target
  is learned without a source, in the controller compartment a further mapping is added.
- "Learn many" started while filtering: the end of filtering returns control a moment later, although a source is to be learned.
- Learning a target while a source is being learned disables control, so the source isn't learned.
- Stopping "learn many" right after a target was touched starts the next mapping.
- Removing or skipping a mapping in the main compartment during "learn many" goes on with learning a target.
- Two touches in one cycle, or a fast toggle: the first future's return to control ends the capture of the next source.
- A mapping is learning its target, the user clicks "learn target" of another one and touches a target before the main loop runs: the old future,
  still capturing and polled first, learns that target for the new mapping. Then the new future starts to capture although nothing is learned
  anymore, so a target touched later ends whatever is learned then (`unit_model.rs:1924-1946`).

Presets (read, not modelled): `auto_load_preset` with a linked preset that doesn't exist clears ad-hoc mappings without saving them as fallback
(`unit_model.rs:2216`); reactions that come deferred after a preset has been loaded mark the compartment dirty again.

## 6. Not modelled, and the plan

Most of the repository is a wide layer of adapters: over a hundred target types, sources, dialogs (`mapping_panel.rs`, `header_panel.rs`),
data conversion (`target_model.rs`, persistence), generated protocol code, formats of preset providers. Each is a sequence of calls into
REAPER or field-by-field copying, without state that several steps could bring out of order. The mode (glue section), the MIDI scanners for 14-bit and (N)RPN,
`reaper-rs` and the clip engine aren't part of the repository. That is why the models cover a small share of its lines; they aim at the code in which steps of several actors meet.

What could follow, in this order:

1. `LastTouchedTargets` as a most-recent-first list with refinement.
2. Pot: several units that share the databases, the preset crawler.
3. Loading of presets linked to FX, with fallback.

There are no RECURSIVE operators, so each module can be the subject of a proof.
