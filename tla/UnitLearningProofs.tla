------------------------- MODULE UnitLearningProofs -------------------------
(***************************************************************************)
(* Learning always gives the control back (ControlReturns), whatever kinds *)
(* of learning the user mixes and however fast.                            *)
(*                                                                         *)
(* As long as the user mixes no kinds of learning and isn't too fast, what *)
(* is shown as being learned is learned next (LearningIsEffective), and    *)
(* "learn many" goes from mapping to mapping (LearnManyKeepsInStep,        *)
(* LearnManyFinishesMappings). That takes a second invariant, SessionInv:  *)
(* the unit is in one of 14 situations, see InSession.                     *)
(***************************************************************************)
EXTENDS UnitLearning, WellFoundedInduction, TLAPS

------------------------------------------------------------------------------
(* Selections. The library's induction theorems have operators as          *)
(* parameters, hence the proofs by a smallest counterexample.              *)

\* A set of numbers has a smallest one.
LEMMA Smallest ==
    ASSUME NEW T, T \subseteq Nat, T # {}
    PROVE  \E n \in T : \A k \in T : n =< k
<1>1. IsWellFoundedOn(OpToRel(<, Nat), Nat)
  BY NatLessThanWellFounded, Zenon
<1>2. PICK n \in T : \A k \in T : <<k, n>> \notin OpToRel(<, Nat)
  BY <1>1, WFMin, Zenon
<1>3. \A k \in T : ~(k < n)
  BY <1>2, Zenon DEF OpToRel
<1>. QED  BY <1>3

\* Appending adds one element.
LEMMA AppendedElements ==
    ASSUME NEW T, NEW s \in Seq(T), NEW e \in T
    PROVE  ToSet(Append(s, e)) = ToSet(s) \cup {e}
<1>1. DOMAIN Append(s, e) = DOMAIN s \cup {Len(s) + 1}
  OBVIOUS
<1>2. /\ \A i \in DOMAIN s : Append(s, e)[i] = s[i]
      /\ Append(s, e)[Len(s) + 1] = e
  OBVIOUS
<1>. QED  BY <1>1, <1>2 DEF ToSet

\* A selection has the elements it promises.
LEMMA SelectedElements ==
    ASSUME NEW T, NEW s \in Seq(T), NEW S
    PROVE  /\ Selection(s, S) \in Seq(T)
           /\ ToSet(Selection(s, S)) = ToSet(s) \cap S
<1>. DEFINE N == 0..Len(s)
           Step(f, n) == IF n = 0 THEN <<>>
                         ELSE IF s[n] \in S THEN Append(f[n - 1], s[n]) ELSE f[n - 1]
           Defines(f, k) == f = [n \in 0..k |-> Step(f, n)]
           Bad == {k \in N : ~ \E f : Defines(f, k)}
           Right(t, n) == t \in Seq(T) /\ ToSet(t) = {s[i] : i \in 1..n} \cap S
<1>1. Bad = {}
  <2>1. SUFFICES ASSUME Bad # {} PROVE FALSE
    OBVIOUS
  <2>2. PICK k \in Bad : \A j \in Bad : k =< j
    <3>1. Bad \subseteq Nat
      OBVIOUS
    <3>. HIDE DEF Bad
    <3>. QED  BY <2>1, <3>1, Smallest
  <2>3. CASE k = 0
    <3>1. Defines([n \in 0..0 |-> <<>>], 0)
      OBVIOUS
    <3>. QED  BY <3>1, <2>3, <2>2
  <2>4. CASE k # 0
    <3>1. PICK f : Defines(f, k - 1)
      <4>1. k - 1 \in N /\ k - 1 \notin Bad
        <5>. HIDE DEF Defines
        <5>. QED  BY <2>2, <2>4
      <4>. HIDE DEF Defines
      <4>. QED  BY <4>1
    <3>. DEFINE g == [n \in 0..k |-> IF n = k THEN Step(f, k) ELSE f[n]]
    <3>2. Defines(g, k)
      <4>1. ASSUME NEW n \in 0..k PROVE g[n] = Step(g, n)
        <5>1. CASE n = k
          BY <5>1, <2>2, <2>4
        <5>2. CASE n # k
          <6>1. n \in 0..(k - 1)
            BY <5>2, <2>2
          <6>2. f[n] = Step(f, n)
            BY <6>1, <3>1
          <6>3. n # 0 => g[n - 1] = f[n - 1]
            BY <6>1, <2>2
          <6>. QED  BY <6>1, <6>2, <6>3, <5>2
        <5>. QED  BY <5>1, <5>2
      <4>. HIDE DEF Step
      <4>. QED  BY <4>1
    <3>. QED  BY <3>2, <2>2
  <2>. QED  BY <2>3, <2>4
<1>2. \E f : Defines(f, Len(s))
  <2>1. Len(s) \in N
    OBVIOUS
  <2>. HIDE DEF Defines, N
  <2>. QED  BY <1>1, <2>1
<1>3. Selection(s, S) = (CHOOSE g : Defines(g, Len(s)))[Len(s)]
  BY DEF Selection
<1>. DEFINE c == CHOOSE g : Defines(g, Len(s))
<1>4. Defines(c, Len(s))
  <2>. HIDE DEF Defines
  <2>. QED  BY <1>2
<1>. DEFINE Wrong == {k \in N : ~Right(c[k], k)}
<1>5. Wrong = {}
  <2>1. SUFFICES ASSUME Wrong # {} PROVE FALSE
    OBVIOUS
  <2>2. PICK k \in Wrong : \A j \in Wrong : k =< j
    <3>1. Wrong \subseteq Nat
      OBVIOUS
    <3>. HIDE DEF Wrong
    <3>. QED  BY <2>1, <3>1, Smallest
  <2>3. k \in 0..Len(s) /\ c[k] = Step(c, k)
    <3>. HIDE DEF c
    <3>. QED  BY <1>4, <2>2
  <2>4. ~Right(c[k], k) /\ \A j \in N : j < k => Right(c[j], j)
    <3>. HIDE DEF c, Right
    <3>. QED  BY <2>2
  <2>. HIDE DEF c
  <2>5. CASE k = 0
    <3>1. c[k] = <<>> /\ {s[i] : i \in 1..k} = {}
      BY <2>3, <2>5
    <3>2. <<>> \in Seq(T) /\ ToSet(<<>>) = {}
      BY DEF ToSet
    <3>3. Right(c[k], k)
      <4>1. {s[i] : i \in 1..k} \cap S = {}
        BY <3>1
      <4>. QED  BY <3>1, <3>2, <4>1
    <3>. QED  BY <3>3, <2>4
  <2>6. CASE k # 0
    <3>1. Right(c[k - 1], k - 1)
      <4>. HIDE DEF Right
      <4>. QED  BY <2>3, <2>4, <2>6
    <3>2. k \in 1..Len(s) /\ {s[i] : i \in 1..k} = {s[i] : i \in 1..(k - 1)} \cup {s[k]}
      BY <2>3, <2>6
    <3>3. PICK t : t = c[k - 1]
      OBVIOUS
    <3>4. t \in Seq(T) /\ ToSet(t) = {s[i] : i \in 1..(k - 1)} \cap S
      BY <3>1, <3>3
    <3>5. s[k] \in S => ToSet(Append(t, s[k])) = ToSet(t) \cup {s[k]}
      BY <3>4, <3>2, AppendedElements
    <3>6. c[k] = IF s[k] \in S THEN Append(t, s[k]) ELSE t
      BY <2>3, <2>6, <3>3
    <3>7. CASE s[k] \in S
      <4>1. c[k] \in Seq(T) /\ ToSet(c[k]) = {s[i] : i \in 1..k} \cap S
        BY <3>7, <3>6, <3>5, <3>4, <3>2
      <4>. QED  BY <4>1, <2>4
    <3>8. CASE s[k] \notin S
      <4>1. c[k] \in Seq(T) /\ ToSet(c[k]) = {s[i] : i \in 1..k} \cap S
        BY <3>8, <3>6, <3>4, <3>2
      <4>. QED  BY <4>1, <2>4
    <3>. QED  BY <3>7, <3>8
  <2>. QED  BY <2>5, <2>6
<1>6. Right(c[Len(s)], Len(s))
  <2>. HIDE DEF Right, c
  <2>. QED  BY <1>5
<1>7. Selection(s, S) = c[Len(s)] /\ DOMAIN s = 1..Len(s)
  <2>. HIDE DEF Defines
  <2>. QED  BY <1>3
<1>. HIDE DEF c
<1>. QED  BY <1>6, <1>7 DEF ToSet

------------------------------------------------------------------------------
(* What a unit can be.                                                     *)

Numbers == Mappings \cup {None}
Modes == {"Controlling", "LearningSource", "Disabled"}
MainTask == {"StartLearnSource", "DisableControl", "ReturnToControlMode"}
Property == {"learnsSource", "learnsTarget", "many", "filter"}

Task ==
    [do: {"notify"}, property: Property]
    \cup [do: {"learn"}, source: Sources]
    \cup [do: {"learnTarget"}, mapping: Mappings]
    \cup [do: {"addMapping"}, compartment: Compartments]

MappingState ==
    [is: {"fresh", "present", "removed"}, source: Sources \cup {NoSource}, target: BOOLEAN]

Touch == [isForeign: BOOLEAN, causedByRealearn: BOOLEAN]
Future == [is: {"gone", "spawned", "waiting"}, channel: Seq(Touch)]

UnitState ==
    [mappings: [Mappings -> MappingState],
     learnsSource: Numbers, learnsTarget: Numbers, many: Numbers,
     step: {"source", "target"}, filter: BOOLEAN,
     observers: Seq(Observer), tasks: Seq(Task),
     futures: [Futures -> Future],
     surfaceTasks: Seq(Futures \cup {None}), mainTasks: Seq(MainTask)]

\* The notification about the end is on its way.
WillEnd(u, property) == [do |-> "notify", property |-> property] \in ToSet(u.tasks)

\* Each capture belongs to something that is being learned, or is about to end.
CapturesEnd(u) ==
    \A o \in ToSet(u.observers) \cap Captures :
        IF o.forFilter THEN u.filter \/ WillEnd(u, "filter")
        ELSE u.learnsSource # None \/ WillEnd(u, "learnsSource")

\* Something is in progress whose end returns the control.
WillReturn(u) ==
    \/ u.many # None
    \/ u.learnsTarget # None
    \/ \E o \in ToSet(u.observers) \cap Captures : o.reenable

LastOf(tasks, m) == IF tasks = <<>> THEN m ELSE ModeAfter[tasks[Len(tasks)]]

\* Once all tasks are done, somebody has the duty to return the control.
Owes(u, m) == LastOf(u.mainTasks, m) # "Controlling" => WillReturn(u)

\* The last task returns the control.
HasReturned(u) ==
    u.mainTasks # <<>> /\ u.mainTasks[Len(u.mainTasks)] = "ReturnToControlMode"

Sound(u) == u \in UnitState /\ CapturesEnd(u)

\* The mode after each task is a mode.
LEMMA ModesOfTasks == ModeAfter \in [MainTask -> Modes] /\ ModeAfter["ReturnToControlMode"] = "Controlling"
BY DEF ModeAfter, MainTask, Modes

\* Whoever has returned the control owes nothing.
LEMMA ReturnedIsSettled ==
    ASSUME NEW u, NEW m, HasReturned(u)
    PROVE  Owes(u, m)
BY ModesOfTasks DEF HasReturned, Owes, LastOf

\* Sending a task to the main processor changes nothing else.
LEMMA Sending ==
    ASSUME NEW u, Sound(u), NEW task \in MainTask
    PROVE  LET v == SendToMain(u, task)
           IN  /\ Sound(v)
               /\ v.mappings = u.mappings /\ v.futures = u.futures
               /\ v.learnsSource = u.learnsSource /\ v.learnsTarget = u.learnsTarget
               /\ v.many = u.many /\ v.filter = u.filter /\ v.observers = u.observers
               /\ task = "ReturnToControlMode" => HasReturned(v)
<1>. DEFINE v == SendToMain(u, task)
<1>1. u \in UnitState /\ CapturesEnd(u)
  BY DEF Sound
<1>2. PICK q : q = Append(u.mainTasks, task)
  OBVIOUS
<1>3. q \in Seq(MainTask) /\ q # <<>> /\ q[Len(q)] = task
  <2>1. u.mainTasks \in Seq(MainTask)
    BY <1>1 DEF UnitState
  <2>. QED  BY <1>2, <2>1
<1>4. v = [u EXCEPT !.mainTasks = q]
  BY <1>2 DEF SendToMain
<1>5. v \in UnitState /\ v.mainTasks = q
  BY <1>1, <1>3, <1>4 DEF UnitState
<1>6. /\ v.mappings = u.mappings /\ v.futures = u.futures
      /\ v.learnsSource = u.learnsSource /\ v.learnsTarget = u.learnsTarget
      /\ v.many = u.many /\ v.filter = u.filter /\ v.observers = u.observers
      /\ v.tasks = u.tasks
  BY <1>1, <1>4 DEF UnitState
<1>7. CapturesEnd(v)
  BY <1>1, <1>6 DEF CapturesEnd, WillEnd
<1>8. task = "ReturnToControlMode" => HasReturned(v)
  BY <1>3, <1>5 DEF HasReturned
<1>. QED  BY <1>5, <1>6, <1>7, <1>8 DEF Sound

\* Among the observers of the end of a capture is the capture.
LEMMA CapturesAreTold ==
    ASSUME NEW u, u \in UnitState, NEW p \in Property
    PROVE  /\ ObserversOf(u, p) \in Seq(Observer)
           /\ ToSet(ObserversOf(u, p)) = {o \in ToSet(u.observers) : Observes(o, p)}
           /\ ToSet(u.observers) \subseteq Observer
<1>1. PICK s : s = u.observers
  OBVIOUS
<1>2. s \in Seq(Observer)
  BY <1>1 DEF UnitState
<1>3. ToSet(s) \subseteq Observer
  BY <1>2 DEF ToSet
<1>4. PICK S : S = {o \in Observer : Observes(o, p)}
  OBVIOUS
<1>5. Selection(s, S) \in Seq(Observer) /\ ToSet(Selection(s, S)) = ToSet(s) \cap S
  BY <1>2, SelectedElements
<1>6. ObserversOf(u, p) = Selection(s, S)
  BY <1>1, <1>4 DEF ObserversOf
<1>. QED  BY <1>1, <1>3, <1>4, <1>5, <1>6

\* A property that becomes nothing: whoever captures for it will be told.
LEMMA Clearing ==
    ASSUME NEW u, Sound(u),
           NEW p \in Property,
           NEW nothing, (p = "filter" /\ nothing = FALSE) \/ (p # "filter" /\ nothing = None)
    PROVE  LET v == Clear(u, p, nothing)
           IN  /\ Sound(v)
               /\ v.mappings = u.mappings /\ v.futures = u.futures
               /\ v.observers = u.observers /\ v.mainTasks = u.mainTasks
               /\ p # "many" => v.many = u.many
               /\ p # "learnsTarget" => v.learnsTarget = u.learnsTarget
               /\ p # "learnsSource" => v.learnsSource = u.learnsSource
<1>. DEFINE v == Clear(u, p, nothing)
            end == [do |-> "notify", property |-> p]
            cleared == [u EXCEPT ![p] = nothing]
<1>1. u \in UnitState /\ CapturesEnd(u)
  BY DEF Sound
<1>2. cleared \in UnitState
  <2>1. p = "learnsSource" => cleared = [u EXCEPT !.learnsSource = None]
    OBVIOUS
  <2>2. p = "learnsTarget" => cleared = [u EXCEPT !.learnsTarget = None]
    OBVIOUS
  <2>3. p = "many" => cleared = [u EXCEPT !.many = None]
    OBVIOUS
  <2>4. p = "filter" => cleared = [u EXCEPT !.filter = FALSE]
    OBVIOUS
  <2>5. /\ [u EXCEPT !.learnsSource = None] \in UnitState
        /\ [u EXCEPT !.learnsTarget = None] \in UnitState
    BY <1>1 DEF UnitState, Numbers
  <2>6. /\ [u EXCEPT !.many = None] \in UnitState
        /\ [u EXCEPT !.filter = FALSE] \in UnitState
    BY <1>1 DEF UnitState, Numbers
  <2>. HIDE DEF cleared
  <2>. QED  BY <2>1, <2>2, <2>3, <2>4, <2>5, <2>6 DEF Property
<1>3. /\ cleared.mappings = u.mappings /\ cleared.futures = u.futures
      /\ cleared.observers = u.observers /\ cleared.mainTasks = u.mainTasks
      /\ cleared.tasks = u.tasks
      /\ p # "many" => cleared.many = u.many
      /\ p # "learnsTarget" => cleared.learnsTarget = u.learnsTarget
      /\ p # "learnsSource" => cleared.learnsSource = u.learnsSource
      /\ p # "filter" => cleared.filter = u.filter
  BY <1>1 DEF Property, UnitState
<1>4. PICK q : q = IF u[p] # nothing /\ ObserversOf(u, p) # <<>> THEN Append(u.tasks, end) ELSE u.tasks
  OBVIOUS
<1>5. PICK c : c = cleared
  OBVIOUS
<1>6. v = [c EXCEPT !.tasks = q]
  <2>1. c = [c EXCEPT !.tasks = u.tasks]
    <3>. HIDE DEF cleared
    <3>. QED  BY <1>2, <1>3, <1>5 DEF UnitState
  <2>2. Queue(cleared, end) = [c EXCEPT !.tasks = Append(u.tasks, end)]
    <3>. HIDE DEF cleared
    <3>. QED  BY <1>3, <1>5 DEF Queue
  <2>. HIDE DEF cleared
  <2>3. v = IF u[p] # nothing /\ ObserversOf(u, p) # <<>> THEN Queue(cleared, end) ELSE cleared
    BY DEF Clear, cleared
  <2>. QED  BY <1>4, <1>5, <2>1, <2>2, <2>3
<1>7. q \in Seq(Task) /\ ToSet(q) = ToSet(u.tasks) \cup IF q = u.tasks THEN {} ELSE {end}
  <2>1. u.tasks \in Seq(Task) /\ end \in Task
    BY <1>1 DEF UnitState, Task
  <2>2. PICK s : s = u.tasks
    OBVIOUS
  <2>3. PICK e : e = end
    OBVIOUS
  <2>4. ToSet(Append(s, e)) = ToSet(s) \cup {e} /\ Append(s, e) \in Seq(Task) /\ Append(s, e) # s
    BY <2>1, <2>2, <2>3, AppendedElements
  <2>. QED  BY <1>4, <2>1, <2>2, <2>3, <2>4
<1>. HIDE DEF cleared
<1>8. v \in UnitState
  BY <1>2, <1>5, <1>6, <1>7 DEF UnitState
<1>9. /\ v.mappings = c.mappings /\ v.futures = c.futures
      /\ v.observers = c.observers /\ v.mainTasks = c.mainTasks
      /\ v.many = c.many /\ v.learnsTarget = c.learnsTarget /\ v.learnsSource = c.learnsSource
      /\ v.filter = c.filter /\ v.tasks = q
  BY <1>2, <1>5, <1>6 DEF UnitState
<1>10. CapturesEnd(v)
  <2>1. SUFFICES ASSUME NEW o \in ToSet(u.observers) \cap Captures
                 PROVE  IF o.forFilter THEN v.filter \/ WillEnd(v, "filter")
                        ELSE v.learnsSource # None \/ WillEnd(v, "learnsSource")
    BY <1>3, <1>5, <1>9 DEF CapturesEnd
  <2>2. \A r : WillEnd(u, r) => WillEnd(v, r)
    BY <1>7, <1>9 DEF WillEnd
  <2>3. IF o.forFilter THEN u.filter \/ WillEnd(u, "filter")
        ELSE u.learnsSource # None \/ WillEnd(u, "learnsSource")
    BY <1>1 DEF CapturesEnd
  <2>4. CASE ~Observes(o, p)
    <3>1. o.forFilter => p # "filter"
      BY <2>4 DEF Observes, Captures
    <3>2. ~o.forFilter => p # "learnsSource"
      BY <2>4 DEF Observes, Captures
    <3>. QED  BY <2>2, <2>3, <3>1, <3>2, <1>3, <1>5, <1>9
  <2>5. CASE Observes(o, p)
    <3>1. IF o.forFilter THEN p = "filter" ELSE p = "learnsSource"
      BY <2>5 DEF Observes, Captures, Property
    <3>2. ObserversOf(u, p) # <<>>
      <4>1. o \in ToSet(ObserversOf(u, p))
        BY <1>1, <2>5, CapturesAreTold
      <4>. QED  BY <4>1 DEF ToSet
    <3>3. CASE u[p] = nothing
      <4>1. o.forFilter => WillEnd(u, "filter")
        BY <3>1, <3>3, <2>3
      <4>2. ~o.forFilter => WillEnd(u, "learnsSource")
        BY <3>1, <3>3, <2>3
      <4>. QED  BY <4>1, <4>2, <2>2
    <3>4. CASE u[p] # nothing
      <4>1. q # u.tasks
        <5>1. u.tasks \in Seq(Task)
          BY <1>1 DEF UnitState
        <5>2. PICK s : s = u.tasks
          OBVIOUS
        <5>3. PICK e : e = end
          OBVIOUS
        <5>4. Append(s, e) # s
          BY <5>1, <5>2
        <5>. QED  BY <5>2, <5>3, <5>4, <1>4, <3>2, <3>4
      <4>2. WillEnd(v, p)
        BY <4>1, <1>7, <1>9 DEF WillEnd
      <4>. QED  BY <4>2, <3>1
    <3>. QED  BY <3>3, <3>4
  <2>. QED  BY <2>4, <2>5
<1>. QED  BY <1>3, <1>5, <1>8, <1>9, <1>10 DEF Sound

\* A property with the number of a mapping becomes nothing.
LEMMA ClearingNumber ==
    ASSUME NEW u, Sound(u),
           NEW p \in {"learnsSource", "learnsTarget", "many"}
    PROVE  LET v == Clear(u, p, None)
           IN  /\ Sound(v)
               /\ v.mappings = u.mappings /\ v.futures = u.futures
               /\ v.observers = u.observers /\ v.mainTasks = u.mainTasks
               /\ p # "many" => v.many = u.many
               /\ p # "learnsTarget" => v.learnsTarget = u.learnsTarget
               /\ p # "learnsSource" => v.learnsSource = u.learnsSource
<1>1. p \in Property /\ p # "filter"
  BY DEF Property
<1>. QED  BY <1>1, Clearing

------------------------------------------------------------------------------
(* Operations of the unit model: each keeps the captures connected with    *)
(* what is being learned, and control is returned or somebody has the duty *)
(* to do so.                                                               *)

\* Stopping to learn a source returns nothing, its capture does that.
LEMMA StopSourceIsSound ==
    ASSUME NEW u, Sound(u)
    PROVE  LET v == StopLearningSource(u)
           IN  /\ Sound(v)
               /\ v.mappings = u.mappings /\ v.futures = u.futures
               /\ v.observers = u.observers /\ v.mainTasks = u.mainTasks
               /\ v.many = u.many /\ v.learnsTarget = u.learnsTarget
<1>1. PICK p : p = "learnsSource"
  OBVIOUS
<1>2. PICK v : v = Clear(u, p, None)
  OBVIOUS
<1>3. /\ Sound(v)
      /\ v.mappings = u.mappings /\ v.futures = u.futures
      /\ v.observers = u.observers /\ v.mainTasks = u.mainTasks
      /\ v.many = u.many /\ v.learnsTarget = u.learnsTarget
  BY <1>1, <1>2, ClearingNumber
<1>. QED  BY <1>1, <1>2, <1>3 DEF StopLearningSource

\* Filtering is stopped.
LEMMA StopFilterIsSound ==
    ASSUME NEW u, Sound(u)
    PROVE  LET v == StopFilterLearning(u)
           IN  /\ Sound(v)
               /\ v.mappings = u.mappings /\ v.futures = u.futures
               /\ v.observers = u.observers /\ v.mainTasks = u.mainTasks
               /\ v.many = u.many /\ v.learnsTarget = u.learnsTarget
               /\ v.learnsSource = u.learnsSource
<1>1. PICK p : p = "filter"
  OBVIOUS
<1>2. PICK n : n = FALSE
  OBVIOUS
<1>3. p \in Property /\ p # "many" /\ p # "learnsTarget" /\ p # "learnsSource"
  BY <1>1 DEF Property
<1>4. (p = "filter" /\ n = FALSE) \/ (p # "filter" /\ n = None)
  BY <1>1, <1>2
<1>5. LET v == Clear(u, p, n)
      IN  /\ Sound(v)
          /\ v.mappings = u.mappings /\ v.futures = u.futures
          /\ v.observers = u.observers /\ v.mainTasks = u.mainTasks
          /\ p # "many" => v.many = u.many
          /\ p # "learnsTarget" => v.learnsTarget = u.learnsTarget
          /\ p # "learnsSource" => v.learnsSource = u.learnsSource
  BY <1>3, <1>4, Clearing
<1>6. StopFilterLearning(u) = Clear(u, p, n)
  BY <1>1, <1>2 DEF StopFilterLearning
<1>. QED  BY <1>3, <1>5, <1>6

\* What a unit owes depends on a few fields only.
LEMMA OwesTheSame ==
    ASSUME NEW u, NEW v, NEW m,
           v.observers = u.observers, v.mainTasks = u.mainTasks,
           v.many = u.many, v.learnsTarget = u.learnsTarget,
           Owes(u, m)
    PROVE  Owes(v, m)
BY DEF Owes, WillReturn

\* Tasks for the control surface don't matter.
LEMMA SurfaceTasks ==
    ASSUME NEW u, Sound(u), NEW f \in Futures \cup {None}
    PROVE  LET v == [u EXCEPT !.surfaceTasks = Append(@, f)]
           IN  /\ Sound(v)
               /\ v.mappings = u.mappings /\ v.futures = u.futures
               /\ v.observers = u.observers /\ v.mainTasks = u.mainTasks
               /\ v.many = u.many /\ v.learnsTarget = u.learnsTarget
               /\ v.learnsSource = u.learnsSource
<1>1. u \in UnitState /\ CapturesEnd(u)
  BY DEF Sound
<1>2. PICK q : q = Append(u.surfaceTasks, f)
  OBVIOUS
<1>3. q \in Seq(Futures \cup {None})
  BY <1>1, <1>2 DEF UnitState
<1>4. PICK v : v = [u EXCEPT !.surfaceTasks = q]
  OBVIOUS
<1>5. v = [u EXCEPT !.surfaceTasks = Append(@, f)]
  BY <1>2, <1>4
<1>6. v \in UnitState
  BY <1>1, <1>3, <1>4 DEF UnitState
<1>7. /\ v.mappings = u.mappings /\ v.futures = u.futures
      /\ v.observers = u.observers /\ v.mainTasks = u.mainTasks
      /\ v.many = u.many /\ v.learnsTarget = u.learnsTarget
      /\ v.learnsSource = u.learnsSource /\ v.filter = u.filter /\ v.tasks = u.tasks
  BY <1>1, <1>4 DEF UnitState
<1>8. CapturesEnd(v)
  BY <1>1, <1>7 DEF CapturesEnd, WillEnd
<1>. QED  BY <1>5, <1>6, <1>7, <1>8 DEF Sound

\* Learning a target is stopped: control returns.
LEMMA StopTargetReturns ==
    ASSUME NEW u, Sound(u)
    PROVE  LET v == StopLearningTarget(u)
           IN  /\ Sound(v) /\ HasReturned(v)
               /\ v.mappings = u.mappings /\ v.futures = u.futures
               /\ v.learnsSource = u.learnsSource /\ v.many = u.many
<1>1. PICK a : a = [u EXCEPT !.surfaceTasks = Append(@, None)]
  OBVIOUS
<1>2. PICK b : b = Clear(a, "learnsTarget", None)
  OBVIOUS
<1>3. Sound(a) /\ a.mappings = u.mappings /\ a.futures = u.futures
      /\ a.learnsSource = u.learnsSource /\ a.many = u.many
  BY <1>1, SurfaceTasks
<1>4. Sound(b) /\ b.mappings = a.mappings /\ b.futures = a.futures
      /\ b.learnsSource = a.learnsSource /\ b.many = a.many
  BY <1>2, <1>3, ClearingNumber
<1>5. StopLearningTarget(u) = SendToMain(b, "ReturnToControlMode")
  BY <1>1, <1>2 DEF StopLearningTarget
<1>. QED  BY <1>3, <1>4, <1>5, Sending DEF MainTask

\* What a mapping learns is stopped: control returns.
LEMMA StopActionsReturn ==
    ASSUME NEW u, Sound(u)
    PROVE  LET v == StopMappingActions(u)
           IN  /\ Sound(v) /\ HasReturned(v)
               /\ v.mappings = u.mappings /\ v.futures = u.futures
               /\ v.many = u.many
<1>1. PICK a : a = StopLearningSource(u)
  OBVIOUS
<1>2. Sound(a) /\ a.mappings = u.mappings /\ a.futures = u.futures /\ a.many = u.many
  BY <1>1, StopSourceIsSound
<1>3. StopMappingActions(u) = StopLearningTarget(a)
  BY <1>1 DEF StopMappingActions
<1>. QED  BY <1>2, <1>3, StopTargetReturns

\* Changed mappings don't matter.
LEMMA ChangedMappings ==
    ASSUME NEW u, Sound(u), NEW ms \in [Mappings -> MappingState],
           NEW v, v = [u EXCEPT !.mappings = ms]
    PROVE  /\ Sound(v)
           /\ v.mappings = ms /\ v.futures = u.futures
           /\ v.observers = u.observers /\ v.mainTasks = u.mainTasks
           /\ v.many = u.many /\ v.learnsTarget = u.learnsTarget
           /\ v.learnsSource = u.learnsSource
           /\ HasReturned(u) => HasReturned(v)
<1>1. u \in UnitState /\ CapturesEnd(u)
  BY DEF Sound
<1>2. v \in UnitState
  BY <1>1 DEF UnitState
<1>3. /\ v.mappings = ms /\ v.futures = u.futures
      /\ v.observers = u.observers /\ v.mainTasks = u.mainTasks
      /\ v.many = u.many /\ v.learnsTarget = u.learnsTarget
      /\ v.learnsSource = u.learnsSource /\ v.filter = u.filter /\ v.tasks = u.tasks
  BY <1>1 DEF UnitState
<1>4. CapturesEnd(v)
  BY <1>1, <1>3 DEF CapturesEnd, WillEnd
<1>. QED  BY <1>2, <1>3, <1>4 DEF Sound, HasReturned

\* A mapping is removed: control returns.
LEMMA RemovingReturns ==
    ASSUME NEW u, Sound(u), NEW m
    PROVE  Sound(RemoveMapping(u, m)) /\ HasReturned(RemoveMapping(u, m))
<1>1. PICK a : a = StopMappingActions(u)
  OBVIOUS
<1>2. Sound(a) /\ HasReturned(a)
  BY <1>1, StopActionsReturn
<1>3. a.mappings \in [Mappings -> MappingState]
  BY <1>2 DEF Sound, UnitState
<1>4. PICK ms : ms = [a.mappings EXCEPT ![m].is = "removed"]
  OBVIOUS
<1>5. ms \in [Mappings -> MappingState]
  BY <1>3, <1>4 DEF MappingState
<1>6. PICK v : v = [a EXCEPT !.mappings = ms]
  OBVIOUS
<1>7. RemoveMapping(u, m) = v
  BY <1>1, <1>4, <1>6 DEF RemoveMapping
<1>. QED  BY <1>2, <1>5, <1>6, <1>7, ChangedMappings

\* "Learn many" is stopped: control returns.
LEMMA StopManyReturns ==
    ASSUME NEW u, Sound(u)
    PROVE  Sound(StopLearningManyMappings(u)) /\ HasReturned(StopLearningManyMappings(u))
<1>1. PICK a : a = Clear(u, "many", None)
  OBVIOUS
<1>2. Sound(a)
  BY <1>1, ClearingNumber
<1>3. PICK b : b = StopMappingActions(a)
  OBVIOUS
<1>4. Sound(b)
  BY <1>2, <1>3, StopActionsReturn
<1>5. PICK c : c = SendToMain(b, "ReturnToControlMode")
  OBVIOUS
<1>6. Sound(c) /\ HasReturned(c)
  BY <1>4, <1>5, Sending DEF MainTask
<1>7. StopLearningManyMappings(u) = IF u.learnsSource # None THEN RemoveMapping(c, u.learnsSource) ELSE c
  BY <1>1, <1>3, <1>5 DEF StopLearningManyMappings
<1>. QED  BY <1>6, <1>7, RemovingReturns

\* A new capture for what is being learned.
LEMMA NewCapture ==
    ASSUME NEW u, Sound(u), NEW m \in Mappings,
           NEW reenable \in BOOLEAN, NEW ignored \in SUBSET Sources
    PROVE  LET v == StartLearningSourceInternal(u, m, reenable, ignored)
           IN  /\ Sound(v)
               /\ v.mappings = u.mappings /\ v.futures = u.futures
               /\ v.many = u.many
               /\ reenable => WillReturn(v)
<1>1. PICK a : a = [u EXCEPT !.learnsSource = m]
  OBVIOUS
<1>2. u \in UnitState /\ CapturesEnd(u) /\ m # None
  BY LearningAssumption DEF Sound
<1>3. a \in UnitState
  BY <1>1, <1>2 DEF UnitState, Numbers
<1>4. /\ a.mappings = u.mappings /\ a.futures = u.futures
      /\ a.observers = u.observers /\ a.many = u.many /\ a.filter = u.filter
      /\ a.tasks = u.tasks /\ a.learnsSource = m
  BY <1>1, <1>2 DEF UnitState
<1>5. CapturesEnd(a)
  BY <1>2, <1>4 DEF CapturesEnd, WillEnd
<1>6. PICK b : b = SendToMain(a, "StartLearnSource")
  OBVIOUS
<1>7. /\ Sound(b) /\ b.mappings = a.mappings /\ b.futures = a.futures
      /\ b.learnsSource = a.learnsSource /\ b.many = a.many /\ b.observers = a.observers
  BY <1>3, <1>5, <1>6, Sending DEF Sound, MainTask
<1>8. PICK o : o = Capture(FALSE, reenable, ignored)
  OBVIOUS
<1>9. o \in Captures /\ ~o.forFilter /\ o.reenable = reenable
  BY <1>8 DEF Capture, Captures
<1>10. PICK s : s = b.observers
  OBVIOUS
<1>11. PICK q : q = Append(s, o)
  OBVIOUS
<1>12. b \in UnitState /\ s \in Seq(Observer)
  BY <1>7, <1>10 DEF Sound, UnitState
<1>13. q \in Seq(Observer) /\ ToSet(q) = ToSet(s) \cup {o}
  BY <1>9, <1>11, <1>12, AppendedElements DEF Observer
<1>14. PICK v : v = [b EXCEPT !.observers = q]
  OBVIOUS
<1>15. v = StartLearningSourceInternal(u, m, reenable, ignored)
  BY <1>1, <1>6, <1>8, <1>10, <1>11, <1>14 DEF StartLearningSourceInternal
<1>16. v \in UnitState
  BY <1>12, <1>13, <1>14 DEF UnitState
<1>17. /\ v.mappings = b.mappings /\ v.futures = b.futures
       /\ v.observers = q /\ v.many = b.many /\ v.filter = b.filter
       /\ v.tasks = b.tasks /\ v.learnsSource = m
  BY <1>4, <1>7, <1>12, <1>14 DEF UnitState
<1>18. CapturesEnd(v)
  <2>1. CapturesEnd(b)
    BY <1>7 DEF Sound
  <2>. QED  BY <2>1, <1>2, <1>4, <1>7, <1>9, <1>10, <1>13, <1>17 DEF CapturesEnd, WillEnd
<1>19. reenable => WillReturn(v)
  BY <1>9, <1>13, <1>17 DEF WillReturn
<1>. QED  BY <1>4, <1>7, <1>15, <1>16, <1>17, <1>18, <1>19 DEF Sound

\* A source is learned.
LEMMA StartSourceIsSound ==
    ASSUME NEW u, Sound(u), NEW m \in Mappings, NEW md, Owes(u, md)
    PROVE  LET v == StartLearningSource(u, m)
           IN  Sound(v) /\ Owes(v, md)
<1>. DEFINE v == StartLearningSource(u, m)
<1>1. CASE u.learnsSource # None
  <2>1. v = [u EXCEPT !.learnsSource = m]
    BY <1>1 DEF StartLearningSource
  <2>2. u \in UnitState /\ CapturesEnd(u) /\ m # None
    BY LearningAssumption DEF Sound
  <2>3. v \in UnitState
    BY <2>1, <2>2 DEF UnitState, Numbers
  <2>4. /\ v.observers = u.observers /\ v.many = u.many /\ v.filter = u.filter
        /\ v.tasks = u.tasks /\ v.learnsSource = m /\ v.mainTasks = u.mainTasks
        /\ v.learnsTarget = u.learnsTarget
    BY <2>1, <2>2 DEF UnitState
  <2>. HIDE DEF v
  <2>5. CapturesEnd(v)
    BY <2>2, <2>4 DEF CapturesEnd, WillEnd
  <2>6. Owes(v, md)
    BY <2>4, OwesTheSame
  <2>. QED  BY <2>3, <2>5, <2>6 DEF Sound, v
<1>2. CASE u.learnsSource = None
  <2>1. v = StartLearningSourceInternal(u, m, TRUE, {})
    BY <1>2 DEF StartLearningSource
  <2>. QED  BY <2>1, NewCapture DEF Owes
<1>. QED  BY <1>1, <1>2

\* Learning a target: whoever finishes it returns the control.
LEMMA StartTargetIsSound ==
    ASSUME NEW u, Sound(u), NEW m \in Mappings, NEW disabling \in BOOLEAN, FreeFutures(u) # {}
    PROVE  LET v == StartLearningTargetInternal(u, m, disabling)
           IN  Sound(v) /\ WillReturn(v)
<1>1. PICK a : a = IF disabling THEN SendToMain(u, "DisableControl") ELSE u
  OBVIOUS
<1>2. Sound(a) /\ a.futures = u.futures
  BY <1>1, Sending DEF MainTask
<1>3. PICK f : f = CHOOSE g \in FreeFutures(u) : TRUE
  OBVIOUS
<1>4. f \in Futures
  BY <1>3 DEF FreeFutures
<1>5. a \in UnitState /\ CapturesEnd(a) /\ m # None
  BY <1>2, LearningAssumption DEF Sound
<1>6. PICK fs : fs = [a.futures EXCEPT ![f].is = "spawned"]
  OBVIOUS
<1>7. fs \in [Futures -> Future]
  <2>1. a.futures \in [Futures -> Future]
    BY <1>5 DEF UnitState
  <2>. QED  BY <1>6, <2>1 DEF Future
<1>8. PICK v : v = [a EXCEPT !.learnsTarget = m, !.futures = fs]
  OBVIOUS
<1>9. v = StartLearningTargetInternal(u, m, disabling)
  BY <1>1, <1>3, <1>6, <1>8 DEF StartLearningTargetInternal
<1>10. v \in UnitState
  BY <1>5, <1>7, <1>8 DEF UnitState, Numbers
<1>11. /\ v.observers = a.observers /\ v.filter = a.filter /\ v.learnsTarget = m
       /\ v.tasks = a.tasks /\ v.learnsSource = a.learnsSource
  BY <1>5, <1>8 DEF UnitState
<1>12. CapturesEnd(v)
  BY <1>5, <1>11 DEF CapturesEnd, WillEnd
<1>. QED  BY <1>5, <1>9, <1>10, <1>11, <1>12 DEF Sound, WillReturn

\* "Learn many" learns the target of a mapping.
LEMMA LearnTargetOfOneIsSound ==
    ASSUME NEW u, Sound(u), NEW m \in Mappings, FreeFutures(u) # {}
    PROVE  LET v == LearnTargetOfOneOfMany(u, m)
           IN  Sound(v) /\ WillReturn(v)
<1>1. PICK a : a = [u EXCEPT !.many = m, !.step = "target"]
  OBVIOUS
<1>2. u \in UnitState /\ CapturesEnd(u)
  BY DEF Sound
<1>3. a \in UnitState
  BY <1>1, <1>2 DEF UnitState, Numbers
<1>4. /\ a.observers = u.observers /\ a.filter = u.filter /\ a.futures = u.futures
      /\ a.tasks = u.tasks /\ a.learnsSource = u.learnsSource
  BY <1>1, <1>2 DEF UnitState
<1>5. CapturesEnd(a)
  BY <1>2, <1>4 DEF CapturesEnd, WillEnd
<1>6. FreeFutures(a) # {}
  BY <1>4 DEF FreeFutures
<1>7. LearnTargetOfOneOfMany(u, m) = StartLearningTargetInternal(a, m, FALSE)
  BY <1>1 DEF LearnTargetOfOneOfMany
<1>. QED  BY <1>3, <1>5, <1>6, <1>7, StartTargetIsSound DEF Sound

\* Another trigger.
LEMMA NewTrigger ==
    ASSUME NEW u, Sound(u), NEW o \in Triggers
    PROVE  LET v == [u EXCEPT !.observers = Append(@, o)]
           IN  /\ Sound(v)
               /\ v.many = u.many
<1>1. PICK s : s = u.observers
  OBVIOUS
<1>2. PICK q : q = Append(s, o)
  OBVIOUS
<1>3. u \in UnitState /\ CapturesEnd(u) /\ s \in Seq(Observer)
  BY <1>1 DEF Sound, UnitState
<1>4. q \in Seq(Observer) /\ ToSet(q) = ToSet(s) \cup {o}
  BY <1>2, <1>3, AppendedElements DEF Observer
<1>5. PICK v : v = [u EXCEPT !.observers = q]
  OBVIOUS
<1>6. v = [u EXCEPT !.observers = Append(@, o)]
  BY <1>1, <1>2, <1>5
<1>7. v \in UnitState
  BY <1>3, <1>4, <1>5 DEF UnitState
<1>8. /\ v.observers = q /\ v.filter = u.filter /\ v.many = u.many
      /\ v.tasks = u.tasks /\ v.learnsSource = u.learnsSource
  BY <1>3, <1>5 DEF UnitState
<1>9. o \notin Captures
  BY DEF Triggers, Captures
<1>10. CapturesEnd(v)
  BY <1>1, <1>3, <1>4, <1>8, <1>9 DEF CapturesEnd, WillEnd
<1>. QED  BY <1>6, <1>7, <1>8, <1>10 DEF Sound

\* "Learn many" adds the next mapping.
LEMMA AddOneIsSound ==
    ASSUME NEW u, Sound(u), NEW c \in Compartments, FreshMappings(u, c) # {}
    PROVE  LET v == AddAndLearnOneOfManyMappings(u, c)
           IN  Sound(v) /\ v.many # None
<1>1. PICK m : m = CHOOSE n \in FreshMappings(u, c) : TRUE
  OBVIOUS
<1>2. m \in Mappings /\ m # None
  BY <1>1, LearningAssumption DEF FreshMappings
<1>3. u \in UnitState /\ CapturesEnd(u)
  BY DEF Sound
<1>4. PICK ignored : ignored = IF c = "Controller" THEN LearnedSources(u, c) ELSE {}
  OBVIOUS
<1>5. ignored \in SUBSET Sources
  <2>1. u.mappings \in [Mappings -> MappingState]
    BY <1>3 DEF UnitState
  <2>2. \A n \in Present(u) : u.mappings[n].source \in Sources \cup {NoSource}
    BY <2>1 DEF Present, MappingState
  <2>. QED  BY <1>4, <2>2 DEF LearnedSources
<1>6. PICK ms : ms = [u.mappings EXCEPT ![m].is = "present"]
  OBVIOUS
<1>7. ms \in [Mappings -> MappingState]
  <2>1. u.mappings \in [Mappings -> MappingState]
    BY <1>3 DEF UnitState
  <2>. QED  BY <1>6, <2>1 DEF MappingState
<1>8. PICK a : a = [u EXCEPT !.mappings = ms, !.many = m, !.step = "source"]
  OBVIOUS
<1>9. a \in UnitState
  BY <1>2, <1>3, <1>7, <1>8 DEF UnitState, Numbers
<1>10. /\ a.observers = u.observers /\ a.filter = u.filter /\ a.many = m
       /\ a.tasks = u.tasks /\ a.learnsSource = u.learnsSource
  BY <1>3, <1>8 DEF UnitState
<1>11. Sound(a)
  BY <1>3, <1>9, <1>10 DEF Sound, CapturesEnd, WillEnd
<1>12. PICK b : b = StartLearningSourceInternal(a, m, FALSE, ignored)
  OBVIOUS
<1>13. Sound(b) /\ b.many = m
  BY <1>2, <1>5, <1>10, <1>11, <1>12, NewCapture
<1>14. AddAndLearnOneOfManyMappings(u, c) =
           IF c = "Main" THEN [b EXCEPT !.observers = Append(@, AfterSource(m))] ELSE b
  BY <1>1, <1>4, <1>6, <1>8, <1>12 DEF AddAndLearnOneOfManyMappings
<1>15. AfterSource(m) \in Triggers
  BY <1>2 DEF AfterSource, Triggers
<1>. QED  BY <1>2, <1>13, <1>14, <1>15, NewTrigger

\* "Learn many" begins.
LEMMA StartManyIsSound ==
    ASSUME NEW u, Sound(u), NEW c \in Compartments, FreshMappings(u, c) # {}
    PROVE  LET v == StartLearningManyMappings(u, c)
           IN  Sound(v) /\ v.many # None
<1>1. PICK a : a = SendToMain(u, "DisableControl")
  OBVIOUS
<1>2. Sound(a) /\ a.mappings = u.mappings
  BY <1>1, Sending DEF MainTask
<1>3. PICK b : b = StopMappingActions(a)
  OBVIOUS
<1>4. Sound(b) /\ b.mappings = u.mappings
  BY <1>2, <1>3, StopActionsReturn
<1>5. FreshMappings(b, c) # {}
  BY <1>4 DEF FreshMappings
<1>6. PICK d : d = AddAndLearnOneOfManyMappings(b, c)
  OBVIOUS
<1>7. Sound(d) /\ d.many # None
  BY <1>4, <1>5, <1>6, AddOneIsSound
<1>8. StartLearningManyMappings(u, c) = [d EXCEPT !.observers = Append(@, AfterMapping(c))]
  BY <1>1, <1>3, <1>6 DEF StartLearningManyMappings
<1>9. AfterMapping(c) \in Triggers
  BY DEF AfterMapping, Triggers
<1>. QED  BY <1>7, <1>8, <1>9, NewTrigger

------------------------------------------------------------------------------
(* Reactions.                                                              *)

\* A source was learned.
LEMMA LearnSourceIsSound ==
    ASSUME NEW u, Sound(u), NEW source \in Sources, NEW md, Owes(u, md)
    PROVE  Sound(LearnSource(u, source)) /\ Owes(LearnSource(u, source), md)
<1>1. PICK m : m = u.learnsSource
  OBVIOUS
<1>2. PICK ms : ms = IF m \in Present(u) THEN [u.mappings EXCEPT ![m].source = source]
                     ELSE u.mappings
  OBVIOUS
<1>3. u \in UnitState /\ u.mappings \in [Mappings -> MappingState]
  BY DEF Sound, UnitState
<1>4. ms \in [Mappings -> MappingState]
  BY <1>2, <1>3 DEF MappingState
<1>5. PICK a : a = [u EXCEPT !.mappings = ms]
  OBVIOUS
<1>6. a = IF m \in Present(u) THEN [u EXCEPT !.mappings[m].source = source] ELSE u
  BY <1>2, <1>3, <1>5 DEF UnitState
<1>7. Sound(a) /\ Owes(a, md)
  BY <1>4, <1>5, ChangedMappings, OwesTheSame
<1>8. LearnSource(u, source) = IF m = None THEN u ELSE StopLearningSource(a)
  BY <1>1, <1>6 DEF LearnSource
<1>9. Sound(StopLearningSource(a)) /\ Owes(StopLearningSource(a), md)
  BY <1>7, StopSourceIsSound, OwesTheSame
<1>. QED  BY <1>7, <1>8, <1>9

\* A target was learned.
LEMMA LearnTargetIsSound ==
    ASSUME NEW u, Sound(u), NEW isForeign \in BOOLEAN
    PROVE  Sound(LearnTarget(u, isForeign))
<1>1. PICK m : m = u.learnsTarget
  OBVIOUS
<1>2. PICK ms : ms = IF m \in Present(u) THEN [u.mappings EXCEPT ![m].target = TRUE]
                     ELSE u.mappings
  OBVIOUS
<1>3. u \in UnitState /\ u.mappings \in [Mappings -> MappingState]
  BY DEF Sound, UnitState
<1>4. ms \in [Mappings -> MappingState]
  BY <1>2, <1>3 DEF MappingState
<1>5. PICK a : a = [u EXCEPT !.mappings = ms]
  OBVIOUS
<1>6. a = IF m \in Present(u) THEN [u EXCEPT !.mappings[m].target = TRUE] ELSE u
  BY <1>2, <1>3, <1>5 DEF UnitState
<1>7. Sound(a)
  BY <1>4, <1>5, ChangedMappings
<1>8. LearnTarget(u, isForeign) = IF isForeign THEN u ELSE Clear(a, "learnsTarget", None)
  BY <1>1, <1>6 DEF LearnTarget
<1>9. Sound(Clear(a, "learnsTarget", None))
  BY <1>7, ClearingNumber
<1>. QED  BY <1>8, <1>9

\* Further tasks.
LEMMA MoreTasks ==
    ASSUME NEW u, Sound(u), NEW more \in Seq(Task)
    PROVE  LET v == [u EXCEPT !.tasks = @ \o more]
           IN  /\ Sound(v)
               /\ v.mappings = u.mappings /\ v.futures = u.futures
               /\ v.observers = u.observers /\ v.mainTasks = u.mainTasks
               /\ v.many = u.many /\ v.learnsTarget = u.learnsTarget
               /\ v.learnsSource = u.learnsSource
<1>1. u \in UnitState /\ CapturesEnd(u)
  BY DEF Sound
<1>2. PICK s : s = u.tasks
  OBVIOUS
<1>3. PICK q : q = s \o more
  OBVIOUS
<1>4. s \in Seq(Task)
  BY <1>1, <1>2 DEF UnitState
<1>5. q \in Seq(Task) /\ ToSet(s) \subseteq ToSet(q)
  <2>1. q \in Seq(Task)
    BY <1>3, <1>4
  <2>2. \A i \in DOMAIN s : i \in DOMAIN q /\ q[i] = s[i]
    BY <1>3, <1>4
  <2>. QED  BY <2>1, <2>2 DEF ToSet
<1>6. PICK v : v = [u EXCEPT !.tasks = q]
  OBVIOUS
<1>7. v = [u EXCEPT !.tasks = @ \o more]
  BY <1>2, <1>3, <1>6
<1>8. v \in UnitState
  BY <1>1, <1>5, <1>6 DEF UnitState
<1>9. /\ v.mappings = u.mappings /\ v.futures = u.futures
      /\ v.observers = u.observers /\ v.mainTasks = u.mainTasks
      /\ v.many = u.many /\ v.learnsTarget = u.learnsTarget
      /\ v.learnsSource = u.learnsSource /\ v.filter = u.filter /\ v.tasks = q
  BY <1>1, <1>6 DEF UnitState
<1>10. CapturesEnd(v)
  BY <1>1, <1>2, <1>5, <1>9 DEF CapturesEnd, WillEnd
<1>. QED  BY <1>7, <1>8, <1>9, <1>10 DEF Sound

\* A message was captured.
LEMMA CaptureIsSound ==
    ASSUME NEW u, Sound(u), NEW source \in Sources, NEW md, Owes(u, md)
    PROVE  LET v == CaptureMessage(u, source)
           IN  Sound(v) /\ Owes(v, md) /\ v.mainTasks = u.mainTasks
<1>1. PICK reactions :
        reactions = Selection(u.observers, {o \in Captures : ~o.forFilter /\ source \notin o.ignored})
  OBVIOUS
<1>2. reactions \in Seq(Observer)
  <2>1. PICK s : s = u.observers
    OBVIOUS
  <2>2. PICK S : S = {o \in Captures : ~o.forFilter /\ source \notin o.ignored}
    OBVIOUS
  <2>3. s \in Seq(Observer)
    BY <2>1 DEF Sound, UnitState
  <2>. QED  BY <1>1, <2>1, <2>2, <2>3, SelectedElements
<1>3. PICK more : more = [i \in 1..Len(reactions) |-> [do |-> "learn", source |-> source]]
  OBVIOUS
<1>4. more \in Seq(Task)
  <2>1. [do |-> "learn", source |-> source] \in Task
    BY DEF Task
  <2>2. PICK t : t = [do |-> "learn", source |-> source]
    OBVIOUS
  <2>3. t \in Task /\ more = [i \in 1..Len(reactions) |-> t]
    BY <1>3, <2>1, <2>2
  <2>4. Len(reactions) \in Nat
    <3>. HIDE DEF Observer
    <3>. QED  BY <1>2
  <2>. HIDE DEF Task
  <2>. QED  BY <2>3, <2>4
<1>5. CaptureMessage(u, source) = [u EXCEPT !.tasks = @ \o more]
  BY <1>1, <1>3 DEF CaptureMessage
<1>6. PICK v : v = [u EXCEPT !.tasks = @ \o more]
  OBVIOUS
<1>7. /\ Sound(v)
      /\ v.observers = u.observers /\ v.mainTasks = u.mainTasks
      /\ v.many = u.many /\ v.learnsTarget = u.learnsTarget
  BY <1>4, <1>6, MoreTasks
<1>8. Owes(v, md)
  BY <1>7, OwesTheSame
<1>. QED  BY <1>5, <1>6, <1>7, <1>8

\* The next closure is taken.
Taken(u) == [u EXCEPT !.tasks = Tail(@)]

\* Only the end that it announces doesn't come anymore.
LEMMA TakingATask ==
    ASSUME NEW u, u \in UnitState, u.tasks # <<>>
    PROVE  LET v == Taken(u)
           IN  /\ v \in UnitState
               /\ Head(u.tasks) \in Task
               /\ v.mappings = u.mappings /\ v.futures = u.futures
               /\ v.observers = u.observers /\ v.mainTasks = u.mainTasks
               /\ v.many = u.many /\ v.learnsTarget = u.learnsTarget
               /\ v.learnsSource = u.learnsSource /\ v.filter = u.filter
               /\ ToSet(u.tasks) = ToSet(v.tasks) \cup {Head(u.tasks)}
<1>1. PICK s : s = u.tasks
  OBVIOUS
<1>2. s \in Seq(Task) /\ s # <<>>
  BY <1>1 DEF UnitState
<1>3. PICK q : q = Tail(s)
  OBVIOUS
<1>4. q \in Seq(Task) /\ Head(s) \in Task
  BY <1>2, <1>3
<1>5. ToSet(s) = ToSet(q) \cup {Head(s)}
  <2>1. \A i \in DOMAIN s : i = 1 \/ (i - 1 \in DOMAIN q /\ q[i - 1] = s[i])
    BY <1>2, <1>3
  <2>2. \A i \in DOMAIN q : i + 1 \in DOMAIN s /\ q[i] = s[i + 1]
    BY <1>2, <1>3
  <2>3. Head(s) = s[1] /\ 1 \in DOMAIN s
    BY <1>2
  <2>4. ToSet(s) \subseteq ToSet(q) \cup {Head(s)}
    BY <2>1, <2>3 DEF ToSet
  <2>5. ToSet(q) \cup {Head(s)} \subseteq ToSet(s)
    BY <2>2, <2>3 DEF ToSet
  <2>. QED  BY <2>4, <2>5
<1>6. PICK v : v = [u EXCEPT !.tasks = q]
  OBVIOUS
<1>7. v = Taken(u)
  BY <1>1, <1>3, <1>6 DEF Taken
<1>8. v \in UnitState /\ v.tasks = q
  BY <1>4, <1>6 DEF UnitState
<1>9. /\ v.mappings = u.mappings /\ v.futures = u.futures
      /\ v.observers = u.observers /\ v.mainTasks = u.mainTasks
      /\ v.many = u.many /\ v.learnsTarget = u.learnsTarget
      /\ v.learnsSource = u.learnsSource /\ v.filter = u.filter
  BY <1>6 DEF UnitState
<1>. QED  BY <1>1, <1>4, <1>5, <1>7, <1>8, <1>9

\* Who is told about an end and what remains.
LEMMA RemainingObservers ==
    ASSUME NEW u, u \in UnitState, NEW p \in Property, NEW kept
    PROVE  /\ Without(u, p, kept) \in Seq(Observer)
           /\ ToSet(Without(u, p, kept)) =
                {o \in ToSet(u.observers) : Observes(o, p) => o.kind \in kept}
<1>1. PICK s : s = u.observers
  OBVIOUS
<1>2. s \in Seq(Observer) /\ ToSet(s) \subseteq Observer
  BY <1>1 DEF UnitState, ToSet
<1>3. PICK S : S = {o \in Observer : Observes(o, p) => o.kind \in kept}
  OBVIOUS
<1>4. Selection(s, S) \in Seq(Observer) /\ ToSet(Selection(s, S)) = ToSet(s) \cap S
  BY <1>2, SelectedElements
<1>5. Without(u, p, kept) = Selection(s, S)
  BY <1>1, <1>3 DEF Without
<1>. QED  BY <1>1, <1>2, <1>3, <1>4, <1>5

\* The end of a capture returns the control if that is its duty.
LEMMA StoppedIsSound ==
    ASSUME NEW u0, Sound(u0), NEW md, Owes(u0, md), u0.tasks # <<>>,
           NEW p \in Property, p # "many",
           Head(u0.tasks) = [do |-> "notify", property |-> p]
    PROVE  LET v == NotifyStopped(Taken(u0), p)
           IN  Sound(v) /\ Owes(v, md)
<1>1. PICK u : u = Taken(u0)
  OBVIOUS
<1>2. u0 \in UnitState /\ CapturesEnd(u0)
  BY DEF Sound
<1>3. /\ u \in UnitState
      /\ u.observers = u0.observers /\ u.mainTasks = u0.mainTasks
      /\ u.many = u0.many /\ u.learnsTarget = u0.learnsTarget
      /\ u.learnsSource = u0.learnsSource /\ u.filter = u0.filter
      /\ ToSet(u0.tasks) = ToSet(u.tasks) \cup {[do |-> "notify", property |-> p]}
  BY <1>1, <1>2, TakingATask
<1>4. PICK told : told = ObserversOf(u, p)
  OBVIOUS
<1>5. told \in Seq(Observer) /\ ToSet(told) = {o \in ToSet(u.observers) : Observes(o, p)}
  BY <1>3, <1>4, CapturesAreTold
<1>6. PICK R : R = {o \in Captures : o.reenable}
  OBVIOUS
<1>7. PICK returns : returns = Selection(told, R)
  OBVIOUS
<1>8. returns \in Seq(Observer) /\ ToSet(returns) = ToSet(told) \cap R
  BY <1>5, <1>7, SelectedElements
<1>9. PICK triggered : triggered = Selection(told, Triggers)
  OBVIOUS
<1>10. triggered \in Seq(Observer) /\ ToSet(triggered) = ToSet(told) \cap Triggers
  BY <1>5, <1>9, SelectedElements
<1>11. PICK remaining : remaining = Without(u, p, {"afterMapping"})
  OBVIOUS
<1>12. /\ remaining \in Seq(Observer)
       /\ ToSet(remaining) = {o \in ToSet(u.observers) : Observes(o, p) => o.kind \in {"afterMapping"}}
  BY <1>3, <1>11, RemainingObservers
<1>13. PICK mt : mt = u.mainTasks \o [i \in 1..Len(returns) |-> "ReturnToControlMode"]
  OBVIOUS
<1>14. /\ mt \in Seq(MainTask)
       /\ returns = <<>> => mt = u.mainTasks
       /\ returns # <<>> => mt # <<>> /\ mt[Len(mt)] = "ReturnToControlMode"
  <2>1. PICK s : s = u.mainTasks
    OBVIOUS
  <2>2. s \in Seq(MainTask)
    BY <1>3, <2>1 DEF UnitState
  <2>3. PICK r : r = [i \in 1..Len(returns) |-> "ReturnToControlMode"]
    OBVIOUS
  <2>4. Len(returns) \in Nat /\ (returns = <<>> <=> Len(returns) = 0)
    BY <1>8
  <2>5. r \in Seq(MainTask) /\ Len(r) = Len(returns) /\ \A i \in 1..Len(r) : r[i] = "ReturnToControlMode"
    BY <2>3, <2>4 DEF MainTask
  <2>6. mt = s \o r
    BY <1>13, <2>1, <2>3
  <2>. QED  BY <2>1, <2>2, <2>4, <2>5, <2>6
<1>15. PICK ts : ts = u.tasks \o [i \in 1..Len(triggered) |-> Reaction(triggered[i])]
  OBVIOUS
<1>16. ts \in Seq(Task) /\ ToSet(u.tasks) \subseteq ToSet(ts)
  <2>1. PICK s : s = u.tasks
    OBVIOUS
  <2>2. s \in Seq(Task)
    BY <1>3, <2>1 DEF UnitState
  <2>3. PICK r : r = [i \in 1..Len(triggered) |-> Reaction(triggered[i])]
    OBVIOUS
  <2>4. \A i \in 1..Len(triggered) : triggered[i] \in Triggers
    BY <1>10 DEF ToSet
  <2>5. \A o \in Triggers : Reaction(o) \in Task
    BY DEF Triggers, Reaction, Task
  <2>6. r \in Seq(Task)
    <3>1. Len(triggered) \in Nat
      BY <1>10
    <3>. QED  BY <2>3, <2>4, <2>5, <3>1
  <2>7. ts = s \o r
    BY <1>15, <2>1, <2>3
  <2>8. \A i \in DOMAIN s : i \in DOMAIN ts /\ ts[i] = s[i]
    BY <2>2, <2>6, <2>7
  <2>. QED  BY <2>1, <2>2, <2>6, <2>7, <2>8 DEF ToSet
<1>17. PICK v : v = [u EXCEPT !.observers = remaining, !.mainTasks = mt, !.tasks = ts]
  OBVIOUS
<1>18. v = NotifyStopped(u, p)
  BY <1>4, <1>6, <1>7, <1>9, <1>11, <1>13, <1>15, <1>17 DEF NotifyStopped
<1>19. v \in UnitState
  BY <1>3, <1>12, <1>14, <1>16, <1>17 DEF UnitState
<1>20. /\ v.observers = remaining /\ v.mainTasks = mt /\ v.tasks = ts
       /\ v.many = u.many /\ v.learnsTarget = u.learnsTarget
       /\ v.learnsSource = u.learnsSource /\ v.filter = u.filter
  BY <1>3, <1>17 DEF UnitState
<1>21. CapturesEnd(v)
  <2>1. SUFFICES ASSUME NEW o \in ToSet(v.observers) \cap Captures
                 PROVE  IF o.forFilter THEN v.filter \/ WillEnd(v, "filter")
                        ELSE v.learnsSource # None \/ WillEnd(v, "learnsSource")
    BY DEF CapturesEnd
  <2>2. o \in ToSet(u0.observers) /\ (Observes(o, p) => o.kind \in {"afterMapping"})
    BY <1>3, <1>12, <1>20
  <2>3. ~Observes(o, p)
    BY <2>2 DEF Captures
  <2>4. IF o.forFilter THEN p # "filter" ELSE p # "learnsSource"
    BY <2>3 DEF Observes, Captures
  <2>5. \A r \in Property : (r # p /\ WillEnd(u0, r)) => WillEnd(v, r)
    BY <1>3, <1>16, <1>20 DEF WillEnd
  <2>6. IF o.forFilter THEN u0.filter \/ WillEnd(u0, "filter")
        ELSE u0.learnsSource # None \/ WillEnd(u0, "learnsSource")
    BY <1>2, <2>2 DEF CapturesEnd
  <2>. QED  BY <2>4, <2>5, <2>6, <1>3, <1>20 DEF Property
<1>22. Owes(v, md)
  <2>1. CASE returns # <<>>
    <3>1. HasReturned(v)
      BY <2>1, <1>14, <1>20 DEF HasReturned
    <3>. QED  BY <3>1, ReturnedIsSettled
  <2>2. CASE returns = <<>>
    <3>1. SUFFICES ASSUME LastOf(v.mainTasks, md) # "Controlling" PROVE WillReturn(v)
      BY DEF Owes
    <3>2. WillReturn(u0)
      BY <3>1, <2>2, <1>3, <1>14, <1>20 DEF Owes
    <3>3. ToSet(told) \cap R = {}
      BY <2>2, <1>8 DEF ToSet
    <3>4. ASSUME NEW o \in ToSet(u0.observers) \cap Captures, o.reenable
          PROVE  o \in ToSet(v.observers)
      <4>1. ~Observes(o, p)
        BY <3>3, <3>4, <1>3, <1>5, <1>6
      <4>. QED  BY <4>1, <1>3, <1>12, <1>20
    <3>. QED  BY <3>2, <3>4, <1>3, <1>20 DEF WillReturn
  <2>. QED  BY <2>1, <2>2
<1>. QED  BY <1>1, <1>18, <1>19, <1>21, <1>22 DEF Sound

\* The end of "learn many" drops its triggers only.
LEMMA ManyStoppedIsSound ==
    ASSUME NEW u0, Sound(u0), NEW md, Owes(u0, md), u0.tasks # <<>>,
           Head(u0.tasks) = [do |-> "notify", property |-> "many"]
    PROVE  LET v == NotifyManyStopped(Taken(u0))
           IN  Sound(v) /\ Owes(v, md)
<1>1. PICK u : u = Taken(u0)
  OBVIOUS
<1>2. u0 \in UnitState /\ CapturesEnd(u0)
  BY DEF Sound
<1>3. /\ u \in UnitState
      /\ u.observers = u0.observers /\ u.mainTasks = u0.mainTasks
      /\ u.many = u0.many /\ u.learnsTarget = u0.learnsTarget
      /\ u.learnsSource = u0.learnsSource /\ u.filter = u0.filter
      /\ ToSet(u0.tasks) = ToSet(u.tasks) \cup {[do |-> "notify", property |-> "many"]}
  BY <1>1, <1>2, TakingATask
<1>4. PICK remaining : remaining = Without(u, "many", {})
  OBVIOUS
<1>5. /\ remaining \in Seq(Observer)
      /\ ToSet(remaining) = {o \in ToSet(u.observers) : Observes(o, "many") => o.kind \in {}}
  BY <1>3, <1>4, RemainingObservers DEF Property
<1>6. PICK v : v = [u EXCEPT !.observers = remaining]
  OBVIOUS
<1>7. v = NotifyManyStopped(u)
  BY <1>4, <1>6 DEF NotifyManyStopped
<1>8. v \in UnitState
  BY <1>3, <1>5, <1>6 DEF UnitState
<1>9. /\ v.observers = remaining /\ v.mainTasks = u.mainTasks /\ v.tasks = u.tasks
      /\ v.many = u.many /\ v.learnsTarget = u.learnsTarget
      /\ v.learnsSource = u.learnsSource /\ v.filter = u.filter
  BY <1>3, <1>6 DEF UnitState
<1>10. ToSet(v.observers) \cap Captures = ToSet(u0.observers) \cap Captures
  BY <1>3, <1>5, <1>9 DEF Observes, Captures
<1>11. WillEnd(u0, "filter") => WillEnd(v, "filter")
  BY <1>3, <1>9 DEF WillEnd
<1>12. WillEnd(u0, "learnsSource") => WillEnd(v, "learnsSource")
  BY <1>3, <1>9 DEF WillEnd
<1>13. CapturesEnd(v)
  BY <1>2, <1>3, <1>9, <1>10, <1>11, <1>12 DEF CapturesEnd
<1>14. Owes(v, md)
  BY <1>3, <1>9, <1>10 DEF Owes, WillReturn
<1>. QED  BY <1>1, <1>7, <1>8, <1>13, <1>14 DEF Sound

\* Taking another closure changes nothing that matters.
LEMMA TakenIsSound ==
    ASSUME NEW u0, Sound(u0), NEW md, Owes(u0, md), u0.tasks # <<>>,
           Head(u0.tasks).do # "notify"
    PROVE  LET v == Taken(u0)
           IN  /\ Sound(v) /\ Owes(v, md)
               /\ v.mappings = u0.mappings /\ v.futures = u0.futures
<1>1. PICK v : v = Taken(u0)
  OBVIOUS
<1>2. u0 \in UnitState /\ CapturesEnd(u0)
  BY DEF Sound
<1>3. /\ v \in UnitState
      /\ v.mappings = u0.mappings /\ v.futures = u0.futures
      /\ v.observers = u0.observers /\ v.mainTasks = u0.mainTasks
      /\ v.many = u0.many /\ v.learnsTarget = u0.learnsTarget
      /\ v.learnsSource = u0.learnsSource /\ v.filter = u0.filter
      /\ ToSet(u0.tasks) = ToSet(v.tasks) \cup {Head(u0.tasks)}
  BY <1>1, <1>2, TakingATask
<1>4. \A p : WillEnd(u0, p) => WillEnd(v, p)
  <2>1. \A p : Head(u0.tasks) # [do |-> "notify", property |-> p]
    OBVIOUS
  <2>. QED  BY <1>3, <2>1 DEF WillEnd
<1>5. CapturesEnd(v)
  BY <1>2, <1>3, <1>4 DEF CapturesEnd
<1>6. Owes(v, md)
  BY <1>3, OwesTheSame
<1>. QED  BY <1>1, <1>3, <1>5, <1>6 DEF Sound

\* Whatever the next closure is.
LEMMA DoIsSound ==
    ASSUME NEW u, Sound(u), NEW md, Owes(u, md), u.tasks # <<>>, HasNumbers(u)
    PROVE  LET v == Do(Head(u.tasks), Taken(u))
           IN  Sound(v) /\ Owes(v, md)
<1>1. PICK task : task = Head(u.tasks)
  OBVIOUS
<1>2. task \in Task
  BY <1>1, TakingATask DEF Sound
<1>3. PICK v : v = Do(task, Taken(u))
  OBVIOUS
<1>4. CASE task \in [do: {"notify"}, property: Property]
  <2>1. task.property \in Property /\ task = [do |-> "notify", property |-> task.property]
    BY <1>4
  <2>2. CASE task.property = "many"
    <3>1. v = NotifyManyStopped(Taken(u))
      BY <1>3, <2>1, <2>2 DEF Do
    <3>. QED  BY <1>1, <1>3, <2>1, <2>2, <3>1, ManyStoppedIsSound
  <2>3. CASE task.property # "many"
    <3>1. v = NotifyStopped(Taken(u), task.property)
      BY <1>3, <2>1, <2>3 DEF Do
    <3>. QED  BY <1>1, <1>3, <2>1, <2>3, <3>1, StoppedIsSound
  <2>. QED  BY <2>2, <2>3
<1>5. CASE task \notin [do: {"notify"}, property: Property]
  <2>1. task.do # "notify"
    BY <1>2, <1>5 DEF Task
  <2>2. PICK w : w = Taken(u)
    OBVIOUS
  <2>3. Sound(w) /\ Owes(w, md) /\ w.mappings = u.mappings /\ w.futures = u.futures
    BY <1>1, <2>1, <2>2, TakenIsSound
  <2>4. FreeFutures(w) # {} /\ \A c \in Compartments : FreshMappings(w, c) # {}
    BY <2>3 DEF HasNumbers, FreeFutures, FreshMappings
  <2>5. CASE task \in [do: {"learn"}, source: Sources]
    <3>1. v = LearnSource(w, task.source) /\ task.source \in Sources
      BY <1>3, <2>2, <2>5 DEF Do
    <3>. QED  BY <1>1, <1>3, <2>3, <3>1, LearnSourceIsSound
  <2>6. CASE task \in [do: {"learnTarget"}, mapping: Mappings]
    <3>1. v = LearnTargetOfOneOfMany(w, task.mapping) /\ task.mapping \in Mappings
      BY <1>3, <2>2, <2>6 DEF Do
    <3>. QED  BY <1>1, <1>3, <2>3, <2>4, <3>1, LearnTargetOfOneIsSound DEF Owes
  <2>7. CASE task \in [do: {"addMapping"}, compartment: Compartments]
    <3>1. v = AddAndLearnOneOfManyMappings(w, task.compartment) /\ task.compartment \in Compartments
      BY <1>3, <2>2, <2>7 DEF Do
    <3>. QED  BY <1>1, <1>3, <2>3, <2>4, <3>1, AddOneIsSound DEF Owes, WillReturn
  <2>. QED  BY <1>2, <1>5, <2>5, <2>6, <2>7 DEF Task
<1>. QED  BY <1>4, <1>5

------------------------------------------------------------------------------
(* Steps.                                                                  *)

\* Futures and what they ask of the control surface don't matter.
LEMMA ChangedFutures ==
    ASSUME NEW u, Sound(u), NEW md, Owes(u, md), NEW fs \in [Futures -> Future],
           NEW q \in Seq(Futures \cup {None}),
           NEW v, v = [u EXCEPT !.futures = fs, !.surfaceTasks = q]
    PROVE  Sound(v) /\ Owes(v, md)
<1>1. u \in UnitState /\ CapturesEnd(u)
  BY DEF Sound
<1>2. v \in UnitState
  BY <1>1 DEF UnitState
<1>3. /\ v.observers = u.observers /\ v.mainTasks = u.mainTasks
      /\ v.many = u.many /\ v.learnsTarget = u.learnsTarget
      /\ v.learnsSource = u.learnsSource /\ v.filter = u.filter /\ v.tasks = u.tasks
  BY <1>1 DEF UnitState
<1>4. CapturesEnd(v)
  BY <1>1, <1>3 DEF CapturesEnd, WillEnd
<1>5. Owes(v, md)
  BY <1>3, OwesTheSame
<1>. QED  BY <1>2, <1>4, <1>5 DEF Sound

\* Filtering: its end returns the control.
LEMMA StartFilterIsSound ==
    ASSUME NEW u, Sound(u)
    PROVE  LET v == [SendToMain(u, "StartLearnSource") EXCEPT
                        !.filter = TRUE, !.observers = Append(@, Capture(TRUE, TRUE, {}))]
           IN  Sound(v) /\ WillReturn(v)
<1>1. PICK b : b = SendToMain(u, "StartLearnSource")
  OBVIOUS
<1>2. Sound(b)
  BY <1>1, Sending DEF MainTask
<1>3. PICK o : o = Capture(TRUE, TRUE, {})
  OBVIOUS
<1>4. o \in Captures /\ o.forFilter /\ o.reenable
  BY <1>3 DEF Capture, Captures
<1>5. PICK s : s = b.observers
  OBVIOUS
<1>6. PICK q : q = Append(s, o)
  OBVIOUS
<1>7. b \in UnitState /\ CapturesEnd(b) /\ s \in Seq(Observer)
  BY <1>2, <1>5 DEF Sound, UnitState
<1>8. q \in Seq(Observer) /\ ToSet(q) = ToSet(s) \cup {o}
  BY <1>4, <1>6, <1>7, AppendedElements DEF Observer
<1>9. PICK v : v = [b EXCEPT !.filter = TRUE, !.observers = q]
  OBVIOUS
<1>10. v = [b EXCEPT !.filter = TRUE, !.observers = Append(@, Capture(TRUE, TRUE, {}))]
  BY <1>3, <1>5, <1>6, <1>9
<1>11. v \in UnitState
  BY <1>7, <1>8, <1>9 DEF UnitState
<1>12. v.observers = q /\ v.filter = TRUE /\ v.tasks = b.tasks /\ v.learnsSource = b.learnsSource
  BY <1>7, <1>9 DEF UnitState
<1>13. CapturesEnd(v)
  BY <1>4, <1>5, <1>7, <1>8, <1>12 DEF CapturesEnd, WillEnd
<1>14. WillReturn(v)
  BY <1>4, <1>8, <1>12 DEF WillReturn
<1>. QED  BY <1>1, <1>10, <1>11, <1>13, <1>14 DEF Sound

\* The duty to return the control is on its way through three channels. The
\* audio thread is as far as the tasks that it hasn't done yet let it be.
LearningInv ==
    /\ Sound(unit)
    /\ Owes(unit, mode)
    /\ mode \in Modes /\ rtMode \in Modes
    /\ capturing \in Futures \cup {None}
    /\ rtTasks \in Seq(MainTask) /\ captured \in Seq(Sources)
    /\ LastOf(rtTasks, rtMode) = mode

\* In the beginning, nothing is learned.
LEMMA LearningStarts == Init => LearningInv
<1>. SUFFICES ASSUME Init PROVE LearningInv
  OBVIOUS
<1>1. unit \in UnitState
  <2>1. unit.mappings \in [Mappings -> MappingState]
    BY DEF Init, MappingState, Fresh
  <2>2. unit.futures \in [Futures -> Future]
    BY DEF Init, Future, Gone
  <2>3. PICK ms : ms = unit.mappings
    OBVIOUS
  <2>4. PICK fs : fs = unit.futures
    OBVIOUS
  <2>5. unit = [mappings |-> ms, learnsSource |-> None, learnsTarget |-> None, many |-> None,
                step |-> "source", filter |-> FALSE, observers |-> <<>>, tasks |-> <<>>,
                futures |-> fs, surfaceTasks |-> <<>>, mainTasks |-> <<>>]
    BY <2>3, <2>4 DEF Init
  <2>. QED  BY <2>1, <2>2, <2>3, <2>4, <2>5 DEF UnitState, Numbers
<1>2. unit.observers = <<>> /\ unit.mainTasks = <<>>
  BY DEF Init
<1>3. CapturesEnd(unit)
  BY <1>2 DEF CapturesEnd, ToSet
<1>4. mode = "Controlling" /\ Owes(unit, mode)
  BY <1>2 DEF Owes, LastOf, Init
<1>5. rtTasks = <<>> /\ rtMode = mode /\ captured = <<>> /\ capturing = None
  BY DEF Init
<1>. QED  BY <1>1, <1>3, <1>4, <1>5 DEF LearningInv, Sound, Modes, LastOf

\* What a new unit has to fulfil while nothing else changes.
LEMMA UnitSteps ==
    ASSUME LearningInv, Sound(unit'), Owes(unit', mode), UNCHANGED <<mode, rtMode, rtTasks>>,
           capturing' \in Futures \cup {None}, captured' \in Seq(Sources)
    PROVE  LearningInv'
BY DEF LearningInv

\* A click is sound if the new unit is.
LEMMA ClickIsSound ==
    ASSUME LearningInv, NEW new, NEW kinds, Click(new, kinds), Sound(new), Owes(new, mode)
    PROVE  LearningInv'
<1>1. unit' = new /\ UNCHANGED processorVars
  BY DEF Click
<1>. QED  BY <1>1 DEF LearningInv, processorVars

\* A click, proper or not.
LEMMA UserIsSound == LearningInv /\ User => LearningInv'
<1>. SUFFICES ASSUME LearningInv, User PROVE LearningInv'
  OBVIOUS
<1>1. Sound(unit) /\ Owes(unit, mode) /\ Present(unit) \subseteq Mappings
  BY DEF LearningInv, Present
<1>2. ASSUME NEW m \in Present(unit), ToggleLearningSource(m) PROVE LearningInv'
  <2>1. PICK v : v = IF unit.learnsSource = m THEN StopLearningSource(unit)
                     ELSE StartLearningSource(unit, m)
    OBVIOUS
  <2>2. Click(v, {"source"})
    BY <1>2, <2>1 DEF ToggleLearningSource
  <2>3. Sound(v) /\ Owes(v, mode)
    <3>1. CASE unit.learnsSource = m
      BY <1>1, <2>1, <3>1, StopSourceIsSound, OwesTheSame
    <3>2. CASE unit.learnsSource # m
      BY <1>1, <2>1, <3>2, StartSourceIsSound
    <3>. QED  BY <3>1, <3>2
  <2>. QED  BY <2>2, <2>3, ClickIsSound
<1>3. ASSUME NEW m \in Present(unit), ToggleLearningTarget(m) PROVE LearningInv'
  <2>1. PICK v : v = IF unit.learnsTarget = m THEN StopLearningTarget(unit)
                     ELSE StartLearningTargetInternal(unit, m, TRUE)
    OBVIOUS
  <2>2. Click(v, {"target"})
    BY <1>3, <2>1 DEF ToggleLearningTarget
  <2>3. FreeFutures(unit) # {}
    BY <2>2 DEF Click, HasNumbers
  <2>4. Sound(v) /\ Owes(v, mode)
    <3>1. CASE unit.learnsTarget = m
      BY <1>1, <2>1, <3>1, StopTargetReturns, ReturnedIsSettled
    <3>2. CASE unit.learnsTarget # m
      BY <1>1, <2>1, <2>3, <3>2, StartTargetIsSound DEF Owes
    <3>. QED  BY <3>1, <3>2
  <2>. QED  BY <2>2, <2>4, ClickIsSound
<1>4. ASSUME NEW m \in Present(unit), ClickRemoveMapping(m) PROVE LearningInv'
  BY <1>1, <1>4, RemovingReturns, ReturnedIsSettled, ClickIsSound DEF ClickRemoveMapping
<1>5. ASSUME NEW c \in Compartments, ToggleLearnManyMappings(c) PROVE LearningInv'
  <2>1. PICK w : w = StopFilterLearning(unit)
    OBVIOUS
  <2>2. Sound(w) /\ w.mappings = unit.mappings
    BY <1>1, <2>1, StopFilterIsSound
  <2>3. PICK v : v = IF unit.many # None THEN StopLearningManyMappings(StopLearningManyMappings(w))
                     ELSE StartLearningManyMappings(w, c)
    OBVIOUS
  <2>4. Click(v, {"many"})
    BY <1>5, <2>1, <2>3 DEF ToggleLearnManyMappings
  <2>5. FreshMappings(w, c) # {}
    BY <2>2, <2>4 DEF Click, HasNumbers, FreshMappings
  <2>6. Sound(v) /\ Owes(v, mode)
    <3>1. CASE unit.many # None
      BY <2>2, <2>3, <3>1, StopManyReturns, ReturnedIsSettled
    <3>2. CASE unit.many = None
      BY <2>2, <2>3, <2>5, <3>2, StartManyIsSound DEF Owes, WillReturn
    <3>. QED  BY <3>1, <3>2
  <2>. QED  BY <2>4, <2>6, ClickIsSound
<1>6. ASSUME NEW c \in Compartments, ReplaceCompartment(c) PROVE LearningInv'
  <2>1. PICK w : w = StopMappingActions(unit)
    OBVIOUS
  <2>2. Sound(w) /\ HasReturned(w)
    BY <1>1, <2>1, StopActionsReturn
  <2>3. PICK ms : ms = [m \in Mappings |-> IF m \in Present(unit) /\ Compartment[m] = c
                                           THEN [w.mappings[m] EXCEPT !.is = "removed"]
                                           ELSE w.mappings[m]]
    OBVIOUS
  <2>4. ms \in [Mappings -> MappingState]
    <3>1. w.mappings \in [Mappings -> MappingState]
      BY <2>2 DEF Sound, UnitState
    <3>. QED  BY <2>3, <3>1 DEF MappingState
  <2>5. PICK v : v = [w EXCEPT !.mappings = ms]
    OBVIOUS
  <2>6. Click(v, {"source", "target"})
    BY <1>6, <2>1, <2>3, <2>5 DEF ReplaceCompartment
  <2>7. Sound(v) /\ HasReturned(v)
    BY <2>2, <2>4, <2>5, ChangedMappings
  <2>. QED  BY <2>6, <2>7, ReturnedIsSettled, ClickIsSound
<1>7. ASSUME DestroyMessagePanel PROVE LearningInv'
  BY <1>1, <1>7, StopManyReturns, ReturnedIsSettled, ClickIsSound DEF DestroyMessagePanel
<1>8. ASSUME ToggleLearnSourceFilter PROVE LearningInv'
  <2>1. PICK v : v = IF unit.filter THEN StopFilterLearning(unit)
                     ELSE [SendToMain(unit, "StartLearnSource") EXCEPT
                            !.filter = TRUE, !.observers = Append(@, Capture(TRUE, TRUE, {}))]
    OBVIOUS
  <2>2. Click(v, {"filter"})
    BY <1>8, <2>1 DEF ToggleLearnSourceFilter
  <2>3. Sound(v) /\ Owes(v, mode)
    <3>1. CASE unit.filter
      BY <1>1, <2>1, <3>1, StopFilterIsSound, OwesTheSame
    <3>2. CASE ~unit.filter
      BY <1>1, <2>1, <3>2, StartFilterIsSound DEF Owes
    <3>. QED  BY <3>1, <3>2
  <2>. QED  BY <2>2, <2>3, ClickIsSound
<1>. QED  BY <1>2, <1>3, <1>4, <1>5, <1>6, <1>7, <1>8 DEF User

\* A future is polled. What it learns ends with the return of the control.
LEMMA PollIsSound ==
    ASSUME LearningInv, NEW f \in Futures, PollFuture(f)
    PROVE  LearningInv'
<1>1. Sound(unit) /\ Owes(unit, mode)
  BY DEF LearningInv
<1>2. unit.futures \in [Futures -> Future] /\ unit.surfaceTasks \in Seq(Futures \cup {None})
  BY <1>1 DEF Sound, UnitState
<1>3. PICK future : future = unit.futures[f]
  OBVIOUS
<1>4. future \in Future /\ future.channel \in Seq(Touch)
  BY <1>2, <1>3 DEF Future
<1>5. PICK rest : rest = [unit EXCEPT !.futures[f].channel = Tail(@)]
  OBVIOUS
<1>6. CASE future.is = "spawned"
  <2>1. PICK fs : fs = [unit.futures EXCEPT ![f].is = "waiting"]
    OBVIOUS
  <2>2. fs \in [Futures -> Future]
    BY <1>2, <2>1 DEF Future
  <2>3. PICK q : q = Append(unit.surfaceTasks, f)
    OBVIOUS
  <2>4. q \in Seq(Futures \cup {None})
    BY <1>2, <2>3
  <2>5. unit' = [unit EXCEPT !.futures = fs, !.surfaceTasks = q]
    BY <1>3, <1>6, <2>1, <2>3 DEF PollFuture
  <2>6. Sound(unit') /\ Owes(unit', mode)
    BY <1>1, <2>2, <2>4, <2>5, ChangedFutures
  <2>. QED  BY <2>6 DEF PollFuture, LearningInv, processorVars
<1>7. CASE future.is # "spawned" /\ future.channel = <<>>
  <2>1. PICK fs : fs = [unit.futures EXCEPT ![f] = Gone]
    OBVIOUS
  <2>2. fs \in [Futures -> Future]
    <3>1. Gone \in Future
      BY DEF Gone, Future
    <3>. QED  BY <1>2, <2>1, <3>1
  <2>3. PICK q : q = unit.surfaceTasks
    OBVIOUS
  <2>4. unit' = [unit EXCEPT !.futures = fs]
    BY <1>3, <1>7, <2>1 DEF PollFuture
  <2>5. unit' = [unit EXCEPT !.futures = fs, !.surfaceTasks = q]
    BY <1>1, <2>3, <2>4 DEF Sound, UnitState
  <2>6. Sound(unit') /\ Owes(unit', mode)
    BY <1>1, <1>2, <2>2, <2>3, <2>5, ChangedFutures
  <2>. QED  BY <2>6 DEF PollFuture, LearningInv, processorVars
<1>8. CASE future.is # "spawned" /\ future.channel # <<>>
  <2>1. PICK fs : fs = [unit.futures EXCEPT ![f].channel = Tail(@)]
    OBVIOUS
  <2>2. fs \in [Futures -> Future]
    <3>1. Tail(future.channel) \in Seq(Touch)
      BY <1>4, <1>8
    <3>. QED  BY <1>2, <1>3, <2>1, <3>1 DEF Future
  <2>3. PICK q : q = unit.surfaceTasks
    OBVIOUS
  <2>4. rest = [unit EXCEPT !.futures = fs]
    BY <1>5, <2>1
  <2>5. rest = [unit EXCEPT !.futures = fs, !.surfaceTasks = q]
    BY <1>1, <2>3, <2>4 DEF Sound, UnitState
  <2>6. Sound(rest) /\ Owes(rest, mode)
    BY <1>1, <1>2, <2>2, <2>3, <2>5, ChangedFutures
  <2>7. PICK touch : touch = Head(future.channel)
    OBVIOUS
  <2>8. touch \in Touch
    BY <1>4, <1>8, <2>7
  <2>9. unit' = IF touch.causedByRealearn THEN rest
                ELSE StopLearningTarget(LearnTarget(rest, touch.isForeign))
    BY <1>3, <1>5, <1>8, <2>7 DEF PollFuture
  <2>10. Sound(unit') /\ Owes(unit', mode)
    <3>1. CASE touch.causedByRealearn
      BY <2>6, <2>9, <3>1
    <3>2. CASE ~touch.causedByRealearn
      <4>1. PICK learned : learned = LearnTarget(rest, touch.isForeign)
        OBVIOUS
      <4>2. Sound(learned)
        BY <2>6, <2>8, <4>1, LearnTargetIsSound DEF Touch
      <4>3. unit' = StopLearningTarget(learned)
        BY <2>9, <3>2, <4>1
      <4>. QED  BY <4>2, <4>3, StopTargetReturns, ReturnedIsSettled
    <3>. QED  BY <3>1, <3>2
  <2>. QED  BY <2>10 DEF PollFuture, LearningInv, processorVars
<1>. QED  BY <1>6, <1>7, <1>8

\* The mode after all tasks, those that were done and those that follow.
LEMMA ModeAfterAll ==
    ASSUME NEW a \in Seq(MainTask), NEW b \in Seq(MainTask), NEW m
    PROVE  LastOf(a \o b, m) = LastOf(b, LastOf(a, m))
<1>1. CASE b = <<>>
  <2>1. a \o b = a
    BY <1>1
  <2>. QED  BY <1>1, <2>1 DEF LastOf
<1>2. CASE b # <<>>
  <2>1. a \o b # <<>> /\ (a \o b)[Len(a \o b)] = b[Len(b)]
    BY <1>2
  <2>. QED  BY <1>2, <2>1 DEF LastOf
<1>. QED  BY <1>1, <1>2

\* A step of the main loop.
LEMMA MainLoopIsSound == LearningInv /\ MainLoop => LearningInv'
<1>. SUFFICES ASSUME LearningInv, MainLoop PROVE LearningInv'
  OBVIOUS
<1>1. Sound(unit) /\ Owes(unit, mode) /\ unit \in UnitState
  BY DEF LearningInv, Sound
<1>2. ASSUME StartCycle PROVE LearningInv'
  BY <1>2 DEF StartCycle, LearningInv, processorVars
<1>3. ASSUME RunTask PROVE LearningInv'
  <2>1. unit' = Do(Head(unit.tasks), Taken(unit))
    BY <1>3 DEF RunTask, Taken
  <2>2. Sound(unit') /\ Owes(unit', mode)
    BY <1>1, <1>3, <2>1, DoIsSound DEF RunTask
  <2>. QED  BY <1>3, <2>2 DEF RunTask, LearningInv, processorVars
<1>4. ASSUME EndTasks PROVE LearningInv'
  BY <1>4 DEF EndTasks, LearningInv, processorVars
<1>5. ASSUME NEW f \in Futures, PollFuture(f) PROVE LearningInv'
  BY <1>5, PollIsSound
<1>6. ASSUME EndFutures PROVE LearningInv'
  BY <1>6 DEF EndFutures, LearningInv, processorVars
<1>7. ASSUME ProcessMainTasks PROVE LearningInv'
  <2>1. PICK fs : fs = unit.futures
    OBVIOUS
  <2>2. PICK q : q = <<>>
    OBVIOUS
  <2>3. q \in Seq(Futures \cup {None}) /\ fs \in [Futures -> Future]
    BY <1>1, <2>1, <2>2 DEF UnitState
  <2>4. unit' = [unit EXCEPT !.futures = fs, !.surfaceTasks = q]
    BY <1>1, <1>7, <2>1, <2>2 DEF ProcessMainTasks, UnitState
  <2>5. Sound(unit') /\ Owes(unit', mode)
    BY <1>1, <2>3, <2>4, ChangedFutures
  <2>6. capturing' \in Futures \cup {None}
    <3>1. PICK s : s = unit.surfaceTasks
      OBVIOUS
    <3>2. s \in Seq(Futures \cup {None})
      BY <1>1, <3>1 DEF UnitState
    <3>3. s # <<>> => Last(s) \in Futures \cup {None}
      BY <3>2 DEF Last
    <3>. QED  BY <1>7, <3>1, <3>3 DEF ProcessMainTasks, LearningInv
  <2>. QED  BY <1>7, <2>5, <2>6 DEF ProcessMainTasks, LearningInv
<1>8. ASSUME ProcessCapturedMidi PROVE LearningInv'
  <2>1. Head(captured) \in Sources /\ captured' \in Seq(Sources)
    BY <1>8 DEF ProcessCapturedMidi, LearningInv
  <2>2. Sound(unit') /\ Owes(unit', mode)
    BY <1>1, <1>8, <2>1, CaptureIsSound DEF ProcessCapturedMidi
  <2>. QED  BY <1>8, <2>1, <2>2 DEF ProcessCapturedMidi, LearningInv
<1>9. ASSUME ProcessNormalTasks PROVE LearningInv'
  <2>1. PICK mt : mt = unit.mainTasks
    OBVIOUS
  <2>2. mt \in Seq(MainTask) /\ rtTasks \in Seq(MainTask)
    BY <1>1, <2>1 DEF UnitState, LearningInv
  <2>3. mode' = LastOf(mt, mode)
    BY <1>9, <2>1, <2>2 DEF ProcessNormalTasks, LastOf, Last
  <2>4. rtTasks' = rtTasks \o mt /\ rtMode' = rtMode
    BY <1>9, <2>1 DEF ProcessNormalTasks
  <2>5. LastOf(rtTasks', rtMode') = mode' /\ rtTasks' \in Seq(MainTask)
    BY <2>2, <2>3, <2>4, ModeAfterAll DEF LearningInv
  <2>6. mode' \in Modes
    BY <2>2, <2>3, ModesOfTasks DEF LastOf, LearningInv
  <2>7. PICK v : v = unit'
    OBVIOUS
  <2>8. v = [unit EXCEPT !.mainTasks = <<>>]
    BY <1>9, <2>7 DEF ProcessNormalTasks
  <2>9. v \in UnitState
    <3>1. PICK e : e = <<>>
      OBVIOUS
    <3>2. e \in Seq(MainTask) /\ v = [unit EXCEPT !.mainTasks = e]
      BY <2>8, <3>1
    <3>. QED  BY <1>1, <3>2 DEF UnitState
  <2>10. /\ v.observers = unit.observers /\ v.mainTasks = <<>>
         /\ v.many = unit.many /\ v.learnsTarget = unit.learnsTarget
         /\ v.learnsSource = unit.learnsSource /\ v.filter = unit.filter /\ v.tasks = unit.tasks
    BY <1>1, <2>8 DEF UnitState
  <2>11. CapturesEnd(v)
    BY <1>1, <2>10 DEF Sound, CapturesEnd, WillEnd
  <2>12. Owes(v, mode')
    BY <1>1, <2>1, <2>3, <2>10 DEF Owes, WillReturn, LastOf
  <2>. QED  BY <1>9, <2>4, <2>5, <2>6, <2>7, <2>9, <2>11, <2>12
            DEF ProcessNormalTasks, LearningInv, Sound
<1>. QED  BY <1>2, <1>3, <1>4, <1>5, <1>6, <1>7, <1>8, <1>9 DEF MainLoop

\* A step of the audio thread.
LEMMA AudioThreadIsSound == LearningInv /\ ProcessNormalRealTimeTask => LearningInv'
<1>. SUFFICES ASSUME LearningInv, ProcessNormalRealTimeTask PROVE LearningInv'
  OBVIOUS
<1>1. rtTasks \in Seq(MainTask) /\ rtTasks # <<>> /\ LastOf(rtTasks, rtMode) = mode
  BY DEF LearningInv, ProcessNormalRealTimeTask
<1>2. rtTasks' = Tail(rtTasks) /\ rtMode' = ModeAfter[Head(rtTasks)] /\ mode' = mode
  BY DEF ProcessNormalRealTimeTask
<1>3. PICK s : s = rtTasks
  OBVIOUS
<1>4. LastOf(Tail(s), ModeAfter[Head(s)]) = LastOf(s, rtMode)
  <2>1. CASE Tail(s) = <<>>
    <3>1. Len(s) = 1 /\ Head(s) = s[Len(s)]
      <4>1. s \in Seq(MainTask) /\ s # <<>>
        BY <1>1, <1>3
      <4>2. Len(Tail(s)) = Len(s) - 1 /\ Len(s) \in Nat /\ Head(s) = s[1]
        BY <4>1
      <4>3. PICK t : t = Tail(s)
        OBVIOUS
      <4>4. t \in Seq(MainTask)
        BY <4>1, <4>3
      <4>5. t = <<>> => Len(t) = 0
        BY <4>4
      <4>. QED  BY <2>1, <4>2, <4>3, <4>5
    <3>. QED  BY <1>1, <1>3, <2>1, <3>1 DEF LastOf
  <2>2. CASE Tail(s) # <<>>
    <3>1. Tail(s)[Len(Tail(s))] = s[Len(s)]
      BY <1>1, <1>3, <2>2
    <3>. QED  BY <1>1, <1>3, <2>2, <3>1 DEF LastOf
  <2>. QED  BY <2>1, <2>2
<1>5. Tail(s) \in Seq(MainTask) /\ Head(s) \in MainTask
  BY <1>1, <1>3
<1>6. rtTasks' \in Seq(MainTask) /\ rtMode' \in Modes /\ LastOf(rtTasks', rtMode') = mode'
  BY <1>1, <1>2, <1>3, <1>4, <1>5, ModesOfTasks
<1>7. UNCHANGED <<unit, mode, capturing, captured>>
  BY DEF ProcessNormalRealTimeTask
<1>. QED  BY <1>6, <1>7 DEF LearningInv

\* A moved control element or a touched target.
LEMMA EnvironmentIsSound == LearningInv /\ Environment => LearningInv'
<1>. SUFFICES ASSUME LearningInv, Environment PROVE LearningInv'
  OBVIOUS
<1>1. Sound(unit) /\ Owes(unit, mode) /\ unit \in UnitState
  BY DEF LearningInv, Sound
<1>2. ASSUME NEW s \in Sources, SendCapturedMidi(s) PROVE LearningInv'
  <2>1. captured' \in Seq(Sources)
    BY <1>2 DEF SendCapturedMidi, LearningInv
  <2>. QED  BY <1>2, <2>1 DEF SendCapturedMidi, LearningInv
<1>3. ASSUME NEW s \in Sources, ProcessIncomingMsgForLearning(s) PROVE LearningInv'
  <2>1. Sound(unit') /\ Owes(unit', mode)
    BY <1>1, <1>3, CaptureIsSound DEF ProcessIncomingMsgForLearning
  <2>. QED  BY <1>3, <2>1 DEF ProcessIncomingMsgForLearning, LearningInv, processorVars
<1>4. ASSUME NEW isForeign \in BOOLEAN, NEW causedByRealearn \in BOOLEAN,
             ProcessTouchedTarget(isForeign, causedByRealearn)
      PROVE  LearningInv'
  <2>1. PICK touch : touch = [isForeign |-> isForeign, causedByRealearn |-> causedByRealearn]
    OBVIOUS
  <2>2. touch \in Touch
    BY <2>1 DEF Touch
  <2>3. PICK fs : fs = [unit.futures EXCEPT ![capturing].channel = Append(@, touch)]
    OBVIOUS
  <2>4. fs \in [Futures -> Future]
    <3>1. unit.futures \in [Futures -> Future]
      BY <1>1 DEF UnitState
    <3>2. capturing \in Futures
      BY <1>4 DEF ProcessTouchedTarget, LearningInv
    <3>3. unit.futures[capturing].channel \in Seq(Touch)
      BY <3>1, <3>2 DEF Future
    <3>4. Append(unit.futures[capturing].channel, touch) \in Seq(Touch)
      BY <2>2, <3>3
    <3>. QED  BY <2>3, <3>1, <3>4 DEF Future
  <2>5. PICK q : q = unit.surfaceTasks
    OBVIOUS
  <2>6. q \in Seq(Futures \cup {None})
    BY <1>1, <2>5 DEF UnitState
  <2>7. unit' = [unit EXCEPT !.futures = fs]
    BY <1>4, <2>1, <2>3 DEF ProcessTouchedTarget
  <2>8. unit' = [unit EXCEPT !.futures = fs, !.surfaceTasks = q]
    BY <1>1, <2>5, <2>7 DEF UnitState
  <2>9. Sound(unit') /\ Owes(unit', mode)
    BY <1>1, <2>4, <2>6, <2>8, ChangedFutures
  <2>. QED  BY <1>4, <2>9 DEF ProcessTouchedTarget, LearningInv, processorVars
<1>. QED  BY <1>2, <1>3, <1>4 DEF Environment

------------------------------------------------------------------------------
(* More about selections: what is selected from what was joined, and from  *)
(* few elements.                                                           *)

\* c has the selections from the beginnings of s.
Selects(c, s, S, n) ==
    /\ c[0] = <<>>
    /\ \A k \in 1..n : c[k] = IF s[k] \in S THEN Append(c[k - 1], s[k]) ELSE c[k - 1]

\* A selection is built step by step.
LEMMA SelectionSteps ==
    ASSUME NEW s, NEW S, Len(s) \in Nat
    PROVE  \E c : Selection(s, S) = c[Len(s)] /\ Selects(c, s, S, Len(s))
<1>. DEFINE N == 0..Len(s)
            Step(f, n) == IF n = 0 THEN <<>>
                          ELSE IF s[n] \in S THEN Append(f[n - 1], s[n]) ELSE f[n - 1]
            Defines(f, k) == f = [n \in 0..k |-> Step(f, n)]
            Bad == {k \in N : ~ \E f : Defines(f, k)}
<1>1. Bad = {}
  <2>1. SUFFICES ASSUME Bad # {} PROVE FALSE
    OBVIOUS
  <2>2. PICK k \in Bad : \A j \in Bad : k =< j
    <3>1. Bad \subseteq Nat
      OBVIOUS
    <3>. HIDE DEF Bad
    <3>. QED  BY <2>1, <3>1, Smallest
  <2>3. CASE k = 0
    <3>1. Defines([n \in 0..0 |-> <<>>], 0)
      OBVIOUS
    <3>. QED  BY <3>1, <2>3, <2>2
  <2>4. CASE k # 0
    <3>1. PICK f : Defines(f, k - 1)
      <4>1. k - 1 \in N /\ k - 1 \notin Bad
        <5>. HIDE DEF Defines
        <5>. QED  BY <2>2, <2>4
      <4>. HIDE DEF Defines
      <4>. QED  BY <4>1
    <3>. DEFINE g == [n \in 0..k |-> IF n = k THEN Step(f, k) ELSE f[n]]
    <3>2. Defines(g, k)
      <4>1. ASSUME NEW n \in 0..k PROVE g[n] = Step(g, n)
        <5>1. CASE n = k
          BY <5>1, <2>2, <2>4
        <5>2. CASE n # k
          <6>1. n \in 0..(k - 1)
            BY <5>2, <2>2
          <6>2. f[n] = Step(f, n)
            BY <6>1, <3>1
          <6>3. n # 0 => g[n - 1] = f[n - 1]
            BY <6>1, <2>2
          <6>. QED  BY <6>1, <6>2, <6>3, <5>2
        <5>. QED  BY <5>1, <5>2
      <4>. HIDE DEF Step
      <4>. QED  BY <4>1
    <3>. QED  BY <3>2, <2>2
  <2>. QED  BY <2>3, <2>4
<1>2. \E f : Defines(f, Len(s))
  <2>1. Len(s) \in N
    OBVIOUS
  <2>. HIDE DEF Defines, N
  <2>. QED  BY <1>1, <2>1
<1>3. Selection(s, S) = (CHOOSE g : Defines(g, Len(s)))[Len(s)]
  BY DEF Selection
<1>. DEFINE c == CHOOSE g : Defines(g, Len(s))
<1>4. Defines(c, Len(s))
  <2>. HIDE DEF Defines
  <2>. QED  BY <1>2
<1>. HIDE DEF c
<1>5. ASSUME NEW n \in 0..Len(s) PROVE c[n] = Step(c, n)
  BY <1>4
<1>6. c[0] = <<>>
  BY <1>5
<1>7. ASSUME NEW n \in 1..Len(s)
      PROVE  c[n] = IF s[n] \in S THEN Append(c[n - 1], s[n]) ELSE c[n - 1]
  BY <1>5
<1>8. Selects(c, s, S, Len(s))
  BY <1>6, <1>7 DEF Selects
<1>9. Selection(s, S) = c[Len(s)]
  BY <1>3 DEF c
<1>. QED  BY <1>8, <1>9, Zenon

\* Two selections that go the same way are the same.
LEMMA SameSelection ==
    ASSUME NEW s, NEW S, NEW c, NEW d, NEW n \in Nat, Selects(c, s, S, n), Selects(d, s, S, n)
    PROVE  c[n] = d[n]
<1>. DEFINE Bad == {k \in 0..n : c[k] # d[k]}
<1>1. SUFFICES ASSUME Bad # {} PROVE FALSE
  BY DEF Bad
<1>2. PICK k \in Bad : \A j \in Bad : k =< j
  <2>1. Bad \subseteq Nat
    OBVIOUS
  <2>. HIDE DEF Bad
  <2>. QED  BY <1>1, <2>1, Smallest
<1>3. k \in 1..n /\ k - 1 \in 0..n /\ k - 1 \notin Bad
  BY <1>2 DEF Selects
<1>4. c[k - 1] = d[k - 1]
  BY <1>3
<1>. QED  BY <1>2, <1>3, <1>4 DEF Selects

\* Nothing is selected from nothing.
LEMMA SelectionOfNone == ASSUME NEW S PROVE Selection(<<>>, S) = <<>>
<1>1. Len(<<>>) = 0
  OBVIOUS
<1>2. PICK c : Selection(<<>>, S) = c[Len(<<>>)] /\ Selects(c, <<>>, S, Len(<<>>))
  BY <1>1, SelectionSteps
<1>. QED  BY <1>1, <1>2 DEF Selects

\* What is appended is selected or not.
LEMMA SelectionOfAppended ==
    ASSUME NEW T, NEW s \in Seq(T), NEW e \in T, NEW S
    PROVE  Selection(Append(s, e), S) =
               IF e \in S THEN Append(Selection(s, S), e) ELSE Selection(s, S)
<1>1. PICK t : t = Append(s, e)
  OBVIOUS
<1>2. PICK n : n = Len(s)
  OBVIOUS
<1>0. n \in Nat
  BY <1>2
<1>3. n \in Nat /\ Len(t) = n + 1 /\ t[n + 1] = e /\ \A k \in 1..n : t[k] = s[k]
  BY <1>1, <1>2
<1>4. PICK c : Selection(s, S) = c[Len(s)] /\ Selects(c, s, S, Len(s))
  <2>1. Len(s) \in Nat
    BY <1>2, <1>3
  <2>. QED  BY <2>1, SelectionSteps, Zenon
<1>5. PICK d : Selection(t, S) = d[Len(t)] /\ Selects(d, t, S, Len(t))
  <2>1. Len(t) \in Nat
    BY <1>3
  <2>. QED  BY <2>1, SelectionSteps, Zenon
<1>6. Selects(d, s, S, n)
  BY <1>3, <1>5 DEF Selects
<1>7. c[n] = d[n]
  <2>1. Selects(c, s, S, n)
    BY <1>2, <1>4
  <2>. QED  BY <2>1, <1>0, <1>6, SameSelection
<1>8. d[n + 1] = IF e \in S THEN Append(d[n], e) ELSE d[n]
  BY <1>3, <1>5 DEF Selects
<1>9. Selection(t, S) = d[n + 1] /\ Selection(s, S) = d[n]
  BY <1>2, <1>3, <1>4, <1>5, <1>7
<1>. QED  BY <1>1, <1>8, <1>9

\* Selecting from two sequences in a row.
LEMMA SelectionOfBoth ==
    ASSUME NEW T, NEW s \in Seq(T), NEW t \in Seq(T), NEW S
    PROVE  Selection(s \o t, S) = Selection(s, S) \o Selection(t, S)
<1>. DEFINE Part(k) == SubSeq(t, 1, k)
            Bad == {k \in 0..Len(t) :
                        Selection(s \o Part(k), S) # Selection(s, S) \o Selection(Part(k), S)}
<1>1. Bad = {}
  <2>1. SUFFICES ASSUME Bad # {} PROVE FALSE
    OBVIOUS
  <2>2. PICK k \in Bad : \A j \in Bad : k =< j
    <3>1. Bad \subseteq Nat
      OBVIOUS
    <3>. HIDE DEF Bad
    <3>. QED  BY <2>1, <3>1, Smallest
  <2>3. CASE k = 0
    <3>1. PICK p : p = Part(k)
      OBVIOUS
    <3>2. p = <<>>
      BY <2>3, <3>1
    <3>3. s \o p = s
      BY <3>2
    <3>4. PICK a : a = Selection(s, S)
      OBVIOUS
    <3>5. a \in Seq(T)
      BY <3>4, SelectedElements
    <3>6. a \o <<>> = a
      BY <3>5
    <3>. QED  BY <2>2, <3>1, <3>2, <3>3, <3>4, <3>6, SelectionOfNone
  <2>4. CASE k # 0
    <3>1. k \in 1..Len(t) /\ k - 1 \in 0..Len(t) /\ k - 1 \notin Bad
      BY <2>2, <2>4
    <3>2. PICK p : p = Part(k - 1)
      OBVIOUS
    <3>3. PICK e : e = t[k]
      OBVIOUS
    <3>4. p \in Seq(T) /\ e \in T /\ Part(k) = Append(p, e)
      BY <3>1, <3>2, <3>3
    <3>5. Selection(s \o p, S) = Selection(s, S) \o Selection(p, S)
      BY <3>1, <3>2
    <3>6. PICK q : q = s \o p
      OBVIOUS
    <3>7. q \in Seq(T) /\ s \o Append(p, e) = Append(q, e)
      BY <3>4, <3>6
    <3>8. PICK a : a = Selection(s, S)
      OBVIOUS
    <3>9. PICK b : b = Selection(p, S)
      OBVIOUS
    <3>10. a \in Seq(T) /\ b \in Seq(T)
      BY <3>4, <3>8, <3>9, SelectedElements
    <3>11. a \o Append(b, e) = Append(a \o b, e)
      BY <3>4, <3>10
    <3>12. Selection(Append(p, e), S) = IF e \in S THEN Append(b, e) ELSE b
      BY <3>4, <3>9, SelectionOfAppended
    <3>13. Selection(Append(q, e), S) = IF e \in S THEN Append(a \o b, e) ELSE a \o b
      <4>1. Selection(q, S) = a \o b
        BY <3>5, <3>6, <3>8, <3>9
      <4>2. Selection(Append(q, e), S) = IF e \in S THEN Append(Selection(q, S), e) ELSE Selection(q, S)
        BY <3>4, <3>7, SelectionOfAppended
      <4>. QED  BY <4>1, <4>2
    <3>14. Selection(s \o Part(k), S) = Selection(s, S) \o Selection(Part(k), S)
      <4>. HIDE DEF Part
      <4>. QED  BY <3>4, <3>7, <3>8, <3>11, <3>12, <3>13
    <3>. QED  BY <2>2, <3>14
  <2>. QED  BY <2>3, <2>4
<1>2. Len(t) \in 0..Len(t) /\ Part(Len(t)) = t
  OBVIOUS
<1>3. Len(t) \notin Bad
  <2>. HIDE DEF Bad
  <2>. QED  BY <1>1
<1>. QED
  <2>. HIDE DEF Part
  <2>. QED  BY <1>2, <1>3

\* Pairs and triples grow from the left.
LEMMA Pairs ==
    ASSUME NEW a, NEW b
    PROVE  Append(<<a>>, b) = <<a, b>>
<1>1. PICK T : T = {a, b}
  OBVIOUS
<1>2. <<a>> \in Seq(T) /\ <<a, b>> \in Seq(T) /\ b \in T
  BY <1>1
<1>3. PICK s : s = Append(<<a>>, b)
  OBVIOUS
<1>4. s \in Seq(T) /\ Len(s) = 2 /\ s[1] = a /\ s[2] = b
  BY <1>2, <1>3
<1>5. PICK t : t = <<a, b>>
  OBVIOUS
<1>6. t \in Seq(T) /\ Len(t) = 2 /\ t[1] = a /\ t[2] = b
  BY <1>2, <1>5
<1>7. s = t
  BY <1>4, <1>6
<1>. QED  BY <1>3, <1>5, <1>7

\* A third element is appended.
LEMMA Triples ==
    ASSUME NEW a, NEW b, NEW d
    PROVE  Append(<<a, b>>, d) = <<a, b, d>>
<1>1. PICK T : T = {a, b, d}
  OBVIOUS
<1>2. <<a, b>> \in Seq(T) /\ <<a, b, d>> \in Seq(T) /\ d \in T
  BY <1>1
<1>3. PICK s : s = Append(<<a, b>>, d)
  OBVIOUS
<1>4. s \in Seq(T) /\ Len(s) = 3 /\ s[1] = a /\ s[2] = b /\ s[3] = d
  BY <1>2, <1>3
<1>5. PICK t : t = <<a, b, d>>
  OBVIOUS
<1>6. t \in Seq(T) /\ Len(t) = 3 /\ t[1] = a /\ t[2] = b /\ t[3] = d
  BY <1>2, <1>5
<1>7. s = t
  BY <1>4, <1>6
<1>. QED  BY <1>3, <1>5, <1>7

\* The selection of a single element.
LEMMA SelectionOfOne ==
    ASSUME NEW a, NEW S
    PROVE  Selection(<<a>>, S) = IF a \in S THEN <<a>> ELSE <<>>
<1>1. PICK e : e = <<>>
  OBVIOUS
<1>2. PICK T : T = {a}
  OBVIOUS
<1>3. e \in Seq(T) /\ a \in T /\ Append(e, a) = <<a>>
  BY <1>1, <1>2
<1>4. Selection(Append(e, a), S) = IF a \in S THEN Append(Selection(e, S), a) ELSE Selection(e, S)
  BY <1>3, SelectionOfAppended
<1>. QED  BY <1>1, <1>3, <1>4, SelectionOfNone

\* The selection of two elements.
LEMMA SelectionOfTwo ==
    ASSUME NEW a, NEW b, NEW S
    PROVE  Selection(<<a, b>>, S) =
               IF b \in S THEN Append(Selection(<<a>>, S), b) ELSE Selection(<<a>>, S)
<1>1. PICK x : x = <<a>>
  OBVIOUS
<1>2. PICK T : T = {a, b}
  OBVIOUS
<1>3. x \in Seq(T) /\ b \in T /\ Append(x, b) = <<a, b>>
  <2>1. a \in T /\ b \in T
    BY <1>2
  <2>2. <<a>> \in Seq(T)
    BY <2>1
  <2>3. Append(<<a>>, b) = <<a, b>>
    BY Pairs, Zenon
  <2>. QED  BY <1>1, <2>1, <2>2, <2>3
<1>4. Selection(Append(x, b), S) = IF b \in S THEN Append(Selection(x, S), b) ELSE Selection(x, S)
  BY <1>3, SelectionOfAppended
<1>. QED  BY <1>1, <1>3, <1>4

\* The selection of three elements.
LEMMA SelectionOfThree ==
    ASSUME NEW a, NEW b, NEW d, NEW S
    PROVE  Selection(<<a, b, d>>, S) =
               IF d \in S THEN Append(Selection(<<a, b>>, S), d) ELSE Selection(<<a, b>>, S)
<1>1. PICK x : x = <<a, b>>
  OBVIOUS
<1>2. PICK T : T = {a, b, d}
  OBVIOUS
<1>3. x \in Seq(T) /\ d \in T /\ Append(x, d) = <<a, b, d>>
  <2>1. a \in T /\ b \in T /\ d \in T
    BY <1>2
  <2>2. <<a, b>> \in Seq(T)
    BY <2>1
  <2>3. Append(<<a, b>>, d) = <<a, b, d>>
    BY Triples, Zenon
  <2>. QED  BY <1>1, <2>1, <2>2, <2>3
<1>4. Selection(Append(x, d), S) = IF d \in S THEN Append(Selection(x, S), d) ELSE Selection(x, S)
  BY <1>3, SelectionOfAppended
<1>. QED  BY <1>1, <1>3, <1>4

------------------------------------------------------------------------------
(* What is left to be told, and what each operation of the unit model does *)
(* to it and to the other fields.                                          *)

\* The closures that matter for what is being learned: all but those about a
\* captured message, which have no effect unless a source is being learned.
Steps ==
    [do: {"notify"}, property: Property]
    \cup [do: {"learnTarget"}, mapping: Mappings]
    \cup [do: {"addMapping"}, compartment: Compartments]

Todo(u) == Selection(u.tasks, Steps)

Notify(property) == [do |-> "notify", property |-> property]

\* v has the same fields as u, except for some.
Fields == {"mappings", "learnsSource", "learnsTarget", "many", "step", "filter", "observers",
           "tasks", "futures", "surfaceTasks", "mainTasks"}
Keeps(u, v, changed) == \A x \in Fields \ changed : v[x] = u[x]

\* What remains to be told when a property becomes nothing.
End(u, property, nothing) ==
    IF u[property] # nothing /\ ObserversOf(u, property) # <<>> THEN <<Notify(property)>> ELSE <<>>

\* v captures no touched target anymore and has returned the control.
OnlyStops(u) == \A i \in DOMAIN u.surfaceTasks : u.surfaceTasks[i] = None
Stopped(u, v) ==
    /\ v.futures = u.futures
    /\ v.surfaceTasks # <<>> /\ v.surfaceTasks[Len(v.surfaceTasks)] = None
    /\ OnlyStops(u) => OnlyStops(v)
    /\ HasReturned(v)

\* Nothing is added by nothing.
LEMMA AddingNothing ==
    ASSUME NEW T, NEW s \in Seq(T)
    PROVE  s \o <<>> = s /\ <<>> \o s = s
OBVIOUS

\* A single element is added by appending it.
LEMMA AddingOne ==
    ASSUME NEW T, NEW s \in Seq(T), NEW e \in T
    PROVE  s \o <<e>> = Append(s, e)
<1>1. PICK a : a = s \o <<e>>
  OBVIOUS
<1>2. PICK b : b = Append(s, e)
  OBVIOUS
<1>3. a \in Seq(T) /\ Len(a) = Len(s) + 1 /\ \A i \in 1..Len(a) : a[i] = IF i = Len(s) + 1 THEN e ELSE s[i]
  BY <1>1
<1>4. b \in Seq(T) /\ Len(b) = Len(s) + 1 /\ \A i \in 1..Len(b) : b[i] = IF i = Len(s) + 1 THEN e ELSE s[i]
  BY <1>2
<1>5. a = b
  BY <1>3, <1>4
<1>. QED  BY <1>1, <1>2, <1>5

\* A sequence is its first element, followed by the others.
LEMMA HeadAndTail ==
    ASSUME NEW T, NEW s \in Seq(T), s # <<>>
    PROVE  s = <<Head(s)>> \o Tail(s)
OBVIOUS

\* What two changes in a row keep.
LEMMA KeepsBoth ==
    ASSUME NEW u, NEW v, NEW w, NEW F, NEW G, Keeps(u, v, F), Keeps(v, w, G)
    PROVE  Keeps(u, w, F \cup G)
BY DEF Keeps

\* Who keeps more fields keeps fewer.
LEMMA KeepsLess ==
    ASSUME NEW u, NEW v, NEW F, NEW G, Keeps(u, v, F), F \subseteq G
    PROVE  Keeps(u, v, G)
BY DEF Keeps

\* What is to be done is a sequence of closures.
LEMMA TodoType ==
    ASSUME NEW u \in UnitState
    PROVE  Todo(u) \in Seq(Task)
<1>1. PICK s : s = u.tasks
  OBVIOUS
<1>2. s \in Seq(Task)
  BY <1>1 DEF UnitState
<1>. QED  BY <1>1, <1>2, SelectedElements DEF Todo

\* A step that is queued comes last.
LEMMA TodoGrows ==
    ASSUME NEW u \in UnitState, NEW v, NEW t \in Task, v.tasks = Append(u.tasks, t)
    PROVE  Todo(v) = IF t \in Steps THEN Append(Todo(u), t) ELSE Todo(u)
<1>1. PICK s : s = u.tasks
  OBVIOUS
<1>2. s \in Seq(Task)
  BY <1>1 DEF UnitState
<1>3. Selection(Append(s, t), Steps) =
          IF t \in Steps THEN Append(Selection(s, Steps), t) ELSE Selection(s, Steps)
  BY <1>2, SelectionOfAppended
<1>. QED  BY <1>1, <1>3 DEF Todo

\* A step that is taken came first.
LEMMA TodoShrinks ==
    ASSUME NEW u \in UnitState, u.tasks # <<>>
    PROVE  LET v == Taken(u)
               t == Head(u.tasks)
           IN  Todo(u) = IF t \in Steps THEN <<t>> \o Todo(v) ELSE Todo(v)
<1>1. PICK s : s = u.tasks
  OBVIOUS
<1>2. s \in Seq(Task) /\ s # <<>>
  BY <1>1 DEF UnitState
<1>3. PICK q : q = Tail(s)
  OBVIOUS
<1>4. PICK t : t = Head(s)
  OBVIOUS
<1>5. q \in Seq(Task) /\ t \in Task
  BY <1>2, <1>3, <1>4
<1>6. PICK o : o = <<t>>
  OBVIOUS
<1>7. o \in Seq(Task)
  BY <1>5, <1>6
<1>8. s = o \o q
  <2>1. s = <<Head(s)>> \o Tail(s)
    BY <1>2, HeadAndTail
  <2>. QED  BY <2>1, <1>3, <1>4, <1>6
<1>9. Selection(o \o q, Steps) = Selection(o, Steps) \o Selection(q, Steps)
  BY <1>5, <1>7, SelectionOfBoth
<1>10. Selection(o, Steps) = IF t \in Steps THEN <<t>> ELSE <<>>
  BY <1>6, SelectionOfOne
<1>11. Selection(q, Steps) \in Seq(Task)
  BY <1>5, SelectedElements
<1>12. PICK b : b = Selection(q, Steps)
  OBVIOUS
<1>13. <<>> \o b = b
  BY <1>11, <1>12
<1>14. Taken(u).tasks = q
  BY <1>1, <1>3 DEF Taken, UnitState
<1>15. Selection(s, Steps) = IF t \in Steps THEN <<t>> \o b ELSE b
  BY <1>8, <1>9, <1>10, <1>12, <1>13
<1>. QED  BY <1>1, <1>4, <1>12, <1>14, <1>15 DEF Todo

\* A property that becomes nothing.
LEMMA ClearDoes ==
    ASSUME NEW u \in UnitState, NEW p \in Property, NEW nothing
    PROVE  LET v == Clear(u, p, nothing)
           IN  /\ v[p] = nothing
               /\ Todo(v) = Todo(u) \o End(u, p, nothing)
               /\ Keeps(u, v, {p, "tasks"})
<1>1. PICK c : c = [u EXCEPT ![p] = nothing]
  OBVIOUS
<1>2. p \in Fields /\ p # "tasks" /\ DOMAIN u = Fields
  BY DEF UnitState, Fields, Property
<1>3. c[p] = nothing /\ Keeps(u, c, {p}) /\ c.tasks = u.tasks /\ DOMAIN c = Fields
  BY <1>1, <1>2 DEF Keeps, Fields, UnitState
<1>4. PICK e : e = Notify(p)
  OBVIOUS
<1>5. e \in Task /\ e \in Steps
  BY <1>4 DEF Notify, Task, Steps
<1>6. PICK v : v = Clear(u, p, nothing)
  OBVIOUS
<1>7. CASE u[p] # nothing /\ ObserversOf(u, p) # <<>>
  <2>1. v = [c EXCEPT !.tasks = Append(@, e)]
    BY <1>1, <1>4, <1>6, <1>7 DEF Clear, Queue, Notify
  <2>2. v.tasks = Append(u.tasks, e) /\ v[p] = nothing /\ Keeps(c, v, {"tasks"})
    BY <2>1, <1>2, <1>3 DEF Keeps, Fields
  <2>3. Todo(v) = Append(Todo(u), e)
    BY <1>5, <2>2, TodoGrows
  <2>4. Todo(u) \in Seq(Task)
    BY TodoType
  <2>5. PICK s : s = Todo(u)
    OBVIOUS
  <2>6. s \o <<e>> = Append(s, e)
    BY <2>4, <2>5, <1>5, AddingOne
  <2>7. End(u, p, nothing) = <<e>>
    BY <1>4, <1>7 DEF End
  <2>8. Keeps(u, v, {p, "tasks"})
    BY <1>3, <2>2 DEF Keeps
  <2>. QED  BY <1>6, <2>2, <2>3, <2>5, <2>6, <2>7, <2>8
<1>8. CASE ~(u[p] # nothing /\ ObserversOf(u, p) # <<>>)
  <2>1. v = c
    BY <1>1, <1>6, <1>8 DEF Clear
  <2>2. Todo(v) = Todo(u)
    BY <2>1, <1>3 DEF Todo
  <2>3. Todo(u) \in Seq(Task)
    BY TodoType
  <2>4. PICK s : s = Todo(u)
    OBVIOUS
  <2>5. s \o <<>> = s
    BY <2>3, <2>4
  <2>6. End(u, p, nothing) = <<>>
    BY <1>8 DEF End
  <2>7. Keeps(u, v, {p, "tasks"})
    BY <1>3, <2>1 DEF Keeps
  <2>. QED  BY <1>3, <1>6, <2>1, <2>2, <2>4, <2>5, <2>6, <2>7
<1>. QED  BY <1>7, <1>8

\* Who is stopped twice remains stopped.
LEMMA StoppedBoth ==
    ASSUME NEW u, NEW v, NEW w, v.futures = u.futures, OnlyStops(u) => OnlyStops(v), Stopped(v, w)
    PROVE  Stopped(u, w)
BY DEF Stopped

\* Stopping to learn a source tells its capture.
LEMMA StopSourceDoes ==
    ASSUME NEW u, Sound(u)
    PROVE  LET v == StopLearningSource(u)
           IN  /\ Sound(v)
               /\ v.learnsSource = None
               /\ Todo(v) = Todo(u) \o End(u, "learnsSource", None)
               /\ Keeps(u, v, {"learnsSource", "tasks"})
<1>1. PICK p : p = "learnsSource"
  OBVIOUS
<1>2. p \in Property /\ u \in UnitState
  BY <1>1 DEF Property, Sound
<1>3. PICK v : v = Clear(u, p, None)
  OBVIOUS
<1>4. v[p] = None /\ Todo(v) = Todo(u) \o End(u, p, None) /\ Keeps(u, v, {p, "tasks"})
  BY <1>2, <1>3, ClearDoes
<1>5. v = StopLearningSource(u)
  BY <1>1, <1>3 DEF StopLearningSource
<1>. QED  BY <1>1, <1>4, <1>5, StopSourceIsSound

\* Filtering is stopped.
LEMMA StopFilterDoes ==
    ASSUME NEW u, Sound(u)
    PROVE  LET v == StopFilterLearning(u)
           IN  /\ Sound(v)
               /\ v.filter = FALSE
               /\ Todo(v) = Todo(u) \o End(u, "filter", FALSE)
               /\ Keeps(u, v, {"filter", "tasks"})
<1>1. PICK p : p = "filter"
  OBVIOUS
<1>2. p \in Property /\ u \in UnitState
  BY <1>1 DEF Property, Sound
<1>3. PICK v : v = Clear(u, p, FALSE)
  OBVIOUS
<1>4. v[p] = FALSE /\ Todo(v) = Todo(u) \o End(u, p, FALSE) /\ Keeps(u, v, {p, "tasks"})
  BY <1>2, <1>3, ClearDoes
<1>5. v = StopFilterLearning(u)
  BY <1>1, <1>3 DEF StopFilterLearning
<1>. QED  BY <1>1, <1>4, <1>5, StopFilterIsSound

\* A task for the main processor.
LEMMA SendingDoes ==
    ASSUME NEW u, Sound(u), NEW task \in MainTask
    PROVE  LET v == SendToMain(u, task)
           IN  /\ Sound(v)
               /\ v.mainTasks = Append(u.mainTasks, task)
               /\ Todo(v) = Todo(u)
               /\ Keeps(u, v, {"mainTasks"})
               /\ task = "ReturnToControlMode" => HasReturned(v)
<1>1. PICK v : v = SendToMain(u, task)
  OBVIOUS
<1>2. u \in UnitState
  BY DEF Sound
<1>3. v = [u EXCEPT !.mainTasks = Append(@, task)]
  BY <1>1 DEF SendToMain
<1>4. v.mainTasks = Append(u.mainTasks, task) /\ v.tasks = u.tasks /\ Keeps(u, v, {"mainTasks"})
  BY <1>2, <1>3 DEF UnitState, Keeps, Fields
<1>5. Todo(v) = Todo(u)
  BY <1>4 DEF Todo
<1>. QED  BY <1>1, <1>4, <1>5, Sending

\* Stopping to learn a target, even if none is being learned.
LEMMA StopTargetDoes ==
    ASSUME NEW u, Sound(u)
    PROVE  LET v == StopLearningTarget(u)
           IN  /\ Sound(v)
               /\ v.learnsTarget = None
               /\ Todo(v) = Todo(u) \o End(u, "learnsTarget", None)
               /\ Keeps(u, v, {"learnsTarget", "tasks", "surfaceTasks", "mainTasks"})
               /\ Stopped(u, v)
<1>1. PICK q : q = Append(u.surfaceTasks, None)
  OBVIOUS
<1>2. u \in UnitState /\ u.surfaceTasks \in Seq(Futures \cup {None})
  BY DEF Sound, UnitState
<1>3. PICK a : a = [u EXCEPT !.surfaceTasks = q]
  OBVIOUS
<1>4. a = [u EXCEPT !.surfaceTasks = Append(@, None)]
  BY <1>1, <1>3
<1>5. Sound(a)
  BY <1>4, SurfaceTasks
<1>6. a.surfaceTasks = q /\ a.tasks = u.tasks /\ Keeps(u, a, {"surfaceTasks"})
  BY <1>2, <1>3 DEF UnitState, Keeps, Fields
<1>7. PICK p : p = "learnsTarget"
  OBVIOUS
<1>8. a \in UnitState /\ p \in Property
  BY <1>5, <1>7 DEF Sound, Property
<1>9. PICK b : b = Clear(a, p, None)
  OBVIOUS
<1>10. b[p] = None /\ Todo(b) = Todo(a) \o End(a, p, None) /\ Keeps(a, b, {p, "tasks"})
  BY <1>8, <1>9, ClearDoes
<1>11. Sound(b)
  BY <1>5, <1>7, <1>9, ClearingNumber
<1>12. PICK v : v = SendToMain(b, "ReturnToControlMode")
  OBVIOUS
<1>13. Sound(v) /\ HasReturned(v) /\ Todo(v) = Todo(b) /\ Keeps(b, v, {"mainTasks"})
  BY <1>11, <1>12, SendingDoes DEF MainTask
<1>14. v = StopLearningTarget(u)
  BY <1>4, <1>7, <1>9, <1>12 DEF StopLearningTarget
<1>15. Todo(a) = Todo(u)
  BY <1>6 DEF Todo
<1>16. a.learnsTarget = u.learnsTarget /\ a.observers = u.observers
  BY <1>6 DEF Keeps, Fields
<1>17. End(a, p, None) = End(u, p, None)
  BY <1>7, <1>16 DEF End, ObserversOf
<1>18. Keeps(u, v, {"learnsTarget", "tasks", "surfaceTasks", "mainTasks"})
  BY <1>6, <1>7, <1>10, <1>13 DEF Keeps
<1>19. b.learnsTarget = None /\ b.surfaceTasks = q /\ b.futures = u.futures
  BY <1>6, <1>7, <1>10 DEF Keeps, Fields
<1>20. v.learnsTarget = None /\ v.surfaceTasks = q /\ v.futures = u.futures
  BY <1>13, <1>19 DEF Keeps, Fields
<1>21. q # <<>> /\ q[Len(q)] = None /\ (OnlyStops(u) => \A i \in DOMAIN q : q[i] = None)
  BY <1>1, <1>2 DEF OnlyStops
<1>22. Stopped(u, v)
  BY <1>13, <1>20, <1>21 DEF Stopped, OnlyStops
<1>. QED  BY <1>7, <1>10, <1>13, <1>14, <1>15, <1>17, <1>18, <1>20, <1>22

\* What is told doesn't depend on other fields.
LEMMA SameEnd ==
    ASSUME NEW u, NEW v, NEW p, NEW nothing, v[p] = u[p], v.observers = u.observers
    PROVE  End(v, p, nothing) = End(u, p, nothing)
BY DEF End, ObserversOf

\* Stopping to learn whatever a mapping learns.
LEMMA StopActionsDoes ==
    ASSUME NEW u, Sound(u)
    PROVE  LET v == StopMappingActions(u)
           IN  /\ Sound(v)
               /\ v.learnsSource = None /\ v.learnsTarget = None
               /\ Todo(v) = (Todo(u) \o End(u, "learnsSource", None)) \o End(u, "learnsTarget", None)
               /\ Keeps(u, v, {"learnsSource", "learnsTarget", "tasks", "surfaceTasks", "mainTasks"})
               /\ Stopped(u, v)
<1>1. PICK a : a = StopLearningSource(u)
  OBVIOUS
<1>2. /\ Sound(a) /\ a.learnsSource = None
      /\ Todo(a) = Todo(u) \o End(u, "learnsSource", None)
      /\ Keeps(u, a, {"learnsSource", "tasks"})
  BY <1>1, StopSourceDoes
<1>3. PICK v : v = StopLearningTarget(a)
  OBVIOUS
<1>4. /\ Sound(v) /\ v.learnsTarget = None
      /\ Todo(v) = Todo(a) \o End(a, "learnsTarget", None)
      /\ Keeps(a, v, {"learnsTarget", "tasks", "surfaceTasks", "mainTasks"})
      /\ Stopped(a, v)
  BY <1>2, <1>3, StopTargetDoes
<1>5. v = StopMappingActions(u)
  BY <1>1, <1>3 DEF StopMappingActions
<1>6. /\ a.learnsTarget = u.learnsTarget /\ a.observers = u.observers
      /\ a.futures = u.futures /\ a.surfaceTasks = u.surfaceTasks
  BY <1>2 DEF Keeps, Fields
<1>7. End(a, "learnsTarget", None) = End(u, "learnsTarget", None)
  BY <1>6, SameEnd
<1>8. v.learnsSource = None
  BY <1>2, <1>4 DEF Keeps, Fields
<1>9. Keeps(u, v, {"learnsSource", "learnsTarget", "tasks", "surfaceTasks", "mainTasks"})
  BY <1>2, <1>4 DEF Keeps
<1>10. Stopped(u, v)
  BY <1>4, <1>6, StoppedBoth DEF OnlyStops
<1>. QED  BY <1>2, <1>4, <1>5, <1>7, <1>8, <1>9, <1>10

\* Changed mappings, and nothing else.
LEMMA MappingsDo ==
    ASSUME NEW u, Sound(u), NEW ms \in [Mappings -> MappingState],
           NEW v, v = [u EXCEPT !.mappings = ms]
    PROVE  /\ Sound(v)
           /\ v.mappings = ms
           /\ Todo(v) = Todo(u)
           /\ Keeps(u, v, {"mappings"})
           /\ HasReturned(u) => HasReturned(v)
<1>1. u \in UnitState
  BY DEF Sound
<1>2. v.mappings = ms /\ v.tasks = u.tasks /\ Keeps(u, v, {"mappings"})
  BY <1>1 DEF UnitState, Keeps, Fields
<1>3. Todo(v) = Todo(u)
  BY <1>2 DEF Todo
<1>. QED  BY <1>2, <1>3, ChangedMappings

Removed(ms, m) == [ms EXCEPT ![m].is = "removed"]

\* A mapping is removed.
LEMMA RemovingDoes ==
    ASSUME NEW u, Sound(u), NEW m
    PROVE  LET v == RemoveMapping(u, m)
           IN  /\ Sound(v)
               /\ v.learnsSource = None /\ v.learnsTarget = None
               /\ v.mappings = Removed(u.mappings, m)
               /\ Todo(v) = (Todo(u) \o End(u, "learnsSource", None)) \o End(u, "learnsTarget", None)
               /\ Keeps(u, v, {"learnsSource", "learnsTarget", "tasks", "surfaceTasks", "mainTasks",
                               "mappings"})
               /\ Stopped(u, v)
<1>1. PICK a : a = StopMappingActions(u)
  OBVIOUS
<1>2. /\ Sound(a)
      /\ a.learnsSource = None /\ a.learnsTarget = None
      /\ Todo(a) = (Todo(u) \o End(u, "learnsSource", None)) \o End(u, "learnsTarget", None)
      /\ Keeps(u, a, {"learnsSource", "learnsTarget", "tasks", "surfaceTasks", "mainTasks"})
      /\ Stopped(u, a)
  BY <1>1, StopActionsDoes
<1>3. a.mappings \in [Mappings -> MappingState] /\ a.mappings = u.mappings
  BY <1>2 DEF Sound, UnitState, Keeps, Fields
<1>4. PICK ms : ms = Removed(a.mappings, m)
  OBVIOUS
<1>5. ms \in [Mappings -> MappingState]
  BY <1>3, <1>4 DEF MappingState, Removed
<1>6. PICK v : v = [a EXCEPT !.mappings = ms]
  OBVIOUS
<1>7. RemoveMapping(u, m) = v
  BY <1>1, <1>4, <1>6 DEF RemoveMapping, Removed
<1>8. /\ Sound(v) /\ v.mappings = ms /\ Todo(v) = Todo(a) /\ Keeps(a, v, {"mappings"})
      /\ HasReturned(a) => HasReturned(v)
  BY <1>2, <1>5, <1>6, MappingsDo
<1>9. /\ v.learnsSource = None /\ v.learnsTarget = None
      /\ v.futures = a.futures /\ v.surfaceTasks = a.surfaceTasks
  BY <1>2, <1>8 DEF Keeps, Fields
<1>10. Stopped(u, v)
  BY <1>2, <1>8, <1>9 DEF Stopped, OnlyStops
<1>11. Keeps(u, v, {"learnsSource", "learnsTarget", "tasks", "surfaceTasks", "mainTasks", "mappings"})
  BY <1>2, <1>8 DEF Keeps
<1>. QED  BY <1>2, <1>3, <1>4, <1>7, <1>8, <1>9, <1>10, <1>11

\* Stopping "learn many" stops its notifications first.
LEMMA StopManyDoes ==
    ASSUME NEW u, Sound(u)
    PROVE  LET v == StopLearningManyMappings(u)
           IN  /\ Sound(v)
               /\ v.many = None /\ v.learnsSource = None /\ v.learnsTarget = None
               /\ v.mappings = IF u.learnsSource # None THEN Removed(u.mappings, u.learnsSource)
                               ELSE u.mappings
               /\ Todo(v) = ((Todo(u) \o End(u, "many", None)) \o End(u, "learnsSource", None))
                                \o End(u, "learnsTarget", None)
               /\ Keeps(u, v, {"learnsSource", "learnsTarget", "tasks", "surfaceTasks", "mainTasks",
                               "mappings", "many"})
               /\ Stopped(u, v)
<1>1. PICK p : p = "many"
  OBVIOUS
<1>2. p \in Property /\ u \in UnitState
  BY <1>1 DEF Property, Sound
<1>3. PICK a : a = Clear(u, p, None)
  OBVIOUS
<1>4. a[p] = None /\ Todo(a) = Todo(u) \o End(u, p, None) /\ Keeps(u, a, {p, "tasks"})
  BY <1>2, <1>3, ClearDoes
<1>5. Sound(a)
  BY <1>1, <1>3, ClearingNumber
<1>6. PICK b : b = StopMappingActions(a)
  OBVIOUS
<1>7. /\ Sound(b)
      /\ b.learnsSource = None /\ b.learnsTarget = None
      /\ Todo(b) = (Todo(a) \o End(a, "learnsSource", None)) \o End(a, "learnsTarget", None)
      /\ Keeps(a, b, {"learnsSource", "learnsTarget", "tasks", "surfaceTasks", "mainTasks"})
      /\ Stopped(a, b)
  BY <1>5, <1>6, StopActionsDoes
<1>8. PICK c : c = SendToMain(b, "ReturnToControlMode")
  OBVIOUS
<1>9. /\ Sound(c) /\ HasReturned(c) /\ Todo(c) = Todo(b) /\ Keeps(b, c, {"mainTasks"})
  BY <1>7, <1>8, SendingDoes DEF MainTask
<1>10. PICK v : v = StopLearningManyMappings(u)
  OBVIOUS
<1>11. v = IF u.learnsSource # None THEN RemoveMapping(c, u.learnsSource) ELSE c
  BY <1>1, <1>3, <1>6, <1>8, <1>10 DEF StopLearningManyMappings
<1>12. /\ a.many = None /\ a.learnsSource = u.learnsSource /\ a.learnsTarget = u.learnsTarget
       /\ a.observers = u.observers /\ a.mappings = u.mappings
       /\ a.futures = u.futures /\ a.surfaceTasks = u.surfaceTasks
  BY <1>1, <1>4 DEF Keeps, Fields
<1>13. /\ End(a, "learnsSource", None) = End(u, "learnsSource", None)
       /\ End(a, "learnsTarget", None) = End(u, "learnsTarget", None)
  BY <1>12, SameEnd
<1>14. b.many = None /\ b.mappings = u.mappings
  BY <1>7, <1>12 DEF Keeps, Fields
<1>15. /\ c.many = None /\ c.learnsSource = None /\ c.learnsTarget = None /\ c.mappings = u.mappings
       /\ c.futures = b.futures /\ c.surfaceTasks = b.surfaceTasks
  BY <1>7, <1>9, <1>14 DEF Keeps, Fields
<1>16. Keeps(u, c, {"learnsSource", "learnsTarget", "tasks", "surfaceTasks", "mainTasks", "many"})
  BY <1>1, <1>4, <1>7, <1>9 DEF Keeps
<1>17. Stopped(u, c)
  <2>1. Stopped(u, b)
    BY <1>7, <1>12, StoppedBoth DEF OnlyStops
  <2>. QED  BY <2>1, <1>9, <1>15 DEF Stopped, OnlyStops
<1>18. Todo(c) = ((Todo(u) \o End(u, "many", None)) \o End(u, "learnsSource", None))
                    \o End(u, "learnsTarget", None)
  BY <1>1, <1>4, <1>7, <1>9, <1>13
<1>19. CASE u.learnsSource = None
  <2>1. v = c
    BY <1>11, <1>19
  <2>2. Keeps(u, v, {"learnsSource", "learnsTarget", "tasks", "surfaceTasks", "mainTasks",
                     "mappings", "many"})
    BY <1>16, <2>1 DEF Keeps
  <2>. QED  BY <1>9, <1>10, <1>15, <1>17, <1>18, <1>19, <2>1, <2>2
<1>20. CASE u.learnsSource # None
  <2>1. v = RemoveMapping(c, u.learnsSource)
    BY <1>11, <1>20
  <2>2. /\ Sound(v)
        /\ v.learnsSource = None /\ v.learnsTarget = None
        /\ v.mappings = Removed(c.mappings, u.learnsSource)
        /\ Todo(v) = (Todo(c) \o End(c, "learnsSource", None)) \o End(c, "learnsTarget", None)
        /\ Keeps(c, v, {"learnsSource", "learnsTarget", "tasks", "surfaceTasks", "mainTasks",
                        "mappings"})
        /\ Stopped(c, v)
    BY <1>9, <2>1, RemovingDoes
  <2>3. End(c, "learnsSource", None) = <<>> /\ End(c, "learnsTarget", None) = <<>>
    BY <1>15 DEF End
  <2>4. Todo(v) = Todo(c)
    <3>1. Todo(c) \in Seq(Task)
      BY <1>9, TodoType DEF Sound
    <3>2. PICK s : s = Todo(c)
      OBVIOUS
    <3>3. (s \o <<>>) \o <<>> = s
      BY <3>1, <3>2, AddingNothing
    <3>. QED  BY <2>2, <2>3, <3>2, <3>3
  <2>5. v.many = None
    BY <2>2, <1>15 DEF Keeps, Fields
  <2>6. Keeps(u, v, {"learnsSource", "learnsTarget", "tasks", "surfaceTasks", "mainTasks",
                     "mappings", "many"})
    BY <1>16, <2>2 DEF Keeps
  <2>7. Stopped(u, v)
    BY <2>2, <1>17, StoppedBoth DEF Stopped
  <2>. QED  BY <1>10, <1>15, <1>18, <1>20, <2>2, <2>4, <2>5, <2>6, <2>7
<1>. QED  BY <1>19, <1>20

------------------------------------------------------------------------------
(* Operations that start to learn.                                         *)

\* The mode after another task.
LEMMA LastAppended ==
    ASSUME NEW s \in Seq(MainTask), NEW t \in MainTask, NEW m
    PROVE  LastOf(Append(s, t), m) = ModeAfter[t]
<1>1. PICK q : q = Append(s, t)
  OBVIOUS
<1>2. q # <<>> /\ q[Len(q)] = t
  BY <1>1
<1>. QED  BY <1>1, <1>2 DEF LastOf

\* A source is going to be learned by a new capture.
LEMMA NewCaptureDoes ==
    ASSUME NEW u, Sound(u), NEW m \in Mappings,
           NEW reenable \in BOOLEAN, NEW ignored \in SUBSET Sources
    PROVE  LET v == StartLearningSourceInternal(u, m, reenable, ignored)
           IN  /\ Sound(v)
               /\ v.learnsSource = m
               /\ v.observers = Append(u.observers, Capture(FALSE, reenable, ignored))
               /\ v.mainTasks = Append(u.mainTasks, "StartLearnSource")
               /\ Todo(v) = Todo(u)
               /\ Keeps(u, v, {"learnsSource", "observers", "mainTasks"})
<1>1. u \in UnitState
  BY DEF Sound
<1>2. PICK o : o = Capture(FALSE, reenable, ignored)
  OBVIOUS
<1>3. PICK v : v = StartLearningSourceInternal(u, m, reenable, ignored)
  OBVIOUS
<1>4. v = [u EXCEPT !.learnsSource = m, !.mainTasks = Append(u.mainTasks, "StartLearnSource"),
                    !.observers = Append(u.observers, o)]
  BY <1>1, <1>2, <1>3 DEF StartLearningSourceInternal, SendToMain, UnitState
<1>5. /\ v.learnsSource = m
      /\ v.observers = Append(u.observers, o)
      /\ v.mainTasks = Append(u.mainTasks, "StartLearnSource")
      /\ v.tasks = u.tasks
      /\ Keeps(u, v, {"learnsSource", "observers", "mainTasks"})
  BY <1>1, <1>4 DEF UnitState, Keeps, Fields
<1>6. Todo(v) = Todo(u)
  BY <1>5 DEF Todo
<1>. QED  BY <1>2, <1>3, <1>5, <1>6, NewCapture

\* A target is going to be learned by a new future.
LEMMA StartTargetDoes ==
    ASSUME NEW u, Sound(u), NEW m \in Mappings, NEW disabling \in BOOLEAN, FreeFutures(u) # {}
    PROVE  LET v == StartLearningTargetInternal(u, m, disabling)
           IN  /\ Sound(v)
               /\ v.learnsTarget = m
               /\ \E f \in FreeFutures(u) : v.futures = [u.futures EXCEPT ![f].is = "spawned"]
               /\ v.mainTasks = IF disabling THEN Append(u.mainTasks, "DisableControl")
                                ELSE u.mainTasks
               /\ Todo(v) = Todo(u)
               /\ Keeps(u, v, {"learnsTarget", "futures", "mainTasks"})
<1>1. u \in UnitState
  BY DEF Sound
<1>2. PICK a : a = IF disabling THEN SendToMain(u, "DisableControl") ELSE u
  OBVIOUS
<1>3. PICK f : f = CHOOSE g \in FreeFutures(u) : TRUE
  OBVIOUS
<1>4. f \in FreeFutures(u)
  BY <1>3
<1>5. PICK v : v = StartLearningTargetInternal(u, m, disabling)
  OBVIOUS
<1>6. v = [a EXCEPT !.learnsTarget = m, !.futures[f].is = "spawned"]
  BY <1>2, <1>3, <1>5 DEF StartLearningTargetInternal
<1>7. /\ Sound(a) /\ Todo(a) = Todo(u) /\ Keeps(u, a, {"mainTasks"})
      /\ a.mainTasks = IF disabling THEN Append(u.mainTasks, "DisableControl") ELSE u.mainTasks
  BY <1>2, SendingDoes DEF MainTask, Keeps
<1>8. a \in UnitState /\ a.futures = u.futures
  BY <1>7 DEF Sound, Keeps, Fields
<1>9. PICK fs : fs = [u.futures EXCEPT ![f].is = "spawned"]
  OBVIOUS
<1>10. v = [a EXCEPT !.learnsTarget = m, !.futures = fs]
  BY <1>6, <1>8, <1>9
<1>11. /\ v.learnsTarget = m /\ v.futures = fs /\ v.mainTasks = a.mainTasks /\ v.tasks = a.tasks
       /\ Keeps(a, v, {"learnsTarget", "futures"})
  BY <1>8, <1>10 DEF UnitState, Keeps, Fields
<1>12. Todo(v) = Todo(a)
  BY <1>11 DEF Todo
<1>13. Keeps(u, v, {"learnsTarget", "futures", "mainTasks"})
  BY <1>7, <1>11 DEF Keeps
<1>. QED  BY <1>4, <1>5, <1>7, <1>9, <1>11, <1>12, <1>13, StartTargetIsSound

\* What was learned are sources.
LEMMA LearnedAreSources ==
    ASSUME NEW u \in UnitState, NEW c
    PROVE  LearnedSources(u, c) \in SUBSET Sources
<1>1. u.mappings \in [Mappings -> MappingState]
  BY DEF UnitState
<1>2. \A n \in Present(u) : u.mappings[n].source \in Sources \cup {NoSource}
  BY <1>1 DEF Present, MappingState
<1>. QED  BY <1>2 DEF LearnedSources

\* The next mapping is added and learns its source.
LEMMA AddOneDoes ==
    ASSUME NEW u, Sound(u), NEW c \in Compartments, FreshMappings(u, c) # {}
    PROVE  LET v == AddAndLearnOneOfManyMappings(u, c)
           IN  /\ Sound(v)
               /\ v.many \in FreshMappings(u, c)
               /\ v.mappings = [u.mappings EXCEPT ![v.many].is = "present"]
               /\ v.step = "source"
               /\ v.learnsSource = v.many
               /\ v.observers =
                    IF c = "Main"
                    THEN Append(Append(u.observers, Capture(FALSE, FALSE, {})), AfterSource(v.many))
                    ELSE Append(u.observers, Capture(FALSE, FALSE, LearnedSources(u, c)))
               /\ v.mainTasks = Append(u.mainTasks, "StartLearnSource")
               /\ Todo(v) = Todo(u)
               /\ Keeps(u, v, {"mappings", "many", "step", "learnsSource", "observers", "mainTasks"})
<1>1. PICK m : m = CHOOSE n \in FreshMappings(u, c) : TRUE
  OBVIOUS
<1>2. m \in FreshMappings(u, c) /\ m \in Mappings
  BY <1>1 DEF FreshMappings
<1>3. u \in UnitState
  BY DEF Sound
<1>4. PICK ignored : ignored = IF c = "Controller" THEN LearnedSources(u, c) ELSE {}
  OBVIOUS
<1>5. ignored \in SUBSET Sources
  BY <1>3, <1>4, LearnedAreSources
<1>6. PICK ms : ms = [u.mappings EXCEPT ![m].is = "present"]
  OBVIOUS
<1>7. ms \in [Mappings -> MappingState]
  <2>1. u.mappings \in [Mappings -> MappingState]
    BY <1>3 DEF UnitState
  <2>. QED  BY <1>6, <2>1 DEF MappingState
<1>8. PICK a : a = [u EXCEPT !.mappings = ms, !.many = m, !.step = "source"]
  OBVIOUS
<1>9. a \in UnitState
  BY <1>2, <1>3, <1>7, <1>8 DEF UnitState, Numbers
<1>10. /\ a.many = m /\ a.mappings = ms /\ a.step = "source"
       /\ a.observers = u.observers /\ a.filter = u.filter /\ a.tasks = u.tasks
       /\ a.learnsSource = u.learnsSource /\ a.mainTasks = u.mainTasks
       /\ Keeps(u, a, {"mappings", "many", "step"})
  BY <1>3, <1>8 DEF UnitState, Keeps, Fields
<1>11. Sound(a)
  BY <1>9, <1>10 DEF Sound, CapturesEnd, WillEnd
<1>12. PICK b : b = StartLearningSourceInternal(a, m, FALSE, ignored)
  OBVIOUS
<1>13. /\ Sound(b)
       /\ b.learnsSource = m
       /\ b.observers = Append(a.observers, Capture(FALSE, FALSE, ignored))
       /\ b.mainTasks = Append(a.mainTasks, "StartLearnSource")
       /\ Todo(b) = Todo(a)
       /\ Keeps(a, b, {"learnsSource", "observers", "mainTasks"})
  <2>1. m \in Mappings /\ FALSE \in BOOLEAN /\ ignored \in SUBSET Sources
    BY <1>2, <1>5
  <2>2. LET w == StartLearningSourceInternal(a, m, FALSE, ignored)
        IN  /\ Sound(w)
            /\ w.learnsSource = m
            /\ w.observers = Append(a.observers, Capture(FALSE, FALSE, ignored))
            /\ w.mainTasks = Append(a.mainTasks, "StartLearnSource")
            /\ Todo(w) = Todo(a)
            /\ Keeps(a, w, {"learnsSource", "observers", "mainTasks"})
    BY <1>11, <2>1, NewCaptureDoes, Zenon
  <2>. QED  BY <1>12, <2>2
<1>14. Todo(a) = Todo(u)
  BY <1>10 DEF Todo
<1>15. PICK v : v = AddAndLearnOneOfManyMappings(u, c)
  OBVIOUS
<1>16. v = IF c = "Main" THEN [b EXCEPT !.observers = Append(@, AfterSource(m))] ELSE b
  <2>1. AddAndLearnOneOfManyMappings(u, c) =
            IF c = "Main" THEN [b EXCEPT !.observers = Append(@, AfterSource(m))] ELSE b
    BY <1>1, <1>4, <1>6, <1>8, <1>12 DEF AddAndLearnOneOfManyMappings
  <2>. QED  BY <2>1, <1>15
<1>17. /\ Keeps(b, v, {"observers"})
       /\ v.observers = IF c = "Main" THEN Append(b.observers, AfterSource(m)) ELSE b.observers
  <2>1. b \in UnitState
    BY <1>13 DEF Sound
  <2>. QED  BY <2>1, <1>16 DEF UnitState, Keeps, Fields
<1>18. Todo(v) = Todo(b)
  <2>1. v.tasks = b.tasks
    BY <1>17 DEF Keeps, Fields
  <2>. QED  BY <2>1 DEF Todo
<1>19. /\ v.many = m /\ v.mappings = ms /\ v.step = "source" /\ v.learnsSource = m
       /\ v.mainTasks = Append(u.mainTasks, "StartLearnSource")
  BY <1>10, <1>13, <1>17 DEF Keeps, Fields
<1>20. Keeps(u, v, {"mappings", "many", "step", "learnsSource", "observers", "mainTasks"})
  BY <1>10, <1>13, <1>17 DEF Keeps
<1>21. Sound(v)
  BY <1>15, AddOneIsSound
<1>22. v.observers =
            IF c = "Main"
            THEN Append(Append(u.observers, Capture(FALSE, FALSE, {})), AfterSource(m))
            ELSE Append(u.observers, Capture(FALSE, FALSE, LearnedSources(u, c)))
  BY <1>4, <1>10, <1>13, <1>17 DEF Compartments
<1>. QED  BY <1>2, <1>6, <1>13, <1>14, <1>15, <1>18, <1>19, <1>20, <1>21, <1>22

\* "Learn many" starts with the first mapping.
LEMMA StartManyDoes ==
    ASSUME NEW u, Sound(u), NEW c \in Compartments, FreshMappings(u, c) # {},
           u.learnsSource = None, u.learnsTarget = None
    PROVE  LET v == StartLearningManyMappings(u, c)
           IN  /\ Sound(v)
               /\ v.many \in FreshMappings(u, c)
               /\ v.mappings = [u.mappings EXCEPT ![v.many].is = "present"]
               /\ v.step = "source"
               /\ v.learnsSource = v.many /\ v.learnsTarget = None
               /\ v.observers = Append(
                    IF c = "Main"
                    THEN Append(Append(u.observers, Capture(FALSE, FALSE, {})), AfterSource(v.many))
                    ELSE Append(u.observers, Capture(FALSE, FALSE, LearnedSources(u, c))),
                    AfterMapping(c))
               /\ \A m : LastOf(v.mainTasks, m) = "LearningSource"
               /\ Todo(v) = Todo(u)
               /\ v.filter = u.filter
               /\ v.futures = u.futures
               /\ v.surfaceTasks # <<>> /\ v.surfaceTasks[Len(v.surfaceTasks)] = None
               /\ OnlyStops(u) => OnlyStops(v)
<1>1. PICK a : a = SendToMain(u, "DisableControl")
  OBVIOUS
<1>2. Sound(a) /\ Todo(a) = Todo(u) /\ Keeps(u, a, {"mainTasks"})
  BY <1>1, SendingDoes DEF MainTask
<1>3. /\ a.learnsSource = None /\ a.learnsTarget = None /\ a.observers = u.observers
      /\ a.mappings = u.mappings /\ a.filter = u.filter
      /\ a.futures = u.futures /\ a.surfaceTasks = u.surfaceTasks
  BY <1>2 DEF Keeps, Fields
<1>4. PICK b : b = StopMappingActions(a)
  OBVIOUS
<1>5. /\ Sound(b)
      /\ b.learnsSource = None /\ b.learnsTarget = None
      /\ Todo(b) = (Todo(a) \o End(a, "learnsSource", None)) \o End(a, "learnsTarget", None)
      /\ Keeps(a, b, {"learnsSource", "learnsTarget", "tasks", "surfaceTasks", "mainTasks"})
      /\ Stopped(a, b)
  BY <1>2, <1>4, StopActionsDoes
<1>6. Todo(b) = Todo(u)
  <2>1. End(a, "learnsSource", None) = <<>> /\ End(a, "learnsTarget", None) = <<>>
    BY <1>3 DEF End
  <2>2. Todo(u) \in Seq(Task)
    BY TodoType DEF Sound
  <2>3. PICK s : s = Todo(u)
    OBVIOUS
  <2>4. (s \o <<>>) \o <<>> = s
    BY <2>2, <2>3, AddingNothing
  <2>. QED  BY <1>2, <1>5, <2>1, <2>3, <2>4
<1>7. b.observers = u.observers /\ b.mappings = u.mappings /\ b.filter = u.filter
  BY <1>3, <1>5 DEF Keeps, Fields
<1>8. FreshMappings(b, c) = FreshMappings(u, c) /\ LearnedSources(b, c) = LearnedSources(u, c)
  BY <1>7 DEF FreshMappings, LearnedSources, Present
<1>9. PICK d : d = AddAndLearnOneOfManyMappings(b, c)
  OBVIOUS
<1>10. /\ Sound(d)
       /\ d.many \in FreshMappings(u, c)
       /\ d.mappings = [u.mappings EXCEPT ![d.many].is = "present"]
       /\ d.step = "source"
       /\ d.learnsSource = d.many
       /\ d.observers =
            IF c = "Main"
            THEN Append(Append(u.observers, Capture(FALSE, FALSE, {})), AfterSource(d.many))
            ELSE Append(u.observers, Capture(FALSE, FALSE, LearnedSources(u, c)))
       /\ d.mainTasks = Append(b.mainTasks, "StartLearnSource")
       /\ Todo(d) = Todo(u)
       /\ Keeps(b, d, {"mappings", "many", "step", "learnsSource", "observers", "mainTasks"})
  <2>1. FreshMappings(b, c) # {}
    BY <1>8
  <2>2. /\ Sound(d)
        /\ d.many \in FreshMappings(b, c)
        /\ d.mappings = [b.mappings EXCEPT ![d.many].is = "present"]
        /\ d.step = "source"
        /\ d.learnsSource = d.many
        /\ d.observers =
             IF c = "Main"
             THEN Append(Append(b.observers, Capture(FALSE, FALSE, {})), AfterSource(d.many))
             ELSE Append(b.observers, Capture(FALSE, FALSE, LearnedSources(b, c)))
        /\ d.mainTasks = Append(b.mainTasks, "StartLearnSource")
        /\ Todo(d) = Todo(b)
        /\ Keeps(b, d, {"mappings", "many", "step", "learnsSource", "observers", "mainTasks"})
    <3>1. Sound(b)
      BY <1>5
    <3>2. LET v == AddAndLearnOneOfManyMappings(b, c)
                 IN  /\ Sound(v)
                     /\ v.many \in FreshMappings(b, c)
                     /\ v.mappings = [b.mappings EXCEPT ![v.many].is = "present"]
                     /\ v.step = "source"
                     /\ v.learnsSource = v.many
                     /\ v.observers =
                          IF c = "Main"
                          THEN Append(Append(b.observers, Capture(FALSE, FALSE, {})), AfterSource(v.many))
                          ELSE Append(b.observers, Capture(FALSE, FALSE, LearnedSources(b, c)))
                     /\ v.mainTasks = Append(b.mainTasks, "StartLearnSource")
                     /\ Todo(v) = Todo(b)
                     /\ Keeps(b, v, {"mappings", "many", "step", "learnsSource", "observers", "mainTasks"})
      BY <3>1, <2>1, AddOneDoes, Zenon
    <3>. QED  BY <3>2, <1>9
  <2>. QED  BY <1>6, <1>7, <1>8, <2>2
<1>11. /\ d.learnsTarget = None /\ d.filter = u.filter
       /\ d.futures = b.futures /\ d.surfaceTasks = b.surfaceTasks
  BY <1>5, <1>7, <1>10 DEF Keeps, Fields
<1>12. PICK v : v = StartLearningManyMappings(u, c)
  OBVIOUS
<1>13. v = [d EXCEPT !.observers = Append(@, AfterMapping(c))]
  BY <1>1, <1>4, <1>9, <1>12 DEF StartLearningManyMappings
<1>14. Keeps(d, v, {"observers"}) /\ v.observers = Append(d.observers, AfterMapping(c))
  <2>1. d \in UnitState
    BY <1>10 DEF Sound
  <2>. QED  BY <2>1, <1>13 DEF UnitState, Keeps, Fields
<1>15. /\ v.many = d.many /\ v.mappings = d.mappings /\ v.step = d.step
       /\ v.learnsSource = d.learnsSource /\ v.learnsTarget = None /\ v.filter = u.filter
       /\ v.futures = b.futures /\ v.surfaceTasks = b.surfaceTasks
       /\ v.mainTasks = d.mainTasks /\ v.tasks = d.tasks
  BY <1>11, <1>14 DEF Keeps, Fields
<1>16. Todo(v) = Todo(d)
  BY <1>15 DEF Todo
<1>17. \A m : LastOf(v.mainTasks, m) = "LearningSource"
  <2>1. b.mainTasks \in Seq(MainTask)
    BY <1>5 DEF Sound, UnitState
  <2>2. TAKE m
  <2>3. LastOf(v.mainTasks, m) = ModeAfter["StartLearnSource"]
    BY <2>1, <1>10, <1>15, LastAppended DEF MainTask
  <2>. QED  BY <2>3 DEF ModeAfter
<1>18. /\ v.futures = u.futures
       /\ v.surfaceTasks # <<>> /\ v.surfaceTasks[Len(v.surfaceTasks)] = None
       /\ OnlyStops(u) => OnlyStops(v)
  BY <1>3, <1>5, <1>15 DEF Stopped, OnlyStops
<1>19. Sound(v)
  BY <1>12, StartManyIsSound
<1>. QED  BY <1>10, <1>12, <1>14, <1>15, <1>16, <1>17, <1>18, <1>19

\* A captured message: the source is learned, which ends learning.
LEMMA LearnSourceDoes ==
    ASSUME NEW u, Sound(u), NEW source \in Sources
    PROVE  LET v == LearnSource(u, source)
               m == u.learnsSource
           IN  IF m = None THEN v = u
               ELSE /\ v.learnsSource = None
                    /\ v.mappings = IF m \in Present(u) THEN [u.mappings EXCEPT ![m].source = source]
                                    ELSE u.mappings
                    /\ Todo(v) = Todo(u) \o End(u, "learnsSource", None)
                    /\ Keeps(u, v, {"learnsSource", "mappings", "tasks"})
<1>1. PICK m : m = u.learnsSource
  OBVIOUS
<1>2. PICK v : v = LearnSource(u, source)
  OBVIOUS
<1>3. CASE m = None
  BY <1>1, <1>2, <1>3 DEF LearnSource
<1>4. CASE m # None
  <2>1. u \in UnitState /\ u.mappings \in [Mappings -> MappingState]
    BY DEF Sound, UnitState
  <2>2. PICK ms : ms = IF m \in Present(u) THEN [u.mappings EXCEPT ![m].source = source]
                       ELSE u.mappings
    OBVIOUS
  <2>3. ms \in [Mappings -> MappingState]
    BY <2>1, <2>2 DEF MappingState
  <2>4. PICK a : a = [u EXCEPT !.mappings = ms]
    OBVIOUS
  <2>5. a = IF m \in Present(u) THEN [u EXCEPT !.mappings[m].source = source] ELSE u
    BY <2>1, <2>2, <2>4 DEF UnitState
  <2>6. Sound(a) /\ a.mappings = ms /\ Todo(a) = Todo(u) /\ Keeps(u, a, {"mappings"})
    BY <2>3, <2>4, MappingsDo
  <2>7. v = StopLearningSource(a)
    BY <1>1, <1>2, <1>4, <2>5 DEF LearnSource
  <2>8. /\ v.learnsSource = None
        /\ Todo(v) = Todo(a) \o End(a, "learnsSource", None)
        /\ Keeps(a, v, {"learnsSource", "tasks"})
    BY <2>6, <2>7, StopSourceDoes
  <2>9. a.learnsSource = u.learnsSource /\ a.observers = u.observers
    BY <2>6 DEF Keeps, Fields
  <2>10. End(a, "learnsSource", None) = End(u, "learnsSource", None)
    BY <2>9, SameEnd
  <2>11. v.mappings = ms /\ Keeps(u, v, {"learnsSource", "mappings", "tasks"})
    BY <2>6, <2>8 DEF Keeps, Fields
  <2>. QED  BY <1>1, <1>2, <1>4, <2>2, <2>6, <2>8, <2>10, <2>11
<1>. QED  BY <1>3, <1>4

------------------------------------------------------------------------------
(* Reactions, field by field.                                              *)

\* The same mappings are there and have the same sources.
SameSources(u, v) ==
    \A m \in Mappings : /\ v.mappings[m].is = u.mappings[m].is
                        /\ v.mappings[m].source = u.mappings[m].source

\* A touched target: it is learned if it is not of another project, and
\* learning ends in any case.
LEMMA TouchDoes ==
    ASSUME NEW u, Sound(u), NEW isForeign \in BOOLEAN
    PROVE  LET v == StopLearningTarget(LearnTarget(u, isForeign))
           IN  /\ v.learnsTarget = None
               /\ SameSources(u, v)
               /\ u.learnsTarget = None => v.mappings = u.mappings
               /\ Todo(v) = Todo(u) \o End(u, "learnsTarget", None)
               /\ Keeps(u, v, {"learnsTarget", "tasks", "surfaceTasks", "mainTasks", "mappings"})
               /\ Stopped(u, v)
<1>1. PICK m : m = u.learnsTarget
  OBVIOUS
<1>2. u \in UnitState /\ u.mappings \in [Mappings -> MappingState]
  BY DEF Sound, UnitState
<1>3. PICK ms : ms = IF m \in Present(u) THEN [u.mappings EXCEPT ![m].target = TRUE] ELSE u.mappings
  OBVIOUS
<1>4. ms \in [Mappings -> MappingState]
  BY <1>2, <1>3 DEF MappingState
<1>5. \A n \in Mappings : ms[n].is = u.mappings[n].is /\ ms[n].source = u.mappings[n].source
  BY <1>2, <1>3 DEF MappingState
<1>6. m = None => ms = u.mappings
  BY <1>3, LearningAssumption DEF Present
<1>7. PICK a : a = [u EXCEPT !.mappings = ms]
  OBVIOUS
<1>8. a = IF m \in Present(u) THEN [u EXCEPT !.mappings[m].target = TRUE] ELSE u
  BY <1>2, <1>3, <1>7 DEF UnitState
<1>9. Sound(a) /\ a.mappings = ms /\ Todo(a) = Todo(u) /\ Keeps(u, a, {"mappings"})
  BY <1>4, <1>7, MappingsDo
<1>10. /\ a.learnsTarget = u.learnsTarget /\ a.observers = u.observers
       /\ a.futures = u.futures /\ a.surfaceTasks = u.surfaceTasks
  BY <1>9 DEF Keeps, Fields
<1>11. PICK p : p = "learnsTarget"
  OBVIOUS
<1>12. PICK b : b = Clear(a, p, None)
  OBVIOUS
<1>13. /\ Sound(b)
       /\ b[p] = None
       /\ Todo(b) = Todo(a) \o End(a, p, None)
       /\ Keeps(a, b, {p, "tasks"})
  <2>1. a \in UnitState /\ p \in Property /\ p \in {"learnsSource", "learnsTarget", "many"}
    BY <1>9, <1>11 DEF Sound, Property
  <2>2. Sound(b)
    BY <2>1, <1>9, <1>12, ClearingNumber
  <2>. QED  BY <2>1, <2>2, <1>12, ClearDoes
<1>14. PICK d : d = LearnTarget(u, isForeign)
  OBVIOUS
<1>15. d = IF isForeign THEN u ELSE b
  BY <1>1, <1>8, <1>11, <1>12, <1>14 DEF LearnTarget
<1>16. PICK v : v = StopLearningTarget(d)
  OBVIOUS
<1>17. ASSUME Sound(d)
       PROVE  /\ v.learnsTarget = None
              /\ Todo(v) = Todo(d) \o End(d, "learnsTarget", None)
              /\ Keeps(d, v, {"learnsTarget", "tasks", "surfaceTasks", "mainTasks"})
              /\ Stopped(d, v)
  BY <1>16, <1>17, StopTargetDoes
<1>18. CASE isForeign
  <2>1. d = u
    BY <1>15, <1>18
  <2>2. v.mappings = u.mappings
    BY <2>1, <1>17 DEF Keeps, Fields
  <2>3. SameSources(u, v)
    BY <2>2 DEF SameSources
  <2>4. Keeps(u, v, {"learnsTarget", "tasks", "surfaceTasks", "mainTasks", "mappings"})
    BY <2>1, <1>17 DEF Keeps
  <2>. QED  BY <2>1, <2>2, <2>3, <2>4, <1>14, <1>16, <1>17
<1>19. CASE ~isForeign
  <2>1. d = b
    BY <1>15, <1>19
  <2>2. /\ b.learnsTarget = None /\ b.mappings = ms
        /\ b.futures = u.futures /\ b.surfaceTasks = u.surfaceTasks
    BY <1>9, <1>10, <1>11, <1>13 DEF Keeps, Fields
  <2>3. v.mappings = ms
    BY <2>1, <2>2, <1>13, <1>17 DEF Keeps, Fields
  <2>4. SameSources(u, v)
    BY <2>3, <1>5 DEF SameSources
  <2>5. Keeps(u, v, {"learnsTarget", "tasks", "surfaceTasks", "mainTasks", "mappings"})
    <3>1. Keeps(a, v, {"learnsTarget", "tasks", "surfaceTasks", "mainTasks", "mappings"})
      BY <2>1, <1>11, <1>13, <1>17 DEF Keeps
    <3>. QED  BY <3>1, <1>9 DEF Keeps
  <2>6. Todo(v) = Todo(b)
    <3>1. End(b, "learnsTarget", None) = <<>>
      BY <2>2 DEF End
    <3>2. Todo(b) \in Seq(Task)
      BY <1>13, TodoType DEF Sound
    <3>3. PICK s : s = Todo(b)
      OBVIOUS
    <3>4. s \o <<>> = s
      BY <3>2, <3>3, AddingNothing
    <3>. QED  BY <2>1, <3>1, <3>3, <3>4, <1>13, <1>17
  <2>7. End(a, p, None) = End(u, "learnsTarget", None)
    BY <1>10, <1>11, SameEnd
  <2>8. Stopped(u, v)
    BY <2>1, <2>2, <1>13, <1>17, StoppedBoth DEF OnlyStops
  <2>9. v.learnsTarget = None
    BY <2>1, <1>13, <1>17
  <2>. QED  BY <2>3, <2>4, <2>5, <2>6, <2>7, <2>8, <2>9, <1>1, <1>6, <1>9, <1>13, <1>14, <1>16
<1>. QED  BY <1>18, <1>19

\* The closures that react to a captured message.
LEMMA CaptureDoes ==
    ASSUME NEW u, Sound(u), NEW source \in Sources
    PROVE  LET v == CaptureMessage(u, source)
           IN  Todo(v) = Todo(u) /\ Keeps(u, v, {"tasks"})
<1>1. PICK S : S = {o \in Captures : ~o.forFilter /\ source \notin o.ignored}
  OBVIOUS
<1>2. PICK reactions : reactions = Selection(u.observers, S)
  OBVIOUS
<1>3. PICK obs : obs = u.observers
  OBVIOUS
<1>4. PICK s : s = u.tasks
  OBVIOUS
<1>5. u \in UnitState /\ obs \in Seq(Observer) /\ s \in Seq(Task)
  BY <1>3, <1>4 DEF Sound, UnitState
<1>6. reactions \in Seq(Observer)
  BY <1>2, <1>3, <1>5, SelectedElements
<1>7. PICK t : t = [do |-> "learn", source |-> source]
  OBVIOUS
<1>8. t \in Task /\ t \notin Steps
  BY <1>7 DEF Task, Steps
<1>9. PICK more : more = [i \in 1..Len(reactions) |-> t]
  OBVIOUS
<1>10. Len(reactions) \in Nat
  BY <1>6
<1>11. more \in Seq(Task) /\ ToSet(more) \subseteq {t}
  <2>1. more \in Seq(Task)
    BY <1>8, <1>9, <1>10
  <2>2. ToSet(more) \subseteq {t}
    BY <1>9, <1>10 DEF ToSet
  <2>. QED  BY <2>1, <2>2
<1>12. Selection(more, Steps) = <<>>
  <2>1. PICK b : b = Selection(more, Steps)
    OBVIOUS
  <2>2. b \in Seq(Task) /\ ToSet(b) = ToSet(more) \cap Steps
    BY <2>1, <1>11, SelectedElements
  <2>3. ToSet(b) = {}
    BY <2>2, <1>8, <1>11
  <2>4. b = <<>>
    BY <2>2, <2>3 DEF ToSet
  <2>. QED  BY <2>1, <2>4
<1>13. Selection(s \o more, Steps) = Selection(s, Steps) \o Selection(more, Steps)
  BY <1>5, <1>11, SelectionOfBoth
<1>14. PICK b : b = Selection(s, Steps)
  OBVIOUS
<1>15. b \in Seq(Task)
  BY <1>5, <1>14, SelectedElements
<1>16. b \o <<>> = b
  BY <1>15, AddingNothing
<1>17. PICK v : v = CaptureMessage(u, source)
  OBVIOUS
<1>18. v = [u EXCEPT !.tasks = s \o more]
  BY <1>1, <1>2, <1>4, <1>7, <1>9, <1>17 DEF CaptureMessage
<1>19. v.tasks = s \o more /\ Keeps(u, v, {"tasks"})
  BY <1>5, <1>18 DEF UnitState, Keeps, Fields
<1>. QED  BY <1>4, <1>12, <1>13, <1>14, <1>16, <1>17, <1>19 DEF Todo

\* An end is told: who remains, and what it triggers.
LEMMA StoppedDoes ==
    ASSUME NEW u \in UnitState, NEW p \in Property
    PROVE  LET v == NotifyStopped(u, p)
               triggered == Selection(ObserversOf(u, p), Triggers)
           IN  /\ v.observers = Without(u, p, {"afterMapping"})
               /\ triggered = <<>> => Todo(v) = Todo(u)
               /\ \A o \in Triggers : triggered = <<o>> => Todo(v) = Append(Todo(u), Reaction(o))
               /\ Selection(ObserversOf(u, p), {o \in Captures : o.reenable}) = <<>> =>
                    v.mainTasks = u.mainTasks
               /\ Keeps(u, v, {"observers", "mainTasks", "tasks"})
<1>1. PICK told : told = ObserversOf(u, p)
  OBVIOUS
<1>2. PICK returns : returns = Selection(told, {o \in Captures : o.reenable})
  OBVIOUS
<1>3. PICK triggered : triggered = Selection(told, Triggers)
  OBVIOUS
<1>4. PICK mt : mt = u.mainTasks \o [i \in 1..Len(returns) |-> "ReturnToControlMode"]
  OBVIOUS
<1>5. PICK r : r = [i \in 1..Len(triggered) |-> Reaction(triggered[i])]
  OBVIOUS
<1>6. PICK s : s = u.tasks
  OBVIOUS
<1>7. s \in Seq(Task) /\ u.mainTasks \in Seq(MainTask)
  BY <1>6 DEF UnitState
<1>8. PICK v : v = NotifyStopped(u, p)
  OBVIOUS
<1>9. v = [u EXCEPT !.observers = Without(u, p, {"afterMapping"}), !.mainTasks = mt,
                    !.tasks = s \o r]
  BY <1>1, <1>2, <1>3, <1>4, <1>5, <1>6, <1>8 DEF NotifyStopped
<1>10. /\ v.observers = Without(u, p, {"afterMapping"})
       /\ v.mainTasks = mt /\ v.tasks = s \o r
       /\ Keeps(u, v, {"observers", "mainTasks", "tasks"})
  BY <1>9 DEF UnitState, Keeps, Fields
<1>11. ASSUME triggered = <<>> PROVE Todo(v) = Todo(u)
  <2>1. r = <<>>
    BY <1>5, <1>11
  <2>2. s \o r = s
    BY <2>1, <1>7, AddingNothing
  <2>. QED  BY <2>2, <1>6, <1>10 DEF Todo
<1>12. ASSUME NEW o \in Triggers, triggered = <<o>>
       PROVE  Todo(v) = Append(Todo(u), Reaction(o))
  <2>1. PICK t : t = Reaction(o)
    OBVIOUS
  <2>2. t \in Task /\ t \in Steps
    BY <2>1 DEF Triggers, Reaction, Task, Steps
  <2>3. r = <<t>>
    BY <2>1, <1>5, <1>12
  <2>4. s \o r = Append(s, t)
    BY <2>2, <2>3, <1>7, AddingOne
  <2>. QED  BY <2>1, <2>2, <2>4, <1>6, <1>10, TodoGrows
<1>13. ASSUME returns = <<>> PROVE v.mainTasks = u.mainTasks
  <2>1. [i \in 1..Len(returns) |-> "ReturnToControlMode"] = <<>>
    BY <1>13
  <2>2. PICK n : n = [i \in 1..Len(returns) |-> "ReturnToControlMode"]
    OBVIOUS
  <2>3. u.mainTasks \o <<>> = u.mainTasks
    BY <1>7, AddingNothing
  <2>4. mt = u.mainTasks \o n
    BY <2>2, <1>4
  <2>. QED  BY <2>1, <2>2, <2>3, <2>4, <1>10
<1>. QED  BY <1>1, <1>2, <1>3, <1>8, <1>10, <1>11, <1>12, <1>13

\* The end of "learn many" is told.
LEMMA ManyStoppedDoes ==
    ASSUME NEW u \in UnitState
    PROVE  LET v == NotifyManyStopped(u)
           IN  /\ v.observers = Without(u, "many", {})
               /\ Todo(v) = Todo(u)
               /\ Keeps(u, v, {"observers"})
<1>1. PICK w : w = Without(u, "many", {})
  OBVIOUS
<1>2. PICK v : v = NotifyManyStopped(u)
  OBVIOUS
<1>3. v = [u EXCEPT !.observers = w]
  BY <1>1, <1>2 DEF NotifyManyStopped
<1>4. v.observers = w /\ v.tasks = u.tasks /\ Keeps(u, v, {"observers"})
  BY <1>3 DEF UnitState, Keeps, Fields
<1>5. Todo(v) = Todo(u)
  BY <1>4 DEF Todo
<1>. QED  BY <1>1, <1>2, <1>4, <1>5

------------------------------------------------------------------------------
(* Who is told, in each situation.                                         *)

\* One of two.
LEMMA SelectTwo ==
    ASSUME NEW a, NEW b, NEW S
    PROVE  /\ a \in S /\ b \in S => Selection(<<a, b>>, S) = <<a, b>>
           /\ a \in S /\ b \notin S => Selection(<<a, b>>, S) = <<a>>
           /\ a \notin S /\ b \in S => Selection(<<a, b>>, S) = <<b>>
           /\ a \notin S /\ b \notin S => Selection(<<a, b>>, S) = <<>>
<1>1. PICK x : x = Selection(<<a>>, S)
  OBVIOUS
<1>2. x = IF a \in S THEN <<a>> ELSE <<>>
  BY <1>1, SelectionOfOne
<1>3. Selection(<<a, b>>, S) = IF b \in S THEN Append(x, b) ELSE x
  BY <1>1, SelectionOfTwo
<1>4. Append(<<a>>, b) = <<a, b>>
  BY Pairs
<1>5. Append(<<>>, b) = <<b>>
  OBVIOUS
<1>. QED  BY <1>2, <1>3, <1>4, <1>5

\* One or two of three.
LEMMA SelectThree ==
    ASSUME NEW a, NEW b, NEW d, NEW S
    PROVE  /\ a \in S /\ b \in S /\ d \notin S => Selection(<<a, b, d>>, S) = <<a, b>>
           /\ a \notin S /\ b \in S /\ d \in S => Selection(<<a, b, d>>, S) = <<b, d>>
           /\ a \in S /\ b \notin S /\ d \notin S => Selection(<<a, b, d>>, S) = <<a>>
           /\ a \notin S /\ b \in S /\ d \notin S => Selection(<<a, b, d>>, S) = <<b>>
           /\ a \notin S /\ b \notin S /\ d \in S => Selection(<<a, b, d>>, S) = <<d>>
           /\ a \in S /\ b \notin S /\ d \in S => Selection(<<a, b, d>>, S) = <<a, d>>
<1>1. PICK x : x = Selection(<<a, b>>, S)
  OBVIOUS
<1>2. /\ a \in S /\ b \in S => x = <<a, b>>
      /\ a \in S /\ b \notin S => x = <<a>>
      /\ a \notin S /\ b \in S => x = <<b>>
      /\ a \notin S /\ b \notin S => x = <<>>
  BY <1>1, SelectTwo
<1>4. Selection(<<a, b, d>>, S) = IF d \in S THEN Append(x, d) ELSE x
  BY <1>1, SelectionOfThree
<1>5. Append(<<b>>, d) = <<b, d>> /\ Append(<<a>>, d) = <<a, d>>
  BY Pairs
<1>6. Append(<<>>, d) = <<d>>
  OBVIOUS
<1>. QED  BY <1>2, <1>4, <1>5, <1>6

\* What the observers are and observe.
LEMMA CaptureIs ==
    ASSUME NEW f \in BOOLEAN, NEW r \in BOOLEAN, NEW ignored \in SUBSET Sources
    PROVE  LET o == Capture(f, r, ignored)
           IN  /\ o \in Observer /\ o \in Captures /\ o \notin Triggers
               /\ o.kind = "capture" /\ o.reenable = r /\ o.forFilter = f /\ o.ignored = ignored
               /\ Observes(o, "learnsSource") <=> ~f
               /\ Observes(o, "filter") <=> f
               /\ ~Observes(o, "learnsTarget") /\ ~Observes(o, "many")
BY DEF Capture, Captures, Triggers, Observer, Observes

\* A trigger that waits for a source.
LEMMA AfterSourceIs ==
    ASSUME NEW m \in Mappings
    PROVE  LET o == AfterSource(m)
           IN  /\ o \in Observer /\ o \notin Captures /\ o \in Triggers
               /\ o.kind = "afterSource"
               /\ Observes(o, "learnsSource") /\ Observes(o, "many")
               /\ ~Observes(o, "learnsTarget")
               /\ Reaction(o) = [do |-> "learnTarget", mapping |-> m]
BY DEF AfterSource, Captures, Triggers, Observer, Observes, Reaction

\* A trigger that waits for a mapping.
LEMMA AfterMappingIs ==
    ASSUME NEW c \in Compartments
    PROVE  LET o == AfterMapping(c)
           IN  /\ o \in Observer /\ o \notin Captures /\ o \in Triggers
               /\ o.kind = "afterMapping"
               /\ Observes(o, "many")
               /\ Observes(o, "learnsSource") <=> c = "Controller"
               /\ Observes(o, "learnsTarget") <=> c = "Main"
               /\ Reaction(o) = [do |-> "addMapping", compartment |-> c]
BY DEF AfterMapping, Captures, Triggers, Observer, Observes, Reaction, Compartments

Reenabling == {o \in Captures : o.reenable}

\* Nobody observes.
LEMMA NobodyIsTold ==
    ASSUME NEW u, u.observers = <<>>, NEW p
    PROVE  /\ ObserversOf(u, p) = <<>>
           /\ Selection(ObserversOf(u, p), Triggers) = <<>>
           /\ Selection(ObserversOf(u, p), Reenabling) = <<>>
           /\ \A kept : Without(u, p, kept) = <<>>
BY SelectionOfNone DEF ObserversOf, Without

\* A capture is told about the end of what it captures for, and is gone then.
LEMMA CaptureIsTold ==
    ASSUME NEW u, NEW f \in BOOLEAN, NEW r \in BOOLEAN, NEW ignored \in SUBSET Sources,
           u.observers = <<Capture(f, r, ignored)>>,
           NEW p, p = IF f THEN "filter" ELSE "learnsSource"
    PROVE  /\ ObserversOf(u, p) # <<>>
           /\ Selection(ObserversOf(u, p), Triggers) = <<>>
           /\ ~r => Selection(ObserversOf(u, p), Reenabling) = <<>>
           /\ Without(u, p, {"afterMapping"}) = <<>>
<1>1. PICK o : o = Capture(f, r, ignored)
  OBVIOUS
<1>2. /\ o \in Observer /\ o \in Captures /\ o \notin Triggers
      /\ o.kind = "capture" /\ o.reenable = r
      /\ Observes(o, p)
  BY <1>1, CaptureIs
<1>3. PICK S : S = {x \in Observer : Observes(x, p)}
  OBVIOUS
<1>4. o \in S
  BY <1>2, <1>3
<1>5. ObserversOf(u, p) = <<o>>
  BY <1>1, <1>3, <1>4, SelectionOfOne DEF ObserversOf
<1>6. Selection(<<o>>, Triggers) = <<>>
  BY <1>2, SelectionOfOne
<1>7. ~r => Selection(<<o>>, Reenabling) = <<>>
  <2>1. ~r => o \notin Reenabling
    BY <1>2 DEF Reenabling
  <2>. QED  BY <2>1, SelectionOfOne
<1>8. PICK W : W = {x \in Observer : Observes(x, p) => x.kind \in {"afterMapping"}}
  OBVIOUS
<1>9. o \notin W
  BY <1>2, <1>8
<1>10. Without(u, p, {"afterMapping"}) = <<>>
  BY <1>1, <1>8, <1>9, SelectionOfOne DEF Without
<1>. QED  BY <1>5, <1>6, <1>7, <1>10

\* "Learn many" between two mappings.
LEMMA TriggerIsTold ==
    ASSUME NEW u, u.observers = <<AfterMapping("Main")>>
    PROVE  /\ ObserversOf(u, "learnsTarget") # <<>>
           /\ ObserversOf(u, "many") # <<>>
           /\ Selection(ObserversOf(u, "learnsTarget"), Triggers) = <<AfterMapping("Main")>>
           /\ Selection(ObserversOf(u, "learnsTarget"), Reenabling) = <<>>
           /\ Without(u, "learnsTarget", {"afterMapping"}) = <<AfterMapping("Main")>>
           /\ Without(u, "many", {}) = <<>>
<1>1. PICK o : o = AfterMapping("Main")
  OBVIOUS
<1>2. /\ o \in Observer /\ o \notin Captures /\ o \in Triggers
      /\ o.kind = "afterMapping"
      /\ Observes(o, "many") /\ Observes(o, "learnsTarget")
  BY <1>1, AfterMappingIs DEF Compartments
<1>3. ASSUME NEW p \in {"many", "learnsTarget"}
      PROVE  ObserversOf(u, p) = <<o>>
  <2>1. PICK S : S = {x \in Observer : Observes(x, p)}
    OBVIOUS
  <2>2. o \in S
    BY <1>2, <2>1
  <2>. QED  BY <1>1, <2>1, <2>2, SelectionOfOne DEF ObserversOf
<1>4. Selection(<<o>>, Triggers) = <<o>>
  BY <1>2, SelectionOfOne
<1>5. Selection(<<o>>, Reenabling) = <<>>
  <2>1. o \notin Reenabling
    BY <1>2 DEF Reenabling
  <2>. QED  BY <2>1, SelectionOfOne
<1>6. Without(u, "learnsTarget", {"afterMapping"}) = <<o>>
  <2>1. PICK W : W = {x \in Observer : Observes(x, "learnsTarget") => x.kind \in {"afterMapping"}}
    OBVIOUS
  <2>2. o \in W
    BY <1>2, <2>1
  <2>. QED  BY <1>1, <2>1, <2>2, SelectionOfOne DEF Without
<1>7. Without(u, "many", {}) = <<>>
  <2>1. PICK W : W = {x \in Observer : Observes(x, "many") => x.kind \in {}}
    OBVIOUS
  <2>2. o \notin W
    BY <1>2, <2>1
  <2>. QED  BY <1>1, <2>1, <2>2, SelectionOfOne DEF Without
<1>8. ObserversOf(u, "many") = <<o>> /\ ObserversOf(u, "learnsTarget") = <<o>>
  BY <1>3
<1>. QED  BY <1>1, <1>4, <1>5, <1>6, <1>7, <1>8

\* The observers while "learn many" captures: the trigger that adds the next
\* mapping subscribed before or after the first capture.
MainCapturing(m) ==
    {<<Capture(FALSE, FALSE, {}), AfterSource(m), AfterMapping("Main")>>,
     <<AfterMapping("Main"), Capture(FALSE, FALSE, {}), AfterSource(m)>>}
ControllerCapturing(ignored) ==
    {<<Capture(FALSE, FALSE, ignored), AfterMapping("Controller")>>,
     <<AfterMapping("Controller"), Capture(FALSE, FALSE, ignored)>>}

\* Many are learned, main compartment: who is told that the source was learned.
LEMMA MainIsTold ==
    ASSUME NEW u, NEW m \in Mappings, u.observers \in MainCapturing(m)
    PROVE  /\ ObserversOf(u, "learnsSource") # <<>>
           /\ ObserversOf(u, "many") # <<>>
           /\ Selection(ObserversOf(u, "learnsSource"), Triggers) = <<AfterSource(m)>>
           /\ Selection(ObserversOf(u, "learnsSource"), Reenabling) = <<>>
           /\ Without(u, "learnsSource", {"afterMapping"}) = <<AfterMapping("Main")>>
           /\ Without(u, "many", {}) = <<Capture(FALSE, FALSE, {})>>
<1>1. PICK k : k = Capture(FALSE, FALSE, {})
  OBVIOUS
<1>2. PICK a : a = AfterSource(m)
  OBVIOUS
<1>3. PICK t : t = AfterMapping("Main")
  OBVIOUS
<1>4. /\ k \in Observer /\ k \notin Triggers /\ k.kind = "capture" /\ k.reenable = FALSE
      /\ Observes(k, "learnsSource") /\ ~Observes(k, "many")
  BY <1>1, CaptureIs
<1>5. /\ a \in Observer /\ a \in Triggers /\ a \notin Captures /\ a.kind = "afterSource"
      /\ Observes(a, "learnsSource") /\ Observes(a, "many")
  BY <1>2, AfterSourceIs
<1>6. /\ t \in Observer /\ t.kind = "afterMapping"
      /\ ~Observes(t, "learnsSource") /\ Observes(t, "many")
  BY <1>3, AfterMappingIs DEF Compartments
<1>7. PICK s : s = u.observers
  OBVIOUS
<1>8. s = <<k, a, t>> \/ s = <<t, k, a>>
  BY <1>1, <1>2, <1>3, <1>7 DEF MainCapturing
<1>9. ObserversOf(u, "learnsSource") = <<k, a>>
  <2>1. PICK S : S = {x \in Observer : Observes(x, "learnsSource")}
    OBVIOUS
  <2>2. k \in S /\ a \in S /\ t \notin S
    BY <1>4, <1>5, <1>6, <2>1
  <2>3. Selection(<<k, a, t>>, S) = <<k, a>> /\ Selection(<<t, k, a>>, S) = <<k, a>>
    BY <2>2, SelectThree
  <2>. QED  BY <1>7, <1>8, <2>1, <2>3 DEF ObserversOf
<1>10. ObserversOf(u, "many") # <<>>
  <2>1. PICK S : S = {x \in Observer : Observes(x, "many")}
    OBVIOUS
  <2>2. k \notin S /\ a \in S /\ t \in S
    BY <1>4, <1>5, <1>6, <2>1
  <2>3. Selection(<<k, a, t>>, S) = <<a, t>>
    BY <2>2, SelectThree
  <2>4. Selection(<<t, k, a>>, S) = <<t, a>>
    BY <2>2, SelectThree
  <2>5. <<a, t>> # <<>> /\ <<t, a>> # <<>>
    OBVIOUS
  <2>. QED  BY <1>7, <1>8, <2>1, <2>3, <2>4, <2>5 DEF ObserversOf
<1>11. Selection(<<k, a>>, Triggers) = <<a>>
  BY <1>4, <1>5, SelectTwo
<1>12. Selection(<<k, a>>, Reenabling) = <<>>
  <2>1. k \notin Reenabling /\ a \notin Reenabling
    BY <1>4, <1>5 DEF Reenabling
  <2>. QED  BY <2>1, SelectTwo
<1>13. Without(u, "learnsSource", {"afterMapping"}) = <<t>>
  <2>1. PICK W : W = {x \in Observer : Observes(x, "learnsSource") => x.kind \in {"afterMapping"}}
    OBVIOUS
  <2>2. k \notin W /\ a \notin W /\ t \in W
    BY <1>4, <1>5, <1>6, <2>1
  <2>3. Selection(<<k, a, t>>, W) = <<t>> /\ Selection(<<t, k, a>>, W) = <<t>>
    BY <2>2, SelectThree
  <2>. QED  BY <1>7, <1>8, <2>1, <2>3 DEF Without
<1>14. Without(u, "many", {}) = <<k>>
  <2>1. PICK W : W = {x \in Observer : Observes(x, "many") => x.kind \in {}}
    OBVIOUS
  <2>2. k \in W /\ a \notin W /\ t \notin W
    BY <1>4, <1>5, <1>6, <2>1
  <2>3. Selection(<<k, a, t>>, W) = <<k>> /\ Selection(<<t, k, a>>, W) = <<k>>
    BY <2>2, SelectThree
  <2>. QED  BY <1>7, <1>8, <2>1, <2>3 DEF Without
<1>15. <<k, a>> # <<>>
  OBVIOUS
<1>. QED  BY <1>1, <1>2, <1>3, <1>9, <1>10, <1>11, <1>12, <1>13, <1>14, <1>15

\* Many are learned, controller compartment: who is told that the source was learned.
LEMMA ControllerIsTold ==
    ASSUME NEW u, NEW ignored \in SUBSET Sources, u.observers \in ControllerCapturing(ignored)
    PROVE  /\ ObserversOf(u, "learnsSource") # <<>>
           /\ ObserversOf(u, "many") # <<>>
           /\ \A o \in ToSet(ObserversOf(u, "learnsSource")) : o.kind = "capture" => o.ignored = ignored
           /\ Selection(ObserversOf(u, "learnsSource"), Triggers) = <<AfterMapping("Controller")>>
           /\ Selection(ObserversOf(u, "learnsSource"), Reenabling) = <<>>
           /\ Without(u, "learnsSource", {"afterMapping"}) = <<AfterMapping("Controller")>>
           /\ Without(u, "many", {}) = <<Capture(FALSE, FALSE, ignored)>>
<1>1. PICK k : k = Capture(FALSE, FALSE, ignored)
  OBVIOUS
<1>2. PICK t : t = AfterMapping("Controller")
  OBVIOUS
<1>3. /\ k \in Observer /\ k \notin Triggers /\ k.kind = "capture" /\ k.reenable = FALSE
      /\ k.ignored = ignored
      /\ Observes(k, "learnsSource") /\ ~Observes(k, "many")
  BY <1>1, CaptureIs
<1>4. /\ t \in Observer /\ t.kind = "afterMapping" /\ t \in Triggers /\ t \notin Captures
      /\ Observes(t, "learnsSource") /\ Observes(t, "many")
  BY <1>2, AfterMappingIs DEF Compartments
<1>5. PICK s : s = u.observers
  OBVIOUS
<1>6. s = <<k, t>> \/ s = <<t, k>>
  BY <1>1, <1>2, <1>5 DEF ControllerCapturing
<1>7. ObserversOf(u, "learnsSource") = s
  <2>1. PICK S : S = {x \in Observer : Observes(x, "learnsSource")}
    OBVIOUS
  <2>2. k \in S /\ t \in S
    BY <1>3, <1>4, <2>1
  <2>3. Selection(<<k, t>>, S) = <<k, t>> /\ Selection(<<t, k>>, S) = <<t, k>>
    BY <2>2, SelectTwo
  <2>. QED  BY <1>5, <1>6, <2>1, <2>3 DEF ObserversOf
<1>8. ObserversOf(u, "many") = <<t>>
  <2>1. PICK S : S = {x \in Observer : Observes(x, "many")}
    OBVIOUS
  <2>2. k \notin S /\ t \in S
    BY <1>3, <1>4, <2>1
  <2>3. Selection(<<k, t>>, S) = <<t>> /\ Selection(<<t, k>>, S) = <<t>>
    BY <2>2, SelectTwo
  <2>. QED  BY <1>5, <1>6, <2>1, <2>3 DEF ObserversOf
<1>9. Selection(s, Triggers) = <<t>>
  <2>1. Selection(<<k, t>>, Triggers) = <<t>> /\ Selection(<<t, k>>, Triggers) = <<t>>
    BY <1>3, <1>4, SelectTwo
  <2>. QED  BY <2>1, <1>6
<1>10. Selection(s, Reenabling) = <<>>
  <2>1. k \notin Reenabling /\ t \notin Reenabling
    BY <1>3, <1>4 DEF Reenabling
  <2>2. Selection(<<k, t>>, Reenabling) = <<>>
    BY <2>1, SelectTwo
  <2>3. Selection(<<t, k>>, Reenabling) = <<>>
    BY <2>1, SelectTwo
  <2>. QED  BY <2>2, <2>3, <1>6
<1>11. Without(u, "learnsSource", {"afterMapping"}) = <<t>>
  <2>1. PICK W : W = {x \in Observer : Observes(x, "learnsSource") => x.kind \in {"afterMapping"}}
    OBVIOUS
  <2>2. k \notin W /\ t \in W
    BY <1>3, <1>4, <2>1
  <2>3. Selection(<<k, t>>, W) = <<t>> /\ Selection(<<t, k>>, W) = <<t>>
    BY <2>2, SelectTwo
  <2>. QED  BY <1>5, <1>6, <2>1, <2>3 DEF Without
<1>12. Without(u, "many", {}) = <<k>>
  <2>1. PICK W : W = {x \in Observer : Observes(x, "many") => x.kind \in {}}
    OBVIOUS
  <2>2. k \in W /\ t \notin W
    BY <1>3, <1>4, <2>1
  <2>3. Selection(<<k, t>>, W) = <<k>> /\ Selection(<<t, k>>, W) = <<k>>
    BY <2>2, SelectTwo
  <2>. QED  BY <1>5, <1>6, <2>1, <2>3 DEF Without
<1>13. s # <<>> /\ ToSet(s) = {k, t} /\ <<t>> # <<>>
  BY <1>6 DEF ToSet
<1>14. \A o \in ToSet(s) : o.kind = "capture" => o.ignored = ignored
  BY <1>3, <1>4, <1>13
<1>. QED  BY <1>1, <1>2, <1>7, <1>8, <1>9, <1>10, <1>11, <1>12, <1>13, <1>14

------------------------------------------------------------------------------
(* What a unit goes through as long as the user doesn't mix kinds of       *)
(* learning and isn't too fast.                                            *)

Nothing(u) == u.learnsSource = None /\ u.learnsTarget = None /\ u.many = None /\ ~u.filter
OnlySource(u) == u.learnsSource # None /\ u.learnsTarget = None /\ u.many = None /\ ~u.filter
OnlyTarget(u) == u.learnsSource = None /\ u.learnsTarget # None /\ u.many = None /\ ~u.filter
OnlyFilter(u) == u.learnsSource = None /\ u.learnsTarget = None /\ u.many = None /\ u.filter

Rests(u) == Nothing(u) /\ u.observers = <<>> /\ Todo(u) = <<>>

\* One mapping.
LearnsOneSource(u) ==
    OnlySource(u) /\ u.observers = <<Capture(FALSE, TRUE, {})>> /\ Todo(u) = <<>>
OneSourceEnds(u) ==
    Nothing(u) /\ u.observers = <<Capture(FALSE, TRUE, {})>> /\ Todo(u) = <<Notify("learnsSource")>>
LearnsOneTarget(u) == OnlyTarget(u) /\ u.observers = <<>> /\ Todo(u) = <<>>
Filters(u) == OnlyFilter(u) /\ u.observers = <<Capture(TRUE, TRUE, {})>> /\ Todo(u) = <<>>
FilterEnds(u) ==
    Nothing(u) /\ u.observers = <<Capture(TRUE, TRUE, {})>> /\ Todo(u) = <<Notify("filter")>>

\* Many, while a source is captured. In the controller compartment, what was
\* learned already is ignored.
CapturesOne(u) ==
    /\ u.many # None /\ u.step = "source" /\ u.learnsTarget = None /\ ~u.filter
    /\ IF Compartment[u.many] = "Main" THEN u.observers \in MainCapturing(u.many)
       ELSE \E ignored \in SUBSET Sources :
                /\ u.observers \in ControllerCapturing(ignored)
                /\ u.learnsSource # None => LearnedSources(u, "Controller") \subseteq ignored
LearnsSourceOfOne(u) == CapturesOne(u) /\ u.learnsSource = u.many /\ Todo(u) = <<>>
SourceOfOneEnds(u) ==
    CapturesOne(u) /\ u.learnsSource = None /\ Todo(u) = <<Notify("learnsSource")>>

\* Many, from the learned source to the next mapping.
BetweenTwo(u) ==
    /\ u.many # None /\ u.learnsSource = None /\ ~u.filter
    /\ u.observers = <<AfterMapping(Compartment[u.many])>>
SourceOfOneLearned(u) ==
    /\ BetweenTwo(u) /\ u.learnsTarget = None /\ u.step = "source" /\ Compartment[u.many] = "Main"
    /\ Todo(u) = <<[do |-> "learnTarget", mapping |-> u.many]>>
LearnsTargetOfOne(u) ==
    /\ BetweenTwo(u) /\ u.learnsTarget = u.many /\ u.step = "target" /\ Compartment[u.many] = "Main"
    /\ Todo(u) = <<>>
TargetOfOneEnds(u) ==
    /\ BetweenTwo(u) /\ u.learnsTarget = None /\ u.step = "target" /\ Compartment[u.many] = "Main"
    /\ Todo(u) = <<Notify("learnsTarget")>>
ManyGoesOn(u) ==
    /\ BetweenTwo(u) /\ u.learnsTarget = None
    /\ u.step = IF Compartment[u.many] = "Main" THEN "target" ELSE "source"
    /\ Todo(u) = <<[do |-> "addMapping", compartment |-> Compartment[u.many]]>>

\* Many, stopped by the user.
ManyStops(u) ==
    /\ Nothing(u)
    /\ \/ /\ \/ \E m \in Mappings : u.observers \in MainCapturing(m)
             \/ \E ignored \in SUBSET Sources : u.observers \in ControllerCapturing(ignored)
          /\ Todo(u) = <<Notify("many"), Notify("learnsSource")>>
       \/ /\ u.observers = <<AfterMapping("Main")>>
          /\ Todo(u) = <<Notify("many"), Notify("learnsTarget")>>
ManyStopped(u) ==
    /\ Nothing(u)
    /\ \/ /\ \E ignored \in SUBSET Sources : u.observers = <<Capture(FALSE, FALSE, ignored)>>
          /\ Todo(u) = <<Notify("learnsSource")>>
       \/ /\ u.observers = <<>>
          /\ Todo(u) = <<Notify("learnsTarget")>>

InSession(u) ==
    \/ Rests(u) \/ LearnsOneSource(u) \/ OneSourceEnds(u) \/ LearnsOneTarget(u)
    \/ Filters(u) \/ FilterEnds(u)
    \/ LearnsSourceOfOne(u) \/ SourceOfOneEnds(u) \/ SourceOfOneLearned(u)
    \/ LearnsTargetOfOne(u) \/ TargetOfOneEnds(u) \/ ManyGoesOn(u)
    \/ ManyStops(u) \/ ManyStopped(u)

\* "Learn many" doesn't leave a source behind.
SourceIsKept(u) ==
    u.many # None =>
        /\ u.mappings[u.many].is # "fresh"
        /\ u.learnsSource = None =>
            u.mappings[u.many].is = "removed" \/ u.mappings[u.many].source # NoSource

\* The future that captures when the control surface has done its tasks.
FinalCapture(u, c) == IF u.surfaceTasks = <<>> THEN c ELSE u.surfaceTasks[Len(u.surfaceTasks)]
NoneSpawned(u) == \A f \in Futures : u.futures[f].is # "spawned"
NoTouches(u) == \A f \in Futures : u.futures[f].channel = <<>>

\* No touched target can arrive anymore.
Quiet(u, c) == c = None /\ NoneSpawned(u) /\ NoTouches(u) /\ OnlyStops(u)
NeedsQuiet(u, p) ==
    \/ u.learnsSource # None \/ u.filter
    \/ u.many # None /\ u.step = "source"
    \/ u.many # None /\ u.learnsTarget = None /\ p \in {"idle", "tasks"}

\* A future captures touched targets, or will, if and only if a target is
\* being learned; and a late touch doesn't meet what came next.
TargetsInv(u, c, p) ==
    /\ u.learnsTarget = None => NoneSpawned(u) /\ FinalCapture(u, c) = None
    /\ u.learnsTarget # None =>
         \/ ~NoneSpawned(u) /\ NoTouches(u)
         \/ NoneSpawned(u) /\ FinalCapture(u, c) # None /\ u.futures[FinalCapture(u, c)].is = "waiting"
    /\ NeedsQuiet(u, p) => Quiet(u, c)
    /\ p \in {"surface", "processors"} => NoneSpawned(u) /\ NoTouches(u)
    /\ p = "processors" => u.surfaceTasks = <<>>

\* The main processor learns sources or filters, or will do, if that is shown.
ModeInv(u, m) ==
    /\ u.learnsSource # None \/ u.filter \/ (u.many # None /\ u.step = "source") =>
          LastOf(u.mainTasks, m) = "LearningSource"
    /\ u.learnsTarget # None => LastOf(u.mainTasks, m) # "Controlling"

SessionInv(u, c, p, m) ==
    InSession(u) /\ SourceIsKept(u) /\ TargetsInv(u, c, p) /\ ModeInv(u, m)

\* What a step from u to v in phase p may do to "learn many".
ManyStep(u, v, p) ==
    /\ u.many = None /\ v.many # None => p = "idle"
    /\ u.many # None /\ (v.many # u.many \/ v.step # u.step) =>
            u.many \notin Present(v) \/ v.mappings[u.many].source # NoSource
    /\ u.many # None /\ v.many \notin {u.many, None} /\ Compartment[u.many] = "Main" =>
            u.step = "target"

------------------------------------------------------------------------------
(* What steps keep.                                                        *)

SameSession(u, v) ==
    Keeps(u, v, {"tasks", "futures", "surfaceTasks", "mainTasks"}) /\ Todo(v) = Todo(u)

\* The situation depends only on what is learned, who observes and what is left to be told.
LEMMA SessionKept ==
    ASSUME NEW u, NEW v, SameSession(u, v), InSession(u)
    PROVE  InSession(v)
<1>1. /\ v.mappings = u.mappings /\ v.learnsSource = u.learnsSource
      /\ v.learnsTarget = u.learnsTarget /\ v.many = u.many /\ v.step = u.step
      /\ v.filter = u.filter /\ v.observers = u.observers /\ Todo(v) = Todo(u)
  BY DEF SameSession, Keeps, Fields
<1>2. /\ Nothing(u) => Nothing(v)
      /\ OnlySource(u) => OnlySource(v)
      /\ OnlyTarget(u) => OnlyTarget(v)
      /\ OnlyFilter(u) => OnlyFilter(v)
  BY <1>1 DEF Nothing, OnlySource, OnlyTarget, OnlyFilter
<1>3. LearnedSources(v, "Controller") = LearnedSources(u, "Controller")
  BY <1>1 DEF LearnedSources, Present
<1>4. /\ CapturesOne(u) => CapturesOne(v)
      /\ BetweenTwo(u) => BetweenTwo(v)
  BY <1>1, <1>3 DEF CapturesOne, BetweenTwo
<1>5. Rests(u) => Rests(v)
  BY <1>1, <1>2 DEF Rests
<1>6. /\ LearnsOneSource(u) => LearnsOneSource(v)
      /\ OneSourceEnds(u) => OneSourceEnds(v)
  BY <1>1, <1>2 DEF LearnsOneSource, OneSourceEnds
<1>7. /\ LearnsOneTarget(u) => LearnsOneTarget(v)
      /\ Filters(u) => Filters(v)
      /\ FilterEnds(u) => FilterEnds(v)
  BY <1>1, <1>2 DEF LearnsOneTarget, Filters, FilterEnds
<1>8. /\ LearnsSourceOfOne(u) => LearnsSourceOfOne(v)
      /\ SourceOfOneEnds(u) => SourceOfOneEnds(v)
  BY <1>1, <1>4 DEF LearnsSourceOfOne, SourceOfOneEnds
<1>9. /\ SourceOfOneLearned(u) => SourceOfOneLearned(v)
      /\ LearnsTargetOfOne(u) => LearnsTargetOfOne(v)
      /\ TargetOfOneEnds(u) => TargetOfOneEnds(v)
  BY <1>1, <1>4 DEF SourceOfOneLearned, LearnsTargetOfOne, TargetOfOneEnds
<1>10. ManyGoesOn(u) => ManyGoesOn(v)
  BY <1>1, <1>4 DEF ManyGoesOn
<1>11. ManyStops(u) => ManyStops(v)
  BY <1>1, <1>2 DEF ManyStops
<1>12. ManyStopped(u) => ManyStopped(v)
  BY <1>1, <1>2 DEF ManyStopped
<1>. QED  BY <1>5, <1>6, <1>7, <1>8, <1>9, <1>10, <1>11, <1>12 DEF InSession

\* A step that doesn't touch "learn many".
LEMMA SameMany ==
    ASSUME NEW u, NEW v, NEW p, v.many = u.many, v.step = u.step
    PROVE  ManyStep(u, v, p)
BY DEF ManyStep

\* Futures and tasks for the surface remain, and no more must be quiet.
LEMMA TargetsKept ==
    ASSUME NEW u, NEW v, NEW c, NEW p, TargetsInv(u, c, p),
           v.futures = u.futures, v.surfaceTasks = u.surfaceTasks,
           v.learnsTarget = u.learnsTarget,
           NeedsQuiet(v, p) => NeedsQuiet(u, p)
    PROVE  TargetsInv(v, c, p)
<1>1. /\ NoneSpawned(v) <=> NoneSpawned(u)
      /\ NoTouches(v) <=> NoTouches(u)
      /\ OnlyStops(v) <=> OnlyStops(u)
      /\ FinalCapture(v, c) = FinalCapture(u, c)
  BY DEF NoneSpawned, NoTouches, OnlyStops, FinalCapture
<1>2. Quiet(v, c) <=> Quiet(u, c)
  BY <1>1 DEF Quiet
<1>. QED  BY <1>1, <1>2 DEF TargetsInv

\* If nothing is learned, there is nothing to promise.
LEMMA NothingPromised ==
    ASSUME NEW u, Nothing(u), NEW m, NEW p
    PROVE  SourceIsKept(u) /\ ModeInv(u, m) /\ ~NeedsQuiet(u, p)
BY DEF Nothing, SourceIsKept, ModeInv, NeedsQuiet

\* Observers and closures change only, and nothing is learned if the main
\* processor gets something to do.
LEMMA ToldKeeps ==
    ASSUME NEW u, NEW v, NEW c, NEW p, NEW m,
           SourceIsKept(u), TargetsInv(u, c, p), ModeInv(u, m),
           Keeps(u, v, {"observers", "mainTasks", "tasks"}),
           v.mainTasks = u.mainTasks \/ Nothing(u)
    PROVE  SourceIsKept(v) /\ TargetsInv(v, c, p) /\ ModeInv(v, m) /\ ManyStep(u, v, p)
<1>1. /\ v.mappings = u.mappings /\ v.learnsSource = u.learnsSource
      /\ v.learnsTarget = u.learnsTarget /\ v.many = u.many /\ v.step = u.step
      /\ v.filter = u.filter
      /\ v.futures = u.futures /\ v.surfaceTasks = u.surfaceTasks
  BY DEF Keeps, Fields
<1>2. NeedsQuiet(v, p) <=> NeedsQuiet(u, p)
  BY <1>1 DEF NeedsQuiet
<1>3. TargetsInv(v, c, p)
  BY <1>1, <1>2, TargetsKept
<1>4. SourceIsKept(v)
  BY <1>1 DEF SourceIsKept
<1>5. ModeInv(v, m)
  <2>1. CASE v.mainTasks = u.mainTasks
    BY <2>1, <1>1 DEF ModeInv
  <2>2. CASE Nothing(u)
    <3>1. Nothing(v)
      BY <2>2, <1>1 DEF Nothing
    <3>. QED  BY <3>1, NothingPromised
  <2>. QED  BY <2>1, <2>2
<1>. QED  BY <1>1, <1>3, <1>4, <1>5, SameMany

\* A captured message adds closures that have an effect only if a source is
\* being learned.
LEMMA CaptureInSession ==
    ASSUME NEW u, Sound(u), NEW source \in Sources, NEW c, NEW p, NEW m, SessionInv(u, c, p, m)
    PROVE  LET v == CaptureMessage(u, source)
           IN  SessionInv(v, c, p, m) /\ ManyStep(u, v, p)
<1>1. PICK v : v = CaptureMessage(u, source)
  OBVIOUS
<1>2. Todo(v) = Todo(u) /\ Keeps(u, v, {"tasks"})
  BY <1>1, CaptureDoes
<1>3. SameSession(u, v) /\ Keeps(u, v, {"observers", "mainTasks", "tasks"}) /\ v.mainTasks = u.mainTasks
  BY <1>2 DEF SameSession, Keeps, Fields
<1>4. InSession(v)
  BY <1>3, SessionKept DEF SessionInv
<1>5. SourceIsKept(v) /\ TargetsInv(v, c, p) /\ ModeInv(v, m) /\ ManyStep(u, v, p)
  BY <1>3, ToldKeeps DEF SessionInv
<1>. QED  BY <1>1, <1>4, <1>5 DEF SessionInv

------------------------------------------------------------------------------
(* Captured messages.                                                      *)

\* What comes first.
LEMMA FirstOfOne ==
    ASSUME NEW T, NEW t \in T, NEW b \in Seq(T), NEW s \in Seq(T), s = <<t>> \o b
    PROVE  s # <<>> /\ Head(s) = t /\ Tail(s) = b
OBVIOUS

\* The next closure is what is to be done next, or nothing that matters.
LEMMA TakenDoes ==
    ASSUME NEW u \in UnitState, u.tasks # <<>>
    PROVE  LET v == Taken(u)
               t == Head(u.tasks)
           IN  /\ v \in UnitState /\ t \in Task
               /\ Keeps(u, v, {"tasks"})
               /\ t \notin Steps => Todo(v) = Todo(u)
               /\ t \in Steps => Todo(u) # <<>> /\ t = Head(Todo(u)) /\ Todo(v) = Tail(Todo(u))
<1>1. PICK v : v = Taken(u)
  OBVIOUS
<1>2. PICK t : t = Head(u.tasks)
  OBVIOUS
<1>3. v \in UnitState /\ t \in Task
  BY <1>1, <1>2, TakingATask
<1>4. Keeps(u, v, {"tasks"})
  BY <1>1 DEF Taken, Keeps, Fields, UnitState
<1>5. Todo(u) = IF t \in Steps THEN <<t>> \o Todo(v) ELSE Todo(v)
  BY <1>1, <1>2, TodoShrinks
<1>6. PICK b : b = Todo(v)
  OBVIOUS
<1>7. PICK s : s = Todo(u)
  OBVIOUS
<1>8. b \in Seq(Task) /\ s \in Seq(Task)
  BY <1>3, <1>6, <1>7, TodoType
<1>9. ASSUME t \in Steps PROVE s # <<>> /\ Head(s) = t /\ Tail(s) = b
  <2>1. s = <<t>> \o b
    BY <1>5, <1>6, <1>7, <1>9
  <2>. QED  BY <2>1, <1>3, <1>8, FirstOfOne
<1>. QED  BY <1>1, <1>2, <1>3, <1>4, <1>5, <1>6, <1>7, <1>9

\* First and other elements of short sequences.
LEMMA HeadsOfFew ==
    ASSUME NEW x, NEW y
    PROVE  /\ Head(<<x>>) = x /\ Tail(<<x>>) = <<>>
           /\ Head(<<x, y>>) = x /\ Tail(<<x, y>>) = <<y>>
OBVIOUS

\* Who can be learning a source.
LEMMA WhoLearnsSource ==
    ASSUME NEW u, InSession(u), u.learnsSource # None
    PROVE  LearnsOneSource(u) \/ LearnsSourceOfOne(u)
<1>1. ~Rests(u) /\ ~OneSourceEnds(u) /\ ~LearnsOneTarget(u) /\ ~Filters(u) /\ ~FilterEnds(u)
  BY DEF Rests, OneSourceEnds, LearnsOneTarget, Filters, FilterEnds, Nothing, OnlyTarget, OnlyFilter
<1>2. ~SourceOfOneEnds(u) /\ ~SourceOfOneLearned(u) /\ ~LearnsTargetOfOne(u) /\ ~TargetOfOneEnds(u)
  BY DEF SourceOfOneEnds, SourceOfOneLearned, LearnsTargetOfOne, TargetOfOneEnds, BetweenTwo
<1>3. ~ManyGoesOn(u) /\ ~ManyStops(u) /\ ~ManyStopped(u)
  BY DEF ManyGoesOn, BetweenTwo, ManyStops, ManyStopped, Nothing
<1>. QED  BY <1>1, <1>2, <1>3 DEF InSession

\* While a source is learned, its end would be told.
LEMMA SourceEnds ==
    ASSUME NEW u \in UnitState, LearnsOneSource(u) \/ LearnsSourceOfOne(u)
    PROVE  End(u, "learnsSource", None) = <<Notify("learnsSource")>>
<1>1. u.learnsSource # None
  BY DEF LearnsOneSource, OnlySource, LearnsSourceOfOne, CapturesOne
<1>2. ObserversOf(u, "learnsSource") # <<>>
  <2>1. CASE LearnsOneSource(u)
    <3>1. u.observers = <<Capture(FALSE, TRUE, {})>>
      BY <2>1 DEF LearnsOneSource
    <3>2. {} \in SUBSET Sources
      OBVIOUS
    <3>. QED  BY <3>1, <3>2, CaptureIsTold
  <2>2. CASE LearnsSourceOfOne(u)
    <3>1. u.many \in Mappings
      BY <2>2 DEF LearnsSourceOfOne, CapturesOne, UnitState, Numbers
    <3>2. \/ u.observers \in MainCapturing(u.many)
          \/ \E ignored \in SUBSET Sources : u.observers \in ControllerCapturing(ignored)
      BY <2>2 DEF LearnsSourceOfOne, CapturesOne
    <3>. QED  BY <3>1, <3>2, MainIsTold, ControllerIsTold
  <2>. QED  BY <2>1, <2>2
<1>. QED  BY <1>1, <1>2 DEF End

\* Nothing is before a single element.
LEMMA NothingBefore == ASSUME NEW x PROVE <<>> \o <<x>> = <<x>>
<1>1. <<x>> \in Seq({x})
  OBVIOUS
<1>2. PICK s : s = <<x>>
  OBVIOUS
<1>3. <<>> \o s = s
  BY <1>1, <1>2, AddingNothing
<1>. QED  BY <1>2, <1>3

\* A captured message is learned.
LEMMA LearnInSession ==
    ASSUME NEW u, Sound(u), NEW source \in Sources, NEW c, NEW p, NEW m, SessionInv(u, c, p, m)
    PROVE  LET v == LearnSource(u, source)
           IN  SessionInv(v, c, p, m) /\ ManyStep(u, v, p)
<1>1. PICK v : v = LearnSource(u, source)
  OBVIOUS
<1>2. CASE u.learnsSource = None
  <2>1. v = u
    BY <1>1, <1>2, LearnSourceDoes
  <2>. QED  BY <1>1, <2>1, SameMany
<1>3. CASE u.learnsSource # None
  <2>1. PICK l : l = u.learnsSource
    OBVIOUS
  <2>2. /\ v.learnsSource = None
        /\ v.mappings = IF l \in Present(u) THEN [u.mappings EXCEPT ![l].source = source] ELSE u.mappings
        /\ Todo(v) = Todo(u) \o End(u, "learnsSource", None)
        /\ Keeps(u, v, {"learnsSource", "mappings", "tasks"})
    BY <1>1, <1>3, <2>1, LearnSourceDoes
  <2>3. /\ v.learnsTarget = u.learnsTarget /\ v.many = u.many /\ v.step = u.step
        /\ v.filter = u.filter /\ v.observers = u.observers
        /\ v.futures = u.futures /\ v.surfaceTasks = u.surfaceTasks /\ v.mainTasks = u.mainTasks
    BY <2>2 DEF Keeps, Fields
  <2>4. LearnsOneSource(u) \/ LearnsSourceOfOne(u)
    BY <1>3, WhoLearnsSource DEF SessionInv
  <2>5. u.learnsTarget = None /\ Todo(u) = <<>>
    BY <2>4 DEF LearnsOneSource, OnlySource, LearnsSourceOfOne, CapturesOne
  <2>6. u \in UnitState /\ u.mappings \in [Mappings -> MappingState]
    BY DEF Sound, UnitState
  <2>7. Todo(v) = <<Notify("learnsSource")>>
    BY <2>2, <2>4, <2>5, <2>6, SourceEnds, NothingBefore
  <2>8. InSession(v)
    <3>1. CASE LearnsOneSource(u)
      <4>1. OneSourceEnds(v)
        BY <3>1, <2>2, <2>3, <2>7 DEF LearnsOneSource, OneSourceEnds, OnlySource, Nothing
      <4>. QED  BY <4>1 DEF InSession
    <3>2. CASE LearnsSourceOfOne(u)
      <4>1. CapturesOne(v)
        BY <3>2, <2>2, <2>3 DEF LearnsSourceOfOne, CapturesOne
      <4>2. SourceOfOneEnds(v)
        BY <4>1, <2>2, <2>7 DEF SourceOfOneEnds
      <4>. QED  BY <4>2 DEF InSession
    <3>. QED  BY <3>1, <3>2, <2>4
  <2>9. SourceIsKept(v)
    <3>1. CASE u.many = None
      BY <3>1, <2>3 DEF SourceIsKept
    <3>2. CASE u.many # None
      <4>1. u.many = l /\ l \in Mappings /\ u.mappings[l].is # "fresh"
        <5>1. LearnsSourceOfOne(u)
          BY <3>2, <2>4 DEF LearnsOneSource, OnlySource
        <5>2. u.many \in Mappings
          BY <3>2, <2>6 DEF UnitState, Numbers
        <5>. QED  BY <3>2, <5>1, <5>2, <2>1 DEF LearnsSourceOfOne, SessionInv, SourceIsKept
      <4>2. source # NoSource
        BY LearningAssumption
      <4>3. CASE l \in Present(u)
        <5>1. v.mappings[l].source = source /\ v.mappings[l].is = u.mappings[l].is
          BY <4>1, <4>3, <2>2, <2>6 DEF MappingState
        <5>. QED  BY <4>1, <4>2, <5>1, <2>3 DEF SourceIsKept
      <4>4. CASE l \notin Present(u)
        <5>1. v.mappings = u.mappings
          BY <4>4, <2>2
        <5>2. u.mappings[l].is = "removed"
          BY <4>1, <4>4, <2>6 DEF Present, MappingState
        <5>. QED  BY <4>1, <5>1, <5>2, <2>3 DEF SourceIsKept
      <4>. QED  BY <4>3, <4>4
    <3>. QED  BY <3>1, <3>2
  <2>10. TargetsInv(v, c, p)
    <3>1. NeedsQuiet(u, p)
      BY <1>3 DEF NeedsQuiet
    <3>. QED  BY <3>1, <2>3, TargetsKept DEF SessionInv
  <2>11. ModeInv(v, m)
    BY <1>3, <2>3, <2>5 DEF SessionInv, ModeInv
  <2>. QED  BY <1>1, <2>3, <2>8, <2>9, <2>10, <2>11, SameMany DEF SessionInv
<1>. QED  BY <1>2, <1>3

------------------------------------------------------------------------------
(* Notifications and triggered reactions.                                  *)

\* Fields that don't change when a closure is taken.
LEMMA TakenKeeps ==
    ASSUME NEW u, NEW v, Keeps(u, v, {"tasks"})
    PROVE  /\ v.mappings = u.mappings /\ v.learnsSource = u.learnsSource
           /\ v.learnsTarget = u.learnsTarget /\ v.many = u.many /\ v.step = u.step
           /\ v.filter = u.filter /\ v.observers = u.observers
           /\ v.futures = u.futures /\ v.surfaceTasks = u.surfaceTasks /\ v.mainTasks = u.mainTasks
BY DEF Keeps, Fields

\* What a notification keeps, field by field.
LEMMA ToldKeepsFields ==
    ASSUME NEW u, NEW v, Keeps(u, v, {"observers", "mainTasks", "tasks"})
    PROVE  /\ v.mappings = u.mappings /\ v.learnsSource = u.learnsSource
           /\ v.learnsTarget = u.learnsTarget /\ v.many = u.many /\ v.step = u.step
           /\ v.filter = u.filter
BY DEF Keeps, Fields

\* There are two compartments.
LEMMA CompartmentOf == ASSUME NEW m \in Mappings PROVE Compartment[m] \in {"Controller", "Main"}
BY LearningAssumption DEF Compartments

\* A capture that has ended is gone.
LEMMA CaptureEnds ==
    ASSUME NEW u \in UnitState, Nothing(u), Todo(u) = <<>>,
           NEW f \in BOOLEAN, NEW r \in BOOLEAN, NEW ignored \in SUBSET Sources,
           u.observers = <<Capture(f, r, ignored)>>,
           NEW p \in Property, p = IF f THEN "filter" ELSE "learnsSource"
    PROVE  Rests(NotifyStopped(u, p))
<1>1. PICK v : v = NotifyStopped(u, p)
  OBVIOUS
<1>2. /\ v.observers = Without(u, p, {"afterMapping"})
      /\ Selection(ObserversOf(u, p), Triggers) = <<>> => Todo(v) = Todo(u)
      /\ Keeps(u, v, {"observers", "mainTasks", "tasks"})
  BY <1>1, StoppedDoes
<1>3. v.observers = <<>> /\ Todo(v) = <<>>
  <2>1. /\ Selection(ObserversOf(u, p), Triggers) = <<>>
        /\ Without(u, p, {"afterMapping"}) = <<>>
    BY CaptureIsTold, ZenonT(60)
  <2>. QED  BY <1>2, <2>1
<1>4. Nothing(v)
  BY <1>2, ToldKeepsFields DEF Nothing
<1>. QED  BY <1>1, <1>3, <1>4 DEF Rests

\* Nobody cares that learning a target has ended after "learn many" was stopped.
LEMMA NobodyCares ==
    ASSUME NEW u \in UnitState, Nothing(u), Todo(u) = <<>>, u.observers = <<>>
    PROVE  Rests(NotifyStopped(u, "learnsTarget"))
<1>1. PICK p : p = "learnsTarget"
  OBVIOUS
<1>2. PICK v : v = NotifyStopped(u, p)
  OBVIOUS
<1>3. p \in Property
  BY <1>1 DEF Property
<1>4. /\ v.observers = Without(u, p, {"afterMapping"})
      /\ Selection(ObserversOf(u, p), Triggers) = <<>> => Todo(v) = Todo(u)
      /\ Keeps(u, v, {"observers", "mainTasks", "tasks"})
  BY <1>2, <1>3, StoppedDoes
<1>5. v.observers = <<>> /\ Todo(v) = <<>>
  BY <1>4, NobodyIsTold
<1>6. Nothing(v)
  BY <1>4, ToldKeepsFields DEF Nothing
<1>. QED  BY <1>1, <1>2, <1>5, <1>6 DEF Rests

\* "Learn many": a source was learned, its capture is gone. In the main
\* compartment the target is next, in the other one the next mapping.
LEMMA SourceOfOneGoesOn ==
    ASSUME NEW u0, NEW u \in UnitState, Keeps(u0, u, {"tasks"}), SourceOfOneEnds(u0), Todo(u) = <<>>
    PROVE  LET v == NotifyStopped(u, "learnsSource")
           IN  /\ SourceOfOneLearned(v) \/ ManyGoesOn(v)
               /\ v.mainTasks = u.mainTasks
<1>1. /\ u.learnsSource = u0.learnsSource /\ u.learnsTarget = u0.learnsTarget
      /\ u.many = u0.many /\ u.step = u0.step /\ u.filter = u0.filter /\ u.observers = u0.observers
  BY TakenKeeps
<1>2. PICK m : m = u.many
  OBVIOUS
<1>3. m \in Mappings /\ m # None
  BY <1>1, <1>2 DEF SourceOfOneEnds, CapturesOne, UnitState, Numbers
<1>4. PICK p : p = "learnsSource"
  OBVIOUS
<1>5. p \in Property
  BY <1>4 DEF Property
<1>6. PICK v : v = NotifyStopped(u, p)
  OBVIOUS
<1>7. PICK triggered : triggered = Selection(ObserversOf(u, p), Triggers)
  OBVIOUS
<1>8. /\ v.observers = Without(u, p, {"afterMapping"})
      /\ \A o \in Triggers : triggered = <<o>> => Todo(v) = Append(Todo(u), Reaction(o))
      /\ Selection(ObserversOf(u, p), Reenabling) = <<>> => v.mainTasks = u.mainTasks
      /\ Keeps(u, v, {"observers", "mainTasks", "tasks"})
  BY <1>5, <1>6, <1>7, StoppedDoes DEF Reenabling
<1>9. /\ v.learnsSource = None /\ v.learnsTarget = None
      /\ v.many = m /\ v.step = "source" /\ ~v.filter
  BY <1>1, <1>2, <1>8, ToldKeepsFields DEF SourceOfOneEnds, CapturesOne
<1>10. \A x : Append(<<>>, x) = <<x>>
  OBVIOUS
<1>11. CASE Compartment[m] = "Main"
  <2>1. u.observers \in MainCapturing(m)
    BY <1>1, <1>2, <1>11 DEF SourceOfOneEnds, CapturesOne
  <2>2. /\ triggered = <<AfterSource(m)>>
        /\ Selection(ObserversOf(u, p), Reenabling) = <<>>
        /\ Without(u, p, {"afterMapping"}) = <<AfterMapping("Main")>>
    BY <1>3, <1>4, <1>7, <2>1, MainIsTold
  <2>3. AfterSource(m) \in Triggers /\ Reaction(AfterSource(m)) = [do |-> "learnTarget", mapping |-> m]
    BY <1>3, AfterSourceIs
  <2>4. Todo(v) = <<[do |-> "learnTarget", mapping |-> m]>>
    BY <1>8, <1>10, <2>2, <2>3
  <2>5. BetweenTwo(v)
    BY <1>3, <1>8, <1>9, <1>11, <2>2 DEF BetweenTwo
  <2>6. SourceOfOneLearned(v)
    BY <1>9, <1>11, <2>4, <2>5 DEF SourceOfOneLearned
  <2>. QED  BY <1>4, <1>6, <1>8, <2>2, <2>6
<1>12. CASE Compartment[m] = "Controller"
  <2>1. PICK ignored \in SUBSET Sources : u.observers \in ControllerCapturing(ignored)
    BY <1>1, <1>2, <1>12 DEF SourceOfOneEnds, CapturesOne
  <2>2. /\ triggered = <<AfterMapping("Controller")>>
        /\ Selection(ObserversOf(u, p), Reenabling) = <<>>
        /\ Without(u, p, {"afterMapping"}) = <<AfterMapping("Controller")>>
    BY <1>4, <1>7, <2>1, ControllerIsTold
  <2>3. /\ AfterMapping("Controller") \in Triggers
        /\ Reaction(AfterMapping("Controller")) = [do |-> "addMapping", compartment |-> "Controller"]
    BY AfterMappingIs DEF Compartments
  <2>4. Todo(v) = <<[do |-> "addMapping", compartment |-> "Controller"]>>
    BY <1>8, <1>10, <2>2, <2>3
  <2>5. BetweenTwo(v)
    BY <1>3, <1>8, <1>9, <1>12, <2>2 DEF BetweenTwo
  <2>6. ManyGoesOn(v)
    BY <1>9, <1>12, <2>4, <2>5 DEF ManyGoesOn
  <2>. QED  BY <1>4, <1>6, <1>8, <2>2, <2>6
<1>. QED  BY <1>3, <1>11, <1>12, CompartmentOf

\* "Learn many": a target was learned, the next mapping follows.
LEMMA TargetOfOneGoesOn ==
    ASSUME NEW u0, NEW u \in UnitState, Keeps(u0, u, {"tasks"}), TargetOfOneEnds(u0), Todo(u) = <<>>
    PROVE  LET v == NotifyStopped(u, "learnsTarget")
           IN  ManyGoesOn(v) /\ v.mainTasks = u.mainTasks
<1>1. /\ u.learnsSource = u0.learnsSource /\ u.learnsTarget = u0.learnsTarget
      /\ u.many = u0.many /\ u.step = u0.step /\ u.filter = u0.filter /\ u.observers = u0.observers
  BY TakenKeeps
<1>2. PICK p : p = "learnsTarget"
  OBVIOUS
<1>3. p \in Property
  BY <1>2 DEF Property
<1>4. PICK v : v = NotifyStopped(u, p)
  OBVIOUS
<1>5. PICK triggered : triggered = Selection(ObserversOf(u, p), Triggers)
  OBVIOUS
<1>6. /\ v.observers = Without(u, p, {"afterMapping"})
      /\ \A o \in Triggers : triggered = <<o>> => Todo(v) = Append(Todo(u), Reaction(o))
      /\ Selection(ObserversOf(u, p), Reenabling) = <<>> => v.mainTasks = u.mainTasks
      /\ Keeps(u, v, {"observers", "mainTasks", "tasks"})
  BY <1>3, <1>4, <1>5, StoppedDoes DEF Reenabling
<1>7. Compartment[u.many] = "Main" /\ u.observers = <<AfterMapping("Main")>>
  BY <1>1 DEF TargetOfOneEnds, BetweenTwo
<1>8. /\ v.many # None /\ v.learnsSource = None /\ v.learnsTarget = None
      /\ v.many = u.many /\ v.step = "target" /\ ~v.filter
  BY <1>1, <1>6, ToldKeepsFields DEF TargetOfOneEnds, BetweenTwo
<1>9. /\ triggered = <<AfterMapping("Main")>>
      /\ Selection(ObserversOf(u, p), Reenabling) = <<>>
      /\ Without(u, p, {"afterMapping"}) = <<AfterMapping("Main")>>
  BY <1>2, <1>5, <1>7, TriggerIsTold
<1>10. /\ AfterMapping("Main") \in Triggers
       /\ Reaction(AfterMapping("Main")) = [do |-> "addMapping", compartment |-> "Main"]
  BY AfterMappingIs DEF Compartments
<1>11. \A x : Append(<<>>, x) = <<x>>
  OBVIOUS
<1>12. Todo(v) = <<[do |-> "addMapping", compartment |-> "Main"]>>
  BY <1>6, <1>9, <1>10, <1>11
<1>13. BetweenTwo(v)
  BY <1>6, <1>7, <1>8, <1>9 DEF BetweenTwo
<1>14. ManyGoesOn(v)
  BY <1>7, <1>8, <1>12, <1>13 DEF ManyGoesOn
<1>. QED  BY <1>2, <1>4, <1>6, <1>9, <1>14

\* "Learn many" was stopped: its triggers are gone.
LEMMA ManyIsStopped ==
    ASSUME NEW u0, NEW u \in UnitState, Keeps(u0, u, {"tasks"}), ManyStops(u0),
           Todo(u) = Tail(Todo(u0))
    PROVE  LET v == NotifyManyStopped(u)
           IN  ManyStopped(v) /\ v.mainTasks = u.mainTasks
<1>1. /\ u.learnsSource = u0.learnsSource /\ u.learnsTarget = u0.learnsTarget
      /\ u.many = u0.many /\ u.filter = u0.filter /\ u.observers = u0.observers
  BY TakenKeeps
<1>2. PICK v : v = NotifyManyStopped(u)
  OBVIOUS
<1>3. /\ v.observers = Without(u, "many", {})
      /\ Todo(v) = Todo(u)
      /\ Keeps(u, v, {"observers"})
  BY <1>2, ManyStoppedDoes
<1>4. /\ v.learnsSource = u.learnsSource /\ v.learnsTarget = u.learnsTarget
      /\ v.many = u.many /\ v.filter = u.filter /\ v.mainTasks = u.mainTasks
  BY <1>3 DEF Keeps, Fields
<1>5. Nothing(v)
  BY <1>1, <1>4 DEF ManyStops, Nothing
<1>6. CASE \E m \in Mappings : u.observers \in MainCapturing(m)
  <2>1. v.observers = <<Capture(FALSE, FALSE, {})>>
    BY <1>3, <1>6, MainIsTold
  <2>2. Todo(v) = <<Notify("learnsSource")>>
    <3>1. u0.observers # <<AfterMapping("Main")>>
      <4>1. \A m : <<AfterMapping("Main")>> \notin MainCapturing(m)
        BY DEF MainCapturing
      <4>. QED  BY <4>1, <1>1, <1>6
    <3>2. Todo(u0) = <<Notify("many"), Notify("learnsSource")>>
      BY <3>1 DEF ManyStops
    <3>. QED  BY <3>2, <1>3, HeadsOfFew
  <2>3. {} \in SUBSET Sources
    OBVIOUS
  <2>. QED  BY <1>2, <1>4, <1>5, <2>1, <2>2, <2>3 DEF ManyStopped
<1>7. CASE \E ignored \in SUBSET Sources : u.observers \in ControllerCapturing(ignored)
  <2>1. \E ignored \in SUBSET Sources : v.observers = <<Capture(FALSE, FALSE, ignored)>>
    BY <1>3, <1>7, ControllerIsTold
  <2>2. Todo(v) = <<Notify("learnsSource")>>
    <3>1. u0.observers # <<AfterMapping("Main")>>
      <4>1. \A ignored : <<AfterMapping("Main")>> \notin ControllerCapturing(ignored)
        BY DEF ControllerCapturing
      <4>. QED  BY <4>1, <1>1, <1>7
    <3>2. Todo(u0) = <<Notify("many"), Notify("learnsSource")>>
      BY <3>1 DEF ManyStops
    <3>. QED  BY <3>2, <1>3, HeadsOfFew
  <2>. QED  BY <1>2, <1>4, <1>5, <2>1, <2>2 DEF ManyStopped
<1>8. CASE u.observers = <<AfterMapping("Main")>> /\ Todo(u0) = <<Notify("many"), Notify("learnsTarget")>>
  <2>1. v.observers = <<>>
    BY <1>3, <1>8, TriggerIsTold
  <2>2. Todo(v) = <<Notify("learnsTarget")>>
    BY <1>3, <1>8, HeadsOfFew
  <2>. QED  BY <1>2, <1>4, <1>5, <2>1, <2>2 DEF ManyStopped
<1>. QED  BY <1>1, <1>6, <1>7, <1>8 DEF ManyStops

\* What a closure does.
LEMMA ClosuresDo ==
    ASSUME NEW w
    PROVE  /\ Do(Notify("many"), w) = NotifyManyStopped(w)
           /\ \A p : p # "many" => Do(Notify(p), w) = NotifyStopped(w, p)
           /\ \A s : Do([do |-> "learn", source |-> s], w) = LearnSource(w, s)
           /\ \A n : Do([do |-> "learnTarget", mapping |-> n], w) = LearnTargetOfOneOfMany(w, n)
           /\ \A c : Do([do |-> "addMapping", compartment |-> c], w) = AddAndLearnOneOfManyMappings(w, c)
BY DEF Do, Notify

\* The old mapping is finished, the session goes on with another one or with
\* the other step.
LEMMA MappingIsFinished ==
    ASSUME NEW u \in UnitState, NEW v, SourceIsKept(u), u.many # None, u.learnsSource = None,
           v.mappings[u.many] = u.mappings[u.many]
    PROVE  u.many \notin Present(v) \/ v.mappings[u.many].source # NoSource
BY DEF SourceIsKept, Present

\* "Learn many": the target is next.
LEMMA LearnTargetInSession ==
    ASSUME NEW u, Sound(u), FreeFutures(u) # {}, NEW c, NEW m,
           SourceIsKept(u), TargetsInv(u, c, "tasks"), ModeInv(u, m),
           BetweenTwo(u), u.learnsTarget = None, u.step = "source", Compartment[u.many] = "Main",
           Todo(u) = <<>>
    PROVE  LET v == LearnTargetOfOneOfMany(u, u.many)
           IN  SessionInv(v, c, "tasks", m) /\ ManyStep(u, v, "tasks")
<1>1. PICK n : n = u.many
  OBVIOUS
<1>2. u \in UnitState
  BY DEF Sound
<1>3. n \in Mappings /\ n # None /\ u.learnsSource = None /\ ~u.filter
      /\ u.observers = <<AfterMapping("Main")>>
  BY <1>1, <1>2 DEF BetweenTwo, UnitState, Numbers
<1>4. PICK a : a = [u EXCEPT !.many = n, !.step = "target"]
  OBVIOUS
<1>5. /\ a.many = n /\ a.step = "target"
      /\ a.mappings = u.mappings /\ a.learnsSource = u.learnsSource
      /\ a.learnsTarget = u.learnsTarget /\ a.filter = u.filter /\ a.observers = u.observers
      /\ a.tasks = u.tasks
      /\ a.futures = u.futures /\ a.surfaceTasks = u.surfaceTasks /\ a.mainTasks = u.mainTasks
  BY <1>2, <1>4 DEF UnitState
<1>6. Sound(a)
  <2>1. a \in UnitState
    BY <1>2, <1>3, <1>4 DEF UnitState, Numbers
  <2>2. CapturesEnd(a)
    BY <1>5 DEF Sound, CapturesEnd, WillEnd
  <2>. QED  BY <2>1, <2>2 DEF Sound
<1>7. FreeFutures(a) # {} /\ Todo(a) = Todo(u)
  BY <1>5 DEF FreeFutures, Todo
<1>8. PICK v : v = StartLearningTargetInternal(a, n, FALSE)
  OBVIOUS
<1>9. v = LearnTargetOfOneOfMany(u, u.many)
  BY <1>1, <1>4, <1>8 DEF LearnTargetOfOneOfMany
<1>10. /\ v.learnsTarget = n
       /\ \E f \in FreeFutures(a) : v.futures = [a.futures EXCEPT ![f].is = "spawned"]
       /\ v.mainTasks = a.mainTasks
       /\ Todo(v) = Todo(a)
       /\ Keeps(a, v, {"learnsTarget", "futures", "mainTasks"})
  <2>1. LET w == StartLearningTargetInternal(a, n, FALSE)
        IN  /\ Sound(w)
            /\ w.learnsTarget = n
            /\ \E f \in FreeFutures(a) : w.futures = [a.futures EXCEPT ![f].is = "spawned"]
            /\ w.mainTasks = IF FALSE THEN Append(a.mainTasks, "DisableControl") ELSE a.mainTasks
            /\ Todo(w) = Todo(a)
            /\ Keeps(a, w, {"learnsTarget", "futures", "mainTasks"})
    BY <1>3, <1>6, <1>7, StartTargetDoes, Zenon
  <2>. QED  BY <1>8, <2>1
<1>11. /\ v.many = n /\ v.step = "target" /\ v.learnsSource = None /\ ~v.filter
       /\ v.observers = u.observers /\ v.mappings = u.mappings /\ v.mainTasks = u.mainTasks
  BY <1>3, <1>5, <1>10 DEF Keeps, Fields
<1>12. InSession(v)
  <2>1. BetweenTwo(v)
    BY <1>1, <1>3, <1>11 DEF BetweenTwo
  <2>2. LearnsTargetOfOne(v)
    BY <1>1, <1>7, <1>10, <1>11, <2>1 DEF LearnsTargetOfOne
  <2>. QED  BY <2>2 DEF InSession
<1>13. SourceIsKept(v)
  BY <1>1, <1>3, <1>11 DEF SourceIsKept
<1>14. TargetsInv(v, c, "tasks")
  <2>1. NoTouches(u)
    BY <1>1, <1>3 DEF TargetsInv, NeedsQuiet, Quiet
  <2>2. PICK f \in Futures : v.futures = [u.futures EXCEPT ![f].is = "spawned"]
    BY <1>5, <1>10 DEF FreeFutures
  <2>3. u.futures \in [Futures -> Future]
    BY <1>2 DEF UnitState
  <2>4. v.futures[f].is = "spawned"
    BY <2>2, <2>3 DEF Future
  <2>5. \A g \in Futures : v.futures[g].channel = u.futures[g].channel
    BY <2>2, <2>3 DEF Future
  <2>6. ~NoneSpawned(v) /\ NoTouches(v)
    BY <2>1, <2>4, <2>5 DEF NoneSpawned, NoTouches
  <2>7. ~NeedsQuiet(v, "tasks")
    BY <1>3, <1>10, <1>11 DEF NeedsQuiet
  <2>. QED  BY <1>3, <1>10, <2>6, <2>7 DEF TargetsInv
<1>15. ModeInv(v, m)
  BY <1>1, <1>3, <1>11 DEF ModeInv
<1>16. ManyStep(u, v, "tasks")
  <2>1. u.many \notin Present(v) \/ v.mappings[u.many].source # NoSource
    BY <1>1, <1>2, <1>3, <1>11, MappingIsFinished
  <2>. QED  BY <1>1, <1>3, <1>11, <2>1 DEF ManyStep
<1>. QED  BY <1>9, <1>12, <1>13, <1>14, <1>15, <1>16 DEF SessionInv

\* A fresh mapping has no source yet.
LEMMA FreshHasNoSource ==
    ASSUME NEW u, NEW v, NEW c, NEW n,
           v.mappings[n].source = NoSource,
           \A o \in Mappings \ {n} : v.mappings[o] = u.mappings[o]
    PROVE  LearnedSources(v, c) \subseteq LearnedSources(u, c)
<1>1. ASSUME NEW o \in Present(v), Compartment[o] = c, v.mappings[o].source # NoSource
      PROVE  o \in Present(u) /\ u.mappings[o].source = v.mappings[o].source
  BY <1>1 DEF Present
<1>. QED  BY <1>1 DEF LearnedSources

\* "Learn many": the next mapping.
LEMMA AddMappingInSession ==
    ASSUME NEW u, Sound(u), HasNumbers(u), NEW c, NEW m,
           SourceIsKept(u), TargetsInv(u, c, "tasks"),
           BetweenTwo(u), u.learnsTarget = None, Todo(u) = <<>>,
           u.step = IF Compartment[u.many] = "Main" THEN "target" ELSE "source"
    PROVE  LET v == AddAndLearnOneOfManyMappings(u, Compartment[u.many])
           IN  SessionInv(v, c, "tasks", m) /\ ManyStep(u, v, "tasks")
<1>1. PICK old : old = u.many
  OBVIOUS
<1>2. u \in UnitState
  BY DEF Sound
<1>3. old \in Mappings /\ old # None /\ u.learnsSource = None /\ ~u.filter
      /\ u.observers = <<AfterMapping(Compartment[old])>>
  BY <1>1, <1>2 DEF BetweenTwo, UnitState, Numbers
<1>4. PICK k : k = Compartment[old]
  OBVIOUS
<1>5. k \in Compartments /\ k \in {"Controller", "Main"}
  BY <1>3, <1>4, CompartmentOf DEF Compartments
<1>6. FreshMappings(u, k) # {}
  BY <1>5 DEF HasNumbers
<1>7. PICK v : v = AddAndLearnOneOfManyMappings(u, k)
  OBVIOUS
<1>8. PICK n : n = v.many
  OBVIOUS
<1>9. /\ n \in FreshMappings(u, k)
      /\ v.mappings = [u.mappings EXCEPT ![n].is = "present"]
      /\ v.step = "source" /\ v.learnsSource = n
      /\ v.observers =
            IF k = "Main"
            THEN Append(Append(u.observers, Capture(FALSE, FALSE, {})), AfterSource(n))
            ELSE Append(u.observers, Capture(FALSE, FALSE, LearnedSources(u, k)))
      /\ v.mainTasks = Append(u.mainTasks, "StartLearnSource")
      /\ Todo(v) = Todo(u)
      /\ Keeps(u, v, {"mappings", "many", "step", "learnsSource", "observers", "mainTasks"})
  <2>1. LET w == AddAndLearnOneOfManyMappings(u, k)
        IN  /\ Sound(w)
            /\ w.many \in FreshMappings(u, k)
            /\ w.mappings = [u.mappings EXCEPT ![w.many].is = "present"]
            /\ w.step = "source"
            /\ w.learnsSource = w.many
            /\ w.observers =
                    IF k = "Main"
                    THEN Append(Append(u.observers, Capture(FALSE, FALSE, {})), AfterSource(w.many))
                    ELSE Append(u.observers, Capture(FALSE, FALSE, LearnedSources(u, k)))
            /\ w.mainTasks = Append(u.mainTasks, "StartLearnSource")
            /\ Todo(w) = Todo(u)
            /\ Keeps(u, w, {"mappings", "many", "step", "learnsSource", "observers", "mainTasks"})
    BY <1>5, <1>6, AddOneDoes, Zenon
  <2>. QED  BY <1>7, <1>8, <2>1
<1>10. n \in Mappings /\ n # None /\ Compartment[n] = k /\ u.mappings[n].is = "fresh"
  <2>1. n \in Mappings /\ Compartment[n] = k /\ u.mappings[n] = Fresh
    BY <1>9 DEF FreshMappings
  <2>. QED  BY <2>1, LearningAssumption DEF Fresh
<1>11. n # old
  BY <1>1, <1>3, <1>10 DEF SourceIsKept
<1>12. /\ LearnedSources(v, k) \subseteq LearnedSources(u, k)
       /\ v.mappings[n].is = "present"
       /\ v.mappings[old] = u.mappings[old]
  <2>1. u.mappings \in [Mappings -> MappingState] /\ n \in Mappings /\ u.mappings[n] = Fresh
    BY <1>2, <1>9 DEF UnitState, FreshMappings
  <2>2. v.mappings = [u.mappings EXCEPT ![n].is = "present"]
    BY <1>9
  <2>3. v.mappings[n].is = "present" /\ v.mappings[n].source = NoSource
    BY <2>1, <2>2 DEF Fresh
  <2>4. \A o \in Mappings \ {n} : v.mappings[o] = u.mappings[o]
    BY <2>1, <2>2
  <2>5. LearnedSources(v, k) \subseteq LearnedSources(u, k)
    BY <2>3, <2>4, FreshHasNoSource
  <2>. QED  BY <1>3, <1>11, <2>3, <2>4, <2>5
<1>13. /\ v.learnsTarget = u.learnsTarget /\ v.filter = u.filter
       /\ v.futures = u.futures /\ v.surfaceTasks = u.surfaceTasks
  BY <1>9 DEF Keeps, Fields
<1>14. CapturesOne(v)
  <2>1. CASE k = "Main"
    <3>1. v.observers = <<AfterMapping("Main"), Capture(FALSE, FALSE, {}), AfterSource(n)>>
      <4>1. PICK t : t = AfterMapping("Main")
        OBVIOUS
      <4>2. PICK a : a = Capture(FALSE, FALSE, {})
        OBVIOUS
      <4>3. PICK s : s = AfterSource(n)
        OBVIOUS
      <4>4. Append(<<t>>, a) = <<t, a>>
        BY Pairs
      <4>5. Append(<<t, a>>, s) = <<t, a, s>>
        BY Triples
      <4>6. v.observers = Append(Append(<<t>>, a), s)
        BY <1>3, <1>4, <1>9, <2>1, <4>1, <4>2, <4>3
      <4>. QED  BY <4>1, <4>2, <4>3, <4>4, <4>5, <4>6
    <3>2. v.observers \in MainCapturing(n)
      BY <3>1 DEF MainCapturing
    <3>. QED  BY <1>3, <1>8, <1>9, <1>10, <1>13, <2>1, <3>2 DEF CapturesOne
  <2>2. CASE k = "Controller"
    <3>1. PICK ignored : ignored = LearnedSources(u, k)
      OBVIOUS
    <3>2. ignored \in SUBSET Sources
      BY <1>2, <3>1, LearnedAreSources
    <3>3. v.observers = <<AfterMapping("Controller"), Capture(FALSE, FALSE, ignored)>>
      <4>1. PICK t : t = AfterMapping("Controller")
        OBVIOUS
      <4>2. PICK a : a = Capture(FALSE, FALSE, ignored)
        OBVIOUS
      <4>3. Append(<<t>>, a) = <<t, a>>
        BY Pairs
      <4>4. v.observers = Append(<<t>>, a)
        BY <1>3, <1>4, <1>9, <2>2, <3>1, <4>1, <4>2
      <4>. QED  BY <4>1, <4>2, <4>3, <4>4
    <3>4. v.observers \in ControllerCapturing(ignored)
      BY <3>3 DEF ControllerCapturing
    <3>5. LearnedSources(v, "Controller") \subseteq ignored
      BY <1>12, <2>2, <3>1
    <3>. QED  BY <1>3, <1>8, <1>9, <1>10, <1>13, <2>2, <3>2, <3>4, <3>5 DEF CapturesOne
  <2>. QED  BY <1>5, <2>1, <2>2
<1>15. InSession(v)
  <2>1. LearnsSourceOfOne(v)
    BY <1>8, <1>9, <1>14 DEF LearnsSourceOfOne
  <2>. QED  BY <2>1 DEF InSession
<1>16. SourceIsKept(v)
  BY <1>8, <1>9, <1>10, <1>12 DEF SourceIsKept
<1>17. TargetsInv(v, c, "tasks")
  <2>1. NeedsQuiet(u, "tasks")
    BY <1>1, <1>3 DEF NeedsQuiet
  <2>. QED  BY <1>13, <2>1, TargetsKept
<1>18. ModeInv(v, m)
  <2>1. LastOf(v.mainTasks, m) = "LearningSource"
    <3>1. u.mainTasks \in Seq(MainTask) /\ "StartLearnSource" \in MainTask
      BY <1>2 DEF UnitState, MainTask
    <3>. QED  BY <1>9, <3>1, LastAppended DEF ModeAfter
  <2>. QED  BY <1>13, <2>1 DEF ModeInv
<1>19. ManyStep(u, v, "tasks")
  <2>1. u.many \notin Present(v) \/ v.mappings[u.many].source # NoSource
    BY <1>1, <1>2, <1>3, <1>12, MappingIsFinished
  <2>. QED  BY <1>1, <1>3, <2>1 DEF ManyStep
<1>. QED  BY <1>1, <1>4, <1>7, <1>15, <1>16, <1>17, <1>18, <1>19 DEF SessionInv

\* When something is left to be done.
LEMMA WhatIsLeft ==
    ASSUME NEW u, InSession(u), Todo(u) # <<>>
    PROVE  \/ OneSourceEnds(u) \/ FilterEnds(u)
           \/ SourceOfOneEnds(u) \/ SourceOfOneLearned(u)
           \/ TargetOfOneEnds(u) \/ ManyGoesOn(u)
           \/ ManyStops(u) \/ ManyStopped(u)
BY DEF InSession, Rests, LearnsOneSource, LearnsOneTarget, Filters, LearnsSourceOfOne, LearnsTargetOfOne

\* What is told, or was told, is over.
LEMMA AfterNotification ==
    ASSUME NEW u0, NEW u, NEW v, NEW c, NEW m,
           SessionInv(u0, c, "tasks", m), Keeps(u0, u, {"tasks"}),
           Keeps(u, v, {"observers", "mainTasks", "tasks"}),
           v.mainTasks = u.mainTasks \/ Nothing(u0),
           InSession(v)
    PROVE  SessionInv(v, c, "tasks", m) /\ ManyStep(u0, v, "tasks")
<1>1. Keeps(u0, v, {"observers", "mainTasks", "tasks"})
  BY DEF Keeps
<1>2. v.mainTasks = u0.mainTasks \/ Nothing(u0)
  BY TakenKeeps
<1>3. SourceIsKept(u0) /\ TargetsInv(u0, c, "tasks") /\ ModeInv(u0, m)
  BY DEF SessionInv
<1>4. SourceIsKept(v) /\ TargetsInv(v, c, "tasks") /\ ModeInv(v, m) /\ ManyStep(u0, v, "tasks")
  BY <1>1, <1>2, <1>3, ToldKeeps
<1>. QED  BY <1>4 DEF SessionInv

\* A told end of something that was learned.
LEMMA EndIsTold ==
    ASSUME NEW u0 \in UnitState, NEW c, NEW m, SessionInv(u0, c, "tasks", m),
           u0.tasks # <<>>, NEW p \in Property \ {"many"}, Head(u0.tasks) = Notify(p)
    PROVE  LET v == NotifyStopped(Taken(u0), p)
           IN  SessionInv(v, c, "tasks", m) /\ ManyStep(u0, v, "tasks")
<1>1. PICK u : u = Taken(u0)
  OBVIOUS
<1>2. PICK v : v = NotifyStopped(u, p)
  OBVIOUS
<1>3. Notify(p) \in Steps /\ Notify(p).property = p /\ Notify(p).do = "notify"
  BY DEF Notify, Steps
<1>4. /\ u \in UnitState /\ Keeps(u0, u, {"tasks"})
      /\ Todo(u0) # <<>> /\ Head(Todo(u0)) = Notify(p) /\ Todo(u) = Tail(Todo(u0))
  BY <1>1, <1>3, TakenDoes
<1>5. /\ u.learnsSource = u0.learnsSource /\ u.learnsTarget = u0.learnsTarget
      /\ u.many = u0.many /\ u.filter = u0.filter /\ u.observers = u0.observers
  BY <1>4, TakenKeeps
<1>6. Keeps(u, v, {"observers", "mainTasks", "tasks"})
  BY <1>2, <1>4, StoppedDoes
<1>7. \A q : Todo(u0) = <<Notify(q)>> => p = q /\ Todo(u) = <<>>
  <2>. SUFFICES ASSUME NEW q, Todo(u0) = <<Notify(q)>> PROVE p = q /\ Todo(u) = <<>>
    OBVIOUS
  <2>1. Notify(q) = Notify(p) /\ Todo(u) = <<>>
    BY <1>4, HeadsOfFew
  <2>. QED  BY <2>1 DEF Notify
<1>8. InSession(v) /\ (v.mainTasks = u.mainTasks \/ Nothing(u0))
  <2>1. CASE OneSourceEnds(u0)
    <3>1. Nothing(u) /\ u.observers = <<Capture(FALSE, TRUE, {})>> /\ Nothing(u0)
      BY <1>5, <2>1 DEF OneSourceEnds, Nothing
    <3>2. p = "learnsSource" /\ Todo(u) = <<>> /\ {} \in SUBSET Sources
      BY <1>7, <2>1 DEF OneSourceEnds
    <3>3. Rests(v)
      BY <1>2, <1>4, <3>1, <3>2, CaptureEnds
    <3>. QED  BY <3>1, <3>3 DEF InSession
  <2>2. CASE FilterEnds(u0)
    <3>1. Nothing(u) /\ u.observers = <<Capture(TRUE, TRUE, {})>> /\ Nothing(u0)
      BY <1>5, <2>2 DEF FilterEnds, Nothing
    <3>2. p = "filter" /\ Todo(u) = <<>> /\ {} \in SUBSET Sources
      BY <1>7, <2>2 DEF FilterEnds
    <3>3. Rests(v)
      BY <1>2, <1>4, <3>1, <3>2, CaptureEnds
    <3>. QED  BY <3>1, <3>3 DEF InSession
  <2>3. CASE SourceOfOneEnds(u0)
    <3>1. p = "learnsSource" /\ Todo(u) = <<>>
      BY <1>7, <2>3 DEF SourceOfOneEnds
    <3>2. (SourceOfOneLearned(v) \/ ManyGoesOn(v)) /\ v.mainTasks = u.mainTasks
      BY <1>2, <1>4, <2>3, <3>1, SourceOfOneGoesOn
    <3>. QED  BY <3>2 DEF InSession
  <2>4. CASE TargetOfOneEnds(u0)
    <3>1. p = "learnsTarget" /\ Todo(u) = <<>>
      BY <1>7, <2>4 DEF TargetOfOneEnds
    <3>2. ManyGoesOn(v) /\ v.mainTasks = u.mainTasks
      BY <1>2, <1>4, <2>4, <3>1, TargetOfOneGoesOn
    <3>. QED  BY <3>2 DEF InSession
  <2>5. ~SourceOfOneLearned(u0)
    <3>1. ASSUME SourceOfOneLearned(u0) PROVE FALSE
      <4>1. Notify(p) = [do |-> "learnTarget", mapping |-> u0.many]
        BY <1>4, <3>1, HeadsOfFew DEF SourceOfOneLearned
      <4>. QED  BY <1>3, <4>1
    <3>. QED  BY <3>1
  <2>6. ~ManyGoesOn(u0)
    <3>1. ASSUME ManyGoesOn(u0) PROVE FALSE
      <4>1. Notify(p) = [do |-> "addMapping", compartment |-> Compartment[u0.many]]
        BY <1>4, <3>1, HeadsOfFew DEF ManyGoesOn
      <4>. QED  BY <1>3, <4>1
    <3>. QED  BY <3>1
  <2>7. ~ManyStops(u0)
    <3>1. ASSUME ManyStops(u0) PROVE FALSE
      <4>1. Notify(p) = Notify("many")
        BY <1>4, <3>1, HeadsOfFew DEF ManyStops
      <4>. QED  BY <1>3, <4>1 DEF Notify
    <3>. QED  BY <3>1
  <2>8. CASE ManyStopped(u0)
    <3>1. Nothing(u) /\ Nothing(u0)
      BY <1>5, <2>8 DEF ManyStopped, Nothing
    <3>2. CASE \E ignored \in SUBSET Sources :
                 u0.observers = <<Capture(FALSE, FALSE, ignored)>> /\ Todo(u0) = <<Notify("learnsSource")>>
      <4>1. PICK ignored \in SUBSET Sources : u.observers = <<Capture(FALSE, FALSE, ignored)>>
        BY <1>5, <3>2
      <4>2. p = "learnsSource" /\ Todo(u) = <<>>
        BY <1>7, <3>2
      <4>3. Rests(v)
        BY <1>2, <1>4, <3>1, <4>1, <4>2, CaptureEnds
      <4>. QED  BY <3>1, <4>3 DEF InSession
    <3>3. CASE u0.observers = <<>> /\ Todo(u0) = <<Notify("learnsTarget")>>
      <4>1. p = "learnsTarget" /\ Todo(u) = <<>> /\ u.observers = <<>>
        BY <1>5, <1>7, <3>3
      <4>2. Rests(v)
        BY <1>2, <1>4, <3>1, <4>1, NobodyCares
      <4>. QED  BY <3>1, <4>2 DEF InSession
    <3>. QED  BY <2>8, <3>2, <3>3 DEF ManyStopped
  <2>. QED  BY <1>4, <2>1, <2>2, <2>3, <2>4, <2>5, <2>6, <2>7, <2>8, WhatIsLeft DEF SessionInv
<1>. QED  BY <1>1, <1>2, <1>4, <1>6, <1>8, AfterNotification

\* The told end of "learn many".
LEMMA EndOfManyIsTold ==
    ASSUME NEW u0 \in UnitState, NEW c, NEW m, SessionInv(u0, c, "tasks", m),
           u0.tasks # <<>>, Head(u0.tasks) = Notify("many")
    PROVE  LET v == NotifyManyStopped(Taken(u0))
           IN  SessionInv(v, c, "tasks", m) /\ ManyStep(u0, v, "tasks")
<1>1. PICK u : u = Taken(u0)
  OBVIOUS
<1>2. PICK v : v = NotifyManyStopped(u)
  OBVIOUS
<1>3. Notify("many") \in Steps /\ Notify("many").do = "notify" /\ Notify("many").property = "many"
  BY DEF Notify, Steps, Property
<1>4. /\ u \in UnitState /\ Keeps(u0, u, {"tasks"})
      /\ Todo(u0) # <<>> /\ Head(Todo(u0)) = Notify("many") /\ Todo(u) = Tail(Todo(u0))
  BY <1>1, <1>3, TakenDoes
<1>5. \A q : Todo(u0) = <<Notify(q)>> => q = "many"
  <2>. SUFFICES ASSUME NEW q, Todo(u0) = <<Notify(q)>> PROVE q = "many"
    OBVIOUS
  <2>1. Notify(q) = Notify("many")
    BY <1>4, HeadsOfFew
  <2>. QED  BY <2>1 DEF Notify
<1>6. ManyStops(u0)
  <2>1. ~OneSourceEnds(u0) /\ ~FilterEnds(u0) /\ ~SourceOfOneEnds(u0) /\ ~TargetOfOneEnds(u0)
        /\ ~ManyStopped(u0)
    BY <1>5 DEF OneSourceEnds, FilterEnds, SourceOfOneEnds, TargetOfOneEnds, ManyStopped
  <2>2. ~SourceOfOneLearned(u0)
    <3>1. ASSUME SourceOfOneLearned(u0) PROVE FALSE
      <4>1. Notify("many") = [do |-> "learnTarget", mapping |-> u0.many]
        BY <1>4, <3>1, HeadsOfFew DEF SourceOfOneLearned
      <4>. QED  BY <1>3, <4>1
    <3>. QED  BY <3>1
  <2>3. ~ManyGoesOn(u0)
    <3>1. ASSUME ManyGoesOn(u0) PROVE FALSE
      <4>1. Notify("many") = [do |-> "addMapping", compartment |-> Compartment[u0.many]]
        BY <1>4, <3>1, HeadsOfFew DEF ManyGoesOn
      <4>. QED  BY <1>3, <4>1
    <3>. QED  BY <3>1
  <2>. QED  BY <1>4, <2>1, <2>2, <2>3, WhatIsLeft DEF SessionInv
<1>7. ManyStopped(v) /\ v.mainTasks = u.mainTasks
  BY <1>2, <1>4, <1>6, ManyIsStopped
<1>8. Keeps(u, v, {"observers", "mainTasks", "tasks"})
  <2>1. Keeps(u, v, {"observers"})
    BY <1>2, <1>4, ManyStoppedDoes
  <2>. QED  BY <2>1 DEF Keeps
<1>9. InSession(v)
  BY <1>7 DEF InSession
<1>. QED  BY <1>1, <1>2, <1>4, <1>7, <1>8, <1>9, AfterNotification

\* The next closure.
LEMMA RunTaskInSession ==
    ASSUME NEW u0, Sound(u0), HasNumbers(u0), NEW c, NEW m, Owes(u0, m),
           SessionInv(u0, c, "tasks", m), u0.tasks # <<>>
    PROVE  LET v == Do(Head(u0.tasks), Taken(u0))
           IN  SessionInv(v, c, "tasks", m) /\ ManyStep(u0, v, "tasks")
<1>1. PICK u : u = Taken(u0)
  OBVIOUS
<1>2. PICK t : t = Head(u0.tasks)
  OBVIOUS
<1>3. u0 \in UnitState
  BY DEF Sound
<1>4. PICK v : v = Do(t, u)
  OBVIOUS
<1>5. /\ u \in UnitState /\ t \in Task
      /\ Keeps(u0, u, {"tasks"})
      /\ t \notin Steps => Todo(u) = Todo(u0)
      /\ t \in Steps => Todo(u0) # <<>> /\ t = Head(Todo(u0)) /\ Todo(u) = Tail(Todo(u0))
  BY <1>1, <1>2, <1>3, TakenDoes
<1>6. ASSUME t.do # "notify"
      PROVE  /\ Sound(u) /\ HasNumbers(u)
             /\ SourceIsKept(u) /\ TargetsInv(u, c, "tasks") /\ ModeInv(u, m)
  <2>1. Sound(u) /\ u.mappings = u0.mappings /\ u.futures = u0.futures
    BY <1>1, <1>2, <1>6, TakenIsSound
  <2>2. HasNumbers(u)
    BY <2>1 DEF HasNumbers, FreeFutures, FreshMappings
  <2>3. Keeps(u0, u, {"observers", "mainTasks", "tasks"}) /\ u.mainTasks = u0.mainTasks
    BY <1>5 DEF Keeps, Fields
  <2>4. SourceIsKept(u) /\ TargetsInv(u, c, "tasks") /\ ModeInv(u, m)
    BY <2>3, ToldKeeps DEF SessionInv
  <2>. QED  BY <2>1, <2>2, <2>4
<1>7. /\ u.mappings = u0.mappings /\ u.learnsSource = u0.learnsSource
      /\ u.learnsTarget = u0.learnsTarget /\ u.many = u0.many /\ u.step = u0.step
      /\ u.filter = u0.filter /\ u.observers = u0.observers
  BY <1>5, TakenKeeps
<1>8. ASSUME ManyStep(u, v, "tasks") PROVE ManyStep(u0, v, "tasks")
  BY <1>7, <1>8 DEF ManyStep, Present
<1>9. CASE t \in [do: {"learn"}, source: Sources]
  <2>1. PICK s \in Sources : t = [do |-> "learn", source |-> s]
    BY <1>9
  <2>2. t.do = "learn" /\ t \notin Steps
    BY <2>1 DEF Steps
  <2>3. v = LearnSource(u, s)
    BY <1>4, <2>1, ClosuresDo
  <2>4. SameSession(u0, u)
    BY <1>5, <2>2 DEF SameSession, Keeps
  <2>5. InSession(u)
    BY <2>4, SessionKept DEF SessionInv
  <2>6. Sound(u) /\ SessionInv(u, c, "tasks", m)
    BY <1>6, <2>2, <2>5 DEF SessionInv
  <2>7. SessionInv(v, c, "tasks", m) /\ ManyStep(u, v, "tasks")
    BY <2>3, <2>6, LearnInSession
  <2>. QED  BY <1>1, <1>2, <1>4, <1>8, <2>7
<1>10. CASE t \in [do: {"learnTarget"}, mapping: Mappings]
  <2>1. PICK n \in Mappings : t = [do |-> "learnTarget", mapping |-> n]
    BY <1>10
  <2>2. t.do = "learnTarget" /\ t.mapping = n /\ t \in Steps
    BY <2>1 DEF Steps
  <2>3. \A q : t # Notify(q)
    BY <2>2 DEF Notify
  <2>4. \A k : t # [do |-> "addMapping", compartment |-> k]
    BY <2>2
  <2>5. t = Head(Todo(u0)) /\ Todo(u0) # <<>> /\ Todo(u) = Tail(Todo(u0))
    BY <1>5, <2>2
  <2>6. SourceOfOneLearned(u0)
    <3>1. \A q : Todo(u0) # <<Notify(q)>> /\ \A r : Todo(u0) # <<Notify(q), Notify(r)>>
      BY <2>3, <2>5, HeadsOfFew
    <3>2. \A k : Todo(u0) # <<[do |-> "addMapping", compartment |-> k]>>
      BY <2>4, <2>5, HeadsOfFew
    <3>3. ~OneSourceEnds(u0) /\ ~FilterEnds(u0) /\ ~SourceOfOneEnds(u0) /\ ~TargetOfOneEnds(u0)
      BY <3>1 DEF OneSourceEnds, FilterEnds, SourceOfOneEnds, TargetOfOneEnds
    <3>4. ~ManyGoesOn(u0)
      BY <3>2 DEF ManyGoesOn
    <3>5. ~ManyStops(u0) /\ ~ManyStopped(u0)
      BY <3>1 DEF ManyStops, ManyStopped
    <3>. QED  BY <2>5, <3>3, <3>4, <3>5, WhatIsLeft DEF SessionInv
  <2>7. BetweenTwo(u) /\ u.learnsTarget = None /\ u.step = "source" /\ Compartment[u.many] = "Main"
    BY <1>7, <2>6 DEF SourceOfOneLearned, BetweenTwo
  <2>8. Todo(u) = <<>> /\ n = u.many
    <3>1. Todo(u0) = <<[do |-> "learnTarget", mapping |-> u.many]>>
      BY <1>7, <2>6 DEF SourceOfOneLearned
    <3>2. t = [do |-> "learnTarget", mapping |-> u.many]
      BY <2>5, <3>1, HeadsOfFew
    <3>3. Todo(u) = <<>>
      BY <2>5, <3>1, HeadsOfFew
    <3>. QED  BY <2>2, <3>2, <3>3
  <2>9. v = LearnTargetOfOneOfMany(u, u.many)
    BY <1>4, <2>1, <2>8, ClosuresDo
  <2>10. /\ Sound(u) /\ FreeFutures(u) # {}
         /\ SourceIsKept(u) /\ TargetsInv(u, c, "tasks") /\ ModeInv(u, m)
    BY <1>6, <2>2 DEF HasNumbers
  <2>11. SessionInv(v, c, "tasks", m) /\ ManyStep(u, v, "tasks")
    BY <2>7, <2>8, <2>9, <2>10, LearnTargetInSession
  <2>. QED  BY <1>1, <1>2, <1>4, <1>8, <2>11
<1>11. CASE t \in [do: {"addMapping"}, compartment: Compartments]
  <2>1. PICK k \in Compartments : t = [do |-> "addMapping", compartment |-> k]
    BY <1>11
  <2>2. t.do = "addMapping" /\ t.compartment = k /\ t \in Steps
    BY <2>1 DEF Steps
  <2>3. \A q : t # Notify(q)
    BY <2>2 DEF Notify
  <2>4. \A n : t # [do |-> "learnTarget", mapping |-> n]
    BY <2>2
  <2>5. t = Head(Todo(u0)) /\ Todo(u0) # <<>> /\ Todo(u) = Tail(Todo(u0))
    BY <1>5, <2>2
  <2>6. ManyGoesOn(u0)
    <3>1. \A q : Todo(u0) # <<Notify(q)>> /\ \A r : Todo(u0) # <<Notify(q), Notify(r)>>
      BY <2>3, <2>5, HeadsOfFew
    <3>2. \A n : Todo(u0) # <<[do |-> "learnTarget", mapping |-> n]>>
      BY <2>4, <2>5, HeadsOfFew
    <3>3. ~OneSourceEnds(u0) /\ ~FilterEnds(u0) /\ ~SourceOfOneEnds(u0) /\ ~TargetOfOneEnds(u0)
      BY <3>1 DEF OneSourceEnds, FilterEnds, SourceOfOneEnds, TargetOfOneEnds
    <3>4. ~SourceOfOneLearned(u0)
      BY <3>2 DEF SourceOfOneLearned
    <3>5. ~ManyStops(u0) /\ ~ManyStopped(u0)
      BY <3>1 DEF ManyStops, ManyStopped
    <3>. QED  BY <2>5, <3>3, <3>4, <3>5, WhatIsLeft DEF SessionInv
  <2>7. /\ BetweenTwo(u) /\ u.learnsTarget = None
        /\ u.step = IF Compartment[u.many] = "Main" THEN "target" ELSE "source"
    BY <1>7, <2>6 DEF ManyGoesOn, BetweenTwo
  <2>8. Todo(u) = <<>> /\ k = Compartment[u.many]
    <3>1. Todo(u0) = <<[do |-> "addMapping", compartment |-> Compartment[u.many]]>>
      BY <1>7, <2>6 DEF ManyGoesOn
    <3>2. t = [do |-> "addMapping", compartment |-> Compartment[u.many]]
      BY <2>5, <3>1, HeadsOfFew
    <3>3. Todo(u) = <<>>
      BY <2>5, <3>1, HeadsOfFew
    <3>. QED  BY <2>2, <3>2, <3>3
  <2>9. v = AddAndLearnOneOfManyMappings(u, Compartment[u.many])
    BY <1>4, <2>1, <2>8, ClosuresDo
  <2>10. /\ Sound(u) /\ HasNumbers(u)
         /\ SourceIsKept(u) /\ TargetsInv(u, c, "tasks")
    BY <1>6, <2>2
  <2>11. SessionInv(v, c, "tasks", m) /\ ManyStep(u, v, "tasks")
    BY <2>7, <2>8, <2>9, <2>10, AddMappingInSession
  <2>. QED  BY <1>1, <1>2, <1>4, <1>8, <2>11
<1>12. CASE t \in [do: {"notify"}, property: Property]
  <2>1. PICK p \in Property : t = Notify(p)
    BY <1>12 DEF Notify
  <2>2. CASE p = "many"
    <3>1. v = NotifyManyStopped(Taken(u0))
      BY <1>1, <1>4, <2>1, <2>2, ClosuresDo
    <3>. QED  BY <1>1, <1>2, <1>3, <1>4, <2>1, <2>2, <3>1, EndOfManyIsTold
  <2>3. CASE p # "many"
    <3>1. v = NotifyStopped(Taken(u0), p)
      BY <1>1, <1>4, <2>1, <2>3, ClosuresDo
    <3>. QED  BY <1>1, <1>2, <1>3, <1>4, <2>1, <2>3, <3>1, EndIsTold
  <2>. QED  BY <2>2, <2>3
<1>. QED  BY <1>5, <1>9, <1>10, <1>11, <1>12 DEF Task

------------------------------------------------------------------------------
(* Futures and touched targets.                                            *)

\* Who can be learning a target, and whom its end is told.
LEMMA WhoLearnsTarget ==
    ASSUME NEW u, InSession(u), u.learnsTarget # None
    PROVE  LearnsOneTarget(u) \/ LearnsTargetOfOne(u)
<1>1. ~Rests(u) /\ ~LearnsOneSource(u) /\ ~OneSourceEnds(u) /\ ~Filters(u) /\ ~FilterEnds(u)
  BY DEF Rests, LearnsOneSource, OneSourceEnds, Filters, FilterEnds, Nothing, OnlySource, OnlyFilter
<1>2. /\ ~LearnsSourceOfOne(u) /\ ~SourceOfOneEnds(u) /\ ~SourceOfOneLearned(u)
      /\ ~TargetOfOneEnds(u)
  BY DEF LearnsSourceOfOne, SourceOfOneEnds, CapturesOne, SourceOfOneLearned, TargetOfOneEnds
<1>3. ~ManyGoesOn(u) /\ ~ManyStops(u) /\ ~ManyStopped(u)
  BY DEF ManyGoesOn, ManyStops, ManyStopped, Nothing
<1>. QED  BY <1>1, <1>2, <1>3 DEF InSession

\* Only "learn many" is told that a target was learned.
LEMMA TargetEnds ==
    ASSUME NEW u
    PROVE  /\ u.learnsTarget = None => End(u, "learnsTarget", None) = <<>>
           /\ LearnsOneTarget(u) => End(u, "learnsTarget", None) = <<>>
           /\ LearnsTargetOfOne(u) /\ u.learnsTarget # None =>
                End(u, "learnsTarget", None) = <<Notify("learnsTarget")>>
<1>1. u.learnsTarget = None => End(u, "learnsTarget", None) = <<>>
  BY DEF End
<1>2. ASSUME LearnsOneTarget(u) PROVE End(u, "learnsTarget", None) = <<>>
  <2>1. u.observers = <<>>
    BY <1>2 DEF LearnsOneTarget
  <2>2. ObserversOf(u, "learnsTarget") = <<>>
    BY <2>1, NobodyIsTold
  <2>. QED  BY <2>2 DEF End
<1>3. ASSUME LearnsTargetOfOne(u), u.learnsTarget # None
      PROVE  End(u, "learnsTarget", None) = <<Notify("learnsTarget")>>
  <2>1. u.observers = <<AfterMapping("Main")>>
    BY <1>3 DEF LearnsTargetOfOne, BetweenTwo
  <2>2. ObserversOf(u, "learnsTarget") # <<>>
    BY <2>1, TriggerIsTold
  <2>. QED  BY <1>3, <2>2 DEF End
<1>. QED  BY <1>1, <1>2, <1>3

\* Whatever is captured or touched: what is learned remains.
LEMMA LearnsTheSame ==
    ASSUME NEW u, NEW v, NEW p, NEW m, SameSession(u, v), v.mainTasks = u.mainTasks,
           InSession(u), SourceIsKept(u), ModeInv(u, m)
    PROVE  InSession(v) /\ SourceIsKept(v) /\ ModeInv(v, m) /\ ManyStep(u, v, p)
<1>1. /\ v.mappings = u.mappings /\ v.learnsSource = u.learnsSource
      /\ v.learnsTarget = u.learnsTarget /\ v.many = u.many /\ v.step = u.step
      /\ v.filter = u.filter
  BY DEF SameSession, Keeps, Fields
<1>2. InSession(v)
  BY SessionKept
<1>3. SourceIsKept(v) /\ ModeInv(v, m)
  BY <1>1 DEF SourceIsKept, ModeInv
<1>. QED  BY <1>1, <1>2, <1>3, SameMany

\* Changed futures and tasks for the surface.
LEMMA OnlyFutures ==
    ASSUME NEW u, NEW v, Keeps(u, v, {"futures", "surfaceTasks"})
    PROVE  /\ SameSession(u, v) /\ v.mainTasks = u.mainTasks
           /\ v.learnsTarget = u.learnsTarget /\ v.tasks = u.tasks
<1>1. v.tasks = u.tasks /\ v.mainTasks = u.mainTasks /\ v.learnsTarget = u.learnsTarget
  BY DEF Keeps, Fields
<1>2. Todo(v) = Todo(u)
  BY <1>1 DEF Todo
<1>. QED  BY <1>1, <1>2 DEF SameSession, Keeps

\* Whether late touches matter depends on the situation only.
LEMMA SameNeeds ==
    ASSUME NEW u, NEW v, NEW p, SameSession(u, v)
    PROVE  NeedsQuiet(v, p) <=> NeedsQuiet(u, p)
BY DEF SameSession, Keeps, Fields, NeedsQuiet

\* The future that captures in the end is one there may be.
LEMMA FinalCaptureType ==
    ASSUME NEW u \in UnitState, NEW c \in Futures \cup {None}
    PROVE  FinalCapture(u, c) \in Futures \cup {None}
<1>1. PICK s : s = u.surfaceTasks
  OBVIOUS
<1>2. s \in Seq(Futures \cup {None})
  BY <1>1 DEF UnitState
<1>3. s # <<>> => s[Len(s)] \in Futures \cup {None}
  BY <1>2
<1>. QED  BY <1>1, <1>3 DEF FinalCapture

\* A future starts to capture.
LEMMA SpawnedInSession ==
    ASSUME LearningInv, SessionInv(unit, capturing, "futures", mode), NEW f \in Futures,
           phase = "futures", PollFuture(f), unit.futures[f].is = "spawned"
    PROVE  SessionInv(unit', capturing, "futures", mode) /\ ManyStep(unit, unit', "futures")
<1>1. PICK u : u = unit
  OBVIOUS
<1>2. PICK v : v = unit'
  OBVIOUS
<1>3. u \in UnitState /\ u.futures \in [Futures -> Future] /\ u.surfaceTasks \in Seq(Futures \cup {None})
  BY <1>1 DEF LearningInv, Sound, UnitState
<1>4. PICK fs : fs = [u.futures EXCEPT ![f].is = "waiting"]
  OBVIOUS
<1>5. PICK q : q = Append(u.surfaceTasks, f)
  OBVIOUS
<1>6. v = [u EXCEPT !.futures = fs, !.surfaceTasks = q]
  BY <1>1, <1>2, <1>4, <1>5 DEF PollFuture
<1>7. /\ v.futures = fs /\ v.surfaceTasks = q
      /\ SameSession(u, v) /\ v.mainTasks = u.mainTasks
      /\ v.learnsTarget = u.learnsTarget
      /\ NeedsQuiet(v, "futures") <=> NeedsQuiet(u, "futures")
  <2>1. /\ v.futures = fs /\ v.surfaceTasks = q
        /\ Keeps(u, v, {"futures", "surfaceTasks"})
    BY <1>3, <1>6 DEF UnitState, Keeps, Fields
  <2>2. SameSession(u, v) /\ v.mainTasks = u.mainTasks /\ v.learnsTarget = u.learnsTarget
    BY <2>1, OnlyFutures
  <2>. QED  BY <2>1, <2>2, SameNeeds
<1>8. InSession(v) /\ SourceIsKept(v) /\ ModeInv(v, mode) /\ ManyStep(u, v, "futures")
  BY <1>1, <1>7, LearnsTheSame DEF SessionInv
<1>9. ~NoneSpawned(u)
  BY <1>1 DEF NoneSpawned
<1>10. u.learnsTarget # None /\ NoTouches(u) /\ ~NeedsQuiet(u, "futures")
  BY <1>1, <1>9 DEF SessionInv, TargetsInv, Quiet
<1>11. NoTouches(v)
  <2>1. \A g \in Futures : fs[g].channel = u.futures[g].channel
    BY <1>3, <1>4 DEF Future
  <2>. QED  BY <1>7, <1>10, <2>1 DEF NoTouches
<1>12. FinalCapture(v, capturing) = f /\ f # None /\ v.futures[f].is = "waiting"
  <2>1. q # <<>> /\ q[Len(q)] = f
    BY <1>3, <1>5
  <2>2. fs[f].is = "waiting"
    BY <1>3, <1>4 DEF Future
  <2>3. f # None
    BY LearningAssumption
  <2>. QED  BY <1>7, <2>1, <2>2, <2>3 DEF FinalCapture
<1>13. TargetsInv(v, capturing, "futures")
  BY <1>7, <1>10, <1>11, <1>12 DEF TargetsInv
<1>. QED  BY <1>1, <1>2, <1>8, <1>13 DEF SessionInv

\* A future ends, its channel is closed.
LEMMA ClosedInSession ==
    ASSUME LearningInv, SessionInv(unit, capturing, "futures", mode), NEW f \in Futures,
           phase = "futures", PollFuture(f),
           unit.futures[f].is # "spawned", unit.futures[f].channel = <<>>
    PROVE  SessionInv(unit', capturing, "futures", mode) /\ ManyStep(unit, unit', "futures")
<1>1. PICK u : u = unit
  OBVIOUS
<1>2. PICK v : v = unit'
  OBVIOUS
<1>3. u \in UnitState /\ u.futures \in [Futures -> Future] /\ u.surfaceTasks \in Seq(Futures \cup {None})
  BY <1>1 DEF LearningInv, Sound, UnitState
<1>4. PICK fs : fs = [u.futures EXCEPT ![f] = Gone]
  OBVIOUS
<1>5. PICK q : q = u.surfaceTasks
  OBVIOUS
<1>6. v = [u EXCEPT !.futures = fs, !.surfaceTasks = q]
  <2>1. v = [u EXCEPT !.futures = fs]
    BY <1>1, <1>2, <1>4 DEF PollFuture
  <2>. QED  BY <1>3, <1>5, <2>1 DEF UnitState
<1>7. /\ v.futures = fs /\ v.surfaceTasks = q
      /\ SameSession(u, v) /\ v.mainTasks = u.mainTasks
      /\ v.learnsTarget = u.learnsTarget
      /\ NeedsQuiet(v, "futures") <=> NeedsQuiet(u, "futures")
  <2>1. /\ v.futures = fs /\ v.surfaceTasks = q
        /\ Keeps(u, v, {"futures", "surfaceTasks"})
    BY <1>3, <1>6 DEF UnitState, Keeps, Fields
  <2>2. SameSession(u, v) /\ v.mainTasks = u.mainTasks /\ v.learnsTarget = u.learnsTarget
    BY <2>1, OnlyFutures
  <2>. QED  BY <2>1, <2>2, SameNeeds
<1>8. InSession(v) /\ SourceIsKept(v) /\ ModeInv(v, mode) /\ ManyStep(u, v, "futures")
  BY <1>1, <1>7, LearnsTheSame DEF SessionInv
<1>9. \A g \in Futures : fs[g] = IF g = f THEN Gone ELSE u.futures[g]
  BY <1>3, <1>4
<1>10. Gone.is = "gone" /\ Gone.channel = <<>>
  BY DEF Gone
<1>11. /\ NoneSpawned(v) <=> NoneSpawned(u)
       /\ NoTouches(v) <=> NoTouches(u)
       /\ FinalCapture(v, capturing) = FinalCapture(u, capturing)
       /\ OnlyStops(v) <=> OnlyStops(u)
  <2>1. u.futures[f].is # "spawned" /\ u.futures[f].channel = <<>>
    BY <1>1
  <2>2. NoneSpawned(v) <=> NoneSpawned(u)
    BY <1>7, <1>9, <1>10, <2>1 DEF NoneSpawned
  <2>3. NoTouches(v) <=> NoTouches(u)
    BY <1>7, <1>9, <1>10, <2>1 DEF NoTouches
  <2>. QED  BY <1>5, <1>7, <2>2, <2>3 DEF FinalCapture, OnlyStops
<1>12. FinalCapture(u, capturing) # f
  <2>1. IsClosed(f)
    BY DEF PollFuture, IsReady
  <2>2. capturing # f /\ \A i \in 1..Len(q) : q[i] # f
    BY <1>1, <1>5, <2>1 DEF IsClosed, Contains
  <2>3. q \in Seq(Futures \cup {None})
    BY <1>3, <1>5
  <2>4. q # <<>> => q[Len(q)] # f
    BY <2>2, <2>3
  <2>. QED  BY <1>5, <2>2, <2>4 DEF FinalCapture
<1>13. FinalCapture(u, capturing) # None =>
         v.futures[FinalCapture(u, capturing)] = u.futures[FinalCapture(u, capturing)]
  <2>1. FinalCapture(u, capturing) \in Futures \cup {None}
    BY <1>3, FinalCaptureType DEF LearningInv
  <2>. QED  BY <1>7, <1>9, <1>12, <2>1
<1>14. Quiet(v, capturing) <=> Quiet(u, capturing)
  BY <1>11 DEF Quiet
<1>15. TargetsInv(v, capturing, "futures")
  BY <1>1, <1>7, <1>11, <1>13, <1>14 DEF SessionInv, TargetsInv
<1>. QED  BY <1>1, <1>2, <1>8, <1>15 DEF SessionInv

\* A future takes a touched target. It is not learned if ReaLearn has touched
\* it, otherwise it ends learning.
LEMMA TouchedInSession ==
    ASSUME LearningInv, SessionInv(unit, capturing, "futures", mode), NEW f \in Futures,
           phase = "futures", PollFuture(f),
           unit.futures[f].is # "spawned", unit.futures[f].channel # <<>>
    PROVE  SessionInv(unit', capturing, "futures", mode) /\ ManyStep(unit, unit', "futures")
<1>1. PICK u : u = unit
  OBVIOUS
<1>2. PICK v : v = unit'
  OBVIOUS
<1>3. u \in UnitState /\ u.futures \in [Futures -> Future] /\ u.surfaceTasks \in Seq(Futures \cup {None})
  BY <1>1 DEF LearningInv, Sound, UnitState
<1>4. PICK fs : fs = [u.futures EXCEPT ![f].channel = Tail(@)]
  OBVIOUS
<1>5. PICK q : q = u.surfaceTasks
  OBVIOUS
<1>6. PICK rest : rest = [u EXCEPT !.futures = fs, !.surfaceTasks = q]
  OBVIOUS
<1>7. u.futures[f].channel \in Seq(Touch) /\ u.futures[f].channel # <<>>
  BY <1>1, <1>3 DEF Future
<1>8. fs \in [Futures -> Future]
  <2>1. Tail(u.futures[f].channel) \in Seq(Touch)
    BY <1>7
  <2>. QED  BY <1>3, <1>4, <2>1 DEF Future
<1>9. PICK touch : touch = Head(u.futures[f].channel)
  OBVIOUS
<1>10. touch \in Touch /\ touch.isForeign \in BOOLEAN
  <2>1. touch \in Touch
    BY <1>7, <1>9
  <2>. QED  BY <2>1 DEF Touch
<1>11. v = IF touch.causedByRealearn THEN rest
           ELSE StopLearningTarget(LearnTarget(rest, touch.isForeign))
  <2>1. rest = [u EXCEPT !.futures[f].channel = Tail(@)]
    BY <1>3, <1>4, <1>5, <1>6 DEF UnitState
  <2>. QED  BY <1>1, <1>2, <1>9, <2>1 DEF PollFuture
<1>12. /\ rest.futures = fs /\ rest.surfaceTasks = q
       /\ SameSession(u, rest) /\ rest.mainTasks = u.mainTasks
       /\ rest.learnsTarget = u.learnsTarget
       /\ NeedsQuiet(rest, "futures") <=> NeedsQuiet(u, "futures")
  <2>1. /\ rest.futures = fs /\ rest.surfaceTasks = q
        /\ Keeps(u, rest, {"futures", "surfaceTasks"})
    BY <1>3, <1>6 DEF UnitState, Keeps, Fields
  <2>2. SameSession(u, rest) /\ rest.mainTasks = u.mainTasks /\ rest.learnsTarget = u.learnsTarget
    BY <2>1, OnlyFutures
  <2>. QED  BY <2>1, <2>2, SameNeeds
<1>13. Sound(rest)
  <2>1. Sound(u) /\ Owes(u, mode)
    BY <1>1 DEF LearningInv
  <2>2. q \in Seq(Futures \cup {None})
    BY <1>3, <1>5
  <2>. QED  BY <1>6, <1>8, <2>1, <2>2, ChangedFutures
<1>14. ~NoTouches(u)
  BY <1>1 DEF NoTouches
<1>15. ~NeedsQuiet(u, "futures") /\ NoneSpawned(u)
  BY <1>1, <1>14 DEF SessionInv, TargetsInv, Quiet
<1>16. NoneSpawned(rest)
  <2>1. \A g \in Futures : fs[g].is = u.futures[g].is
    BY <1>3, <1>4 DEF Future
  <2>. QED  BY <1>12, <1>15, <2>1 DEF NoneSpawned
<1>17. InSession(rest) /\ SourceIsKept(rest) /\ ModeInv(rest, mode) /\ ManyStep(u, rest, "futures")
  BY <1>1, <1>12, LearnsTheSame DEF SessionInv
<1>18. CASE touch.causedByRealearn
  <2>1. FinalCapture(rest, capturing) = FinalCapture(u, capturing)
    BY <1>5, <1>12 DEF FinalCapture
  <2>2. u.learnsTarget # None => FinalCapture(u, capturing) # None
                                 /\ u.futures[FinalCapture(u, capturing)].is = "waiting"
    BY <1>1, <1>14 DEF SessionInv, TargetsInv
  <2>3. FinalCapture(u, capturing) \in Futures \cup {None}
    BY <1>3, FinalCaptureType DEF LearningInv
  <2>4. \A g \in Futures : fs[g].is = u.futures[g].is
    BY <1>3, <1>4 DEF Future
  <2>5. u.learnsTarget # None => rest.futures[FinalCapture(u, capturing)].is = "waiting"
    BY <1>12, <2>2, <2>3, <2>4
  <2>6. u.learnsTarget = None => FinalCapture(u, capturing) = None
    BY <1>1 DEF SessionInv, TargetsInv
  <2>7. TargetsInv(rest, capturing, "futures")
    BY <1>12, <1>15, <1>16, <2>1, <2>2, <2>5, <2>6 DEF TargetsInv
  <2>. QED  BY <1>1, <1>2, <1>11, <1>17, <1>18, <2>7 DEF SessionInv
<1>19. CASE ~touch.causedByRealearn
  <2>1. PICK w : w = StopLearningTarget(LearnTarget(rest, touch.isForeign))
    OBVIOUS
  <2>2. /\ w.learnsTarget = None
        /\ SameSources(rest, w)
        /\ rest.learnsTarget = None => w.mappings = rest.mappings
        /\ Todo(w) = Todo(rest) \o End(rest, "learnsTarget", None)
        /\ Keeps(rest, w, {"learnsTarget", "tasks", "surfaceTasks", "mainTasks", "mappings"})
        /\ Stopped(rest, w)
    BY <1>10, <1>13, <2>1, TouchDoes
  <2>3. /\ w.learnsSource = rest.learnsSource /\ w.many = rest.many /\ w.step = rest.step
        /\ w.filter = rest.filter /\ w.observers = rest.observers
    BY <2>2 DEF Keeps, Fields
  <2>4. rest \in UnitState /\ Todo(rest) \in Seq(Task)
    BY <1>13, TodoType DEF Sound
  <2>5. InSession(w)
    <3>1. CASE rest.learnsTarget = None
      <4>1. End(rest, "learnsTarget", None) = <<>>
        BY <3>1, TargetEnds
      <4>2. Todo(w) = Todo(rest)
        BY <2>2, <2>4, <4>1, AddingNothing
      <4>3. SameSession(rest, w)
        BY <2>2, <3>1, <4>2 DEF SameSession, Keeps
      <4>. QED  BY <1>17, <4>3, SessionKept
    <3>2. CASE LearnsOneTarget(rest)
      <4>1. End(rest, "learnsTarget", None) = <<>>
        BY <3>2, TargetEnds
      <4>2. Todo(w) = Todo(rest)
        BY <2>2, <2>4, <4>1, AddingNothing
      <4>3. Rests(w)
        BY <2>2, <2>3, <3>2, <4>2 DEF LearnsOneTarget, OnlyTarget, Rests, Nothing
      <4>. QED  BY <4>3 DEF InSession
    <3>3. CASE LearnsTargetOfOne(rest) /\ rest.learnsTarget # None
      <4>1. End(rest, "learnsTarget", None) = <<Notify("learnsTarget")>>
        BY <3>3, TargetEnds
      <4>2. Todo(rest) = <<>>
        BY <3>3 DEF LearnsTargetOfOne
      <4>3. Todo(w) = <<Notify("learnsTarget")>>
        BY <2>2, <4>1, <4>2, NothingBefore
      <4>4. BetweenTwo(w)
        BY <2>3, <3>3 DEF LearnsTargetOfOne, BetweenTwo
      <4>5. TargetOfOneEnds(w)
        BY <2>2, <2>3, <3>3, <4>3, <4>4 DEF LearnsTargetOfOne, TargetOfOneEnds
      <4>. QED  BY <4>5 DEF InSession
    <3>. QED  BY <1>17, <3>1, <3>2, <3>3, WhoLearnsTarget
  <2>6. SourceIsKept(w)
    <3>1. CASE rest.many = None
      BY <2>3, <3>1 DEF SourceIsKept
    <3>2. CASE rest.many # None
      <4>1. rest.many \in Mappings
        BY <2>4, <3>2 DEF UnitState, Numbers
      <4>2. /\ w.mappings[rest.many].is = rest.mappings[rest.many].is
            /\ w.mappings[rest.many].source = rest.mappings[rest.many].source
        BY <2>2, <4>1 DEF SameSources
      <4>. QED  BY <1>17, <2>3, <4>2 DEF SourceIsKept
    <3>. QED  BY <3>1, <3>2
  <2>7. ~NeedsQuiet(w, "futures")
    <3>1. ~NeedsQuiet(rest, "futures")
      BY <1>12, <1>15
    <3>. QED  BY <2>3, <3>1 DEF NeedsQuiet
  <2>8. TargetsInv(w, capturing, "futures")
    <3>1. w.futures = rest.futures /\ FinalCapture(w, capturing) = None
      BY <2>2 DEF Stopped, FinalCapture
    <3>2. NoneSpawned(w)
      BY <1>16, <3>1 DEF NoneSpawned
    <3>. QED  BY <2>2, <2>7, <3>1, <3>2 DEF TargetsInv
  <2>9. ModeInv(w, mode)
    BY <2>2, <2>7 DEF ModeInv, NeedsQuiet
  <2>10. ManyStep(u, w, "futures")
    <3>1. w.many = u.many /\ w.step = u.step
      BY <1>12, <2>3 DEF SameSession, Keeps, Fields
    <3>. QED  BY <3>1, SameMany
  <2>. QED  BY <1>1, <1>2, <1>11, <1>19, <2>1, <2>5, <2>6, <2>8, <2>9, <2>10 DEF SessionInv
<1>. QED  BY <1>18, <1>19

\* A future is polled.
LEMMA PollInSession ==
    ASSUME LearningInv, SessionInv(unit, capturing, phase, mode), NEW f \in Futures, PollFuture(f)
    PROVE  SessionInv(unit', capturing', phase', mode') /\ ManyStep(unit, unit', phase)
<1>1. phase = "futures" /\ capturing' = capturing /\ phase' = phase /\ mode' = mode
  BY DEF PollFuture, processorVars
<1>2. SessionInv(unit', capturing, "futures", mode) /\ ManyStep(unit, unit', "futures")
  BY <1>1, SpawnedInSession, ClosedInSession, TouchedInSession
<1>. QED  BY <1>1, <1>2

------------------------------------------------------------------------------
(* Steps of the main loop, the audio thread and the environment.           *)

\* The main loop goes on to the next phase, what is learned remains.
LEMMA NextPhase ==
    ASSUME NEW u, NEW c, NEW p, NEW q, NEW m, SessionInv(u, c, p, m), TargetsInv(u, c, q)
    PROVE  SessionInv(u, c, q, m) /\ ManyStep(u, u, p)
BY SameMany DEF SessionInv

\* The main loop starts its next cycle.
LEMMA StartCycleInSession ==
    ASSUME SessionInv(unit, capturing, phase, mode), StartCycle
    PROVE  SessionInv(unit', capturing', phase', mode') /\ ManyStep(unit, unit', phase)
<1>1. /\ phase = "idle" /\ phase' = "tasks"
      /\ unit' = unit /\ capturing' = capturing /\ mode' = mode
  BY DEF StartCycle, processorVars
<1>2. NeedsQuiet(unit, "tasks") => NeedsQuiet(unit, "idle")
  BY DEF NeedsQuiet
<1>3. TargetsInv(unit, capturing, "tasks")
  BY <1>1, <1>2 DEF SessionInv, TargetsInv
<1>. QED  BY <1>1, <1>3, NextPhase

\* All closures have been run.
LEMMA EndTasksInSession ==
    ASSUME SessionInv(unit, capturing, phase, mode), EndTasks
    PROVE  SessionInv(unit', capturing', phase', mode') /\ ManyStep(unit, unit', phase)
<1>1. /\ phase = "tasks" /\ phase' = "futures"
      /\ unit' = unit /\ capturing' = capturing /\ mode' = mode
  BY DEF EndTasks, processorVars
<1>2. NeedsQuiet(unit, "futures") => NeedsQuiet(unit, "tasks")
  BY DEF NeedsQuiet
<1>3. TargetsInv(unit, capturing, "futures")
  BY <1>1, <1>2 DEF SessionInv, TargetsInv
<1>. QED  BY <1>1, <1>3, NextPhase

\* All futures have been polled until they wait.
LEMMA EndFuturesInSession ==
    ASSUME SessionInv(unit, capturing, phase, mode), EndFutures
    PROVE  SessionInv(unit', capturing', phase', mode') /\ ManyStep(unit, unit', phase)
<1>1. /\ phase = "futures" /\ phase' = "surface"
      /\ unit' = unit /\ capturing' = capturing /\ mode' = mode
  BY DEF EndFutures, processorVars
<1>2. NeedsQuiet(unit, "surface") => NeedsQuiet(unit, "futures")
  BY DEF NeedsQuiet
<1>3. NoneSpawned(unit) /\ NoTouches(unit)
  BY DEF EndFutures, IsReady, NoneSpawned, NoTouches
<1>4. TargetsInv(unit, capturing, "surface")
  BY <1>1, <1>2, <1>3 DEF SessionInv, TargetsInv
<1>. QED  BY <1>1, <1>4, NextPhase

\* The control surface does its tasks, the last one wins.
LEMMA MainTasksInSession ==
    ASSUME LearningInv, SessionInv(unit, capturing, phase, mode), ProcessMainTasks
    PROVE  SessionInv(unit', capturing', phase', mode') /\ ManyStep(unit, unit', phase)
<1>1. PICK u : u = unit
  OBVIOUS
<1>2. PICK v : v = unit'
  OBVIOUS
<1>3. u \in UnitState /\ u.surfaceTasks \in Seq(Futures \cup {None})
  BY <1>1 DEF LearningInv, Sound, UnitState
<1>4. /\ phase = "surface" /\ phase' = "processors" /\ mode' = mode
      /\ capturing' = FinalCapture(u, capturing)
      /\ v = [u EXCEPT !.surfaceTasks = <<>>]
  BY <1>1, <1>2 DEF ProcessMainTasks, FinalCapture, Last
<1>5. v.surfaceTasks = <<>> /\ v.futures = u.futures /\ Keeps(u, v, {"futures", "surfaceTasks"})
  BY <1>3, <1>4 DEF UnitState, Keeps, Fields
<1>6. SameSession(u, v) /\ v.mainTasks = u.mainTasks /\ v.learnsTarget = u.learnsTarget
  BY <1>5, OnlyFutures
<1>7. InSession(v) /\ SourceIsKept(v) /\ ModeInv(v, mode) /\ ManyStep(u, v, phase)
  BY <1>1, <1>6, LearnsTheSame DEF SessionInv
<1>8. FinalCapture(v, capturing') = FinalCapture(u, capturing)
  BY <1>4, <1>5 DEF FinalCapture
<1>9. TargetsInv(u, capturing, "surface")
  BY <1>1, <1>4 DEF SessionInv
<1>10. NoneSpawned(v) /\ NoTouches(v)
  BY <1>5, <1>9 DEF TargetsInv, NoneSpawned, NoTouches
<1>11. ASSUME NeedsQuiet(v, "processors") PROVE Quiet(v, capturing')
  <2>1. NeedsQuiet(u, "surface")
    <3>1. NeedsQuiet(u, "processors")
      BY <1>6, <1>11, SameNeeds
    <3>. QED  BY <3>1 DEF NeedsQuiet
  <2>2. capturing = None /\ OnlyStops(u)
    BY <1>9, <2>1 DEF TargetsInv, Quiet
  <2>3. capturing' = None
    <3>1. PICK s : s = u.surfaceTasks
      OBVIOUS
    <3>2. s \in Seq(Futures \cup {None})
      BY <1>3, <3>1
    <3>3. s # <<>> => Len(s) \in DOMAIN s
      BY <3>2
    <3>. QED  BY <1>4, <2>2, <3>1, <3>3 DEF FinalCapture, OnlyStops
  <2>4. OnlyStops(v)
    BY <1>5 DEF OnlyStops
  <2>. QED  BY <1>10, <2>3, <2>4 DEF Quiet
<1>12. TargetsInv(v, capturing', "processors")
  <2>1. v.learnsTarget = None => FinalCapture(v, capturing') = None
    BY <1>6, <1>8, <1>9 DEF TargetsInv
  <2>2. u.learnsTarget # None => FinalCapture(u, capturing) # None
                                 /\ u.futures[FinalCapture(u, capturing)].is = "waiting"
    BY <1>5, <1>9, <1>10 DEF TargetsInv, NoneSpawned
  <2>. QED  BY <1>5, <1>6, <1>8, <1>10, <1>11, <2>1, <2>2 DEF TargetsInv
<1>. QED  BY <1>1, <1>2, <1>4, <1>7, <1>12 DEF SessionInv

\* The main processor does its tasks, the last one wins.
LEMMA NormalTasksInSession ==
    ASSUME LearningInv, SessionInv(unit, capturing, phase, mode), ProcessNormalTasks
    PROVE  SessionInv(unit', capturing', phase', mode') /\ ManyStep(unit, unit', phase)
<1>1. PICK u : u = unit
  OBVIOUS
<1>2. PICK v : v = unit'
  OBVIOUS
<1>3. u \in UnitState /\ u.mainTasks \in Seq(MainTask)
  BY <1>1 DEF LearningInv, Sound, UnitState
<1>4. /\ phase = "processors" /\ phase' = "idle" /\ capturing' = capturing
      /\ mode' = LastOf(u.mainTasks, mode)
      /\ v = [u EXCEPT !.mainTasks = <<>>]
  BY <1>1, <1>2 DEF ProcessNormalTasks, LastOf, Last
<1>5. /\ v.mainTasks = <<>> /\ v.futures = u.futures /\ v.surfaceTasks = u.surfaceTasks
      /\ v.tasks = u.tasks
      /\ Keeps(u, v, {"mainTasks"})
  BY <1>3, <1>4 DEF UnitState, Keeps, Fields
<1>6. /\ v.mappings = u.mappings /\ v.learnsSource = u.learnsSource
      /\ v.learnsTarget = u.learnsTarget /\ v.many = u.many /\ v.step = u.step
      /\ v.filter = u.filter
  BY <1>5 DEF Keeps, Fields
<1>7. SameSession(u, v)
  <2>1. Todo(v) = Todo(u)
    BY <1>5 DEF Todo
  <2>. QED  BY <1>5, <2>1 DEF SameSession, Keeps
<1>8. InSession(v) /\ ManyStep(u, v, phase)
  BY <1>1, <1>6, <1>7, SessionKept, SameMany DEF SessionInv
<1>9. SourceIsKept(v)
  BY <1>1, <1>6 DEF SessionInv, SourceIsKept
<1>10. ModeInv(v, mode')
  <2>1. LastOf(v.mainTasks, mode') = LastOf(u.mainTasks, mode)
    BY <1>4, <1>5 DEF LastOf
  <2>. QED  BY <1>1, <1>6, <2>1 DEF SessionInv, ModeInv
<1>11. TargetsInv(u, capturing, "processors")
  BY <1>1, <1>4 DEF SessionInv
<1>12. /\ NoneSpawned(v) /\ NoTouches(v)
       /\ v.surfaceTasks = <<>> /\ OnlyStops(v)
       /\ FinalCapture(v, capturing) = FinalCapture(u, capturing)
       /\ FinalCapture(v, capturing) = capturing
  <2>1. v.surfaceTasks = <<>>
    BY <1>5, <1>11 DEF TargetsInv
  <2>2. NoneSpawned(v) /\ NoTouches(v)
    BY <1>5, <1>11 DEF TargetsInv, NoneSpawned, NoTouches
  <2>. QED  BY <1>5, <2>1, <2>2 DEF OnlyStops, FinalCapture
<1>13. ASSUME NeedsQuiet(v, "idle") PROVE Quiet(v, capturing)
  <2>1. capturing = None
    <3>1. CASE v.learnsTarget = None
      BY <1>6, <1>11, <1>12, <3>1 DEF TargetsInv
    <3>2. CASE v.learnsTarget # None
      <4>1. NeedsQuiet(u, "processors")
        BY <1>6, <1>13, <3>2 DEF NeedsQuiet
      <4>. QED  BY <1>11, <4>1 DEF TargetsInv, Quiet
    <3>. QED  BY <3>1, <3>2
  <2>. QED  BY <1>12, <2>1 DEF Quiet
<1>14. TargetsInv(v, capturing, "idle")
  <2>1. v.learnsTarget = None => FinalCapture(v, capturing) = None
    BY <1>6, <1>11, <1>12 DEF TargetsInv
  <2>2. u.learnsTarget # None => FinalCapture(u, capturing) # None
                                 /\ u.futures[FinalCapture(u, capturing)].is = "waiting"
    BY <1>5, <1>11, <1>12 DEF TargetsInv, NoneSpawned
  <2>. QED  BY <1>5, <1>6, <1>12, <1>13, <2>1, <2>2 DEF TargetsInv
<1>. QED  BY <1>1, <1>2, <1>4, <1>8, <1>9, <1>10, <1>14 DEF SessionInv

\* A step of the main loop.
LEMMA MainLoopInSession ==
    ASSUME LearningInv, SessionInv(unit, capturing, phase, mode), MainLoop
    PROVE  SessionInv(unit', capturing', phase', mode') /\ ManyStep(unit, unit', phase)
<1>1. Sound(unit) /\ Owes(unit, mode)
  BY DEF LearningInv
<1>2. ASSUME RunTask
      PROVE  SessionInv(unit', capturing', phase', mode') /\ ManyStep(unit, unit', phase)
  <2>1. /\ unit' = Do(Head(unit.tasks), Taken(unit)) /\ HasNumbers(unit) /\ unit.tasks # <<>>
        /\ phase = "tasks" /\ phase' = "tasks" /\ capturing' = capturing /\ mode' = mode
    BY <1>2 DEF RunTask, Taken, processorVars
  <2>2. SessionInv(unit', capturing, "tasks", mode) /\ ManyStep(unit, unit', "tasks")
    BY <1>1, <2>1, RunTaskInSession
  <2>. QED  BY <2>1, <2>2
<1>3. ASSUME ProcessCapturedMidi
      PROVE  SessionInv(unit', capturing', phase', mode') /\ ManyStep(unit, unit', phase)
  <2>1. /\ unit' = CaptureMessage(unit, Head(captured)) /\ Head(captured) \in Sources
        /\ phase' = phase /\ capturing' = capturing /\ mode' = mode
    BY <1>3 DEF ProcessCapturedMidi, LearningInv
  <2>2. SessionInv(unit', capturing, phase, mode) /\ ManyStep(unit, unit', phase)
    BY <1>1, <2>1, CaptureInSession
  <2>. QED  BY <2>1, <2>2
<1>. QED  BY <1>2, <1>3, StartCycleInSession, EndTasksInSession, PollInSession,
             EndFuturesInSession, MainTasksInSession, NormalTasksInSession DEF MainLoop

\* A step of the audio thread, which doesn't concern the unit.
LEMMA AudioThreadInSession ==
    ASSUME SessionInv(unit, capturing, phase, mode), ProcessNormalRealTimeTask
    PROVE  SessionInv(unit', capturing', phase', mode') /\ ManyStep(unit, unit', phase)
<1>1. unit' = unit /\ mode' = mode /\ capturing' = capturing /\ phase' = phase
  BY DEF ProcessNormalRealTimeTask, envVars
<1>. QED  BY <1>1, SameMany

\* A touched target doesn't arrive before the future captures.
LEMMA TouchInSession ==
    ASSUME LearningInv, SessionInv(unit, capturing, phase, mode), ~disturbed',
           NEW isForeign \in BOOLEAN, NEW causedByRealearn \in BOOLEAN,
           ProcessTouchedTarget(isForeign, causedByRealearn)
    PROVE  SessionInv(unit', capturing', phase', mode') /\ ManyStep(unit, unit', phase)
<1>1. PICK u : u = unit
  OBVIOUS
<1>2. PICK v : v = unit'
  OBVIOUS
<1>3. u \in UnitState /\ u.futures \in [Futures -> Future]
  BY <1>1 DEF LearningInv, Sound, UnitState
<1>4. PICK touch : touch = [isForeign |-> isForeign, causedByRealearn |-> causedByRealearn]
  OBVIOUS
<1>5. PICK fs : fs = [u.futures EXCEPT ![capturing].channel = Append(@, touch)]
  OBVIOUS
<1>6. /\ phase = "idle" /\ phase' = "idle" /\ capturing' = capturing /\ mode' = mode
      /\ capturing # None /\ capturing \in Futures
      /\ v = [u EXCEPT !.futures = fs]
      /\ ~StartsToCapture
  <2>1. v = [u EXCEPT !.futures = fs]
    BY <1>1, <1>2, <1>4, <1>5 DEF ProcessTouchedTarget
  <2>2. capturing # None /\ capturing \in Futures
    BY DEF ProcessTouchedTarget, LearningInv
  <2>. QED  BY <2>1, <2>2 DEF ProcessTouchedTarget, Event, processorVars
<1>7. v.futures = fs /\ v.surfaceTasks = u.surfaceTasks /\ Keeps(u, v, {"futures", "surfaceTasks"})
  BY <1>3, <1>6 DEF UnitState, Keeps, Fields
<1>8. SameSession(u, v) /\ v.mainTasks = u.mainTasks /\ v.learnsTarget = u.learnsTarget
  BY <1>7, OnlyFutures
<1>9. InSession(v) /\ SourceIsKept(v) /\ ModeInv(v, mode) /\ ManyStep(u, v, phase)
  BY <1>1, <1>8, LearnsTheSame DEF SessionInv
<1>10. NoneSpawned(u)
  BY <1>1, <1>6 DEF StartsToCapture, NoneSpawned
<1>11. \A g \in Futures : fs[g].is = u.futures[g].is
  BY <1>3, <1>5 DEF Future
<1>12. NoneSpawned(v)
  BY <1>7, <1>10, <1>11 DEF NoneSpawned
<1>13. TargetsInv(u, capturing, "idle")
  BY <1>1, <1>6 DEF SessionInv
<1>14. ~NeedsQuiet(v, "idle")
  <2>1. ~NeedsQuiet(u, "idle")
    BY <1>6, <1>13 DEF TargetsInv, Quiet
  <2>. QED  BY <1>8, <2>1, SameNeeds
<1>15. FinalCapture(v, capturing) = FinalCapture(u, capturing)
  BY <1>7 DEF FinalCapture
<1>16. TargetsInv(v, capturing, "idle")
  <2>1. v.learnsTarget = None => FinalCapture(v, capturing) = None
    BY <1>8, <1>13, <1>15 DEF TargetsInv
  <2>2. u.learnsTarget # None => FinalCapture(u, capturing) # None
                                 /\ u.futures[FinalCapture(u, capturing)].is = "waiting"
    BY <1>10, <1>13 DEF TargetsInv
  <2>3. FinalCapture(u, capturing) \in Futures \cup {None}
    BY <1>3, FinalCaptureType DEF LearningInv
  <2>4. u.learnsTarget # None => v.futures[FinalCapture(u, capturing)].is = "waiting"
    BY <1>7, <1>11, <2>2, <2>3
  <2>. QED  BY <1>8, <1>12, <1>14, <1>15, <2>1, <2>2, <2>4 DEF TargetsInv
<1>. QED  BY <1>1, <1>2, <1>6, <1>9, <1>16 DEF SessionInv

\* A moved control element or a touched target.
LEMMA EnvironmentInSession ==
    ASSUME LearningInv, SessionInv(unit, capturing, phase, mode), Environment, ~disturbed'
    PROVE  SessionInv(unit', capturing', phase', mode') /\ ManyStep(unit, unit', phase)
<1>1. ASSUME NEW s \in Sources, SendCapturedMidi(s)
      PROVE  SessionInv(unit', capturing', phase', mode') /\ ManyStep(unit, unit', phase)
  <2>1. unit' = unit /\ mode' = mode /\ capturing' = capturing /\ phase' = phase
    BY <1>1 DEF SendCapturedMidi, Event
  <2>. QED  BY <2>1, SameMany
<1>2. ASSUME NEW s \in Sources, ProcessIncomingMsgForLearning(s)
      PROVE  SessionInv(unit', capturing', phase', mode') /\ ManyStep(unit, unit', phase)
  <2>1. /\ unit' = CaptureMessage(unit, s)
        /\ mode' = mode /\ capturing' = capturing /\ phase' = phase
    BY <1>2 DEF ProcessIncomingMsgForLearning, Event, processorVars
  <2>2. Sound(unit)
    BY DEF LearningInv
  <2>3. SessionInv(unit', capturing, phase, mode) /\ ManyStep(unit, unit', phase)
    BY <2>1, <2>2, CaptureInSession
  <2>. QED  BY <2>1, <2>3
<1>. QED  BY <1>1, <1>2, TouchInSession DEF Environment

------------------------------------------------------------------------------
(* Clicks.                                                                 *)

\* When nothing is on its way anymore.
Settled(u, c, m) ==
    /\ SessionInv(u, c, "idle", m)
    /\ Todo(u) = <<>> /\ u.surfaceTasks = <<>> /\ u.mainTasks = <<>>
    /\ NoneSpawned(u) /\ NoTouches(u)

\* When nothing is left to be told, the unit rests or learns one thing.
LEMMA SettledIsOneOf ==
    ASSUME NEW u, InSession(u), Todo(u) = <<>>
    PROVE  \/ Rests(u) \/ LearnsOneSource(u) \/ LearnsOneTarget(u) \/ Filters(u)
           \/ LearnsSourceOfOne(u) \/ LearnsTargetOfOne(u)
<1>1. \A x, y : <<x>> # <<>> /\ <<x, y>> # <<>>
  OBVIOUS
<1>2. ~OneSourceEnds(u) /\ ~FilterEnds(u) /\ ~SourceOfOneEnds(u) /\ ~TargetOfOneEnds(u)
  BY <1>1 DEF OneSourceEnds, FilterEnds, SourceOfOneEnds, TargetOfOneEnds
<1>3. ~SourceOfOneLearned(u) /\ ~ManyGoesOn(u) /\ ~ManyStops(u) /\ ~ManyStopped(u)
  BY <1>1 DEF SourceOfOneLearned, ManyGoesOn, ManyStops, ManyStopped
<1>. QED  BY <1>2, <1>3 DEF InSession

\* When nothing is on its way, no target is captured unless one is learned.
LEMMA SettledIsQuiet ==
    ASSUME NEW u, NEW c, NEW m, Settled(u, c, m)
    PROVE  OnlyStops(u) /\ (u.learnsTarget = None => c = None /\ Quiet(u, c))
<1>1. OnlyStops(u)
  BY DEF Settled, OnlyStops
<1>2. u.learnsTarget = None => c = None
  BY DEF Settled, SessionInv, TargetsInv, FinalCapture
<1>. QED  BY <1>1, <1>2 DEF Settled, Quiet

\* A proper click comes when nothing is on its way, and only one kind of
\* learning is in progress. After a mess, it starts anew.
LEMMA ProperClick ==
    ASSUME LearningInv, disturbed \/ SessionInv(unit, capturing, phase, mode),
           NEW new, NEW kinds, Click(new, kinds), ~disturbed'
    PROVE  /\ Settled(unit, capturing, mode)
           /\ HasNumbers(unit)
           /\ unit' = new /\ capturing' = capturing /\ mode' = mode
           /\ phase = "idle" /\ phase' = "idle"
           /\ \E kind \in kinds : InProgress(unit) \subseteq {kind}
<1>1. /\ unit' = new /\ capturing' = capturing /\ mode' = mode
      /\ phase = "idle" /\ phase' = "idle" /\ HasNumbers(unit)
      /\ disturbed => IsClean
      /\ IsSettled
      /\ \E kind \in kinds : InProgress(unit) \subseteq {kind}
  BY DEF Click, processorVars
<1>2. /\ unit.surfaceTasks = <<>> /\ unit.mainTasks = <<>>
      /\ NoneSpawned(unit) /\ NoTouches(unit)
  BY <1>1 DEF IsSettled, IsReady, NoneSpawned, NoTouches
<1>3. Todo(unit) = <<>>
  <2>1. unit.tasks = <<>>
    BY <1>1 DEF IsSettled
  <2>. QED  BY <2>1, SelectionOfNone DEF Todo
<1>4. SessionInv(unit, capturing, "idle", mode)
  <2>1. CASE disturbed
    <3>1. IsClean
      BY <1>1, <2>1
    <3>2. Nothing(unit) /\ unit.observers = <<>> /\ capturing = None
      BY <3>1 DEF IsClean, InProgress, Nothing
    <3>3. InSession(unit)
      BY <1>3, <3>2 DEF InSession, Rests
    <3>4. SourceIsKept(unit) /\ ModeInv(unit, mode) /\ ~NeedsQuiet(unit, "idle")
      BY <3>2, NothingPromised
    <3>5. TargetsInv(unit, capturing, "idle")
      BY <1>2, <3>2, <3>4 DEF TargetsInv, Nothing, FinalCapture
    <3>. QED  BY <3>3, <3>4, <3>5 DEF SessionInv
  <2>2. CASE ~disturbed
    BY <1>1, <2>2
  <2>. QED  BY <2>1, <2>2
<1>. QED  BY <1>1, <1>2, <1>3, <1>4 DEF Settled

\* What is in progress then.
LEMMA OneKind ==
    ASSUME NEW u, NEW kind, InProgress(u) \subseteq {kind}
    PROVE  /\ kind # "many" => u.many = None
           /\ kind # "filter" => ~u.filter
           /\ kind # "many" /\ kind # "source" => u.learnsSource = None
           /\ kind # "many" /\ kind # "target" => u.learnsTarget = None
           /\ u.many = None /\ kind = "many" => u.learnsSource = None /\ u.learnsTarget = None
BY DEF InProgress

\* Everything was stopped.
LEMMA StoppedInSession ==
    ASSUME NEW u, NEW v, NEW c, NEW m, Settled(u, c, m), Stopped(u, v), Nothing(v), InSession(v)
    PROVE  SessionInv(v, c, "idle", m)
<1>1. SourceIsKept(v) /\ ModeInv(v, m) /\ ~NeedsQuiet(v, "idle")
  BY NothingPromised
<1>2. v.futures = u.futures /\ FinalCapture(v, c) = None
  BY DEF Stopped, FinalCapture
<1>3. NoneSpawned(v)
  BY <1>2 DEF Settled, NoneSpawned
<1>4. TargetsInv(v, c, "idle")
  BY <1>1, <1>2, <1>3 DEF TargetsInv, Nothing
<1>. QED  BY <1>1, <1>4 DEF SessionInv

\* One mapping stopped learning.
LEMMA StopsOne ==
    ASSUME NEW u, Sound(u), NEW v, NEW c, NEW m, Settled(u, c, m), u.many = None, ~u.filter,
           v.learnsSource = None, v.learnsTarget = None,
           Todo(v) = (Todo(u) \o End(u, "learnsSource", None)) \o End(u, "learnsTarget", None),
           Keeps(u, v, {"learnsSource", "learnsTarget", "tasks", "surfaceTasks", "mainTasks",
                        "mappings"}),
           Stopped(u, v)
    PROVE  SessionInv(v, c, "idle", m) /\ ManyStep(u, v, "idle")
<1>1. v.many = u.many /\ v.step = u.step /\ v.filter = u.filter /\ v.observers = u.observers
  BY DEF Keeps, Fields
<1>2. Nothing(v)
  BY <1>1 DEF Nothing
<1>3. Rests(u) \/ LearnsOneSource(u) \/ LearnsOneTarget(u)
  <2>1. ~Filters(u) /\ ~LearnsSourceOfOne(u) /\ ~LearnsTargetOfOne(u)
    BY DEF Filters, OnlyFilter, LearnsSourceOfOne, CapturesOne, LearnsTargetOfOne, BetweenTwo
  <2>. QED  BY <2>1, SettledIsOneOf DEF Settled, SessionInv
<1>4. u \in UnitState /\ Todo(u) = <<>>
  BY DEF Sound, Settled
<1>5. \A x : (<<>> \o <<x>>) \o <<>> = <<x>>
  OBVIOUS
<1>6. (<<>> \o <<>>) \o <<>> = <<>>
  OBVIOUS
<1>7. InSession(v)
  <2>1. CASE Rests(u)
    <3>1. u.observers = <<>> /\ u.learnsSource = None /\ u.learnsTarget = None
      BY <2>1 DEF Rests, Nothing
    <3>2. End(u, "learnsSource", None) = <<>> /\ End(u, "learnsTarget", None) = <<>>
      BY <3>1 DEF End
    <3>3. Rests(v)
      BY <1>1, <1>2, <1>4, <1>6, <3>1, <3>2 DEF Rests
    <3>. QED  BY <3>3 DEF InSession
  <2>2. CASE LearnsOneSource(u)
    <3>1. End(u, "learnsSource", None) = <<Notify("learnsSource")>>
      BY <1>4, <2>2, SourceEnds
    <3>2. End(u, "learnsTarget", None) = <<>>
      BY <2>2, TargetEnds DEF LearnsOneSource, OnlySource
    <3>3. Todo(v) = <<Notify("learnsSource")>>
      BY <1>4, <1>5, <3>1, <3>2
    <3>4. OneSourceEnds(v)
      BY <1>1, <1>2, <2>2, <3>3 DEF LearnsOneSource, OneSourceEnds
    <3>. QED  BY <3>4 DEF InSession
  <2>3. CASE LearnsOneTarget(u)
    <3>1. u.learnsSource = None /\ u.observers = <<>>
      BY <2>3 DEF LearnsOneTarget, OnlyTarget
    <3>2. End(u, "learnsSource", None) = <<>> /\ End(u, "learnsTarget", None) = <<>>
      BY <2>3, <3>1, TargetEnds DEF End
    <3>3. Rests(v)
      BY <1>1, <1>2, <1>4, <1>6, <3>1, <3>2 DEF Rests
    <3>. QED  BY <3>3 DEF InSession
  <2>. QED  BY <1>3, <2>1, <2>2, <2>3
<1>. QED  BY <1>1, <1>2, <1>7, StoppedInSession, SameMany

\* What is told one after the other.
LEMMA Joining ==
    ASSUME NEW x, NEW y
    PROVE  /\ ((<<>> \o <<x>>) \o <<y>>) \o <<>> = <<x, y>>
           /\ ((<<>> \o <<x>>) \o <<>>) \o <<y>> = <<x, y>>
<1>1. PICK T : T = {x, y}
  OBVIOUS
<1>2. PICK a : a = <<x>>
  OBVIOUS
<1>3. PICK b : b = <<x, y>>
  OBVIOUS
<1>4. y \in T /\ a \in Seq(T) /\ b \in Seq(T)
  BY <1>1, <1>2, <1>3
<1>5. <<>> \o a = a
  BY <1>2, NothingBefore
<1>6. a \o <<y>> = b
  <2>1. a \o <<y>> = Append(a, y)
    BY <1>4, AddingOne
  <2>2. Append(<<x>>, y) = <<x, y>>
    BY Pairs
  <2>. QED  BY <1>2, <1>3, <2>1, <2>2
<1>7. a \o <<>> = a /\ b \o <<>> = b
  BY <1>4, AddingNothing
<1>. QED  BY <1>2, <1>3, <1>5, <1>6, <1>7

\* "Learn many" was stopped by the user.
LEMMA StopsMany ==
    ASSUME NEW u, Sound(u), NEW c, NEW m, Settled(u, c, m), u.many # None
    PROVE  LET v == StopLearningManyMappings(u)
           IN  /\ Sound(v) /\ Nothing(v) /\ InSession(v) /\ Stopped(u, v)
               /\ ManyStep(u, v, "idle")
<1>1. PICK v : v = StopLearningManyMappings(u)
  OBVIOUS
<1>2. /\ Sound(v)
      /\ v.many = None /\ v.learnsSource = None /\ v.learnsTarget = None
      /\ v.mappings = IF u.learnsSource # None THEN Removed(u.mappings, u.learnsSource)
                      ELSE u.mappings
      /\ Todo(v) = ((Todo(u) \o End(u, "many", None)) \o End(u, "learnsSource", None))
                        \o End(u, "learnsTarget", None)
      /\ Keeps(u, v, {"learnsSource", "learnsTarget", "tasks", "surfaceTasks", "mainTasks",
                      "mappings", "many"})
      /\ Stopped(u, v)
  BY <1>1, StopManyDoes
<1>3. v.step = u.step /\ v.filter = u.filter /\ v.observers = u.observers
  BY <1>2 DEF Keeps, Fields
<1>4. u \in UnitState /\ Todo(u) = <<>> /\ u.many \in Mappings
      /\ u.mappings \in [Mappings -> MappingState]
  <2>1. u \in UnitState /\ Todo(u) = <<>>
    BY DEF Sound, Settled
  <2>. QED  BY <2>1 DEF UnitState, Numbers
<1>5. LearnsSourceOfOne(u) \/ LearnsTargetOfOne(u)
  <2>1. ~Rests(u) /\ ~LearnsOneSource(u) /\ ~LearnsOneTarget(u) /\ ~Filters(u)
    BY DEF Rests, LearnsOneSource, LearnsOneTarget, Filters, Nothing, OnlySource, OnlyTarget, OnlyFilter
  <2>. QED  BY <2>1, SettledIsOneOf DEF Settled, SessionInv
<1>6. Nothing(v)
  BY <1>2, <1>3, <1>5 DEF Nothing, LearnsSourceOfOne, CapturesOne, LearnsTargetOfOne, BetweenTwo
<1>7. \A x, y : /\ ((<<>> \o <<x>>) \o <<y>>) \o <<>> = <<x, y>>
                /\ ((<<>> \o <<x>>) \o <<>>) \o <<y>> = <<x, y>>
  BY Joining
<1>8. InSession(v)
  <2>1. CASE LearnsSourceOfOne(u)
    <3>1. \/ u.observers \in MainCapturing(u.many)
          \/ \E ignored \in SUBSET Sources : u.observers \in ControllerCapturing(ignored)
      BY <2>1 DEF LearnsSourceOfOne, CapturesOne
    <3>2. End(u, "many", None) = <<Notify("many")>>
      <4>1. ObserversOf(u, "many") # <<>>
        BY <1>4, <3>1, MainIsTold, ControllerIsTold
      <4>. QED  BY <4>1 DEF End
    <3>3. End(u, "learnsSource", None) = <<Notify("learnsSource")>>
      BY <1>4, <2>1, SourceEnds
    <3>4. End(u, "learnsTarget", None) = <<>>
      BY <2>1, TargetEnds DEF LearnsSourceOfOne, CapturesOne
    <3>5. Todo(v) = <<Notify("many"), Notify("learnsSource")>>
      BY <1>2, <1>4, <1>7, <3>2, <3>3, <3>4
    <3>6. \/ \E n \in Mappings : v.observers \in MainCapturing(n)
          \/ \E ignored \in SUBSET Sources : v.observers \in ControllerCapturing(ignored)
      BY <1>3, <1>4, <3>1
    <3>7. ManyStops(v)
      BY <1>6, <3>5, <3>6 DEF ManyStops
    <3>. QED  BY <3>7 DEF InSession
  <2>2. CASE LearnsTargetOfOne(u)
    <3>1. u.observers = <<AfterMapping("Main")>> /\ u.learnsSource = None
      BY <2>2 DEF LearnsTargetOfOne, BetweenTwo
    <3>2. End(u, "many", None) = <<Notify("many")>>
      <4>1. ObserversOf(u, "many") # <<>>
        BY <3>1, TriggerIsTold
      <4>. QED  BY <4>1 DEF End
    <3>3. End(u, "learnsSource", None) = <<>>
      BY <3>1 DEF End
    <3>4. End(u, "learnsTarget", None) = <<Notify("learnsTarget")>>
      BY <2>2, TargetEnds DEF LearnsTargetOfOne
    <3>5. Todo(v) = <<Notify("many"), Notify("learnsTarget")>>
      BY <1>2, <1>4, <1>7, <3>2, <3>3, <3>4
    <3>6. ManyStops(v)
      BY <1>3, <1>6, <3>1, <3>5 DEF ManyStops
    <3>. QED  BY <3>6 DEF InSession
  <2>. QED  BY <1>5, <2>1, <2>2
<1>9. ManyStep(u, v, "idle")
  <2>1. u.many \notin Present(v) \/ v.mappings[u.many].source # NoSource
    <3>1. CASE LearnsSourceOfOne(u)
      <4>1. v.mappings = Removed(u.mappings, u.many)
        BY <1>2, <3>1 DEF LearnsSourceOfOne
      <4>2. v.mappings[u.many].is = "removed"
        BY <1>4, <4>1 DEF Removed, MappingState
      <4>. QED  BY <4>2 DEF Present
    <3>2. CASE LearnsTargetOfOne(u)
      <4>1. u.learnsSource = None /\ SourceIsKept(u)
        BY <3>2 DEF LearnsTargetOfOne, BetweenTwo, Settled, SessionInv
      <4>2. v.mappings = u.mappings
        BY <1>2, <4>1
      <4>. QED  BY <1>4, <4>1, <4>2, MappingIsFinished
    <3>. QED  BY <1>5, <3>1, <3>2
  <2>. QED  BY <1>2, <2>1 DEF ManyStep
<1>. QED  BY <1>1, <1>2, <1>6, <1>8, <1>9

\* Stopping once more doesn't change what is left to be done.
LEMMA StopsOnceMore ==
    ASSUME NEW u, Sound(u), Nothing(u), InSession(u)
    PROVE  LET v == StopLearningManyMappings(u)
           IN  /\ Nothing(v) /\ InSession(v) /\ Stopped(u, v) /\ v.mappings = u.mappings
<1>1. PICK v : v = StopLearningManyMappings(u)
  OBVIOUS
<1>2. /\ v.many = None /\ v.learnsSource = None /\ v.learnsTarget = None
      /\ v.mappings = IF u.learnsSource # None THEN Removed(u.mappings, u.learnsSource)
                      ELSE u.mappings
      /\ Todo(v) = ((Todo(u) \o End(u, "many", None)) \o End(u, "learnsSource", None))
                        \o End(u, "learnsTarget", None)
      /\ Keeps(u, v, {"learnsSource", "learnsTarget", "tasks", "surfaceTasks", "mainTasks",
                      "mappings", "many"})
      /\ Stopped(u, v)
  BY <1>1, StopManyDoes
<1>3. u.many = None /\ u.learnsSource = None /\ u.learnsTarget = None
  BY DEF Nothing
<1>4. v.mappings = u.mappings
  BY <1>2, <1>3
<1>5. Todo(v) = Todo(u)
  <2>1. /\ End(u, "many", None) = <<>> /\ End(u, "learnsSource", None) = <<>>
        /\ End(u, "learnsTarget", None) = <<>>
    BY <1>3 DEF End
  <2>2. Todo(u) \in Seq(Task)
    BY TodoType DEF Sound
  <2>3. Todo(u) \o <<>> = Todo(u)
    BY <2>2, AddingNothing
  <2>. QED  BY <1>2, <2>1, <2>3
<1>6. SameSession(u, v)
  BY <1>2, <1>3, <1>4, <1>5 DEF SameSession, Keeps
<1>7. Nothing(v)
  BY <1>2 DEF Nothing, Keeps, Fields
<1>. QED  BY <1>1, <1>2, <1>4, <1>6, <1>7, SessionKept

\* A source is to be learned now, no touched target can arrive.
LEMMA StartedInSession ==
    ASSUME NEW u, NEW v, NEW c, NEW m, Settled(u, c, m), u.learnsTarget = None,
           v.learnsTarget = None, v.futures = u.futures, OnlyStops(u) => OnlyStops(v),
           FinalCapture(v, c) = None, LastOf(v.mainTasks, m) = "LearningSource"
    PROVE  TargetsInv(v, c, "idle") /\ ModeInv(v, m)
<1>1. Quiet(v, c)
  <2>1. OnlyStops(u) /\ Quiet(u, c)
    BY SettledIsQuiet
  <2>. QED  BY <2>1 DEF Quiet, NoneSpawned, NoTouches
<1>2. TargetsInv(v, c, "idle")
  BY <1>1 DEF TargetsInv, Quiet
<1>. QED  BY <1>2 DEF ModeInv

\* The user toggles the learning of a source.
LEMMA SourceToggled ==
    ASSUME NEW u, Sound(u), NEW c, NEW md, Settled(u, c, md), NEW m \in Mappings,
           u.many = None, u.learnsTarget = None, ~u.filter
    PROVE  LET v == IF u.learnsSource = m THEN StopLearningSource(u) ELSE StartLearningSource(u, m)
           IN  SessionInv(v, c, "idle", md) /\ ManyStep(u, v, "idle")
<1>1. PICK v : v = IF u.learnsSource = m THEN StopLearningSource(u) ELSE StartLearningSource(u, m)
  OBVIOUS
<1>2. u \in UnitState /\ Todo(u) = <<>> /\ m # None
  BY LearningAssumption DEF Sound, Settled
<1>3. Rests(u) \/ LearnsOneSource(u)
  <2>1. ~LearnsOneTarget(u) /\ ~Filters(u) /\ ~LearnsSourceOfOne(u) /\ ~LearnsTargetOfOne(u)
    BY DEF LearnsOneTarget, OnlyTarget, Filters, OnlyFilter, LearnsSourceOfOne, CapturesOne,
           LearnsTargetOfOne, BetweenTwo
  <2>. QED  BY <2>1, SettledIsOneOf DEF Settled, SessionInv
<1>4. SourceIsKept(u) /\ TargetsInv(u, c, "idle") /\ ModeInv(u, md)
  BY DEF Settled, SessionInv
<1>5. CASE u.learnsSource = m
  <2>1. /\ v.learnsSource = None
        /\ Todo(v) = Todo(u) \o End(u, "learnsSource", None)
        /\ Keeps(u, v, {"learnsSource", "tasks"})
    BY <1>1, <1>5, StopSourceDoes
  <2>2. /\ v.many = u.many /\ v.step = u.step /\ v.filter = u.filter
        /\ v.learnsTarget = u.learnsTarget /\ v.observers = u.observers
        /\ v.futures = u.futures /\ v.surfaceTasks = u.surfaceTasks
    BY <2>1 DEF Keeps, Fields
  <2>3. Nothing(v)
    BY <2>1, <2>2 DEF Nothing
  <2>4. LearnsOneSource(u)
    BY <1>2, <1>3, <1>5 DEF Rests, Nothing
  <2>5. Todo(v) = <<Notify("learnsSource")>>
    BY <1>2, <2>1, <2>4, SourceEnds, NothingBefore
  <2>6. InSession(v)
    BY <2>2, <2>3, <2>4, <2>5 DEF InSession, OneSourceEnds, LearnsOneSource
  <2>7. SourceIsKept(v) /\ ModeInv(v, md) /\ ~NeedsQuiet(v, "idle")
    BY <2>3, NothingPromised
  <2>8. TargetsInv(v, c, "idle")
    BY <1>4, <2>2, <2>7, TargetsKept
  <2>. QED  BY <1>1, <2>2, <2>6, <2>7, <2>8, SameMany DEF SessionInv
<1>6. CASE u.learnsSource # m /\ u.learnsSource # None
  <2>1. v = [u EXCEPT !.learnsSource = m]
    BY <1>1, <1>6 DEF StartLearningSource
  <2>2. /\ v.learnsSource = m
        /\ v.many = u.many /\ v.step = u.step /\ v.filter = u.filter
        /\ v.learnsTarget = u.learnsTarget /\ v.observers = u.observers
        /\ v.futures = u.futures /\ v.surfaceTasks = u.surfaceTasks
        /\ v.tasks = u.tasks /\ v.mainTasks = u.mainTasks
    BY <1>2, <2>1 DEF UnitState
  <2>3. LearnsOneSource(u)
    BY <1>3, <1>6 DEF Rests, Nothing
  <2>4. InSession(v)
    BY <1>2, <2>2, <2>3 DEF InSession, LearnsOneSource, OnlySource, Todo
  <2>5. TargetsInv(v, c, "idle")
    <3>1. NeedsQuiet(u, "idle")
      BY <1>6 DEF NeedsQuiet
    <3>. QED  BY <1>4, <2>2, <3>1, TargetsKept
  <2>6. SourceIsKept(v) /\ ModeInv(v, md)
    BY <1>4, <1>6, <2>2 DEF SourceIsKept, ModeInv
  <2>. QED  BY <1>1, <2>2, <2>4, <2>5, <2>6, SameMany DEF SessionInv
<1>7. CASE u.learnsSource = None
  <2>1. PICK ignored : ignored = {}
    OBVIOUS
  <2>2. ignored \in SUBSET Sources
    BY <2>1
  <2>3. v = StartLearningSourceInternal(u, m, TRUE, ignored)
    BY <1>1, <1>2, <1>7, <2>1 DEF StartLearningSource
  <2>4. LET w == StartLearningSourceInternal(u, m, TRUE, ignored)
        IN  /\ Sound(w)
            /\ w.learnsSource = m
            /\ w.observers = Append(u.observers, Capture(FALSE, TRUE, ignored))
            /\ w.mainTasks = Append(u.mainTasks, "StartLearnSource")
            /\ Todo(w) = Todo(u)
            /\ Keeps(u, w, {"learnsSource", "observers", "mainTasks"})
    BY <2>2, NewCaptureDoes
  <2>5. /\ v.learnsSource = m
        /\ v.observers = Append(u.observers, Capture(FALSE, TRUE, {}))
        /\ v.mainTasks = Append(u.mainTasks, "StartLearnSource")
        /\ Todo(v) = Todo(u)
        /\ Keeps(u, v, {"learnsSource", "observers", "mainTasks"})
    BY <2>1, <2>3, <2>4
  <2>6. /\ v.many = u.many /\ v.step = u.step /\ v.filter = u.filter
        /\ v.learnsTarget = u.learnsTarget
        /\ v.futures = u.futures /\ v.surfaceTasks = u.surfaceTasks
    BY <2>5 DEF Keeps, Fields
  <2>7. Rests(u)
    BY <1>3, <1>7 DEF LearnsOneSource, OnlySource
  <2>8. v.observers = <<Capture(FALSE, TRUE, {})>>
    <3>1. \A x : Append(<<>>, x) = <<x>>
      OBVIOUS
    <3>. QED  BY <2>5, <2>7, <3>1 DEF Rests
  <2>9. InSession(v)
    BY <1>2, <2>5, <2>6, <2>8 DEF InSession, LearnsOneSource, OnlySource
  <2>10. SourceIsKept(v)
    BY <2>6 DEF SourceIsKept
  <2>11. LastOf(v.mainTasks, md) = "LearningSource"
    <3>1. u.mainTasks \in Seq(MainTask) /\ "StartLearnSource" \in MainTask
      BY <1>2 DEF UnitState, MainTask
    <3>. QED  BY <2>5, <3>1, LastAppended DEF ModeAfter
  <2>12. TargetsInv(v, c, "idle") /\ ModeInv(v, md)
    <3>1. FinalCapture(v, c) = None
      BY <1>4, <2>6 DEF TargetsInv, FinalCapture
    <3>2. OnlyStops(v) <=> OnlyStops(u)
      BY <2>6 DEF OnlyStops
    <3>. QED  BY <2>6, <2>11, <3>1, <3>2, StartedInSession
  <2>. QED  BY <1>1, <2>6, <2>9, <2>10, <2>12, SameMany DEF SessionInv
<1>. QED  BY <1>5, <1>6, <1>7

\* The user toggles the learning of a target.
LEMMA TargetToggled ==
    ASSUME NEW u, Sound(u), NEW c, NEW md, Settled(u, c, md), NEW m \in Mappings, HasNumbers(u),
           u.many = None, u.learnsSource = None, ~u.filter
    PROVE  LET v == IF u.learnsTarget = m THEN StopLearningTarget(u)
                    ELSE StartLearningTargetInternal(u, m, TRUE)
           IN  SessionInv(v, c, "idle", md) /\ ManyStep(u, v, "idle")
<1>1. PICK v : v = IF u.learnsTarget = m THEN StopLearningTarget(u)
                   ELSE StartLearningTargetInternal(u, m, TRUE)
  OBVIOUS
<1>2. u \in UnitState /\ Todo(u) = <<>> /\ m # None
  BY LearningAssumption DEF Sound, Settled
<1>3. Rests(u) \/ LearnsOneTarget(u)
  <2>1. ~LearnsOneSource(u) /\ ~Filters(u) /\ ~LearnsSourceOfOne(u) /\ ~LearnsTargetOfOne(u)
    BY DEF LearnsOneSource, OnlySource, Filters, OnlyFilter, LearnsSourceOfOne, CapturesOne,
           LearnsTargetOfOne, BetweenTwo
  <2>. QED  BY <2>1, SettledIsOneOf DEF Settled, SessionInv
<1>4. u.observers = <<>>
  BY <1>3 DEF Rests, LearnsOneTarget
<1>5. CASE u.learnsTarget = m
  <2>1. /\ v.learnsTarget = None
        /\ Todo(v) = Todo(u) \o End(u, "learnsTarget", None)
        /\ Keeps(u, v, {"learnsTarget", "tasks", "surfaceTasks", "mainTasks"})
        /\ Stopped(u, v)
    BY <1>1, <1>5, StopTargetDoes
  <2>2. /\ v.many = u.many /\ v.step = u.step /\ v.filter = u.filter
        /\ v.learnsSource = u.learnsSource /\ v.observers = u.observers
    BY <2>1 DEF Keeps, Fields
  <2>3. Nothing(v)
    BY <2>1, <2>2 DEF Nothing
  <2>4. LearnsOneTarget(u)
    BY <1>2, <1>3, <1>5 DEF Rests, Nothing
  <2>5. Todo(v) = <<>>
    <3>1. End(u, "learnsTarget", None) = <<>>
      BY <2>4, TargetEnds
    <3>2. <<>> \o <<>> = <<>>
      OBVIOUS
    <3>. QED  BY <1>2, <2>1, <3>1, <3>2
  <2>6. InSession(v)
    BY <1>4, <2>2, <2>3, <2>5 DEF InSession, Rests
  <2>7. SessionInv(v, c, "idle", md)
    BY <2>1, <2>3, <2>6, StoppedInSession
  <2>. QED  BY <1>1, <2>2, <2>7, SameMany
<1>6. CASE u.learnsTarget # m
  <2>1. v = StartLearningTargetInternal(u, m, TRUE) /\ FreeFutures(u) # {}
    BY <1>1, <1>6 DEF HasNumbers
  <2>2. LET w == StartLearningTargetInternal(u, m, TRUE)
        IN  /\ Sound(w)
            /\ w.learnsTarget = m
            /\ \E f \in FreeFutures(u) : w.futures = [u.futures EXCEPT ![f].is = "spawned"]
            /\ w.mainTasks = IF TRUE THEN Append(u.mainTasks, "DisableControl") ELSE u.mainTasks
            /\ Todo(w) = Todo(u)
            /\ Keeps(u, w, {"learnsTarget", "futures", "mainTasks"})
    BY <2>1, StartTargetDoes, Zenon
  <2>3. /\ v.learnsTarget = m
        /\ \E f \in FreeFutures(u) : v.futures = [u.futures EXCEPT ![f].is = "spawned"]
        /\ v.mainTasks = Append(u.mainTasks, "DisableControl")
        /\ Todo(v) = Todo(u)
        /\ Keeps(u, v, {"learnsTarget", "futures", "mainTasks"})
    BY <2>1, <2>2
  <2>4. /\ v.many = u.many /\ v.step = u.step /\ v.filter = u.filter
        /\ v.learnsSource = u.learnsSource /\ v.observers = u.observers
    BY <2>3 DEF Keeps, Fields
  <2>5. InSession(v)
    BY <1>2, <1>4, <2>3, <2>4 DEF InSession, LearnsOneTarget, OnlyTarget
  <2>6. SourceIsKept(v)
    BY <2>4 DEF SourceIsKept
  <2>7. ModeInv(v, md)
    <3>1. u.mainTasks \in Seq(MainTask) /\ "DisableControl" \in MainTask
      BY <1>2 DEF UnitState, MainTask
    <3>2. LastOf(v.mainTasks, md) = "Disabled"
      BY <2>3, <3>1, LastAppended DEF ModeAfter
    <3>. QED  BY <2>4, <3>2 DEF ModeInv
  <2>8. TargetsInv(v, c, "idle")
    <3>1. PICK f \in Futures : v.futures = [u.futures EXCEPT ![f].is = "spawned"]
      BY <2>3 DEF FreeFutures
    <3>2. u.futures \in [Futures -> Future]
      BY <1>2 DEF UnitState
    <3>3. v.futures[f].is = "spawned"
      BY <3>1, <3>2 DEF Future
    <3>4. \A g \in Futures : v.futures[g].channel = u.futures[g].channel
      BY <3>1, <3>2 DEF Future
    <3>5. ~NoneSpawned(v) /\ NoTouches(v)
      BY <3>3, <3>4 DEF NoneSpawned, NoTouches, Settled
    <3>6. ~NeedsQuiet(v, "idle")
      BY <2>4 DEF NeedsQuiet
    <3>. QED  BY <1>2, <2>3, <3>5, <3>6 DEF TargetsInv
  <2>. QED  BY <1>1, <2>4, <2>5, <2>6, <2>7, <2>8, SameMany DEF SessionInv
<1>. QED  BY <1>5, <1>6

\* The user toggles the filter.
LEMMA FilterToggled ==
    ASSUME NEW u, Sound(u), NEW c, NEW md, Settled(u, c, md),
           u.many = None, u.learnsSource = None, u.learnsTarget = None
    PROVE  LET v == IF u.filter THEN StopFilterLearning(u)
                    ELSE [SendToMain(u, "StartLearnSource") EXCEPT
                            !.filter = TRUE, !.observers = Append(@, Capture(TRUE, TRUE, {}))]
           IN  SessionInv(v, c, "idle", md) /\ ManyStep(u, v, "idle")
<1>1. PICK v : v = IF u.filter THEN StopFilterLearning(u)
                   ELSE [SendToMain(u, "StartLearnSource") EXCEPT
                            !.filter = TRUE, !.observers = Append(@, Capture(TRUE, TRUE, {}))]
  OBVIOUS
<1>2. u \in UnitState /\ Todo(u) = <<>>
  BY DEF Sound, Settled
<1>3. Rests(u) \/ Filters(u)
  <2>1. ~LearnsOneSource(u) /\ ~LearnsOneTarget(u) /\ ~LearnsSourceOfOne(u) /\ ~LearnsTargetOfOne(u)
    BY DEF LearnsOneSource, OnlySource, LearnsOneTarget, OnlyTarget, LearnsSourceOfOne, CapturesOne,
           LearnsTargetOfOne, BetweenTwo
  <2>. QED  BY <2>1, SettledIsOneOf DEF Settled, SessionInv
<1>4. TargetsInv(u, c, "idle")
  BY DEF Settled, SessionInv
<1>5. CASE u.filter
  <2>1. /\ v.filter = FALSE
        /\ Todo(v) = Todo(u) \o End(u, "filter", FALSE)
        /\ Keeps(u, v, {"filter", "tasks"})
    BY <1>1, <1>5, StopFilterDoes
  <2>2. /\ v.many = u.many /\ v.step = u.step /\ v.learnsSource = u.learnsSource
        /\ v.learnsTarget = u.learnsTarget /\ v.observers = u.observers
        /\ v.futures = u.futures /\ v.surfaceTasks = u.surfaceTasks
    BY <2>1 DEF Keeps, Fields
  <2>3. Nothing(v)
    BY <2>1, <2>2 DEF Nothing
  <2>4. u.observers = <<Capture(TRUE, TRUE, {})>>
    BY <1>3, <1>5 DEF Rests, Nothing, Filters
  <2>5. End(u, "filter", FALSE) = <<Notify("filter")>>
    <3>1. {} \in SUBSET Sources
      OBVIOUS
    <3>2. ObserversOf(u, "filter") # <<>>
      BY <2>4, <3>1, CaptureIsTold
    <3>3. u["filter"] = TRUE
      BY <1>2, <1>5 DEF UnitState
    <3>. QED  BY <3>2, <3>3 DEF End
  <2>6. Todo(v) = <<Notify("filter")>>
    BY <1>2, <2>1, <2>5, NothingBefore
  <2>7. InSession(v)
    BY <2>2, <2>3, <2>4, <2>6 DEF InSession, FilterEnds
  <2>8. SourceIsKept(v) /\ ModeInv(v, md) /\ ~NeedsQuiet(v, "idle")
    BY <2>3, NothingPromised
  <2>9. TargetsInv(v, c, "idle")
    BY <1>4, <2>2, <2>8, TargetsKept
  <2>. QED  BY <1>1, <2>2, <2>7, <2>8, <2>9, SameMany DEF SessionInv
<1>6. CASE ~u.filter
  <2>1. PICK b : b = SendToMain(u, "StartLearnSource")
    OBVIOUS
  <2>2. "StartLearnSource" \in MainTask
    BY DEF MainTask
  <2>3. /\ Sound(b)
        /\ b.mainTasks = Append(u.mainTasks, "StartLearnSource")
        /\ Todo(b) = Todo(u)
        /\ Keeps(u, b, {"mainTasks"})
    BY <2>1, <2>2, SendingDoes
  <2>4. /\ b.many = u.many /\ b.step = u.step /\ b.learnsSource = u.learnsSource
        /\ b.learnsTarget = u.learnsTarget /\ b.observers = u.observers
        /\ b.futures = u.futures /\ b.surfaceTasks = u.surfaceTasks
    BY <2>3 DEF Keeps, Fields
  <2>5. b \in UnitState
    BY <2>3 DEF Sound
  <2>6. PICK q : q = Append(b.observers, Capture(TRUE, TRUE, {}))
    OBVIOUS
  <2>7. v = [b EXCEPT !.filter = TRUE, !.observers = q]
    BY <1>1, <1>6, <2>1, <2>6
  <2>8. /\ v.filter = TRUE /\ v.observers = q
        /\ v.many = b.many /\ v.step = b.step /\ v.learnsSource = b.learnsSource
        /\ v.learnsTarget = b.learnsTarget /\ v.tasks = b.tasks /\ v.mainTasks = b.mainTasks
        /\ v.futures = b.futures /\ v.surfaceTasks = b.surfaceTasks
    BY <2>5, <2>7 DEF UnitState
  <2>9. Todo(v) = <<>>
    BY <1>2, <2>3, <2>8 DEF Todo
  <2>10. q = <<Capture(TRUE, TRUE, {})>>
    <3>1. \A x : Append(<<>>, x) = <<x>>
      OBVIOUS
    <3>2. u.observers = <<>>
      BY <1>3, <1>6 DEF Rests, Filters, OnlyFilter
    <3>. QED  BY <2>4, <2>6, <3>1, <3>2
  <2>11. InSession(v)
    BY <2>4, <2>8, <2>9, <2>10 DEF InSession, Filters, OnlyFilter
  <2>12. SourceIsKept(v)
    BY <2>4, <2>8 DEF SourceIsKept
  <2>13. LastOf(v.mainTasks, md) = "LearningSource"
    <3>1. u.mainTasks \in Seq(MainTask)
      BY <1>2 DEF UnitState
    <3>. QED  BY <2>2, <2>3, <2>8, <3>1, LastAppended DEF ModeAfter
  <2>14. TargetsInv(v, c, "idle") /\ ModeInv(v, md)
    <3>1. FinalCapture(v, c) = None
      BY <1>4, <2>4, <2>8 DEF TargetsInv, FinalCapture
    <3>2. OnlyStops(v) <=> OnlyStops(u)
      BY <2>4, <2>8 DEF OnlyStops
    <3>. QED  BY <2>4, <2>8, <2>13, <3>1, <3>2, StartedInSession
  <2>. QED  BY <1>1, <2>4, <2>8, <2>11, <2>12, <2>14, SameMany DEF SessionInv
<1>. QED  BY <1>5, <1>6

\* "Learn many" begins.
LEMMA ManyStarted ==
    ASSUME NEW u, Sound(u), NEW c, NEW md, Settled(u, c, md), HasNumbers(u),
           NEW k \in Compartments,
           u.many = None, u.learnsSource = None, u.learnsTarget = None, ~u.filter
    PROVE  LET v == StartLearningManyMappings(u, k)
           IN  SessionInv(v, c, "idle", md) /\ ManyStep(u, v, "idle")
<1>1. PICK v : v = StartLearningManyMappings(u, k)
  OBVIOUS
<1>2. u \in UnitState /\ Todo(u) = <<>> /\ FreshMappings(u, k) # {} /\ k \in {"Controller", "Main"}
  BY DEF Sound, Settled, HasNumbers, Compartments
<1>3. u.observers = <<>>
  <2>1. Rests(u)
    <3>1. ~LearnsOneSource(u) /\ ~LearnsOneTarget(u) /\ ~Filters(u)
          /\ ~LearnsSourceOfOne(u) /\ ~LearnsTargetOfOne(u)
      BY DEF LearnsOneSource, OnlySource, LearnsOneTarget, OnlyTarget, Filters, OnlyFilter,
             LearnsSourceOfOne, CapturesOne, LearnsTargetOfOne, BetweenTwo
    <3>. QED  BY <3>1, SettledIsOneOf DEF Settled, SessionInv
  <2>. QED  BY <2>1 DEF Rests
<1>4. PICK n : n = v.many
  OBVIOUS
<1>5. /\ n \in FreshMappings(u, k)
      /\ v.mappings = [u.mappings EXCEPT ![n].is = "present"]
      /\ v.step = "source"
      /\ v.learnsSource = n /\ v.learnsTarget = None
      /\ v.observers = Append(
            IF k = "Main"
            THEN Append(Append(u.observers, Capture(FALSE, FALSE, {})), AfterSource(n))
            ELSE Append(u.observers, Capture(FALSE, FALSE, LearnedSources(u, k))),
            AfterMapping(k))
      /\ \A m : LastOf(v.mainTasks, m) = "LearningSource"
      /\ Todo(v) = Todo(u)
      /\ v.filter = u.filter
      /\ v.futures = u.futures
      /\ v.surfaceTasks # <<>> /\ v.surfaceTasks[Len(v.surfaceTasks)] = None
      /\ OnlyStops(u) => OnlyStops(v)
  <2>1. LET w == StartLearningManyMappings(u, k)
        IN  /\ Sound(w)
            /\ w.many \in FreshMappings(u, k)
            /\ w.mappings = [u.mappings EXCEPT ![w.many].is = "present"]
            /\ w.step = "source"
            /\ w.learnsSource = w.many /\ w.learnsTarget = None
            /\ w.observers = Append(
                IF k = "Main"
                THEN Append(Append(u.observers, Capture(FALSE, FALSE, {})), AfterSource(w.many))
                ELSE Append(u.observers, Capture(FALSE, FALSE, LearnedSources(u, k))),
                AfterMapping(k))
            /\ \A m : LastOf(w.mainTasks, m) = "LearningSource"
            /\ Todo(w) = Todo(u)
            /\ w.filter = u.filter
            /\ w.futures = u.futures
            /\ w.surfaceTasks # <<>> /\ w.surfaceTasks[Len(w.surfaceTasks)] = None
            /\ OnlyStops(u) => OnlyStops(w)
    BY <1>2, StartManyDoes, Zenon
  <2>. QED  BY <1>1, <1>4, <2>1
<1>6. n \in Mappings /\ n # None /\ Compartment[n] = k
  <2>1. n \in Mappings /\ Compartment[n] = k
    BY <1>5 DEF FreshMappings
  <2>. QED  BY <2>1, LearningAssumption
<1>7. /\ LearnedSources(v, k) \subseteq LearnedSources(u, k)
      /\ v.mappings[n].is = "present"
  <2>1. u.mappings \in [Mappings -> MappingState] /\ u.mappings[n] = Fresh
    BY <1>2, <1>5 DEF UnitState, FreshMappings
  <2>2. v.mappings = [u.mappings EXCEPT ![n].is = "present"]
    BY <1>5
  <2>3. v.mappings[n].is = "present" /\ v.mappings[n].source = NoSource
    BY <1>6, <2>1, <2>2 DEF Fresh
  <2>4. \A o \in Mappings \ {n} : v.mappings[o] = u.mappings[o]
    BY <1>6, <2>1, <2>2
  <2>5. LearnedSources(v, k) \subseteq LearnedSources(u, k)
    BY <2>3, <2>4, FreshHasNoSource
  <2>. QED  BY <2>3, <2>5
<1>8. CapturesOne(v)
  <2>1. \A x : Append(<<>>, x) = <<x>>
    OBVIOUS
  <2>2. CASE k = "Main"
    <3>1. PICK t : t = AfterMapping("Main")
      OBVIOUS
    <3>2. PICK a : a = Capture(FALSE, FALSE, {})
      OBVIOUS
    <3>3. PICK s : s = AfterSource(n)
      OBVIOUS
    <3>4. Append(<<a>>, s) = <<a, s>>
      BY Pairs
    <3>5. Append(<<a, s>>, t) = <<a, s, t>>
      BY Triples
    <3>6. v.observers = Append(Append(<<a>>, s), t)
      BY <1>3, <1>5, <2>1, <2>2, <3>1, <3>2, <3>3
    <3>7. v.observers = <<Capture(FALSE, FALSE, {}), AfterSource(n), AfterMapping("Main")>>
      BY <3>1, <3>2, <3>3, <3>4, <3>5, <3>6
    <3>8. v.observers \in MainCapturing(n)
      BY <3>7 DEF MainCapturing
    <3>. QED  BY <1>4, <1>5, <1>6, <2>2, <3>8 DEF CapturesOne
  <2>3. CASE k = "Controller"
    <3>1. PICK ignored : ignored = LearnedSources(u, k)
      OBVIOUS
    <3>2. ignored \in SUBSET Sources
      BY <1>2, <3>1, LearnedAreSources
    <3>3. PICK t : t = AfterMapping("Controller")
      OBVIOUS
    <3>4. PICK a : a = Capture(FALSE, FALSE, ignored)
      OBVIOUS
    <3>5. Append(<<a>>, t) = <<a, t>>
      BY Pairs
    <3>6. v.observers = Append(<<a>>, t)
      BY <1>3, <1>5, <2>1, <2>3, <3>1, <3>3, <3>4
    <3>7. v.observers = <<Capture(FALSE, FALSE, ignored), AfterMapping("Controller")>>
      BY <3>3, <3>4, <3>5, <3>6
    <3>8. v.observers \in ControllerCapturing(ignored)
      BY <3>7 DEF ControllerCapturing
    <3>9. LearnedSources(v, "Controller") \subseteq ignored
      BY <1>7, <2>3, <3>1
    <3>. QED  BY <1>4, <1>5, <1>6, <2>3, <3>2, <3>8, <3>9 DEF CapturesOne
  <2>. QED  BY <1>2, <2>2, <2>3
<1>9. InSession(v)
  <2>1. LearnsSourceOfOne(v)
    BY <1>2, <1>4, <1>5, <1>8 DEF LearnsSourceOfOne
  <2>. QED  BY <2>1 DEF InSession
<1>10. SourceIsKept(v)
  BY <1>4, <1>5, <1>6, <1>7 DEF SourceIsKept
<1>11. TargetsInv(v, c, "idle") /\ ModeInv(v, md)
  <2>1. FinalCapture(v, c) = None
    BY <1>5 DEF FinalCapture
  <2>2. v.learnsTarget = None /\ v.futures = u.futures /\ (OnlyStops(u) => OnlyStops(v))
        /\ LastOf(v.mainTasks, md) = "LearningSource"
    BY <1>5
  <2>. QED  BY <2>1, <2>2, StartedInSession
<1>12. ManyStep(u, v, "idle")
  BY DEF ManyStep
<1>. QED  BY <1>1, <1>9, <1>10, <1>11, <1>12 DEF SessionInv

\* The filter isn't learned, so there is nothing to stop.
LEMMA NotFiltering ==
    ASSUME NEW u \in UnitState, ~u.filter
    PROVE  StopFilterLearning(u) = u
<1>1. [u EXCEPT !["filter"] = FALSE] = u
  BY DEF UnitState
<1>2. u["filter"] = FALSE
  BY DEF UnitState
<1>. QED  BY <1>1, <1>2 DEF StopFilterLearning, Clear

\* Another preset: mappings are replaced after learning was stopped.
LEMMA CompartmentReplaced ==
    ASSUME NEW u, Sound(u), NEW w, w = StopMappingActions(u),
           NEW ms \in [Mappings -> MappingState], NEW v, v = [w EXCEPT !.mappings = ms],
           NEW c, NEW m, Settled(u, c, m), u.many = None, ~u.filter
    PROVE  SessionInv(v, c, "idle", m) /\ ManyStep(u, v, "idle")
<1>1. /\ Sound(w)
      /\ w.learnsSource = None /\ w.learnsTarget = None
      /\ Todo(w) = (Todo(u) \o End(u, "learnsSource", None)) \o End(u, "learnsTarget", None)
      /\ Keeps(u, w, {"learnsSource", "learnsTarget", "tasks", "surfaceTasks", "mainTasks"})
      /\ Stopped(u, w)
  BY StopActionsDoes
<1>2. /\ Todo(v) = Todo(w)
      /\ Keeps(w, v, {"mappings"})
      /\ HasReturned(w) => HasReturned(v)
  BY <1>1, MappingsDo
<1>3. v.learnsSource = None /\ v.learnsTarget = None /\ v.futures = w.futures
      /\ v.surfaceTasks = w.surfaceTasks
  BY <1>1, <1>2 DEF Keeps, Fields
<1>4. Stopped(u, v)
  BY <1>1, <1>2, <1>3 DEF Stopped, OnlyStops
<1>5. Keeps(u, v, {"learnsSource", "learnsTarget", "tasks", "surfaceTasks", "mainTasks",
                   "mappings"})
  BY <1>1, <1>2 DEF Keeps
<1>6. Todo(v) = (Todo(u) \o End(u, "learnsSource", None)) \o End(u, "learnsTarget", None)
  BY <1>1, <1>2
<1>. QED  BY <1>3, <1>4, <1>5, <1>6, StopsOne

\* "Learn many" was stopped, and once more when its panel closed.
LEMMA ManyStoppedTwice ==
    ASSUME NEW u, Sound(u), NEW c, NEW m, Settled(u, c, m), u.many # None
    PROVE  LET v == StopLearningManyMappings(StopLearningManyMappings(u))
           IN  SessionInv(v, c, "idle", m) /\ ManyStep(u, v, "idle")
<1>1. PICK w : w = StopLearningManyMappings(u)
  OBVIOUS
<1>2. PICK v : v = StopLearningManyMappings(w)
  OBVIOUS
<1>3. Sound(w) /\ Nothing(w) /\ InSession(w) /\ Stopped(u, w) /\ ManyStep(u, w, "idle")
  BY <1>1, StopsMany
<1>4. Nothing(v) /\ InSession(v) /\ Stopped(w, v) /\ v.mappings = w.mappings
  BY <1>2, <1>3, StopsOnceMore
<1>5. Stopped(u, v)
  <2>1. w.futures = u.futures /\ (OnlyStops(u) => OnlyStops(w))
    BY <1>3 DEF Stopped
  <2>. QED  BY <1>4, <2>1, StoppedBoth
<1>6. SessionInv(v, c, "idle", m)
  BY <1>4, <1>5, StoppedInSession
<1>7. ManyStep(u, v, "idle")
  <2>1. v.many = None /\ w.many = None
    BY <1>3, <1>4 DEF Nothing
  <2>2. u.many \notin Present(w) \/ w.mappings[u.many].source # NoSource
    BY <1>3, <2>1 DEF ManyStep
  <2>3. u.many \notin Present(v) \/ v.mappings[u.many].source # NoSource
    BY <1>4, <2>2 DEF Present
  <2>. QED  BY <2>1, <2>3 DEF ManyStep
<1>. QED  BY <1>1, <1>2, <1>6, <1>7

\* What a click has to show.
LEMMA ClickInSession ==
    ASSUME LearningInv, disturbed \/ SessionInv(unit, capturing, phase, mode),
           NEW new, NEW kinds, Click(new, kinds), ~disturbed',
           SessionInv(new, capturing, "idle", mode), ManyStep(unit, new, "idle")
    PROVE  SessionInv(unit', capturing', phase', mode') /\ ManyStep(unit, unit', phase)
BY ProperClick

\* A proper click keeps the unit in session.
LEMMA UserInSession ==
    ASSUME LearningInv, disturbed \/ SessionInv(unit, capturing, phase, mode), User, ~disturbed'
    PROVE  SessionInv(unit', capturing', phase', mode') /\ ManyStep(unit, unit', phase)
<1>. DEFINE Goal == SessionInv(unit', capturing', phase', mode') /\ ManyStep(unit, unit', phase)
            Fits(v) == SessionInv(v, capturing, "idle", mode) /\ ManyStep(unit, v, "idle")
<1>1. Sound(unit) /\ Present(unit) \subseteq Mappings
  BY DEF LearningInv, Present
<1>2. ASSUME NEW m \in Present(unit), ToggleLearningSource(m) PROVE Goal
  <2>1. PICK v : v = IF unit.learnsSource = m THEN StopLearningSource(unit)
                     ELSE StartLearningSource(unit, m)
    OBVIOUS
  <2>2. Click(v, {"source"})
    BY <1>2, <2>1 DEF ToggleLearningSource
  <2>3. Settled(unit, capturing, mode) /\ InProgress(unit) \subseteq {"source"}
    BY <2>2, ProperClick
  <2>4. unit.many = None /\ unit.learnsTarget = None /\ ~unit.filter
    BY <2>3, OneKind
  <2>5. Fits(v)
    BY <1>1, <2>1, <2>3, <2>4, SourceToggled
  <2>. QED  BY <2>2, <2>5, ClickInSession
<1>3. ASSUME NEW m \in Present(unit), ToggleLearningTarget(m) PROVE Goal
  <2>1. PICK v : v = IF unit.learnsTarget = m THEN StopLearningTarget(unit)
                     ELSE StartLearningTargetInternal(unit, m, TRUE)
    OBVIOUS
  <2>2. Click(v, {"target"})
    BY <1>3, <2>1 DEF ToggleLearningTarget
  <2>3. /\ Settled(unit, capturing, mode) /\ InProgress(unit) \subseteq {"target"}
        /\ HasNumbers(unit)
    BY <2>2, ProperClick
  <2>4. unit.many = None /\ unit.learnsSource = None /\ ~unit.filter
    BY <2>3, OneKind
  <2>5. Fits(v)
    BY <1>1, <2>1, <2>3, <2>4, TargetToggled
  <2>. QED  BY <2>2, <2>5, ClickInSession
<1>4. ASSUME NEW m \in Present(unit), ClickRemoveMapping(m) PROVE Goal
  <2>1. PICK v : v = RemoveMapping(unit, m)
    OBVIOUS
  <2>2. Click(v, {"source", "target"})
    BY <1>4, <2>1 DEF ClickRemoveMapping
  <2>3. /\ Settled(unit, capturing, mode)
        /\ \E kind \in {"source", "target"} : InProgress(unit) \subseteq {kind}
    BY <2>2, ProperClick
  <2>4. unit.many = None /\ ~unit.filter
    BY <2>3, OneKind
  <2>5. Fits(v)
    BY <1>1, <2>1, <2>3, <2>4, RemovingDoes, StopsOne
  <2>. QED  BY <2>2, <2>5, ClickInSession
<1>5. ASSUME NEW k \in Compartments, ToggleLearnManyMappings(k) PROVE Goal
  <2>1. PICK w : w = StopFilterLearning(unit)
    OBVIOUS
  <2>2. PICK v : v = IF unit.many # None THEN StopLearningManyMappings(StopLearningManyMappings(w))
                     ELSE StartLearningManyMappings(w, k)
    OBVIOUS
  <2>3. Click(v, {"many"})
    BY <1>5, <2>1, <2>2 DEF ToggleLearnManyMappings
  <2>4. /\ Settled(unit, capturing, mode) /\ InProgress(unit) \subseteq {"many"}
        /\ HasNumbers(unit)
    BY <2>3, ProperClick
  <2>5. /\ ~unit.filter
        /\ unit.many = None => unit.learnsSource = None /\ unit.learnsTarget = None
    BY <2>4, OneKind
  <2>6. w = unit
    BY <1>1, <2>1, <2>5, NotFiltering DEF Sound
  <2>7. Fits(v)
    <3>1. CASE unit.many # None
      BY <1>1, <2>2, <2>4, <2>6, <3>1, ManyStoppedTwice
    <3>2. CASE unit.many = None
      BY <1>1, <2>2, <2>4, <2>5, <2>6, <3>2, ManyStarted
    <3>. QED  BY <3>1, <3>2
  <2>. QED  BY <2>3, <2>7, ClickInSession
<1>6. ASSUME NEW k \in Compartments, ReplaceCompartment(k) PROVE Goal
  <2>1. PICK w : w = StopMappingActions(unit)
    OBVIOUS
  <2>2. PICK ms : ms = [m \in Mappings |-> IF m \in Present(unit) /\ Compartment[m] = k
                                           THEN [w.mappings[m] EXCEPT !.is = "removed"]
                                           ELSE w.mappings[m]]
    OBVIOUS
  <2>3. ms \in [Mappings -> MappingState]
    <3>1. Sound(w)
      BY <1>1, <2>1, StopActionsDoes
    <3>2. w.mappings \in [Mappings -> MappingState]
      BY <3>1 DEF Sound, UnitState
    <3>. QED  BY <2>2, <3>2 DEF MappingState
  <2>4. PICK v : v = [w EXCEPT !.mappings = ms]
    OBVIOUS
  <2>5. Click(v, {"source", "target"})
    BY <1>6, <2>1, <2>2, <2>4 DEF ReplaceCompartment
  <2>6. /\ Settled(unit, capturing, mode)
        /\ \E kind \in {"source", "target"} : InProgress(unit) \subseteq {kind}
    BY <2>5, ProperClick
  <2>7. unit.many = None /\ ~unit.filter
    BY <2>6, OneKind
  <2>8. Fits(v)
    BY <1>1, <2>1, <2>3, <2>4, <2>6, <2>7, CompartmentReplaced
  <2>. QED  BY <2>5, <2>8, ClickInSession
<1>7. ASSUME DestroyMessagePanel PROVE Goal
  <2>1. PICK v : v = StopLearningManyMappings(unit)
    OBVIOUS
  <2>2. Click(v, {"many"}) /\ unit.many # None
    BY <1>7, <2>1 DEF DestroyMessagePanel
  <2>3. Settled(unit, capturing, mode)
    BY <2>2, ProperClick
  <2>4. Nothing(v) /\ InSession(v) /\ Stopped(unit, v) /\ ManyStep(unit, v, "idle")
    BY <1>1, <2>1, <2>2, <2>3, StopsMany
  <2>5. Fits(v)
    BY <2>3, <2>4, StoppedInSession
  <2>. QED  BY <2>2, <2>5, ClickInSession
<1>8. ASSUME ToggleLearnSourceFilter PROVE Goal
  <2>1. PICK v : v = IF unit.filter THEN StopFilterLearning(unit)
                     ELSE [SendToMain(unit, "StartLearnSource") EXCEPT
                            !.filter = TRUE, !.observers = Append(@, Capture(TRUE, TRUE, {}))]
    OBVIOUS
  <2>2. Click(v, {"filter"})
    BY <1>8, <2>1 DEF ToggleLearnSourceFilter
  <2>3. Settled(unit, capturing, mode) /\ InProgress(unit) \subseteq {"filter"}
    BY <2>2, ProperClick
  <2>4. unit.many = None /\ unit.learnsSource = None /\ unit.learnsTarget = None
    BY <2>3, OneKind
  <2>5. Fits(v)
    BY <1>1, <2>1, <2>3, <2>4, FilterToggled
  <2>. QED  BY <2>2, <2>5, ClickInSession
<1>. HIDE DEF Goal
<1>9. Goal
  BY <1>2, <1>3, <1>4, <1>5, <1>6, <1>7, <1>8 DEF User
<1>. QED  BY <1>9 DEF Goal

------------------------------------------------------------------------------
(* The second invariant.                                                   *)

\* As long as the user doesn't mix kinds of learning and isn't too fast, the
\* unit is in one of the situations of a session.
SessionAlways == LearningInv /\ (disturbed \/ SessionInv(unit, capturing, phase, mode))

\* In the beginning, the unit rests.
LEMMA SessionStarts == Init => SessionAlways
<1>. SUFFICES ASSUME Init PROVE SessionInv(unit, capturing, phase, mode)
  BY LearningStarts DEF SessionAlways
<1>1. /\ Nothing(unit) /\ unit.observers = <<>> /\ unit.tasks = <<>> /\ unit.surfaceTasks = <<>>
      /\ capturing = None /\ phase = "idle"
  BY DEF Init, Nothing
<1>2. Todo(unit) = <<>>
  BY <1>1, SelectionOfNone DEF Todo
<1>3. InSession(unit)
  BY <1>1, <1>2 DEF InSession, Rests
<1>4. SourceIsKept(unit) /\ ModeInv(unit, mode) /\ ~NeedsQuiet(unit, phase)
  BY <1>1, NothingPromised
<1>5. NoneSpawned(unit)
  BY DEF Init, NoneSpawned, Gone
<1>6. TargetsInv(unit, capturing, phase)
  BY <1>1, <1>4, <1>5 DEF TargetsInv, Nothing, FinalCapture
<1>. QED  BY <1>3, <1>4, <1>6 DEF SessionInv

\* One step of whatever kind.
LEMMA StepInSession ==
    ASSUME SessionAlways, [Next]_vars, ~disturbed'
    PROVE  SessionInv(unit', capturing', phase', mode') /\ ManyStep(unit, unit', phase)
<1>1. LearningInv /\ (disturbed \/ SessionInv(unit, capturing, phase, mode))
  BY DEF SessionAlways
<1>2. CASE User
  BY <1>1, <1>2, UserInSession
<1>3. CASE Environment
  <2>1. disturbed => disturbed'
    BY <1>3 DEF Environment, SendCapturedMidi, ProcessIncomingMsgForLearning, ProcessTouchedTarget,
                Event
  <2>. QED  BY <1>1, <1>3, <2>1, EnvironmentInSession
<1>4. CASE MainLoop
  <2>1. disturbed' = disturbed
    BY <1>4 DEF MainLoop, StartCycle, RunTask, EndTasks, PollFuture, EndFutures, ProcessMainTasks,
                ProcessCapturedMidi, ProcessNormalTasks, envVars
  <2>. QED  BY <1>1, <1>4, <2>1, MainLoopInSession
<1>5. CASE ProcessNormalRealTimeTask
  <2>1. disturbed' = disturbed
    BY <1>5 DEF ProcessNormalRealTimeTask, envVars
  <2>. QED  BY <1>1, <1>5, <2>1, AudioThreadInSession
<1>6. CASE UNCHANGED vars
  <2>1. unit' = unit /\ capturing' = capturing /\ phase' = phase /\ mode' = mode
        /\ disturbed' = disturbed
    BY <1>6 DEF vars
  <2>2. ManyStep(unit, unit, phase)
    BY SameMany
  <2>. QED  BY <1>1, <2>1, <2>2
<1>. QED  BY <1>2, <1>3, <1>4, <1>5, <1>6 DEF Next

\* The invariant holds.
LEMMA SessionInvariant == Spec => []SessionAlways
<1>1. SessionAlways /\ [Next]_vars => SessionAlways'
  <2>. SUFFICES ASSUME SessionAlways, [Next]_vars PROVE SessionAlways'
    OBVIOUS
  <2>1. LearningInv'
    <3>1. LearningInv
      BY DEF SessionAlways
    <3>2. CASE UNCHANGED vars
      BY <3>1, <3>2 DEF LearningInv, vars
    <3>3. CASE Next
      BY <3>1, <3>3, MainLoopIsSound, AudioThreadIsSound, EnvironmentIsSound, UserIsSound DEF Next
    <3>. QED  BY <3>2, <3>3
  <2>2. CASE disturbed'
    BY <2>1, <2>2 DEF SessionAlways
  <2>3. CASE ~disturbed'
    BY <2>1, <2>3, StepInSession DEF SessionAlways
  <2>. QED  BY <2>2, <2>3
<1>. QED  BY <1>1, SessionStarts, PTL DEF Spec

\* When everything has been processed, the unit rests or learns one thing, and
\* the audio thread is in the mode of the main processor.
LEMMA SettledInSession ==
    ASSUME SessionAlways, IsSettled, ~disturbed
    PROVE  /\ Settled(unit, capturing, mode) /\ rtMode = mode
           /\ \/ Rests(unit) \/ LearnsOneSource(unit) \/ LearnsOneTarget(unit) \/ Filters(unit)
              \/ LearnsSourceOfOne(unit) \/ LearnsTargetOfOne(unit)
<1>1. /\ phase = "idle" /\ unit.tasks = <<>> /\ unit.surfaceTasks = <<>> /\ unit.mainTasks = <<>>
      /\ rtTasks = <<>> /\ NoneSpawned(unit) /\ NoTouches(unit)
  BY DEF IsSettled, IsReady, NoneSpawned, NoTouches
<1>2. LearningInv /\ SessionInv(unit, capturing, "idle", mode)
  BY <1>1 DEF SessionAlways
<1>3. Todo(unit) = <<>>
  BY <1>1, SelectionOfNone DEF Todo
<1>4. rtMode = mode
  BY <1>1, <1>2 DEF LearningInv, LastOf
<1>5. InSession(unit)
  BY <1>2 DEF SessionInv
<1>. QED  BY <1>1, <1>2, <1>3, <1>4, <1>5, SettledIsOneOf DEF Settled

------------------------------------------------------------------------------
(* Theorems.                                                               *)

\* The invariant holds.
LEMMA LearningInvariant == Spec => []LearningInv
<1>1. ASSUME LearningInv, UNCHANGED vars PROVE LearningInv'
  BY <1>1 DEF LearningInv, vars
<1>2. LearningInv /\ [Next]_vars => LearningInv'
  BY <1>1, MainLoopIsSound, AudioThreadIsSound, EnvironmentIsSound, UserIsSound DEF Next
<1>. QED  BY <1>2, LearningStarts, PTL DEF Spec

\* Types: what a unit learns, who observes what and what is on its way always
\* makes sense (application/unit_model.rs).
THEOREM LearningTypes == Spec => []TypeOK
<1>1. LearningInv => TypeOK
  <2>. SUFFICES ASSUME LearningInv PROVE TypeOK
    OBVIOUS
  <2>1. unit \in UnitState
    BY DEF LearningInv, Sound
  <2>2. unit.mappings \in [Mappings -> MappingState] /\ unit.observers \in Seq(Observer)
    BY <2>1 DEF UnitState
  <2>3. \A o \in ToSet(unit.observers) : o \in Observer
    BY <2>2 DEF ToSet
  <2>4. /\ {unit.learnsSource, unit.learnsTarget, unit.many} \subseteq Mappings \cup {None}
        /\ unit.step \in {"source", "target"} /\ unit.filter \in BOOLEAN
    BY <2>1 DEF UnitState, Numbers
  <2>5. ToSet(captured) \subseteq Sources
    BY DEF LearningInv, ToSet
  <2>. QED  BY <2>2, <2>3, <2>4, <2>5 DEF TypeOK, MappingState, LearningInv, Modes
<1>. QED  BY <1>1, LearningInvariant, PTL

\* When nothing is learned anymore and everything has been processed, both
\* processors control again (start_learning_source_internal and its relatives
\* in application/unit_model.rs, process_normal_tasks_from_session).
THEOREM ControlAlwaysReturns == Spec => []ControlReturns
<1>1. LearningInv => ControlReturns
  <2>. SUFFICES ASSUME LearningInv, IsSettled, InProgress(unit) = {}
                PROVE  mode = "Controlling" /\ rtMode = "Controlling"
    BY DEF ControlReturns
  <2>1. /\ unit.many = None /\ unit.learnsSource = None /\ unit.learnsTarget = None
        /\ ~unit.filter
    BY DEF InProgress
  <2>2. unit.tasks = <<>> /\ unit.mainTasks = <<>> /\ rtTasks = <<>>
    BY DEF IsSettled
  <2>3. \A p : ~WillEnd(unit, p)
    BY <2>2 DEF WillEnd, ToSet
  <2>4. ToSet(unit.observers) \cap Captures = {}
    BY <2>1, <2>3 DEF LearningInv, Sound, CapturesEnd
  <2>5. ~WillReturn(unit)
    BY <2>1, <2>4 DEF WillReturn
  <2>6. mode = "Controlling"
    BY <2>2, <2>5 DEF LearningInv, Owes, LastOf
  <2>7. rtMode = mode
    BY <2>2 DEF LearningInv, LastOf
  <2>. QED  BY <2>6, <2>7
<1>. QED  BY <1>1, LearningInvariant, PTL

\* What is shown as being learned is learned next
\* (start_learning_source_internal, start_learning_target_internal in
\* application/unit_model.rs, toggle_learn_source_filter in header_panel.rs).
THEOREM LearningIsAlwaysEffective == Spec => []LearningIsEffective
<1>1. SessionAlways => LearningIsEffective
  <2>. SUFFICES ASSUME SessionAlways, IsSettled, ~disturbed
                PROVE  /\ unit.learnsSource # None \/ unit.filter =>
                            /\ mode = "LearningSource" /\ rtMode = "LearningSource"
                            /\ ObserversOf(unit, IF unit.filter THEN "filter"
                                                 ELSE "learnsSource") # <<>>
                       /\ unit.learnsTarget # None =>
                            /\ capturing # None
                            /\ mode # "Controlling" /\ rtMode # "Controlling"
    BY DEF LearningIsEffective
  <2>1. Settled(unit, capturing, mode) /\ rtMode = mode
    BY SettledInSession
  <2>2. LastOf(unit.mainTasks, mode) = mode /\ FinalCapture(unit, capturing) = capturing
        /\ NoneSpawned(unit)
    BY <2>1 DEF Settled, LastOf, FinalCapture
  <2>3. ModeInv(unit, mode) /\ TargetsInv(unit, capturing, "idle")
    BY <2>1 DEF Settled, SessionInv
  <2>4. unit \in UnitState
    BY DEF SessionAlways, LearningInv, Sound
  <2>5. unit.learnsSource # None /\ ~unit.filter => ObserversOf(unit, "learnsSource") # <<>>
    <3>. SUFFICES ASSUME unit.learnsSource # None PROVE ObserversOf(unit, "learnsSource") # <<>>
      OBVIOUS
    <3>1. LearnsOneSource(unit) \/ LearnsSourceOfOne(unit)
      BY <2>1, WhoLearnsSource DEF Settled, SessionInv
    <3>2. CASE LearnsOneSource(unit)
      <4>1. {} \in SUBSET Sources
        OBVIOUS
      <4>. QED  BY <3>2, <4>1, CaptureIsTold DEF LearnsOneSource
    <3>3. CASE LearnsSourceOfOne(unit)
      <4>1. \/ unit.observers \in MainCapturing(unit.many)
            \/ \E ignored \in SUBSET Sources : unit.observers \in ControllerCapturing(ignored)
        BY <3>3 DEF LearnsSourceOfOne, CapturesOne
      <4>2. unit.many \in Mappings
        BY <2>4, <3>3 DEF LearnsSourceOfOne, CapturesOne, UnitState, Numbers
      <4>. QED  BY <4>1, <4>2, MainIsTold, ControllerIsTold
    <3>. QED  BY <3>1, <3>2, <3>3
  <2>6. unit.filter => ObserversOf(unit, "filter") # <<>>
    <3>. SUFFICES ASSUME unit.filter PROVE ObserversOf(unit, "filter") # <<>>
      OBVIOUS
    <3>1. Filters(unit)
      BY SettledInSession DEF Rests, Nothing, LearnsOneSource, OnlySource, LearnsOneTarget, OnlyTarget,
                              LearnsSourceOfOne, CapturesOne, LearnsTargetOfOne, BetweenTwo
    <3>2. {} \in SUBSET Sources
      OBVIOUS
    <3>. QED  BY <3>1, <3>2, CaptureIsTold DEF Filters
  <2>7. unit.learnsSource # None \/ unit.filter =>
            ObserversOf(unit, IF unit.filter THEN "filter" ELSE "learnsSource") # <<>>
    BY <2>5, <2>6
  <2>8. unit.learnsSource # None \/ unit.filter => mode = "LearningSource"
    BY <2>2, <2>3 DEF ModeInv
  <2>9. unit.learnsTarget # None => capturing # None /\ mode # "Controlling"
    BY <2>2, <2>3 DEF ModeInv, TargetsInv
  <2>. QED  BY <2>1, <2>7, <2>8, <2>9
<1>. QED  BY <1>1, SessionInvariant, PTL

\* "Learn many" shows the mapping and the part of it that is learned, ignores
\* learned controls and is over when it was stopped (learn_many_state and
\* add_and_learn_one_of_many_mappings in application/unit_model.rs).
THEOREM LearnManyAlwaysInStep == Spec => []LearnManyKeepsInStep
<1>1. SessionAlways => LearnManyKeepsInStep
  <2>. SUFFICES ASSUME SessionAlways, IsSettled, ~disturbed
                PROVE  /\ unit.many = None => ObserversOf(unit, "many") = <<>>
                       /\ unit.many # None =>
                            IF unit.step = "source"
                            THEN unit.learnsSource = unit.many /\ unit.learnsTarget = None
                            ELSE unit.learnsTarget = unit.many /\ unit.learnsSource = None
                       /\ unit.many # None /\ Compartment[unit.many] = "Controller" =>
                            \A o \in ToSet(ObserversOf(unit, "learnsSource")) :
                                o.kind = "capture" =>
                                    LearnedSources(unit, "Controller") \subseteq o.ignored
    BY DEF LearnManyKeepsInStep
  <2>1. \/ Rests(unit) \/ LearnsOneSource(unit) \/ LearnsOneTarget(unit) \/ Filters(unit)
        \/ LearnsSourceOfOne(unit) \/ LearnsTargetOfOne(unit)
    BY SettledInSession
  <2>2. unit.many = None => ObserversOf(unit, "many") = <<>>
    <3>. SUFFICES ASSUME unit.many = None PROVE ObserversOf(unit, "many") = <<>>
      OBVIOUS
    <3>1. \/ unit.observers = <<>>
          \/ \E f \in BOOLEAN : unit.observers = <<Capture(f, TRUE, {})>>
      BY <2>1 DEF Rests, LearnsOneSource, LearnsOneTarget, Filters, LearnsSourceOfOne, CapturesOne,
                  LearnsTargetOfOne, BetweenTwo
    <3>2. CASE unit.observers = <<>>
      BY <3>2, NobodyIsTold
    <3>3. ASSUME NEW f \in BOOLEAN, unit.observers = <<Capture(f, TRUE, {})>>
          PROVE  ObserversOf(unit, "many") = <<>>
      <4>1. {} \in SUBSET Sources /\ TRUE \in BOOLEAN
        OBVIOUS
      <4>2. PICK a : a = Capture(f, TRUE, {})
        OBVIOUS
      <4>3. ~Observes(a, "many")
        BY <4>1, <4>2, CaptureIs
      <4>4. a \notin {o \in Observer : Observes(o, "many")}
        BY <4>3
      <4>5. ObserversOf(unit, "many") = Selection(<<a>>, {o \in Observer : Observes(o, "many")})
        BY <3>3, <4>2 DEF ObserversOf
      <4>. QED  BY <4>4, <4>5, SelectionOfOne
    <3>. QED  BY <3>1, <3>2, <3>3
  <2>3. unit.many # None => LearnsSourceOfOne(unit) \/ LearnsTargetOfOne(unit)
    BY <2>1 DEF Rests, Nothing, LearnsOneSource, OnlySource, LearnsOneTarget, OnlyTarget, Filters,
                OnlyFilter
  <2>4. unit.many # None =>
            IF unit.step = "source"
            THEN unit.learnsSource = unit.many /\ unit.learnsTarget = None
            ELSE unit.learnsTarget = unit.many /\ unit.learnsSource = None
    BY <2>3 DEF LearnsSourceOfOne, CapturesOne, LearnsTargetOfOne, BetweenTwo
  <2>5. ASSUME unit.many # None, Compartment[unit.many] = "Controller"
        PROVE  \A o \in ToSet(ObserversOf(unit, "learnsSource")) :
                    o.kind = "capture" => LearnedSources(unit, "Controller") \subseteq o.ignored
    <3>1. LearnsSourceOfOne(unit)
      BY <2>3, <2>5 DEF LearnsTargetOfOne
    <3>2. PICK ignored \in SUBSET Sources :
                /\ unit.observers \in ControllerCapturing(ignored)
                /\ unit.learnsSource # None => LearnedSources(unit, "Controller") \subseteq ignored
      BY <2>5, <3>1 DEF LearnsSourceOfOne, CapturesOne
    <3>3. LearnedSources(unit, "Controller") \subseteq ignored
      BY <2>5, <3>1, <3>2 DEF LearnsSourceOfOne
    <3>4. \A o \in ToSet(ObserversOf(unit, "learnsSource")) :
                o.kind = "capture" => o.ignored = ignored
      BY <3>2, ControllerIsTold
    <3>. QED  BY <3>3, <3>4
  <2>. QED  BY <2>2, <2>4, <2>5
<1>. QED  BY <1>1, SessionInvariant, PTL

\* "Learn many" goes on only with a learned source, and with a learned target
\* before that in the main compartment; it starts by a click only
\* (learn_target_of_one_of_many_mappings, add_and_learn_one_of_many_mappings).
THEOREM LearnManyAlwaysFinishes == Spec => LearnManyFinishesMappings
<1>. DEFINE Finishes ==
        LET m == unit.many
            hasSource == m \notin Present(unit') \/ unit'.mappings[m].source # NoSource
            goesOn == unit'.many \notin {m, None}
        IN  ~disturbed' =>
                /\ m = None /\ unit'.many # None => phase = "idle"
                /\ m # None /\ <<unit'.many, unit'.step>> # <<m, unit.step>> => hasSource
                /\ m # None /\ goesOn /\ Compartment[m] = "Main" => unit.step = "target"
<1>1. SessionAlways /\ [Next]_vars => [Finishes]_vars
  <2>. SUFFICES ASSUME SessionAlways, [Next]_vars, ~disturbed' PROVE Finishes
    OBVIOUS
  <2>1. ManyStep(unit, unit', phase)
    BY StepInSession
  <2>2. <<unit'.many, unit'.step>> # <<unit.many, unit.step>> =>
            unit'.many # unit.many \/ unit'.step # unit.step
    OBVIOUS
  <2>. QED  BY <2>1, <2>2 DEF ManyStep
<1>. QED  BY <1>1, SessionInvariant, PTL DEF Spec, LearnManyFinishesMappings

=============================================================================
