--------------------------- MODULE FeedbackProofs ---------------------------
(***************************************************************************)
(* Units that share feedback outputs, for any finite set of units and any  *)
(* outputs, addresses, mappings and values:                                *)
(*   - lights never flicker, whatever happens to the units;                *)
(*   - the usage table follows the units and floors take effect, as long   *)
(*     as units announce what they change (UsageInv);                      *)
(*   - lights end up off or current while units on the same floor share    *)
(*     them (SharingInv).                                                  *)
(* The conditions of the last two are on which operations happen.  They    *)
(* are needed: each operation left out has a way to break the property.    *)
(***************************************************************************)
EXTENDS FeedbackOrchestration, FiniteSetTheorems, WellFoundedInduction, TLAPS

------------------------------------------------------------------------------
(* Numbers and sequences.                                                  *)

LEMMA LeastNumber ==
    ASSUME NEW T, T \subseteq Nat, T # {}
    PROVE  \E n \in T : \A k \in T : n =< k
<1>1. PICK n \in T : \A k \in T : <<k, n>> \notin OpToRel(<, Nat)
  BY NatLessThanWellFounded, WFMin, Zenon
<1>2. \A k \in T : ~(k < n)
  BY <1>1, Zenon DEF OpToRel
<1>. QED  BY <1>2

\* Min and Max are what they are called.
LEMMA Extremes ==
    ASSUME NEW n \in Nat, NEW S, S \subseteq 1..n, S # {}
    PROVE  Min(S) \in S /\ Max(S) \in S
<1>1. \E x \in S : \A y \in S : x =< y
  <2>1. S \subseteq Nat
    OBVIOUS
  <2>. QED  BY <2>1, LeastNumber
<1>2. \E x \in S : \A y \in S : x >= y
  <2>1. PICK D : D = {d \in 0..n : \E x \in S : d = n - x}
    OBVIOUS
  <2>2. D \subseteq Nat /\ D # {}
    <3>1. PICK x \in S : TRUE
      OBVIOUS
    <3>2. n - x \in 0..n
      OBVIOUS
    <3>3. n - x \in D
      BY <2>1, <3>2
    <3>4. D \subseteq 0..n
      BY <2>1
    <3>. QED  BY <3>3, <3>4
  <2>3. PICK d \in D : \A k \in D : d =< k
    BY <2>2, LeastNumber
  <2>4. PICK x \in S : d = n - x
    BY <2>1
  <2>5. \A y \in S : n - y \in D
    BY <2>1
  <2>6. \A y \in S : x >= y
    BY <2>3, <2>4, <2>5
  <2>. QED  BY <2>6
<1>. QED  BY <1>1, <1>2 DEF Min, Max

LEMMA JoinedElements ==
    ASSUME NEW T, NEW s \in Seq(T), NEW t \in Seq(T)
    PROVE  s \o t \in Seq(T) /\ ToSet(s \o t) = ToSet(s) \cup ToSet(t)
<1>1. /\ s \o t \in Seq(T)
      /\ \A i \in 1..Len(s) : (s \o t)[i] = s[i]
      /\ \A i \in 1..Len(t) : (s \o t)[Len(s) + i] = t[i]
      /\ Len(s \o t) = Len(s) + Len(t)
  OBVIOUS
<1>2. ASSUME NEW i \in 1..Len(s \o t) PROVE (s \o t)[i] \in ToSet(s) \cup ToSet(t)
  <2>1. CASE i \in 1..Len(s)
    BY <1>1, <2>1 DEF ToSet
  <2>2. CASE i \notin 1..Len(s)
    <3>1. PICK k : k = i - Len(s)
      OBVIOUS
    <3>2. k \in 1..Len(t) /\ i = Len(s) + k
      BY <1>1, <2>2, <3>1
    <3>. QED  BY <1>1, <3>2 DEF ToSet
  <2>. QED  BY <2>1, <2>2
<1>3. \A i \in 1..Len(s) : i \in 1..Len(s \o t)
  BY <1>1
<1>4. \A i \in 1..Len(t) : Len(s) + i \in 1..Len(s \o t)
  BY <1>1
<1>5. ToSet(s) \cup ToSet(t) \subseteq ToSet(s \o t)
  <2>1. \A i \in 1..Len(s) : s[i] \in ToSet(s \o t)
    BY <1>1, <1>3 DEF ToSet
  <2>2. \A i \in 1..Len(t) : t[i] \in ToSet(s \o t)
    <3>. HIDE DEF ToSet
    <3>1. DOMAIN (s \o t) = 1..Len(s \o t)
      BY <1>1
    <3>2. ASSUME NEW i \in 1..Len(t) PROVE t[i] \in ToSet(s \o t)
      <4>1. PICK k : k = Len(s) + i
        OBVIOUS
      <4>2. k \in DOMAIN (s \o t) /\ (s \o t)[k] = t[i]
        BY <1>1, <1>4, <3>1, <4>1
      <4>. QED  BY <4>2 DEF ToSet
    <3>. QED  BY <3>2
  <2>3. /\ ToSet(s) = {s[i] : i \in 1..Len(s)}
        /\ ToSet(t) = {t[i] : i \in 1..Len(t)}
    BY DEF ToSet
  <2>. HIDE DEF ToSet
  <2>. QED  BY <2>1, <2>2, <2>3
<1>6. ToSet(s \o t) \subseteq ToSet(s) \cup ToSet(t)
  <2>. HIDE DEF ToSet
  <2>1. ToSet(s \o t) = {(s \o t)[i] : i \in 1..Len(s \o t)}
    BY <1>1 DEF ToSet
  <2>. QED  BY <1>2, <2>1
<1>. QED  BY <1>1, <1>5, <1>6

\* A queue: its head is taken.
LEMMA HeadAndTail ==
    ASSUME NEW T, NEW s \in Seq(T), s # <<>>
    PROVE  /\ Head(s) \in T /\ Tail(s) \in Seq(T)
           /\ ToSet(s) = {Head(s)} \cup ToSet(Tail(s))
<1>1. Head(s) = s[1] /\ Tail(s) \in Seq(T) /\ Len(Tail(s)) = Len(s) - 1 /\ Len(s) >= 1
  OBVIOUS
<1>2. \A i \in 1..Len(Tail(s)) : Tail(s)[i] = s[i + 1]
  OBVIOUS
<1>3. ASSUME NEW i \in 1..Len(s) PROVE s[i] \in {Head(s)} \cup ToSet(Tail(s))
  <2>1. CASE i = 1
    BY <1>1, <2>1
  <2>2. CASE i # 1
    <3>1. PICK k : k = i - 1
      OBVIOUS
    <3>2. k \in 1..Len(Tail(s)) /\ i = k + 1
      BY <1>1, <2>2, <3>1
    <3>3. s[i] = Tail(s)[k] /\ DOMAIN Tail(s) = 1..Len(Tail(s))
      BY <1>1, <1>2, <3>2
    <3>. QED  BY <3>2, <3>3 DEF ToSet
  <2>. QED  BY <2>1, <2>2
<1>4. \A i \in 1..Len(Tail(s)) : i + 1 \in 1..Len(s)
  BY <1>1
<1>5. 1 \in 1..Len(s) /\ Head(s) \in T
  BY <1>1
<1>. QED  BY <1>1, <1>2, <1>3, <1>4, <1>5 DEF ToSet

\* A recursive function on 1..n, as FlattenSeq has it, exists. The library's
\* induction theorems have operators as parameters, hence the smallest
\* counterexample.
LEMMA FlattenedElements ==
    ASSUME NEW T, NEW ss \in Seq(Seq(T))
    PROVE  /\ FlattenSeq(ss) \in Seq(T)
           /\ ToSet(FlattenSeq(ss)) = UNION {ToSet(ss[i]) : i \in 1..Len(ss)}
<1>0. Len(ss) \in Nat /\ \A n \in 1..Len(ss) : ss[n] \in Seq(T)
  OBVIOUS
<1>. DEFINE Step(f, n) == IF n = 1 THEN ss[n] ELSE f[n - 1] \o ss[n]
            Defines(f, k) == f = [n \in 1..k |-> Step(f, n)]
            Right(t, n) == t \in Seq(T) /\ ToSet(t) = UNION {ToSet(ss[i]) : i \in 1..n}
            N == 1..Len(ss)
<1>1. CASE ss = <<>>
  <2>1. Len(ss) = 0 /\ FlattenSeq(ss) = <<>>
    BY <1>1 DEF FlattenSeq
  <2>2. <<>> \in Seq(T) /\ ToSet(<<>>) = {}
    BY DEF ToSet
  <2>. QED  BY <2>1, <2>2
<1>2. CASE ss # <<>>
  <2>1. Len(ss) \in N /\ Len(ss) # 0
    BY <1>2
  <2>. DEFINE Bad == {k \in N : ~ \E f : Defines(f, k)}
  <2>2. Bad = {}
    <3>1. SUFFICES ASSUME Bad # {} PROVE FALSE
      OBVIOUS
    <3>2. PICK k \in Bad : \A j \in Bad : k =< j
      <4>1. Bad \subseteq N
        <5>. HIDE DEF Defines, N
        <5>. QED  OBVIOUS
      <4>. HIDE DEF Bad
      <4>2. N \subseteq Nat
        OBVIOUS
      <4>. HIDE DEF N
      <4>. QED  BY <3>1, <4>1, <4>2, LeastNumber
    <3>0. k \in Nat /\ k >= 1 /\ k \in 1..Len(ss) /\ ~ \E f : Defines(f, k)
      <4>. HIDE DEF Defines
      <4>. QED  BY <1>0, <3>2
    <3>3. CASE k = 1
      <4>1. Defines([n \in 1..1 |-> ss[n]], 1)
        OBVIOUS
      <4>. QED  BY <4>1, <3>3, <3>2
    <3>4. CASE k # 1
      <4>1. PICK f : Defines(f, k - 1)
        <5>1. k - 1 \in N /\ k - 1 \notin Bad
          <6>1. k - 1 \in N /\ ~(k =< k - 1)
            BY <3>0, <3>4
          <6>. HIDE DEF Bad
          <6>. QED  BY <3>2, <6>1
        <5>. HIDE DEF Defines
        <5>. QED  BY <5>1
      <4>. DEFINE g == [n \in 1..k |-> IF n = k THEN Step(f, k) ELSE f[n]]
      <4>2. Defines(g, k)
        <5>1. ASSUME NEW n \in 1..k PROVE g[n] = Step(g, n)
          <6>1. CASE n = k
            <7>1. g[k] = Step(f, k) /\ g[k - 1] = f[k - 1]
              <8>1. k \in 1..k /\ k - 1 \in 1..k /\ k - 1 # k
                BY <3>0, <3>4
              <8>. HIDE DEF Step
              <8>. QED  BY <8>1
            <7>2. Step(f, k) = f[k - 1] \o ss[k]
              BY <3>4
            <7>. HIDE DEF g
            <7>3. Step(g, k) = g[k - 1] \o ss[k]
              BY <3>4
            <7>. QED  BY <6>1, <7>1, <7>2, <7>3
          <6>2. CASE n # k
            <7>1. n \in 1..(k - 1)
              BY <6>2, <3>0
            <7>2. f[n] = Step(f, n)
              BY <7>1, <4>1
            <7>3. n # 1 => g[n - 1] = f[n - 1]
              BY <7>1, <3>0
            <7>. QED  BY <7>1, <7>2, <7>3, <6>2
          <6>. QED  BY <6>1, <6>2
        <5>. HIDE DEF Step
        <5>. QED  BY <5>1
      <4>. QED  BY <4>2, <3>2
    <3>. QED  BY <3>3, <3>4
  <2>3. \E f : Defines(f, Len(ss))
    <3>. HIDE DEF Defines, N
    <3>. QED  BY <2>1, <2>2
  <2>4. FlattenSeq(ss) = (CHOOSE g : Defines(g, Len(ss)))[Len(ss)]
    BY <2>1 DEF FlattenSeq
  <2>. DEFINE c == CHOOSE g : Defines(g, Len(ss))
  <2>5. Defines(c, Len(ss))
    <3>. HIDE DEF Defines
    <3>. QED  BY <2>3
  <2>. DEFINE Wrong == {k \in N : ~Right(c[k], k)}
  <2>6. Wrong = {}
    <3>1. SUFFICES ASSUME Wrong # {} PROVE FALSE
      OBVIOUS
    <3>2. PICK k \in Wrong : \A j \in Wrong : k =< j
      <4>1. Wrong \subseteq N
        <5>. HIDE DEF Right, N, c
        <5>. QED  OBVIOUS
      <4>. HIDE DEF Wrong
      <4>2. N \subseteq Nat
        OBVIOUS
      <4>. HIDE DEF N
      <4>. QED  BY <3>1, <4>1, <4>2, LeastNumber
    <3>3. k \in 1..Len(ss) /\ c[k] = Step(c, k)
      <4>. HIDE DEF c
      <4>. QED  BY <2>5, <3>2
    <3>4. ~Right(c[k], k) /\ \A j \in N : j < k => Right(c[j], j)
      <4>. HIDE DEF c, Right
      <4>. QED  BY <3>2
    <3>. HIDE DEF c
    <3>5. ss[k] \in Seq(T)
      BY <3>3
    <3>6. CASE k = 1
      <4>1. 1..k = {k}
        BY <3>6
      <4>2. UNION {ToSet(ss[i]) : i \in 1..k} = ToSet(ss[k])
        BY <4>1
      <4>. QED  BY <3>3, <3>4, <3>5, <3>6, <4>2
    <3>7. CASE k # 1
      <4>1. k - 1 \in N /\ k - 1 < k
        BY <3>3, <3>7
      <4>2. Right(c[k - 1], k - 1)
        BY <3>4, <4>1
      <4>3. PICK t : t = c[k - 1]
        OBVIOUS
      <4>4. t \o ss[k] \in Seq(T) /\ ToSet(t \o ss[k]) = ToSet(t) \cup ToSet(ss[k])
        BY <3>5, <4>2, <4>3, JoinedElements
      <4>5. 1..k = 1..(k - 1) \cup {k}
        BY <3>3
      <4>6. UNION {ToSet(ss[i]) : i \in 1..k} = ToSet(t) \cup ToSet(ss[k])
        BY <4>2, <4>3, <4>5
      <4>7. c[k] = t \o ss[k]
        BY <3>3, <3>7, <4>3
      <4>. QED  BY <3>4, <4>4, <4>6, <4>7
    <3>. QED  BY <3>6, <3>7
  <2>7. Right(c[Len(ss)], Len(ss))
    <3>. HIDE DEF c, Right, N
    <3>. QED  BY <2>1, <2>6
  <2>. HIDE DEF c
  <2>. QED  BY <2>4, <2>7 DEF c
<1>. QED  BY <1>1, <1>2

\* A finite set as sequence.
LEMMA ListedElements ==
    ASSUME NEW S, IsFiniteSet(S)
    PROVE  SetToSeq(S) \in Seq(S) /\ ToSet(SetToSeq(S)) = S
<1>1. PICK n : n = Cardinality(S)
  OBVIOUS
<1>2. n \in Nat /\ ExistsBijection(1..n, S)
  BY <1>1, FS_CardinalityType
<1>3. PICK b : b \in Bijection(1..n, S)
  BY <1>2 DEF ExistsBijection
<1>4. b \in [1..n -> S] /\ IsInjective(b)
  BY <1>3 DEF Bijection, Injection
<1>5. PICK f : f = SetToSeq(S)
  OBVIOUS
<1>6. f \in [1..n -> S] /\ IsInjective(f)
  BY <1>1, <1>4, <1>5 DEF SetToSeq
<1>7. f \in Surjection(1..n, S)
  <2>1. f \in Injection(1..n, S)
    BY <1>6 DEF Injection
  <2>2. Cardinality(1..n) = n
    BY <1>2, FS_Interval
  <2>. QED  BY <1>1, <2>1, <2>2, FS_Injection
<1>8. f \in Seq(S) /\ DOMAIN f = 1..n
  BY <1>2, <1>6
<1>9. {f[i] : i \in 1..n} = S
  BY <1>6, <1>7 DEF Surjection
<1>. QED  BY <1>5, <1>8, <1>9 DEF ToSet

\* The image of a finite set is finite.
LEMMA FiniteImage ==
    ASSUME NEW S, IsFiniteSet(S), NEW f
    PROVE  IsFiniteSet({f[x] : x \in S})
<1>. DEFINE T == {f[x] : x \in S}
            g == [x \in S |-> f[x]]
<1>1. g \in Surjection(S, T)
  BY DEF Surjection
<1>. QED  BY <1>1, FS_Surjection

------------------------------------------------------------------------------
(* Types.                                                                  *)

LastStates == [Addresses -> Values \cup {NotSent}]
LightStates == [Addresses -> Values]
Destinations == Outputs \cup {NoDevice}

Releases == [type: {"SourceReleased"}, unit: Units, output: Destinations, address: Addresses]
Updates == [type: {"IoUpdated"}, unit: Units, output: Destinations, used: BOOLEAN]

FeedbackTypes ==
    /\ mainProcessors \in Seq(Units)
    /\ \A i, j \in DOMAIN mainProcessors : mainProcessors[i] = mainProcessors[j] => i = j
    /\ superiorUnits \in SUBSET Units
    /\ feedbackOutputUsages \in [Outputs -> SUBSET Units]
    /\ events \in Seq(Releases \cup Updates)
    /\ room \in 0..Bulk
    /\ settings \in [Units -> Settings]
    /\ circumstances \in [Units -> Circumstances]
    /\ controlEnabled \in [Units -> BOOLEAN]
    /\ feedbackEnabled \in [Units -> BOOLEAN]
    /\ on \in [Units -> SUBSET Mappings]
    /\ source \in [Units -> [Mappings -> Addresses]]
    /\ targetValue \in [Units -> [Mappings -> Values]]
    /\ lastFeedback \in [Units -> LastStates]
    /\ light \in [Outputs -> LightStates]

LEMMA TypesSuffice == FeedbackTypes => TypeOK
<1>1. SUFFICES ASSUME FeedbackTypes PROVE TypeOK
  OBVIOUS
<1>2. Alive \subseteq Units
  BY <1>1 DEF FeedbackTypes, Alive, ToSet
<1>3. ASSUME NEW i \in DOMAIN events PROVE EventOK(events[i])
  <2>1. events[i] \in Releases \cup Updates
    BY <1>1 DEF FeedbackTypes
  <2>. QED  BY <2>1 DEF EventOK, Releases, Updates, Destinations
<1>. QED  BY <1>1, <1>2, <1>3 DEF FeedbackTypes, TypeOK, LastStates, LightStates

\* What mappings send: a value of one of them.
LEMMA FinalValues ==
    ASSUME NEW ms, ms \subseteq Mappings,
           NEW sources, NEW values, NEW a, MappingsAt(ms, sources, a) # {}
    PROVE  \E m \in MappingsAt(ms, sources, a) : FinalValue(ms, sources, values, a) = values[m]
<1>1. PICK S : S = MappingsAt(ms, sources, a)
  OBVIOUS
<1>2. S \subseteq 1..NumMappings /\ S # {} /\ NumMappings \in Nat
  BY <1>1, OrchestrationAssumption DEF MappingsAt, Mappings
<1>3. Max(S) \in S
  BY <1>2, Extremes
<1>. QED  BY <1>1, <1>3 DEF FinalValue

LEMMA SentTypes ==
    ASSUME NEW last \in LastStates,
           NEW ms \in SUBSET Mappings, NEW sources \in [Mappings -> Addresses],
           NEW values \in [Mappings -> Values]
    PROVE  /\ LastAfter(last, ms, sources, values) \in LastStates
           /\ \A lights \in LightStates :
                 LightsAfter(lights, last, ms, sources, values) \in LightStates
<1>1. ASSUME NEW a \in Addresses, MappingsAt(ms, sources, a) # {}
      PROVE  FinalValue(ms, sources, values, a) \in Values
  <2>1. PICK m \in MappingsAt(ms, sources, a) : FinalValue(ms, sources, values, a) = values[m]
    BY <1>1, FinalValues
  <2>. QED  BY <2>1 DEF MappingsAt
<1>2. ASSUME NEW a \in AddressesOf(ms, sources) PROVE MappingsAt(ms, sources, a) # {}
  BY <1>2 DEF AddressesOf, MappingsAt
<1>3. ASSUME NEW lights \in LightStates
      PROVE  LightsAfter(lights, last, ms, sources, values) \in LightStates
  BY <1>1 DEF LightsAfter, LightStates
<1>4. LastAfter(last, ms, sources, values) \in LastStates
  BY <1>1, <1>2 DEF LastAfter, LastStates
<1>. QED  BY <1>3, <1>4

LEMMA SendingTypes ==
    ASSUME FeedbackTypes, NEW u \in Units, NEW last \in LastStates, NEW ms \in SUBSET Mappings,
           settings' \in [Units -> Settings],
           source' \in [Units -> [Mappings -> Addresses]],
           targetValue' \in [Units -> [Mappings -> Values]],
           SendMappingFeedback(u, last, ms)
    PROVE  lastFeedback' \in [Units -> LastStates] /\ light' \in [Outputs -> LightStates]
<1>. DEFINE output == settings'[u].feedbackOutput
<1>1. output \in Destinations
  BY DEF Settings, Destinations
<1>2. /\ source'[u] \in [Mappings -> Addresses] /\ targetValue'[u] \in [Mappings -> Values]
      /\ lastFeedback \in [Units -> LastStates] /\ light \in [Outputs -> LightStates]
  BY DEF FeedbackTypes
<1>3. LastAfter(last, ms, source'[u], targetValue'[u]) \in LastStates
  BY <1>2, SentTypes
<1>4. ASSUME output # NoDevice
      PROVE  LightsAfter(light[output], last, ms, source'[u], targetValue'[u]) \in LightStates
  <2>1. light[output] \in LightStates
    BY <1>1, <1>2, <1>4 DEF Destinations
  <2>. QED  BY <1>2, <2>1, SentTypes
<1>. QED  BY <1>2, <1>3, <1>4 DEF SendMappingFeedback

LEMMA ReleaseTypes ==
    ASSUME NEW u \in Units, NEW output \in Destinations, NEW addresses \in Seq(Addresses)
    PROVE  /\ ReleaseEvents(u, output, addresses) \in Seq(Releases)
           /\ ToSet(ReleaseEvents(u, output, addresses))
                = {SourceReleased(u, output, a) : a \in ToSet(addresses)}
<1>1. PICK n \in Nat : addresses \in [1..n -> Addresses]
  OBVIOUS
<1>2. ReleaseEvents(u, output, addresses) = [i \in 1..n |-> SourceReleased(u, output, addresses[i])]
  BY <1>1 DEF ReleaseEvents
<1>3. \A a \in Addresses : SourceReleased(u, output, a) \in Releases
  BY DEF SourceReleased, Releases
<1>4. PICK r : r = ReleaseEvents(u, output, addresses)
  OBVIOUS
<1>5. r \in [1..n -> Releases] /\ DOMAIN r = 1..n
  BY <1>1, <1>2, <1>3, <1>4
<1>6. r \in Seq(Releases)
  BY <1>1, <1>5
<1>7. ToSet(r) = {SourceReleased(u, output, a) : a \in ToSet(addresses)}
  <2>1. DOMAIN addresses = 1..n
    BY <1>1
  <2>. HIDE DEF Releases
  <2>. QED  BY <1>2, <1>4, <1>5, <2>1 DEF ToSet
<1>. QED  BY <1>4, <1>6, <1>7

LEMMA AllZeroTypes ==
    ASSUME FeedbackTypes, NEW u \in Units, NEW output \in Destinations
    PROVE  /\ AllZeroEvents(u, output) \in Seq(Releases)
           /\ ToSet(AllZeroEvents(u, output))
                = {SourceReleased(u, output, a) : a \in AddressesOf(on[u], source[u])}
<1>1. PICK ss : ss = [m \in Mappings |-> IF m \in on[u] THEN <<source[u][m]>> ELSE <<>>]
  OBVIOUS
<1>2. /\ \A m \in Mappings : source[u][m] \in Addresses
      /\ on[u] \subseteq Mappings
  BY DEF FeedbackTypes
<1>3. \A m \in Mappings : ss[m] \in Seq(Addresses)
  BY <1>1, <1>2
<1>4. ss \in Seq(Seq(Addresses)) /\ Len(ss) = NumMappings
  <2>1. NumMappings \in Nat /\ ss = [m \in 1..NumMappings |-> ss[m]]
    BY <1>1, OrchestrationAssumption DEF Mappings
  <2>. QED  BY <1>3, <2>1 DEF Mappings
<1>5. /\ FlattenSeq(ss) \in Seq(Addresses)
      /\ ToSet(FlattenSeq(ss)) = UNION {ToSet(ss[m]) : m \in Mappings}
  BY <1>4, FlattenedElements DEF Mappings
<1>6. ASSUME NEW m \in Mappings
      PROVE  ToSet(ss[m]) = IF m \in on[u] THEN {source[u][m]} ELSE {}
  BY <1>1, <1>6 DEF ToSet
<1>7. ToSet(FlattenSeq(ss)) = AddressesOf(on[u], source[u])
  <2>1. ASSUME NEW a \in ToSet(FlattenSeq(ss)) PROVE a \in AddressesOf(on[u], source[u])
    <3>1. PICK m \in Mappings : a \in ToSet(ss[m])
      BY <1>5
    <3>. QED  BY <1>6, <3>1 DEF AddressesOf
  <2>2. ASSUME NEW a \in AddressesOf(on[u], source[u]) PROVE a \in ToSet(FlattenSeq(ss))
    <3>1. PICK m \in on[u] : a = source[u][m]
      BY DEF AddressesOf
    <3>2. m \in Mappings /\ a \in ToSet(ss[m])
      BY <1>2, <1>6, <3>1
    <3>. QED  BY <1>5, <3>2
  <2>. QED  BY <2>1, <2>2
<1>8. AllZeroEvents(u, output) = ReleaseEvents(u, output, FlattenSeq(ss))
  BY <1>1 DEF AllZeroEvents
<1>. QED  BY <1>5, <1>7, <1>8, ReleaseTypes

LEMMA UnusedTypes ==
    ASSUME FeedbackTypes, NEW u \in Units, NEW addresses \in Seq(Addresses)
    PROVE  /\ UnusedSourceEvents(u, addresses) \in Seq(Releases)
           /\ UnusedSourceEvents(u, addresses) \in Seq(Releases \cup Updates)
<1>1. settings[u].feedbackOutput \in Destinations
  BY DEF FeedbackTypes, Settings, Destinations
<1>2. PICK r : r = ReleaseEvents(u, settings[u].feedbackOutput, addresses)
  OBVIOUS
<1>3. r \in Seq(Releases)
  BY <1>1, <1>2, ReleaseTypes
<1>4. r \in Seq(Releases \cup Updates)
  <2>. HIDE DEF Releases, Updates
  <2>. QED  BY <1>3
<1>. QED  BY <1>2, <1>3, <1>4 DEF UnusedSourceEvents

LEMMA NothingSentType == NoFeedbackSent \in LastStates
BY DEF NoFeedbackSent, LastStates

LEMMA UpdateTypes ==
    ASSUME NEW u \in Units, NEW output \in Destinations, NEW used \in BOOLEAN
    PROVE  IoUpdated(u, output, used) \in Updates
BY DEF IoUpdated, Updates

\* Appending events.
LEMMA MoreEvents ==
    ASSUME FeedbackTypes, NEW s \in Seq(Releases \cup Updates), events' = events \o s
    PROVE  events' \in Seq(Releases \cup Updates)
<1>1. events \in Seq(Releases \cup Updates)
  BY DEF FeedbackTypes
<1>. HIDE DEF Releases, Updates
<1>. QED  BY <1>1

\* What a unit announces when it is enabled or disabled.
ControlEvents(u) ==
    IF DetermineControlEnabled(settings'[u], circumstances'[u]) = controlEnabled[u] THEN <<>>
    ELSE <<IoUpdated(u, settings'[u].feedbackOutput, feedbackEnabled[u] /\ on[u] # {})>>

FeedbackEvents(u) ==
    IF DetermineFeedbackEnabled(settings'[u], circumstances'[u]) = feedbackEnabled[u] THEN <<>>
    ELSE <<IoUpdated(u, settings'[u].feedbackOutput,
                     DetermineFeedbackEnabled(settings'[u], circumstances'[u]) /\ on[u] # {})>>

ZeroEvents(u) ==
    IF /\ DetermineFeedbackEnabled(settings'[u], circumstances'[u]) # feedbackEnabled[u]
       /\ ~DetermineFeedbackEnabled(settings'[u], circumstances'[u])
    THEN AllZeroEvents(u, settings'[u].feedbackOutput) ELSE <<>>

LEMMA AnnouncedTypes ==
    ASSUME FeedbackTypes, NEW u \in Units, settings' \in [Units -> Settings],
           circumstances' \in [Units -> Circumstances]
    PROVE  /\ ControlEvents(u) \in Seq(Updates)
           /\ FeedbackEvents(u) \in Seq(Updates)
           /\ ZeroEvents(u) \in Seq(Releases)
           /\ DetermineControlEnabled(settings'[u], circumstances'[u]) \in BOOLEAN
           /\ DetermineFeedbackEnabled(settings'[u], circumstances'[u]) \in BOOLEAN
<1>1. /\ settings'[u].feedbackOutput \in Destinations
      /\ feedbackEnabled[u] \in BOOLEAN
      /\ settings'[u].unitEnabled \in BOOLEAN
  BY DEF FeedbackTypes, Settings, Destinations
<1>2. /\ DetermineControlEnabled(settings'[u], circumstances'[u]) \in BOOLEAN
      /\ DetermineFeedbackEnabled(settings'[u], circumstances'[u]) \in BOOLEAN
  BY <1>1 DEF DetermineControlEnabled, DetermineFeedbackEnabled
<1>3. \A used \in BOOLEAN : IoUpdated(u, settings'[u].feedbackOutput, used) \in Updates
  BY <1>1, UpdateTypes
<1>4. (feedbackEnabled[u] /\ on[u] # {}) \in BOOLEAN
  BY <1>1
<1>5. (DetermineFeedbackEnabled(settings'[u], circumstances'[u]) /\ on[u] # {}) \in BOOLEAN
  BY <1>2
<1>6. ControlEvents(u) \in Seq(Updates)
  <2>1. PICK e \in Updates : e = IoUpdated(u, settings'[u].feedbackOutput, feedbackEnabled[u] /\ on[u] # {})
    BY <1>3, <1>4
  <2>2. <<e>> \in Seq(Updates) /\ <<>> \in Seq(Updates)
    OBVIOUS
  <2>. QED  BY <2>1, <2>2 DEF ControlEvents
<1>7. FeedbackEvents(u) \in Seq(Updates)
  <2>1. PICK e \in Updates : e = IoUpdated(u, settings'[u].feedbackOutput,
                     DetermineFeedbackEnabled(settings'[u], circumstances'[u]) /\ on[u] # {})
    BY <1>3, <1>5
  <2>2. <<e>> \in Seq(Updates) /\ <<>> \in Seq(Updates)
    OBVIOUS
  <2>. QED  BY <2>1, <2>2 DEF FeedbackEvents
<1>8. ZeroEvents(u) \in Seq(Releases)
  BY <1>1, AllZeroTypes DEF ZeroEvents
<1>. QED  BY <1>2, <1>6, <1>7, <1>8

\* The same in the order of the queue.
LEMMA EnablingEvents ==
    ASSUME FeedbackTypes, NEW u \in Units, NEW last, NEW announced \in Seq(Updates),
           settings' \in [Units -> Settings],
           circumstances' \in [Units -> Circumstances],
           PotentiallyEnableOrDisable(u, last, announced)
    PROVE  events' = events \o announced \o ControlEvents(u) \o FeedbackEvents(u) \o ZeroEvents(u)
<1>. DEFINE new == DetermineFeedbackEnabled(settings'[u], circumstances'[u])
<1>1. PICK c, f, z : /\ c = ControlEvents(u) /\ f = FeedbackEvents(u) /\ z = ZeroEvents(u)
  OBVIOUS
<1>2. PICK rest : rest = IF new = feedbackEnabled[u] THEN <<>>
                         ELSE f \o (IF new THEN <<>> ELSE AllZeroEvents(u, settings'[u].feedbackOutput))
  OBVIOUS
<1>3. events' = events \o announced \o c \o rest
  BY <1>1, <1>2 DEF PotentiallyEnableOrDisable, ControlEvents, FeedbackEvents
<1>4. c \in Seq(Updates) /\ f \in Seq(Updates) /\ z \in Seq(Releases)
  BY <1>1, AnnouncedTypes
<1>5. rest = f \o z
  <2>1. CASE new = feedbackEnabled[u]
    <3>1. f = <<>> /\ z = <<>>
      BY <1>1, <2>1 DEF FeedbackEvents, ZeroEvents
    <3>. QED  BY <1>2, <2>1, <3>1
  <2>2. CASE new # feedbackEnabled[u]
    BY <1>1, <1>2, <2>2 DEF ZeroEvents
  <2>. QED  BY <2>1, <2>2
<1>6. events \in Seq(Releases \cup Updates)
  BY DEF FeedbackTypes
<1>. HIDE DEF Releases, Updates
<1>7. PICK T : T = Releases \cup Updates
  OBVIOUS
<1>8. events \in Seq(T) /\ announced \in Seq(T) /\ c \in Seq(T) /\ f \in Seq(T) /\ z \in Seq(T)
  BY <1>4, <1>6, <1>7
<1>9. (events \o announced \o c) \o (f \o z) = events \o announced \o c \o f \o z
  BY <1>8
<1>. QED  BY <1>1, <1>3, <1>5, <1>9

LEMMA EnablingTypes ==
    ASSUME FeedbackTypes, NEW u \in Units, NEW last \in LastStates, NEW announced \in Seq(Updates),
           settings' \in [Units -> Settings],
           circumstances' \in [Units -> Circumstances],
           UNCHANGED mappingVars,
           PotentiallyEnableOrDisable(u, last, announced)
    PROVE  /\ controlEnabled' \in [Units -> BOOLEAN]
           /\ feedbackEnabled' \in [Units -> BOOLEAN]
           /\ events' \in Seq(Releases \cup Updates)
           /\ lastFeedback' \in [Units -> LastStates]
           /\ light' \in [Outputs -> LightStates]
<1>1. controlEnabled' \in [Units -> BOOLEAN] /\ feedbackEnabled' \in [Units -> BOOLEAN]
  <2>1. controlEnabled \in [Units -> BOOLEAN] /\ feedbackEnabled \in [Units -> BOOLEAN]
    BY DEF FeedbackTypes
  <2>2. PICK c \in BOOLEAN, f \in BOOLEAN :
          /\ controlEnabled' = [controlEnabled EXCEPT ![u] = c]
          /\ feedbackEnabled' = [feedbackEnabled EXCEPT ![u] = f]
    BY AnnouncedTypes DEF PotentiallyEnableOrDisable
  <2>. QED  BY <2>1, <2>2
<1>2. events' \in Seq(Releases \cup Updates)
  <2>1. PICK c, f, z : /\ c = ControlEvents(u) /\ f = FeedbackEvents(u) /\ z = ZeroEvents(u)
    OBVIOUS
  <2>2. c \in Seq(Updates) /\ f \in Seq(Updates) /\ z \in Seq(Releases)
    BY <2>1, AnnouncedTypes
  <2>3. events' = events \o announced \o c \o f \o z
    BY <2>1, EnablingEvents
  <2>4. events \in Seq(Releases \cup Updates)
    BY DEF FeedbackTypes
  <2>. HIDE DEF Releases, Updates
  <2>5. PICK T : T = Releases \cup Updates
    OBVIOUS
  <2>6. events \in Seq(T) /\ announced \in Seq(T) /\ c \in Seq(T) /\ f \in Seq(T) /\ z \in Seq(T)
    BY <2>2, <2>4, <2>5
  <2>7. events' \in Seq(T)
    BY <2>3, <2>6
  <2>. QED  BY <2>5, <2>7
<1>3. lastFeedback' \in [Units -> LastStates] /\ light' \in [Outputs -> LightStates]
  <2>1. CASE SendMappingFeedback(u, NoFeedbackSent, on[u])
    <3>1. on[u] \in SUBSET Mappings
      BY DEF FeedbackTypes
    <3>2. source' \in [Units -> [Mappings -> Addresses]] /\ targetValue' \in [Units -> [Mappings -> Values]]
      BY DEF FeedbackTypes, mappingVars
    <3>. QED  BY <2>1, <3>1, <3>2, SendingTypes, NothingSentType
  <2>2. CASE ~SendMappingFeedback(u, NoFeedbackSent, on[u])
    <3>1. PICK t : t \in {last, NoFeedbackSent} /\ lastFeedback' = [lastFeedback EXCEPT ![u] = t]
                   /\ light' = light
      BY <2>2 DEF PotentiallyEnableOrDisable
    <3>2. t \in LastStates
      BY <3>1, NothingSentType
    <3>. QED  BY <3>1, <3>2 DEF FeedbackTypes
  <2>. QED  BY <2>1, <2>2
<1>. QED  BY <1>1, <1>2, <1>3

\* A user's operation needs a unit with a main processor.
LEMMA OnlyAliveUnits ==
    ASSUME NEW u, UnitStep(u)
    PROVE  u \in Alive
BY DEF UnitStep, Op, UpdateSettings, ChangeCircumstances, UpdateAllMappings, ProcessChangedConditions,
   ProcessActivationEffects, UpdateSingleMapping, UpdatePersistentProcessingState,
   ProcessTargetValueChange, SendAllFeedback, SyncUpperFloorMembership, DropMainProcessor

\* The sources which a unit doesn't use anymore.
LEMMA UnusedSources ==
    ASSUME FeedbackTypes, NEW u \in Units, NEW used
    PROVE  LET unused == AddressesOf(on[u], source[u]) \ used
           IN  SetToSeq(unused) \in Seq(Addresses) /\ ToSet(SetToSeq(unused)) = unused
<1>1. PICK unused : unused = AddressesOf(on[u], source[u]) \ used
  OBVIOUS
<1>2. on[u] \subseteq Mappings /\ source[u] \in [Mappings -> Addresses]
  BY DEF FeedbackTypes
<1>3. IsFiniteSet(Mappings)
  BY OrchestrationAssumption, FS_Interval DEF Mappings
<1>4. IsFiniteSet(AddressesOf(on[u], source[u]))
  <2>1. IsFiniteSet(on[u])
    BY <1>2, <1>3, FS_Subset
  <2>. QED  BY <2>1, FiniteImage DEF AddressesOf
<1>5. AddressesOf(on[u], source[u]) \subseteq Addresses
  BY <1>2 DEF AddressesOf
<1>6. IsFiniteSet(unused) /\ unused \subseteq Addresses
  BY <1>1, <1>4, <1>5, FS_Subset
<1>7. SetToSeq(unused) \in Seq(unused) /\ ToSet(SetToSeq(unused)) = unused
  BY <1>6, ListedElements
<1>8. SetToSeq(unused) \in Seq(Addresses)
  BY <1>6, <1>7
<1>. QED  BY <1>1, <1>7, <1>8

LEMMA SwitchingTypes ==
    ASSUME FeedbackTypes, NEW u \in Units, NEW newOn \in SUBSET Mappings, NEW changed,
           NEW last \in LastStates, NEW announced \in Seq(Updates),
           source' \in [Units -> [Mappings -> Addresses]],
           SwitchMappings(u, newOn, changed, last, announced)
    PROVE  FeedbackTypes'
<1>1. on' \in [Units -> SUBSET Mappings] /\ targetValue' \in [Units -> [Mappings -> Values]]
  BY DEF SwitchMappings, FeedbackTypes
<1>2. settings' \in [Units -> Settings]
  BY DEF SwitchMappings, FeedbackTypes, enablingVars
<1>3. changed \cap newOn \in SUBSET Mappings
  OBVIOUS
<1>4. lastFeedback' \in [Units -> LastStates] /\ light' \in [Outputs -> LightStates]
  BY <1>1, <1>2, <1>3, SendingTypes DEF SwitchMappings
<1>5. events' \in Seq(Releases \cup Updates)
  <2>1. PICK unused : unused = AddressesOf(on[u], source[u]) \ AddressesOf(newOn, source'[u])
    OBVIOUS
  <2>3. SetToSeq(unused) \in Seq(Addresses)
    BY <2>1, UnusedSources
  <2>4. PICK t : t = UnusedSourceEvents(u, SetToSeq(unused))
    OBVIOUS
  <2>5. t \in Seq(Releases \cup Updates)
    BY <2>3, <2>4, UnusedTypes
  <2>6. events' = events \o announced \o t
    BY <2>1, <2>4 DEF SwitchMappings
  <2>7. events \in Seq(Releases \cup Updates)
    BY DEF FeedbackTypes
  <2>8. PICK T : T = Releases \cup Updates
    OBVIOUS
  <2>. HIDE DEF Releases, Updates
  <2>9. events \in Seq(T) /\ announced \in Seq(T) /\ t \in Seq(T)
    BY <2>5, <2>7, <2>8
  <2>10. events' \in Seq(T)
    BY <2>6, <2>9
  <2>. QED  BY <2>8, <2>10
<1>. QED  BY <1>1, <1>4, <1>5 DEF SwitchMappings, FeedbackTypes, enablingVars, backboneVars

LEMMA SwitchingOneTypes ==
    ASSUME FeedbackTypes, NEW u \in Units, NEW m \in Mappings, NEW newOn \in SUBSET Mappings,
           NEW last \in LastStates, NEW released \in Seq(Addresses),
           source' \in [Units -> [Mappings -> Addresses]],
           SwitchSingleMapping(u, m, newOn, last, released)
    PROVE  FeedbackTypes'
<1>1. on' \in [Units -> SUBSET Mappings] /\ targetValue' \in [Units -> [Mappings -> Values]]
  BY DEF SwitchSingleMapping, FeedbackTypes
<1>2. settings' \in [Units -> Settings]
  BY DEF SwitchSingleMapping, FeedbackTypes, enablingVars
<1>3. {m} \cap newOn \in SUBSET Mappings
  OBVIOUS
<1>4. lastFeedback' \in [Units -> LastStates] /\ light' \in [Outputs -> LightStates]
  BY <1>1, <1>2, <1>3, SendingTypes DEF SwitchSingleMapping
<1>5. events' \in Seq(Releases \cup Updates)
  BY UnusedTypes, MoreEvents DEF SwitchSingleMapping
<1>. QED  BY <1>1, <1>4, <1>5 DEF SwitchSingleMapping, FeedbackTypes, enablingVars, backboneVars

LEMMA ClaimTypes ==
    ASSUME FeedbackTypes, NEW u \in Units, NEW newOn
    PROVE  <<ClaimEvent(u, newOn)>> \in Seq(Updates)
<1>1. settings[u].feedbackOutput \in Destinations /\ feedbackEnabled[u] \in BOOLEAN
  BY DEF FeedbackTypes, Settings, Destinations
<1>2. (feedbackEnabled[u] /\ newOn # {}) \in BOOLEAN
  BY <1>1
<1>3. PICK e \in Updates : e = ClaimEvent(u, newOn)
  BY <1>1, <1>2, UpdateTypes DEF ClaimEvent
<1>4. <<e>> \in Seq(Updates)
  OBVIOUS
<1>. QED  BY <1>3, <1>4

LEMMA SettingsTypes ==
    ASSUME FeedbackTypes, NEW u \in Units, UpdateSettings(u)
    PROVE  FeedbackTypes'
<1>1. PICK st \in SettingsChoices :
          /\ settings' = [settings EXCEPT ![u] = st]
          /\ UNCHANGED <<backboneVars, room, circumstances, mappingVars>>
          /\ PotentiallyEnableOrDisable(u, NoFeedbackSent,
                <<IoUpdated(u, settings[u].feedbackOutput, FALSE)>>)
  BY DEF UpdateSettings
<1>2. settings' \in [Units -> Settings] /\ circumstances' \in [Units -> Circumstances]
  BY <1>1, OrchestrationAssumption DEF FeedbackTypes
<1>3. PICK announced : announced = <<IoUpdated(u, settings[u].feedbackOutput, FALSE)>>
  OBVIOUS
<1>4. announced \in Seq(Updates)
  <2>1. settings[u].feedbackOutput \in Destinations
    BY DEF FeedbackTypes, Settings, Destinations
  <2>2. PICK e \in Updates : e = IoUpdated(u, settings[u].feedbackOutput, FALSE)
    BY <2>1, UpdateTypes
  <2>3. <<e>> \in Seq(Updates)
    OBVIOUS
  <2>. QED  BY <1>3, <2>2, <2>3
<1>5. /\ controlEnabled' \in [Units -> BOOLEAN]
      /\ feedbackEnabled' \in [Units -> BOOLEAN]
      /\ events' \in Seq(Releases \cup Updates)
      /\ lastFeedback' \in [Units -> LastStates]
      /\ light' \in [Outputs -> LightStates]
  BY <1>1, <1>2, <1>3, <1>4, NothingSentType, EnablingTypes
<1>. QED  BY <1>1, <1>2, <1>5 DEF FeedbackTypes, backboneVars, mappingVars

LEMMA CircumstancesTypes ==
    ASSUME FeedbackTypes, NEW u \in Units, ChangeCircumstances(u)
    PROVE  FeedbackTypes'
<1>1. PICK c \in Circumstances :
          /\ circumstances' = [circumstances EXCEPT ![u] = c]
          /\ UNCHANGED <<backboneVars, room, settings, mappingVars>>
          /\ PotentiallyEnableOrDisable(u, lastFeedback[u], <<>>)
  BY DEF ChangeCircumstances
<1>2. settings' \in [Units -> Settings] /\ circumstances' \in [Units -> Circumstances]
  BY <1>1 DEF FeedbackTypes
<1>3. lastFeedback[u] \in LastStates /\ <<>> \in Seq(Updates)
  BY DEF FeedbackTypes
<1>4. /\ controlEnabled' \in [Units -> BOOLEAN]
      /\ feedbackEnabled' \in [Units -> BOOLEAN]
      /\ events' \in Seq(Releases \cup Updates)
      /\ lastFeedback' \in [Units -> LastStates]
      /\ light' \in [Outputs -> LightStates]
  BY <1>1, <1>2, <1>3, EnablingTypes
<1>. QED  BY <1>1, <1>2, <1>4 DEF FeedbackTypes, backboneVars, mappingVars

LEMMA ConditionsTypes ==
    ASSUME FeedbackTypes, NEW u \in Units,
           ProcessChangedConditions(u) \/ ProcessActivationEffects(u) \/ UpdateAllMappings(u)
    PROVE  FeedbackTypes'
<1>0. lastFeedback[u] \in LastStates /\ <<>> \in Seq(Updates)
  BY DEF FeedbackTypes
<1>1. CASE ProcessChangedConditions(u)
  <2>1. PICK newOn \in SUBSET Mappings :
          SwitchMappings(u, newOn, SymDiff(newOn, on[u]), lastFeedback[u], <<ClaimEvent(u, newOn)>>)
    BY <1>1 DEF ProcessChangedConditions
  <2>2. source' \in [Units -> [Mappings -> Addresses]]
    BY <1>1 DEF ProcessChangedConditions, FeedbackTypes
  <2>. QED  BY <1>0, <2>1, <2>2, ClaimTypes, SwitchingTypes
<1>2. CASE ProcessActivationEffects(u)
  <2>1. PICK newOn \in SUBSET Mappings :
          SwitchMappings(u, newOn, SymDiff(newOn, on[u]), lastFeedback[u], <<>>)
    BY <1>2 DEF ProcessActivationEffects
  <2>2. source' \in [Units -> [Mappings -> Addresses]]
    BY <1>2 DEF ProcessActivationEffects, FeedbackTypes
  <2>. QED  BY <1>0, <2>1, <2>2, SwitchingTypes
<1>3. CASE UpdateAllMappings(u)
  <2>1. PICK newOn \in SUBSET Mappings, sources \in [Mappings -> Addresses] :
          /\ source' = [source EXCEPT ![u] = sources]
          /\ SwitchMappings(u, newOn, newOn, NoFeedbackSent, <<ClaimEvent(u, newOn)>>)
    BY <1>3 DEF UpdateAllMappings
  <2>2. source' \in [Units -> [Mappings -> Addresses]]
    BY <2>1 DEF FeedbackTypes
  <2>. QED  BY <2>1, <2>2, ClaimTypes, NothingSentType, SwitchingTypes
<1>. QED  BY <1>1, <1>2, <1>3

LEMMA SingleTypes ==
    ASSUME FeedbackTypes, NEW u \in Units,
           UpdateSingleMapping(u) \/ UpdatePersistentProcessingState(u)
    PROVE  FeedbackTypes'
<1>0. /\ lastFeedback[u] \in LastStates
      /\ on[u] \in SUBSET Mappings
      /\ \A m \in Mappings : source[u][m] \in Addresses
  BY DEF FeedbackTypes
<1>1. \A m \in Mappings : <<source[u][m]>> \in Seq(Addresses) /\ <<>> \in Seq(Addresses)
  BY <1>0
<1>2. CASE UpdateSingleMapping(u)
  <2>1. PICK m \in Mappings, newOn \in SUBSET Mappings, a \in Addresses :
          /\ source' = [source EXCEPT ![u][m] = a]
          /\ SwitchSingleMapping(u, m, newOn, NoFeedbackSent,
                IF m \in on[u] /\ (m \notin newOn \/ a # source[u][m])
                THEN <<source[u][m]>> ELSE <<>>)
    BY <1>2 DEF UpdateSingleMapping
  <2>2. source' \in [Units -> [Mappings -> Addresses]]
    BY <2>1 DEF FeedbackTypes
  <2>. QED  BY <1>1, <2>1, <2>2, NothingSentType, SwitchingOneTypes
<1>3. CASE UpdatePersistentProcessingState(u)
  <2>1. PICK m \in Mappings :
          SwitchSingleMapping(u, m, SymDiff(on[u], {m}), lastFeedback[u],
                IF m \in on[u] THEN <<source[u][m]>> ELSE <<>>)
    BY <1>3 DEF UpdatePersistentProcessingState
  <2>2. source' \in [Units -> [Mappings -> Addresses]]
    BY <1>3 DEF UpdatePersistentProcessingState, FeedbackTypes
  <2>3. SymDiff(on[u], {m}) \in SUBSET Mappings
    BY <1>0 DEF SymDiff
  <2>. QED  BY <1>0, <1>1, <2>1, <2>2, <2>3, SwitchingOneTypes
<1>. QED  BY <1>2, <1>3

LEMMA ValueTypes ==
    ASSUME FeedbackTypes, NEW u \in Units,
           ProcessTargetValueChange(u) \/ SendAllFeedback(u)
    PROVE  FeedbackTypes'
<1>0. lastFeedback[u] \in LastStates /\ on[u] \in SUBSET Mappings
  BY DEF FeedbackTypes
<1>1. CASE ProcessTargetValueChange(u)
  <2>1. PICK m \in Mappings, v \in Values :
          /\ targetValue' = [targetValue EXCEPT ![u][m] = v]
          /\ UNCHANGED <<backboneVars, queueVars, enablingVars, on, source>>
          /\ SendMappingFeedback(u, lastFeedback[u], {m} \cap on[u])
    BY <1>1 DEF ProcessTargetValueChange
  <2>2. /\ settings' \in [Units -> Settings]
        /\ source' \in [Units -> [Mappings -> Addresses]]
        /\ targetValue' \in [Units -> [Mappings -> Values]]
    BY <2>1 DEF FeedbackTypes, enablingVars
  <2>3. lastFeedback' \in [Units -> LastStates] /\ light' \in [Outputs -> LightStates]
    <3>1. {m} \cap on[u] \in SUBSET Mappings
      OBVIOUS
    <3>. QED  BY <1>0, <2>1, <2>2, <3>1, SendingTypes
  <2>. QED  BY <2>1, <2>2, <2>3 DEF FeedbackTypes, backboneVars, queueVars, enablingVars
<1>2. CASE SendAllFeedback(u)
  <2>1. /\ UNCHANGED <<backboneVars, queueVars, enablingVars, mappingVars>>
        /\ SendMappingFeedback(u, NoFeedbackSent, on[u])
    BY <1>2 DEF SendAllFeedback
  <2>2. /\ settings' \in [Units -> Settings]
        /\ source' \in [Units -> [Mappings -> Addresses]]
        /\ targetValue' \in [Units -> [Mappings -> Values]]
    BY <2>1 DEF FeedbackTypes, enablingVars, mappingVars
  <2>3. lastFeedback' \in [Units -> LastStates] /\ light' \in [Outputs -> LightStates]
    BY <1>0, <2>1, <2>2, SendingTypes, NothingSentType
  <2>. QED  BY <2>1, <2>2, <2>3 DEF FeedbackTypes, backboneVars, queueVars, enablingVars, mappingVars
<1>. QED  BY <1>1, <1>2

\* A unit leaves the list of main processors, in which it is only once.
LEMMA RemovedElement ==
    ASSUME NEW T, NEW s \in Seq(T), NEW i \in 1..Len(s),
           \A j, k \in DOMAIN s : s[j] = s[k] => j = k
    PROVE  LET r == RemoveAt(s, i)
           IN  /\ r \in Seq(T)
               /\ \A j, k \in DOMAIN r : r[j] = r[k] => j = k
               /\ ToSet(r) = ToSet(s) \ {s[i]}
<1>1. PICK n \in Nat : n = Len(s) /\ s \in [1..n -> T] /\ i \in 1..n
  OBVIOUS
<1>2. PICK r : r = RemoveAt(s, i)
  OBVIOUS
<1>3. /\ r \in Seq(T) /\ Len(r) = n - 1
      /\ \A k \in 1..(n - 1) : r[k] = IF k < i THEN s[k] ELSE s[k + 1]
  <2>1. PICK a, b : a = SubSeq(s, 1, i - 1) /\ b = SubSeq(s, i + 1, n)
    OBVIOUS
  <2>2. /\ a \in Seq(T) /\ Len(a) = i - 1
        /\ \A k \in 1..(i - 1) : a[k] = s[k]
    BY <1>1, <2>1
  <2>3. /\ b \in Seq(T) /\ Len(b) = n - i
        /\ \A k \in 1..(n - i) : b[k] = s[k + i]
    <3>1. s \in Seq(T) /\ Len(s) = n /\ i + 1 \in 1..(n + 1)
      BY <1>1
    <3>2. b = [k \in 1..(n - i) |-> s[k + i]]
      BY <1>1, <2>1, <3>1
    <3>3. \A k \in 1..(n - i) : k + i \in 1..n
      BY <1>1
    <3>4. n - i \in Nat /\ \A k \in 1..(n - i) : s[k + i] \in T
      BY <1>1, <3>3
    <3>. QED  BY <3>2, <3>4
  <2>4. r = a \o b
    BY <1>1, <1>2, <2>1 DEF RemoveAt
  <2>5. r \in Seq(T) /\ Len(r) = n - 1
    <3>1. a \o b \in Seq(T) /\ Len(a \o b) = Len(a) + Len(b)
      BY <2>2, <2>3
    <3>2. (i - 1) + (n - i) = n - 1
      BY <1>1
    <3>. QED  BY <2>2, <2>3, <2>4, <3>1, <3>2
  <2>6. ASSUME NEW k \in 1..(n - 1) PROVE r[k] = IF k < i THEN s[k] ELSE s[k + 1]
    <3>1. CASE k < i
      <4>1. k \in 1..Len(a) /\ k \in 1..(i - 1)
        BY <1>1, <2>2, <3>1
      <4>. QED  BY <2>2, <2>3, <2>4, <3>1, <4>1
    <3>2. CASE ~(k < i)
      <4>1. PICK j : j = k - (i - 1)
        OBVIOUS
      <4>2. j \in 1..(n - i) /\ k = Len(a) + j /\ j + i = k + 1
        BY <1>1, <2>2, <3>2, <4>1
      <4>3. r[k] = b[j]
        BY <1>1, <2>2, <2>3, <2>4, <4>2
      <4>. QED  BY <2>3, <3>2, <4>2, <4>3
    <3>. QED  BY <3>1, <3>2
  <2>. QED  BY <2>5, <2>6
<1>4. ASSUME NEW j \in 1..(n - 1), NEW k \in 1..(n - 1), r[j] = r[k] PROVE j = k
  <2>1. j \in 1..n /\ k \in 1..n /\ j + 1 \in 1..n /\ k + 1 \in 1..n
    BY <1>1
  <2>. QED  BY <1>1, <1>3, <1>4, <2>1
<1>5. ToSet(r) \subseteq ToSet(s) \ {s[i]}
  <2>1. ASSUME NEW k \in 1..(n - 1) PROVE r[k] \in ToSet(s) /\ r[k] # s[i]
    <3>1. k \in 1..n /\ k + 1 \in 1..n
      BY <1>1
    <3>2. r[k] \in {s[k], s[k + 1]} /\ (r[k] = s[k] => k < i \/ s[k] = s[k + 1])
      BY <1>3
    <3>3. s[k] # s[k + 1] /\ (s[k] = s[i] => k = i) /\ (s[k + 1] = s[i] => k + 1 = i)
      BY <1>1, <3>1
    <3>4. s[k] \in ToSet(s) /\ s[k + 1] \in ToSet(s)
      BY <1>1, <3>1 DEF ToSet
    <3>5. r[k] # s[i]
      BY <1>1, <1>3, <3>3
    <3>. QED  BY <3>2, <3>4, <3>5
  <2>2. DOMAIN r = 1..(n - 1)
    BY <1>1, <1>3
  <2>3. ToSet(r) = {r[k] : k \in 1..(n - 1)}
    BY <2>2 DEF ToSet
  <2>. QED  BY <2>1, <2>3
<1>6. ToSet(s) \ {s[i]} \subseteq ToSet(r)
  <2>1. DOMAIN r = 1..(n - 1)
    BY <1>1, <1>3
  <2>2. ASSUME NEW k \in 1..n, k # i PROVE s[k] \in ToSet(r)
    <3>1. CASE k < i
      <4>1. k \in 1..(n - 1)
        BY <1>1, <3>1
      <4>. QED  BY <1>3, <2>1, <3>1, <4>1 DEF ToSet
    <3>2. CASE ~(k < i)
      <4>1. PICK j : j = k - 1
        OBVIOUS
      <4>2. j \in 1..(n - 1) /\ ~(j < i) /\ k = j + 1
        BY <1>1, <2>2, <3>2, <4>1
      <4>. QED  BY <1>3, <2>1, <4>2 DEF ToSet
    <3>. QED  BY <3>1, <3>2
  <2>3. DOMAIN s = 1..n
    BY <1>1
  <2>. QED  BY <2>2, <2>3 DEF ToSet
<1>7. DOMAIN r = 1..(n - 1)
  BY <1>1, <1>3
<1>. QED  BY <1>2, <1>3, <1>4, <1>5, <1>6, <1>7

LEMMA RemovalTypes ==
    ASSUME FeedbackTypes, NEW u \in Units, DropMainProcessor(u)
    PROVE  FeedbackTypes'
<1>1. PICK i \in DOMAIN mainProcessors : mainProcessors' = RemoveAt(mainProcessors, i)
  BY DEF DropMainProcessor
<1>2. /\ mainProcessors' \in Seq(Units)
      /\ \A j, k \in DOMAIN mainProcessors' : mainProcessors'[j] = mainProcessors'[k] => j = k
  <2>1. i \in 1..Len(mainProcessors) /\ mainProcessors \in Seq(Units)
    BY DEF FeedbackTypes
  <2>2. \A j, k \in DOMAIN mainProcessors : mainProcessors[j] = mainProcessors[k] => j = k
    BY DEF FeedbackTypes
  <2>. QED  BY <1>1, <2>1, <2>2, RemovedElement
<1>3. settings[u].feedbackOutput \in Destinations
  BY DEF FeedbackTypes, Settings, Destinations
<1>4. light' \in [Outputs -> LightStates]
  <2>1. light \in [Outputs -> LightStates] /\ Off \in Values
    BY OrchestrationAssumption DEF FeedbackTypes
  <2>2. PICK output, used : \/ light' = light
                            \/ light' = [light EXCEPT ![output] =
                                [a \in Addresses |->
                                    IF a \in used /\ lastFeedback[u][a] # Off
                                    THEN Off ELSE @[a]]]
    BY DEF DropMainProcessor
  <2>. QED  BY <2>1, <2>2 DEF LightStates
<1>5. events' \in Seq(Releases \cup Updates)
  <2>1. PICK e \in Updates : e = IoUpdated(u, settings[u].feedbackOutput, FALSE)
    BY <1>3, UpdateTypes
  <2>2. events' = Append(events, e)
    BY <2>1 DEF DropMainProcessor
  <2>3. events \in Seq(Releases \cup Updates)
    BY DEF FeedbackTypes
  <2>. HIDE DEF Releases, Updates
  <2>. QED  BY <2>2, <2>3
<1>. QED  BY <1>2, <1>4, <1>5 DEF DropMainProcessor, FeedbackTypes, enablingVars, mappingVars

LEMMA UnitTypes ==
    ASSUME FeedbackTypes, NEW u \in Units, UnitStep(u)
    PROVE  FeedbackTypes'
<1>1. CASE SyncUpperFloorMembership(u)
  BY <1>1 DEF SyncUpperFloorMembership, FeedbackTypes, SymDiff, queueVars, enablingVars, mappingVars, deviceVars
<1>. QED  BY <1>1, SettingsTypes, CircumstancesTypes, ConditionsTypes, SingleTypes, ValueTypes,
            RemovalTypes DEF UnitStep

\* What SendTo changes.
LEMMA SendToTypes ==
    ASSUME FeedbackTypes, NEW u \in Units, NEW output \in Destinations, NEW a \in Addresses,
           NEW v \in Values, SendTo(u, output, a, v)
    PROVE  lastFeedback' \in [Units -> LastStates] /\ light' \in [Outputs -> LightStates]
BY DEF FeedbackTypes, SendTo, LastStates, LightStates, Destinations

\* The next event is taken and counted.
LEMMA NextTypes ==
    ASSUME FeedbackTypes, NEW type, NextEventIs(type)
    PROVE  /\ Head(events) \in Releases \cup Updates
           /\ Head(events).unit \in Units /\ Head(events).output \in Destinations
           /\ type = "SourceReleased" => Head(events) \in Releases
           /\ type = "IoUpdated" => Head(events) \in Updates
           /\ Tail(events) \in Seq(Releases \cup Updates)
           /\ ToSet(events) = {Head(events)} \cup ToSet(Tail(events))
           /\ CountEvent => room' \in 0..Bulk
<1>1. events \in Seq(Releases \cup Updates) /\ events # <<>>
  BY DEF FeedbackTypes, NextEventIs
<1>2. PICK T : T = Releases \cup Updates
  OBVIOUS
<1>3. PICK e : e = Head(events)
  OBVIOUS
<1>4. e \in T /\ Tail(events) \in Seq(T) /\ ToSet(events) = {e} \cup ToSet(Tail(events))
  <2>1. PICK s : s = events
    OBVIOUS
  <2>2. s \in Seq(T) /\ s # <<>>
    BY <1>1, <1>2, <2>1
  <2>. QED  BY <1>3, <2>1, <2>2, HeadAndTail
<1>5. e.type = type
  BY <1>3 DEF NextEventIs
<1>6. e.unit \in Units /\ e.output \in Destinations
  BY <1>2, <1>4 DEF Releases, Updates
<1>7. /\ type = "SourceReleased" => e \in Releases
      /\ type = "IoUpdated" => e \in Updates
  BY <1>2, <1>4, <1>5 DEF Releases, Updates
<1>8. CountEvent => room' \in 0..Bulk
  BY OrchestrationAssumption DEF CountEvent, NextEventIs, FeedbackTypes
<1>. QED  BY <1>2, <1>3, <1>4, <1>6, <1>7, <1>8

LEMMA TakeOverTypes ==
    ASSUME FeedbackTypes, TakeOverSource
    PROVE  FeedbackTypes'
<1>1. PICK e : e = Head(events) /\ events' = Tail(events)
  BY DEF TakeOverSource
<1>2. /\ e.unit \in Units /\ e.output \in Destinations /\ e.address \in Addresses
      /\ Tail(events) \in Seq(Releases \cup Updates) /\ room' \in 0..Bulk
  BY <1>1, NextTypes DEF TakeOverSource, Releases
<1>3. PICK i \in DOMAIN mainProcessors :
        /\ CanTakeOver(mainProcessors[i], e)
        /\ SendTo(mainProcessors[i], e.output, e.address,
                  targetValue[mainProcessors[i]][Min(Takers(mainProcessors[i], e))])
  BY <1>1 DEF TakeOverSource
<1>4. PICK u \in Units : u = mainProcessors[i]
  BY DEF FeedbackTypes
<1>5. PICK m : m = Min(Takers(u, e))
  OBVIOUS
<1>6. m \in Takers(u, e) /\ m \in Mappings
  <2>1. PICK S : S = Takers(u, e)
    OBVIOUS
  <2>2. S # {} /\ S \subseteq 1..NumMappings
    BY <1>3, <1>4, <2>1 DEF CanTakeOver, Takers, MappingsAt, FeedbackTypes, Mappings
  <2>. QED  BY <1>5, <2>1, <2>2, Extremes, OrchestrationAssumption DEF Mappings
<1>7. targetValue[u][m] \in Values
  BY <1>6 DEF FeedbackTypes
<1>8. lastFeedback' \in [Units -> LastStates] /\ light' \in [Outputs -> LightStates]
  BY <1>2, <1>3, <1>4, <1>5, <1>7, SendToTypes
<1>. QED  BY <1>1, <1>2, <1>8 DEF TakeOverSource, FeedbackTypes, backboneVars, enablingVars, mappingVars

LEMMA SwitchOffTypes ==
    ASSUME FeedbackTypes, FinallySwitchOffSource
    PROVE  FeedbackTypes'
<1>1. PICK e : e = Head(events) /\ events' = Tail(events)
  BY DEF FinallySwitchOffSource
<1>2. /\ e.unit \in Units /\ e.output \in Destinations /\ e.address \in Addresses
      /\ Tail(events) \in Seq(Releases \cup Updates) /\ room' \in 0..Bulk
  BY <1>1, NextTypes DEF FinallySwitchOffSource, Releases
<1>3. SendTo(e.unit, e.output, e.address, Off) \/ UNCHANGED deviceVars
  BY <1>1 DEF FinallySwitchOffSource
<1>4. lastFeedback' \in [Units -> LastStates] /\ light' \in [Outputs -> LightStates]
  BY <1>2, <1>3, SendToTypes, OrchestrationAssumption DEF deviceVars, FeedbackTypes
<1>. QED  BY <1>1, <1>2, <1>4 DEF FinallySwitchOffSource, FeedbackTypes, backboneVars, enablingVars,
                                    mappingVars

LEMMA CoveredTypes ==
    ASSUME FeedbackTypes, NEW covered, NEW output \in Destinations
    PROVE  CoveredUnitsRelease(covered, output) \in Seq(Releases)
<1>1. PICK n \in Nat : mainProcessors \in [1..n -> Units]
  BY DEF FeedbackTypes
<1>2. PICK ss : ss = [i \in DOMAIN mainProcessors |->
                        IF mainProcessors[i] \in covered
                        THEN AllZeroEvents(mainProcessors[i], output) ELSE <<>>]
  OBVIOUS
<1>3. ASSUME NEW i \in 1..n PROVE ss[i] \in Seq(Releases)
  <2>1. mainProcessors[i] \in Units /\ i \in DOMAIN mainProcessors
    BY <1>1
  <2>2. AllZeroEvents(mainProcessors[i], output) \in Seq(Releases)
    BY <2>1, AllZeroTypes
  <2>. HIDE DEF Releases
  <2>. QED  BY <1>2, <2>1, <2>2
<1>4. ss \in Seq(Seq(Releases))
  <2>. HIDE DEF Releases
  <2>1. DOMAIN ss = 1..n /\ ss = [i \in 1..n |-> ss[i]]
    BY <1>1, <1>2
  <2>. QED  BY <1>1, <1>3, <2>1
<1>. QED  BY <1>2, <1>4, FlattenedElements DEF CoveredUnitsRelease

\* What the units do when a superior unit comes or goes, in terms of sets.
Reached(output, affected) == {u \in Alive \cap affected : settings[u].feedbackOutput = output}

Active(usages, output, affected) == {u \in Reached(output, affected) : EffectivelyEnabled(usages, u)}

Writers(usages, output, affected, a) ==
    {i \in DOMAIN mainProcessors :
        /\ mainProcessors[i] \in Active(usages, output, affected)
        /\ MappingsAt(on[mainProcessors[i]], source[mainProcessors[i]], a) # {}}

LEMMA LastWriter ==
    ASSUME FeedbackTypes, NEW usages, NEW output, NEW affected, NEW a,
           Writers(usages, output, affected, a) # {}
    PROVE  LET u == mainProcessors[Max(Writers(usages, output, affected, a))]
           IN  /\ u \in Units /\ u \in Active(usages, output, affected)
               /\ \E m \in MappingsAt(on[u], source[u], a) :
                     FinalValue(on[u], source[u], targetValue[u], a) = targetValue[u][m]
<1>1. PICK S : S = Writers(usages, output, affected, a)
  OBVIOUS
<1>2. PICK n \in Nat : mainProcessors \in [1..n -> Units]
  BY DEF FeedbackTypes
<1>3. S \subseteq 1..n /\ S # {}
  BY <1>1, <1>2 DEF Writers
<1>4. PICK i : i = Max(S) /\ i \in S
  BY <1>3, Extremes
<1>5. PICK u : u = mainProcessors[i]
  OBVIOUS
<1>6. u \in Units /\ u \in Active(usages, output, affected) /\ MappingsAt(on[u], source[u], a) # {}
  BY <1>1, <1>2, <1>3, <1>4, <1>5 DEF Writers
<1>7. on[u] \subseteq Mappings
  BY <1>6 DEF FeedbackTypes
<1>. QED  BY <1>1, <1>4, <1>5, <1>6, <1>7, FinalValues

LEMMA UpperFloorTypes ==
    ASSUME FeedbackTypes, NEW usages, NEW output \in Outputs, NEW affected,
           Tail(events) \in Seq(Releases \cup Updates),
           ReactToUpperFloor(usages, output, affected)
    PROVE  /\ lastFeedback' \in [Units -> LastStates]
           /\ light' \in [Outputs -> LightStates]
           /\ events' \in Seq(Releases \cup Updates)
<1>1. lastFeedback' = [u \in Units |->
          IF u \in Active(usages, output, affected)
          THEN LastAfter(NoFeedbackSent, on[u], source[u], targetValue[u])
          ELSE lastFeedback[u]]
  BY DEF ReactToUpperFloor, Active, Reached
<1>2. light' = [light EXCEPT ![output] =
          [a \in Addresses |->
              IF Writers(usages, output, affected, a) = {} THEN @[a]
              ELSE LET u == mainProcessors[Max(Writers(usages, output, affected, a))]
                   IN  FinalValue(on[u], source[u], targetValue[u], a)]]
  BY DEF ReactToUpperFloor, Active, Reached, Writers
<1>3. PICK r : /\ r = CoveredUnitsRelease(Reached(output, affected) \ Active(usages, output, affected), output)
               /\ events' = Tail(events) \o r
  BY DEF ReactToUpperFloor, Active, Reached
<1>4. ASSUME NEW u \in Units
      PROVE  LastAfter(NoFeedbackSent, on[u], source[u], targetValue[u]) \in LastStates
  <2>1. /\ on[u] \in SUBSET Mappings /\ source[u] \in [Mappings -> Addresses]
        /\ targetValue[u] \in [Mappings -> Values]
    BY DEF FeedbackTypes
  <2>. QED  BY <2>1, NothingSentType, SentTypes
<1>5. lastFeedback' \in [Units -> LastStates]
  BY <1>1, <1>4 DEF FeedbackTypes
<1>6. ASSUME NEW a \in Addresses, Writers(usages, output, affected, a) # {}
      PROVE  LET u == mainProcessors[Max(Writers(usages, output, affected, a))]
             IN  FinalValue(on[u], source[u], targetValue[u], a) \in Values
  <2>1. PICK u : u = mainProcessors[Max(Writers(usages, output, affected, a))]
    OBVIOUS
  <2>2. PICK m \in MappingsAt(on[u], source[u], a) :
          /\ u \in Units
          /\ FinalValue(on[u], source[u], targetValue[u], a) = targetValue[u][m]
    BY <1>6, <2>1, LastWriter
  <2>3. m \in Mappings
    BY <2>2 DEF MappingsAt, FeedbackTypes
  <2>. QED  BY <2>1, <2>2, <2>3 DEF FeedbackTypes
<1>7. light' \in [Outputs -> LightStates]
  BY <1>2, <1>6 DEF FeedbackTypes, LightStates
<1>8. events' \in Seq(Releases \cup Updates)
  <2>1. r \in Seq(Releases)
    BY <1>3, CoveredTypes DEF Destinations
  <2>2. PICK T : T = Releases \cup Updates
    OBVIOUS
  <2>. HIDE DEF Releases, Updates
  <2>3. r \in Seq(T) /\ Tail(events) \in Seq(T)
    BY <2>1, <2>2
  <2>4. Tail(events) \o r \in Seq(T)
    BY <2>3
  <2>. QED  BY <1>3, <2>2, <2>4
<1>. QED  BY <1>5, <1>7, <1>8

\* The device that an event names and the usages after it.
Named(e) == IF e.used THEN e.output ELSE NoDevice

LEMMA IoTypes ==
    ASSUME FeedbackTypes, ProcessIoUpdated
    PROVE  FeedbackTypes'
<1>1. PICK e : e = Head(events)
  OBVIOUS
<1>2. /\ e.unit \in Units /\ e.output \in Destinations
      /\ Tail(events) \in Seq(Releases \cup Updates) /\ room' \in 0..Bulk
  BY <1>1, NextTypes DEF ProcessIoUpdated
<1>3. PICK usages : usages = UpdatedUsages(feedbackOutputUsages, e.unit, Named(e))
  OBVIOUS
<1>4. /\ feedbackOutputUsages' = usages
      /\ \/ /\ e.output \in Outputs
            /\ ReactToUpperFloor(usages, e.output, Units \ {e.unit})
         \/ events' = Tail(events) /\ UNCHANGED deviceVars
  BY <1>1, <1>2, <1>3 DEF ProcessIoUpdated, Named, Destinations
<1>5. feedbackOutputUsages' \in [Outputs -> SUBSET Units]
  BY <1>2, <1>3, <1>4 DEF UpdatedUsages, FeedbackTypes
<1>6. /\ lastFeedback' \in [Units -> LastStates]
      /\ light' \in [Outputs -> LightStates]
      /\ events' \in Seq(Releases \cup Updates)
  BY <1>2, <1>4, UpperFloorTypes DEF deviceVars, FeedbackTypes
<1>. QED  BY <1>2, <1>5, <1>6 DEF ProcessIoUpdated, FeedbackTypes, enablingVars, mappingVars

LEMMA InitialTypes == Init => FeedbackTypes
<1>1. SUFFICES ASSUME Init PROVE FeedbackTypes
  OBVIOUS
<1>2. /\ mainProcessors \in [1..Cardinality(Units) -> Units]
      /\ \A i, j \in 1..Cardinality(Units) : i # j => mainProcessors[i] # mainProcessors[j]
  BY <1>1 DEF Init, SetToSeqs
<1>3. Cardinality(Units) \in Nat
  BY OrchestrationAssumption, FS_CardinalityType
<1>4. /\ mainProcessors \in Seq(Units)
      /\ \A i, j \in DOMAIN mainProcessors : mainProcessors[i] = mainProcessors[j] => i = j
  BY <1>2, <1>3
<1>5. NoSettings \in Settings
  BY DEF NoSettings, Settings
<1>6. superiorUnits \in SUBSET Units /\ room \in 0..Bulk
  BY <1>1, OrchestrationAssumption DEF Init
<1>7. events \in Seq(Releases \cup Updates)
  BY <1>1 DEF Init
<1>8. lastFeedback \in [Units -> LastStates]
  BY <1>1, NothingSentType DEF Init
<1>9. light \in [Outputs -> LightStates]
  BY <1>1, OrchestrationAssumption DEF Init, LightStates
<1>. QED  BY <1>1, <1>4, <1>5, <1>6, <1>7, <1>8, <1>9 DEF Init, FeedbackTypes, Circumstances

LEMMA TypesKept == FeedbackTypes /\ [Next]_vars => FeedbackTypes'
<1>1. SUFFICES ASSUME FeedbackTypes, [Next]_vars PROVE FeedbackTypes'
  OBVIOUS
<1>2. ASSUME NEW u \in Units, UnitStep(u) PROVE FeedbackTypes'
  BY <1>1, <1>2, UnitTypes
<1>3. CASE BeginCycle
  BY <1>1, <1>3, OrchestrationAssumption
     DEF BeginCycle, FeedbackTypes, backboneVars, enablingVars, mappingVars, deviceVars
<1>4. CASE UNCHANGED vars
  BY <1>1, <1>4 DEF vars, FeedbackTypes, backboneVars, queueVars, enablingVars, mappingVars, deviceVars
<1>. QED  BY <1>1, <1>2, <1>3, <1>4, TakeOverTypes, SwitchOffTypes, IoTypes DEF Next, ProcessEvent

(* Types of the feedback orchestration.                                    *)
THEOREM FeedbackTypeCorrectness == Spec => []TypeOK
<1>1. FeedbackTypes /\ [Next]_vars => FeedbackTypes'
  BY TypesKept
<1>2. Init => FeedbackTypes
  BY InitialTypes
<1>3. FeedbackTypes => TypeOK
  BY TypesSuffice
<1>. QED  BY <1>1, <1>2, <1>3, PTL DEF Spec

------------------------------------------------------------------------------
(* Lights never flicker.                                                   *)

NoFlicker(d, a) ==
    light'[d][a] # light[d][a] /\ mainProcessors' = mainProcessors =>
        \/ light'[d][a] \in SendableValues(d, a)'
        \/ light'[d][a] = Off /\ SendableValues(d, a)' = {}

\* The value of a mapping of a unit that may send.
LEMMA SendableValue ==
    ASSUME NEW u \in Alive, NEW d, NEW a, NEW m \in MappingsAt(on[u], source[u], a),
           settings[u].feedbackOutput = d, EffectivelyEnabled(feedbackOutputUsages, u)
    PROVE  targetValue[u][m] \in SendableValues(d, a)
BY DEF SendableValues

LEMMA SendingShowsCurrentValues ==
    ASSUME FeedbackTypes, FeedbackTypes',
           NEW u \in Units, u \in Alive', NEW last, NEW ms, ms \subseteq on'[u],
           SendMappingFeedback(u, last, ms),
           NEW d \in Outputs, NEW a \in Addresses
    PROVE  NoFlicker(d, a)
<1>1. SUFFICES ASSUME light'[d][a] # light[d][a] PROVE light'[d][a] \in SendableValues(d, a)'
  BY DEF NoFlicker
<1>2. /\ settings'[u].feedbackOutput = d
      /\ EffectivelyEnabled(feedbackOutputUsages, u)'
      /\ light' = [light EXCEPT ![d] = LightsAfter(@, last, ms, source'[u], targetValue'[u])]
  BY <1>1 DEF SendMappingFeedback, FeedbackTypes
<1>3. light'[d][a] = LightsAfter(light[d], last, ms, source'[u], targetValue'[u])[a]
  BY <1>2 DEF FeedbackTypes
<1>4. /\ MappingsAt(ms, source'[u], a) # {}
      /\ light'[d][a] = FinalValue(ms, source'[u], targetValue'[u], a)
  BY <1>1, <1>3 DEF LightsAfter
<1>5. ms \subseteq Mappings
  BY DEF FeedbackTypes
<1>6. PICK m \in MappingsAt(ms, source'[u], a) : light'[d][a] = targetValue'[u][m]
  BY <1>4, <1>5, FinalValues
<1>7. m \in MappingsAt(on'[u], source'[u], a)
  BY <1>6 DEF MappingsAt
<1>8. targetValue'[u][m] \in SendableValues(d, a)'
  BY <1>2, <1>7 DEF SendableValues
<1>. QED  BY <1>6, <1>8

LEMMA OperationsDontFlicker ==
    ASSUME FeedbackTypes, FeedbackTypes', NEW u \in Units, UnitStep(u),
           NEW d \in Outputs, NEW a \in Addresses
    PROVE  NoFlicker(d, a)
<1>1. SUFFICES ASSUME light' # light, mainProcessors' = mainProcessors PROVE NoFlicker(d, a)
  BY DEF NoFlicker
<1>2. u \in Alive'
  BY <1>1, OnlyAliveUnits DEF Alive
<1>3. SUFFICES \E last, ms : ms \subseteq on'[u] /\ SendMappingFeedback(u, last, ms)
  BY <1>2, SendingShowsCurrentValues
<1>4. ASSUME NEW last, NEW announced, PotentiallyEnableOrDisable(u, last, announced),
             UNCHANGED mappingVars
      PROVE  SendMappingFeedback(u, NoFeedbackSent, on[u]) /\ on'[u] = on[u]
  BY <1>1, <1>4 DEF PotentiallyEnableOrDisable, mappingVars
<1>5. CASE UpdateSettings(u) \/ ChangeCircumstances(u)
  BY <1>4, <1>5 DEF UpdateSettings, ChangeCircumstances
<1>6. ASSUME NEW newOn, NEW changed, NEW last, NEW announced,
             SwitchMappings(u, newOn, changed, last, announced)
      PROVE  SendMappingFeedback(u, last, changed \cap newOn) /\ on'[u] = newOn
  BY <1>6 DEF SwitchMappings, FeedbackTypes
<1>7. CASE UpdateAllMappings(u) \/ ProcessChangedConditions(u) \/ ProcessActivationEffects(u)
  <2>1. PICK newOn, changed, last, announced : SwitchMappings(u, newOn, changed, last, announced)
    BY <1>7 DEF UpdateAllMappings, ProcessChangedConditions, ProcessActivationEffects
  <2>. QED  BY <1>6, <2>1
<1>8. CASE UpdateSingleMapping(u) \/ UpdatePersistentProcessingState(u)
  <2>1. PICK m, newOn, last, released : SwitchSingleMapping(u, m, newOn, last, released)
    BY <1>8 DEF UpdateSingleMapping, UpdatePersistentProcessingState
  <2>2. SendMappingFeedback(u, last, {m} \cap newOn) /\ on'[u] = newOn
    BY <2>1 DEF SwitchSingleMapping, FeedbackTypes
  <2>. QED  BY <2>2
<1>9. CASE ProcessTargetValueChange(u)
  <2>1. PICK m : SendMappingFeedback(u, lastFeedback[u], {m} \cap on[u]) /\ on' = on
    BY <1>9 DEF ProcessTargetValueChange
  <2>. QED  BY <2>1
<1>10. CASE SendAllFeedback(u)
  BY <1>10 DEF SendAllFeedback, mappingVars
<1>11. CASE SyncUpperFloorMembership(u)
  BY <1>1, <1>11 DEF SyncUpperFloorMembership, deviceVars
<1>12. CASE DropMainProcessor(u)
  <2>1. PICK i \in DOMAIN mainProcessors :
          mainProcessors[i] = u /\ mainProcessors' = RemoveAt(mainProcessors, i)
    BY <1>12 DEF DropMainProcessor
  <2>2. i \in 1..Len(mainProcessors) /\ mainProcessors \in Seq(Units)
    BY DEF FeedbackTypes
  <2>3. \A j, k \in DOMAIN mainProcessors : mainProcessors[j] = mainProcessors[k] => j = k
    BY DEF FeedbackTypes
  <2>4. ToSet(mainProcessors') = ToSet(mainProcessors) \ {u}
    BY <2>1, <2>2, <2>3, RemovedElement
  <2>. QED  BY <1>2, <2>4 DEF Alive
<1>. QED  BY <1>5, <1>7, <1>8, <1>9, <1>10, <1>11, <1>12 DEF UnitStep

\* Who may send can take over and vice versa.
LEMMA CanTakeOverWhatItSends ==
    ASSUME NEW e, e.output \in Outputs, NEW v \in SendableValues(e.output, e.address)
    PROVE  \E u \in Alive : CanTakeOver(u, e)
BY DEF SendableValues, CanTakeOver, Takers

\* Processing an event changes nothing that decides about what may be sent,
\* except for the usages.
LEMMA TakingOverDoesntFlicker ==
    ASSUME FeedbackTypes, TakeOverSource, NEW d \in Outputs, NEW a \in Addresses
    PROVE  NoFlicker(d, a)
<1>1. PICK e : e = Head(events)
  OBVIOUS
<1>2. PICK i \in DOMAIN mainProcessors :
        /\ CanTakeOver(mainProcessors[i], e)
        /\ SendTo(mainProcessors[i], e.output, e.address,
                  targetValue[mainProcessors[i]][Min(Takers(mainProcessors[i], e))])
  BY <1>1 DEF TakeOverSource
<1>3. PICK u \in Units : u = mainProcessors[i]
  BY DEF FeedbackTypes
<1>4. u \in Alive
  BY <1>2, <1>3 DEF Alive, ToSet
<1>5. PICK m : m = Min(Takers(u, e))
  OBVIOUS
<1>6. /\ m \in MappingsAt(on[u], source[u], e.address)
      /\ settings[u].feedbackOutput = e.output
      /\ EffectivelyEnabled(feedbackOutputUsages, u)
  <2>1. PICK S : S = Takers(u, e)
    OBVIOUS
  <2>2. S # {} /\ S \subseteq 1..NumMappings
    BY <1>2, <1>3, <2>1 DEF CanTakeOver, Takers, MappingsAt, FeedbackTypes, Mappings
  <2>3. m \in S
    BY <1>5, <2>1, <2>2, Extremes, OrchestrationAssumption
  <2>. QED  BY <1>2, <1>3, <2>1, <2>3 DEF Takers, CanTakeOver
<1>7. ASSUME light'[d][a] # light[d][a]
      PROVE  e.output = d /\ e.address = a /\ light'[d][a] = targetValue[u][m]
  BY <1>2, <1>3, <1>5, <1>7 DEF SendTo, FeedbackTypes, LightStates
<1>8. SendableValues(d, a)' = SendableValues(d, a)
  BY DEF TakeOverSource, SendableValues, EffectivelyEnabled, FeedbackIsAllowed, Alive,
         backboneVars, enablingVars, mappingVars
<1>9. ASSUME light'[d][a] # light[d][a] PROVE light'[d][a] \in SendableValues(d, a)
  BY <1>4, <1>6, <1>7, <1>9, SendableValue
<1>. QED  BY <1>8, <1>9 DEF NoFlicker

LEMMA SwitchingOffDoesntFlicker ==
    ASSUME FeedbackTypes, FinallySwitchOffSource, NEW d \in Outputs, NEW a \in Addresses
    PROVE  NoFlicker(d, a)
<1>1. PICK e : e = Head(events)
  OBVIOUS
<1>2. ~ \E u \in Alive : CanTakeOver(u, e)
  BY <1>1 DEF FinallySwitchOffSource
<1>3. ASSUME light'[d][a] # light[d][a]
      PROVE  e.output = d /\ e.address = a /\ light'[d][a] = Off
  BY <1>1, <1>3 DEF FinallySwitchOffSource, SendTo, FeedbackTypes, LightStates, deviceVars
<1>4. SendableValues(d, a)' = SendableValues(d, a)
  BY DEF FinallySwitchOffSource, SendableValues, EffectivelyEnabled, FeedbackIsAllowed, Alive,
         backboneVars, enablingVars, mappingVars
<1>5. ASSUME light'[d][a] # light[d][a] PROVE SendableValues(d, a) = {}
  BY <1>2, <1>3, <1>5, CanTakeOverWhatItSends
<1>. QED  BY <1>3, <1>4, <1>5 DEF NoFlicker

LEMMA UpperFloorDoesntFlicker ==
    ASSUME FeedbackTypes, ProcessIoUpdated, NEW d \in Outputs, NEW a \in Addresses
    PROVE  NoFlicker(d, a)
<1>1. SUFFICES ASSUME light'[d][a] # light[d][a] PROVE light'[d][a] \in SendableValues(d, a)'
  BY DEF NoFlicker
<1>2. PICK output, affected : ReactToUpperFloor(feedbackOutputUsages', output, affected)
  BY <1>1 DEF ProcessIoUpdated, deviceVars
<1>3. PICK usages : usages = feedbackOutputUsages'
  OBVIOUS
<1>4. light' = [light EXCEPT ![output] =
          [b \in Addresses |->
              IF Writers(usages, output, affected, b) = {} THEN @[b]
              ELSE LET u == mainProcessors[Max(Writers(usages, output, affected, b))]
                   IN  FinalValue(on[u], source[u], targetValue[u], b)]]
  BY <1>2, <1>3 DEF ReactToUpperFloor, Active, Reached, Writers
<1>5. PICK u : u = mainProcessors[Max(Writers(usages, output, affected, a))]
  OBVIOUS
<1>6. /\ output = d
      /\ Writers(usages, output, affected, a) # {}
      /\ light'[d][a] = FinalValue(on[u], source[u], targetValue[u], a)
  BY <1>1, <1>4, <1>5 DEF FeedbackTypes, LightStates
<1>7. PICK m \in MappingsAt(on[u], source[u], a) :
        u \in Active(usages, output, affected) /\ light'[d][a] = targetValue[u][m]
  BY <1>5, <1>6, LastWriter
<1>8. u \in Alive /\ settings[u].feedbackOutput = d /\ EffectivelyEnabled(usages, u)
  BY <1>6, <1>7 DEF Active, Reached
<1>9. /\ EffectivelyEnabled(feedbackOutputUsages, u)' /\ u \in Alive'
      /\ settings' = settings /\ on' = on /\ source' = source /\ targetValue' = targetValue
  BY <1>3, <1>8 DEF ProcessIoUpdated, EffectivelyEnabled, FeedbackIsAllowed, Alive, enablingVars,
                    mappingVars
<1>. QED  BY <1>7, <1>8, <1>9 DEF SendableValues

(* At no single step a light gets a value that nobody who may send has, or *)
(* goes off although somebody would take it over (maybe_takeover_source),  *)
(* whatever happens to the units.                                          *)
THEOREM LightsDontFlicker == Spec => LightsNeverFlicker
<1>1. ASSUME FeedbackTypes, FeedbackTypes', Next, NEW d \in Outputs, NEW a \in Addresses
      PROVE  NoFlicker(d, a)
  <2>1. CASE BeginCycle
    BY <2>1 DEF BeginCycle, deviceVars, NoFlicker
  <2>. QED  BY <1>1, <2>1, OperationsDontFlicker, TakingOverDoesntFlicker, SwitchingOffDoesntFlicker,
               UpperFloorDoesntFlicker DEF Next, ProcessEvent
<1>2. FeedbackTypes /\ FeedbackTypes' /\ [Next]_vars =>
        [\A d \in Outputs, a \in Addresses :
          light'[d][a] # light[d][a] /\ mainProcessors' = mainProcessors =>
             \/ light'[d][a] \in SendableValues(d, a)'
             \/ light'[d][a] = Off /\ SendableValues(d, a)' = {}]_vars
  BY <1>1 DEF NoFlicker
<1>3. FeedbackTypes /\ [Next]_vars => FeedbackTypes'
  BY TypesKept
<1>4. Init => FeedbackTypes
  BY InitialTypes
<1>. QED  BY <1>2, <1>3, <1>4, PTL DEF Spec, LightsNeverFlicker

------------------------------------------------------------------------------
(* The usage table follows the units.                                      *)

\* Operations which announce whatever they change about the usage.
OpsAnnounceUsage ==
    \A u \in Units : Ops[u] \cap {"UpdateSettings", "ProcessActivationEffects", "UpdateSingleMapping",
                                  "UpdatePersistentProcessingState"} = {}

\* What a unit uses, from its own point of view.
Claim(u) ==
    IF u \in Alive /\ feedbackEnabled[u] /\ on[u] # {} THEN settings[u].feedbackOutput ELSE NoDevice

IsUpdateOf(e, u) == e.type = "IoUpdated" /\ e.unit = u

Silent(s, u) == \A i \in DOMAIN s : ~IsUpdateOf(s[i], u)

LastWord(s, u, device) ==
    \E k \in DOMAIN s : /\ IsUpdateOf(s[k], u) /\ Named(s[k]) = device
                        /\ \A i \in DOMAIN s : i > k => ~IsUpdateOf(s[i], u)

IsEntry(u, device) == \A d \in Outputs : u \in feedbackOutputUsages[d] <=> d = device

Announced(u) ==
    \/ LastWord(events, u, Claim(u))
    \/ Silent(events, u) /\ IsEntry(u, Claim(u))

\* Feedback is enabled for units with a device only.
EnabledWithDevice == \A u \in Units : feedbackEnabled[u] => settings[u].feedbackOutput # NoDevice

UsageInv == FeedbackTypes /\ EnabledWithDevice /\ \A u \in Units : Announced(u)

LEMMA JoinedWords ==
    ASSUME NEW T, NEW s \in Seq(T), NEW t \in Seq(T), NEW u, NEW device
    PROVE  /\ Silent(s, u) /\ Silent(t, u) => Silent(s \o t, u)
           /\ LastWord(s, u, device) /\ Silent(t, u) => LastWord(s \o t, u, device)
           /\ LastWord(t, u, device) => LastWord(s \o t, u, device)
<1>1. PICK r, m, n : r = s \o t /\ m = Len(s) /\ n = Len(t)
  OBVIOUS
<1>2. /\ m \in Nat /\ n \in Nat /\ DOMAIN s = 1..m /\ DOMAIN t = 1..n /\ DOMAIN r = 1..(m + n)
      /\ \A i \in 1..m : r[i] = s[i]
      /\ \A i \in 1..n : r[m + i] = t[i]
  BY <1>1
<1>3. ASSUME NEW i \in 1..(m + n), i > m
      PROVE  \E j \in 1..n : i = m + j /\ r[i] = t[j]
  <2>1. PICK j : j = i - m
    OBVIOUS
  <2>2. j \in 1..n /\ i = m + j
    BY <1>2, <1>3, <2>1
  <2>. QED  BY <1>2, <2>2
<1>4. ASSUME NEW i \in 1..(m + n)
      PROVE  (i \in 1..m /\ r[i] = s[i]) \/ (\E j \in 1..n : i = m + j /\ r[i] = t[j])
  BY <1>2, <1>3
<1>5. ASSUME Silent(s, u), Silent(t, u) PROVE Silent(r, u)
  BY <1>2, <1>4, <1>5 DEF Silent
<1>6. ASSUME LastWord(s, u, device), Silent(t, u) PROVE LastWord(r, u, device)
  <2>1. PICK k \in 1..m : /\ IsUpdateOf(s[k], u) /\ Named(s[k]) = device
                          /\ \A i \in 1..m : i > k => ~IsUpdateOf(s[i], u)
    BY <1>2, <1>6 DEF LastWord
  <2>2. k \in 1..(m + n) /\ r[k] = s[k]
    BY <1>2
  <2>3. ASSUME NEW i \in 1..(m + n), i > k PROVE ~IsUpdateOf(r[i], u)
    BY <1>2, <1>4, <1>6, <2>1, <2>3 DEF Silent
  <2>. QED  BY <1>2, <2>1, <2>2, <2>3 DEF LastWord
<1>7. ASSUME LastWord(t, u, device) PROVE LastWord(r, u, device)
  <2>1. PICK k \in 1..n : /\ IsUpdateOf(t[k], u) /\ Named(t[k]) = device
                          /\ \A i \in 1..n : i > k => ~IsUpdateOf(t[i], u)
    BY <1>2, <1>7 DEF LastWord
  <2>2. m + k \in 1..(m + n) /\ r[m + k] = t[k]
    BY <1>2
  <2>3. ASSUME NEW i \in 1..(m + n), i > m + k PROVE ~IsUpdateOf(r[i], u)
    <3>1. i > m
      BY <1>2, <2>3
    <3>2. PICK j \in 1..n : i = m + j /\ r[i] = t[j]
      BY <1>3, <3>1
    <3>3. j > k
      BY <1>2, <2>3, <3>2
    <3>. QED  BY <2>1, <3>2, <3>3
  <2>4. PICK q : q = m + k
    OBVIOUS
  <2>. QED  BY <1>2, <2>1, <2>2, <2>3, <2>4 DEF LastWord
<1>. QED  BY <1>1, <1>5, <1>6, <1>7

LEMMA RemainingWords ==
    ASSUME NEW T, NEW s \in Seq(T), s # <<>>, NEW u, NEW device
    PROVE  /\ Silent(s, u) => Silent(Tail(s), u) /\ ~IsUpdateOf(Head(s), u)
           /\ LastWord(s, u, device) =>
                \/ LastWord(Tail(s), u, device)
                \/ IsUpdateOf(Head(s), u) /\ Named(Head(s)) = device /\ Silent(Tail(s), u)
<1>1. PICK n, t, h : n = Len(s) - 1 /\ t = Tail(s) /\ h = Head(s)
  OBVIOUS
<1>2. /\ n \in Nat /\ DOMAIN s = 1..(n + 1) /\ DOMAIN t = 1..n /\ h = s[1]
      /\ \A i \in 1..n : t[i] = s[i + 1]
  BY <1>1
<1>3. \A i \in 1..n : i + 1 \in 1..(n + 1)
  BY <1>2
<1>4. ASSUME Silent(s, u) PROVE Silent(t, u) /\ ~IsUpdateOf(h, u)
  <2>1. 1 \in 1..(n + 1)
    BY <1>2
  <2>. QED  BY <1>2, <1>3, <1>4, <2>1 DEF Silent
<1>5. ASSUME LastWord(s, u, device)
      PROVE  LastWord(t, u, device) \/ (IsUpdateOf(h, u) /\ Named(h) = device /\ Silent(t, u))
  <2>1. PICK k \in 1..(n + 1) : /\ IsUpdateOf(s[k], u) /\ Named(s[k]) = device
                                /\ \A i \in 1..(n + 1) : i > k => ~IsUpdateOf(s[i], u)
    BY <1>2, <1>5 DEF LastWord
  <2>2. CASE k = 1
    <3>1. \A i \in 1..n : i + 1 > k
      BY <2>2
    <3>. QED  BY <1>2, <1>3, <2>1, <2>2, <3>1 DEF Silent
  <2>3. CASE k # 1
    <3>1. PICK j : j = k - 1
      OBVIOUS
    <3>2. j \in 1..n /\ t[j] = s[k] /\ \A i \in 1..n : i > j => i + 1 > k
      BY <1>2, <2>3, <3>1
    <3>. QED  BY <1>2, <1>3, <2>1, <3>2 DEF LastWord
  <2>. QED  BY <2>2, <2>3
<1>. QED  BY <1>1, <1>4, <1>5

\* Releases say nothing about usage, updates of others nothing about a unit.
LEMMA SilentReleases ==
    ASSUME NEW u, NEW s \in Seq(Releases)
    PROVE  Silent(s, u)
<1>1. ASSUME NEW i \in DOMAIN s PROVE ~IsUpdateOf(s[i], u)
  <2>1. s[i] \in Releases
    OBVIOUS
  <2>. QED  BY <2>1 DEF Releases, IsUpdateOf
<1>. QED  BY <1>1 DEF Silent

LEMMA SingleWords ==
    ASSUME NEW u, NEW e
    PROVE  /\ Silent(<<>>, u)
           /\ ~IsUpdateOf(e, u) => Silent(<<e>>, u)
           /\ IsUpdateOf(e, u) => LastWord(<<e>>, u, Named(e))
<1>1. DOMAIN <<e>> = {1} /\ <<e>>[1] = e
  OBVIOUS
<1>2. Silent(<<>>, u)
  BY DEF Silent
<1>3. ~IsUpdateOf(e, u) => Silent(<<e>>, u)
  BY <1>1 DEF Silent
<1>4. IsUpdateOf(e, u) => LastWord(<<e>>, u, Named(e))
  BY <1>1 DEF LastWord
<1>. QED  BY <1>2, <1>3, <1>4

\* An operation of one unit, whose events t tell about all changes of usage.
LEMMA WordsOfOneUnit ==
    ASSUME FeedbackTypes, \A w \in Units : Announced(w),
           NEW u \in Units, NEW t \in Seq(Releases \cup Updates), events' = events \o t,
           feedbackOutputUsages' = feedbackOutputUsages,
           \A w \in Units \ {u} : Silent(t, w) /\ Claim(w)' = Claim(w),
           LastWord(t, u, Claim(u)') \/ (Silent(t, u) /\ Claim(u)' = Claim(u))
    PROVE  \A w \in Units : Announced(w)'
<1>1. events \in Seq(Releases \cup Updates)
  BY DEF FeedbackTypes
<1>2. PICK T : T = Releases \cup Updates
  OBVIOUS
<1>3. events \in Seq(T) /\ t \in Seq(T)
  BY <1>1, <1>2
<1>. HIDE DEF Releases, Updates
<1>4. ASSUME NEW w \in Units, Silent(t, w), Claim(w)' = Claim(w)
      PROVE  Announced(w)'
  <2>1. Silent(events, w) => Silent(events', w)
    BY <1>3, <1>4, JoinedWords
  <2>2. LastWord(events, w, Claim(w)) => LastWord(events', w, Claim(w))
    BY <1>3, <1>4, JoinedWords
  <2>3. IsEntry(w, Claim(w))' <=> IsEntry(w, Claim(w))
    BY <1>4 DEF IsEntry
  <2>4. Silent(events, w)' <=> Silent(events', w)
    BY DEF Silent, IsUpdateOf
  <2>5. LastWord(events, w, Claim(w))' <=> LastWord(events', w, Claim(w)')
    BY DEF LastWord, IsUpdateOf, Named
  <2>. QED  BY <1>4, <2>1, <2>2, <2>3, <2>4, <2>5 DEF Announced
<1>5. ASSUME LastWord(t, u, Claim(u)') PROVE Announced(u)'
  <2>1. LastWord(events', u, Claim(u)')
    BY <1>3, <1>5, JoinedWords
  <2>2. LastWord(events, u, Claim(u))' <=> LastWord(events', u, Claim(u)')
    BY DEF LastWord, IsUpdateOf, Named
  <2>. QED  BY <2>1, <2>2 DEF Announced
<1>. QED  BY <1>4, <1>5

\* Enabling or disabling a unit: the last event is about the new state.
LEMMA EnablingWords ==
    ASSUME FeedbackTypes, \A w \in Units : Announced(w), NEW u \in Units, u \in Alive,
           NEW last, NEW announced \in Seq(Updates),
           settings' \in [Units -> Settings], circumstances' \in [Units -> Circumstances],
           \A w \in Units \ {u} : settings'[w] = settings[w],
           UNCHANGED <<backboneVars, mappingVars>>,
           PotentiallyEnableOrDisable(u, last, announced),
           \/ announced = <<>> /\ settings'[u] = settings[u]
           \/ announced = <<IoUpdated(u, settings[u].feedbackOutput, FALSE)>> /\ ~feedbackEnabled[u]
    PROVE  \A w \in Units : Announced(w)'
<1>. DEFINE new == DetermineFeedbackEnabled(settings'[u], circumstances'[u])
            output == settings'[u].feedbackOutput
<1>1. PICK c, f, z : c = ControlEvents(u) /\ f = FeedbackEvents(u) /\ z = ZeroEvents(u)
  OBVIOUS
<1>2. c \in Seq(Updates) /\ f \in Seq(Updates) /\ z \in Seq(Releases) /\ new \in BOOLEAN
  BY <1>1, AnnouncedTypes
<1>3. events' = events \o announced \o c \o f \o z
  BY <1>1, EnablingEvents
<1>4. /\ feedbackEnabled' = [feedbackEnabled EXCEPT ![u] = new]
      /\ feedbackEnabled \in [Units -> BOOLEAN]
      /\ on' = on /\ Alive' = Alive /\ feedbackOutputUsages' = feedbackOutputUsages
  BY DEF PotentiallyEnableOrDisable, FeedbackTypes, mappingVars, backboneVars, Alive
<1>5. \A w \in Units \ {u} : Claim(w)' = Claim(w)
  BY <1>4 DEF Claim
<1>6. Claim(u)' = IF new /\ on[u] # {} THEN output ELSE NoDevice
  BY <1>4 DEF Claim
<1>7. PICK a : a = announced
  OBVIOUS
<1>8. ASSUME NEW w \in Units \ {u} PROVE Silent(a, w) /\ Silent(c, w) /\ Silent(f, w) /\ Silent(z, w)
  <2>1. \A x, used : ~IsUpdateOf(IoUpdated(u, x, used), w)
    BY DEF IsUpdateOf, IoUpdated
  <2>. QED  BY <1>1, <1>2, <1>7, <2>1, SingleWords, SilentReleases DEF ControlEvents, FeedbackEvents
<1>9. \A x, used : LastWord(<<IoUpdated(u, x, used)>>, u, IF used THEN x ELSE NoDevice)
  <2>1. ASSUME NEW x, NEW used
        PROVE  LastWord(<<IoUpdated(u, x, used)>>, u, IF used THEN x ELSE NoDevice)
    <3>1. PICK e : e = IoUpdated(u, x, used)
      OBVIOUS
    <3>2. IsUpdateOf(e, u) /\ Named(e) = IF used THEN x ELSE NoDevice
      BY <3>1 DEF IsUpdateOf, IoUpdated, Named
    <3>. QED  BY <3>1, <3>2, SingleWords
  <2>. QED  BY <2>1
<1>10. /\ new # feedbackEnabled[u] => LastWord(f, u, Claim(u)')
       /\ new = feedbackEnabled[u] => f = <<>>
  <2>1. f = IF new = feedbackEnabled[u] THEN <<>> ELSE <<IoUpdated(u, output, new /\ on[u] # {})>>
    BY <1>1 DEF FeedbackEvents
  <2>. QED  BY <1>6, <1>9, <2>1
<1>11. c # <<>> => LastWord(c, u, IF feedbackEnabled[u] /\ on[u] # {} THEN output ELSE NoDevice)
  BY <1>1, <1>9 DEF ControlEvents
<1>12. a # <<>> => LastWord(a, u, NoDevice)
  BY <1>7, <1>9
<1>13. Silent(z, u) /\ Silent(<<>>, u)
  BY <1>2, SilentReleases, SingleWords
<1>14. PICK T : T = Releases \cup Updates
  OBVIOUS
<1>15. events \in Seq(T)
  BY <1>14 DEF FeedbackTypes
<1>. HIDE DEF Releases, Updates
<1>16. a \in Seq(T) /\ c \in Seq(T) /\ f \in Seq(T) /\ z \in Seq(T)
  BY <1>2, <1>7, <1>14
<1>17. PICK ac, acf, t : ac = a \o c /\ acf = ac \o f /\ t = acf \o z
  OBVIOUS
<1>18. ac \in Seq(T) /\ acf \in Seq(T) /\ t \in Seq(T) /\ events' = events \o t
  <2>1. ac \in Seq(T) /\ acf \in Seq(T) /\ t \in Seq(T)
    BY <1>16, <1>17
  <2>2. PICK e : e = events
    OBVIOUS
  <2>3. e \o a \o c \o f \o z = e \o (a \o c \o f \o z)
    BY <1>15, <1>16, <2>2, SMTT(30)
  <2>. QED  BY <1>3, <1>7, <1>17, <2>1, <2>2, <2>3
<1>19. \A w \in Units \ {u} : Silent(t, w)
  BY <1>8, <1>16, <1>17, <1>18, JoinedWords
<1>20. LastWord(t, u, Claim(u)') \/ (Silent(t, u) /\ Claim(u)' = Claim(u))
  <2>1. CASE new # feedbackEnabled[u]
    BY <1>10, <1>13, <1>16, <1>17, <1>18, <2>1, JoinedWords
  <2>2. CASE new = feedbackEnabled[u]
    <3>1. f = <<>> /\ Silent(f, u)
      BY <1>10, <1>13, <2>2
    <3>2. CASE c # <<>>
      <4>1. LastWord(c, u, Claim(u)')
        BY <1>6, <1>11, <2>2, <3>2
      <4>. QED  BY <1>13, <1>16, <1>17, <1>18, <3>1, <4>1, JoinedWords
    <3>3. CASE c = <<>> /\ a # <<>>
      <4>1. LastWord(a, u, Claim(u)')
        BY <1>6, <1>7, <1>12, <2>2, <3>3
      <4>2. Silent(c, u)
        BY <1>13, <3>3
      <4>. QED  BY <1>13, <1>16, <1>17, <1>18, <3>1, <4>1, <4>2, JoinedWords
    <3>4. CASE c = <<>> /\ a = <<>>
      <4>1. Silent(c, u) /\ Silent(a, u)
        BY <1>13, <3>4
      <4>2. Silent(t, u)
        BY <1>13, <1>16, <1>17, <1>18, <3>1, <4>1, JoinedWords
      <4>3. settings'[u] = settings[u]
        BY <1>7, <3>4
      <4>4. Claim(u)' = Claim(u)
        BY <1>4, <1>6, <2>2, <4>3 DEF Claim
      <4>. QED  BY <4>2, <4>4
    <3>. QED  BY <3>2, <3>3, <3>4
  <2>. QED  BY <2>1, <2>2
<1>21. t \in Seq(Releases \cup Updates)
  BY <1>14, <1>18
<1>. QED  BY <1>4, <1>5, <1>18, <1>19, <1>20, <1>21, WordsOfOneUnit

\* A step of a unit that tells the truth about its usage.
LEMMA ClaimWords ==
    ASSUME FeedbackTypes, \A w \in Units : Announced(w), NEW u \in Units, u \in Alive,
           NEW newOn \in SUBSET Mappings, NEW changed, NEW last,
           SwitchMappings(u, newOn, changed, last, <<ClaimEvent(u, newOn)>>)
    PROVE  \A w \in Units : Announced(w)'
<1>1. PICK unused : unused = AddressesOf(on[u], source[u]) \ AddressesOf(newOn, source'[u])
  OBVIOUS
<1>2. PICK r : r = UnusedSourceEvents(u, SetToSeq(unused))
  OBVIOUS
<1>3. r \in Seq(Releases) /\ r \in Seq(Releases \cup Updates)
  <2>1. SetToSeq(unused) \in Seq(Addresses)
    BY <1>1, UnusedSources
  <2>. QED  BY <1>2, <2>1, UnusedTypes
<1>4. PICK e : e = ClaimEvent(u, newOn)
  OBVIOUS
<1>5. /\ events' = events \o <<e>> \o r
      /\ on' = [on EXCEPT ![u] = newOn] /\ on \in [Units -> SUBSET Mappings]
      /\ Alive' = Alive /\ feedbackEnabled' = feedbackEnabled /\ settings' = settings
      /\ feedbackOutputUsages' = feedbackOutputUsages
  BY <1>1, <1>2, <1>4 DEF SwitchMappings, FeedbackTypes, Alive, enablingVars, backboneVars
<1>6. /\ e.type = "IoUpdated" /\ e.unit = u
      /\ Named(e) = IF feedbackEnabled[u] /\ newOn # {} THEN settings[u].feedbackOutput ELSE NoDevice
  BY <1>4 DEF ClaimEvent, IoUpdated, Named
<1>7. Claim(u)' = Named(e)
  BY <1>5, <1>6 DEF Claim
<1>8. \A w \in Units \ {u} : Claim(w)' = Claim(w)
  BY <1>5 DEF Claim
<1>9. <<e>> \in Seq(Releases \cup Updates) /\ events \in Seq(Releases \cup Updates)
  <2>1. <<e>> \in Seq(Updates)
    BY <1>4, ClaimTypes
  <2>2. events \in Seq(Releases \cup Updates)
    BY DEF FeedbackTypes
  <2>. HIDE DEF Releases, Updates
  <2>. QED  BY <2>1, <2>2
<1>10. /\ LastWord(<<e>>, u, Claim(u)')
       /\ \A w \in Units \ {u} : Silent(<<e>>, w)
       /\ \A w \in Units : Silent(r, w)
  BY <1>3, <1>6, <1>7, SingleWords, SilentReleases DEF IsUpdateOf
<1>11. PICK T : T = Releases \cup Updates
  OBVIOUS
<1>12. PICK s, t : s = <<e>> /\ t = s \o r
  OBVIOUS
<1>. HIDE DEF Releases, Updates
<1>13. events \in Seq(T) /\ s \in Seq(T) /\ r \in Seq(T) /\ t \in Seq(T)
  BY <1>3, <1>9, <1>11, <1>12
<1>14. events' = events \o t
  <2>1. PICK q : q = events
    OBVIOUS
  <2>2. q \o s \o r = q \o (s \o r)
    BY <1>13, <2>1
  <2>. QED  BY <1>5, <1>12, <2>1, <2>2
<1>15. LastWord(t, u, Claim(u)') /\ \A w \in Units \ {u} : Silent(t, w)
  BY <1>10, <1>12, <1>13, JoinedWords
<1>. QED  BY <1>5, <1>8, <1>11, <1>13, <1>14, <1>15, WordsOfOneUnit

\* A step that queues nothing and changes no claim.
LEMMA NothingToAnnounce ==
    ASSUME \A w \in Units : Announced(w), events' = events,
           feedbackOutputUsages' = feedbackOutputUsages, \A w \in Units : Claim(w)' = Claim(w)
    PROVE  \A w \in Units : Announced(w)'
BY DEF Announced, IsEntry, Silent, LastWord, IsUpdateOf, Named

LEMMA RemovalWords ==
    ASSUME FeedbackTypes, \A w \in Units : Announced(w), NEW u \in Units, DropMainProcessor(u)
    PROVE  \A w \in Units : Announced(w)'
<1>1. Alive' = Alive \ {u}
  <2>1. PICK i \in DOMAIN mainProcessors :
          mainProcessors[i] = u /\ mainProcessors' = RemoveAt(mainProcessors, i)
    BY DEF DropMainProcessor
  <2>2. i \in 1..Len(mainProcessors) /\ mainProcessors \in Seq(Units)
    BY DEF FeedbackTypes
  <2>3. \A j, k \in DOMAIN mainProcessors : mainProcessors[j] = mainProcessors[k] => j = k
    BY DEF FeedbackTypes
  <2>. QED  BY <2>1, <2>2, <2>3, RemovedElement DEF Alive
<1>2. /\ feedbackEnabled' = feedbackEnabled /\ on' = on /\ settings' = settings
      /\ feedbackOutputUsages' = feedbackOutputUsages
  BY DEF DropMainProcessor, enablingVars, mappingVars
<1>3. Claim(u)' = NoDevice /\ \A w \in Units \ {u} : Claim(w)' = Claim(w)
  BY <1>1, <1>2 DEF Claim
<1>4. PICK e : e = IoUpdated(u, settings[u].feedbackOutput, FALSE)
  OBVIOUS
<1>5. e.type = "IoUpdated" /\ e.unit = u /\ Named(e) = NoDevice
  BY <1>4 DEF IoUpdated, Named
<1>6. LastWord(<<e>>, u, Claim(u)') /\ \A w \in Units \ {u} : Silent(<<e>>, w)
  BY <1>3, <1>5, SingleWords DEF IsUpdateOf
<1>7. e \in Releases \cup Updates
  <2>1. settings[u].feedbackOutput \in Destinations
    BY DEF FeedbackTypes, Settings, Destinations
  <2>. QED  BY <1>4, <2>1, UpdateTypes
<1>8. <<e>> \in Seq(Releases \cup Updates) /\ events \in Seq(Releases \cup Updates)
  <2>1. events \in Seq(Releases \cup Updates)
    BY DEF FeedbackTypes
  <2>. HIDE DEF Releases, Updates
  <2>. QED  BY <1>7, <2>1
<1>9. events' = events \o <<e>>
  <2>1. events' = Append(events, e)
    BY <1>4 DEF DropMainProcessor
  <2>2. PICK T, s : T = Releases \cup Updates /\ s = events
    OBVIOUS
  <2>3. s \in Seq(T) /\ e \in T
    BY <1>7, <1>8, <2>2
  <2>4. Append(s, e) = s \o <<e>>
    BY <2>3
  <2>. QED  BY <2>1, <2>2, <2>4
<1>. QED  BY <1>2, <1>3, <1>6, <1>8, <1>9, WordsOfOneUnit

\* Everything else that may happen to a unit.
LEMMA OperationWords ==
    ASSUME OpsAnnounceUsage, UsageInv, FeedbackTypes', NEW u \in Units, UnitStep(u)
    PROVE  \A w \in Units : Announced(w)'
<1>1. FeedbackTypes /\ (\A w \in Units : Announced(w)) /\ u \in Alive
  BY OnlyAliveUnits DEF UsageInv
<1>2. CASE UpdateSettings(u)
  <2>1. settings[u] = NoSettings
    BY <1>2 DEF UpdateSettings, Op, OpsAnnounceUsage
  <2>2. ~feedbackEnabled[u]
    BY <2>1 DEF UsageInv, EnabledWithDevice, NoSettings
  <2>3. PICK st, announced :
          /\ settings' = [settings EXCEPT ![u] = st]
          /\ UNCHANGED <<backboneVars, room, circumstances, mappingVars>>
          /\ announced = <<IoUpdated(u, settings[u].feedbackOutput, FALSE)>>
          /\ PotentiallyEnableOrDisable(u, NoFeedbackSent, announced)
    BY <1>2 DEF UpdateSettings
  <2>4. announced \in Seq(Updates)
    <3>1. settings[u].feedbackOutput \in Destinations
      BY <1>1 DEF FeedbackTypes, Settings, Destinations
    <3>2. PICK e \in Updates : e = IoUpdated(u, settings[u].feedbackOutput, FALSE)
      BY <3>1, UpdateTypes
    <3>3. <<e>> \in Seq(Updates)
      OBVIOUS
    <3>. QED  BY <2>3, <3>2, <3>3
  <2>5. \A w \in Units \ {u} : settings'[w] = settings[w]
    BY <1>1, <2>3 DEF FeedbackTypes
  <2>6. settings' \in [Units -> Settings] /\ circumstances' \in [Units -> Circumstances]
    BY DEF FeedbackTypes
  <2>. QED  BY <1>1, <2>2, <2>3, <2>4, <2>5, <2>6, EnablingWords
<1>3. CASE ChangeCircumstances(u)
  <2>1. /\ UNCHANGED <<backboneVars, room, settings, mappingVars>>
        /\ PotentiallyEnableOrDisable(u, lastFeedback[u], <<>>)
    BY <1>3 DEF ChangeCircumstances
  <2>2. settings' \in [Units -> Settings] /\ circumstances' \in [Units -> Circumstances]
    BY DEF FeedbackTypes
  <2>3. <<>> \in Seq(Updates)
    OBVIOUS
  <2>. QED  BY <1>1, <2>1, <2>2, <2>3, EnablingWords
<1>4. CASE UpdateAllMappings(u) \/ ProcessChangedConditions(u)
  <2>1. PICK newOn \in SUBSET Mappings :
          \E changed, last : SwitchMappings(u, newOn, changed, last, <<ClaimEvent(u, newOn)>>)
    BY <1>4 DEF UpdateAllMappings, ProcessChangedConditions
  <2>. QED  BY <1>1, <2>1, ClaimWords
<1>5. CASE ProcessTargetValueChange(u) \/ SendAllFeedback(u) \/ SyncUpperFloorMembership(u)
  <2>1. /\ events' = events /\ feedbackOutputUsages' = feedbackOutputUsages
        /\ feedbackEnabled' = feedbackEnabled /\ on' = on /\ settings' = settings /\ Alive' = Alive
    BY <1>5 DEF ProcessTargetValueChange, SendAllFeedback, SyncUpperFloorMembership, queueVars,
                backboneVars, enablingVars, mappingVars, Alive
  <2>2. \A w \in Units : Claim(w)' = Claim(w)
    BY <2>1 DEF Claim
  <2>. QED  BY <1>1, <2>1, <2>2, NothingToAnnounce
<1>6. CASE ProcessActivationEffects(u) \/ UpdateSingleMapping(u) \/ UpdatePersistentProcessingState(u)
  BY <1>6 DEF ProcessActivationEffects, UpdateSingleMapping, UpdatePersistentProcessingState, Op,
              OpsAnnounceUsage
<1>. QED  BY <1>1, <1>2, <1>3, <1>4, <1>5, <1>6, RemovalWords DEF UnitStep

\* Processing an event.
LEMMA ReleaseWords ==
    ASSUME UsageInv, TakeOverSource \/ FinallySwitchOffSource
    PROVE  \A w \in Units : Announced(w)'
<1>1. PICK s, e : s = events /\ e = Head(events)
  OBVIOUS
<1>2. /\ NextEventIs("SourceReleased") /\ events' = Tail(s) /\ feedbackOutputUsages' = feedbackOutputUsages
      /\ settings' = settings /\ feedbackEnabled' = feedbackEnabled /\ on' = on /\ Alive' = Alive
  BY <1>1 DEF TakeOverSource, FinallySwitchOffSource, backboneVars, enablingVars, mappingVars, Alive
<1>3. s \in Seq(Releases \cup Updates) /\ s # <<>> /\ e = Head(s) /\ e.type # "IoUpdated"
  BY <1>1, <1>2 DEF NextEventIs, UsageInv, FeedbackTypes
<1>4. ASSUME NEW w \in Units PROVE Announced(w)'
  <2>1. Claim(w)' = Claim(w)
    BY <1>2 DEF Claim
  <2>2. ~IsUpdateOf(e, w)
    BY <1>3 DEF IsUpdateOf
  <2>3. LastWord(s, w, Claim(w)) \/ (Silent(s, w) /\ IsEntry(w, Claim(w)))
    BY <1>1 DEF UsageInv, Announced
  <2>4. LastWord(Tail(s), w, Claim(w)) \/ (Silent(Tail(s), w) /\ IsEntry(w, Claim(w)))
    BY <1>3, <2>2, <2>3, RemainingWords
  <2>5. LastWord(events', w, Claim(w)') \/ (Silent(events', w) /\ IsEntry(w, Claim(w))')
    BY <1>2, <2>1, <2>4 DEF IsEntry
  <2>. QED  BY <2>5 DEF Announced, LastWord, Silent, IsUpdateOf, Named
<1>. QED  BY <1>4

LEMMA UpdateWords ==
    ASSUME UsageInv, ProcessIoUpdated
    PROVE  \A w \in Units : Announced(w)'
<1>1. PICK s, e : s = events /\ e = Head(events)
  OBVIOUS
<1>2. /\ NextEventIs("IoUpdated")
      /\ feedbackOutputUsages' = UpdatedUsages(feedbackOutputUsages, e.unit, Named(e))
      /\ settings' = settings /\ feedbackEnabled' = feedbackEnabled /\ on' = on /\ Alive' = Alive
  BY <1>1 DEF ProcessIoUpdated, Named, enablingVars, mappingVars, Alive
<1>3. PICK T : T = Releases \cup Updates
  OBVIOUS
<1>4. /\ s \in Seq(T) /\ s # <<>> /\ e = Head(s) /\ Tail(s) \in Seq(T)
      /\ e.type = "IoUpdated" /\ e.unit \in Units /\ e.output \in Destinations
  <2>1. FeedbackTypes
    BY DEF UsageInv
  <2>. QED  BY <1>1, <1>2, <1>3, <2>1, NextTypes DEF NextEventIs, FeedbackTypes
<1>5. PICK r \in Seq(Releases) : events' = Tail(s) \o r
  <2>1. CASE \E covered : e.output \in Outputs /\ events' = Tail(s) \o CoveredUnitsRelease(covered, e.output)
    BY <2>1, CoveredTypes DEF UsageInv, Destinations
  <2>2. CASE events' = Tail(s)
    <3>1. <<>> \in Seq(Releases)
      OBVIOUS
    <3>2. Tail(s) \o <<>> = Tail(s)
      BY <1>4
    <3>. QED  BY <2>2, <3>1, <3>2
  <2>. QED  BY <1>1, <1>4, <2>1, <2>2 DEF ProcessIoUpdated, ReactToUpperFloor, Destinations
<1>6. r \in Seq(T)
  <2>. HIDE DEF Releases, Updates
  <2>. QED  BY <1>3
<1>7. ASSUME NEW w \in Units PROVE Announced(w)'
  <2>1. Claim(w)' = Claim(w)
    BY <1>2 DEF Claim
  <2>2. IsUpdateOf(e, w) <=> e.unit = w
    BY <1>4 DEF IsUpdateOf
  <2>3. PICK q : q = Tail(s) /\ q \in Seq(T)
    BY <1>4
  <2>4. LastWord(s, w, Claim(w)) \/ (Silent(s, w) /\ IsEntry(w, Claim(w)))
    BY <1>1 DEF UsageInv, Announced
  <2>5. \/ LastWord(q, w, Claim(w))
        \/ Silent(q, w) /\ e.unit = w /\ Named(e) = Claim(w)
        \/ Silent(q, w) /\ e.unit # w /\ IsEntry(w, Claim(w))
    BY <1>4, <2>2, <2>3, <2>4, RemainingWords
  <2>6. feedbackOutputUsages \in [Outputs -> SUBSET Units]
    BY DEF UsageInv, FeedbackTypes
  <2>7. e.unit = w /\ Named(e) = Claim(w) => IsEntry(w, Claim(w))'
    BY <1>2, <2>1, <2>6 DEF IsEntry, UpdatedUsages
  <2>8. e.unit # w /\ IsEntry(w, Claim(w)) => IsEntry(w, Claim(w))'
    BY <1>2, <2>1, <2>6 DEF IsEntry, UpdatedUsages
  <2>9. Silent(r, w)
    BY SilentReleases
  <2>10. /\ LastWord(q, w, Claim(w)) => LastWord(q \o r, w, Claim(w))
         /\ Silent(q, w) => Silent(q \o r, w)
    BY <1>6, <2>3, <2>9, JoinedWords
  <2>11. LastWord(events', w, Claim(w)') \/ (Silent(events', w) /\ IsEntry(w, Claim(w))')
    BY <1>5, <2>1, <2>3, <2>5, <2>7, <2>8, <2>10
  <2>. QED  BY <2>11 DEF Announced, LastWord, Silent, IsUpdateOf, Named
<1>. QED  BY <1>7

\* Feedback gets enabled together with a device only.
LEMMA DevicesKept ==
    ASSUME FeedbackTypes, EnabledWithDevice, Next
    PROVE  EnabledWithDevice'
<1>1. settings \in [Units -> Settings] /\ feedbackEnabled \in [Units -> BOOLEAN]
  BY DEF FeedbackTypes
<1>2. ASSUME NEW u \in Units, NEW last, NEW announced, PotentiallyEnableOrDisable(u, last, announced),
             \A w \in Units \ {u} : settings'[w] = settings[w]
      PROVE  EnabledWithDevice'
  <2>1. feedbackEnabled' = [feedbackEnabled EXCEPT
            ![u] = DetermineFeedbackEnabled(settings'[u], circumstances'[u])]
    BY <1>2 DEF PotentiallyEnableOrDisable
  <2>2. \A w \in Units \ {u} : feedbackEnabled'[w] = feedbackEnabled[w]
    BY <1>1, <2>1
  <2>3. feedbackEnabled'[u] => settings'[u].feedbackOutput # NoDevice
    BY <1>1, <2>1 DEF DetermineFeedbackEnabled
  <2>. QED  BY <1>2, <2>2, <2>3 DEF EnabledWithDevice
<1>3. ASSUME NEW u \in Units, UpdateSettings(u) \/ ChangeCircumstances(u) PROVE EnabledWithDevice'
  <2>1. PICK last, announced : PotentiallyEnableOrDisable(u, last, announced)
    BY <1>3 DEF UpdateSettings, ChangeCircumstances
  <2>2. \A w \in Units \ {u} : settings'[w] = settings[w]
    BY <1>1, <1>3 DEF UpdateSettings, ChangeCircumstances
  <2>. QED  BY <1>2, <2>1, <2>2
<1>4. ASSUME UNCHANGED enablingVars PROVE EnabledWithDevice'
  BY <1>4 DEF enablingVars, EnabledWithDevice
<1>5. ASSUME NEW u \in Units, UnitStep(u), ~UpdateSettings(u), ~ChangeCircumstances(u)
      PROVE  UNCHANGED enablingVars
  BY <1>5 DEF UnitStep, UpdateAllMappings, ProcessChangedConditions, ProcessActivationEffects,
              UpdateSingleMapping, UpdatePersistentProcessingState, ProcessTargetValueChange,
              SendAllFeedback, SyncUpperFloorMembership, DropMainProcessor, SwitchMappings,
              SwitchSingleMapping, enablingVars
<1>6. ASSUME BeginCycle \/ ProcessEvent PROVE UNCHANGED enablingVars
  BY <1>6 DEF BeginCycle, ProcessEvent, TakeOverSource, FinallySwitchOffSource, ProcessIoUpdated,
              enablingVars
<1>. QED  BY <1>3, <1>4, <1>5, <1>6 DEF Next

LEMMA UsageInvKept ==
    ASSUME OpsAnnounceUsage
    PROVE  UsageInv /\ [Next]_vars => UsageInv'
<1>1. SUFFICES ASSUME UsageInv, [Next]_vars PROVE UsageInv'
  OBVIOUS
<1>2. FeedbackTypes /\ FeedbackTypes'
  BY <1>1, TypesKept DEF UsageInv
<1>3. CASE UNCHANGED vars
  <2>1. \A w \in Units : Announced(w)'
    BY <1>1, <1>3, NothingToAnnounce DEF vars, backboneVars, queueVars, enablingVars, mappingVars,
                                         UsageInv, Claim, Alive
  <2>. QED  BY <1>1, <1>2, <1>3, <2>1 DEF vars, enablingVars, UsageInv, EnabledWithDevice
<1>4. CASE Next
  <2>1. EnabledWithDevice'
    BY <1>1, <1>2, <1>4, DevicesKept DEF UsageInv
  <2>2. CASE BeginCycle
    <3>1. \A w \in Units : Announced(w)'
      BY <1>1, <2>2, NothingToAnnounce DEF BeginCycle, backboneVars, enablingVars, mappingVars,
                                           UsageInv, Claim, Alive
    <3>. QED  BY <1>2, <2>1, <3>1 DEF UsageInv
  <2>3. CASE ProcessEvent
    BY <1>1, <1>2, <2>1, <2>3, ReleaseWords, UpdateWords DEF ProcessEvent, UsageInv
  <2>4. ASSUME NEW u \in Units, UnitStep(u) PROVE UsageInv'
    BY <1>1, <1>2, <2>1, <2>4, OperationWords DEF UsageInv
  <2>. QED  BY <1>4, <2>2, <2>3, <2>4 DEF Next
<1>. QED  BY <1>1, <1>3, <1>4

LEMMA InitialWords == Init => UsageInv
<1>1. SUFFICES ASSUME Init PROVE UsageInv
  OBVIOUS
<1>2. FeedbackTypes
  BY <1>1, InitialTypes
<1>3. ASSUME NEW w \in Units PROVE Announced(w)
  <2>1. Claim(w) = NoDevice /\ events = <<>>
    BY <1>1 DEF Init, Claim
  <2>2. Silent(events, w)
    BY <2>1, SingleWords
  <2>3. IsEntry(w, Claim(w))
    BY <1>1, <2>1, OrchestrationAssumption DEF Init, IsEntry
  <2>. QED  BY <2>2, <2>3 DEF Announced
<1>. QED  BY <1>1, <1>2, <1>3 DEF UsageInv, EnabledWithDevice, Init

\* When nothing is left to be processed.
LEMMA SettledUsages == UsageInv => UsagesAreAccurate
<1>1. SUFFICES ASSUME UsageInv, events = <<>>, NEW d \in Outputs
               PROVE  feedbackOutputUsages[d] = ActiveOn(d)
  BY DEF UsagesAreAccurate, Settled
<1>2. \A w \in Units : IsEntry(w, Claim(w))
  BY <1>1 DEF UsageInv, Announced, LastWord
<1>3. Alive \subseteq Units /\ feedbackOutputUsages[d] \subseteq Units /\ d # NoDevice
  BY <1>1, OrchestrationAssumption DEF UsageInv, FeedbackTypes, Alive, ToSet
<1>4. ASSUME NEW w \in Units PROVE w \in feedbackOutputUsages[d] <=> w \in ActiveOn(d)
  BY <1>2, <1>3 DEF IsEntry, Claim, ActiveOn
<1>. QED  BY <1>3, <1>4 DEF ActiveOn

LEMMA SettledFloors == UsageInv => FloorsTakeEffect
<1>1. SUFFICES ASSUME UsageInv, events = <<>>, NEW d \in Outputs, NEW u \in ActiveOn(d)
               PROVE  EffectivelyEnabled(feedbackOutputUsages, u) <=> Entitled(u, d)
  BY DEF FloorsTakeEffect, Settled
<1>2. feedbackOutputUsages[d] = ActiveOn(d)
  BY <1>1, SettledUsages DEF UsagesAreAccurate, Settled
<1>3. u \in Units /\ settings[u].feedbackOutput = d /\ feedbackEnabled[u] /\ d # NoDevice
  BY <1>1, OrchestrationAssumption DEF ActiveOn, UsageInv, FeedbackTypes, Alive, ToSet
<1>4. EffectivelyEnabled(feedbackOutputUsages, u)
        <=> \/ superiorUnits = {} \/ u \in superiorUnits
            \/ Cardinality(ActiveOn(d)) <= 1
            \/ ActiveOn(d) \cap superiorUnits = {}
  BY <1>2, <1>3 DEF EffectivelyEnabled, FeedbackIsAllowed, InteractionIsAllowed
<1>5. Cardinality(ActiveOn(d)) <= 1 => ActiveOn(d) = {u}
  <2>1. IsFiniteSet(ActiveOn(d))
    <3>1. ActiveOn(d) \subseteq Units
      BY <1>1 DEF ActiveOn, UsageInv, FeedbackTypes, Alive, ToSet
    <3>. QED  BY <3>1, OrchestrationAssumption, FS_Subset
  <2>2. ActiveOn(d) # {} /\ Cardinality(ActiveOn(d)) \in Nat
    BY <1>1, <2>1, FS_CardinalityType
  <2>3. Cardinality(ActiveOn(d)) # 0
    BY <2>1, <2>2, FS_EmptySet
  <2>4. SUFFICES ASSUME Cardinality(ActiveOn(d)) <= 1 PROVE ActiveOn(d) = {u}
    OBVIOUS
  <2>5. Cardinality(ActiveOn(d)) = 1
    BY <2>2, <2>3, <2>4
  <2>6. \E x : ActiveOn(d) = {x}
    BY <2>1, <2>5, FS_Singleton
  <2>. QED  BY <1>1, <2>6
<1>. QED  BY <1>1, <1>4, <1>5 DEF Entitled

(* Once all events are processed the usage table agrees with the units     *)
(* (update_feedback_output_usage), in whatever order they have been loaded,*)
(* bypassed and removed and their mappings have changed, provided that     *)
(* only operations happen which tell the backbone about it: changing the   *)
(* settings, activation effects and changes of single mappings don't.      *)
THEOREM UsagesBecomeAccurate ==
    ASSUME OpsAnnounceUsage
    PROVE  Spec => []UsagesAreAccurate
<1>1. UsageInv /\ [Next]_vars => UsageInv'
  BY UsageInvKept
<1>2. Init => UsageInv
  BY InitialWords
<1>3. UsageInv => UsagesAreAccurate
  BY SettledUsages
<1>. QED  BY <1>1, <1>2, <1>3, PTL DEF Spec

(* Under the same condition exactly the units that are entitled to an      *)
(* output may send to it once all events are processed: superior units     *)
(* cover the others while they are active and only then                    *)
(* (feedback_is_effectively_enabled), even if units move between floors.   *)
THEOREM FloorsDecide ==
    ASSUME OpsAnnounceUsage
    PROVE  Spec => []FloorsTakeEffect
<1>1. UsageInv /\ [Next]_vars => UsageInv'
  BY UsageInvKept
<1>2. Init => UsageInv
  BY InitialWords
<1>3. UsageInv => FloorsTakeEffect
  BY SettledFloors
<1>. QED  BY <1>1, <1>2, <1>3, PTL DEF Spec

------------------------------------------------------------------------------
(* Lights of units on the same floor.                                      *)

\* Units which stay, on the same floor, with operations that don't rely on
\* what a unit has sent before.
OnlySharing ==
    /\ Superiors = {}
    /\ \A st \in SettingsChoices : st.resetWhenReleasing
    /\ \A u \in Units :
          Ops[u] \subseteq {"LoadSettings", "LoadMappings", "UpdateAllMappings", "UpdateSingleMapping",
                            "ProcessTargetValueChange", "SendAllFeedback", "ChangeCircumstances"}

\* A unit has mappings for an address of an output and feedback enabled.
User(w, d, a) ==
    /\ w \in Alive /\ settings[w].feedbackOutput = d /\ feedbackEnabled[w]
    /\ MappingsAt(on[w], source[w], a) # {}

\* The light shows the value of one of them, and the unit knows.
Shown(w, d, a) ==
    /\ User(w, d, a)
    /\ \E m \in MappingsAt(on[w], source[w], a) : light[d][a] = targetValue[w][m]
    /\ lastFeedback[w][a] \in {light[d][a], NotSent}

Pend(w, d, a) == SourceReleased(w, d, a) \in ToSet(events)

\* A light is current, or somebody who has used it is going to care for it.
CaredFor(d, a) ==
    \/ \E w \in Units : Shown(w, d, a)
    \/ \E w \in Units : Pend(w, d, a) /\ lastFeedback[w][a] # Off
    \/ /\ light[d][a] = Off
       /\ (\E w \in Units : Pend(w, d, a)) \/ (\A w \in Units : ~User(w, d, a))

\* Sources are released for the output that the unit still has.
ReleasesOfUnits ==
    \A e \in ToSet(events) : e.type = "SourceReleased" =>
        e.unit \in Alive /\ e.output = settings[e.unit].feedbackOutput /\ e.output # NoDevice

SharingInv ==
    /\ FeedbackTypes
    /\ superiorUnits = {}
    /\ EnabledWithDevice
    /\ ReleasesOfUnits
    /\ \A u \in Units : settings[u].resetWhenReleasing
    /\ \A d \in Outputs, a \in Addresses : CaredFor(d, a)

LEMMA EveryoneMaySend ==
    ASSUME NEW u, NEW usages, superiorUnits = {}
    PROVE  EffectivelyEnabled(usages, u) <=> feedbackEnabled[u]
BY DEF EffectivelyEnabled, FeedbackIsAllowed, InteractionIsAllowed

\* What an operation of a unit does to a light.
Sent(u, d, a) == Shown(u, d, a)'

Left(u, d, a) ==
    /\ light'[d][a] = light[d][a]
    /\ lastFeedback'[u][a] \in {lastFeedback[u][a], NotSent}
    /\ Pend(u, d, a)'

Kept(u, d, a) ==
    /\ light'[d][a] = light[d][a]
    /\ User(u, d, a)' => User(u, d, a)
    /\ Shown(u, d, a) => Shown(u, d, a)'
    /\ Pend(u, d, a) => lastFeedback'[u][a] \in {lastFeedback[u][a], NotSent}

OthersUnchanged(u) ==
    /\ Alive' = Alive
    /\ \A w \in Units \ {u} :
          /\ settings'[w] = settings[w] /\ feedbackEnabled'[w] = feedbackEnabled[w]
          /\ on'[w] = on[w] /\ source'[w] = source[w] /\ targetValue'[w] = targetValue[w]
          /\ lastFeedback'[w] = lastFeedback[w]

LEMMA StillCaredFor ==
    ASSUME NEW u \in Units, OthersUnchanged(u), ToSet(events) \subseteq ToSet(events'),
           NEW d \in Outputs, NEW a \in Addresses, CaredFor(d, a),
           Sent(u, d, a) \/ Left(u, d, a) \/ Kept(u, d, a)
    PROVE  CaredFor(d, a)'
<1>0. NotSent # Off
  BY OrchestrationAssumption
<1>1. \A w \in Units : Pend(w, d, a) => Pend(w, d, a)'
  BY DEF Pend, SourceReleased
<1>2. \A w \in Units \ {u} : User(w, d, a)' <=> User(w, d, a)
  BY DEF User, OthersUnchanged, MappingsAt
<1>3. CASE Sent(u, d, a)
  BY <1>3 DEF Sent, CaredFor
<1>4. ASSUME light'[d][a] = light[d][a]
      PROVE  \A w \in Units \ {u} : Shown(w, d, a) => Shown(w, d, a)'
  BY <1>2, <1>4 DEF Shown, OthersUnchanged, MappingsAt
<1>5. CASE Left(u, d, a)
  <2>1. CASE \E w \in Units \ {u} : Shown(w, d, a)
    BY <1>4, <1>5, <2>1 DEF Left, CaredFor
  <2>2. CASE Shown(u, d, a)
    <3>1. lastFeedback'[u][a] \in {light'[d][a], NotSent} /\ Pend(u, d, a)'
      BY <1>5, <2>2 DEF Left, Shown
    <3>. QED  BY <1>0, <3>1 DEF CaredFor
  <2>3. CASE \E w \in Units \ {u} : Pend(w, d, a) /\ lastFeedback[w][a] # Off
    BY <1>1, <2>3 DEF CaredFor, OthersUnchanged
  <2>4. CASE Pend(u, d, a) /\ lastFeedback[u][a] # Off
    BY <1>0, <1>5, <2>4 DEF Left, CaredFor
  <2>5. CASE light[d][a] = Off
    BY <1>5, <2>5 DEF Left, CaredFor
  <2>. QED  BY <2>1, <2>2, <2>3, <2>4, <2>5 DEF CaredFor
<1>6. CASE Kept(u, d, a)
  <2>1. CASE \E w \in Units \ {u} : Shown(w, d, a)
    BY <1>4, <1>6, <2>1 DEF Kept, CaredFor
  <2>2. CASE Shown(u, d, a)
    BY <1>6, <2>2 DEF Kept, CaredFor
  <2>3. CASE \E w \in Units \ {u} : Pend(w, d, a) /\ lastFeedback[w][a] # Off
    BY <1>1, <2>3 DEF CaredFor, OthersUnchanged
  <2>4. CASE Pend(u, d, a) /\ lastFeedback[u][a] # Off
    BY <1>0, <1>1, <1>6, <2>4 DEF Kept, CaredFor
  <2>5. CASE light[d][a] = Off /\ \E w \in Units : Pend(w, d, a)
    BY <1>1, <1>6, <2>5 DEF Kept, CaredFor
  <2>6. CASE light[d][a] = Off /\ \A w \in Units : ~User(w, d, a)
    BY <1>2, <1>6, <2>6 DEF Kept, CaredFor
  <2>. QED  BY <2>1, <2>2, <2>3, <2>4, <2>5, <2>6 DEF CaredFor
<1>. QED  BY <1>3, <1>5, <1>6

\* What sending the feedback of some mappings does to a light.
LEMMA SendingOutcome ==
    ASSUME FeedbackTypes, FeedbackTypes', superiorUnits' = {},
           NEW u \in Units, NEW last \in LastStates, NEW ms \in SUBSET Mappings,
           SendMappingFeedback(u, last, ms), NEW d \in Outputs, NEW a \in Addresses
    PROVE  /\ \A w \in Units \ {u} : lastFeedback'[w] = lastFeedback[w]
           /\ settings'[u].feedbackOutput # d => light'[d][a] = light[d][a]
           /\ \/ /\ feedbackEnabled'[u]
                 /\ \E m \in MappingsAt(ms, source'[u], a) :
                       /\ lastFeedback'[u][a] = targetValue'[u][m]
                       /\ settings'[u].feedbackOutput = d =>
                            \/ light'[d][a] = targetValue'[u][m]
                            \/ light'[d][a] = light[d][a] /\ last[a] = targetValue'[u][m]
              \/ /\ ~feedbackEnabled'[u] \/ MappingsAt(ms, source'[u], a) = {}
                 /\ light'[d][a] = light[d][a]
                 /\ lastFeedback'[u][a] = last[a]
<1>1. EffectivelyEnabled(feedbackOutputUsages, u)' <=> feedbackEnabled'[u]
  BY DEF EffectivelyEnabled, FeedbackIsAllowed, InteractionIsAllowed
<1>2. /\ lastFeedback \in [Units -> LastStates] /\ light \in [Outputs -> LightStates]
      /\ settings'[u].feedbackOutput \in Destinations /\ d # NoDevice
  BY OrchestrationAssumption DEF FeedbackTypes, Settings, Destinations
<1>3. CASE ~feedbackEnabled'[u]
  BY <1>1, <1>2, <1>3 DEF SendMappingFeedback
<1>4. CASE feedbackEnabled'[u]
  <2>1. /\ lastFeedback' = [lastFeedback EXCEPT ![u] = LastAfter(last, ms, source'[u], targetValue'[u])]
        /\ \/ light' = light /\ settings'[u].feedbackOutput = NoDevice
           \/ light' = [light EXCEPT ![settings'[u].feedbackOutput] =
                            LightsAfter(@, last, ms, source'[u], targetValue'[u])]
    BY <1>1, <1>4 DEF SendMappingFeedback
  <2>2. lastFeedback'[u][a] = LastAfter(last, ms, source'[u], targetValue'[u])[a]
    BY <1>2, <2>1
  <2>3. settings'[u].feedbackOutput = d =>
            light'[d][a] = LightsAfter(light[d], last, ms, source'[u], targetValue'[u])[a]
    BY <1>2, <2>1
  <2>4. settings'[u].feedbackOutput # d => light'[d][a] = light[d][a]
    BY <1>2, <2>1
  <2>5. \A w \in Units \ {u} : lastFeedback'[w] = lastFeedback[w]
    BY <1>2, <2>1
  <2>6. a \in AddressesOf(ms, source'[u]) <=> MappingsAt(ms, source'[u], a) # {}
    BY DEF AddressesOf, MappingsAt
  <2>7. CASE MappingsAt(ms, source'[u], a) = {}
    BY <1>4, <2>2, <2>3, <2>4, <2>5, <2>6, <2>7 DEF LastAfter, LightsAfter
  <2>8. CASE MappingsAt(ms, source'[u], a) # {}
    <3>1. PICK m \in MappingsAt(ms, source'[u], a) :
            FinalValue(ms, source'[u], targetValue'[u], a) = targetValue'[u][m]
      BY <2>8, FinalValues
    <3>2. lastFeedback'[u][a] = targetValue'[u][m]
      BY <2>2, <2>6, <2>8, <3>1 DEF LastAfter
    <3>3. settings'[u].feedbackOutput = d =>
            \/ light'[d][a] = targetValue'[u][m]
            \/ light'[d][a] = light[d][a] /\ last[a] = targetValue'[u][m]
      BY <2>3, <3>1 DEF LightsAfter
    <3>. QED  BY <1>4, <2>4, <2>5, <3>1, <3>2, <3>3
  <2>. QED  BY <2>7, <2>8
<1>. QED  BY <1>3, <1>4

\* ... if the unit has forgotten what it has sent before.
LEMMA FreshSending ==
    ASSUME FeedbackTypes, FeedbackTypes', superiorUnits' = {},
           NEW u \in Units, u \in Alive', NEW ms \in SUBSET Mappings, ms \subseteq on'[u],
           SendMappingFeedback(u, NoFeedbackSent, ms), NEW d \in Outputs, NEW a \in Addresses
    PROVE  /\ \A w \in Units \ {u} : lastFeedback'[w] = lastFeedback[w]
           /\ settings'[u].feedbackOutput # d => light'[d][a] = light[d][a]
           /\ settings'[u].feedbackOutput = d =>
                \/ Sent(u, d, a)
                \/ /\ ~feedbackEnabled'[u] \/ MappingsAt(ms, source'[u], a) = {}
                   /\ light'[d][a] = light[d][a]
                   /\ lastFeedback'[u][a] = NotSent
<1>1. NoFeedbackSent[a] = NotSent
  BY DEF NoFeedbackSent
<1>2. /\ \A w \in Units \ {u} : lastFeedback'[w] = lastFeedback[w]
      /\ settings'[u].feedbackOutput # d => light'[d][a] = light[d][a]
      /\ \/ /\ feedbackEnabled'[u]
            /\ \E m \in MappingsAt(ms, source'[u], a) :
                  /\ lastFeedback'[u][a] = targetValue'[u][m]
                  /\ settings'[u].feedbackOutput = d =>
                        \/ light'[d][a] = targetValue'[u][m]
                        \/ light'[d][a] = light[d][a] /\ NotSent = targetValue'[u][m]
         \/ /\ ~feedbackEnabled'[u] \/ MappingsAt(ms, source'[u], a) = {}
            /\ light'[d][a] = light[d][a]
            /\ lastFeedback'[u][a] = NotSent
  BY <1>1, NothingSentType, SendingOutcome
<1>3. ASSUME feedbackEnabled'[u], settings'[u].feedbackOutput = d,
             NEW m \in MappingsAt(ms, source'[u], a),
             lastFeedback'[u][a] = targetValue'[u][m],
             \/ light'[d][a] = targetValue'[u][m]
             \/ light'[d][a] = light[d][a] /\ NotSent = targetValue'[u][m]
      PROVE  Sent(u, d, a)
  <2>1. m \in Mappings /\ m \in MappingsAt(on'[u], source'[u], a)
    BY <1>3 DEF MappingsAt
  <2>2. targetValue'[u][m] # NotSent
    BY <2>1, OrchestrationAssumption DEF FeedbackTypes
  <2>. QED  BY <1>3, <2>1, <2>2 DEF Sent, Shown, User
<1>. QED  BY <1>2, <1>3

\* What is left unchanged for the unit itself.
LEMMA NotInvolved ==
    ASSUME SharingInv, NEW u \in Units, NEW d \in Outputs, NEW a \in Addresses,
           settings[u].feedbackOutput # d, settings'[u].feedbackOutput # d,
           light'[d][a] = light[d][a]
    PROVE  Kept(u, d, a)
<1>1. ~User(u, d, a) /\ ~User(u, d, a)'
  BY DEF User
<1>2. ~Pend(u, d, a)
  BY DEF Pend, SharingInv, ReleasesOfUnits, SourceReleased
<1>. QED  BY <1>1, <1>2 DEF Kept, Shown

\* Events are added at the end only.
LEMMA EventsRemain ==
    ASSUME NEW T, NEW s \in Seq(T), NEW t \in Seq(T), events = s, events' = s \o t
    PROVE  /\ ToSet(events) \subseteq ToSet(events')
           /\ ToSet(events') = ToSet(events) \cup ToSet(t)
BY JoinedElements

\* A unit is loaded with its settings.
LEMMA LoadingCares ==
    ASSUME OnlySharing, SharingInv, FeedbackTypes', NEW u \in Units, UpdateSettings(u),
           NEW d \in Outputs, NEW a \in Addresses
    PROVE  Sent(u, d, a) \/ Kept(u, d, a)
<1>1. FeedbackTypes /\ superiorUnits' = {} /\ u \in Alive'
  BY OnlyAliveUnits DEF SharingInv, UpdateSettings, backboneVars, Alive, UnitStep
<1>2. settings[u] = NoSettings
  BY DEF UpdateSettings, Op, OnlySharing
<1>3. ~feedbackEnabled[u] /\ d # NoDevice
  BY <1>2, OrchestrationAssumption DEF SharingInv, EnabledWithDevice, NoSettings
<1>4. ~User(u, d, a) /\ ~Pend(u, d, a)
  BY <1>2, <1>3 DEF User, Pend, SharingInv, ReleasesOfUnits, SourceReleased, NoSettings
<1>5. PICK announced : PotentiallyEnableOrDisable(u, NoFeedbackSent, announced) /\ on' = on /\ source' = source
  BY DEF UpdateSettings, mappingVars
<1>6. CASE SendMappingFeedback(u, NoFeedbackSent, on[u])
  <2>1. on[u] \in SUBSET Mappings /\ on[u] \subseteq on'[u]
    BY <1>1, <1>5 DEF FeedbackTypes
  <2>2. \/ Sent(u, d, a)
        \/ light'[d][a] = light[d][a] /\ ~User(u, d, a)'
    BY <1>1, <1>5, <1>6, <2>1, FreshSending DEF User
  <2>. QED  BY <1>4, <2>2 DEF Kept, Shown
<1>7. CASE ~SendMappingFeedback(u, NoFeedbackSent, on[u])
  <2>1. /\ light' = light
        /\ feedbackEnabled' = [feedbackEnabled EXCEPT
                ![u] = DetermineFeedbackEnabled(settings'[u], circumstances'[u])]
        /\ \/ DetermineFeedbackEnabled(settings'[u], circumstances'[u]) = feedbackEnabled[u]
           \/ ~DetermineFeedbackEnabled(settings'[u], circumstances'[u])
    BY <1>5, <1>7 DEF PotentiallyEnableOrDisable
  <2>2. ~User(u, d, a)'
    BY <1>1, <1>3, <2>1 DEF User, FeedbackTypes
  <2>. QED  BY <1>4, <2>1, <2>2 DEF Kept, Shown
<1>. QED  BY <1>6, <1>7

\* Feedback of a unit is enabled or disabled.
LEMMA EnablingCares ==
    ASSUME SharingInv, FeedbackTypes', NEW u \in Units, ChangeCircumstances(u),
           NEW d \in Outputs, NEW a \in Addresses
    PROVE  Sent(u, d, a) \/ Left(u, d, a) \/ Kept(u, d, a)
<1>1. FeedbackTypes /\ superiorUnits' = {} /\ u \in Alive /\ u \in Alive'
  BY OnlyAliveUnits DEF SharingInv, ChangeCircumstances, backboneVars, Alive, UnitStep
<1>2. /\ PotentiallyEnableOrDisable(u, lastFeedback[u], <<>>)
      /\ on' = on /\ source' = source /\ settings' = settings /\ Alive' = Alive
      /\ targetValue' = targetValue
  BY DEF ChangeCircumstances, mappingVars, backboneVars, Alive
<1>. DEFINE new == DetermineFeedbackEnabled(settings'[u], circumstances'[u])
<1>3. /\ feedbackEnabled' = [feedbackEnabled EXCEPT ![u] = new]
      /\ feedbackEnabled \in [Units -> BOOLEAN] /\ lastFeedback \in [Units -> LastStates]
  BY <1>1, <1>2 DEF PotentiallyEnableOrDisable, FeedbackTypes
<1>4. feedbackEnabled'[u] = new
  BY <1>3
<1>5. CASE new # feedbackEnabled[u] /\ new
  <2>1. SendMappingFeedback(u, NoFeedbackSent, on[u])
    BY <1>2, <1>5 DEF PotentiallyEnableOrDisable
  <2>2. on[u] \in SUBSET Mappings /\ on[u] \subseteq on'[u]
    BY <1>1, <1>2 DEF FeedbackTypes
  <2>3. /\ settings'[u].feedbackOutput # d => light'[d][a] = light[d][a]
        /\ settings'[u].feedbackOutput = d =>
                \/ Sent(u, d, a)
                \/ /\ ~feedbackEnabled'[u] \/ MappingsAt(on[u], source'[u], a) = {}
                   /\ light'[d][a] = light[d][a]
                   /\ lastFeedback'[u][a] = NotSent
    BY <1>1, <2>1, <2>2, FreshSending
  <2>4. CASE settings[u].feedbackOutput # d
    BY <1>2, <2>3, <2>4, NotInvolved
  <2>5. CASE settings[u].feedbackOutput = d
    <3>1. SUFFICES ASSUME ~Sent(u, d, a) PROVE Kept(u, d, a)
      OBVIOUS
    <3>2. MappingsAt(on[u], source[u], a) = {} /\ light'[d][a] = light[d][a] /\ lastFeedback'[u][a] = NotSent
      BY <1>2, <1>4, <1>5, <2>3, <2>5, <3>1
    <3>3. ~User(u, d, a) /\ ~User(u, d, a)'
      BY <1>2, <3>2 DEF User
    <3>. QED  BY <3>2, <3>3 DEF Kept, Shown
  <2>. QED  BY <2>4, <2>5
<1>6. CASE new # feedbackEnabled[u] /\ ~new
  <2>1. light' = light /\ lastFeedback' = [lastFeedback EXCEPT ![u] = NoFeedbackSent]
    BY <1>2, <1>6 DEF PotentiallyEnableOrDisable
  <2>2. lastFeedback'[u][a] = NotSent
    BY <1>3, <2>1 DEF NoFeedbackSent
  <2>3. ~User(u, d, a)'
    BY <1>4, <1>6 DEF User
  <2>4. CASE settings[u].feedbackOutput # d
    BY <1>2, <2>1, <2>4, NotInvolved
  <2>5. CASE settings[u].feedbackOutput = d /\ MappingsAt(on[u], source[u], a) = {}
    <3>1. ~User(u, d, a)
      BY <2>5 DEF User
    <3>. QED  BY <2>1, <2>2, <2>3, <3>1 DEF Kept, Shown
  <2>6. CASE settings[u].feedbackOutput = d /\ MappingsAt(on[u], source[u], a) # {}
    <3>1. a \in AddressesOf(on[u], source[u])
      BY <2>6 DEF AddressesOf, MappingsAt
    <3>2. PICK z : z = ZeroEvents(u)
      OBVIOUS
    <3>3. z \in Seq(Releases) /\ SourceReleased(u, d, a) \in ToSet(z)
      <4>1. d \in Destinations
        BY DEF Destinations
      <4>2. z = AllZeroEvents(u, d)
        BY <1>2, <1>6, <2>6, <3>2 DEF ZeroEvents
      <4>. QED  BY <1>1, <3>1, <4>1, <4>2, AllZeroTypes
    <3>4. PICK c, f : c = ControlEvents(u) /\ f = FeedbackEvents(u)
      OBVIOUS
    <3>5. settings' \in [Units -> Settings] /\ circumstances' \in [Units -> Circumstances]
      BY DEF FeedbackTypes
    <3>6. c \in Seq(Updates) /\ f \in Seq(Updates)
      BY <1>1, <3>4, <3>5, AnnouncedTypes
    <3>7. events' = events \o <<>> \o c \o f \o z
      <4>1. <<>> \in Seq(Updates)
        OBVIOUS
      <4>. QED  BY <1>1, <1>2, <3>2, <3>4, <3>5, <4>1, EnablingEvents
    <3>8. PICK T, e : T = Releases \cup Updates /\ e = events
      OBVIOUS
    <3>9. e \in Seq(T)
      BY <1>1, <3>8 DEF FeedbackTypes
    <3>10. SourceReleased(u, d, a) \in ToSet(events')
      <4>. HIDE DEF Releases, Updates
      <4>1. PICK q : q = e \o <<>> \o c \o f
        OBVIOUS
      <4>2. q \in Seq(T) /\ z \in Seq(T)
        BY <3>3, <3>6, <3>8, <3>9, <4>1
      <4>3. ToSet(q \o z) = ToSet(q) \cup ToSet(z)
        BY <4>2, JoinedElements
      <4>. QED  BY <3>3, <3>7, <3>8, <4>1, <4>3
    <3>11. Pend(u, d, a)'
      BY <3>10 DEF Pend, SourceReleased
    <3>. QED  BY <2>1, <2>2, <3>11 DEF Left
  <2>. QED  BY <2>4, <2>5, <2>6
<1>7. CASE new = feedbackEnabled[u]
  <2>1. light' = light /\ lastFeedback' = [lastFeedback EXCEPT ![u] = lastFeedback[u]]
    BY <1>2, <1>7 DEF PotentiallyEnableOrDisable
  <2>2. lastFeedback'[u] = lastFeedback[u] /\ feedbackEnabled'[u] = feedbackEnabled[u]
    BY <1>3, <1>4, <1>7, <2>1
  <2>. QED  BY <1>2, <2>1, <2>2 DEF Kept, Shown, User, MappingsAt
<1>. QED  BY <1>1, <1>5, <1>6, <1>7, AnnouncedTypes DEF FeedbackTypes

\* A source that is released is in the queue.
LEMMA ReleasePends ==
    ASSUME FeedbackTypes, superiorUnits = {}, NEW u \in Units, feedbackEnabled[u],
           NEW d, settings[u].feedbackOutput = d, NEW addresses \in Seq(Addresses), NEW a \in ToSet(addresses),
           NEW t \in Seq(Releases \cup Updates),
           events' = events \o t \o UnusedSourceEvents(u, addresses)
    PROVE  Pend(u, d, a)'
<1>1. d \in Destinations
  BY DEF FeedbackTypes, Settings, Destinations
<1>3. PICK r : r = UnusedSourceEvents(u, addresses) /\ r = ReleaseEvents(u, d, addresses)
  BY EveryoneMaySend DEF UnusedSourceEvents
<1>4. r \in Seq(Releases) /\ SourceReleased(u, d, a) \in ToSet(r)
  BY <1>1, <1>3, ReleaseTypes
<1>5. PICK T, e : T = Releases \cup Updates /\ e = events
  OBVIOUS
<1>6. e \in Seq(T)
  BY <1>5 DEF FeedbackTypes
<1>7. SourceReleased(u, d, a) \in ToSet(events')
  <2>. HIDE DEF Releases, Updates
  <2>1. PICK q : q = e \o t
    OBVIOUS
  <2>2. q \in Seq(T) /\ r \in Seq(T)
    BY <1>4, <1>5, <1>6, <2>1
  <2>3. ToSet(q \o r) = ToSet(q) \cup ToSet(r)
    BY <2>2, JoinedElements
  <2>. QED  BY <1>3, <1>4, <1>5, <2>1, <2>3
<1>. QED  BY <1>7 DEF Pend, SourceReleased

\* All mappings of a unit change.
LEMMA MappingsCare ==
    ASSUME SharingInv, FeedbackTypes', NEW u \in Units, UpdateAllMappings(u),
           NEW d \in Outputs, NEW a \in Addresses
    PROVE  Sent(u, d, a) \/ Left(u, d, a) \/ Kept(u, d, a)
<1>1. FeedbackTypes /\ u \in Alive
  BY OnlyAliveUnits DEF SharingInv, UnitStep
<1>2. PICK newOn \in SUBSET Mappings : SwitchMappings(u, newOn, newOn, NoFeedbackSent, <<ClaimEvent(u, newOn)>>)
  BY DEF UpdateAllMappings
<1>3. /\ SendMappingFeedback(u, NoFeedbackSent, newOn) /\ on'[u] = newOn
      /\ settings' = settings /\ Alive' = Alive /\ feedbackEnabled' = feedbackEnabled
      /\ superiorUnits' = {}
  <2>1. newOn \cap newOn = newOn
    OBVIOUS
  <2>. QED  BY <1>1, <1>2, <2>1 DEF SwitchMappings, FeedbackTypes, Alive, backboneVars, enablingVars, SharingInv
<1>4. /\ settings'[u].feedbackOutput # d => light'[d][a] = light[d][a]
      /\ settings'[u].feedbackOutput = d =>
              \/ Sent(u, d, a)
              \/ /\ ~feedbackEnabled'[u] \/ MappingsAt(newOn, source'[u], a) = {}
                 /\ light'[d][a] = light[d][a]
                 /\ lastFeedback'[u][a] = NotSent
  BY <1>1, <1>3, FreshSending
<1>5. CASE settings[u].feedbackOutput # d
  BY <1>3, <1>4, <1>5, NotInvolved
<1>6. CASE settings[u].feedbackOutput = d
  <2>1. SUFFICES ASSUME ~Sent(u, d, a) PROVE Left(u, d, a) \/ Kept(u, d, a)
    OBVIOUS
  <2>2. /\ ~feedbackEnabled[u] \/ MappingsAt(newOn, source'[u], a) = {}
        /\ light'[d][a] = light[d][a]
        /\ lastFeedback'[u][a] = NotSent
    BY <1>3, <1>4, <1>6, <2>1
  <2>3. ~User(u, d, a)'
    BY <1>3, <2>2 DEF User
  <2>4. CASE ~User(u, d, a)
    BY <2>2, <2>3, <2>4 DEF Kept, Shown
  <2>5. CASE User(u, d, a)
    <3>1. feedbackEnabled[u] /\ MappingsAt(on[u], source[u], a) # {} /\ MappingsAt(newOn, source'[u], a) = {}
      BY <2>2, <2>5 DEF User
    <3>2. PICK addresses : addresses = SetToSeq(AddressesOf(on[u], source[u]) \ AddressesOf(newOn, source'[u]))
      OBVIOUS
    <3>3. a \in AddressesOf(on[u], source[u]) \ AddressesOf(newOn, source'[u])
      BY <3>1 DEF MappingsAt, AddressesOf
    <3>4. addresses \in Seq(Addresses) /\ a \in ToSet(addresses)
      BY <1>1, <3>2, <3>3, UnusedSources
    <3>5. PICK t : t = <<ClaimEvent(u, newOn)>>
      OBVIOUS
    <3>6. t \in Seq(Releases \cup Updates)
      <4>1. t \in Seq(Updates)
        BY <1>1, <3>5, ClaimTypes
      <4>. HIDE DEF Releases, Updates
      <4>. QED  BY <4>1
    <3>7. events' = events \o t \o UnusedSourceEvents(u, addresses)
      BY <1>2, <3>2, <3>5 DEF SwitchMappings
    <3>8. Pend(u, d, a)'
      BY <1>1, <1>6, <3>1, <3>4, <3>6, <3>7, ReleasePends DEF SharingInv
    <3>. QED  BY <2>2, <3>8 DEF Left
  <2>. QED  BY <2>4, <2>5
<1>. QED  BY <1>5, <1>6

\* A single mapping changes.
LEMMA SingleCares ==
    ASSUME SharingInv, FeedbackTypes', NEW u \in Units, UpdateSingleMapping(u),
           NEW d \in Outputs, NEW a \in Addresses
    PROVE  Sent(u, d, a) \/ Left(u, d, a) \/ Kept(u, d, a)
<1>1. FeedbackTypes /\ u \in Alive
  BY OnlyAliveUnits DEF SharingInv, UnitStep
<1>20. PICK m \in Mappings, newOn \in SUBSET Mappings, b \in Addresses :
          /\ newOn \in {on[u] \cup {m}, on[u] \ {m}}
          /\ source' = [source EXCEPT ![u][m] = b]
          /\ SwitchSingleMapping(u, m, newOn, NoFeedbackSent,
                IF m \in on[u] /\ (m \notin newOn \/ b # source[u][m])
                THEN <<source[u][m]>> ELSE <<>>)
  BY DEF UpdateSingleMapping
<1>21. PICK released : released = IF m \in on[u] /\ (m \notin newOn \/ b # source[u][m])
                                  THEN <<source[u][m]>> ELSE <<>>
  OBVIOUS
<1>2. /\ newOn \in {on[u] \cup {m}, on[u] \ {m}}
      /\ source' = [source EXCEPT ![u][m] = b]
      /\ released = IF m \in on[u] /\ (m \notin newOn \/ b # source[u][m])
                    THEN <<source[u][m]>> ELSE <<>>
      /\ SwitchSingleMapping(u, m, newOn, NoFeedbackSent, released)
  BY <1>20, <1>21
<1>3. /\ SendMappingFeedback(u, NoFeedbackSent, {m} \cap newOn) /\ on'[u] = newOn
      /\ events' = events \o UnusedSourceEvents(u, released)
      /\ settings' = settings /\ Alive' = Alive /\ feedbackEnabled' = feedbackEnabled
      /\ superiorUnits' = {} /\ targetValue' = targetValue
  BY <1>1, <1>2 DEF SwitchSingleMapping, FeedbackTypes, Alive, backboneVars, enablingVars, SharingInv
<1>4. /\ settings'[u].feedbackOutput # d => light'[d][a] = light[d][a]
      /\ settings'[u].feedbackOutput = d =>
              \/ Sent(u, d, a)
              \/ /\ ~feedbackEnabled'[u] \/ MappingsAt({m} \cap newOn, source'[u], a) = {}
                 /\ light'[d][a] = light[d][a]
                 /\ lastFeedback'[u][a] = NotSent
  <2>1. {m} \cap newOn \in SUBSET Mappings /\ {m} \cap newOn \subseteq on'[u] /\ u \in Alive'
    BY <1>1, <1>3
  <2>. QED  BY <1>1, <1>3, <2>1, FreshSending
<1>5. CASE settings[u].feedbackOutput # d
  BY <1>3, <1>4, <1>5, NotInvolved
<1>6. CASE settings[u].feedbackOutput = d
  <2>1. SUFFICES ASSUME ~Sent(u, d, a) PROVE Left(u, d, a) \/ Kept(u, d, a)
    OBVIOUS
  <2>2. /\ ~feedbackEnabled[u] \/ MappingsAt({m} \cap newOn, source'[u], a) = {}
        /\ light'[d][a] = light[d][a]
        /\ lastFeedback'[u][a] = NotSent
    BY <1>3, <1>4, <1>6, <2>1
  <2>3. CASE ~feedbackEnabled[u]
    <3>1. ~User(u, d, a) /\ ~User(u, d, a)'
      BY <1>3, <2>3 DEF User
    <3>. QED  BY <2>2, <3>1 DEF Kept, Shown
  <2>4. CASE feedbackEnabled[u] /\ released = <<source[u][m]>> /\ source[u][m] = a
    <3>1. released \in Seq(Addresses) /\ a \in ToSet(released)
      BY <1>1, <2>4 DEF ToSet
    <3>2. PICK T, t, e, r : T = Releases \cup Updates /\ t = <<>> /\ e = events /\ r = UnusedSourceEvents(u, released)
      OBVIOUS
    <3>3. e \in Seq(T) /\ r \in Seq(T) /\ t \in Seq(T)
      BY <1>1, <3>1, <3>2, UnusedTypes DEF FeedbackTypes
    <3>4. e \o t \o r = e \o r
      BY <3>2, <3>3
    <3>5. t \in Seq(Releases \cup Updates) /\ events' = events \o t \o UnusedSourceEvents(u, released)
      BY <1>3, <3>2, <3>3, <3>4
    <3>6. Pend(u, d, a)'
      BY <1>1, <1>6, <2>4, <3>1, <3>5, ReleasePends DEF SharingInv
    <3>. QED  BY <2>2, <3>6 DEF Left
  <2>5. CASE feedbackEnabled[u] /\ ~(released = <<source[u][m]>> /\ source[u][m] = a)
    <3>1. source \in [Units -> [Mappings -> Addresses]] /\ on[u] \subseteq Mappings
      BY <1>1 DEF FeedbackTypes
    <3>2. \A k \in Mappings : source'[u][k] = IF k = m THEN b ELSE source[u][k]
      BY <1>2, <3>1
    <3>3. ~(m \in newOn /\ b = a)
      BY <2>2, <2>5, <3>2 DEF MappingsAt
    <3>4. ~(m \in on[u] /\ source[u][m] = a)
      BY <1>2, <2>5, <3>3
    <3>5. \A k : k \in newOn /\ k # m <=> k \in on[u] /\ k # m
      BY <1>2
    <3>6. MappingsAt(newOn, source'[u], a) = MappingsAt(on[u], source[u], a)
      BY <3>1, <3>2, <3>3, <3>4, <3>5 DEF MappingsAt
    <3>7. MappingsAt(on'[u], source'[u], a) = MappingsAt(on[u], source[u], a)
      BY <1>3, <3>6
    <3>. QED  BY <1>3, <2>2, <3>7 DEF Kept, Shown, User
  <2>. QED  BY <2>3, <2>4, <2>5
<1>. QED  BY <1>5, <1>6

\* A value changes or everything is sent again.
LEMMA ValuesCare ==
    ASSUME SharingInv, FeedbackTypes', NEW u \in Units,
           ProcessTargetValueChange(u) \/ SendAllFeedback(u),
           NEW d \in Outputs, NEW a \in Addresses
    PROVE  Sent(u, d, a) \/ Kept(u, d, a)
<1>1. FeedbackTypes /\ u \in Alive
  BY OnlyAliveUnits DEF SharingInv, UnitStep
<1>2. CASE SendAllFeedback(u)
  <2>1. /\ SendMappingFeedback(u, NoFeedbackSent, on[u]) /\ on' = on /\ source' = source
        /\ settings' = settings /\ Alive' = Alive /\ feedbackEnabled' = feedbackEnabled
        /\ superiorUnits' = {}
    BY <1>2 DEF SendAllFeedback, Alive, backboneVars, enablingVars, mappingVars, SharingInv
  <2>2. on[u] \in SUBSET Mappings /\ on[u] \subseteq on'[u] /\ u \in Alive'
    BY <1>1, <2>1 DEF FeedbackTypes
  <2>3. /\ settings'[u].feedbackOutput # d => light'[d][a] = light[d][a]
        /\ settings'[u].feedbackOutput = d =>
              \/ Sent(u, d, a)
              \/ /\ ~feedbackEnabled'[u] \/ MappingsAt(on[u], source'[u], a) = {}
                 /\ light'[d][a] = light[d][a]
                 /\ lastFeedback'[u][a] = NotSent
    BY <1>1, <2>1, <2>2, FreshSending
  <2>4. CASE settings[u].feedbackOutput # d
    BY <2>1, <2>3, <2>4, NotInvolved
  <2>5. CASE settings[u].feedbackOutput = d /\ ~Sent(u, d, a)
    <3>1. ~User(u, d, a) /\ ~User(u, d, a)' /\ light'[d][a] = light[d][a] /\ lastFeedback'[u][a] = NotSent
      BY <2>1, <2>3, <2>5 DEF User
    <3>. QED  BY <3>1 DEF Kept, Shown
  <2>. QED  BY <2>4, <2>5
<1>3. CASE ProcessTargetValueChange(u)
  <2>1. PICK m \in Mappings, v \in Values :
          /\ targetValue' = [targetValue EXCEPT ![u][m] = v]
          /\ UNCHANGED <<backboneVars, queueVars, enablingVars, on, source>>
          /\ SendMappingFeedback(u, lastFeedback[u], {m} \cap on[u])
    BY <1>3 DEF ProcessTargetValueChange
  <2>2. /\ on' = on /\ source' = source
        /\ settings' = settings /\ Alive' = Alive /\ feedbackEnabled' = feedbackEnabled
        /\ superiorUnits' = {}
    BY <2>1 DEF Alive, backboneVars, enablingVars, SharingInv
  <2>3. /\ lastFeedback[u] \in LastStates /\ {m} \cap on[u] \in SUBSET Mappings
        /\ \A k \in Mappings : targetValue'[u][k] = IF k = m THEN v ELSE targetValue[u][k]
        /\ on[u] \subseteq Mappings /\ v # NotSent
    BY <1>1, <2>1, OrchestrationAssumption DEF FeedbackTypes
  <2>4. /\ settings'[u].feedbackOutput # d => light'[d][a] = light[d][a]
        /\ \/ /\ feedbackEnabled'[u]
              /\ \E k \in MappingsAt({m} \cap on[u], source'[u], a) :
                    /\ lastFeedback'[u][a] = targetValue'[u][k]
                    /\ settings'[u].feedbackOutput = d =>
                         \/ light'[d][a] = targetValue'[u][k]
                         \/ light'[d][a] = light[d][a] /\ lastFeedback[u][a] = targetValue'[u][k]
           \/ /\ ~feedbackEnabled'[u] \/ MappingsAt({m} \cap on[u], source'[u], a) = {}
              /\ light'[d][a] = light[d][a]
              /\ lastFeedback'[u][a] = lastFeedback[u][a]
    <3>1. PICK last \in LastStates, ms \in SUBSET Mappings : last = lastFeedback[u] /\ ms = {m} \cap on[u]
      BY <2>3
    <3>2. SendMappingFeedback(u, last, ms)
      BY <2>1, <3>1
    <3>3. /\ settings'[u].feedbackOutput # d => light'[d][a] = light[d][a]
          /\ \/ /\ feedbackEnabled'[u]
                /\ \E k \in MappingsAt(ms, source'[u], a) :
                      /\ lastFeedback'[u][a] = targetValue'[u][k]
                      /\ settings'[u].feedbackOutput = d =>
                           \/ light'[d][a] = targetValue'[u][k]
                           \/ light'[d][a] = light[d][a] /\ last[a] = targetValue'[u][k]
             \/ /\ ~feedbackEnabled'[u] \/ MappingsAt(ms, source'[u], a) = {}
                /\ light'[d][a] = light[d][a]
                /\ lastFeedback'[u][a] = last[a]
      BY <1>1, <2>2, <3>2, SendingOutcome
    <3>. QED  BY <3>1, <3>3
  <2>5. CASE settings[u].feedbackOutput # d
    BY <2>2, <2>4, <2>5, NotInvolved
  <2>6. CASE /\ settings[u].feedbackOutput = d /\ feedbackEnabled[u]
             /\ MappingsAt({m} \cap on[u], source[u], a) # {}
    <3>1. MappingsAt({m} \cap on[u], source[u], a) = {m} /\ m \in MappingsAt(on[u], source[u], a)
      BY <2>6 DEF MappingsAt
    <3>2. /\ lastFeedback'[u][a] = v
          /\ light'[d][a] = v \/ (light'[d][a] = light[d][a] /\ lastFeedback[u][a] = v)
      BY <2>2, <2>3, <2>4, <2>6, <3>1
    <3>3. User(u, d, a)' /\ User(u, d, a)
      BY <1>1, <2>2, <2>6, <3>1 DEF User
    <3>4. CASE light'[d][a] = v
      BY <2>2, <2>3, <3>1, <3>2, <3>3, <3>4 DEF Sent, Shown
    <3>5. CASE light'[d][a] # v
      <4>1. ~Shown(u, d, a)
        BY <2>3, <3>2, <3>5 DEF Shown
      <4>. QED  BY <3>2, <3>3, <3>5, <4>1 DEF Kept
    <3>. QED  BY <3>4, <3>5
  <2>7. CASE /\ settings[u].feedbackOutput = d
             /\ ~feedbackEnabled[u] \/ MappingsAt({m} \cap on[u], source[u], a) = {}
    <3>1. light'[d][a] = light[d][a] /\ lastFeedback'[u][a] = lastFeedback[u][a]
      BY <2>2, <2>4, <2>7
    <3>2. User(u, d, a)' <=> User(u, d, a)
      BY <2>2 DEF User
    <3>3. ASSUME Shown(u, d, a) PROVE Shown(u, d, a)'
      <4>1. PICK k \in MappingsAt(on[u], source[u], a) : light[d][a] = targetValue[u][k]
        BY <3>3 DEF Shown
      <4>2. k # m /\ k \in Mappings
        BY <2>3, <2>7, <3>3 DEF MappingsAt, Shown, User
      <4>3. targetValue'[u][k] = targetValue[u][k]
        BY <2>3, <4>2
      <4>. QED  BY <2>2, <3>1, <3>2, <3>3, <4>1, <4>3 DEF Shown
    <3>. QED  BY <3>1, <3>2, <3>3 DEF Kept
  <2>. QED  BY <2>5, <2>6, <2>7
<1>. QED  BY <1>2, <1>3

\* An operation of a unit touches nothing of the others.
LEMMA OthersAreUntouched ==
    ASSUME OnlySharing, FeedbackTypes, NEW u \in Units, UnitStep(u)
    PROVE  /\ OthersUnchanged(u) /\ superiorUnits' = superiorUnits
           /\ \A w \in Units : settings'[w] = settings[w] \/ (settings[w] = NoSettings /\ settings'[w] \in SettingsChoices)
<1>1. /\ settings \in [Units -> Settings] /\ feedbackEnabled \in [Units -> BOOLEAN]
      /\ on \in [Units -> SUBSET Mappings] /\ source \in [Units -> [Mappings -> Addresses]]
      /\ targetValue \in [Units -> [Mappings -> Values]] /\ lastFeedback \in [Units -> LastStates]
  BY DEF FeedbackTypes
<1>2. ASSUME NEW last, NEW ms, SendMappingFeedback(u, last, ms)
      PROVE  \A w \in Units \ {u} : lastFeedback'[w] = lastFeedback[w]
  BY <1>1, <1>2 DEF SendMappingFeedback
<1>3. ASSUME NEW last, NEW announced, PotentiallyEnableOrDisable(u, last, announced)
      PROVE  \A w \in Units \ {u} : feedbackEnabled'[w] = feedbackEnabled[w] /\ lastFeedback'[w] = lastFeedback[w]
  <2>1. \A w \in Units \ {u} : feedbackEnabled'[w] = feedbackEnabled[w]
    BY <1>1, <1>3 DEF PotentiallyEnableOrDisable
  <2>2. \/ SendMappingFeedback(u, NoFeedbackSent, on[u])
        \/ \E x : lastFeedback' = [lastFeedback EXCEPT ![u] = x]
    BY <1>3 DEF PotentiallyEnableOrDisable
  <2>. QED  BY <1>1, <1>2, <2>1, <2>2
<1>4. CASE UpdateSettings(u)
  <2>1. PICK st, announced :
          /\ st \in SettingsChoices
          /\ settings' = [settings EXCEPT ![u] = st]
          /\ UNCHANGED <<backboneVars, room, circumstances, mappingVars>>
          /\ PotentiallyEnableOrDisable(u, NoFeedbackSent, announced)
    BY <1>4 DEF UpdateSettings
  <2>2. settings[u] = NoSettings
    BY <1>4 DEF UpdateSettings, Op, OnlySharing
  <2>. QED  BY <1>1, <1>3, <2>1, <2>2 DEF OthersUnchanged, backboneVars, mappingVars, Alive
<1>5. CASE ChangeCircumstances(u)
  <2>1. /\ UNCHANGED <<backboneVars, room, settings, mappingVars>>
        /\ PotentiallyEnableOrDisable(u, lastFeedback[u], <<>>)
    BY <1>5 DEF ChangeCircumstances
  <2>. QED  BY <1>1, <1>3, <2>1 DEF OthersUnchanged, backboneVars, mappingVars, Alive
<1>6. CASE UpdateAllMappings(u)
  <2>1. PICK newOn \in SUBSET Mappings, sources \in [Mappings -> Addresses] :
          /\ source' = [source EXCEPT ![u] = sources]
          /\ SwitchMappings(u, newOn, newOn, NoFeedbackSent, <<ClaimEvent(u, newOn)>>)
    BY <1>6 DEF UpdateAllMappings
  <2>2. /\ on' = [on EXCEPT ![u] = newOn]
        /\ UNCHANGED <<backboneVars, room, enablingVars, targetValue>>
        /\ SendMappingFeedback(u, NoFeedbackSent, newOn \cap newOn)
    BY <2>1 DEF SwitchMappings
  <2>. QED  BY <1>1, <1>2, <2>1, <2>2 DEF OthersUnchanged, backboneVars, enablingVars, Alive
<1>7. CASE UpdateSingleMapping(u)
  <2>1. PICK m \in Mappings, newOn \in SUBSET Mappings, a \in Addresses :
          /\ source' = [source EXCEPT ![u][m] = a]
          /\ SwitchSingleMapping(u, m, newOn, NoFeedbackSent,
                IF m \in on[u] /\ (m \notin newOn \/ a # source[u][m])
                THEN <<source[u][m]>> ELSE <<>>)
    BY <1>7 DEF UpdateSingleMapping
  <2>2. /\ on' = [on EXCEPT ![u] = newOn]
        /\ UNCHANGED <<backboneVars, room, enablingVars, targetValue>>
        /\ SendMappingFeedback(u, NoFeedbackSent, {m} \cap newOn)
    BY <2>1 DEF SwitchSingleMapping
  <2>. QED  BY <1>1, <1>2, <2>1, <2>2 DEF OthersUnchanged, backboneVars, enablingVars, Alive
<1>8. CASE ProcessTargetValueChange(u)
  <2>1. PICK m \in Mappings, v \in Values :
          /\ targetValue' = [targetValue EXCEPT ![u][m] = v]
          /\ UNCHANGED <<backboneVars, queueVars, enablingVars, on, source>>
          /\ SendMappingFeedback(u, lastFeedback[u], {m} \cap on[u])
    BY <1>8 DEF ProcessTargetValueChange
  <2>. QED  BY <1>1, <1>2, <2>1 DEF OthersUnchanged, backboneVars, enablingVars, Alive
<1>9. CASE SendAllFeedback(u)
  <2>1. /\ UNCHANGED <<backboneVars, queueVars, enablingVars, mappingVars>>
        /\ SendMappingFeedback(u, NoFeedbackSent, on[u])
    BY <1>9 DEF SendAllFeedback
  <2>. QED  BY <1>1, <1>2, <2>1 DEF OthersUnchanged, backboneVars, enablingVars, mappingVars, Alive
<1>10. ~ProcessChangedConditions(u) /\ ~ProcessActivationEffects(u) /\ ~UpdatePersistentProcessingState(u)
       /\ ~SyncUpperFloorMembership(u) /\ ~DropMainProcessor(u)
  BY DEF ProcessChangedConditions, ProcessActivationEffects, UpdatePersistentProcessingState,
         SyncUpperFloorMembership, DropMainProcessor, Op, OnlySharing
<1>. QED  BY <1>4, <1>5, <1>6, <1>7, <1>8, <1>9, <1>10 DEF UnitStep

\* Events of an operation: more of them, those of the unit for its output.
LEMMA OperationEvents ==
    ASSUME OnlySharing, SharingInv, FeedbackTypes', NEW u \in Units, UnitStep(u)
    PROVE  /\ ToSet(events) \subseteq ToSet(events')
           /\ \A e \in ToSet(events') \ ToSet(events) : e.type = "SourceReleased" =>
                 /\ e.unit = u /\ feedbackEnabled[u] /\ e.output = settings[u].feedbackOutput
                 /\ settings' = settings
<1>1. FeedbackTypes /\ events \in Seq(Releases \cup Updates) /\ settings[u].feedbackOutput \in Destinations
  BY DEF SharingInv, FeedbackTypes, Settings, Destinations
<1>2. PICK T, s, d : T = Releases \cup Updates /\ s = events /\ d = settings[u].feedbackOutput
  OBVIOUS
<1>3. ASSUME NEW x \in Seq(Updates), NEW e \in ToSet(x) PROVE e.type # "SourceReleased"
  <2>1. e \in Updates
    BY <1>3 DEF ToSet
  <2>. QED  BY <2>1 DEF Updates
<1>4. ASSUME NEW t \in Seq(Updates), NEW r \in Seq(Releases), events' = events \o t \o r,
             ToSet(r) # {} => settings' = settings /\ feedbackEnabled[u],
             \A e \in ToSet(r) : e.unit = u /\ e.output = d
      PROVE  /\ ToSet(events) \subseteq ToSet(events')
             /\ \A e \in ToSet(events') \ ToSet(events) : e.type = "SourceReleased" =>
                   /\ e.unit = u /\ feedbackEnabled[u] /\ e.output = settings[u].feedbackOutput
                   /\ settings' = settings
  <2>1. s \in Seq(T) /\ t \in Seq(T) /\ r \in Seq(T)
    <3>1. s \in Seq(T)
      BY <1>1, <1>2
    <3>. HIDE DEF Releases, Updates
    <3>. QED  BY <1>2, <1>4, <3>1
  <2>2. ToSet(s \o t) = ToSet(s) \cup ToSet(t) /\ s \o t \in Seq(T)
    BY <2>1, JoinedElements
  <2>3. ToSet((s \o t) \o r) = ToSet(s \o t) \cup ToSet(r)
    <3>1. PICK q : q = s \o t
      OBVIOUS
    <3>2. q \in Seq(T) /\ r \in Seq(T)
      BY <2>1, <2>2, <3>1
    <3>3. ToSet(q \o r) = ToSet(q) \cup ToSet(r)
      BY <3>2, JoinedElements
    <3>. QED  BY <3>1, <3>3
  <2>. QED  BY <1>2, <1>3, <1>4, <2>2, <2>3
<1>5. ASSUME NEW addresses \in Seq(Addresses)
      PROVE  LET r == UnusedSourceEvents(u, addresses)
             IN  /\ r \in Seq(Releases)
                 /\ ToSet(r) # {} => feedbackEnabled[u]
                 /\ \A e \in ToSet(r) : e.unit = u /\ e.output = d
  <2>1. CASE feedbackEnabled[u]
    <3>1. UnusedSourceEvents(u, addresses) = ReleaseEvents(u, d, addresses)
      BY <1>2, <2>1, EveryoneMaySend DEF UnusedSourceEvents, SharingInv
    <3>2. /\ ReleaseEvents(u, d, addresses) \in Seq(Releases)
          /\ ToSet(ReleaseEvents(u, d, addresses)) = {SourceReleased(u, d, a) : a \in ToSet(addresses)}
      BY <1>1, <1>2, ReleaseTypes
    <3>3. \A a : SourceReleased(u, d, a).unit = u /\ SourceReleased(u, d, a).output = d
      BY DEF SourceReleased
    <3>. QED  BY <2>1, <3>1, <3>2, <3>3
  <2>2. CASE ~feedbackEnabled[u]
    <3>1. UnusedSourceEvents(u, addresses) = <<>>
      BY <2>2, EveryoneMaySend DEF UnusedSourceEvents, SharingInv
    <3>2. <<>> \in Seq(Releases) /\ ToSet(<<>>) = {}
      BY DEF ToSet
    <3>. QED  BY <3>1, <3>2
  <2>. QED  BY <2>1, <2>2
<1>6. CASE UpdateSettings(u) \/ ChangeCircumstances(u)
  <2>1. PICK announced \in Seq(Updates) :
          \/ PotentiallyEnableOrDisable(u, NoFeedbackSent, announced)
          \/ PotentiallyEnableOrDisable(u, lastFeedback[u], announced)
    <3>1. CASE UpdateSettings(u)
      <4>1. PICK e \in Updates : e = IoUpdated(u, settings[u].feedbackOutput, FALSE)
        BY <1>1, UpdateTypes
      <4>2. <<e>> \in Seq(Updates)
        OBVIOUS
      <4>3. PICK x \in Seq(Updates) : x = <<e>>
        BY <4>2
      <4>4. PotentiallyEnableOrDisable(u, NoFeedbackSent, x)
        BY <3>1, <4>1, <4>3 DEF UpdateSettings
      <4>. QED  BY <4>4
    <3>2. CASE ChangeCircumstances(u)
      <4>1. <<>> \in Seq(Updates)
        OBVIOUS
      <4>2. PICK x \in Seq(Updates) : x = <<>>
        BY <4>1
      <4>3. PotentiallyEnableOrDisable(u, lastFeedback[u], x)
        BY <3>2, <4>2 DEF ChangeCircumstances
      <4>. QED  BY <4>3
    <3>. QED  BY <1>6, <3>1, <3>2
  <2>2. settings' \in [Units -> Settings] /\ circumstances' \in [Units -> Circumstances]
    BY DEF FeedbackTypes
  <2>3. PICK c, f, z : c = ControlEvents(u) /\ f = FeedbackEvents(u) /\ z = ZeroEvents(u)
    OBVIOUS
  <2>4. c \in Seq(Updates) /\ f \in Seq(Updates) /\ z \in Seq(Releases)
        /\ DetermineFeedbackEnabled(settings'[u], circumstances'[u]) \in BOOLEAN
    BY <1>1, <2>2, <2>3, AnnouncedTypes
  <2>5. events' = events \o announced \o c \o f \o z
    BY <1>1, <2>1, <2>2, <2>3, EnablingEvents
  <2>6. PICK t : t = announced \o c \o f
    OBVIOUS
  <2>7. t \in Seq(Updates) /\ events' = events \o t \o z
    <3>. HIDE DEF Releases, Updates
    <3>1. t \in Seq(Updates)
      BY <2>1, <2>4, <2>6
    <3>2. s \in Seq(T) /\ announced \in Seq(T) /\ c \in Seq(T) /\ f \in Seq(T) /\ z \in Seq(T)
      BY <1>1, <1>2, <2>1, <2>4
    <3>3. s \o announced \o c \o f = s \o t
      BY <2>6, <3>2, SMTT(30)
    <3>. QED  BY <1>2, <2>5, <3>1, <3>3
  <2>8. z # <<>> => feedbackEnabled[u] /\ z = AllZeroEvents(u, settings'[u].feedbackOutput)
    BY <1>1, <2>3, <2>4 DEF ZeroEvents, FeedbackTypes
  <2>9. feedbackEnabled[u] => settings' = settings
    <3>1. CASE UpdateSettings(u)
      <4>1. settings[u] = NoSettings
        BY <3>1 DEF UpdateSettings, Op, OnlySharing
      <4>. QED  BY <4>1 DEF SharingInv, EnabledWithDevice, NoSettings
    <3>2. CASE ChangeCircumstances(u)
      BY <3>2 DEF ChangeCircumstances
    <3>. QED  BY <1>6, <3>1, <3>2
  <2>10. z # <<>> => \A e \in ToSet(z) : e.unit = u /\ e.output = d
    <3>1. ToSet(AllZeroEvents(u, d)) = {SourceReleased(u, d, a) : a \in AddressesOf(on[u], source[u])}
      BY <1>1, <1>2, AllZeroTypes
    <3>2. \A a : SourceReleased(u, d, a).unit = u /\ SourceReleased(u, d, a).output = d
      BY DEF SourceReleased
    <3>. QED  BY <1>2, <2>8, <2>9, <3>1, <3>2
  <2>11. ToSet(z) # {} => z # <<>>
    BY DEF ToSet
  <2>12. \A e \in ToSet(z) : e.unit = u /\ e.output = d
    BY <2>10, <2>11
  <2>13. ToSet(z) # {} => settings' = settings /\ feedbackEnabled[u]
    BY <2>8, <2>9, <2>11
  <2>. QED  BY <1>4, <2>4, <2>7, <2>12, <2>13
<1>7. CASE UpdateAllMappings(u)
  <2>1. PICK newOn, last, changed : SwitchMappings(u, newOn, changed, last, <<ClaimEvent(u, newOn)>>)
    BY <1>7 DEF UpdateAllMappings
  <2>2. PICK addresses : addresses = SetToSeq(AddressesOf(on[u], source[u]) \ AddressesOf(newOn, source'[u]))
    OBVIOUS
  <2>3. addresses \in Seq(Addresses)
    BY <1>1, <2>2, UnusedSources
  <2>4. /\ events' = events \o <<ClaimEvent(u, newOn)>> \o UnusedSourceEvents(u, addresses)
        /\ settings' = settings
    BY <2>1, <2>2 DEF SwitchMappings, enablingVars
  <2>5. <<ClaimEvent(u, newOn)>> \in Seq(Updates)
    BY <1>1, ClaimTypes
  <2>. QED  BY <1>4, <1>5, <2>3, <2>4, <2>5
<1>8. CASE UpdateSingleMapping(u)
  <2>1. PICK m \in Mappings :
          \E newOn, last, released :
              SwitchSingleMapping(u, m, newOn, last, released) /\ released \in {<<>>, <<source[u][m]>>}
    BY <1>8 DEF UpdateSingleMapping
  <2>0. PICK newOn, last, released :
          SwitchSingleMapping(u, m, newOn, last, released) /\ released \in {<<>>, <<source[u][m]>>}
    BY <2>1
  <2>2. released \in Seq(Addresses)
    <3>1. source[u][m] \in Addresses
      BY <1>1 DEF FeedbackTypes
    <3>2. PICK a \in Addresses : a = source[u][m]
      BY <3>1
    <3>3. <<>> \in Seq(Addresses) /\ <<a>> \in Seq(Addresses)
      OBVIOUS
    <3>. QED  BY <2>0, <3>2, <3>3
  <2>3. PICK r : r = UnusedSourceEvents(u, released) /\ r \in Seq(Releases)
    BY <1>5, <2>2
  <2>4. events' = events \o r /\ settings' = settings
    BY <2>0, <2>3 DEF SwitchSingleMapping, enablingVars
  <2>5. PICK t \in Seq(Updates) : t = <<>>
    <3>1. <<>> \in Seq(Updates)
      OBVIOUS
    <3>. QED  BY <3>1
  <2>6. s \o t \o r = s \o r
    <3>1. s \in Seq(T)
      BY <1>1, <1>2
    <3>2. s \o t = s
      BY <2>5, <3>1
    <3>. QED  BY <3>2
  <2>7. events' = events \o t \o r
    BY <1>2, <2>4, <2>6
  <2>. QED  BY <1>4, <1>5, <2>2, <2>3, <2>4, <2>5, <2>7
<1>9. CASE ProcessTargetValueChange(u) \/ SendAllFeedback(u)
  BY <1>9 DEF ProcessTargetValueChange, SendAllFeedback, queueVars
<1>10. ~ProcessChangedConditions(u) /\ ~ProcessActivationEffects(u) /\ ~UpdatePersistentProcessingState(u)
       /\ ~SyncUpperFloorMembership(u) /\ ~DropMainProcessor(u)
  BY DEF ProcessChangedConditions, ProcessActivationEffects, UpdatePersistentProcessingState,
         SyncUpperFloorMembership, DropMainProcessor, Op, OnlySharing
<1>. QED  BY <1>6, <1>7, <1>8, <1>9, <1>10 DEF UnitStep

LEMMA OperationsCare ==
    ASSUME OnlySharing, SharingInv, FeedbackTypes', NEW u \in Units, UnitStep(u)
    PROVE  SharingInv'
<1>1. FeedbackTypes /\ u \in Alive
  BY OnlyAliveUnits DEF SharingInv
<1>2. /\ OthersUnchanged(u) /\ superiorUnits' = superiorUnits
      /\ \A w \in Units : settings'[w] = settings[w] \/ (settings[w] = NoSettings /\ settings'[w] \in SettingsChoices)
  BY <1>1, OthersAreUntouched
<1>3. /\ ToSet(events) \subseteq ToSet(events')
      /\ \A e \in ToSet(events') \ ToSet(events) : e.type = "SourceReleased" =>
            e.unit = u /\ feedbackEnabled[u] /\ e.output = settings[u].feedbackOutput /\ settings' = settings
  BY OperationEvents
<1>4. ASSUME NEW d \in Outputs, NEW a \in Addresses PROVE CaredFor(d, a)'
  <2>1. ~ProcessChangedConditions(u) /\ ~ProcessActivationEffects(u) /\ ~UpdatePersistentProcessingState(u)
        /\ ~SyncUpperFloorMembership(u) /\ ~DropMainProcessor(u)
    BY DEF ProcessChangedConditions, ProcessActivationEffects, UpdatePersistentProcessingState,
           SyncUpperFloorMembership, DropMainProcessor, Op, OnlySharing
  <2>2. Sent(u, d, a) \/ Left(u, d, a) \/ Kept(u, d, a)
    BY <2>1, LoadingCares, EnablingCares, MappingsCare, SingleCares, ValuesCare DEF UnitStep
  <2>3. CaredFor(d, a)
    BY DEF SharingInv
  <2>. QED  BY <1>2, <1>3, <2>2, <2>3, StillCaredFor
<1>5. EnabledWithDevice'
  BY <1>1, DevicesKept DEF SharingInv, Next
<1>6. ReleasesOfUnits'
  <2>1. ASSUME NEW e \in ToSet(events'), e.type = "SourceReleased"
        PROVE  e.unit \in Alive' /\ e.output = settings'[e.unit].feedbackOutput /\ e.output # NoDevice
    <3>1. CASE e \in ToSet(events)
      <4>1. e.unit \in Alive /\ e.output = settings[e.unit].feedbackOutput /\ e.output # NoDevice
        BY <2>1, <3>1 DEF SharingInv, ReleasesOfUnits
      <4>2. settings'[e.unit] = settings[e.unit]
        <5>1. e.unit \in Units /\ settings[e.unit] # NoSettings
          BY <1>1, <4>1 DEF Alive, ToSet, FeedbackTypes, NoSettings
        <5>. QED  BY <1>2, <5>1
      <4>. QED  BY <1>2, <4>1, <4>2 DEF OthersUnchanged
    <3>2. CASE e \notin ToSet(events)
      <4>1. e.unit = u /\ feedbackEnabled[u] /\ e.output = settings[u].feedbackOutput /\ settings' = settings
        BY <1>3, <2>1, <3>2
      <4>2. settings[u].feedbackOutput # NoDevice
        BY <4>1 DEF SharingInv, EnabledWithDevice
      <4>. QED  BY <1>1, <1>2, <4>1, <4>2 DEF OthersUnchanged
    <3>. QED  BY <3>1, <3>2
  <2>. QED  BY <2>1 DEF ReleasesOfUnits
<1>7. \A w \in Units : settings'[w].resetWhenReleasing
  BY <1>2 DEF SharingInv, OnlySharing
<1>. QED  BY <1>2, <1>4, <1>5, <1>6, <1>7 DEF SharingInv

\* What remains the same when an event is processed.
SameUnits ==
    /\ Alive' = Alive /\ superiorUnits' = superiorUnits /\ settings' = settings
    /\ feedbackEnabled' = feedbackEnabled /\ on' = on /\ source' = source /\ targetValue' = targetValue

LEMMA NextEvent ==
    ASSUME FeedbackTypes, NEW type, NextEventIs(type), events' = Tail(events)
    PROVE  ToSet(events) = {Head(events)} \cup ToSet(events')
BY NextTypes

\* The other lights.
LEMMA OtherLightsCaredFor ==
    ASSUME SharingInv, NEW e, ToSet(events) = {e} \cup ToSet(events'), SameUnits,
           NEW u \in Units, settings[u].feedbackOutput = e.output,
           \A w \in Units \ {u} : lastFeedback'[w] = lastFeedback[w],
           \A b \in Addresses \ {e.address} : lastFeedback'[u][b] = lastFeedback[u][b],
           NEW d \in Outputs, NEW a \in Addresses, d # e.output \/ a # e.address,
           light'[d][a] = light[d][a]
    PROVE  CaredFor(d, a)'
<1>1. ASSUME NEW w \in Units PROVE Pend(w, d, a)' <=> Pend(w, d, a)
  <2>1. SourceReleased(w, d, a) # e
    BY DEF SourceReleased
  <2>. QED  BY <2>1 DEF Pend, SourceReleased
<1>2. ASSUME NEW w \in Units PROVE User(w, d, a)' <=> User(w, d, a)
  BY DEF SameUnits, User, MappingsAt
<1>3. ASSUME NEW w \in Units, Shown(w, d, a) \/ Pend(w, d, a)
      PROVE  lastFeedback'[w][a] = lastFeedback[w][a]
  <2>1. settings[w].feedbackOutput = d
    BY <1>3 DEF Shown, User, Pend, SharingInv, ReleasesOfUnits, SourceReleased
  <2>. QED  BY <2>1
<1>4. ASSUME NEW w \in Units, Shown(w, d, a) PROVE Shown(w, d, a)'
  BY <1>2, <1>3, <1>4 DEF Shown, SameUnits, MappingsAt
<1>5. CaredFor(d, a)
  BY DEF SharingInv
<1>6. CASE \E w \in Units : Shown(w, d, a)
  BY <1>4, <1>6 DEF CaredFor
<1>7. CASE \E w \in Units : Pend(w, d, a) /\ lastFeedback[w][a] # Off
  <2>1. PICK w \in Units : Pend(w, d, a) /\ lastFeedback[w][a] # Off
    BY <1>7
  <2>2. Pend(w, d, a)' /\ lastFeedback'[w][a] # Off
    BY <1>1, <1>3, <2>1
  <2>. QED  BY <2>2 DEF CaredFor
<1>8. CASE light[d][a] = Off /\ \E w \in Units : Pend(w, d, a)
  BY <1>1, <1>8 DEF CaredFor
<1>9. CASE light[d][a] = Off /\ \A w \in Units : ~User(w, d, a)
  BY <1>2, <1>9 DEF CaredFor
<1>. QED  BY <1>5, <1>6, <1>7, <1>8, <1>9 DEF CaredFor

\* The rest of the invariant.
LEMMA EventLeavesUnits ==
    ASSUME SharingInv, FeedbackTypes', SameUnits, ToSet(events') \subseteq ToSet(events),
           \A d \in Outputs, a \in Addresses : CaredFor(d, a)'
    PROVE  SharingInv'
BY DEF SharingInv, SameUnits, EnabledWithDevice, ReleasesOfUnits

LEMMA TakingOverCares ==
    ASSUME SharingInv, FeedbackTypes', TakeOverSource
    PROVE  SharingInv'
<1>0. FeedbackTypes
  BY DEF SharingInv
<1>1. PICK e : e = Head(events)
  OBVIOUS
<1>2. NextEventIs("SourceReleased") /\ events' = Tail(events) /\ SameUnits
  BY DEF TakeOverSource, SameUnits, Alive, backboneVars, enablingVars, mappingVars
<1>3. e \in Releases /\ e.type = "SourceReleased" /\ ToSet(events) = {e} \cup ToSet(events')
  BY <1>0, <1>1, <1>2, NextTypes, NextEvent DEF NextEventIs
<1>4. e.output \in Outputs /\ e.address \in Addresses
  BY <1>3 DEF Releases, Destinations, SharingInv, ReleasesOfUnits
<1>5. PICK i \in DOMAIN mainProcessors :
        /\ CanTakeOver(mainProcessors[i], e)
        /\ SendTo(mainProcessors[i], e.output, e.address,
                  targetValue[mainProcessors[i]][Min(Takers(mainProcessors[i], e))])
  BY <1>1 DEF TakeOverSource
<1>6. PICK u \in Units : u = mainProcessors[i]
  BY <1>0 DEF FeedbackTypes
<1>7. u \in Alive
  BY <1>5, <1>6 DEF Alive, ToSet
<1>8. PICK m : m = Min(Takers(u, e))
  OBVIOUS
<1>9. /\ m \in MappingsAt(on[u], source[u], e.address)
      /\ settings[u].feedbackOutput = e.output /\ feedbackEnabled[u]
  <2>1. PICK S : S = Takers(u, e)
    OBVIOUS
  <2>2. S # {} /\ S \subseteq 1..NumMappings
    BY <1>0, <1>5, <1>6, <2>1 DEF CanTakeOver, Takers, MappingsAt, FeedbackTypes, Mappings
  <2>3. m \in S
    BY <1>8, <2>1, <2>2, Extremes, OrchestrationAssumption
  <2>4. superiorUnits = {}
    BY DEF SharingInv
  <2>. QED  BY <1>5, <1>6, <2>1, <2>3, <2>4, EveryoneMaySend DEF Takers, CanTakeOver
<1>10. PICK v : v = targetValue[u][m]
  OBVIOUS
<1>11. /\ lastFeedback' = [lastFeedback EXCEPT ![u][e.address] = v]
       /\ light' = [light EXCEPT ![e.output][e.address] = v]
  BY <1>4, <1>5, <1>6, <1>8, <1>10, OrchestrationAssumption DEF SendTo
<1>12. /\ lastFeedback \in [Units -> LastStates] /\ light \in [Outputs -> LightStates]
  BY <1>0 DEF FeedbackTypes
<1>13. ASSUME NEW d \in Outputs, NEW a \in Addresses PROVE CaredFor(d, a)'
  <2>1. CASE d = e.output /\ a = e.address
    <3>1. light'[d][a] = v /\ lastFeedback'[u][a] = v
      BY <1>11, <1>12, <2>1 DEF LastStates, LightStates
    <3>2. Shown(u, d, a)'
      BY <1>2, <1>7, <1>9, <1>10, <2>1, <3>1 DEF Shown, User, SameUnits
    <3>. QED  BY <3>2 DEF CaredFor
  <2>2. CASE d # e.output \/ a # e.address
    <3>1. light'[d][a] = light[d][a]
      BY <1>4, <1>11, <1>12, <2>2 DEF LightStates
    <3>2. /\ \A w \in Units \ {u} : lastFeedback'[w] = lastFeedback[w]
          /\ \A b \in Addresses \ {e.address} : lastFeedback'[u][b] = lastFeedback[u][b]
      BY <1>11, <1>12 DEF LastStates
    <3>. QED  BY <1>2, <1>3, <1>9, <2>2, <3>1, <3>2, OtherLightsCaredFor
  <2>. QED  BY <2>1, <2>2
<1>. QED  BY <1>2, <1>3, <1>13, EventLeavesUnits

LEMMA SwitchingOffCares ==
    ASSUME SharingInv, FeedbackTypes', FinallySwitchOffSource
    PROVE  SharingInv'
<1>0. FeedbackTypes
  BY DEF SharingInv
<1>1. PICK e : e = Head(events)
  OBVIOUS
<1>2. NextEventIs("SourceReleased") /\ events' = Tail(events) /\ SameUnits
  BY DEF FinallySwitchOffSource, SameUnits, Alive, backboneVars, enablingVars, mappingVars
<1>3. e \in Releases /\ e.type = "SourceReleased" /\ ToSet(events) = {e} \cup ToSet(events')
  BY <1>0, <1>1, <1>2, NextTypes, NextEvent DEF NextEventIs
<1>4. /\ e.output \in Outputs /\ e.address \in Addresses /\ e.unit \in Units
      /\ e.unit \in Alive /\ e.output = settings[e.unit].feedbackOutput
  BY <1>3 DEF Releases, Destinations, SharingInv, ReleasesOfUnits
<1>5. PICK u \in Units : u = e.unit
  BY <1>4
<1>6. \A w \in Units : ~User(w, e.output, e.address)
  <2>1. superiorUnits = {}
    BY DEF SharingInv
  <2>2. ~ \E w \in Alive : CanTakeOver(w, e)
    BY <1>1 DEF FinallySwitchOffSource
  <2>. QED  BY <2>1, <2>2, EveryoneMaySend DEF User, CanTakeOver, Takers
<1>7. \/ /\ lastFeedback' = [lastFeedback EXCEPT ![u][e.address] = Off]
         /\ light' = [light EXCEPT ![e.output][e.address] = Off]
      \/ lastFeedback[u][e.address] = Off /\ lastFeedback' = lastFeedback /\ light' = light
  <2>1. settings[u].resetWhenReleasing
    BY DEF SharingInv
  <2>2. e.output # NoDevice
    BY <1>4, OrchestrationAssumption
  <2>. QED  BY <1>1, <1>4, <1>5, <2>1, <2>2 DEF FinallySwitchOffSource, SendTo, deviceVars
<1>8. /\ lastFeedback \in [Units -> LastStates] /\ light \in [Outputs -> LightStates]
  BY <1>0 DEF FeedbackTypes
<1>9. ASSUME NEW d \in Outputs, NEW a \in Addresses PROVE CaredFor(d, a)'
  <2>1. CASE d = e.output /\ a = e.address
    <3>1. \A w \in Units : ~User(w, d, a)'
      BY <1>2, <1>6, <2>1 DEF User, SameUnits, MappingsAt
    <3>2. CASE light'[d][a] = Off
      BY <3>1, <3>2 DEF CaredFor
    <3>3. CASE light'[d][a] # Off
      <4>1. lastFeedback[u][a] = Off /\ lastFeedback' = lastFeedback /\ light' = light
        BY <1>4, <1>7, <1>8, <2>1, <3>3 DEF LightStates
      <4>2. CaredFor(d, a)
        BY DEF SharingInv
      <4>3. PICK w \in Units : Pend(w, d, a) /\ lastFeedback[w][a] # Off
        BY <1>6, <2>1, <3>3, <4>1, <4>2 DEF CaredFor, Shown
      <4>4. SourceReleased(w, d, a) # e
        BY <1>5, <4>1, <4>3 DEF SourceReleased
      <4>5. Pend(w, d, a)' /\ lastFeedback'[w][a] # Off
        BY <1>3, <4>1, <4>3, <4>4 DEF Pend, SourceReleased
      <4>. QED  BY <4>5 DEF CaredFor
    <3>. QED  BY <3>2, <3>3
  <2>2. CASE d # e.output \/ a # e.address
    <3>1. light'[d][a] = light[d][a]
      BY <1>4, <1>7, <1>8, <2>2 DEF LightStates
    <3>2. /\ \A w \in Units \ {u} : lastFeedback'[w] = lastFeedback[w]
          /\ \A b \in Addresses \ {e.address} : lastFeedback'[u][b] = lastFeedback[u][b]
      BY <1>7, <1>8 DEF LastStates
    <3>. QED  BY <1>2, <1>3, <1>4, <1>5, <2>2, <3>1, <3>2, OtherLightsCaredFor
  <2>. QED  BY <2>1, <2>2
<1>. QED  BY <1>2, <1>3, <1>9, EventLeavesUnits

LEMMA UpdatesCare ==
    ASSUME SharingInv, FeedbackTypes', ProcessIoUpdated
    PROVE  SharingInv'
<1>0. FeedbackTypes /\ superiorUnits = {}
  BY DEF SharingInv
<1>1. PICK e : e = Head(events)
  OBVIOUS
<1>2. /\ NextEventIs("IoUpdated") /\ events' = Tail(events) /\ SameUnits
      /\ lastFeedback' = lastFeedback /\ light' = light
  BY <1>0 DEF ProcessIoUpdated, SameUnits, Alive, enablingVars, mappingVars, deviceVars
<1>3. e.type = "IoUpdated" /\ ToSet(events) = {e} \cup ToSet(events')
  BY <1>0, <1>1, <1>2, NextEvent DEF NextEventIs
<1>4. ASSUME NEW d \in Outputs, NEW a \in Addresses PROVE CaredFor(d, a)'
  <2>1. ASSUME NEW w \in Units PROVE Pend(w, d, a)' <=> Pend(w, d, a)
    <3>1. SourceReleased(w, d, a) # e
      BY <1>3 DEF SourceReleased
    <3>. QED  BY <1>3, <3>1 DEF Pend, SourceReleased
  <2>2. ASSUME NEW w \in Units
        PROVE  (User(w, d, a)' <=> User(w, d, a)) /\ (Shown(w, d, a)' <=> Shown(w, d, a))
    BY <1>2 DEF SameUnits, User, Shown, MappingsAt
  <2>3. CaredFor(d, a)
    BY DEF SharingInv
  <2>. QED  BY <1>2, <2>1, <2>2, <2>3 DEF CaredFor
<1>. QED  BY <1>2, <1>3, <1>4, EventLeavesUnits

LEMMA SharingInvKept ==
    ASSUME OnlySharing
    PROVE  SharingInv /\ [Next]_vars => SharingInv'
<1>1. SUFFICES ASSUME SharingInv, [Next]_vars PROVE SharingInv'
  OBVIOUS
<1>2. FeedbackTypes /\ FeedbackTypes'
  BY <1>1, TypesKept DEF SharingInv
<1>3. CASE UNCHANGED vars \/ BeginCycle
  <2>1. /\ events' = events /\ SameUnits /\ lastFeedback' = lastFeedback /\ light' = light
    BY <1>3 DEF vars, BeginCycle, backboneVars, queueVars, enablingVars, mappingVars, deviceVars,
                SameUnits, Alive
  <2>2. ASSUME NEW d \in Outputs, NEW a \in Addresses PROVE CaredFor(d, a)'
    <3>1. CaredFor(d, a)
      BY <1>1 DEF SharingInv
    <3>2. /\ \A w \in Units : (Pend(w, d, a)' <=> Pend(w, d, a)) /\ (User(w, d, a)' <=> User(w, d, a))
          /\ \A w \in Units : Shown(w, d, a)' <=> Shown(w, d, a)
      BY <2>1 DEF Shown, User, Pend, SourceReleased, SameUnits, MappingsAt
    <3>. QED  BY <2>1, <3>1, <3>2 DEF CaredFor
  <2>. QED  BY <1>1, <1>2, <2>1, <2>2, EventLeavesUnits
<1>. QED  BY <1>1, <1>2, <1>3, OperationsCare, TakingOverCares, SwitchingOffCares, UpdatesCare
          DEF Next, ProcessEvent

LEMMA InitialLights ==
    ASSUME OnlySharing
    PROVE  Init => SharingInv
<1>1. SUFFICES ASSUME Init PROVE SharingInv
  OBVIOUS
<1>2. FeedbackTypes
  BY <1>1, InitialTypes
<1>3. \A d \in Outputs, a \in Addresses : CaredFor(d, a)
  BY <1>1 DEF Init, CaredFor, User
<1>4. ReleasesOfUnits
  BY <1>1 DEF Init, ReleasesOfUnits, ToSet
<1>. QED  BY <1>1, <1>2, <1>3, <1>4 DEF SharingInv, Init, EnabledWithDevice, NoSettings, OnlySharing

\* When nothing is left to be processed.
LEMMA SettledLights == SharingInv => UnusedLightsAreOff /\ UsedLightsAreCurrent
<1>1. SUFFICES ASSUME SharingInv, events = <<>>, NEW d \in Outputs, NEW a \in Addresses
               PROVE  /\ ExpectedValues(d, a) = {} => light[d][a] = Off
                      /\ ExpectedValues(d, a) # {} => light[d][a] \in ExpectedValues(d, a)
  BY DEF UnusedLightsAreOff, UsedLightsAreCurrent, Settled
<1>2. \A w \in Units : ~Pend(w, d, a)
  BY <1>1 DEF Pend, ToSet
<1>3. ASSUME NEW w \in Units
      PROVE  User(w, d, a) <=> Entitled(w, d) /\ MappingsAt(on[w], source[w], a) # {}
  <2>1. MappingsAt(on[w], source[w], a) # {} => on[w] # {}
    BY DEF MappingsAt
  <2>. QED  BY <1>1, <2>1 DEF User, Entitled, ActiveOn, SharingInv
<1>4. CaredFor(d, a)
  BY <1>1 DEF SharingInv
<1>5. CASE \E w \in Units : Shown(w, d, a)
  <2>1. PICK w \in Units : Shown(w, d, a)
    BY <1>5
  <2>2. PICK m \in MappingsAt(on[w], source[w], a) : light[d][a] = targetValue[w][m] /\ Entitled(w, d)
    BY <1>3, <2>1 DEF Shown
  <2>3. light[d][a] \in ExpectedValues(d, a)
    BY <2>2 DEF ExpectedValues
  <2>. QED  BY <2>3
<1>6. CASE light[d][a] = Off /\ \A w \in Units : ~User(w, d, a)
  <2>1. ExpectedValues(d, a) = {}
    BY <1>3, <1>6 DEF ExpectedValues
  <2>. QED  BY <1>6, <2>1
<1>. QED  BY <1>2, <1>4, <1>5, <1>6 DEF CaredFor

(* Units on the same floor share their outputs without leaving a light on  *)
(* that nobody uses (maybe_takeover_source, finally_switch_off_source):    *)
(* once all events are processed, such a light is off, whoever released it *)
(* and took it over in between.  This is for units that stay, reset what   *)
(* they release and announce their changes from a clean slate; removal,    *)
(* superior units and changes relative to what was sent before are not in. *)
THEOREM UnusedLightsGoOff ==
    ASSUME OnlySharing
    PROVE  Spec => []UnusedLightsAreOff
<1>1. SharingInv /\ [Next]_vars => SharingInv'
  BY SharingInvKept
<1>2. Init => SharingInv
  BY InitialLights
<1>3. SharingInv => UnusedLightsAreOff
  BY SettledLights
<1>. QED  BY <1>1, <1>2, <1>3, PTL DEF Spec

(* Under the same conditions a light in use shows the current value of a   *)
(* mapping once all events are processed: it has never been cleared by the *)
(* unit that used it before, nor kept that unit's value                    *)
(* (maybe_takeover_source).                                                *)
THEOREM UsedLightsBecomeCurrent ==
    ASSUME OnlySharing
    PROVE  Spec => []UsedLightsAreCurrent
<1>1. SharingInv /\ [Next]_vars => SharingInv'
  BY SharingInvKept
<1>2. Init => SharingInv
  BY InitialLights
<1>3. SharingInv => UsedLightsAreCurrent
  BY SettledLights
<1>. QED  BY <1>1, <1>2, <1>3, PTL DEF Spec

=============================================================================
