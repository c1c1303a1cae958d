--------------------------- MODULE MappingControl ---------------------------
(***************************************************************************)
(* What one incoming control message does: it controls each matching       *)
(* mapping that is on, one after the other, and each of these may then     *)
(* control the other mappings of its group ("group interaction"). Targets  *)
(* influence each other: selecting a track lets other targets, which need  *)
(* their track to be selected, turn active or inactive, even within the    *)
(* same transaction. All this happens in one call in the main thread.      *)
(*                                                                         *)
(* A target selects a track or switches something on and off; the latter   *)
(* may need a track to be selected. The world is a record: the selected    *)
(* track, the state of the switches, the change events REAPER has queued,  *)
(* and for the properties the hits of the current transaction.             *)
(***************************************************************************)
EXTENDS Integers, Sequences

CONSTANTS
    NoTrack,
    MappingCount   \* how many mappings there may be

\* Mappings are numbered in their order.
Mappings == 1..MappingCount

GroupInteractions ==
    {"None", "SameControl", "InverseControl", "SameTargetValue", "InverseTargetValue",
     "InverseTargetValueOnOnly", "InverseTargetValueOffOnly"}

InverseInteractions ==
    {"InverseControl", "InverseTargetValue", "InverseTargetValueOnOnly", "InverseTargetValueOffOnly"}

SelectTrack(track) == [kind |-> "SelectTrack", track |-> track]
Switch(id, track) == [kind |-> "Switch", id |-> id, track |-> track]

DeviceSource(id) == [kind |-> "Device", id |-> id]
ParamSource(p) == [kind |-> "Parameter", id |-> p]
Timer == [kind |-> "Timer", id |-> 0]

-----------------------------------------------------------------------------
\* Targets

CurrentValue(t, w) ==
    IF t.kind = "SelectTrack" THEN IF w.selected = t.track THEN 1 ELSE 0 ELSE w.switches[t.id]

ConditionsAreMet(t, w) == t.kind = "Switch" /\ t.track # NoTrack => w.selected = t.track

SelectionEvent(track) == [kind |-> "TrackSelected", track |-> track]
SwitchEvent(id, v) == [kind |-> "Switched", id |-> id, value |-> v]

\* The target value which a change event carries, if it is about the target.
IsAbout(e, t) ==
    \/ e.kind = "TrackSelected" /\ t.kind = "SelectTrack"
    \/ e.kind = "Switched" /\ t.kind = "Switch" /\ t.id = e.id
ValueInEvent(e, t) ==
    IF e.kind = "Switched" THEN e.value ELSE IF e.track = t.track THEN 1 ELSE 0

\* REAPER doesn't notify if nothing changes.
Selected(w, track) ==
    IF track = w.selected THEN w
    ELSE [w EXCEPT !.selected = track, !.events = Append(@, SelectionEvent(track))]
Switched(w, id, v) ==
    IF w.switches[id] = v THEN w
    ELSE [w EXCEPT !.switches[id] = v, !.events = Append(@, SwitchEvent(id, v))]

\* A track is selected exclusively.
Hit(t, v, w) ==
    IF t.kind = "Switch" THEN Switched(w, t.id, v)
    ELSE IF v = 1 THEN Selected(w, t.track)
    ELSE IF w.selected = t.track THEN Selected(w, NoTrack) ELSE w

-----------------------------------------------------------------------------
\* Controlling one mapping

Opposite(v) == 1 - v

\* Broken variant: relies on what was resolved before the transaction.
ControlWithoutRefresh(data, m, v, refresh, w) == 
    LET t == data[m].target
    IN  [Hit(t, v, w) EXCEPT
            !.reached = @ \cup {m},
            !.hits = Append(@, [mapping |-> m, value |-> v,
                                met |-> ConditionsAreMet(t, w)])]

\* The target was resolved when conditions changed the last time. If refresh is
\* enforced, it is resolved again and left alone if it is not active anymore.
ControlInternal(data, m, v, refresh, w) ==
    LET t == data[m].target
    IN  IF refresh /\ ~ConditionsAreMet(t, w) THEN w
        ELSE [Hit(t, v, w) EXCEPT
                !.reached = @ \cup {m},
                !.hits = Append(@, [mapping |-> m, value |-> v,
                                    met |-> ConditionsAreMet(t, w)])]

\* Controls some mappings in their order. Refresh is enforced for some of them.
ControlAll(data, ms, refreshed, v, w) ==
    LET after[m \in 0..MappingCount] ==
            IF m = 0 THEN w
            ELSE IF m \in ms THEN ControlInternal(data, m, v, m \in refreshed, after[m - 1])
            ELSE after[m - 1]
    IN  after[MappingCount]

\* Hits the other mappings of the group that are on.
ProcessOtherMappings(data, on, m, v, w) ==
    LET others == {o \in on \ {m} : data[o].group = data[m].group}
    IN  ControlAll(data, others, others, v, w)

\* The value the other mappings are controlled with: the one of the event ...
ControlValueForOthers(gi, v) == IF gi \in InverseInteractions THEN Opposite(v) ELSE v

\* Broken variant: the others get the value of the event.
InteractWithEventValue(data, on, m, v, w) ==
    IF data[m].interaction = "None" \/ m \notin w.reached THEN w
    ELSE ProcessOtherMappings(data, on, m, v, w)

\* ... or the current one of the target.
ProcessGroupInteraction(data, on, m, v, w) ==
    LET gi == data[m].interaction
        current == CurrentValue(data[m].target, w)
    IN  CASE gi = "None" -> w
          [] gi \in {"SameControl", "InverseControl"} ->
                ProcessOtherMappings(data, on, m, ControlValueForOthers(gi, v), w)
          [] OTHER ->
                IF \/ m \notin w.reached
                   \/ gi = "InverseTargetValueOnOnly" /\ current = 0
                   \/ gi = "InverseTargetValueOffOnly" /\ current = 1
                THEN w
                ELSE ProcessOtherMappings(data, on, m, ControlValueForOthers(gi, current), w)

-----------------------------------------------------------------------------
\* Transactions

BeginTransaction(w) == [w EXCEPT !.reached = {}, !.hits = <<>>]

\* Group interaction of some mappings, in their order.
InteractAll(data, on, ms, v, w) ==
    LET after[m \in 0..MappingCount] ==
            IF m = 0 THEN w
            ELSE IF m \in ms THEN ProcessGroupInteraction(data, on, m, v, after[m - 1])
            ELSE after[m - 1]
    IN  after[MappingCount]

\* All mappings that are on and have the source of the message. The first match
\* is not refreshed; the others are because the earlier ones could affect them.
\* Group interaction begins when all matches have been controlled.
ProcessMessage(data, on, source, v, world) ==
    LET matches == {m \in on : data[m].source = source}
        later == {m \in matches : \E k \in matches : k < m}
    IN  InteractAll(data, on, matches, v, ControlAll(data, matches, later, v, BeginTransaction(world)))

\* A timer that fires hits the target with the maximum value. The event which
\* group interaction gets to see has value zero.
PollControl(data, on, m, world) ==
    LET w == ControlInternal(data, m, 1, FALSE, BeginTransaction(world))
    IN  ProcessGroupInteraction(data, on, m, 0, w)

=============================================================================
