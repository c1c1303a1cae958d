---------------------------- MODULE SourceCapture ----------------------------
(***************************************************************************)
(* Backbone actions that wait for the next touched control element         *)
(* (main/src/infrastructure/plugin/backbone_shell.rs): "find first mapping *)
(* by source" and "learn mapping reassigning source".  Each is an async    *)
(* task of the main thread.  They share one message panel, whose on_close  *)
(* callback ends what the panel has been opened for, and one state of the  *)
(* audio hook.                                                             *)
(*                                                                         *)
(* Abstractions: MIDI only (OSC messages are captured the same way by the  *)
(* control surface); a target session ends at the moment its panel goes    *)
(* away, not one main loop cycle later; what is done with the mapping that *)
(* is found or learned is left out.                                        *)
(***************************************************************************)
EXTENDS AudioHook

CONSTANTS Sessions,   \* runs of these actions
          MaxCaptured \* bound: captured messages a session hasn't seen yet

ASSUME CaptureAssumption == None \notin Sessions /\ MaxCaptured \in Nat \ {0}

VARIABLES
    panel,    \* what the message panel asks for: "nothing" when closed
    session,  \* the await point of each session
    captured  \* messages waiting in each session's receiver

captureVars == <<panel, session, captured>>

CaptureTypeOK ==
    /\ panel \in {"nothing", "source", "target"}
    /\ session \in [Sessions -> {"off", "find", "learn", "target"}]
    /\ captured \in [Sessions -> 0..MaxCaptured]

InitCapture ==
    /\ panel = "nothing"
    /\ session = [s \in Sessions |-> "off"]
    /\ captured = [s \in Sessions |-> 0]

------------------------------------------------------------------------------
\* Mutant: set_content doesn't call the callback of the previous content.
OnCloseOfClosedPanel(new) ==
    IF panel = "source" /\ new = "nothing" THEN <<Task("StopCapturingMidi", None)>> ELSE <<>>

\* stop_learning_sources is the on_close callback of a source panel.
OnClose(new) == IF panel = "source" THEN <<Task("StopCapturingMidi", None)>> ELSE <<>>

\* Another content (or none) replaces the panel's content and the callback of
\* the previous content is called.  That of a target panel is
\* stop_capturing_targets.
ReplacePanel(new, sessions) ==
    /\ panel' = new
    /\ SendTasks(OnClose(new))
    /\ session' = [s \in Sessions |->
                      IF panel = "target" /\ session[s] = "target" THEN "off" ELSE sessions[s]]

\* The user closes the panel, or triggers one of the actions while it is open
\* (toggle_guard).
CloseMessagePanel ==
    /\ panel # "nothing"
    /\ ReplacePanel("nothing", session)
    /\ UNCHANGED captured

StartSession(s, kind) ==
    /\ session[s] = "off" /\ panel = "nothing"
    /\ panel' = "source"
    /\ session' = [session EXCEPT ![s] = kind]
    /\ captured' = [captured EXCEPT ![s] = 0]
    /\ SendTasks(<<Task("StartCapturingMidi", s)>>)

\* Mutant: a session goes on although nothing has been captured.
TakeAlways(s, stage) ==
    /\ session[s] = stage
    /\ captured' = [captured EXCEPT ![s] = @ - 1]

\* A session takes a message that has been captured for it.
Take(s, stage) ==
    /\ session[s] = stage
    /\ captured[s] > 0
    /\ captured' = [captured EXCEPT ![s] = @ - 1]

\* Nothing matches or the source isn't learnable: wait for the next message.
IgnoreCaptured(s) ==
    /\ Take(s, "find") \/ Take(s, "learn")
    /\ UNCHANGED <<panel, session, hookTasks>>

\* find_first_mapping_by_learnable_source_async: the mapping is shown, and the
\* loop goes on until its channel ends.
FindMapping(s) == Take(s, "find") /\ ReplacePanel("nothing", session)

\* learn_mapping_reassigning_learnable_source_async: either no unit has that
\* input, or the user is asked for a target.
MissUnit(s) == Take(s, "learn") /\ ReplacePanel("nothing", [session EXCEPT ![s] = "off"])

AskForTarget(s) == Take(s, "learn") /\ ReplacePanel("target", [session EXCEPT ![s] = "target"])

\* prompt_for_next_reaper_target returns: the mapping is learned.
LearnTarget(s) ==
    /\ session[s] = "target"
    /\ ReplacePanel("nothing", [session EXCEPT ![s] = "off"])
    /\ UNCHANGED captured

\* The hook or its task queue still has the session's sender.
SenderIsAlive(s) ==
    \/ midiCapture = s
    \/ \E i \in 1..Len(hookTasks) : hookTasks[i] = Task("StartCapturingMidi", s)

EndCapture(s) ==
    /\ session[s] \in {"find", "learn"}
    /\ captured[s] = 0 /\ ~SenderIsAlive(s)
    /\ session' = [session EXCEPT ![s] = "off"]
    /\ UNCHANGED <<panel, captured, hookTasks>>

ContinueSession(s) ==
    \/ IgnoreCaptured(s)
    \/ FindMapping(s)
    \/ MissUnit(s)
    \/ AskForTarget(s)
    \/ LearnTarget(s)
    \/ EndCapture(s)

\* In the LearningSource state, the hook scans the MIDI input and no
\* real-time processor gets any of it.
CaptureTouched(touched) ==
    captured' = IF touched /\ midiCapture # None
                THEN [captured EXCEPT ![midiCapture] = IF @ < MaxCaptured THEN @ + 1 ELSE @]
                ELSE captured

\* FutureMiddleware::reset: the tasks that are ready are dropped, with them
\* their receivers.
DropReadySessions ==
    session' = [s \in Sessions |->
                   IF session[s] \in {"find", "learn"} /\ (captured[s] > 0 \/ ~SenderIsAlive(s))
                   THEN "off" ELSE session[s]]

==============================================================================
