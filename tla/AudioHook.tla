----------------------------- MODULE AudioHook -----------------------------
(***************************************************************************)
(* The global audio hook (main/src/domain/audio_hook.rs): once per audio   *)
(* block REAPER calls on_pre in its real-time thread, which drives the     *)
(* real-time processors, takes one task from the channel filled by the     *)
(* main thread and looks for the answer to a MIDI device inquiry.          *)
(*                                                                         *)
(* Abstractions: a physical MIDI device is its output port and its input   *)
(* port, so an identity reply is the device that sent it.  Devices may     *)
(* answer an inquiry or not; answers travel on their own (answers).  What  *)
(* the real-time processors do when they are driven is in ProcessorSync;   *)
(* feedback tasks and the clip engine are left out.                        *)
(***************************************************************************)
EXTENDS Naturals, Sequences, FiniteSets, FiniteSetsExt

CONSTANTS Devices,      \* MIDI devices
          None,
          Requesters,   \* who may ask for the identity of a device
          TaskCapacity, \* NORMAL_AUDIO_HOOK_TASK_QUEUE_SIZE
          Mishaps       \* what may go wrong around inquiries: "LateAnswers",
                        \* "OverlappingInquiries"

ASSUME HookAssumption ==
    /\ None \notin Devices \cup Requesters
    /\ TaskCapacity \in Nat \ {0}

VARIABLES
    audioIsRunning,  \* REAPER calls the hook
    connected,       \* devices that are plugged in
    enabledInputs,   \* devices whose input is enabled in REAPER
    enabledOutputs,  \* devices whose output is enabled in REAPER
    answers,         \* devices that have been asked and are about to answer
    hookTasks,       \* normal_task_receiver
    rtInstances,     \* real_time_instances (IDs)
    rtProcessors,    \* real_time_processors (unit IDs)
    midiCapture,     \* state: whose sender the LearningSource state has, or None
    inquiry,         \* midi_device_inquiry_task
    replies          \* per requester: what its reply receiver has to say

portVars == <<connected, enabledInputs, enabledOutputs>>
hookStateVars == <<rtInstances, rtProcessors, midiCapture, inquiry>>
hookVars == <<audioIsRunning, portVars, answers, hookTasks, hookStateVars, replies>>

------------------------------------------------------------------------------
(* Tasks.  A sender to the real-time thread drops a task when the channel  *)
(* is full, or half full while audio is not running; dropping a request    *)
(* drops the sender of its reply.                                          *)

Task(type, id) == [type |-> type, id |-> id]

RequestTask(r, device) == Task("RequestMidiDeviceIdentity", [requester |-> r, output |-> device])

Room ==
    LET limit == IF audioIsRunning THEN TaskCapacity ELSE TaskCapacity \div 2 + 1
    IN  IF Len(hookTasks) < limit THEN limit - Len(hookTasks) ELSE 0

\* What gets through of the given tasks, sent one after the other.
Accepted(tasks) == SubSeq(tasks, 1, Min({Len(tasks), Room}))

Sent(tasks) == hookTasks \o Accepted(tasks)

SendTasks(tasks) == hookTasks' = Sent(tasks)

\* request_midi_device_identity: the requester waits on the receiver.
SendRequest(r, device, base) ==
    /\ SendTasks(<<RequestTask(r, device)>>)
    /\ replies' = [base EXCEPT ![r] = IF Room = 0 THEN "failed" ELSE "waiting"]

------------------------------------------------------------------------------
(* process_normal_commands: one task per block.                            *)

NextTask == IF hookTasks = <<>> THEN Task("Nothing", None) ELSE Head(hookTasks)

\* IDs are unique, so the vector of (ID, value) is a set of IDs.
AddOrRemove(ids, add, remove) ==
    CASE NextTask.type = add    -> ids \cup {NextTask.id}
      [] NextTask.type = remove -> ids \ {NextTask.id}
      [] OTHER                  -> ids

ProcessNormalCommand ==
    /\ hookTasks' = IF hookTasks = <<>> THEN <<>> ELSE Tail(hookTasks)
    /\ rtInstances' = AddOrRemove(rtInstances, "AddRealTimeInstance", "RemoveRealTimeInstance")
    /\ rtProcessors' = AddOrRemove(rtProcessors, "AddRealTimeProcessor", "RemoveRealTimeProcessor")
    /\ midiCapture' = CASE NextTask.type = "StartCapturingMidi" -> NextTask.id
                        [] NextTask.type = "StopCapturingMidi"  -> None
                        [] OTHER                                -> midiCapture

\* The hook holds the last reference to what it removes in this block.
\* (Senders it drops are small change for the allocator and left out.)
DropsValue ==
    \/ NextTask.type = "RemoveRealTimeInstance" /\ NextTask.id \in rtInstances
    \/ NextTask.type = "RemoveRealTimeProcessor" /\ NextTask.id \in rtProcessors

------------------------------------------------------------------------------
(* MIDI device inquiries: process_midi_device_inquiry_command refuses an   *)
(* output that is not open, otherwise the new inquiry replaces a running   *)
(* one, which drops the sender of the old one's reply.                     *)

OutputIsOpen(device) == device \in enabledOutputs \cap connected

InputIsOpen(device) == device \in enabledInputs \cap connected

Request == IF NextTask.type = "RequestMidiDeviceIdentity" THEN NextTask.id ELSE None

InquiryIsSent == Request # None /\ OutputIsOpen(Request.output)

InquiryAfterTask == IF InquiryIsSent THEN Request ELSE inquiry

RepliesAfterTask ==
    [r \in Requesters |->
        IF \/ Request # None /\ ~InquiryIsSent /\ r = Request.requester
           \/ InquiryIsSent /\ inquiry # None /\ r = inquiry.requester
        THEN "failed" ELSE replies[r]]

\* check_for_midi_device_inquiry_response: the timeout comes first, then the
\* first reply in any open input that has data in this block.
CheckForInquiryResponse(arriving, timedOut) ==
    LET heard == {d \in arriving : InputIsOpen(d)}
        task == InquiryAfterTask
    IN  IF task # None /\ (timedOut \/ heard # {})
        THEN /\ inquiry' = None
             /\ IF timedOut
                THEN replies' = [RepliesAfterTask EXCEPT ![task.requester] = "failed"]
                ELSE \E d \in heard :
                        replies' = [RepliesAfterTask EXCEPT ![task.requester] = d]
        ELSE inquiry' = task /\ replies' = RepliesAfterTask

\* An asked device answers, sooner or later, or not at all.
DeviceIsAsked(arriving) ==
    \E answering \in SUBSET (IF InquiryIsSent THEN {Request.output} ELSE {}) :
        answers' = (answers \ arriving) \cup answering

\* Mutant: an inquiry waits for its reply without limit.
InquiryNeverTimesOut == FALSE

\* More than one second has passed since the running inquiry was sent.
\* Without late answers, a device answers within that time or never.
InquiryTimesOut ==
    /\ inquiry # None /\ ~InquiryIsSent
    /\ "LateAnswers" \in Mishaps \/ inquiry.output \notin answers

------------------------------------------------------------------------------
\* on_pre, without the real-time processors.  Among the MIDI input of this
\* block are the given answers.
OnPre(arriving, timedOut) ==
    /\ audioIsRunning
    /\ arriving \subseteq answers
    /\ timedOut => InquiryTimesOut
    /\ ProcessNormalCommand
    /\ CheckForInquiryResponse(arriving, timedOut)
    /\ DeviceIsAsked(arriving)
    /\ UNCHANGED <<audioIsRunning, portVars>>

\* Audio is stopped and started in REAPER.
SwitchAudio ==
    /\ audioIsRunning' = ~audioIsRunning
    /\ UNCHANGED <<portVars, answers, hookTasks, hookStateVars, replies>>

==============================================================================
