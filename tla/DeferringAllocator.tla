------------------------- MODULE DeferringAllocator -------------------------
(***************************************************************************)
(* The global allocator (allocator/src/lib.rs) and its deallocation        *)
(* thread: what a real-time thread drops is handed over to the thread      *)
(* through a bounded channel, and freed in place if the channel is full.   *)
(* The thread only exists while the backbone is awake; the receiver is     *)
(* kept in between.                                                        *)
(***************************************************************************)
EXTENDS Naturals, Sequences

CONSTANTS DeallocatorCapacity, \* DEALLOCATOR_THREAD_CAPACITY
          Stop                 \* AsyncDeallocatorCommand::Stop

ASSUME AllocatorAssumption == DeallocatorCapacity \in Nat \ {0} /\ Stop # "value"

VARIABLES garbage,      \* commands in the channel: values to be freed, Stop
          deallocating  \* the deallocation thread runs

allocatorVars == <<garbage, deallocating>>

\* try_send: nothing happens if the channel is full.
TrySend(commands) ==
    IF Len(garbage) + Len(commands) <= DeallocatorCapacity THEN garbage \o commands ELSE garbage

\* dealloc_internal in a real-time thread.
DeallocInRealTime(values) == garbage' = TrySend(values) /\ UNCHANGED deallocating

\* Mutant: the thread isn't told to stop.
StopWithoutSignal == UNCHANGED <<garbage, deallocating>>

\* stop_async_deallocation
StopAsyncDeallocation == garbage' = TrySend(<<Stop>>) /\ UNCHANGED deallocating

\* start_async_deallocation_thread, with the receiver of the previous thread
StartAsyncDeallocation == deallocating' = TRUE /\ UNCHANGED garbage

\* One turn of the thread's loop.
Deallocate ==
    /\ deallocating
    /\ garbage # <<>>
    /\ garbage' = Tail(garbage)
    /\ deallocating' = (Head(garbage) # Stop)

==============================================================================
