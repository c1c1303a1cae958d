----------------------- MODULE MCFeedbackOrchestration -----------------------
(* Small instances of FeedbackOrchestration: up to three units that share  *)
(* one or two outputs.  A cfg chooses which operations happen to which     *)
(* unit (Ops), which settings there are and which units are superior.      *)
EXTENDS FeedbackOrchestration

CONSTANTS u1, u2, u3

------------------------------------------------------------------------------
(* Settings.  NoSettings is what a unit has before it is loaded.           *)

EnabledSettings == [unitEnabled: {TRUE}, feedbackOutput: Outputs, resetWhenReleasing: {TRUE}]

AnyOutput == [unitEnabled: {TRUE}, feedbackOutput: Outputs \cup {NoDevice},
                resetWhenReleasing: BOOLEAN]

------------------------------------------------------------------------------
(* Operations.                                                             *)

Loading == {"LoadSettings", "UpdateAllMappings"}

Player == {"LoadSettings", "LoadMappings", "ProcessTargetValueChange"}

\* Same floor: mappings are edited, their targets change, and one unit is
\* bypassed or disarmed from time to time.
Sharing ==
    [u \in Units |->
        Loading \cup {"UpdateSingleMapping", "ProcessTargetValueChange"} \cup
        (IF u = u1 THEN {"ChangeCircumstances", "SendAllFeedback"} ELSE {})]

\* A superior unit comes, goes and is removed; the others are loaded before
\* and then just play.
ComingAndGoing ==
    [u \in Units |->
        IF u \in Superiors
        THEN Loading \cup {"ChangeCircumstances", "ProcessChangedConditions",
                           "DropMainProcessor"}
        ELSE Player]

\* Everything but removal.
AnythingButRemoval ==
    [u \in Units |->
        {"UpdateSettings", "UpdateAllMappings", "ProcessActivationEffects"} \cup
        (IF u = u1 THEN {"ChangeCircumstances", "SyncUpperFloorMembership",
                         "ProcessChangedConditions"}
         ELSE {"UpdateSingleMapping", "UpdatePersistentProcessingState",
               "ProcessTargetValueChange"})]

\* The user changes the settings of one unit, the others are loaded and play.
ChangingSettings ==
    [u \in Units |-> IF u = u1 THEN Loading \cup {"UpdateSettings"} ELSE Player]

------------------------------------------------------------------------------
(* Order of loading.                                                       *)

AnyOrder == [u \in Units |-> {}]

SuperiorsLast == [u \in Units |-> IF u \in Superiors THEN Units \ Superiors ELSE {}]

==============================================================================
