------------------------ MODULE ActivationConditions ------------------------
(***************************************************************************)
(* The activation conditions of a mapping. A mapping has two of them. Most *)
(* kinds depend on compartment parameters: they are evaluated completely   *)
(* when the mapping or all parameters are replaced, and incrementally when *)
(* one parameter changes. The kind "TargetValue" depends on the target of  *)
(* another mapping, the lead mapping, instead.                             *)
(*                                                                         *)
(* Parameters have discrete values. An EEL script or expression stands for *)
(* any function of the parameters it uses; here it asks if one of them is  *)
(* on. The parameters an EEL script keeps in its VM are those of the last  *)
(* evaluation, so they are not a state of their own.                       *)
(***************************************************************************)
EXTENDS Integers

CONSTANTS
    None,       \* no lead mapping
    Inactive    \* EXPRESSION_NONE_VALUE: what a condition sees of an inactive target

Always == [kind |-> "Always"]
Modifiers(on) == [kind |-> "Modifiers", on |-> on]              \* parameter -> wanted state
Program(p, index) == [kind |-> "Program", param |-> p, index |-> index]
Script(uses) == [kind |-> "Script", uses |-> uses]
TargetValue(lead, wants) == [kind |-> "TargetValue", lead |-> lead, wants |-> wants]

IsOn(value) == value > 0

DependsOnTarget(c) == c.kind = "TargetValue"

\* The lead mapping of a target value condition, if it has one.
LeadMapping(c) == IF DependsOnTarget(c) THEN c.lead ELSE None

\* Whether a condition that depends on parameters is fulfilled.
IsFulfilled(c, params) ==
    \/ c.kind = "Always"
    \/ c.kind = "Modifiers" /\ \A p \in DOMAIN c.on : IsOn(params[p]) = c.on[p]
    \/ c.kind = "Program" /\ params[c.param] = c.index
    \/ c.kind = "Script" /\ \E p \in c.uses : IsOn(params[p])

\* Broken variant: programs and modifiers are told apart by on and off only.
IsAffectedBySwitching(c, params, p, old) ==
    \/ c.kind = "Modifiers" /\ p \in DOMAIN c.on /\ IsOn(old) # IsOn(params[p])
    \/ c.kind = "Program" /\ p = c.param /\ IsOn(old) # IsOn(params[p])
    \/ c.kind = "Script" /\ p \in c.uses

\* Whether a change of parameter p from the value old to the one in params is
\* a reason to evaluate the condition again.
IsAffected(c, params, p, old) ==
    \/ c.kind = "Modifiers" /\ p \in DOMAIN c.on /\ IsOn(old) # IsOn(params[p])
    \/ c.kind = "Program" /\ p = c.param
    \/ c.kind = "Script" /\ p \in c.uses

\* The flag of a condition after a single parameter change ...
AfterParamUpdate(flag, c, params, p, old) ==
    IF IsAffected(c, params, p, old) THEN IsFulfilled(c, params) ELSE flag

\* ... after all parameters were replaced ...
AfterAllParams(flag, c, params) ==
    IF DependsOnTarget(c) THEN flag ELSE IsFulfilled(c, params)

\* Whether a target value condition is fulfilled in presence of target value y.
\* The none value is far below zero.
Accepts(c, y) == IF c.wants = "none" THEN y = Inactive ELSE y # Inactive /\ IsOn(y)

\* ... and after an update of the target value of a lead mapping.
AfterTargetValue(flag, c, lead, y) ==
    IF LeadMapping(c) # None /\ LeadMapping(c) = lead THEN Accepts(c, y) ELSE flag

=============================================================================
