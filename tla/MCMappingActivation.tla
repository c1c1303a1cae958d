------------------------ MODULE MCMappingActivation ------------------------
(* Small instances of MappingActivation: three mappings, one or two        *)
(* parameters, two tracks and two switches.                                *)
EXTENDS MappingActivation

CONSTANTS p, trackA, trackB, a, b, button

Mapping(target, source, interaction, c1, c2) ==
    [target |-> target, source |-> source, group |-> 1, interaction |-> interaction,
     conditions |-> <<c1, c2>>]

\* The parameter selects track B, which makes the target of the second mapping
\* inactive. That one is the lead mapping of the third.
SelectB == Mapping(SelectTrack(trackB), ParamSource(p), "None", Program(p, 2), Always)

SwitchA == Mapping(Switch(a, trackA), ParamSource(p), "InverseTargetValueOnOnly", Always, Script({p}))

FollowOn == Mapping(Switch(b, NoTrack), DeviceSource(button), "InverseTargetValue",
                    TargetValue(2, "on"), Modifiers([x \in {p} |-> TRUE]))

FollowNone == Mapping(Switch(b, NoTrack), Timer, "SameControl", TargetValue(2, "none"), Always)

TwoLayouts == {<<SelectB, SwitchA, FollowOn>>, <<SelectB, SwitchA, FollowNone>>}

ButtonMessages == {DeviceSource(button)} \X {0, 1}

OnePreset == {[x \in {p} |-> 1]}

=============================================================================
