------------------------------ MODULE MCBackbone ------------------------------
(* Small instances of Backbone.                                            *)
EXTENDS Backbone

CONSTANTS d1, d2, t1, t2, saver, s1, s2

MCDevices == {d1, d2}
MCDetectors == {t1, t2}
MCRequesters == {t1, t2, saver}
MCSessions == {s1, s2}

\* Either mishap breaks DevicesArePaired: with one inquiry at a time in the
\* hook, a reply can be taken for that of another inquiry.
NoMishaps == {}

Budget(given) == [k \in Kinds |-> IF k \in DOMAIN given THEN given[k] ELSE 0]

Scenario(insts, on, devices, list, given) ==
    [instances |-> insts, controlled |-> on, connected |-> devices, controllers |-> list,
     budget |-> Budget(given)]

FirstController == <<Controller(TRUE, d1, d1, TRUE)>>
BothControllers == FirstController \o <<Controller(TRUE, None, d2, TRUE)>>

\* Plug-ins come and go, with auto units and audio outages.
Lifecycle == Scenario({}, {}, {d1}, FirstController, "plugins" :> 4 @@ "units" :> 1 @@ "audio" :> 1)

\* Units of two instances change, one of them with global control.
UnitChanges == Scenario({1, 2}, {2}, {d1, d2}, BothControllers, "units" :> 3)

\* Controllers and devices change, and one thing about units.
ControllerChanges == Scenario({1, 2}, {2}, {d1, d2}, BothControllers,
                              "units" :> 1 @@ "controllers" :> 1 @@ "devices" :> 1)

\* The user detects controllers while a device is plugged in or out and a
\* controller is saved.
Detection == Scenario({1}, {}, {d1}, <<>>, "detections" :> 2 @@ "devices" :> 1 @@ "controllers" :> 2)

\* The backbone sleeps during a detection.
Sleep == Scenario({1}, {}, {d1, d2}, <<>>, "detections" :> 1 @@ "plugins" :> 2 @@ "audio" :> 1)

\* Control elements are learned, also across a sleep.
Learning == Scenario({1}, {}, {d1}, <<>>, "learning" :> 3 @@ "touches" :> 2 @@ "plugins" :> 1)

MCScenarios == {Lifecycle, UnitChanges, ControllerChanges, Detection, Sleep, Learning}
==============================================================================
