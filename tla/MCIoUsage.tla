------------------------------ MODULE MCIoUsage ------------------------------
(* Three units on two control inputs and two feedback outputs: enough for  *)
(* two units of different floors and a third one to meet on a device while *)
(* the other device is free.  The units and devices are model values named *)
(* in the cfg; no symmetry is used because a refinement is checked.        *)
EXTENDS IoUsage

==============================================================================
