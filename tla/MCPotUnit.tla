----------------------------- MODULE MCPotUnit -----------------------------
(***************************************************************************)
(* A directory and a project database. The preset in the directory uses    *)
(* plug-ins of two products, of which the user may exclude one. What is    *)
(* found at last lacks that preset, so one database has no presets then.   *)
(***************************************************************************)
EXTENDS PotUnit

MCKinds == {"Database", "Project", "Bank"}
MCDatabases == {"d1", "d2"}
MCCores ==
  [p1 |-> {[Database |-> "d1", Bank |-> b] : b \in {"b1", "b2"}},
   p2 |-> {[Database |-> "d2", Project |-> "j1", Bank |-> "b2"]}]
MCPresets == DOMAIN MCCores
MCHits == [all |-> MCPresets, some |-> {"p1"}]
MCSelectable == {<<"Database", "d2">>, <<"Project", "j1">>, <<"Bank", "b1">>, <<"Bank", "b2">>}
MCExcludable == {<<"Bank", "b2">>}
MCContents == [i \in 0 .. 2 |-> CASE i = 0 -> {} [] i = 1 -> MCPresets [] i = 2 -> {"p2"}]
=============================================================================
