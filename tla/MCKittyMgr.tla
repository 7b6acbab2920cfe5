----------------------------- MODULE MCKittyMgr -----------------------------
(***************************************************************************)
(* KittyMgr over four cells: two of a library, one of another with the     *)
(* same name, and the rest of the first.  The user of the manager patches, *)
(* or initializes it again and again, or dumps.                            *)
(***************************************************************************)
EXTENDS KittyMgr

VARIABLE user
allVars == <<vars, user>>

MCCells == 1..4
MCCovers == [x \in {"p", "q", "backup"} |->
               CASE x = "p" -> {1, 2} [] x = "q" -> {2, 3} [] x = "backup" -> 1..3]
MCPathOf == <<<<"app", "lib">>, <<"app", "lib">>, <<"sys", "lib">>, <<"app", "lib">>>>
MCElf == 1..2

Init == PatchInit /\ MgrInit /\ user \in {"patch", "again", "dump"}

Next ==
  /\ UNCHANGED user
  /\ \/ (user = "patch" => inits = 0) /\ Initialize
     \/ user # "dump" /\ Patching
     \/ user # "again" /\ Disturb
     \/ user = "dump" /\ Dumping

Spec == Init /\ [][Next]_allVars
=============================================================================
