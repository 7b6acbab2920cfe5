------------------------------ MODULE MCPages ------------------------------
(***************************************************************************)
(* DirectMemory and PtrValidator over three pages of two files, in one     *)
(* address space.  In a run two threads write, or one does beside a dump,  *)
(* or the validator is asked.                                              *)
(***************************************************************************)
EXTENDS DirectMemory, PtrValidator

CONSTANT Scenes
VARIABLE scene


MCFileOf == <<"lib", "lib", "heap">>
MCOtherProt == <<{"r"}, {"r", "w"}, {"r", "w"}>>
MCProtections == {{"r"}, {"r", "w"}, {"x"}}

OnlyOf(set) == \A p \in Pages : prot[p] \in set \cup {{}}

Start ==
  \/ scene = "write" /\ mapped = Pages /\ prot[3] = {"r"}
  \/ scene = "dump" /\ mapped \in {{1, 3}, Pages} /\ OnlyOf({{"r"}, {"x"}})
  \/ scene = "ask" /\ mapped \in {{1, 3}, Pages} /\ OnlyOf({{"r"}, {"r", "w"}})

Init == SpaceInit /\ CallsInit /\ ValidatorInit /\ scene \in Scenes /\ Start

\* The two writers are alike, so the first call is a's.
Writing ==
  /\ CallsNext /\ call'[Dumper] = Idle
  /\ \A t \in Threads : 3 \notin call'[t].pages
  /\ prot'[3] = prot[3] /\ 3 \in mapped'
  /\ calls = 0 => call'["b"] = Idle

\* Beside the dump one page is read or written.
DumpingBeside ==
  /\ CallsNext /\ call'["b"] = Idle
  /\ Cardinality(call'["a"].pages) <= 1 /\ call'["a"].op # "memExecWrite"

Next ==
  /\ UNCHANGED scene
  /\ \/ scene = "write" /\ Writing /\ UNCHANGED <<validator, asking, ghosts>>
     \/ scene = "dump" /\ DumpingBeside /\ UNCHANGED <<validator, asking, ghosts>>
     \/ scene = "ask" /\ ValidatorNext /\ UNCHANGED <<call, dumping, calls, dead, tainted>>

Spec == Init /\ [][Next]_<<vars, validatorVars, scene>>
=============================================================================
