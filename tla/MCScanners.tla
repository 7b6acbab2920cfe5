----------------------------- MODULE MCScanners -----------------------------
(***************************************************************************)
(* The two scanners that look at a process while its linker works: one of  *)
(* them, chosen at first, together with the linker.  The process has the   *)
(* linker and the program, and opens a library that exists once for this   *)
(* machine and once for another, and one without a header at base 0.       *)
(***************************************************************************)
EXTENDS ElfSearch, SoInfo

VARIABLE user
vars == <<target, search, scan, setup, user>>

load(v, size, w) == [type |-> "LOAD", vaddr |-> v, memsz |-> size, filesz |-> 8, w |-> w]
dynamic(v) == [type |-> "DYNAMIC", vaddr |-> v, memsz |-> 4, filesz |-> 4, w |-> TRUE]
tags(v) == {[tag |-> "STRTAB", val |-> v + 5], [tag |-> "SYMTAB", val |-> v + 3], [tag |-> "STRSZ", val |-> 4]}
small == <<load(0, 8, FALSE), load(8, 8, TRUE), dynamic(9)>>
shifted == <<load(8, 8, FALSE), load(16, 8, TRUE), dynamic(17)>>
large == <<load(8, 8, FALSE), load(16, 8, FALSE), load(24, 16, TRUE), dynamic(25)>>

file(phdrs, machine, inode, name, area) ==
  [phoff |-> 2, phdrs |-> phdrs, dyns |-> tags(phdrs[1].vaddr), machine |-> machine,
   inode |-> inode, name |-> name, area |-> area,
   functions |-> [f \in {"open", "hidden"} |-> IF f = "open" THEN 17 ELSE 14],
   syms |-> <<[name |-> "open", value |-> 17], [name |-> "hidden", value |-> 14]>>]

MCFiles == [f \in {"linker", "main", "lib", "emulated", "packed"} |->
  CASE f = "linker" -> file(small, 1, 1, "linker", "system")
    [] f = "main" -> file(small, 1, 2, "main", "system")
    [] f = "lib" -> file(large, 1, 3, "lib.so", "app")
    [] f = "emulated" -> file(large, 2, 4, "lib.so", "system")
    [] f = "packed" -> file(shifted, 1, 5, "lib.so", "app")]
MCIntact == {"linker", "main", "lib", "emulated"}
MCInitially == <<[slot |-> 64, file |-> "linker", node |-> 1024],
                 [slot |-> 128, file |-> "main", node |-> 1040],
                 [slot |-> 256, file |-> "lib", node |-> 1056]>>
MCSlots == {64, 128, 192, 256, 320}
MCNodes == {1024, 1040, 1056, 1072}
MCQueries ==
  {[name |-> "lib.so", type |-> t, area |-> "Any", symbol |-> "none"] : t \in {"Any", "Emulated"}}
  \cup {[name |-> "lib.so", type |-> "Native", area |-> "app", symbol |-> "none"]}
  \cup {[name |-> "lib", type |-> "Any", area |-> "Any", symbol |-> f] : f \in {"open", "hidden"}}

\* The order of Android's own soinfo, that of an older one which begins with a name,
\* and one of another linker; in all of them the base comes before the bias.
MCLayouts ==
  {<<"phdr", "phnum", "base", "size", "dyn", "next", "flags", "strtab", "symtab", "laddr", "bias">>,
   <<"name", "name", "phdr", "phnum", "flags", "base", "size", "flags", "dyn", "next", "strtab",
     "symtab", "strsz", "laddr", "bias">>,
   <<"flags", "phdr", "phnum", "size", "base", "next", "dyn", "symtab", "strtab", "bias", "laddr">>}

Init ==
  /\ TargetInit /\ SearchInit /\ SoInfoInit
  /\ user \in {"elf", "soinfo"}
  /\ user = "elf" \/ how = "search" => Len(layout) = 15
  /\ user = "elf" => how = "symbols"

Next ==
  \/ TargetNext /\ Meanwhile /\ UNCHANGED <<scan, setup, user>>
  \/ user = "elf" /\ SearchNext /\ UNCHANGED <<scan, setup, user>>
  \/ user = "soinfo" /\ SoInfoNext /\ UNCHANGED <<search, user>>

Spec == Init /\ [][Next]_vars
=============================================================================
