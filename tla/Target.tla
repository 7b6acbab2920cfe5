------------------------------- MODULE Target -------------------------------
(***************************************************************************)
(* The process the scanners look at, as its dynamic linker changes it      *)
(* under them (external): libraries are mapped segment by segment, entered *)
(* in the linker's list, relocated, and closed again.  A soinfo that is    *)
(* taken off the list keeps its words until it is used for another library.*)
(***************************************************************************)
EXTENDS ElfImage, SequencesExt

CONSTANTS
  Files,     \* file -> what is in it: phoff, phdrs, dyns, machine, name (the path's end)
  Intact,    \* the files whose header is left alone once they are mapped
  Slots,     \* the addresses images are mapped at
  Nodes,     \* the addresses of soinfos
  Layouts,   \* the orders the words of a soinfo may come in
  Initially, \* the list at first: a sequence of [slot, file, node]; the linker, then the program
  MaxOps     \* bound: libraries opened and closed

\* Code and data of a file, loaded page by page in the order of their addresses.
Spaced(phdrs) == \A i, j \in Loads(phdrs) :
  i < j => phdrs[i].vaddr + phdrs[i].memsz <= KT_PAGE_START(phdrs[j].vaddr)

\* The dynamic section is part of a segment; headers and code, which come first, are
\* not written to.
ASSUME FilesAssumption ==
  /\ "none" \notin DOMAIN Files
  /\ \A f \in DOMAIN Files : LET P == Files[f].phdrs IN
       /\ Files[f].phoff \in Nat /\ Files[f].dyns # {} /\ \A d \in Files[f].dyns : d.val \in Nat
       /\ Files[f].inode \in Nat \ {0} /\ Files[f].machine \in Nat \ {0}
       /\ P \in Seq([type : {"LOAD", "DYNAMIC"}, vaddr : Nat, memsz : Nat \ {0},
                     filesz : Nat, w : BOOLEAN])
       /\ \E n \in 1..Len(P) : Loads(P) = 1..n
       /\ Spaced(P) /\ ~P[1].w /\ Dynamics(P) # {}
       /\ LET d == P[Min(Dynamics(P))] IN
            d.vaddr # 0 /\ \E i \in Loads(P) : /\ P[i].vaddr <= d.vaddr
                                             /\ d.vaddr + d.memsz <= P[i].vaddr + P[i].memsz

ASSUME NodesAssumption ==
  /\ IsFiniteSet(Nodes) /\ Nodes \subseteq Nat \ {0}
  /\ \A l \in Layouts : \A m, n \in Nodes : l \in Seq(STRING) /\ (m < n => m + Len(l) <= n)

\* Images lie apart from each other and from the soinfos.
ASSUME SlotsAssumption ==
  /\ Slots \subseteq Nat \ {0} /\ \A s \in Slots : s % Page = 0
  /\ \A f \in DOMAIN Files : LET size == LoadSize(Files[f].phdrs) IN
       /\ \A s, t \in Slots : s < t => s + size <= t
       /\ \A s \in Slots : (\A n \in Nodes : s + size <= n) \/ \A n \in Nodes : n + 32 <= s

ASSUME InitiallyAssumption ==
  /\ Initially \in Seq([slot : Slots, file : DOMAIN Files, node : Nodes]) /\ Len(Initially) >= 2
  /\ \A i, j \in DOMAIN Initially : Initially[i].slot = Initially[j].slot \/
                                    Initially[i].node = Initially[j].node => i = j

VARIABLES
  layout,  \* the one it is
  image,   \* slot -> the file that is mapped there, the segments mapped so far, its soinfo
  words,   \* soinfo -> field -> its value
  list,    \* the soinfos the linker has in its list, in order
  opens,     \* counts opens and closes
  moved    \* what it did since an operation of a scanner began: "opened", "closed"

target == <<layout, image, words, list, opens, moved>>

NoImage == [file |-> "none", mapped |-> 0, node |-> 0]
Segs(f) == IF f = "none" THEN 0 ELSE Cardinality(Loads(Files[f].phdrs))
Used == {s \in Slots : image[s] # NoImage}
Openable == DOMAIN Files \ {Initially[1].file, Initially[2].file}

\* The soinfo of an image once the linker is done with it.  laddr is link_map's.
Filled(f, s, next) ==
  LET bias == s - MinVaddr(Files[f].phdrs)
      d == Files[f].phdrs[Min(Dynamics(Files[f].phdrs))]
  IN  [phdr |-> s + Files[f].phoff, phnum |-> Len(Files[f].phdrs), base |-> s,
       size |-> LoadSize(Files[f].phdrs), dyn |-> bias + d.vaddr, next |-> next, flags |-> 1,
       strtab |-> bias + Tag(Files[f].dyns, "STRTAB"), strsz |-> Tag(Files[f].dyns, "STRSZ"),
       symtab |-> bias + Tag(Files[f].dyns, "SYMTAB"), laddr |-> bias, bias |-> bias, name |-> 0]
\* That of the linker itself, which nobody loaded.
LinkersOwn(next) == [Filled(Initially[1].file, Initially[1].slot, next) EXCEPT !.base = 0, !.size = 0]
WordNames == {"phdr", "phnum", "base", "size", "dyn", "next", "flags", "strtab", "strsz",
              "symtab", "laddr", "bias", "name"}
Empty == [f \in WordNames |-> 0]

-----------------------------------------------------------------------------
(* What can be seen from outside.                                          *)

\* One line of /proc/pid/maps for each mapped segment, one for the rest of the
\* reserved range, and one for the soinfos.
SegmentMap(s, i) ==
  LET f == Files[image[s].file]
      b == s - MinVaddr(f.phdrs)
  IN  [start |-> KT_PAGE_START(b + f.phdrs[i].vaddr),
       end |-> KT_PAGE_END(b + f.phdrs[i].vaddr + f.phdrs[i].memsz),
       r |-> TRUE, w |-> f.phdrs[i].w, inode |-> f.inode, path |-> image[s].file]

Reserved(s) ==
  [NoMap EXCEPT !.start = IF image[s].mapped = 0 THEN s ELSE SegmentMap(s, image[s].mapped).end,
                !.end = s + LoadSize(Files[image[s].file].phdrs)]

MapsOf(s) == {SegmentMap(s, i) : i \in 1..image[s].mapped} \cup
             IF image[s].mapped = Segs(image[s].file) THEN {} ELSE {Reserved(s)}

SoinfoMap == [NoMap EXCEPT !.start = Min(Nodes), !.end = Max(Nodes) + 32, !.r = TRUE, !.w = TRUE]

Maps == (UNION {MapsOf(s) : s \in Used}) \cup {SoinfoMap}

\* What is read at a slot: program headers with the first segment, dynamic section
\* with the last.
ImageAt(s) ==
  IF s \notin Slots \/ image[s].mapped = 0 THEN Absent
  ELSE LET f == Files[image[s].file]
           all == image[s].mapped = Segs(image[s].file)
       IN  [header |-> IF image[s].file \in Intact THEN "intact" ELSE "erased",
            phoff |-> f.phoff, phdrs |-> f.phdrs,
            dyns |-> IF all THEN f.dyns ELSE {}, machine |-> f.machine]

\* The word at an address.  What images contain looks like no address of anything.
Word(a) ==
  IF \E n \in Nodes : a \in n..(n + Len(layout) - 1)
  THEN LET n == CHOOSE m \in Nodes : a \in m..(m + Len(layout) - 1)
       IN  words[n][layout[a - n + 1]]
  ELSE 0

solist == Initially[1].node
OnList == {list[i] : i \in DOMAIN list}

-----------------------------------------------------------------------------
TargetInit ==
  /\ layout \in Layouts
  /\ image = [s \in Slots |->
       IF \E i \in DOMAIN Initially : Initially[i].slot = s
       THEN LET i == CHOOSE i \in DOMAIN Initially : Initially[i].slot = s
            IN  [file |-> Initially[i].file, mapped |-> Segs(Initially[i].file),
                 node |-> Initially[i].node]
       ELSE NoImage]
  /\ list = [i \in DOMAIN Initially |-> Initially[i].node]
  /\ words = [a \in Nodes |->
       IF a \notin OnList THEN Empty
       ELSE LET i == CHOOSE i \in DOMAIN list : list[i] = a
                next == IF i = Len(list) THEN 0 ELSE list[i + 1]
            IN  IF i = 1 THEN LinkersOwn(next)
                ELSE Filled(Initially[i].file, Initially[i].slot, next)]
  /\ opens = 0 /\ moved = {}

\* dlopen: a soinfo at the end of the list and an address range, both still empty.
Open ==
  /\ opens < MaxOps /\ opens' = opens + 1 /\ Nodes # OnList
  /\ \E f \in Openable, s \in Slots \ Used :
       LET n == Min(Nodes \ OnList) IN
       /\ image' = [image EXCEPT ![s] = [file |-> f, mapped |-> 0, node |-> n]]
       /\ words' = [words EXCEPT ![list[Len(list)]].next = n, ![n] = Empty]
       /\ list' = Append(list, n)
  /\ moved' = moved \cup {"opened"}
  /\ UNCHANGED layout

MapSegment ==
  /\ \E s \in Used :
       /\ image[s].mapped < Segs(image[s].file)
       /\ image' = [image EXCEPT ![s].mapped = @ + 1]
  /\ moved' = moved \cup {"opened"}
  /\ UNCHANGED <<layout, words, list, opens>>

Link ==
  /\ \E s \in Used :
       LET n == image[s].node IN
       /\ image[s].mapped = Segs(image[s].file) /\ words[n].phdr = 0
       /\ words' = [words EXCEPT ![n] = Filled(image[s].file, s, @.next)]
  /\ moved' = moved \cup {"opened"}
  /\ UNCHANGED <<layout, image, list, opens>>

\* dlclose; the linker itself and the program stay.
Close ==
  /\ opens < MaxOps /\ opens' = opens + 1
  /\ \E s \in Used, i \in 2..Len(list) :
       /\ image[s].node = list[i] /\ words[list[i]].phdr # 0
       /\ s \notin {Initially[1].slot, Initially[2].slot}
       /\ image' = [image EXCEPT ![s] = NoImage]
       /\ words' = [words EXCEPT ![list[i - 1]].next = words[list[i]].next]
       /\ list' = RemoveAt(list, i)
  /\ moved' = moved \cup {"closed"}
  /\ UNCHANGED layout

TargetNext == Open \/ MapSegment \/ Link \/ Close
=============================================================================
