---------------------------- MODULE AddressSpace ----------------------------
(***************************************************************************)
(* The address space that the in-process functions and the pointer         *)
(* validator look at through /proc/<pid>/maps, and the process itself at   *)
(* work in it: it maps, unmaps and protects pages when it likes.           *)
(*                                                                         *)
(* External: the kernel and the process.  A map is a run of pages of one   *)
(* file with one protection; own keeps what the process asked for.         *)
(***************************************************************************)
EXTENDS Integers, FiniteSets

CONSTANTS
  Pages,     \* page numbers: all of an address space but page 0
  FileOf,    \* what each page is mapped from
  Protections,   \* the protections the process asks for
  MaxUpsets    \* bound: how often it does, or the kernel or the disk refuses

Rights == {"r", "w", "x"}

ASSUME PagesAssumption == IsFiniteSet(Pages) /\ Pages # {} /\ Pages = 1..Cardinality(Pages)
ASSUME ProtectionsAssumption == Protections \subseteq SUBSET Rights

VARIABLES
  mapped, \* the pages mapped
  prot,   \* what may be done with each page
  own,    \* what the process last asked for; a ghost
  upsets  \* what came in between so far

space == <<mapped, prot, own, upsets>>

SpaceTypeOK ==
  /\ mapped \subseteq Pages /\ upsets \in Nat
  /\ prot \in [Pages -> SUBSET Rights] /\ own \in [Pages -> SUBSET Rights]

SpaceInit ==
  /\ mapped \in SUBSET Pages /\ prot \in [Pages -> Protections \cup {{}}] /\ own = prot
  /\ \A p \in Pages : IF p \in mapped THEN prot[p] \in Protections ELSE prot[p] = {}
  /\ upsets = 0

\* The pages of one map with p: nothing else lies between.
Alike(m, pr, p, q) ==
  \A d \in Pages : (p <= d /\ d <= q) \/ (q <= d /\ d <= p)
                     => d \in m /\ pr[d] = pr[p] /\ FileOf[d] = FileOf[p]

MapIn(m, pr, p) == [pages |-> {q \in Pages : Alike(m, pr, p, q)}, prot |-> pr[p], file |-> FileOf[p]]

Maps == {MapIn(mapped, prot, p) : p \in mapped}

\* mprotect goes through the pages in order and stops where one is not mapped or
\* the kernel refuses; what it has changed before stays changed.
Mprotect(pages, new, success) ==
  \E changed \in SUBSET (pages \cap mapped) :
    /\ \A p \in changed, q \in pages : q < p => q \in changed
    /\ success = (changed = pages)
    /\ prot' = [p \in Pages |-> IF p \in changed THEN new ELSE prot[p]]
    /\ upsets' = IF success \/ \E p \in pages \ mapped : \A q \in pages \ changed : p <= q
                 THEN upsets ELSE upsets + 1
    /\ upsets' <= MaxUpsets
    /\ UNCHANGED <<mapped, own>>

OwnChange(p, new) ==
  /\ upsets < MaxUpsets /\ upsets' = upsets + 1
  /\ prot' = [prot EXCEPT ![p] = new] /\ own' = [own EXCEPT ![p] = new]

OwnMprotect(p) == p \in mapped /\ (\E new \in Protections : OwnChange(p, new)) /\ UNCHANGED mapped
OwnMunmap(p) == p \in mapped /\ OwnChange(p, {}) /\ mapped' = mapped \ {p}
OwnMmap(p) == p \notin mapped /\ (\E new \in Protections : OwnChange(p, new)) /\ mapped' = mapped \cup {p}

OwnStep(p) == OwnMprotect(p) \/ OwnMunmap(p) \/ OwnMmap(p)
=============================================================================
