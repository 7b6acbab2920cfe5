---------------------------- MODULE MemoryPatch ----------------------------
(***************************************************************************)
(* MemoryPatch and MemoryBackup: an object keeps what was in its range     *)
(* when it was made, Modify writes the patch, Restore what was kept.  The  *)
(* ranges of patches may overlap, and pages come and go meanwhile.         *)
(*                                                                         *)
(* src/KittyMemory/MemoryPatch.cpp, MemoryBackup.cpp.  A cell of memory    *)
(* lies on a page of its own; what it holds is "orig", the name of the     *)
(* patch that wrote it, "other" when something else did, or "zero", which  *)
(* stands for what a read leaves in a buffer where it could not read.      *)
(***************************************************************************)
EXTENDS Naturals, FiniteSets

CONSTANTS
  Cells,    \* addresses of the target
  Patch,    \* the patches made by a caller
  Backup,   \* and the backups
  Covers,   \* the cells of each of them
  MaxWrites, \* bound: how often patches are applied
  MaxLost   \* bound: how many cells others touch

Objects == Patch \cup Backup

ASSUME ObjectsAssumption ==
  /\ Patch \cap {"orig", "other", "zero"} = {} /\ Patch \cap Backup = {}
  /\ Covers \in [Objects -> SUBSET Cells]
ASSUME BoundsAssumption == MaxWrites \in Nat /\ MaxLost \in Nat

VARIABLES
  mem,     \* what each cell holds
  ok,      \* the cells on mapped pages
  obj,     \* "none", "invalid" or "valid"
  kept,    \* _orig_code, over all cells
  stamp,   \* when each patch was last applied, 0 if it is not; a ghost
  clock,   \* the last stamp given; a ghost
  under,   \* the patches, with stamps, an object was made over; a ghost
  steady,  \* cells always mapped and written by nobody else; a ghost
  inTurn   \* no restore took from under a patch what it was made over; a ghost

layers == <<stamp, clock, under, steady, inTurn>>
patchVars == <<mem, ok, obj, kept, layers>>

Values == {"orig", "other", "zero"} \cup Patch

PatchTypeOK ==
  /\ mem \in [Cells -> Values] /\ ok \in SUBSET Cells
  /\ obj \in [Objects -> {"none", "invalid", "valid"}]
  /\ kept \in [Objects -> [Cells -> Values]]
  /\ stamp \in [Patch -> Nat] /\ clock \in Nat
  /\ under \in [Objects -> SUBSET (Patch \X Nat)]
  /\ steady \in SUBSET ok /\ inTurn \in BOOLEAN

PatchInit ==
  /\ mem = [c \in Cells |-> "orig"] /\ ok = Cells
  /\ obj = [x \in Objects |-> "none"]
  /\ kept = [x \in Objects |-> [c \in Cells |-> "zero"]]
  /\ stamp = [p \in Patch |-> 0] /\ clock = 0
  /\ under = [x \in Objects |-> {}]
  /\ steady = Cells /\ inTurn = TRUE

\* The patches that lie over some of a set of cells, with their stamps.
Layers(cells) == {<<p, stamp[p]>> : p \in {q \in Patch : stamp[q] # 0 /\ Covers[q] \cap cells # {}}}

-----------------------------------------------------------------------------
(* Read and Write leave out what is not mapped.                            *)

\* Faulty: of the cells that are mapped, one is not read.
Bug_ReadInto(cells) ==
  [c \in Cells |-> IF c \in cells \cap ok /\ \E d \in cells : d > c THEN mem[c] ELSE "zero"]

ReadInto(cells) == [c \in Cells |-> IF c \in cells \cap ok THEN mem[c] ELSE "zero"]

Write(cells, value) == mem' = [c \in Cells |-> IF c \in cells \cap ok THEN value[c] ELSE mem[c]]

\* createWithBytes, createBackup.
Create(x) ==
  /\ obj[x] = "none" /\ obj' = [obj EXCEPT ![x] = "valid"]
  /\ kept' = [kept EXCEPT ![x] = ReadInto(Covers[x])]
  /\ under' = [under EXCEPT ![x] = Layers(Covers[x])]
  /\ UNCHANGED <<mem, ok, stamp, clock, steady, inTurn>>

\* createWithHex and createWithAsm of something that is no code, or a manager that
\* has no memory operations.
CreateInvalid(x) ==
  /\ obj[x] = "none" /\ obj' = [obj EXCEPT ![x] = "invalid"]
  /\ UNCHANGED <<mem, ok, kept, layers>>

Modify(p) ==
  /\ obj[p] = "valid" /\ clock < MaxWrites
  /\ Write(Covers[p], [c \in Cells |-> p])
  /\ clock' = clock + 1 /\ stamp' = [stamp EXCEPT ![p] = clock + 1]
  /\ UNCHANGED <<ok, obj, kept, under, steady, inTurn>>

\* What lies over the cells of x now that did not when it was made.
Later(x) == {p \in Patch : stamp[p] # 0 /\ Covers[p] \cap Covers[x] # {} /\ <<p, stamp[p]>> \notin under[x]}

\* Restore is in turn when what x was made over is still there, and what came over
\* it since lies within x.
Restore(x) ==
  /\ obj[x] = "valid"
  /\ Write(Covers[x], kept[x])
  /\ stamp' = [p \in Patch |-> IF p \in Later(x) THEN 0 ELSE stamp[p]]
  /\ inTurn' = (inTurn /\ under[x] \subseteq Layers(Covers[x])
                       /\ \A p \in Later(x) : Covers[p] \subseteq Covers[x])
  /\ UNCHANGED <<ok, obj, kept, clock, under, steady>>

\* Operations on an object that is not valid return false.
NotValid(x) == obj[x] = "invalid" /\ UNCHANGED patchVars

\* Everybody else touches but so many cells.
Others(c) == c \notin steady \/ Cardinality(Cells \ steady) < MaxLost

\* writeMem and writeMemStr, and the target itself.
Overwrite(c) ==
  /\ c \in ok /\ Others(c)
  /\ Write({c}, [d \in Cells |-> "other"])
  /\ steady' = steady \ {c}
  /\ UNCHANGED <<ok, obj, kept, stamp, clock, under, inTurn>>

\* munmap, and something else mapped there.
Remap(c) ==
  /\ Others(c)
  /\ ok' = IF c \in ok THEN ok \ {c} ELSE ok \cup {c}
  /\ mem' = [mem EXCEPT ![c] = "other"]
  /\ steady' = steady \ {c}
  /\ UNCHANGED <<obj, kept, stamp, clock, under, inTurn>>

PatchNext ==
  \/ \E x \in Objects : Create(x) \/ CreateInvalid(x) \/ Restore(x) \/ NotValid(x)
  \/ \E p \in Patch : Modify(p)
  \/ \E c \in Cells : Overwrite(c) \/ Remap(c)

PatchSpec == PatchInit /\ [][PatchNext]_patchVars

-----------------------------------------------------------------------------

\* The patch that was applied last of those over a cell, by their stamps.
IsTop(p, c, stamps) ==
  /\ stamps[p] # 0 /\ c \in Covers[p]
  /\ \A q \in Patch : stamps[q] # 0 /\ c \in Covers[q] => stamps[q] <= stamps[p]

\* A cell nobody else touched holds what the last patch over it wrote, and the
\* original if there is none, as long as restores were in turn: so patches restored
\* in any order in which no later one stays behind leave the code as it was, and a
\* backup does so for all that was patched within it.
LayersHold ==
  inTurn => \A c \in steady :
    /\ \A p \in Patch : IsTop(p, c, stamp) => mem[c] = p
    /\ (\A p \in Patch : c \in Covers[p] => stamp[p] = 0) => mem[c] = "orig"
=============================================================================
