--------------------------- MODULE ManagerProofs ----------------------------
(***************************************************************************)
(* Theorems about the memory manager and what it owns: patches and backups *)
(* for any memory; the manager for any number of initializations; the ELF  *)
(* scanner and the linker scanners for any process, whatever its dynamic   *)
(* linker does meanwhile.                                                  *)
(***************************************************************************)
EXTENDS KittyMgr, ElfSearch, SoInfo, FiniteSetTheorems, SequenceTheorems, NaturalsInduction, WellFoundedInduction, TLAPS

\* What was over c in the layers s: its topmost patch, or nothing.
TopOf(p, n, c, s) ==
  /\ <<p, n>> \in s /\ c \in Covers[p]
  /\ \A q \in Patch, k \in Nat : <<q, k>> \in s /\ c \in Covers[q] => k <= n
Bare(c, s) == \A q \in Patch, k \in Nat : <<q, k>> \in s => c \notin Covers[q]

\* An object kept what the layers it was made over show, on the cells that are
\* steady still.
KeptHold ==
  inTurn => \A x \in Objects : obj[x] = "valid" =>
    \A c \in steady \cap Covers[x] :
      /\ \A p \in Patch, n \in Nat : TopOf(p, n, c, under[x]) => kept[x][c] = p
      /\ Bare(c, under[x]) => kept[x][c] = "orig"

\* No two patches have the same stamp.
Stamps ==
  /\ \A p \in Patch : stamp[p] <= clock
  /\ \A p, q \in Patch : stamp[p] = stamp[q] /\ stamp[p] # 0 => p = q

IInv == PatchTypeOK /\ Stamps /\ KeptHold /\ LayersHold

-----------------------------------------------------------------------------
LEMMA CoverTypes == \A x \in Objects : Covers[x] \subseteq Cells
BY ObjectsAssumption

LEMMA LayersTyped ==
  ASSUME PatchTypeOK, NEW cells
  PROVE  Layers(cells) \in SUBSET (Patch \X Nat)
BY DEF Layers, PatchTypeOK

LEMMA InLayers ==
  ASSUME PatchTypeOK, NEW cells, NEW p \in Patch, NEW n \in Nat
  PROVE  <<p, n>> \in Layers(cells) <=> n = stamp[p] /\ n # 0 /\ Covers[p] \cap cells # {}
BY DEF Layers, PatchTypeOK

\* For a cell among those given, the top by stamps is the top of the layers.
LEMMA TopIs ==
  ASSUME PatchTypeOK, NEW cells, NEW c \in cells
  PROVE  /\ \A p \in Patch : IsTop(p, c, stamp) => TopOf(p, stamp[p], c, Layers(cells))
         /\ \A p \in Patch, n \in Nat : TopOf(p, n, c, Layers(cells)) => IsTop(p, c, stamp)
         /\ Bare(c, Layers(cells)) <=> \A p \in Patch : c \in Covers[p] => stamp[p] = 0
<1>1. \A p \in Patch, n \in Nat : c \in Covers[p] =>
        (<<p, n>> \in Layers(cells) <=> n = stamp[p] /\ n # 0)
  BY InLayers
<1>2. \A p \in Patch : stamp[p] \in Nat
  BY DEF PatchTypeOK
<1>3. ASSUME NEW p \in Patch, IsTop(p, c, stamp) PROVE TopOf(p, stamp[p], c, Layers(cells))
  BY <1>1, <1>2, <1>3 DEF IsTop, TopOf
<1>4. ASSUME NEW p \in Patch, NEW n \in Nat, TopOf(p, n, c, Layers(cells)) PROVE IsTop(p, c, stamp)
  BY <1>1, <1>2, <1>4 DEF IsTop, TopOf
<1>5. Bare(c, Layers(cells)) <=> \A p \in Patch : c \in Covers[p] => stamp[p] = 0
  BY <1>1, <1>2 DEF Bare
<1> QED BY <1>3, <1>4, <1>5

\* Types of a write, and that it changes the mapped cells given and no others.
LEMMA WriteIs ==
  ASSUME PatchTypeOK, NEW cells \in SUBSET Cells, NEW value \in [Cells -> Values],
         Write(cells, value)
  PROVE  /\ mem' \in [Cells -> Values]
         /\ \A c \in cells \cap ok : mem'[c] = value[c]
         /\ \A c \in Cells \ cells : mem'[c] = mem[c]
BY DEF Write, PatchTypeOK

LEMMA InitInv == PatchInit => IInv
<1> SUFFICES ASSUME PatchInit PROVE IInv
  OBVIOUS
<1>1. PatchTypeOK
  BY DEF PatchInit, PatchTypeOK, Values
<1>2. Stamps
  BY DEF PatchInit, Stamps
<1>3. KeptHold
  BY DEF PatchInit, KeptHold
<1>4. LayersHold
  BY DEF PatchInit, LayersHold, IsTop
<1> QED BY <1>1, <1>2, <1>3, <1>4 DEF IInv

-----------------------------------------------------------------------------
(* One lemma for each operation.                                           *)

LEMMA CreateStep ==
  ASSUME IInv, NEW x \in Objects, Create(x)
  PROVE  IInv'
<1> USE DEF IInv, Create
<1>1. ReadInto(Covers[x]) \in [Cells -> Values]
  BY DEF ReadInto, PatchTypeOK, Values
<1>2. Layers(Covers[x]) \in SUBSET (Patch \X Nat)
  BY LayersTyped
<1>3. PatchTypeOK'
  BY <1>1, <1>2 DEF PatchTypeOK
<1>4. Stamps'
  BY DEF Stamps
<1>5. LayersHold'
  BY DEF LayersHold, IsTop
<1>6. KeptHold'
  <2> SUFFICES ASSUME inTurn, NEW y \in Objects, obj'[y] = "valid", NEW c \in steady \cap Covers[y]
               PROVE  /\ \A p \in Patch, n \in Nat : TopOf(p, n, c, under'[y]) => kept'[y][c] = p
                      /\ Bare(c, under'[y]) => kept'[y][c] = "orig"
    BY DEF KeptHold, TopOf, Bare
  <2>1. CASE y # x
    <3>1. obj[y] = "valid" /\ under'[y] = under[y] /\ kept'[y] = kept[y]
      BY <2>1 DEF PatchTypeOK
    <3> QED BY <3>1 DEF KeptHold
  <2>2. CASE y = x
    <3>1. under'[x] = Layers(Covers[x]) /\ kept'[x] = ReadInto(Covers[x])
      BY DEF PatchTypeOK
    <3>2. kept'[x][c] = mem[c]
      BY <2>2, <3>1, CoverTypes DEF ReadInto, PatchTypeOK
    <3>3. \A p \in Patch : IsTop(p, c, stamp) => mem[c] = p
      BY DEF LayersHold
    <3>4. (\A p \in Patch : c \in Covers[p] => stamp[p] = 0) => mem[c] = "orig"
      BY DEF LayersHold
    <3> QED BY <2>2, <3>1, <3>2, <3>3, <3>4, TopIs
  <2> QED BY <2>1, <2>2
<1> QED BY <1>3, <1>4, <1>5, <1>6

\* An object that is not valid keeps nothing that matters.
LEMMA CreateInvalidStep ==
  ASSUME IInv, NEW x \in Objects, CreateInvalid(x)
  PROVE  IInv'
<1> USE DEF IInv, CreateInvalid, layers
<1>1. PatchTypeOK'
  BY DEF PatchTypeOK
<1>2. Stamps'
  BY DEF Stamps
<1>3. LayersHold'
  BY DEF LayersHold, IsTop
<1>4. \A y \in Objects : obj'[y] = "valid" => obj[y] = "valid"
  BY DEF PatchTypeOK
<1>5. KeptHold'
  BY <1>4 DEF KeptHold, TopOf, Bare
<1> QED BY <1>1, <1>2, <1>3, <1>5

\* A patch that is applied has the highest stamp, and its cells hold it.
LEMMA ModifyStep ==
  ASSUME IInv, NEW p \in Patch, Modify(p)
  PROVE  IInv'
<1> USE DEF IInv, Modify
<1>1. p \in Objects /\ Covers[p] \in SUBSET Cells
  BY CoverTypes DEF Objects
<1>2. [c \in Cells |-> p] \in [Cells -> Values]
  BY DEF Values
<1>3. /\ mem' \in [Cells -> Values]
      /\ \A c \in Covers[p] \cap ok : mem'[c] = p
      /\ \A c \in Cells \ Covers[p] : mem'[c] = mem[c]
  BY <1>1, <1>2, WriteIs DEF PatchTypeOK
<1>4. PatchTypeOK'
  BY <1>3 DEF PatchTypeOK
<1>5. /\ stamp'[p] = clock + 1 /\ stamp'[p] # 0
      /\ \A q \in Patch : q # p => stamp'[q] = stamp[q] /\ stamp'[q] < stamp'[p]
  BY DEF PatchTypeOK, Stamps
<1>6. Stamps'
  BY <1>5, <1>4 DEF Stamps, PatchTypeOK
<1>7. KeptHold'
  BY DEF KeptHold, TopOf, Bare
<1>8. LayersHold'
  <2> SUFFICES ASSUME inTurn, NEW c \in steady
               PROVE  /\ \A q \in Patch : IsTop(q, c, stamp') => mem'[c] = q
                      /\ (\A q \in Patch : c \in Covers[q] => stamp'[q] = 0) => mem'[c] = "orig"
    BY DEF LayersHold, IsTop
  <2>1. c \in ok /\ c \in Cells
    BY DEF PatchTypeOK
  <2>2. CASE c \in Covers[p]
    <3>1. mem'[c] = p
      BY <1>3, <2>1, <2>2
    <3>2. ASSUME NEW q \in Patch, IsTop(q, c, stamp') PROVE q = p
      <4>1. stamp'[p] <= stamp'[q]
        BY <1>5, <2>2, <3>2 DEF IsTop
      <4>2. stamp'[p] \in Nat /\ stamp'[q] \in Nat
        BY <1>4 DEF PatchTypeOK
      <4> QED BY <1>5, <4>1, <4>2
    <3> QED BY <1>5, <2>2, <3>1, <3>2
  <2>3. CASE c \notin Covers[p]
    <3>1. mem'[c] = mem[c]
      BY <1>3, <2>1, <2>3
    <3>2. \A q \in Patch : c \in Covers[q] => stamp'[q] = stamp[q]
      BY <1>5, <2>3
    <3>3. \A q \in Patch : IsTop(q, c, stamp') => IsTop(q, c, stamp)
      BY <3>2 DEF IsTop
    <3> QED BY <3>1, <3>2, <3>3 DEF LayersHold
  <2> QED BY <2>2, <2>3
<1> QED BY <1>4, <1>6, <1>7, <1>8

\* A restore in turn leaves exactly the layers the object was made over.
LEMMA RestoreStep ==
  ASSUME IInv, NEW x \in Objects, Restore(x)
  PROVE  IInv'
<1> USE DEF IInv, Restore
<1>1. Covers[x] \in SUBSET Cells /\ kept[x] \in [Cells -> Values]
  BY CoverTypes DEF PatchTypeOK
<1>2. /\ mem' \in [Cells -> Values]
      /\ \A c \in Covers[x] \cap ok : mem'[c] = kept[x][c]
      /\ \A c \in Cells \ Covers[x] : mem'[c] = mem[c]
  BY <1>1, WriteIs
<1>3. \A p \in Patch : stamp'[p] = (IF p \in Later(x) THEN 0 ELSE stamp[p])
  OBVIOUS
<1>4. PatchTypeOK'
  BY <1>2, <1>3 DEF PatchTypeOK
<1>5. Stamps'
  BY <1>3 DEF Stamps, PatchTypeOK
<1>6. KeptHold'
  BY DEF KeptHold, TopOf, Bare
<1>7. LayersHold'
  <2> SUFFICES ASSUME inTurn', NEW c \in steady
               PROVE  /\ \A q \in Patch : IsTop(q, c, stamp') => mem'[c] = q
                      /\ (\A q \in Patch : c \in Covers[q] => stamp'[q] = 0) => mem'[c] = "orig"
    BY DEF LayersHold, IsTop
  <2>1. /\ inTurn /\ under[x] \subseteq Layers(Covers[x])
        /\ \A p \in Later(x) : Covers[p] \subseteq Covers[x]
    OBVIOUS
  <2>2. c \in ok /\ c \in Cells
    BY DEF PatchTypeOK
  <2>3. CASE c \notin Covers[x]
    <3>1. mem'[c] = mem[c]
      BY <1>2, <2>2, <2>3
    <3>2. \A q \in Patch : c \in Covers[q] => stamp'[q] = stamp[q]
      BY <1>3, <2>1, <2>3
    <3>3. \A q \in Patch : IsTop(q, c, stamp') => IsTop(q, c, stamp)
      BY <3>2 DEF IsTop
    <3> QED BY <2>1, <3>1, <3>2, <3>3 DEF LayersHold
  <2>4. CASE c \in Covers[x]
    <3>1. mem'[c] = kept[x][c]
      BY <1>2, <2>2, <2>4
    <3>2. /\ \A p \in Patch, n \in Nat : TopOf(p, n, c, under[x]) => kept[x][c] = p
          /\ Bare(c, under[x]) => kept[x][c] = "orig"
      BY <2>1, <2>4 DEF KeptHold
    <3>3. \A q \in Patch, n \in Nat : c \in Covers[q] =>
             (<<q, n>> \in under[x] <=> n = stamp'[q] /\ n # 0)
      <4> SUFFICES ASSUME NEW q \in Patch, NEW n \in Nat, c \in Covers[q]
                   PROVE  <<q, n>> \in under[x] <=> n = stamp'[q] /\ n # 0
        OBVIOUS
      <4>1. <<q, n>> \in under[x] => n = stamp[q] /\ n # 0
        BY <2>1, InLayers
      <4>2. stamp[q] \in Nat /\ Covers[q] \cap Covers[x] # {}
        BY <2>4 DEF PatchTypeOK
      <4>3. q \in Later(x) <=> stamp[q] # 0 /\ <<q, stamp[q]>> \notin under[x]
        BY <4>2 DEF Later
      <4> QED BY <1>3, <4>1, <4>2, <4>3
    <3>4. \A q \in Patch : stamp'[q] \in Nat
      BY <1>4 DEF PatchTypeOK
    <3>5. \A q \in Patch : IsTop(q, c, stamp') => TopOf(q, stamp'[q], c, under[x])
      BY <3>3, <3>4 DEF IsTop, TopOf
    <3>6. (\A q \in Patch : c \in Covers[q] => stamp'[q] = 0) => Bare(c, under[x])
      BY <3>3, <3>4 DEF Bare
    <3> QED BY <3>1, <3>2, <3>4, <3>5, <3>6
  <2> QED BY <2>3, <2>4
<1> QED BY <1>4, <1>5, <1>6, <1>7

\* What others write or map makes a cell unsteady.
LEMMA OthersStep ==
  ASSUME IInv, NEW c \in Cells, Overwrite(c) \/ Remap(c)
  PROVE  IInv'
<1> USE DEF IInv
<1>1. /\ mem' \in [Cells -> Values] /\ \A d \in Cells \ {c} : mem'[d] = mem[d]
      /\ steady' = steady \ {c} /\ ok' \in SUBSET Cells /\ steady' \subseteq ok'
      /\ UNCHANGED <<obj, kept, stamp, clock, under, inTurn>>
  <2>1. CASE Overwrite(c)
    <3>1. [d \in Cells |-> "other"] \in [Cells -> Values]
      BY DEF Values
    <3> QED BY <2>1, <3>1, WriteIs DEF Overwrite, PatchTypeOK
  <2>2. CASE Remap(c)
    BY <2>2 DEF Remap, PatchTypeOK, Values
  <2> QED BY <2>1, <2>2
<1>2. PatchTypeOK'
  BY <1>1 DEF PatchTypeOK
<1>3. Stamps'
  BY <1>1 DEF Stamps
<1>4. KeptHold'
  BY <1>1 DEF KeptHold, TopOf, Bare
<1>5. LayersHold'
  <2>1. \A d \in steady' : d \in steady /\ mem'[d] = mem[d]
    BY <1>1 DEF PatchTypeOK
  <2> QED BY <1>1, <2>1 DEF LayersHold, IsTop
<1> QED BY <1>2, <1>3, <1>4, <1>5

LEMMA StepInv == IInv /\ [PatchNext]_patchVars => IInv'
<1> SUFFICES ASSUME IInv, [PatchNext]_patchVars PROVE IInv'
  OBVIOUS
<1>1. ASSUME NEW x \in Objects, Create(x) \/ CreateInvalid(x) \/ Restore(x) PROVE IInv'
  BY <1>1, CreateStep, CreateInvalidStep, RestoreStep
<1>2. ASSUME NEW p \in Patch, Modify(p) PROVE IInv'
  BY <1>2, ModifyStep
<1>3. ASSUME NEW c \in Cells, Overwrite(c) \/ Remap(c) PROVE IInv'
  BY <1>3, OthersStep
<1>4. ASSUME UNCHANGED patchVars PROVE IInv'
  BY <1>4 DEF IInv, PatchTypeOK, Stamps, KeptHold, LayersHold, IsTop, TopOf, Bare, patchVars, layers
<1> QED BY <1>1, <1>2, <1>3, <1>4 DEF PatchNext, NotValid

-----------------------------------------------------------------------------
LEMMA Invariance == PatchSpec => []IInv
BY InitInv, StepInv, PTL DEF PatchSpec

\* Cells, kept code and stamps stay of their types.
THEOREM TypeCorrect == PatchSpec => []PatchTypeOK
<1>1. IInv => PatchTypeOK
  BY DEF IInv
<1> QED BY <1>1, Invariance, PTL

\* Whatever patches and backups there are, however their ranges overlap and in
\* whatever order they are made, applied and restored: as long as every restore is in
\* turn, a cell only they touched holds the last patch over it, or the original.
THEOREM LayersAreKept == PatchSpec => []LayersHold
<1>1. IInv => LayersHold
  BY DEF IInv
<1> QED BY <1>1, Invariance, PTL

-----------------------------------------------------------------------------
(* The manager.                                                            *)

OpRecords == [pid : Pids, kind : {"syscall", "io"}, live : BOOLEAN]

MgrTypeOK ==
  /\ init \in BOOLEAN /\ pid \in Nat /\ ops \in Seq(OpRecords) /\ inits \in Nat /\ patchReady \in BOOLEAN
  /\ memOp \in 0..Len(ops) /\ memOpPatch \in 0..Len(ops) /\ patchOp \in 0..Len(ops)
  /\ madeBy \in [Objects -> [op : Nat, inits : Nat]]

\* The operations of a manager that is set up are there, and are not those that its
\* patches have for themselves; these are there when the patches came up.
OpsHold ==
  /\ memOp # 0 => memOp # memOpPatch
  /\ init => memOp # 0 /\ Live(memOp) /\ ops[memOp].pid = pid /\ scanOp = memOp /\ tracePid = pid
  /\ patchReady => patchOp # 0 /\ Live(patchOp) /\ ops[patchOp].pid = pid /\ ops[patchOp].kind = "io"

\* What was made since the last initialization has the operations of now.
MadeHold ==
  \A x \in Objects :
    /\ madeBy[x].inits <= inits
    /\ obj[x] = "valid" /\ madeBy[x].inits = inits => madeBy[x].op = patchOp

MgrInv == MgrTypeOK /\ OpsHold /\ MadeHold

LEMMA FreedIs ==
  ASSUME NEW os \in Seq(OpRecords), NEW op \in 0..Len(os)
  PROVE  /\ Freed(os, op) \in Seq(OpRecords) /\ Len(Freed(os, op)) = Len(os)
         /\ \A i \in 1..Len(os) : i # op => Freed(os, op)[i] = os[i]
<1>1. CASE op = 0
  BY <1>1 DEF Freed
<1>2. CASE op # 0
  <2> DEFINE gone == [os[op] EXCEPT !.live = FALSE]
  <2>1. op \in 1..Len(os) /\ os[op] \in OpRecords
    BY <1>2
  <2>2. gone \in OpRecords
    BY <2>1 DEF OpRecords
  <2>3. Freed(os, op) = [os EXCEPT ![op] = gone]
    BY <1>2 DEF Freed
  <2> HIDE DEF gone
  <2> QED
    BY <2>1, <2>2, <2>3
<1> QED
  BY <1>1, <1>2

LEMMA AppendedIs ==
  ASSUME NEW os \in Seq(OpRecords), NEW p \in Pids, NEW k \in {"syscall", "io"}
  PROVE  /\ Append(os, Made(p, k)) \in Seq(OpRecords) /\ Len(Append(os, Made(p, k))) = Len(os) + 1
         /\ \A i \in 1..Len(os) : Append(os, Made(p, k))[i] = os[i]
         /\ Append(os, Made(p, k))[Len(os) + 1] = Made(p, k)
<1>1. Made(p, k) \in OpRecords
  BY DEF Made, OpRecords
<1> HIDE DEF Made
<1> QED
  BY <1>1

LEMMA MadeIs ==
  ASSUME NEW p, NEW k
  PROVE  Made(p, k).pid = p /\ Made(p, k).kind = k /\ Made(p, k).live
BY DEF Made

\* An initialization makes what was made before it older than the manager.
LEMMA OlderNow ==
  ASSUME MgrInv, inits' = inits + 1, UNCHANGED <<patchVars, madeBy>>
  PROVE  MadeHold' /\ madeBy' \in [Objects -> [op : Nat, inits : Nat]]
<1>1. \A x \in Objects : madeBy[x].inits \in Nat /\ madeBy[x].inits <= inits /\ inits \in Nat
  BY DEF MgrInv, MgrTypeOK, MadeHold
<1>2. \A x \in Objects : madeBy'[x].inits <= inits' /\ madeBy'[x].inits # inits'
  BY <1>1
<1> QED
  BY <1>2 DEF MadeHold, MgrInv, MgrTypeOK

LEMMA RefuseStep ==
  ASSUME MgrInv, NEW p \in Pids, NEW mode \in {"none", "syscall", "io"}, Refuse(p, mode),
         UNCHANGED <<patchVars, madeBy>>
  PROVE  MgrInv'
<1>1. MadeHold' /\ madeBy' \in [Objects -> [op : Nat, inits : Nat]]
  BY OlderNow DEF Refuse
<1>2. init' = FALSE /\ patchReady' = FALSE /\ pid' = p /\ inits' = inits + 1
      /\ UNCHANGED <<memOpPatch, patchOp>>
  BY DEF Refuse, IsUp
<1>3. ops' \in Seq(OpRecords) /\ Len(ops') = Len(ops) /\ memOp' \in {0, memOp}
  <2>1. CASE p = 0
    BY <2>1 DEF Refuse, MgrInv, MgrTypeOK
  <2>2. CASE p # 0
    BY <2>2, FreedIs DEF Refuse, MgrInv, MgrTypeOK
  <2> QED
    BY <2>1, <2>2
<1>4. MgrTypeOK'
  <2>1. memOp' \in 0..Len(ops') /\ memOpPatch' \in 0..Len(ops') /\ patchOp' \in 0..Len(ops')
    BY <1>2, <1>3 DEF MgrInv, MgrTypeOK
  <2>2. pid' \in Nat /\ inits' \in Nat
    BY <1>2, PidsAssumption DEF MgrInv, MgrTypeOK
  <2>3. init' \in BOOLEAN /\ patchReady' \in BOOLEAN
    BY <1>2
  <2> QED
    BY <1>1, <1>3, <2>1, <2>2, <2>3, Zenon DEF MgrTypeOK
<1>5. OpsHold'
  BY <1>2, <1>3, Zenon DEF MgrInv, OpsHold
<1> QED
  BY <1>1, <1>4, <1>5 DEF MgrInv

LEMMA FailStep ==
  ASSUME MgrInv, NEW p \in Pids, NEW mode \in {"none", "syscall", "io"}, Fail(p, mode),
         UNCHANGED <<patchVars, madeBy>>
  PROVE  MgrInv'
<1>1. MadeHold' /\ madeBy' \in [Objects -> [op : Nat, inits : Nat]]
  BY OlderNow DEF Fail
<1>2. init' = FALSE /\ patchReady' = FALSE /\ pid' = p /\ inits' = inits + 1
      /\ UNCHANGED <<memOpPatch, patchOp>> /\ mode \in {"syscall", "io"}
  BY DEF Fail, IsUp
<1>3. ops' = Append(Freed(ops, memOp), Made(p, mode)) /\ memOp' = Len(ops')
  BY DEF Fail
<1>4. Freed(ops, memOp) \in Seq(OpRecords) /\ Len(Freed(ops, memOp)) = Len(ops)
  BY FreedIs DEF MgrInv, MgrTypeOK
<1>5. ops' \in Seq(OpRecords) /\ Len(ops') = Len(ops) + 1
  BY <1>2, <1>3, <1>4, AppendedIs
<1>6. MgrTypeOK' /\ memOp' # memOpPatch'
  <2>1. /\ memOp' \in 0..Len(ops') /\ memOpPatch' \in 0..Len(ops') /\ patchOp' \in 0..Len(ops')
        /\ memOp' # memOpPatch'
    BY <1>2, <1>3, <1>5 DEF MgrInv, MgrTypeOK
  <2>2. pid' \in Nat /\ inits' \in Nat
    BY <1>2, PidsAssumption DEF MgrInv, MgrTypeOK
  <2>3. init' \in BOOLEAN /\ patchReady' \in BOOLEAN
    BY <1>2
  <2> QED
    BY <1>1, <1>5, <2>1, <2>2, <2>3, Zenon DEF MgrTypeOK
<1>7. OpsHold'
  BY <1>2, <1>6, Zenon DEF OpsHold
<1> QED
  BY <1>1, <1>6, <1>7 DEF MgrInv

LEMMA SucceedStep ==
  ASSUME MgrInv, NEW p \in Pids, NEW mode \in {"none", "syscall", "io"}, NEW initMemPatch \in BOOLEAN,
         NEW works \in BOOLEAN, Succeed(p, mode, initMemPatch, works), UNCHANGED <<patchVars, madeBy>>
  PROVE  MgrInv'
<1> DEFINE first == Append(Freed(ops, memOp), Made(p, mode))
           second == Append(Freed(first, memOpPatch), Made(p, "io"))
           own == initMemPatch /\ mode = "syscall"
<1>1. MadeHold' /\ madeBy' \in [Objects -> [op : Nat, inits : Nat]]
  BY OlderNow DEF Succeed
<1>2. /\ init' = TRUE /\ pid' = p /\ inits' = inits + 1 /\ mode \in {"syscall", "io"} /\ tracePid' = p
      /\ memOp' = Len(first) /\ scanOp' = memOp' /\ p # 0
  BY DEF Succeed, IsUp
<1>3. /\ first \in Seq(OpRecords) /\ Len(first) = Len(ops) + 1 /\ first[Len(first)] = Made(p, mode)
      /\ memOpPatch \in 0..Len(ops) /\ patchOp \in 0..Len(ops) /\ Len(ops) \in Nat
  BY <1>2, FreedIs, AppendedIs DEF MgrInv, MgrTypeOK
<1>4. /\ second \in Seq(OpRecords) /\ Len(second) = Len(first) + 1 /\ second[Len(second)] = Made(p, "io")
      /\ second[Len(first)] = Made(p, mode)
  <2> HIDE DEF first
  <2>1. /\ Freed(first, memOpPatch) \in Seq(OpRecords) /\ Len(Freed(first, memOpPatch)) = Len(first)
        /\ Freed(first, memOpPatch)[Len(first)] = first[Len(first)]
    <3>1. memOpPatch \in 0..Len(first) /\ Len(first) \in 1..Len(first) /\ Len(first) # memOpPatch
      BY <1>3
    <3> QED
      BY <1>3, <3>1, FreedIs
  <2> QED
    BY <1>3, <2>1, AppendedIs
<1>5. own => ops' = second /\ memOpPatch' = Len(second)
  BY Zenon DEF Succeed
<1>6. ~own => ops' = first /\ memOpPatch' = memOpPatch
  BY Zenon DEF Succeed
<1>7. /\ patchReady' = (initMemPatch /\ (own => works))
      /\ patchOp' = IF ~patchReady' THEN patchOp ELSE IF own THEN memOpPatch' ELSE memOp'
  BY Zenon DEF Succeed
<1>8. patchReady' \in BOOLEAN /\ own \in BOOLEAN
  BY <1>7
<1>9. patchReady' => patchOp' = IF own THEN memOpPatch' ELSE memOp'
  BY <1>7, Zenon
<1>10. ~patchReady' => patchOp' = patchOp
  BY <1>7, Zenon
<1>11. patchReady' => own \/ mode = "io"
  BY <1>2, <1>7, Zenon
<1> HIDE DEF first, second, own
<1>12. ops' \in Seq(OpRecords) /\ memOp' \in 1..Len(ops') /\ memOpPatch' \in 0..Len(ops') /\ memOp' # memOpPatch'
       /\ ops'[memOp'] = Made(p, mode) /\ Len(ops') >= Len(ops)
       /\ (own => memOpPatch' # 0 /\ ops'[memOpPatch'] = Made(p, "io"))
  <2>1. CASE own
    BY <1>2, <1>3, <1>4, <1>5, <2>1
  <2>2. CASE ~own
    BY <1>2, <1>3, <1>6, <2>2
  <2> QED
    BY <1>8, <2>1, <2>2
<1>13. patchReady' => patchOp' # 0 /\ ops'[patchOp'] = Made(p, "io")
  BY <1>8, <1>9, <1>11, <1>12
<1>14. patchOp' \in 0..Len(ops')
  <2>1. CASE patchReady'
    BY <1>8, <1>9, <1>12, <2>1
  <2>2. CASE ~patchReady'
    BY <1>3, <1>10, <1>12, <2>2
  <2> QED
    BY <2>1, <2>2
<1>15. MgrTypeOK'
  BY <1>1, <1>2, <1>8, <1>12, <1>14, PidsAssumption DEF MgrInv, MgrTypeOK
<1>16. OpsHold'
  <2>1. (memOp # 0 /\ Live(memOp) /\ ops[memOp].pid = pid)'
    <3>1. memOp' # 0 /\ ops'[memOp'] = Made(p, mode) /\ pid' = p
      BY <1>2, <1>12
    <3>2. Made(p, mode).live /\ Made(p, mode).pid = p
      BY MadeIs
    <3> QED
      BY <3>1, <3>2, Zenon DEF Live
  <2>2. ASSUME patchReady' PROVE (patchOp # 0 /\ Live(patchOp) /\ ops[patchOp].pid = pid /\ ops[patchOp].kind = "io")'
    BY <1>2, <1>13, <2>2, MadeIs DEF Live
  <2> QED
    BY <1>2, <1>12, <2>1, <2>2, Zenon DEF OpsHold
<1> QED
  BY <1>1, <1>15, <1>16 DEF MgrInv

LEMMA MgrInductive == MgrInv /\ [MgrNext]_vars => MgrInv'
<1> SUFFICES ASSUME MgrInv, [MgrNext]_vars PROVE MgrInv'
  OBVIOUS
<1>1. CASE Initialize
  <2>1. UNCHANGED <<patchVars, madeBy>>
    BY <1>1 DEF Initialize
  <2> QED
    BY <1>1, <2>1, RefuseStep, FailStep, SucceedStep DEF Initialize
<1>2. CASE Patching
  <2>1. UNCHANGED mgr
    BY <1>2 DEF Patching
  <2>2. MadeHold' /\ madeBy' \in [Objects -> [op : Nat, inits : Nat]]
    <3>1. ASSUME NEW x \in Objects, Make(x) PROVE <2>2
      <4>1. madeBy' = [madeBy EXCEPT ![x] = [op |-> patchOp, inits |-> inits]]
        BY <3>1 DEF Make
      <4>3. \E state \in {"valid", "invalid"} : obj' = [obj EXCEPT ![x] = state]
        BY <3>1 DEF Make, Create, CreateInvalid
      <4>2. inits \in Nat /\ patchOp \in Nat
        BY DEF MgrInv, MgrTypeOK
      <4> QED
        BY <2>1, <4>1, <4>2, <4>3 DEF MgrInv, MgrTypeOK, MadeHold, mgr
    <3>2. CASE UNCHANGED <<obj, madeBy>>
      BY <2>1, <3>2 DEF MgrInv, MgrTypeOK, MadeHold, mgr
    <3>3. ASSUME NEW x \in Objects, Use(x) PROVE UNCHANGED <<obj, madeBy>>
      BY <3>3 DEF Use, Restore, NotValid, Modify, patchVars
    <3>4. ASSUME NEW c \in Cells, Overwrite(c), UNCHANGED madeBy PROVE UNCHANGED <<obj, madeBy>>
      BY <3>4 DEF Overwrite
    <3> QED
      BY <1>2, <3>1, <3>2, <3>3, <3>4 DEF Patching
  <2> QED
    BY <2>1, <2>2 DEF MgrInv, MgrTypeOK, OpsHold, Live, mgr
<1>3. CASE UNCHANGED <<mgr, madeBy, obj>>
  BY <1>3 DEF MgrInv, MgrTypeOK, OpsHold, MadeHold, Live, mgr
<1>4. Disturb => UNCHANGED <<mgr, madeBy, obj>>
  BY DEF Disturb, Remap
<1>5. Dumping \/ UNCHANGED vars => UNCHANGED <<mgr, madeBy, obj>>
  BY DEF Dumping, vars, patchVars
<1> QED
  BY <1>1, <1>2, <1>3, <1>4, <1>5 DEF MgrNext

LEMMA MgrInitially == PatchInit /\ MgrInit => MgrInv
<1> SUFFICES ASSUME PatchInit, MgrInit PROVE MgrInv
  OBVIOUS
<1>1. MgrTypeOK
  <2>1. ops \in Seq(OpRecords) /\ Len(ops) = 0
    BY DEF MgrInit
  <2>2. madeBy \in [Objects -> [op : Nat, inits : Nat]]
    BY DEF MgrInit
  <2>3. init \in BOOLEAN /\ patchReady \in BOOLEAN
    BY DEF MgrInit
  <2>4. pid \in Nat /\ inits \in Nat /\ memOp = 0 /\ memOpPatch = 0 /\ patchOp = 0 /\ 0 \in 0..0
    BY DEF MgrInit
  <2> QED
    BY <2>1, <2>2, <2>3, <2>4, Zenon DEF MgrTypeOK
<1> QED
  BY <1>1 DEF PatchInit, MgrInit, MgrInv, OpsHold, MadeHold

\* However often the manager is initialized, for whatever processes, with patches or
\* without and whichever operations do not come up: when it calls itself valid, what
\* it works with is there and belongs to the process it was last given.
THEOREM ManagerIsUsable == MgrSpec => []Usable
<1>1. MgrInv => Usable
  <2> SUFFICES ASSUME MgrInv PROVE Usable
    OBVIOUS
  <2>1. ASSUME NEW x \in Objects, obj[x] = "valid" /\ madeBy[x].inits = inits /\ patchReady PROVE Live(madeBy[x].op)
    BY <2>1 DEF MgrInv, OpsHold, MadeHold
  <2>2. ASSUME isMemValid
        PROVE  /\ Live(memOp) /\ ops[memOp].pid = pid /\ scanOp = memOp /\ tracePid = pid
               /\ patchReady => Live(patchOp) /\ ops[patchOp].pid = pid /\ ops[patchOp].kind = "io"
    BY <2>2, Zenon DEF MgrInv, OpsHold, isMemValid
  <2> QED
    BY <2>1, <2>2, Zenon DEF Usable
<1> QED
  BY <1>1, MgrInitially, MgrInductive, PTL DEF MgrSpec

-----------------------------------------------------------------------------
(* The patches of the manager.                                             *)

LEMMA MgrSteps == [MgrNext]_vars => [PatchNext]_patchVars
<1> SUFFICES ASSUME [MgrNext]_vars PROVE PatchNext \/ UNCHANGED patchVars
  OBVIOUS
<1>1. ASSUME NEW x \in Objects, Make(x) PROVE PatchNext
  BY <1>1 DEF Make, PatchNext
<1>2. ASSUME NEW x \in Objects, Use(x) PROVE PatchNext
  BY <1>2 DEF Use, PatchNext
<1>3. ASSUME NEW c \in Cells, Overwrite(c) \/ Remap(c) PROVE PatchNext
  BY <1>3 DEF PatchNext
<1>4. Patching \/ Disturb => PatchNext
  BY <1>1, <1>2, <1>3 DEF Patching, Disturb
<1>5. Initialize \/ Dumping \/ UNCHANGED vars => UNCHANGED patchVars
  BY DEF Initialize, Dumping, vars
<1> QED
  BY <1>4, <1>5 DEF MgrNext

\* The patches of a manager are patches, whatever the manager does beside: what
\* LayersAreKept says of them holds of it.
THEOREM ManagerPatches == MgrSpec => PatchSpec
<1> QED
  BY MgrSteps, PTL DEF MgrSpec, PatchSpec

-----------------------------------------------------------------------------
(* The dump of a mapped file.                                              *)

\* The cells of the range are mapped from one file, and no more of it comes behind.
WholeFile ==
  /\ range[1] \in Nat /\ range[2] \in Nat
  /\ \A c \in range[1]..range[2] : c \in ok /\ PathOf[c] = PathOf[range[1]]
  /\ range[2] + 1 \in ok => ~SameFile(range[2] + 1, range[1])

\* All of it was read, and what is in the destination was.
AllRead(s) == \A i \in DOMAIN s : range[1] + i - 1 \in range[1]..range[2] /\ s[i] # "hole"

FileDump ==
  /\ phase # "idle" /\ kind = "file" /\ unmapped = FALSE =>
       /\ WholeFile
       /\ phase = "write" => memBuffer \in Seq(Values) /\ AllRead(memBuffer)
       /\ phase = "done" => AllRead(file)
  /\ phase = "idle" => kind = "none"
  /\ phase # "done" => file = <<>>
  /\ unmapped \in BOOLEAN

\* The least and the greatest of some cells.
LEMMA MinIs ==
  ASSUME NEW S \in SUBSET Nat, S # {}
  PROVE  Min(S) \in S /\ \A x \in S : Min(S) <= x
<1> DEFINE less == {pair \in Nat \X Nat : pair[1] < pair[2]}
<1>1. IsWellFoundedOn(less, Nat)
  BY NatLessThanWellFounded DEF OpToRel
<1> HIDE DEF less
<1>2. PICK x \in S : \A y \in S : ~(<<y, x>> \in less)
  BY <1>1, WFMin, Zenon
<1>3. ASSUME NEW y \in S PROVE x <= y
  <2>1. y < x => <<y, x>> \in less
    BY DEF less
  <2> QED
    BY <1>2, <2>1
<1> QED
  BY <1>3 DEF Min

LEMMA MaxIs ==
  ASSUME NEW S \in SUBSET Nat, IsFiniteSet(S), S # {}
  PROVE  Max(S) \in S /\ \A x \in S : x <= Max(S)
<1> DEFINE above(x) == {y \in S : x <= y}
           sizes == {Cardinality(above(x)) : x \in S}
<1>1. \A x \in S : above(x) \subseteq S /\ IsFiniteSet(above(x)) /\ Cardinality(above(x)) \in Nat
  BY FS_Subset, FS_CardinalityType
<1>2. sizes \in SUBSET Nat /\ sizes # {}
  BY <1>1
<1>3. Min(sizes) \in sizes /\ \A n \in sizes : Min(sizes) <= n
  BY <1>2, MinIs
<1>4. PICK x \in S : Cardinality(above(x)) = Min(sizes)
  BY <1>3
<1>5. ASSUME NEW y \in S PROVE y <= x
  <2> SUFFICES ASSUME x < y PROVE FALSE
    OBVIOUS
  <2>1. above(y) \subseteq above(x) /\ x \in above(x) /\ x \notin above(y)
    <3>1. \A z \in S : z \in Nat /\ (y <= z => x <= z)
      OBVIOUS
    <3>2. x <= x /\ ~(y <= x)
      OBVIOUS
    <3> QED
      BY <3>1, <3>2
  <2>2. Cardinality(above(y)) <= Cardinality(above(x)) /\ Cardinality(above(y)) # Cardinality(above(x))
    BY <1>1, <2>1, FS_Subset
  <2>3. Cardinality(above(x)) <= Cardinality(above(y))
    BY <1>3, <1>4
  <2> QED
    BY <1>1, <2>2, <2>3
<1> QED
  BY <1>5 DEF Max

\* What dumpMemFile takes for the file.
LEMMA FileRangeIs ==
  ASSUME PatchTypeOK, NEW q, getMaps(q) # {}, NEW r, r = FileRange(q)
  PROVE  /\ r[1] \in Nat /\ r[2] \in Nat
         /\ \A c \in r[1]..r[2] : c \in ok /\ PathOf[c] = PathOf[r[1]]
         /\ r[2] + 1 \in ok => ~SameFile(r[2] + 1, r[1])
<1> DEFINE seen == getMaps(q)
           first == Min(seen)
           whole(c) == \A d \in first..c : d \in seen /\ SameFile(d, first)
           run == {first} \cup {c \in seen : whole(c)}
<1>1. seen \subseteq ok /\ seen \in SUBSET Nat /\ IsFiniteSet(seen)
  BY CellsAssumption, FS_Subset DEF getMaps, PatchTypeOK
<1>2. \A c, d \in ok : PathOf[c] = PathOf[d] /\ d \in seen => c \in seen
  BY DEF getMaps
<1>3. first \in seen /\ first \in Nat
  BY <1>1, MinIs
<1>4. run \in SUBSET seen /\ run # {}
  BY <1>3
<1>5. IsFiniteSet(run) /\ run \in SUBSET Nat
  BY <1>1, <1>4, FS_Subset
<1>6. Max(run) \in run /\ \A c \in run : c <= Max(run)
  BY <1>4, <1>5, MaxIs
<1>7. r = <<first, Max(run)>>
  BY DEF FileRange
<1> HIDE DEF seen, first, run
<1>8. r[1] = first /\ r[2] = Max(run) /\ r[1] \in Nat /\ r[2] \in Nat
  <2>1. r[1] = first /\ r[2] = Max(run)
    BY <1>7
  <2>2. Max(run) \in Nat
    BY <1>5, <1>6
  <2> QED
    BY <1>3, <2>1, <2>2
<1>9. ASSUME NEW c \in r[1]..r[2] PROVE c \in ok /\ PathOf[c] = PathOf[r[1]]
  <2>1. CASE r[2] = first
    BY <1>1, <1>3, <1>8, <1>9, <2>1
  <2>2. CASE r[2] # first
    BY <1>1, <1>6, <1>8, <1>9, <2>2 DEF run, SameFile
  <2> QED
    BY <2>1, <2>2
<1>10. ASSUME r[2] + 1 \in ok, SameFile(r[2] + 1, r[1]) PROVE FALSE
  <2>1. r[2] + 1 \in seen /\ PathOf[first] # <<"anon">>
    BY <1>1, <1>2, <1>3, <1>8, <1>10 DEF SameFile
  <2>2. \A d \in first..r[2] : d \in seen /\ SameFile(d, first)
    <3>1. CASE r[2] = first
      BY <1>3, <1>8, <2>1, <3>1 DEF SameFile
    <3>2. CASE r[2] # first
      BY <1>6, <1>8, <3>2 DEF run
    <3> QED
      BY <3>1, <3>2
  <2>3. \A d \in first..(r[2] + 1) : d \in seen /\ SameFile(d, first)
    BY <1>3, <1>8, <1>10, <2>1, <2>2
  <2>4. r[2] + 1 \in run
    BY <2>1, <2>3 DEF run
  <2> QED
    BY <1>6, <1>8, <2>4
<1> QED
  BY <1>8, <1>9, <1>10

LEMMA ReadStep ==
  ASSUME PatchTypeOK, FileDump, DumpRead, UNCHANGED ok
  PROVE  FileDump'
<1>1. UNCHANGED <<kind, range, file, unmapped, ok>> /\ phase = "read" /\ phase' \in {"write", "done"}
  BY DEF DumpRead
<1>3. file = <<>> /\ file' = <<>>
  BY <1>1 DEF FileDump
<1>4. ASSUME kind = "file", unmapped = FALSE, phase' = "write" PROVE memBuffer' \in Seq(Values) /\ AllRead(memBuffer')
  <2> DEFINE cells == range[1]..range[2]
             n == Cardinality(cells)
  <2>1. memBuffer' = [i \in 1..n |-> LET c == range[1] + i - 1 IN IF c \in ok THEN mem[c] ELSE "hole"]
    BY <1>4 DEF DumpRead
  <2>2. WholeFile
    BY <1>1, <1>4 DEF FileDump
  <2>3. n \in Nat /\ \A i \in 1..n : range[1] + i - 1 \in cells
    <3>1. range[1] \in Nat /\ range[2] \in Nat
      BY <2>2 DEF WholeFile
    <3>2. n = IF range[1] > range[2] THEN 0 ELSE range[2] - range[1] + 1
      <4>1. range[1] \in Int /\ range[2] \in Int
        BY <3>1
      <4> QED
        BY <4>1, FS_Interval, Zenon
    <3> QED
      BY <3>1, <3>2
  <2> HIDE DEF n
  <2>4. \A i \in 1..n : memBuffer'[i] = mem[range[1] + i - 1] /\ mem[range[1] + i - 1] \in Values
    BY <2>1, <2>2, <2>3 DEF WholeFile, PatchTypeOK
  <2>5. "hole" \notin Values
    BY BufferAssumption DEF Values
  <2>6. memBuffer' \in [1..n -> Values]
    BY <2>1, <2>4
  <2> QED
    BY <2>1, <2>3, <2>4, <2>5, <2>6 DEF AllRead
<1>5. AllRead(file')
  BY <1>3 DEF AllRead
<1>6. kind = "file" /\ unmapped = FALSE => WholeFile'
  BY <1>1 DEF FileDump, WholeFile, SameFile
<1>7. AllRead(memBuffer') = AllRead(memBuffer)' /\ AllRead(file') = AllRead(file)'
  BY <1>1 DEF AllRead
<1> QED
  BY <1>1, <1>3, <1>4, <1>5, <1>6, <1>7 DEF FileDump

LEMMA WriteStep ==
  ASSUME FileDump, DumpWrite, UNCHANGED ok
  PROVE  FileDump'
<1>1. UNCHANGED <<kind, range, unmapped, ok>> /\ phase = "write" /\ phase' = "done" /\ file = <<>>
  BY DEF DumpWrite, FileDump
<1>2. ASSUME kind = "file", unmapped = FALSE PROVE AllRead(file')
  <2>1. CASE file' = file
    BY <1>1, <2>1 DEF AllRead
  <2>2. ASSUME NEW n \in 0..Len(memBuffer), file' = SubSeq(memBuffer, 1, n) PROVE AllRead(file')
    <3>1. memBuffer \in Seq(Values) /\ AllRead(memBuffer)
      BY <1>1, <1>2 DEF FileDump
    <3>2. Len(file') = n /\ DOMAIN file' = 1..n /\ \A i \in 1..n : file'[i] = memBuffer[i]
      BY <2>2, <3>1
    <3> QED
      BY <3>1, <3>2 DEF AllRead
  <2> QED
    BY <1>2, <2>1, <2>2 DEF DumpWrite
<1> QED
  BY <1>1, <1>2 DEF FileDump, WholeFile, AllRead, SameFile

LEMMA DumpInductive == PatchTypeOK /\ FileDump /\ [MgrNext]_vars => FileDump'
<1> SUFFICES ASSUME PatchTypeOK, FileDump, [MgrNext]_vars PROVE FileDump'
  OBVIOUS
<1>1. ASSUME UNCHANGED <<ok, dumping, unmapped>> PROVE FileDump'
  BY <1>1 DEF FileDump, WholeFile, AllRead, SameFile, dumping
<1>2. Initialize \/ Patching \/ UNCHANGED vars => UNCHANGED <<ok, dumping, unmapped>>
  <2>1. Initialize \/ UNCHANGED vars => UNCHANGED <<ok, dumping, unmapped>>
    BY DEF Initialize, vars, patchVars
  <2>2. ASSUME NEW x \in Objects, Make(x) \/ Use(x) PROVE UNCHANGED ok
    BY <2>2 DEF Make, Use, Create, CreateInvalid, Restore, Modify, NotValid, patchVars
  <2>3. ASSUME NEW c \in Cells, Overwrite(c) PROVE UNCHANGED ok
    BY <2>3 DEF Overwrite
  <2> QED
    BY <2>1, <2>2, <2>3 DEF Patching
<1>3. CASE Disturb
  BY <1>3 DEF Disturb, FileDump, dumping, WholeFile, AllRead, SameFile
<1>4. CASE DumpBegin /\ UNCHANGED patchVars
  <2>1. phase' = "read" /\ UNCHANGED <<memBuffer, file, unmapped, ok>> /\ file = <<>>
    BY <1>4 DEF DumpBegin, patchVars, FileDump
  <2>2. ASSUME kind' = "file" PROVE WholeFile'
    <3>1. PICK q : getMaps(q) # {} /\ range' = FileRange(q)
      BY <1>4, <2>2 DEF DumpBegin, DumpFile, DumpRange, DumpELF
    <3> QED
      BY <2>1, <3>1, FileRangeIs DEF WholeFile, SameFile
  <2> QED
    BY <2>1, <2>2 DEF FileDump
<1>5. CASE (DumpRead \/ DumpWrite) /\ UNCHANGED patchVars
  <2>1. UNCHANGED ok
    BY <1>5 DEF patchVars
  <2> QED
    BY <1>5, <2>1, ReadStep, WriteStep
<1>6. CASE DumpEnd
  BY <1>6 DEF DumpEnd, FileDump
<1> QED
  BY <1>1, <1>2, <1>3, <1>4, <1>5, <1>6 DEF MgrNext, Dumping

\* Whatever the target's pages are mapped from, and whoever patches meanwhile: a dump
\* of a mapped file that succeeds has the pages of that file only, has them all up to
\* the next gap or other file, and has every one as it was read.
THEOREM DumpsOneFile == MgrSpec => []DumpIsOneFile
<1>1. PatchInit /\ MgrInit => PatchTypeOK /\ FileDump
  <2>1. PatchInit /\ MgrInit => FileDump
    BY DEF MgrInit, FileDump
  <2> QED
    BY <2>1, InitInv DEF IInv
<1>2. FileDump => DumpIsOneFile
  <2> SUFFICES ASSUME FileDump, phase = "done", kind = "file", unmapped = FALSE
               PROVE  /\ \A i \in DOMAIN file : LET c == range[1] + i - 1
                                               IN  c \in ok /\ PathOf[c] = PathOf[range[1]] /\ file[i] # "hole"
                      /\ range[2] + 1 \in ok => ~SameFile(range[2] + 1, range[1])
    BY Zenon DEF DumpIsOneFile, FileDump
  <2> QED
    BY DEF FileDump, WholeFile, AllRead
<1> QED
  BY <1>1, <1>2, DumpInductive, ManagerPatches, TypeCorrect, PTL DEF MgrSpec

-----------------------------------------------------------------------------
(* ElfSearch: what the memory manager's elfScanner finds.                  *)

\* An image that is kept was read at a base and under a name that a map of that
\* look at the process had.
MappedIn(ms, elf) == \E m \in ms : m.start = elf.base /\ m.path = elf.path

\* What the manager keeps is keyed by where it was read; what a call collects
\* is an image that this call's maps show.
SearchInv ==
  /\ \A s \in Slots : cached[s] # Invalid => cached[s].base = s
  /\ elfs \in Seq({elfs[i] : i \in DOMAIN elfs})
  /\ busy => todo \subseteq maps /\ \A i \in DOMAIN elfs : MappedIn(maps, elfs[i])
  /\ PathIsRight

\* An image is read at a base only where the maps have one that begins there, and
\* gets that map's name.
LEMMA ReadFromItsMap ==
  ASSUME NEW ms, NEW base, NEW img, IsValid(FromBase(ms, base, img))
  PROVE  FromBase(ms, base, img).base = base /\ MappedIn(ms, FromBase(ms, base, img))
<1> DEFINE elf == FromBase(ms, base, img)
<1>1. ~IsValid(Invalid)
  BY DEF IsValid, Invalid
<1>2. HeaderIsValid(ms, base, img)
  BY <1>1 DEF FromBase
<1>3. elf.base = base /\ elf.path = AddressMap(ms, base).path
  BY <1>2 DEF FromBase
<1>4. AddressMap(ms, base).r /\ AddressMap(ms, base).start = base
  BY <1>2 DEF HeaderIsValid
<1>5. AddressMap(ms, base) \in ms
  BY <1>4 DEF AddressMap, NoMap
<1> QED
  BY <1>3, <1>4, <1>5 DEF MappedIn

LEMMA LookKeeps ==
  ASSUME SearchInv, busy, NEW m \in todo, Look(m), UNCHANGED <<maps, busy, found>>, todo' = todo \ {m}
  PROVE  SearchInv'
<1> DEFINE elf == IF CacheHit(m) THEN cached[m.start] ELSE FromBase(maps, m.start, ImageAt(m.start))
<1>1. m \in maps
  BY DEF SearchInv
<1>2. ASSUME IsValid(elf) PROVE elf.base = m.start /\ MappedIn(maps, elf)
  <2>1. CASE CacheHit(m)
    BY <2>1, <1>1 DEF CacheHit, SearchInv, MappedIn
  <2>2. CASE ~CacheHit(m)
    BY <2>2, <1>2, ReadFromItsMap
  <2> QED
    BY <2>1, <2>2
<1>3. cached' = [s \in Slots |-> IF s # m.start THEN cached[s] ELSE IF IsValid(elf) THEN elf ELSE Invalid]
  BY DEF Look
<1>4. elfs' = elfs \/ (IsValid(elf) /\ elfs' = Append(elfs, elf))
  BY DEF Look
<1> HIDE DEF elf
<1>5. (\A s \in Slots : cached[s] # Invalid => cached[s].base = s)'
  BY <1>2, <1>3 DEF SearchInv
<1>6. elfs' \in Seq({elfs'[i] : i \in DOMAIN elfs'}) /\ \A i \in DOMAIN elfs' : MappedIn(maps, elfs'[i])
  <2>1. CASE elfs' = elfs
    BY <2>1 DEF SearchInv
  <2>2. CASE IsValid(elf) /\ elfs' = Append(elfs, elf)
    <3> DEFINE T == {elfs[i] : i \in DOMAIN elfs}
    <3>1. elfs \in Seq(T \cup {elf})
      BY DEF SearchInv
    <3>2. /\ elfs' \in Seq(T \cup {elf}) /\ DOMAIN elfs' = 1..(Len(elfs) + 1)
          /\ \A i \in DOMAIN elfs : i \in DOMAIN elfs' /\ elfs'[i] = elfs[i]
          /\ Len(elfs) + 1 \in DOMAIN elfs' /\ elfs'[Len(elfs) + 1] = elf
          /\ DOMAIN elfs = 1..Len(elfs)
      BY <3>1, <2>2
    <3>3. T \cup {elf} = {elfs'[i] : i \in DOMAIN elfs'}
      BY <3>2
    <3>4. ASSUME NEW i \in DOMAIN elfs' PROVE MappedIn(maps, elfs'[i])
      <4>1. i \in DOMAIN elfs \/ i = Len(elfs) + 1
        BY <3>1, <3>2
      <4> QED
        BY <4>1, <3>2, <1>2, <2>2 DEF SearchInv
    <3> QED
      BY <3>2, <3>3, <3>4
  <2> QED
    BY <1>4, <2>1, <2>2
<1>7. PathIsRight'
  BY DEF PathIsRight
<1> QED
  BY <1>5, <1>6, <1>7 DEF SearchInv, MappedIn

LEMMA FinishKeeps ==
  ASSUME SearchInv, Finish
  PROVE  SearchInv'
<1> DEFINE named == Named(elfs, query.name)
           dynamic == {i \in named : HasDynamics(elfs[i])}
           is == IF dynamic # {} THEN dynamic ELSE named
<1>1. /\ busy /\ ~busy' /\ todo' = todo /\ maps' = maps /\ query' = query /\ elfs' = <<>>
      /\ found' \in Choose(elfs, is)
      /\ cached' = [s \in Slots |-> IF Readable(maps, s) THEN cached[s] ELSE Invalid]
  BY DEF Finish
<1>2. (\A s \in Slots : cached[s] # Invalid => cached[s].base = s)'
  BY <1>1 DEF SearchInv
<1>3. is \subseteq named
  OBVIOUS
<1> HIDE DEF is
<1>4. found' = Invalid \/ \E i \in named : found' = elfs[i]
  BY <1>1, <1>3 DEF Choose
<1>5. PathIsRight'
  BY <1>1, <1>4 DEF PathIsRight, Named, SearchInv, MappedIn
<1>6. (elfs \in Seq({elfs[i] : i \in DOMAIN elfs}))'
  BY <1>1
<1>7. (busy => todo \subseteq maps /\ \A i \in DOMAIN elfs : MappedIn(maps, elfs[i]))'
  BY <1>1 DEF SearchInv
<1> QED
  BY <1>2, <1>5, <1>6, <1>7 DEF SearchInv

\* PathIsRight, for every process, every query and whatever the linker does between
\* two reads: an image found by its name, be it read now or kept from an earlier
\* call, was mapped at its base under that name when this call looked.
THEOREM FoundWhatWasAskedFor == SearchSpec => []PathIsRight
<1>1. TargetInit /\ SearchInit => SearchInv
  BY DEF SearchInit, SearchInv, PathIsRight
<1>2. SearchInv /\ [SearchNext \/ (TargetNext /\ Meanwhile)]_<<target, search>> => SearchInv'
  <2> SUFFICES ASSUME SearchInv, [SearchNext \/ (TargetNext /\ Meanwhile)]_<<target, search>>
               PROVE  SearchInv'
    OBVIOUS
  <2>1. CASE Construct
    BY <2>1 DEF Construct, SearchInv, PathIsRight
  <2>2. CASE Begin
    BY <2>2 DEF Begin, SearchInv, PathIsRight
  <2>3. CASE Visit
    <3> PICK m \in todo : /\ todo' = todo \ {m}
                          /\ IF PassedOver(m) THEN UNCHANGED <<cached, elfs, lastElfNode>> ELSE Look(m)
      BY <2>3 DEF Visit
    <3>1. busy /\ UNCHANGED <<prog, query, maps, busy, found>>
      BY <2>3 DEF Visit
    <3>2. CASE PassedOver(m)
      BY <3>1, <3>2 DEF SearchInv, PathIsRight, MappedIn
    <3>3. CASE ~PassedOver(m)
      BY <3>1, <3>3, LookKeeps
    <3> QED
      BY <3>2, <3>3
  <2>4. CASE Finish
    BY <2>4, FinishKeeps
  <2>5. CASE Meanwhile \/ UNCHANGED <<target, search>>
    BY <2>5 DEF Meanwhile, search, SearchInv, PathIsRight, MappedIn
  <2> QED
    BY <2>1, <2>2, <2>3, <2>4, <2>5 DEF SearchNext
<1>3. SearchInv => PathIsRight
  BY DEF SearchInv
<1> QED
  BY <1>1, <1>2, <1>3, PTL DEF SearchSpec

-----------------------------------------------------------------------------
(* The target: its linker's list, its images and its maps.                 *)

\* The linker's list as it stands in memory: no soinfo is on it twice, and each
\* leads to the one behind it.
Linked ==
  /\ list \in Seq(Nodes) /\ Len(list) >= 1 /\ list[1] = solist
  /\ \A i, j \in 1..Len(list) : list[i] = list[j] => i = j
  /\ \A i \in 1..Len(list) : words[list[i]].next = IF i = Len(list) THEN 0 ELSE list[i + 1]

Loaded == [file : DOMAIN Files, mapped : Nat, node : Nodes]

TargetOK ==
  /\ layout \in Layouts
  /\ image \in [Slots -> Loaded \cup {NoImage}]
  /\ \A s \in Slots : image[s].mapped <= Segs(image[s].file)
  /\ words \in [Nodes -> [WordNames -> Int]]
  /\ Linked

LEMMA SegsIs ==
  ASSUME NEW f \in DOMAIN Files
  PROVE  /\ Segs(f) \in Nat \ {0} /\ Loads(Files[f].phdrs) = 1..Segs(f)
         /\ Segs(f) <= Len(Files[f].phdrs)
<1>1. PICK n \in 1..Len(Files[f].phdrs) : Loads(Files[f].phdrs) = 1..n
  BY FilesAssumption
<1>2. Len(Files[f].phdrs) \in Nat
  BY FilesAssumption
<1>3. Cardinality(1..n) = n
  BY <1>2, FS_Interval
<1>4. f # "none"
  BY FilesAssumption
<1> QED
  BY <1>1, <1>2, <1>3, <1>4 DEF Segs

-----------------------------------------------------------------------------
(* Pages.                                                                  *)

LEMMA ModIs ==
  ASSUME NEW a \in Int
  PROVE  a % Page \in 0..(Page - 1) /\ \E q \in Int : a = Page * q + (a % Page)
<1>1. a % Page \in 0..(Page - 1)
  BY PageIsPositive
<1>2. a = Page * (a \div Page) + (a % Page) /\ (a \div Page) \in Int
  BY PageIsPositive
<1> QED
  BY <1>1, <1>2

LEMMA TimesPage ==
  ASSUME NEW n \in Int, n >= 1
  PROVE  Page * n >= Page
BY PageIsPositive

LEMMA ModUnique ==
  ASSUME NEW a \in Int, NEW q \in Int, NEW r \in 0..(Page - 1), a = Page * q + r
  PROVE  a % Page = r
<1>1. PICK p \in Int : a = Page * p + (a % Page)
  BY ModIs
<1>2. a % Page \in 0..(Page - 1)
  BY ModIs
<1>3. Page * (p - q) = r - (a % Page)
  BY PageIsPositive, <1>1, <1>2
<1>4. Page * (q - p) = (a % Page) - r
  BY PageIsPositive, <1>1, <1>2
<1>5. (p - q >= 1 => Page * (p - q) >= Page) /\ (q - p >= 1 => Page * (q - p) >= Page)
  BY TimesPage
<1>6. p = q
  BY PageIsPositive, <1>2, <1>3, <1>4, <1>5
<1> QED
  BY PageIsPositive, <1>1, <1>2, <1>6

\* Sums and differences of page boundaries are page boundaries, and no two of them
\* are less than a page apart.
LEMMA Boundaries ==
  ASSUME NEW a \in Int, NEW b \in Int, a % Page = 0, b % Page = 0
  PROVE  /\ (a + b) % Page = 0 /\ (a - b) % Page = 0
         /\ a < b + Page => a <= b
<1>1. PICK p \in Int : a = Page * p + (a % Page)
  BY ModIs
<1>2. PICK q \in Int : b = Page * q + (b % Page)
  BY ModIs
<1>3. Page \in Nat \ {0} /\ 0 \in 0..(Page - 1)
  BY PageIsPositive
<1>4. a + b = Page * (p + q) + 0 /\ a - b = Page * (p - q) + 0 /\ p + q \in Int /\ p - q \in Int
  BY <1>1, <1>2, <1>3
<1>5. (a + b) % Page = 0
  BY <1>3, <1>4, ModUnique
<1>6. (a - b) % Page = 0
  BY <1>3, <1>4, ModUnique
<1>7. a < b + Page => a <= b
  <2> SUFFICES ASSUME a > b PROVE a >= b + Page
    BY <1>3
  <2>1. p - q >= 1
    <3>1. PICK n \in Int : n = p - q /\ a - b = Page * n
      BY <1>3, <1>4
    <3>2. n <= 0 => Page * n <= 0
      BY <1>3
    <3> QED
      BY <3>1, <3>2
  <2> QED
    BY <2>1, <1>3, <1>4, TimesPage
<1> QED
  BY <1>5, <1>6, <1>7

LEMMA PageStart ==
  ASSUME NEW a \in Nat
  PROVE  /\ KT_PAGE_START(a) \in Nat /\ KT_PAGE_START(a) <= a /\ a - KT_PAGE_START(a) < Page
         /\ KT_PAGE_START(a) % Page = 0
<1>1. KT_PAGE_START(a) \in Nat /\ KT_PAGE_START(a) <= a /\ a - KT_PAGE_START(a) < Page
  BY PageIsPositive DEF KT_PAGE_START
<1>2. PICK q \in Int : a = Page * q + (a % Page)
  BY ModIs
<1>3. KT_PAGE_START(a) = Page * q + 0
  BY <1>2, PageIsPositive DEF KT_PAGE_START
<1> QED
  BY <1>1, <1>3, ModUnique, PageIsPositive

LEMMA PageEnd ==
  ASSUME NEW a \in Nat
  PROVE  /\ KT_PAGE_END(a) \in Nat /\ KT_PAGE_END(a) >= a /\ KT_PAGE_END(a) - a < Page
         /\ KT_PAGE_END(a) % Page = 0
         /\ \A b \in Nat : a <= b /\ b % Page = 0 => KT_PAGE_END(a) <= b
<1>1. a + Page - 1 \in Nat /\ Page \in Nat \ {0}
  BY PageIsPositive
<1>2. /\ KT_PAGE_START(a + Page - 1) \in Nat /\ (a + Page - 1) - KT_PAGE_START(a + Page - 1) < Page
      /\ KT_PAGE_START(a + Page - 1) % Page = 0 /\ KT_PAGE_START(a + Page - 1) <= a + Page - 1
  BY <1>1, PageStart
<1>3. /\ KT_PAGE_END(a) \in Nat /\ KT_PAGE_END(a) >= a /\ KT_PAGE_END(a) - a < Page
      /\ KT_PAGE_END(a) % Page = 0
  BY <1>1, <1>2 DEF KT_PAGE_END
<1>4. ASSUME NEW b \in Nat, a <= b, b % Page = 0 PROVE KT_PAGE_END(a) <= b
  BY <1>1, <1>3, <1>4, Boundaries
<1> QED
  BY <1>3, <1>4

\* Moving by whole pages moves the page an address is in.
LEMMA PageMoved ==
  ASSUME NEW d \in Int, NEW a \in Nat, d % Page = 0, d + KT_PAGE_START(a) \in Nat
  PROVE  KT_PAGE_START(d + a) = d + KT_PAGE_START(a)
<1>1. /\ KT_PAGE_START(a) \in Nat /\ KT_PAGE_START(a) <= a /\ a - KT_PAGE_START(a) < Page
      /\ KT_PAGE_START(a) % Page = 0 /\ Page \in Nat \ {0}
  BY PageStart, PageIsPositive
<1>2. d + a \in Nat
  BY <1>1
<1>3. /\ KT_PAGE_START(d + a) \in Nat /\ KT_PAGE_START(d + a) <= d + a
      /\ (d + a) - KT_PAGE_START(d + a) < Page /\ KT_PAGE_START(d + a) % Page = 0
  BY <1>2, PageStart
<1>4. (d + KT_PAGE_START(a)) % Page = 0
  BY <1>1, Boundaries
<1>5. KT_PAGE_START(d + a) <= d + KT_PAGE_START(a)
  BY <1>1, <1>3, <1>4, Boundaries
<1>6. d + KT_PAGE_START(a) <= KT_PAGE_START(d + a)
  BY <1>1, <1>3, <1>4, Boundaries
<1> QED
  BY <1>1, <1>3, <1>5, <1>6

LEMMA PageEndMoved ==
  ASSUME NEW d \in Int, NEW a \in Nat, d % Page = 0, d + KT_PAGE_START(a) \in Nat
  PROVE  KT_PAGE_END(d + a) = d + KT_PAGE_END(a)
<1>1. /\ KT_PAGE_START(a) \in Nat /\ KT_PAGE_START(a) <= a /\ Page \in Nat \ {0}
  BY PageStart, PageIsPositive
<1>2. a + Page - 1 \in Nat /\ d + a \in Nat /\ d + (a + Page - 1) = (d + a) + Page - 1
  BY <1>1
<1>3. /\ KT_PAGE_START(a + Page - 1) \in Nat
      /\ KT_PAGE_START(a) <= KT_PAGE_START(a + Page - 1)
  <2>1. /\ KT_PAGE_START(a + Page - 1) % Page = 0 /\ KT_PAGE_START(a) % Page = 0
        /\ KT_PAGE_START(a + Page - 1) \in Nat
        /\ (a + Page - 1) - KT_PAGE_START(a + Page - 1) < Page
    BY <1>2, PageStart
  <2>2. KT_PAGE_START(a) < KT_PAGE_START(a + Page - 1) + Page
    BY <1>1, <2>1
  <2> QED
    BY <1>1, <2>1, <2>2, Boundaries
<1>4. d + KT_PAGE_START(a + Page - 1) \in Nat
  BY <1>1, <1>3
<1>5. KT_PAGE_START(d + (a + Page - 1)) = d + KT_PAGE_START(a + Page - 1)
  BY <1>2, <1>4, PageMoved
<1> QED
  BY <1>2, <1>5 DEF KT_PAGE_END

-----------------------------------------------------------------------------
(* What a file takes of the address space.                                 *)

LEMMA HeadersAre ==
  ASSUME NEW f \in DOMAIN Files, NEW i \in 1..Segs(f)
  PROVE  /\ i \in DOMAIN Files[f].phdrs /\ i \in Nat
         /\ Files[f].phdrs[i].vaddr \in Nat /\ Files[f].phdrs[i].memsz \in Nat \ {0}
         /\ \A j \in 1..Segs(f) : i < j =>
              Files[f].phdrs[i].vaddr + Files[f].phdrs[i].memsz <= KT_PAGE_START(Files[f].phdrs[j].vaddr)
<1> DEFINE Header == [type : {"LOAD", "DYNAMIC"}, vaddr : Nat, memsz : Nat \ {0}, filesz : Nat, w : BOOLEAN]
           P == Files[f].phdrs
<1>1. P \in Seq(Header) /\ Spaced(Files[f].phdrs)
  BY FilesAssumption
<1>2. Loads(Files[f].phdrs) = 1..Segs(f) /\ Segs(f) \in Nat /\ Segs(f) <= Len(Files[f].phdrs)
  BY SegsIs
<1>3. i \in DOMAIN Files[f].phdrs /\ i \in Nat
  BY <1>1, <1>2
<1>4. Files[f].phdrs[i] \in Header
  <2>1. i \in 1..Len(P)
    BY <1>1, <1>2
  <2> HIDE DEF Header, P
  <2>2. P[i] \in Header
    BY <1>1, <2>1
  <2> QED
    BY <2>2 DEF P
<1> QED
  BY <1>1, <1>2, <1>3, <1>4 DEF Spaced

\* From the page of the first segment to the end of the page of the last.
LEMMA SizeIs ==
  ASSUME NEW f \in DOMAIN Files
  PROVE  LET P == Files[f].phdrs IN
         /\ MinVaddr(P) \in Nat /\ MinVaddr(P) % Page = 0 /\ MinVaddr(P) = KT_PAGE_START(P[1].vaddr)
         /\ MaxVaddr(P) \in Nat /\ MaxVaddr(P) % Page = 0
         /\ MaxVaddr(P) = KT_PAGE_END(P[Segs(f)].vaddr + P[Segs(f)].memsz)
         /\ MinVaddr(P) < MaxVaddr(P) /\ LoadSize(P) \in Nat \ {0}
         /\ LoadSize(P) = MaxVaddr(P) - MinVaddr(P)
<1> DEFINE P == Files[f].phdrs
           n == Segs(f)
           starts == {P[i].vaddr : i \in 1..n}
           ends == {P[i].vaddr + P[i].memsz : i \in 1..n}
<1>1. n \in Nat \ {0} /\ Loads(P) = 1..n
  BY SegsIs
<1>2. \A i \in 1..n : /\ P[i].vaddr \in Nat /\ P[i].memsz \in Nat \ {0}
                      /\ KT_PAGE_START(P[i].vaddr) <= P[i].vaddr
                      /\ \A j \in 1..n : i < j => P[i].vaddr + P[i].memsz <= KT_PAGE_START(P[j].vaddr)
  BY HeadersAre, PageStart
<1>3. \A i, j \in 1..n : i < j => P[i].vaddr + P[i].memsz <= P[j].vaddr
  <2> SUFFICES ASSUME NEW i \in 1..n, NEW j \in 1..n, i < j PROVE P[i].vaddr + P[i].memsz <= P[j].vaddr
    OBVIOUS
  <2> HIDE DEF P, n
  <2>1. /\ P[i].vaddr + P[i].memsz <= KT_PAGE_START(P[j].vaddr) /\ KT_PAGE_START(P[j].vaddr) <= P[j].vaddr
        /\ P[i].vaddr + P[i].memsz \in Nat /\ P[j].vaddr \in Nat
    BY <1>2
  <2>2. KT_PAGE_START(P[j].vaddr) \in Nat
    BY <2>1, PageStart
  <2> QED
    BY <2>1, <2>2
<1> HIDE DEF P, n
<1>4. Min(starts) = P[1].vaddr
  <2>1. starts \in SUBSET Nat /\ P[1].vaddr \in starts
    BY <1>1, <1>2
  <2>2. \A x \in starts : P[1].vaddr <= x
    <3> SUFFICES ASSUME NEW i \in 1..n PROVE P[1].vaddr <= P[i].vaddr
      OBVIOUS
    <3>1. i = 1 \/ 1 < i
      BY <1>1
    <3> QED
      BY <3>1, <1>1, <1>2, <1>3
  <2>3. Min(starts) \in starts /\ \A x \in starts : Min(starts) <= x
    BY <2>1, MinIs
  <2> HIDE DEF starts
  <2>4. Min(starts) \in Nat /\ P[1].vaddr \in Nat
    BY <2>1, <2>3
  <2>5. Min(starts) <= P[1].vaddr /\ P[1].vaddr <= Min(starts)
    BY <2>1, <2>2, <2>3
  <2> QED
    BY <2>4, <2>5
<1>5. Max(ends) = P[n].vaddr + P[n].memsz
  <2>1. ends \in SUBSET Nat /\ P[n].vaddr + P[n].memsz \in ends
    BY <1>1, <1>2
  <2>2. \A x \in ends : x <= P[n].vaddr + P[n].memsz
    <3> SUFFICES ASSUME NEW i \in 1..n PROVE P[i].vaddr + P[i].memsz <= P[n].vaddr + P[n].memsz
      OBVIOUS
    <3>1. i = n \/ i < n
      BY <1>1
    <3> QED
      BY <3>1, <1>1, <1>2, <1>3
  <2>3. IsFiniteSet(ends)
    BY <2>1, <2>2, FS_BoundedSetOfNaturals
  <2>4. Max(ends) \in ends /\ \A x \in ends : x <= Max(ends)
    BY <2>1, <2>3, MaxIs
  <2> HIDE DEF ends
  <2>5. Max(ends) \in Nat /\ P[n].vaddr + P[n].memsz \in Nat
    BY <2>1, <2>4
  <2>6. Max(ends) <= P[n].vaddr + P[n].memsz /\ P[n].vaddr + P[n].memsz <= Max(ends)
    BY <2>1, <2>2, <2>4
  <2> QED
    BY <2>5, <2>6
<1>6. MinVaddr(P) = KT_PAGE_START(P[1].vaddr) /\ MaxVaddr(P) = KT_PAGE_END(P[n].vaddr + P[n].memsz)
  BY <1>1, <1>4, <1>5 DEF MinVaddr, MaxVaddr
<1>7. P[1].vaddr \in Nat /\ P[n].vaddr + P[n].memsz \in Nat /\ P[1].vaddr < P[n].vaddr + P[n].memsz
  <2>1. 1 = n \/ 1 < n
    BY <1>1
  <2> QED
    BY <2>1, <1>1, <1>2, <1>3
<1>8. /\ MinVaddr(P) \in Nat /\ MinVaddr(P) % Page = 0 /\ MinVaddr(P) <= P[1].vaddr
      /\ MaxVaddr(P) \in Nat /\ MaxVaddr(P) % Page = 0 /\ MaxVaddr(P) >= P[n].vaddr + P[n].memsz
  BY <1>6, <1>7, PageStart, PageEnd
<1>9. MinVaddr(P) < MaxVaddr(P) /\ LoadSize(P) \in Nat \ {0} /\ LoadSize(P) = MaxVaddr(P) - MinVaddr(P)
  BY <1>7, <1>8 DEF LoadSize
<1> QED
  BY <1>6, <1>8, <1>9 DEF P, n

-----------------------------------------------------------------------------
(* The maps of the process.                                                *)

\* The range of an image, as long as it is there.
Span(s) == LoadSize(Files[image[s].file].phdrs)

LEMMA UsedIs ==
  ASSUME TargetOK, NEW s \in Used
  PROVE  /\ s \in Slots /\ s \in Nat \ {0} /\ s % Page = 0
         /\ image[s].file \in DOMAIN Files /\ image[s].mapped \in 0..Segs(image[s].file)
         /\ image[s].node \in Nodes /\ Span(s) \in Nat \ {0}
<1>1. s \in Slots /\ image[s] # NoImage
  BY DEF Used
<1>2. image[s] \in Loaded /\ image[s].mapped <= Segs(image[s].file)
  BY <1>1 DEF TargetOK
<1>3. image[s].file \in DOMAIN Files /\ image[s].mapped \in Nat /\ image[s].node \in Nodes
  BY <1>2 DEF Loaded
<1>4. Segs(image[s].file) \in Nat
  BY <1>3, SegsIs
<1>5. Span(s) \in Nat \ {0}
  BY <1>3, SizeIs DEF Span
<1> QED
  BY <1>1, <1>2, <1>3, <1>4, <1>5, SlotsAssumption

LEMMA SegmentIs ==
  ASSUME TargetOK, NEW s \in Used, NEW i \in 1..Segs(image[s].file)
  PROVE  LET m == SegmentMap(s, i) IN
         /\ m.start \in Nat /\ m.end \in Nat /\ s <= m.start /\ m.start < m.end /\ m.end <= s + Span(s)
         /\ i = 1 => m.start = s
         /\ i = Segs(image[s].file) => m.end = s + Span(s)
         /\ \A j \in 1..Segs(image[s].file) : i < j => m.end <= SegmentMap(s, j).start
         /\ m.r = TRUE /\ m.path = image[s].file /\ m.inode = Files[image[s].file].inode
<1> DEFINE f == image[s].file
           P == Files[f].phdrs
           n == Segs(f)
           d == s - MinVaddr(P)
<1>1. /\ f \in DOMAIN Files /\ s \in Nat /\ s % Page = 0 /\ Span(s) = LoadSize(P)
  BY UsedIs DEF Span
<1>2. /\ MinVaddr(P) \in Nat /\ MinVaddr(P) % Page = 0 /\ MinVaddr(P) = KT_PAGE_START(P[1].vaddr)
      /\ MaxVaddr(P) \in Nat /\ MaxVaddr(P) % Page = 0
      /\ MaxVaddr(P) = KT_PAGE_END(P[n].vaddr + P[n].memsz)
      /\ LoadSize(P) = MaxVaddr(P) - MinVaddr(P)
  BY <1>1, SizeIs
<1>3. n \in Nat \ {0}
  BY <1>1, SegsIs
<1>4. \A j \in 1..n : /\ j \in Nat /\ P[j].vaddr \in Nat /\ P[j].memsz \in Nat \ {0}
                      /\ \A k \in 1..n : j < k => P[j].vaddr + P[j].memsz <= KT_PAGE_START(P[k].vaddr)
  BY <1>1, HeadersAre
<1>5. \A j \in 1..n :
        LET m == SegmentMap(s, j) IN
        /\ m.start = KT_PAGE_START(d + P[j].vaddr) /\ m.end = KT_PAGE_END(d + P[j].vaddr + P[j].memsz)
        /\ m.r = TRUE /\ m.path = f /\ m.inode = Files[f].inode
  BY DEF SegmentMap
<1> HIDE DEF P, n
<1>6. d \in Int /\ d % Page = 0 /\ s = d + MinVaddr(P)
  <2>1. s \in Int /\ MinVaddr(P) \in Int
    BY <1>1, <1>2
  <2>2. (s - MinVaddr(P)) % Page = 0
    BY <2>1, <1>1, <1>2, Boundaries
  <2> QED
    BY <2>1, <2>2
<1> HIDE DEF d
<1>7. \A j \in 1..n : /\ KT_PAGE_START(P[j].vaddr) \in Nat /\ KT_PAGE_START(P[j].vaddr) <= P[j].vaddr
                      /\ KT_PAGE_START(P[j].vaddr) % Page = 0
                      /\ KT_PAGE_END(P[j].vaddr + P[j].memsz) \in Nat
                      /\ KT_PAGE_END(P[j].vaddr + P[j].memsz) >= P[j].vaddr + P[j].memsz
                      /\ \A k \in 1..n : j < k => KT_PAGE_END(P[j].vaddr + P[j].memsz) <= KT_PAGE_START(P[k].vaddr)
  <2> SUFFICES ASSUME NEW j \in 1..n
               PROVE  /\ KT_PAGE_START(P[j].vaddr) \in Nat /\ KT_PAGE_START(P[j].vaddr) <= P[j].vaddr
                      /\ KT_PAGE_START(P[j].vaddr) % Page = 0
                      /\ KT_PAGE_END(P[j].vaddr + P[j].memsz) \in Nat
                      /\ KT_PAGE_END(P[j].vaddr + P[j].memsz) >= P[j].vaddr + P[j].memsz
                      /\ \A k \in 1..n : j < k => KT_PAGE_END(P[j].vaddr + P[j].memsz) <= KT_PAGE_START(P[k].vaddr)
    OBVIOUS
  <2>1. P[j].vaddr \in Nat /\ P[j].vaddr + P[j].memsz \in Nat
    BY <1>4
  <2>2. /\ KT_PAGE_START(P[j].vaddr) \in Nat /\ KT_PAGE_START(P[j].vaddr) <= P[j].vaddr
        /\ KT_PAGE_START(P[j].vaddr) % Page = 0
        /\ KT_PAGE_END(P[j].vaddr + P[j].memsz) \in Nat
        /\ KT_PAGE_END(P[j].vaddr + P[j].memsz) >= P[j].vaddr + P[j].memsz
    BY <2>1, PageStart, PageEnd
  <2>3. ASSUME NEW k \in 1..n, j < k PROVE KT_PAGE_END(P[j].vaddr + P[j].memsz) <= KT_PAGE_START(P[k].vaddr)
    <3>1. /\ P[j].vaddr + P[j].memsz <= KT_PAGE_START(P[k].vaddr) /\ P[k].vaddr \in Nat
      BY <1>4, <2>3
    <3>2. KT_PAGE_START(P[k].vaddr) \in Nat /\ KT_PAGE_START(P[k].vaddr) % Page = 0
      BY <3>1, PageStart
    <3> QED
      BY <2>1, <3>1, <3>2, PageEnd
  <2> QED
    BY <2>2, <2>3
<1>8. \A j \in 1..n : j = 1 \/ KT_PAGE_START(P[1].vaddr) <= KT_PAGE_START(P[j].vaddr)
  <2> SUFFICES ASSUME NEW j \in 1..n, j # 1 PROVE KT_PAGE_START(P[1].vaddr) <= KT_PAGE_START(P[j].vaddr)
    OBVIOUS
  <2>1. 1 \in 1..n /\ 1 < j
    BY <1>3
  <2>2. P[1].vaddr + P[1].memsz <= KT_PAGE_START(P[j].vaddr) /\ P[1].vaddr \in Nat /\ P[1].memsz \in Nat
    BY <1>4, <2>1
  <2>3. KT_PAGE_START(P[1].vaddr) <= P[1].vaddr /\ KT_PAGE_START(P[1].vaddr) \in Nat /\ KT_PAGE_START(P[j].vaddr) \in Nat
    BY <1>7, <2>1
  <2> QED
    BY <2>2, <2>3
<1>9. \A j \in 1..n : MinVaddr(P) <= KT_PAGE_START(P[j].vaddr)
  BY <1>2, <1>8
<1>10. \A j \in 1..n : d + KT_PAGE_START(P[j].vaddr) \in Nat /\ d + KT_PAGE_START(P[j].vaddr) >= s
  BY <1>1, <1>2, <1>6, <1>7, <1>9
<1>11. \A j \in 1..n : /\ SegmentMap(s, j).start = d + KT_PAGE_START(P[j].vaddr)
                       /\ SegmentMap(s, j).end = d + KT_PAGE_END(P[j].vaddr + P[j].memsz)
  <2> SUFFICES ASSUME NEW j \in 1..n
               PROVE  /\ SegmentMap(s, j).start = d + KT_PAGE_START(P[j].vaddr)
                      /\ SegmentMap(s, j).end = d + KT_PAGE_END(P[j].vaddr + P[j].memsz)
    OBVIOUS
  <2>1. P[j].vaddr \in Nat /\ P[j].vaddr + P[j].memsz \in Nat /\ d + P[j].vaddr + P[j].memsz = d + (P[j].vaddr + P[j].memsz)
    BY <1>4, <1>6
  <2>2. KT_PAGE_START(d + P[j].vaddr) = d + KT_PAGE_START(P[j].vaddr)
    BY <2>1, <1>6, <1>10, PageMoved
  <2>3. /\ KT_PAGE_START(P[j].vaddr) % Page = 0 /\ KT_PAGE_START(P[j].vaddr) <= P[j].vaddr + P[j].memsz
        /\ KT_PAGE_START(P[j].vaddr) \in Nat
    BY <1>4, <1>7
  <2>4. d + KT_PAGE_START(P[j].vaddr + P[j].memsz) \in Nat
    <3>1. /\ KT_PAGE_START(P[j].vaddr + P[j].memsz) \in Nat /\ KT_PAGE_START(P[j].vaddr + P[j].memsz) % Page = 0
          /\ (P[j].vaddr + P[j].memsz) - KT_PAGE_START(P[j].vaddr + P[j].memsz) < Page
      BY <2>1, PageStart
    <3>2. KT_PAGE_START(P[j].vaddr) < KT_PAGE_START(P[j].vaddr + P[j].memsz) + Page
      BY <2>1, <2>3, <3>1, PageIsPositive
    <3>3. KT_PAGE_START(P[j].vaddr) <= KT_PAGE_START(P[j].vaddr + P[j].memsz)
      BY <2>3, <3>1, <3>2, Boundaries
    <3> QED
      BY <3>1, <3>3, <1>6, <1>10, <2>3
  <2>5. KT_PAGE_END(d + (P[j].vaddr + P[j].memsz)) = d + KT_PAGE_END(P[j].vaddr + P[j].memsz)
    BY <2>1, <2>4, <1>6, PageEndMoved
  <2> QED
    BY <2>1, <2>2, <2>5, <1>5
<1>12. \A j \in 1..n : KT_PAGE_END(P[j].vaddr + P[j].memsz) <= MaxVaddr(P)
  <2> SUFFICES ASSUME NEW j \in 1..n, j # n PROVE KT_PAGE_END(P[j].vaddr + P[j].memsz) <= MaxVaddr(P)
    BY <1>2
  <2>1. n \in 1..n /\ j < n
    BY <1>3
  <2>2. KT_PAGE_END(P[j].vaddr + P[j].memsz) <= KT_PAGE_START(P[n].vaddr) /\ KT_PAGE_START(P[n].vaddr) <= P[n].vaddr
    BY <1>7, <2>1
  <2>3. P[n].vaddr + P[n].memsz <= MaxVaddr(P) /\ P[n].memsz \in Nat /\ P[n].vaddr \in Nat
    BY <1>2, <1>4, <1>7, <2>1
  <2> QED
    BY <2>1, <2>2, <2>3, <1>7, <1>2
<1>13. \A j \in 1..n : /\ d + KT_PAGE_END(P[j].vaddr + P[j].memsz) \in Nat
                       /\ d + KT_PAGE_START(P[j].vaddr) < d + KT_PAGE_END(P[j].vaddr + P[j].memsz)
                       /\ d + KT_PAGE_END(P[j].vaddr + P[j].memsz) <= s + Span(s)
  <2> SUFFICES ASSUME NEW j \in 1..n
               PROVE  /\ d + KT_PAGE_END(P[j].vaddr + P[j].memsz) \in Nat
                      /\ d + KT_PAGE_START(P[j].vaddr) < d + KT_PAGE_END(P[j].vaddr + P[j].memsz)
                      /\ d + KT_PAGE_END(P[j].vaddr + P[j].memsz) <= s + Span(s)
    OBVIOUS
  <2>1. KT_PAGE_START(P[j].vaddr) < KT_PAGE_END(P[j].vaddr + P[j].memsz)
    BY <1>4, <1>7
  <2> QED
    BY <2>1, <1>1, <1>2, <1>6, <1>7, <1>10, <1>12
<1>14. \A j \in 1..n : i < j => SegmentMap(s, i).end <= SegmentMap(s, j).start
  <2> SUFFICES ASSUME NEW j \in 1..n, i < j PROVE SegmentMap(s, i).end <= SegmentMap(s, j).start
    OBVIOUS
  <2>1. i \in 1..n
    BY DEF n
  <2>2. KT_PAGE_END(P[i].vaddr + P[i].memsz) <= KT_PAGE_START(P[j].vaddr)
    BY <2>1, <1>7
  <2> QED
    BY <2>1, <2>2, <1>6, <1>7, <1>11
<1>15. i \in 1..n
  BY DEF n
<1> DEFINE m == SegmentMap(s, i)
<1>16. m.start \in Nat /\ m.end \in Nat /\ s <= m.start /\ m.start < m.end /\ m.end <= s + Span(s)
  BY <1>10, <1>11, <1>13, <1>15
<1>17. i = 1 => m.start = s
  BY <1>2, <1>6, <1>11, <1>15
<1>18. i = n => m.end = s + Span(s)
  BY <1>1, <1>2, <1>6, <1>11, <1>15
<1>19. m.r = TRUE /\ m.path = f /\ m.inode = Files[f].inode
  BY <1>5, <1>15
<1> HIDE DEF m
<1> QED
  BY <1>14, <1>16, <1>17, <1>18, <1>19 DEF m, n

LEMMA MapsOfIs ==
  ASSUME TargetOK, NEW s \in Used, NEW m \in MapsOf(s)
  PROVE  /\ m.start \in Nat /\ m.end \in Nat /\ s <= m.start /\ m.start < m.end /\ m.end <= s + Span(s)
         /\ \/ \E i \in 1..image[s].mapped : m = SegmentMap(s, i)
            \/ /\ m = Reserved(s) /\ ~m.r /\ \A i \in 1..image[s].mapped : SegmentMap(s, i).end <= m.start
<1> DEFINE n == image[s].mapped
           all == Segs(image[s].file)
<1>1. n \in 0..all /\ all \in Nat \ {0} /\ s \in Nat /\ Span(s) \in Nat
  BY UsedIs, SegsIs
<1>2. \A i \in 1..all : /\ SegmentMap(s, i).start \in Nat /\ SegmentMap(s, i).end \in Nat
                        /\ s <= SegmentMap(s, i).start /\ SegmentMap(s, i).start < SegmentMap(s, i).end
                        /\ SegmentMap(s, i).end <= s + Span(s)
                        /\ i = 1 => SegmentMap(s, i).start = s
                        /\ \A j \in 1..all : i < j => SegmentMap(s, i).end <= SegmentMap(s, j).start
  BY SegmentIs
<1>3. MapsOf(s) = {SegmentMap(s, i) : i \in 1..n} \cup IF n = all THEN {} ELSE {Reserved(s)}
  BY DEF MapsOf
<1>4. /\ Reserved(s).start = IF n = 0 THEN s ELSE SegmentMap(s, n).end
      /\ Reserved(s).end = s + Span(s) /\ Reserved(s).r = FALSE
  BY DEF Reserved, NoMap, Span
<1> HIDE DEF n, all
<1>5. CASE \E i \in 1..n : m = SegmentMap(s, i)
  BY <1>1, <1>2, <1>5 DEF n
<1>6. CASE n # all /\ m = Reserved(s)
  <2>1. n + 1 \in 1..all /\ SegmentMap(s, n + 1).start < s + Span(s)
    BY <1>1, <1>2, <1>6
  <2>2. CASE n = 0
    BY <1>1, <1>2, <1>4, <1>6, <2>1, <2>2 DEF n
  <2>3. CASE n # 0
    <3>1. n \in 1..all /\ n < n + 1
      BY <1>1, <2>3
    <3>2. SegmentMap(s, n).end <= SegmentMap(s, n + 1).start /\ s < SegmentMap(s, n).end
      BY <1>1, <1>2, <2>1, <3>1
    <3>3. \A i \in 1..n : SegmentMap(s, i).end <= SegmentMap(s, n).end
      <4> SUFFICES ASSUME NEW i \in 1..n, i # n PROVE SegmentMap(s, i).end <= SegmentMap(s, n).end
        BY <1>2, <3>1
      <4>1. i \in 1..all /\ i < n
        BY <1>1
      <4> QED
        BY <1>2, <3>1, <4>1
    <3>4. m.start = SegmentMap(s, n).end /\ m.end = s + Span(s) /\ ~m.r
      BY <1>4, <1>6, <2>3
    <3>5. SegmentMap(s, n).end \in Nat /\ SegmentMap(s, n + 1).start \in Nat
      BY <1>2, <2>1, <3>1
    <3> QED
      BY <1>1, <1>6, <2>1, <3>2, <3>3, <3>4, <3>5 DEF n
  <2> QED
    BY <2>2, <2>3
<1> QED
  BY <1>3, <1>5, <1>6

LEMMA SoinfoMapIs ==
  /\ SoinfoMap.start \in Nat \ {0} /\ SoinfoMap.end \in Nat /\ SoinfoMap.r /\ SoinfoMap.w /\ SoinfoMap.inode = 0
  /\ \A n \in Nodes : SoinfoMap.start <= n /\ n + 32 <= SoinfoMap.end
  /\ SoinfoMap.start \in Nodes /\ SoinfoMap.end - 32 \in Nodes
<1>1. Nodes \in SUBSET Nat /\ Nodes # {} /\ IsFiniteSet(Nodes) /\ 0 \notin Nodes
  <2>1. Initially[1].node \in Nodes
    <3> DEFINE First == [slot : Slots, file : DOMAIN Files, node : Nodes]
    <3>1. Initially \in Seq(First) /\ Len(Initially) >= 2
      BY InitiallyAssumption
    <3> HIDE DEF First
    <3>2. Initially[1] \in First
      BY <3>1
    <3> QED
      BY <3>2 DEF First
  <2> QED
    BY <2>1, NodesAssumption
<1>2. Min(Nodes) \in Nodes /\ \A n \in Nodes : Min(Nodes) <= n
  BY <1>1, MinIs
<1>3. Max(Nodes) \in Nodes /\ \A n \in Nodes : n <= Max(Nodes)
  BY <1>1, MaxIs
<1>4. /\ SoinfoMap.start = Min(Nodes) /\ SoinfoMap.end = Max(Nodes) + 32 /\ SoinfoMap.r /\ SoinfoMap.w
      /\ SoinfoMap.inode = 0
  BY DEF SoinfoMap, NoMap
<1>5. \A n \in Nodes : n \in Nat \ {0}
  BY <1>1
<1> QED
  BY <1>2, <1>3, <1>4, <1>5

\* No address lies in two maps.
LEMMA MapsApart ==
  ASSUME TargetOK, NEW m \in Maps, NEW k \in Maps, NEW a \in Nat, m.start <= a, a < m.end, k.start <= a, a < k.end
  PROVE  m = k
<1>1. ASSUME NEW s \in Used, NEW t \in Used, m \in MapsOf(s), k \in MapsOf(t) PROVE m = k
  <2>1. /\ s \in Slots /\ t \in Slots /\ s \in Nat /\ t \in Nat /\ Span(s) \in Nat /\ Span(t) \in Nat
        /\ image[s].file \in DOMAIN Files /\ image[t].file \in DOMAIN Files
    BY UsedIs
  <2>2. m.start \in Nat /\ m.end \in Nat /\ s <= m.start /\ m.end <= s + Span(s)
    BY <1>1, MapsOfIs
  <2>3. k.start \in Nat /\ k.end \in Nat /\ t <= k.start /\ k.end <= t + Span(t)
    BY <1>1, MapsOfIs
  <2>4. (s < t => s + Span(s) <= t) /\ (t < s => t + Span(t) <= s)
    BY <2>1, SlotsAssumption DEF Span
  <2>5. s = t
    BY <2>1, <2>2, <2>3, <2>4
  <2>6. \/ \E i \in 1..image[s].mapped : m = SegmentMap(s, i)
        \/ /\ m = Reserved(s) /\ ~m.r /\ \A i \in 1..image[s].mapped : SegmentMap(s, i).end <= m.start
    BY <1>1, MapsOfIs
  <2>7. \/ \E i \in 1..image[s].mapped : k = SegmentMap(s, i)
        \/ /\ k = Reserved(s) /\ ~k.r /\ \A i \in 1..image[s].mapped : SegmentMap(s, i).end <= k.start
    BY <1>1, <2>5, MapsOfIs
  <2>8. ASSUME NEW i \in 1..image[s].mapped, NEW j \in 1..image[s].mapped, m = SegmentMap(s, i), k = SegmentMap(s, j)
        PROVE  m = k
    <3>1. i \in 1..Segs(image[s].file) /\ j \in 1..Segs(image[s].file)
      <4>1. image[s].mapped \in 0..Segs(image[s].file) /\ Segs(image[s].file) \in Nat
        BY <2>1, UsedIs, SegsIs
      <4> QED
        BY <4>1
    <3>2. (i < j => m.end <= k.start) /\ (j < i => k.end <= m.start)
      BY <2>8, <3>1, SegmentIs
    <3>3. i = j
      BY <2>2, <2>3, <3>1, <3>2
    <3> QED
      BY <2>8, <3>3
  <2>9. ASSUME m = Reserved(s), \A i \in 1..image[s].mapped : SegmentMap(s, i).end <= m.start
        PROVE  m = k
    <3>1. CASE k = Reserved(s)
      BY <2>9, <3>1
    <3>2. ASSUME NEW i \in 1..image[s].mapped, k = SegmentMap(s, i) PROVE FALSE
      <4>1. k.end <= m.start
        BY <2>9, <3>2
      <4> QED
        BY <4>1, <2>2, <2>3
    <3> QED
      BY <2>7, <3>1, <3>2
  <2>10. ASSUME k = Reserved(s), \A i \in 1..image[s].mapped : SegmentMap(s, i).end <= k.start
         PROVE  m = k
    <3>1. CASE m = Reserved(s)
      BY <2>10, <3>1
    <3>2. ASSUME NEW i \in 1..image[s].mapped, m = SegmentMap(s, i) PROVE FALSE
      <4>1. m.end <= k.start
        BY <2>10, <3>2
      <4> QED
        BY <4>1, <2>2, <2>3
    <3> QED
      BY <2>6, <3>1, <3>2
  <2> QED
    BY <2>6, <2>7, <2>8, <2>9, <2>10
<1>2. \A s \in Used : \A x \in MapsOf(s) : x.start >= SoinfoMap.end \/ x.end <= SoinfoMap.start
  <2> SUFFICES ASSUME NEW s \in Used, NEW x \in MapsOf(s)
               PROVE  x.start >= SoinfoMap.end \/ x.end <= SoinfoMap.start
    OBVIOUS
  <2>1. x.start \in Nat /\ x.end \in Nat /\ s <= x.start /\ x.end <= s + Span(s)
    BY MapsOfIs
  <2>2. s \in Slots /\ s \in Nat /\ Span(s) \in Nat /\ image[s].file \in DOMAIN Files
    BY UsedIs
  <2>3. (\A n \in Nodes : s + Span(s) <= n) \/ \A n \in Nodes : n + 32 <= s
    BY <2>2, SlotsAssumption DEF Span
  <2>4. SoinfoMap.start \in Nodes /\ SoinfoMap.end - 32 \in Nodes /\ SoinfoMap.start \in Nat /\ SoinfoMap.end \in Nat
    BY SoinfoMapIs
  <2> QED
    BY <2>1, <2>2, <2>3, <2>4
<1>3. \A x \in Maps : x = SoinfoMap \/ \E s \in Used : x \in MapsOf(s)
  BY DEF Maps
<1>4. SoinfoMap.start \in Nat /\ SoinfoMap.end \in Nat
  BY SoinfoMapIs
<1>5. \A s \in Used : \A x \in MapsOf(s) : x.start \in Nat /\ x.end \in Nat
  BY MapsOfIs
<1> QED
  BY <1>1, <1>2, <1>3, <1>4, <1>5

LEMMA StartsPositive ==
  ASSUME TargetOK, NEW m \in Maps
  PROVE  m.start \in Nat \ {0} /\ m.end \in Nat /\ m.start < m.end
<1>1. CASE m = SoinfoMap
  <2>1. m.start \in Nodes /\ m.start + 32 <= m.end /\ m.start \in Nat \ {0} /\ m.end \in Nat
    BY <1>1, SoinfoMapIs
  <2> QED
    BY <2>1
<1>2. ASSUME NEW s \in Used, m \in MapsOf(s) PROVE m.start \in Nat \ {0} /\ m.end \in Nat /\ m.start < m.end
  <2>1. m.start \in Nat /\ m.end \in Nat /\ s <= m.start /\ m.start < m.end
    BY <1>2, MapsOfIs
  <2>2. s \in Nat \ {0}
    BY UsedIs
  <2> QED
    BY <2>1, <2>2
<1> QED
  BY <1>1, <1>2 DEF Maps

\* So what is looked up is the map the address lies in.
LEMMA LookedUp ==
  ASSUME TargetOK, NEW m \in Maps, NEW a \in Nat, m.start <= a, a < m.end
  PROVE  AddressMap(Maps, a) = m
<1>1. \A k \in Maps : k.start \in Nat \ {0} /\ k.end \in Nat
  BY StartsPositive
<1>2. \A k \in Maps : a \in k.start..(k.end - 1) <=> k.start <= a /\ a < k.end
  BY <1>1
<1>3. a # 0 /\ \E k \in Maps : a \in k.start..(k.end - 1)
  BY <1>1, <1>2
<1>4. \A k \in Maps : a \in k.start..(k.end - 1) => k = m
  BY <1>2, MapsApart
<1> QED
  BY <1>3, <1>4 DEF AddressMap

\* A soinfo can always be read.
LEMMA NodesReadable ==
  ASSUME TargetOK, NEW n \in Nodes
  PROVE  Readable(Maps, n)
<1>1. SoinfoMap \in Maps
  BY DEF Maps
<1>2. n \in Nat /\ SoinfoMap.start <= n /\ n < SoinfoMap.end /\ SoinfoMap.r
  BY SoinfoMapIs, NodesAssumption
<1> QED
  BY <1>1, <1>2, LookedUp DEF Readable

-----------------------------------------------------------------------------
(* The linker at work.                                                     *)

LEMMA TagIs ==
  ASSUME NEW f \in DOMAIN Files, NEW t
  PROVE  Tag(Files[f].dyns, t) \in Nat
BY FilesAssumption DEF Tag

LEMMA DynamicIs ==
  ASSUME NEW f \in DOMAIN Files
  PROVE  LET P == Files[f].phdrs IN
         /\ Min(Dynamics(P)) \in Dynamics(P) /\ P[Min(Dynamics(P))].vaddr \in Nat
         /\ P[Min(Dynamics(P))].memsz \in Nat \ {0}
<1> DEFINE Header == [type : {"LOAD", "DYNAMIC"}, vaddr : Nat, memsz : Nat \ {0}, filesz : Nat, w : BOOLEAN]
           P == Files[f].phdrs
<1>1. P \in Seq(Header) /\ Dynamics(P) # {}
  BY FilesAssumption
<1>2. Dynamics(P) \in SUBSET Nat /\ Dynamics(P) \subseteq DOMAIN P
  <2> HIDE DEF Header, P
  <2> QED
    BY <1>1 DEF Dynamics
<1>3. Min(Dynamics(P)) \in Dynamics(P)
  BY <1>1, <1>2, MinIs
<1>4. \A i \in DOMAIN P : P[i] \in Header
  <2> HIDE DEF Header, P
  <2> QED
    BY <1>1
<1>5. P[Min(Dynamics(P))] \in Header
  BY <1>2, <1>3, <1>4
<1> QED
  BY <1>3, <1>5

LEMMA FilledIs ==
  ASSUME NEW f \in DOMAIN Files, NEW s \in Slots, NEW next \in Int
  PROVE  Filled(f, s, next) \in [WordNames -> Int] /\ Filled(f, s, next).next = next
<1> DEFINE P == Files[f].phdrs
           bias == s - MinVaddr(P)
           dyn == bias + P[Min(Dynamics(P))].vaddr
<1>1. s \in Nat /\ Files[f].phoff \in Nat /\ Len(P) \in Nat
  BY FilesAssumption, SlotsAssumption
<1>2. MinVaddr(P) \in Nat /\ LoadSize(P) \in Nat
  BY SizeIs
<1>3. P[Min(Dynamics(P))].vaddr \in Nat
  BY DynamicIs
<1>4. Tag(Files[f].dyns, "STRTAB") \in Nat /\ Tag(Files[f].dyns, "STRSZ") \in Nat /\ Tag(Files[f].dyns, "SYMTAB") \in Nat
  BY TagIs
<1>5. bias \in Int /\ dyn \in Int
  BY <1>1, <1>2, <1>3
<1> DEFINE phdr == s + Files[f].phoff
           strtab == bias + Tag(Files[f].dyns, "STRTAB")
           symtab == bias + Tag(Files[f].dyns, "SYMTAB")
           strsz == Tag(Files[f].dyns, "STRSZ")
<1>6. Filled(f, s, next) =
        [phdr |-> phdr, phnum |-> Len(P), base |-> s, size |-> LoadSize(P), dyn |-> dyn,
         next |-> next, flags |-> 1, strtab |-> strtab, strsz |-> strsz, symtab |-> symtab,
         laddr |-> bias, bias |-> bias, name |-> 0]
  BY DEF Filled
<1>7. /\ phdr \in Int /\ Len(P) \in Int /\ s \in Int /\ LoadSize(P) \in Int /\ dyn \in Int
      /\ strtab \in Int /\ strsz \in Int /\ symtab \in Int /\ bias \in Int
  BY <1>1, <1>2, <1>4, <1>5
<1> HIDE DEF P, bias, dyn, phdr, strtab, symtab, strsz
<1> DEFINE F == Filled(f, s, next)
<1>8. F = [x \in WordNames |-> F[x]]
  BY <1>6 DEF WordNames
<1>9. \A x \in WordNames : F[x] \in Int
  BY <1>6, <1>7 DEF WordNames
<1>10. F.next = next
  BY <1>6
<1> HIDE DEF F
<1> QED
  BY <1>8, <1>9, <1>10 DEF F

LEMMA EmptyIs == Empty \in [WordNames -> Int] /\ Empty.next = 0
BY DEF Empty, WordNames

LEMMA RemovedIs ==
  ASSUME NEW s \in Seq(Nodes), NEW i \in 1..Len(s)
  PROVE  /\ RemoveAt(s, i) \in Seq(Nodes) /\ Len(RemoveAt(s, i)) = Len(s) - 1
         /\ \A j \in 1..(Len(s) - 1) : RemoveAt(s, i)[j] = IF j < i THEN s[j] ELSE s[j + 1]
<1> DEFINE a == SubSeq(s, 1, i - 1)
           b == SubSeq(s, i + 1, Len(s))
<1>1. Len(s) \in Nat /\ s \in [1..Len(s) -> Nodes]
  OBVIOUS
<1>2. /\ a \in Seq(Nodes) /\ Len(a) = i - 1 /\ \A j \in 1..(i - 1) : a[j] = s[j]
  BY <1>1, SubSeqProperties
<1>3. /\ b \in Seq(Nodes) /\ Len(b) = Len(s) - i /\ \A j \in 1..(Len(s) - i) : b[j] = s[i + j]
  <2>1. i + 1 \in Int /\ Len(s) \in Int /\ \A k \in (i + 1)..Len(s) : s[k] \in Nodes
    BY <1>1
  <2>2. /\ b \in Seq(Nodes) /\ Len(b) = (IF i + 1 <= Len(s) THEN Len(s) - (i + 1) + 1 ELSE 0)
        /\ \A k \in 1..(Len(s) - (i + 1) + 1) : b[k] = s[(i + 1) + k - 1]
    BY <2>1, SubSeqProperties
  <2> HIDE DEF a, b
  <2>3. Len(b) = Len(s) - i
    <3>1. Len(s) \in Nat /\ i \in 1..Len(s)
      BY <1>1
    <3>2. CASE i + 1 <= Len(s)
      BY <2>2, <3>1, <3>2
    <3>3. CASE i = Len(s)
      BY <2>2, <3>1, <3>3
    <3> QED
      BY <3>1, <3>2, <3>3
  <2>4. ASSUME NEW j \in 1..(Len(s) - i) PROVE b[j] = s[i + j]
    <3>1. j \in 1..(Len(s) - (i + 1) + 1) /\ (i + 1) + j - 1 = i + j
      BY <1>1
    <3> QED
      BY <2>2, <3>1
  <2> QED
    BY <2>2, <2>3, <2>4
<1>4. RemoveAt(s, i) = a \o b
  BY DEF RemoveAt
<1> HIDE DEF a, b
<1>5. /\ a \o b \in Seq(Nodes) /\ Len(a \o b) = Len(a) + Len(b)
      /\ \A k \in 1..(Len(a) + Len(b)) : (a \o b)[k] = IF k <= Len(a) THEN a[k] ELSE b[k - Len(a)]
  BY <1>2, <1>3, ConcatProperties, Zenon
<1>6. ASSUME NEW j \in 1..(Len(s) - 1) PROVE (a \o b)[j] = IF j < i THEN s[j] ELSE s[j + 1]
  <2>1. j \in 1..(Len(a) + Len(b)) /\ j \in Nat
    BY <1>1, <1>2, <1>3
  <2>2. CASE j < i
    <3>1. j <= Len(a) /\ j \in 1..(i - 1)
      BY <1>1, <1>2, <2>1, <2>2
    <3> QED
      BY <1>2, <1>5, <2>1, <2>2, <3>1
  <2>3. CASE j >= i
    <3>1. ~(j <= Len(a)) /\ j - Len(a) \in 1..(Len(s) - i) /\ i + (j - Len(a)) = j + 1 /\ ~(j < i)
      BY <1>1, <1>2, <2>1, <2>3
    <3>2. b[j - Len(a)] = s[j + 1]
      BY <1>3, <3>1
    <3> QED
      BY <1>5, <2>1, <3>1, <3>2
  <2> QED
    BY <1>1, <2>1, <2>2, <2>3
<1>7. Len(a \o b) = Len(s) - 1
  BY <1>1, <1>2, <1>3, <1>5
<1> QED
  BY <1>4, <1>5, <1>6, <1>7

LEMMA InitialTarget == TargetInit => TargetOK
<1> SUFFICES ASSUME TargetInit PROVE TargetOK
  OBVIOUS
<1> DEFINE First == [slot : Slots, file : DOMAIN Files, node : Nodes]
           n == Len(Initially)
           next(i) == IF i = n THEN 0 ELSE Initially[i + 1].node
<1>1. Initially \in Seq(First) /\ n >= 2 /\ n \in Nat /\ DOMAIN Initially = 1..n
  BY InitiallyAssumption
<1>2. \A i \in 1..n : Initially[i] \in First
  <2> HIDE DEF First
  <2> QED
    BY <1>1
<1>3. \A i \in 1..n : /\ Initially[i].slot \in Slots /\ Initially[i].file \in DOMAIN Files
                      /\ Initially[i].node \in Nodes
  BY <1>2
<1>4. \A i, j \in 1..n : Initially[i].node = Initially[j].node => i = j
  BY <1>1, InitiallyAssumption
<1>5. list = [i \in 1..n |-> Initially[i].node]
  BY <1>1 DEF TargetInit
<1> HIDE DEF First, n
<1>6. list \in Seq(Nodes) /\ Len(list) = n /\ \A i \in 1..n : list[i] = Initially[i].node
  BY <1>1, <1>3, <1>5
<1>7. \A i \in 1..n : next(i) \in Int
  <2> SUFFICES ASSUME NEW i \in 1..n, i # n PROVE Initially[i + 1].node \in Int
    OBVIOUS
  <2>1. i + 1 \in 1..n
    BY <1>1
  <2>2. Initially[i + 1].node \in Nodes
    BY <2>1, <1>3
  <2>3. \A m \in Nodes : m \in Int
    BY NodesAssumption
  <2> QED
    BY <2>2, <2>3, Zenon
<1>8. \A s \in Slots : /\ image[s] \in Loaded \cup {NoImage} /\ image[s].mapped <= Segs(image[s].file)
  <2> SUFFICES ASSUME NEW s \in Slots
               PROVE  image[s] \in Loaded \cup {NoImage} /\ image[s].mapped <= Segs(image[s].file)
    OBVIOUS
  <2>1. image[s] = IF \E i \in 1..n : Initially[i].slot = s
                   THEN LET i == CHOOSE i \in 1..n : Initially[i].slot = s
                        IN  [file |-> Initially[i].file, mapped |-> Segs(Initially[i].file),
                             node |-> Initially[i].node]
                   ELSE NoImage
    BY <1>1 DEF TargetInit
  <2>2. CASE \E i \in 1..n : Initially[i].slot = s
    <3> DEFINE k == CHOOSE i \in 1..n : Initially[i].slot = s
    <3>1. k \in 1..n
      BY <2>2
    <3>2. image[s] = [file |-> Initially[k].file, mapped |-> Segs(Initially[k].file), node |-> Initially[k].node]
      BY <2>1, <2>2
    <3> HIDE DEF k
    <3>3. Segs(Initially[k].file) \in Nat
      BY <1>3, <3>1, SegsIs
    <3> QED
      BY <1>3, <3>1, <3>2, <3>3 DEF Loaded
  <2>3. CASE ~\E i \in 1..n : Initially[i].slot = s
    BY <2>1, <2>3 DEF NoImage, Segs
  <2> QED
    BY <2>2, <2>3
<1>9. \A a \in Nodes : /\ words[a] \in [WordNames -> Int]
                       /\ \A i \in 1..n : list[i] = a => words[a].next = next(i)
  <2> SUFFICES ASSUME NEW a \in Nodes
               PROVE  words[a] \in [WordNames -> Int] /\ \A i \in 1..n : list[i] = a => words[a].next = next(i)
    OBVIOUS
  <2> DEFINE k == CHOOSE i \in DOMAIN list : list[i] = a
             after == IF k = Len(list) THEN 0 ELSE list[k + 1]
  <2>1. words[a] = IF a \notin OnList THEN Empty
                   ELSE IF k = 1 THEN LinkersOwn(after)
                        ELSE Filled(Initially[k].file, Initially[k].slot, after)
    BY DEF TargetInit
  <2>2. DOMAIN list = 1..n
    BY <1>6
  <2>3. CASE a \notin OnList
    <3>1. \A i \in 1..n : list[i] # a
      BY <2>2, <2>3 DEF OnList
    <3> QED
      BY <2>1, <2>3, <3>1, EmptyIs
  <2>4. CASE a \in OnList
    <3>1. k \in 1..n /\ list[k] = a
      BY <2>2, <2>4 DEF OnList
    <3>2. \A i \in 1..n : list[i] = a => i = k
      BY <1>4, <1>6, <3>1
    <3>3. after = next(k)
      <4>1. k = Len(list) <=> k = n
        BY <1>6
      <4>2. k # n => k + 1 \in 1..n
        BY <1>1, <3>1
      <4> QED
        BY <1>6, <4>1, <4>2
    <3> HIDE DEF k, after, next
    <3>4. after \in Int
      BY <1>7, <3>1, <3>3
    <3>5. Filled(Initially[k].file, Initially[k].slot, after) \in [WordNames -> Int]
          /\ Filled(Initially[k].file, Initially[k].slot, after).next = after
      BY <1>3, <3>1, <3>4, FilledIs
    <3>6. LinkersOwn(after) \in [WordNames -> Int] /\ LinkersOwn(after).next = after
      <4> DEFINE F == Filled(Initially[1].file, Initially[1].slot, after)
      <4>1. F \in [WordNames -> Int] /\ F.next = after
        <5>1. 1 \in 1..n
          BY <1>1
        <5> QED
          BY <1>3, <3>4, <5>1, FilledIs
      <4>2. LinkersOwn(after) = [F EXCEPT !.base = 0, !.size = 0]
        BY DEF LinkersOwn
      <4> HIDE DEF F
      <4>3. "base" \in WordNames /\ "size" \in WordNames /\ "next" \in WordNames
        BY DEF WordNames
      <4> DEFINE G == [F EXCEPT !.base = 0]
      <4>4. G \in [WordNames -> Int] /\ G.next = after
        BY <4>1, <4>3
      <4>5. LinkersOwn(after) = [G EXCEPT !.size = 0]
        BY <4>2
      <4> HIDE DEF G
      <4> QED
        BY <4>3, <4>4, <4>5
    <3> QED
      BY <2>1, <2>4, <3>2, <3>3, <3>5, <3>6
  <2> QED
    BY <2>3, <2>4
<1>10. words \in [Nodes -> [WordNames -> Int]]
  BY <1>9 DEF TargetInit
<1>11. image \in [Slots -> Loaded \cup {NoImage}]
  <2>1. image = [s \in Slots |-> image[s]]
    BY DEF TargetInit
  <2> QED
    BY <1>8, <2>1
<1>12. Linked
  <2>1. list[1] = solist
    BY <1>1, <1>6 DEF solist
  <2>2. \A i, j \in 1..n : list[i] = list[j] => i = j
    BY <1>4, <1>6
  <2>3. \A i \in 1..n : words[list[i]].next = IF i = n THEN 0 ELSE list[i + 1]
    <3> SUFFICES ASSUME NEW i \in 1..n PROVE words[list[i]].next = IF i = n THEN 0 ELSE list[i + 1]
      OBVIOUS
    <3>1. list[i] \in Nodes
      BY <1>3, <1>6
    <3>2. words[list[i]].next = next(i)
      BY <1>9, <3>1
    <3>3. i # n => i + 1 \in 1..n
      BY <1>1
    <3> QED
      BY <1>6, <3>2, <3>3
  <2> QED
    BY <1>1, <1>6, <2>1, <2>2, <2>3 DEF Linked
<1>13. layout \in Layouts
  BY DEF TargetInit
<1> QED
  BY <1>8, <1>10, <1>11, <1>12, <1>13 DEF TargetOK

LEMMA LinkedIs ==
  ASSUME TargetOK
  PROVE  /\ list \in Seq(Nodes) /\ Len(list) \in Nat /\ Len(list) >= 1 /\ DOMAIN list = 1..Len(list)
         /\ \A i \in 1..Len(list) : list[i] \in Nodes /\ words[list[i]] \in [WordNames -> Int]
         /\ "next" \in WordNames
<1>1. list \in Seq(Nodes) /\ Len(list) >= 1 /\ words \in [Nodes -> [WordNames -> Int]]
  BY DEF TargetOK, Linked
<1>2. Len(list) \in Nat /\ DOMAIN list = 1..Len(list) /\ \A i \in 1..Len(list) : list[i] \in Nodes
  BY <1>1
<1>3. "next" \in WordNames
  BY DEF WordNames
<1> QED
  BY <1>1, <1>2, <1>3

LEMMA OpenKeeps ==
  ASSUME TargetOK, Open
  PROVE  TargetOK' /\ Len(list') = Len(list) + 1 /\ \A i \in 1..Len(list) : list'[i] = list[i]
<1> DEFINE L == Len(list)
           last == list[L]
<1>1. PICK f \in Openable, s \in Slots \ Used :
        LET n == Min(Nodes \ OnList) IN
        /\ image' = [image EXCEPT ![s] = [file |-> f, mapped |-> 0, node |-> n]]
        /\ words' = [words EXCEPT ![list[Len(list)]].next = n, ![n] = Empty]
        /\ list' = Append(list, n)
  BY DEF Open
<1> DEFINE n == Min(Nodes \ OnList)
<1>2. n \in Nodes /\ n \notin OnList /\ n \in Int
  <2>1. Nodes # OnList /\ OnList \subseteq Nodes
    BY LinkedIs DEF Open, OnList
  <2>2. Nodes \ OnList \in SUBSET Nat /\ Nodes \ OnList # {}
    BY <2>1, NodesAssumption
  <2>3. n \in Nodes \ OnList
    BY <2>2, MinIs
  <2> QED
    BY <2>2, <2>3
<1>3. \A i \in 1..L : list[i] # n /\ list[i] \in Nodes
  BY <1>2, LinkedIs DEF OnList
<1> HIDE DEF n
<1>4. /\ image' = [image EXCEPT ![s] = [file |-> f, mapped |-> 0, node |-> n]]
      /\ words' = [[words EXCEPT ![last] = [words[last] EXCEPT !.next = n]] EXCEPT ![n] = Empty]
      /\ list' = Append(list, n)
  BY <1>1 DEF n
<1>5. L \in Nat /\ L >= 1 /\ last \in Nodes /\ last # n /\ words[last] \in [WordNames -> Int]
  BY <1>3, LinkedIs
<1>6. /\ list' \in Seq(Nodes) /\ Len(list') = L + 1 /\ list'[L + 1] = n
      /\ \A i \in 1..L : list'[i] = list[i]
  BY <1>2, <1>4, LinkedIs
<1> HIDE DEF L, last
<1>7. [words[last] EXCEPT !.next = n] \in [WordNames -> Int] /\ [words[last] EXCEPT !.next = n].next = n
  BY <1>2, <1>5, LinkedIs
<1>8. words \in [Nodes -> [WordNames -> Int]]
  BY DEF TargetOK
<1>9. /\ words' \in [Nodes -> [WordNames -> Int]]
      /\ words'[n] = Empty /\ words'[last] = [words[last] EXCEPT !.next = n]
      /\ \A m \in Nodes : m # n /\ m # last => words'[m] = words[m]
  BY <1>2, <1>4, <1>5, <1>7, <1>8, EmptyIs
<1>10. \A i \in 1..(L + 1) : words'[list'[i]].next = IF i = L + 1 THEN 0 ELSE list'[i + 1]
  <2> SUFFICES ASSUME NEW i \in 1..(L + 1)
               PROVE  words'[list'[i]].next = IF i = L + 1 THEN 0 ELSE list'[i + 1]
    OBVIOUS
  <2>1. CASE i = L + 1
    BY <1>6, <1>9, <2>1, EmptyIs
  <2>2. CASE i = L
    <3>1. L \in 1..L /\ L # L + 1
      BY <1>5
    <3>2. list'[L] = last /\ list'[L + 1] = n
      BY <1>6, <3>1 DEF last
    <3> QED
      BY <1>7, <1>9, <2>2, <3>1, <3>2
  <2>3. CASE i < L
    <3>1. i \in 1..L /\ L \in 1..L /\ i + 1 \in 1..L /\ i # L + 1 /\ i # L
      BY <1>5, <2>3
    <3>2. list'[i] = list[i] /\ list'[i + 1] = list[i + 1]
      BY <1>6, <3>1
    <3>3. list[i] # last /\ words[list[i]].next = list[i + 1]
      BY <3>1 DEF TargetOK, Linked, last, L
    <3>4. list[i] \in Nodes /\ list[i] # n
      BY <1>3, <3>1 DEF L
    <3>5. words'[list'[i]] = words[list[i]]
      BY <1>9, <3>2, <3>3, <3>4
    <3> QED
      BY <3>1, <3>2, <3>3, <3>5
  <2> QED
    BY <1>5, <2>1, <2>2, <2>3
<1>11. \A i, j \in 1..(L + 1) : list'[i] = list'[j] => i = j
  <2>1. \A i, j \in 1..L : list[i] = list[j] => i = j
    BY DEF TargetOK, Linked, L
  <2>2. \A i \in 1..(L + 1) : i \in 1..L \/ i = L + 1
    BY <1>5
  <2>3. \A i \in 1..L : list[i] # n
    BY <1>3 DEF L
  <2> QED
    BY <1>6, <2>1, <2>2, <2>3
<1>12. list'[1] = solist
  <2>1. 1 \in 1..L
    BY <1>5
  <2> QED
    BY <1>6, <2>1 DEF TargetOK, Linked
<1>13. Linked'
  BY <1>5, <1>6, <1>10, <1>11, <1>12 DEF Linked, solist
<1>14. f \in DOMAIN Files /\ s \in Slots
  BY DEF Openable
<1>15. image' \in [Slots -> Loaded \cup {NoImage}]
       /\ \A t \in Slots : image'[t].mapped <= Segs(image'[t].file)
  <2>1. Segs(f) \in Nat
    BY <1>14, SegsIs
  <2> DEFINE new == [file |-> f, mapped |-> 0, node |-> n]
  <2>2. new \in Loaded /\ new.mapped <= Segs(new.file)
    BY <1>2, <1>14, <2>1 DEF Loaded
  <2>3. image' = [image EXCEPT ![s] = new]
    BY <1>4
  <2> HIDE DEF new
  <2> QED
    BY <1>14, <2>2, <2>3 DEF TargetOK
<1>16. layout' \in Layouts
  BY DEF Open, TargetOK
<1> QED
  BY <1>6, <1>9, <1>13, <1>15, <1>16 DEF TargetOK, L

LEMMA MapSegmentKeeps ==
  ASSUME TargetOK, MapSegment
  PROVE  TargetOK' /\ list' = list
<1>1. PICK s \in Used : /\ image[s].mapped < Segs(image[s].file)
                        /\ image' = [image EXCEPT ![s].mapped = @ + 1]
  BY DEF MapSegment
<1>2. UNCHANGED <<layout, words, list>>
  BY DEF MapSegment
<1>3. s \in Slots /\ image[s] \in Loaded
  BY DEF TargetOK, Used
<1>4. image[s].mapped \in Nat /\ Segs(image[s].file) \in Nat
  BY UsedIs, SegsIs
<1> DEFINE new == [image[s] EXCEPT !.mapped = image[s].mapped + 1]
<1>5. new \in Loaded /\ new.mapped = image[s].mapped + 1 /\ new.file = image[s].file
  BY <1>3, <1>4 DEF Loaded
<1>6. image' = [image EXCEPT ![s] = new]
  BY <1>1
<1>7. new.mapped <= Segs(new.file)
  BY <1>1, <1>4, <1>5
<1> HIDE DEF new
<1>8. image' \in [Slots -> Loaded \cup {NoImage}]
      /\ \A t \in Slots : image'[t].mapped <= Segs(image'[t].file)
  BY <1>3, <1>5, <1>6, <1>7 DEF TargetOK
<1> QED
  BY <1>2, <1>8 DEF TargetOK, Linked

LEMMA LinkKeeps ==
  ASSUME TargetOK, Link
  PROVE  TargetOK' /\ list' = list
<1>1. PICK s \in Used : words' = [words EXCEPT ![image[s].node] = Filled(image[s].file, s, @.next)]
  BY DEF Link
<1>2. UNCHANGED <<layout, image, list>>
  BY DEF Link
<1> DEFINE n == image[s].node
           F == Filled(image[s].file, s, words[n].next)
<1>3. s \in Slots /\ n \in Nodes /\ image[s].file \in DOMAIN Files
  BY UsedIs
<1>4. words[n].next \in Int
  BY <1>3 DEF TargetOK, WordNames
<1>5. F \in [WordNames -> Int] /\ F.next = words[n].next
  BY <1>3, <1>4, FilledIs
<1>6. words' = [words EXCEPT ![n] = F]
  BY <1>1
<1> HIDE DEF F, n
<1>7. words' \in [Nodes -> [WordNames -> Int]] /\ \A m \in Nodes : words'[m].next = words[m].next
  BY <1>3, <1>5, <1>6 DEF TargetOK
<1>8. Linked'
  <2>1. \A i \in 1..Len(list) : words'[list[i]].next = words[list[i]].next
    BY <1>7, LinkedIs
  <2> QED
    BY <1>2, <2>1 DEF TargetOK, Linked
<1> QED
  BY <1>2, <1>7, <1>8 DEF TargetOK

LEMMA CloseKeeps ==
  ASSUME TargetOK, Close
  PROVE  TargetOK'
<1> DEFINE L == Len(list)
<1>1. PICK s \in Used, i \in 2..Len(list) :
        /\ s \notin {Initially[1].slot, Initially[2].slot}
        /\ image[s].node = list[i]
        /\ image' = [image EXCEPT ![s] = NoImage]
        /\ words' = [words EXCEPT ![list[i - 1]].next = words[list[i]].next]
        /\ list' = RemoveAt(list, i)
  BY DEF Close
<1>2. L \in Nat /\ i - 1 \in 1..L /\ i \in 1..L /\ i >= 2
  BY LinkedIs
<1> DEFINE prev == list[i - 1]
           new == [words[prev] EXCEPT !.next = words[list[i]].next]
<1>3. prev \in Nodes /\ words[prev] \in [WordNames -> Int] /\ words[list[i]].next \in Int
  BY <1>2, LinkedIs
<1>4. words' = [words EXCEPT ![prev] = new] /\ new \in [WordNames -> Int] /\ new.next = words[list[i]].next
  BY <1>1, <1>3, LinkedIs
<1> HIDE DEF new, prev
<1>5. /\ words' \in [Nodes -> [WordNames -> Int]] /\ words'[prev].next = words[list[i]].next
      /\ \A m \in Nodes : m # prev => words'[m] = words[m]
  BY <1>3, <1>4 DEF TargetOK
<1>6. /\ list' \in Seq(Nodes) /\ Len(list') = L - 1
      /\ \A j \in 1..(L - 1) : list'[j] = IF j < i THEN list[j] ELSE list[j + 1]
  BY <1>1, <1>2, RemovedIs DEF TargetOK, Linked
<1>7. /\ \A j, k \in 1..L : list[j] = list[k] => j = k
      /\ \A j \in 1..L : words[list[j]].next = IF j = L THEN 0 ELSE list[j + 1]
      /\ \A j \in 1..L : list[j] \in Nodes
      /\ list[1] = solist
  BY LinkedIs DEF TargetOK, Linked
<1> HIDE DEF L
<1>8. Len(list') >= 1 /\ list'[1] = solist
  BY <1>2, <1>6, <1>7
<1>9. \A j, k \in 1..(L - 1) : list'[j] = list'[k] => j = k
  <2> SUFFICES ASSUME NEW j \in 1..(L - 1), NEW k \in 1..(L - 1), list'[j] = list'[k] PROVE j = k
    OBVIOUS
  <2> DEFINE at(x) == IF x < i THEN x ELSE x + 1
  <2>1. at(j) \in 1..L /\ at(k) \in 1..L /\ list'[j] = list[at(j)] /\ list'[k] = list[at(k)]
    BY <1>2, <1>6
  <2>2. at(j) = at(k)
    BY <1>7, <2>1
  <2> QED
    BY <1>2, <2>2
<1>10. \A j \in 1..(L - 1) : words'[list'[j]].next = IF j = L - 1 THEN 0 ELSE list'[j + 1]
  <2> SUFFICES ASSUME NEW j \in 1..(L - 1) PROVE words'[list'[j]].next = IF j = L - 1 THEN 0 ELSE list'[j + 1]
    OBVIOUS
  <2>1. CASE j = i - 1
    <3>1. list'[j] = prev /\ words'[prev].next = IF i = L THEN 0 ELSE list[i + 1]
      BY <1>2, <1>5, <1>6, <1>7, <2>1 DEF prev
    <3>2. i # L => j + 1 \in 1..(L - 1) /\ ~(j + 1 < i) /\ j + 1 + 1 = i + 1
      BY <1>2, <2>1
    <3>3. i # L => list'[j + 1] = list[i + 1]
      BY <1>6, <3>2
    <3> QED
      BY <1>2, <2>1, <3>1, <3>3
  <2>2. CASE j < i - 1
    <3>1. /\ j \in 1..L /\ j # i - 1 /\ j # L /\ j < i /\ j + 1 < i /\ j + 1 \in 1..(L - 1) /\ j # L - 1
      BY <1>2, <2>2
    <3>2. list'[j] = list[j] /\ list'[j + 1] = list[j + 1] /\ list[j] # prev /\ list[j] \in Nodes
      BY <1>2, <1>6, <1>7, <3>1 DEF prev
    <3> QED
      BY <1>5, <1>7, <3>1, <3>2
  <2>3. CASE j > i - 1
    <3>1. /\ ~(j < i) /\ j + 1 \in 1..L /\ j + 1 # i - 1
      BY <1>2, <2>3
    <3>2. list'[j] = list[j + 1] /\ list[j + 1] # prev /\ list[j + 1] \in Nodes
      BY <1>2, <1>6, <1>7, <3>1 DEF prev
    <3>3. words'[list'[j]].next = IF j + 1 = L THEN 0 ELSE list[j + 1 + 1]
      BY <1>5, <1>7, <3>1, <3>2
    <3>4. j # L - 1 => j + 1 \in 1..(L - 1) /\ ~(j + 1 < i) /\ j + 1 # L
      BY <1>2, <2>3
    <3>5. j # L - 1 => list'[j + 1] = list[j + 1 + 1]
      BY <1>6, <3>4
    <3>6. j = L - 1 => j + 1 = L
      BY <1>2
    <3> QED
      BY <3>3, <3>4, <3>5, <3>6
  <2> QED
    BY <1>2, <2>1, <2>2, <2>3
<1>11. Linked'
  BY <1>6, <1>8, <1>9, <1>10 DEF Linked, solist
<1>12. image' \in [Slots -> Loaded \cup {NoImage}] /\ \A t \in Slots : image'[t].mapped <= Segs(image'[t].file)
  <2>1. NoImage.mapped <= Segs(NoImage.file)
    BY DEF NoImage, Segs
  <2> QED
    BY <1>1, <2>1 DEF TargetOK
<1>13. layout' \in Layouts
  BY DEF Close, TargetOK
<1> QED
  BY <1>5, <1>11, <1>12, <1>13 DEF TargetOK

\* Only what the linker is made of decides whether all is well with it.
LEMMA TargetSame ==
  ASSUME TargetOK, UNCHANGED <<layout, image, words, list>>
  PROVE  TargetOK'
BY DEF TargetOK, Linked, Loaded

-----------------------------------------------------------------------------
(* SoInfo: the walk along the linker's list.                               *)

\* A walk that knows the way has come as far along the list as it has noted
\* soinfos; what it began with has not left the list, and it stops behind that only.
OnItsWay ==
  /\ \A n \in Nodes : Readable(somaps, n)
  /\ Len(before) \in 0..Len(list) /\ DOMAIN before = 1..Len(before)
  /\ \A i \in 1..Len(before) : before[i] = list[i]
  /\ infos \in Seq({infos[i] : i \in DOMAIN infos}) /\ Len(infos) \in 0..Len(list)
  /\ \A i \in 1..Len(infos) : infos[i].ptr = list[i]
  /\ pc = "walk" => \/ si = 0 /\ Len(before) <= Len(infos)
                    \/ Len(infos) < Len(list) /\ si = list[Len(infos) + 1]
  /\ pc = "step" => Len(infos) >= 1 /\ si = list[Len(infos)]

WalkInv ==
  /\ pc \in {"idle", "learn", "next", "heads", "walk", "step"}
  /\ pc \in {"learn", "next", "heads"} => infos = <<>>
  /\ pc \in {"walk", "step"} /\ "closed" \notin moved /\ LearntTheList => OnItsWay
  /\ LearntTheList => WalkWhole

\* The word at an offset of a soinfo is the one the layout has there.
LEMMA WordIs ==
  ASSUME TargetOK, NEW n \in Nodes, NEW k \in 0..(Len(layout) - 1)
  PROVE  Word(n + k) = words[n][layout[k + 1]]
<1>1. layout \in Layouts
  BY DEF TargetOK
<1>2. layout \in Seq(STRING) /\ \A m, o \in Nodes : m < o => m + Len(layout) <= o
  BY <1>1, NodesAssumption
<1>3. Len(layout) \in Nat /\ n \in Nat /\ k \in Nat /\ Nodes \subseteq Nat
  BY <1>2, NodesAssumption
<1> DEFINE at == n + k
           c == CHOOSE m \in Nodes : at \in m..(m + Len(layout) - 1)
<1>4. at \in n..(n + Len(layout) - 1)
  BY <1>3
<1>5. \A m \in Nodes : at \in m..(m + Len(layout) - 1) => m = n
  <2> SUFFICES ASSUME NEW m \in Nodes, at \in m..(m + Len(layout) - 1), m # n PROVE FALSE
    OBVIOUS
  <2>1. m \in Nat /\ (m < n => m + Len(layout) <= n) /\ (n < m => n + Len(layout) <= m)
    BY <1>2, <1>3
  <2> QED
    BY <1>3, <1>4, <2>1
<1>6. c = n
  BY <1>4, <1>5
<1>7. Word(at) = words[c][layout[at - c + 1]]
  BY <1>4 DEF Word
<1>8. at - n + 1 = k + 1
  BY <1>3
<1> HIDE DEF at, c
<1> QED
  BY <1>6, <1>7, <1>8 DEF at

\* A sequence of whatever it is of, with one more element.
LEMMA Noted ==
  ASSUME NEW s, s \in Seq({s[i] : i \in DOMAIN s}), NEW e
  PROVE  LET t == Append(s, e) IN
         /\ Len(s) \in Nat /\ DOMAIN s = 1..Len(s)
         /\ t \in Seq({t[i] : i \in DOMAIN t}) /\ Len(t) = Len(s) + 1 /\ DOMAIN t = 1..(Len(s) + 1)
         /\ t[Len(s) + 1] = e /\ \A i \in 1..Len(s) : t[i] = s[i]
<1> DEFINE T == {s[i] : i \in DOMAIN s}
           t == Append(s, e)
<1>1. s \in Seq(T \cup {e})
  OBVIOUS
<1> HIDE DEF T
<1>2. /\ t \in Seq(T \cup {e}) /\ DOMAIN t = 1..(Len(s) + 1) /\ Len(t) = Len(s) + 1
      /\ \A i \in 1..Len(s) : t[i] = s[i]
      /\ t[Len(s) + 1] = e /\ DOMAIN s = 1..Len(s) /\ Len(s) \in Nat
  BY <1>1
<1>3. T \cup {e} = {t[i] : i \in DOMAIN t}
  <2>1. \A i \in DOMAIN t : i \in DOMAIN s \/ i = Len(s) + 1
    BY <1>2
  <2>2. \A i \in DOMAIN s : i \in DOMAIN t /\ t[i] = s[i]
    BY <1>2
  <2>3. Len(s) + 1 \in DOMAIN t
    BY <1>2
  <2> QED
    BY <1>2, <2>1, <2>2, <2>3 DEF T
<1> QED
  BY <1>2, <1>3

LEMMA WalkStarts ==
  ASSUME TargetOK, WalkInv, AllSoInfo
  PROVE  WalkInv'
<1>1. /\ somaps' = Maps /\ si' = sohead.at /\ infos' = <<>> /\ before' = list /\ moved' = {} /\ pc' = "walk"
      /\ UNCHANGED <<layout, image, words, list, offs, sohead>>
  BY DEF AllSoInfo, Start
<1>2. \A n \in Nodes : Readable(Maps, n)
  BY NodesReadable
<1>3. list \in Seq(Nodes) /\ Len(list) \in Nat /\ Len(list) >= 1 /\ DOMAIN list = 1..Len(list) /\ list[1] = solist
  BY LinkedIs DEF TargetOK, Linked
<1>4. LearntTheList' => OnItsWay'
  BY <1>1, <1>2, <1>3 DEF OnItsWay, LearntTheList, Is, solist, Readable
<1> QED
  BY <1>1, <1>4 DEF WalkInv, WalkWhole, Walked

LEMMA WalkNotes ==
  ASSUME TargetOK, WalkInv, WalkInfo
  PROVE  WalkInv'
<1>1. /\ pc = "walk" /\ UNCHANGED <<target, setup, offs, sohead, before>>
      /\ IF si = 0 \/ ~Readable(somaps, si) THEN WalkEnd /\ UNCHANGED infos
         ELSE pc' = "step" /\ infos' = Append(infos, InfoFromSoInfo(si)) /\ UNCHANGED <<si, somaps>>
  BY DEF WalkInfo
<1>2. LearntTheList' = LearntTheList /\ moved' = moved /\ list' = list
  BY <1>1 DEF LearntTheList, Is, target, solist
<1>3. pc' \in {"idle", "step"}
  BY <1>1 DEF WalkEnd
<1>4. ASSUME LearntTheList, "closed" \notin moved
      PROVE  (pc' = "step" => OnItsWay') /\ WalkWhole'
  <2>1. OnItsWay
    BY <1>1, <1>4 DEF WalkInv
  <2>2. /\ Len(before) \in 0..Len(list) /\ DOMAIN before = 1..Len(before) /\ Len(list) \in Nat
        /\ infos \in Seq({infos[i] : i \in DOMAIN infos}) /\ Len(infos) \in 0..Len(list)
        /\ \A i \in 1..Len(infos) : infos[i].ptr = list[i]
        /\ \A i \in 1..Len(before) : before[i] = list[i]
        /\ \A i \in 1..Len(list) : list[i] \in Nodes
    BY <2>1, LinkedIs DEF OnItsWay
  <2>3. DOMAIN infos = 1..Len(infos)
    BY <2>2, Noted
  <2>4. CASE si = 0 /\ Len(before) <= Len(infos)
    <3>1. pc' = "idle" /\ infos' = infos /\ before' = before
      BY <1>1, <2>4 DEF WalkEnd
    <3>2. \A i \in DOMAIN before : i \in DOMAIN infos /\ infos[i].ptr = before[i]
      BY <2>2, <2>3, <2>4
    <3> QED
      BY <3>1, <3>2 DEF WalkWhole
  <2>5. CASE Len(infos) < Len(list) /\ si = list[Len(infos) + 1]
    <3> DEFINE k == Len(infos) + 1
    <3>1. k \in 1..Len(list) /\ k >= 1 /\ si \in Nodes
      BY <2>2, <2>5
    <3>2. si # 0 /\ Readable(somaps, si)
      BY <3>1, <2>1, NodesAssumption DEF OnItsWay
    <3>3. pc' = "step" /\ infos' = Append(infos, InfoFromSoInfo(si)) /\ UNCHANGED <<si, somaps, before>>
      BY <1>1, <3>2
    <3>4. InfoFromSoInfo(si).ptr = si
      BY DEF InfoFromSoInfo
    <3>5. /\ infos' \in Seq({infos'[i] : i \in DOMAIN infos'}) /\ Len(infos') = k
          /\ infos'[k].ptr = si /\ \A i \in 1..Len(infos) : infos'[i] = infos[i]
      <4> DEFINE new == InfoFromSoInfo(si)
      <4>1. infos' = Append(infos, new) /\ new.ptr = si
        BY <3>3, <3>4
      <4> HIDE DEF new
      <4>2. /\ infos' \in Seq({infos'[i] : i \in DOMAIN infos'}) /\ Len(infos') = Len(infos) + 1
            /\ infos'[Len(infos) + 1] = new /\ \A i \in 1..Len(infos) : infos'[i] = infos[i]
        <5> DEFINE t == Append(infos, new)
        <5>1. /\ t \in Seq({t[i] : i \in DOMAIN t}) /\ Len(t) = Len(infos) + 1
              /\ t[Len(infos) + 1] = new /\ \A i \in 1..Len(infos) : t[i] = infos[i]
          <6>1. infos \in Seq({infos[i] : i \in DOMAIN infos})
            BY <2>2
          <6> QED
            BY <6>1, Noted
        <5> HIDE DEF t
        <5> QED
          BY <4>1, <5>1 DEF t
      <4> QED
        BY <4>1, <4>2
    <3>6. \A i \in 1..k : infos'[i].ptr = list[i]
      <4> SUFFICES ASSUME NEW i \in 1..k PROVE infos'[i].ptr = list[i]
        OBVIOUS
      <4>1. i = k \/ i \in 1..Len(infos)
        BY <2>2
      <4> QED
        BY <2>2, <2>5, <3>5, <4>1
    <3>7. k \in 0..Len(list) /\ si = list[k]
      BY <3>1, <2>5
    <3>8. \A n \in Nodes : Readable(somaps, n)'
      BY <2>1, <3>3 DEF OnItsWay, Readable
    <3> HIDE DEF k
    <3>9. OnItsWay'
      BY <1>2, <2>2, <3>1, <3>3, <3>5, <3>6, <3>7, <3>8 DEF OnItsWay
    <3> QED
      BY <3>3, <3>9 DEF WalkWhole, Walked
  <2> QED
    BY <1>1, <2>1, <2>4, <2>5 DEF OnItsWay
<1> QED
  BY <1>1, <1>2, <1>3, <1>4 DEF WalkInv, WalkWhole

LEMMA WalkSteps ==
  ASSUME TargetOK, WalkInv, WalkStep
  PROVE  WalkInv'
<1> DEFINE next == Word(si + offs.next)
<1>1. /\ pc = "step" /\ UNCHANGED <<target, setup, offs, sohead, infos, before>>
      /\ IF next = si THEN WalkEnd ELSE pc' = "walk" /\ si' = next /\ UNCHANGED somaps
  BY DEF WalkStep
<1>2. LearntTheList' = LearntTheList /\ moved' = moved /\ list' = list
  BY <1>1 DEF LearntTheList, Is, target, solist
<1>3. pc' \in {"idle", "walk"}
  BY <1>1 DEF WalkEnd
<1>4. ASSUME LearntTheList, "closed" \notin moved
      PROVE  pc' = "walk" /\ OnItsWay'
  <2>1. OnItsWay
    BY <1>1, <1>4 DEF WalkInv
  <2> DEFINE k == Len(infos)
  <2>2. /\ Len(list) \in Nat /\ k \in 1..Len(list) /\ si = list[k] /\ si \in Nodes
        /\ Len(before) \in 0..Len(list)
    BY <1>1, <2>1, LinkedIs DEF OnItsWay
  <2>3. next = IF k = Len(list) THEN 0 ELSE list[k + 1]
    <3>1. next = words[si].next
      BY <1>4, <2>2, WordIs DEF LearntTheList, Is
    <3> QED
      BY <2>2, <3>1 DEF TargetOK, Linked
  <2>4. next # si
    <3>1. si # 0
      BY <2>2, NodesAssumption
    <3>2. k # Len(list) => k + 1 \in 1..Len(list) /\ k # k + 1
      BY <2>2
    <3>3. k # Len(list) => list[k + 1] # list[k]
      BY <2>2, <3>2 DEF TargetOK, Linked
    <3> QED
      BY <2>2, <2>3, <3>1, <3>3
  <2>5. pc' = "walk" /\ si' = next /\ UNCHANGED <<somaps, infos, before>>
    BY <1>1, <2>4
  <2>6. \/ next = 0 /\ Len(before) <= k
        \/ k < Len(list) /\ next = list[k + 1]
    BY <2>2, <2>3
  <2>7. \A n \in Nodes : Readable(somaps, n)'
    BY <2>1, <2>5 DEF OnItsWay, Readable
  <2> HIDE DEF next
  <2> QED
    BY <1>2, <2>1, <2>5, <2>6, <2>7 DEF OnItsWay
<1>5. pc' = "walk" => WalkWhole'
  BY DEF WalkWhole, Walked
<1> QED
  BY <1>1, <1>2, <1>3, <1>4, <1>5 DEF WalkInv, WalkWhole

\* What the scanner does before it walks notes nothing.
LEMMA LearningKeeps ==
  ASSUME WalkInv, InitRead \/ InitLearn \/ InitNext \/ SearchStart \/ SearchHead \/ SearchEnd
  PROVE  WalkInv'
<1>1. pc' \in {"idle", "learn", "next", "heads"} /\ infos' = <<>>
  <2>1. CASE InitRead
    BY <2>1 DEF InitRead
  <2>2. CASE InitLearn
    <3>1. pc = "learn" /\ infos' = infos /\ pc' \in {"idle", "next"}
      BY <2>2 DEF InitLearn
    <3> QED
      BY <3>1 DEF WalkInv
  <2>3. CASE InitNext
    BY <2>3 DEF InitNext, WalkInv
  <2>4. CASE SearchStart
    BY <2>4 DEF SearchStart
  <2>5. CASE SearchHead
    <3>1. pc = "heads" /\ infos' = infos /\ pc' = pc
      BY <2>5 DEF SearchHead
    <3> QED
      BY <3>1 DEF WalkInv
  <2>6. CASE SearchEnd
    BY <2>6 DEF SearchEnd, WalkInv
  <2> QED
    BY <2>1, <2>2, <2>3, <2>4, <2>5, <2>6
<1> QED
  BY <1>1 DEF WalkInv, WalkWhole, Walked

LEMMA LinkerKeepsWalk ==
  ASSUME TargetOK, WalkInv, TargetNext, UNCHANGED <<scan, setup>>
  PROVE  TargetOK' /\ WalkInv'
<1>1. UNCHANGED <<offs, sohead, pc, somaps, si, infos, before, decoys>>
  BY DEF scan, setup
<1>2. CASE Close
  <2>1. "closed" \in moved'
    BY <1>2 DEF Close
  <2> QED
    BY <1>1, <1>2, <2>1, CloseKeeps DEF WalkInv, WalkWhole
<1>3. CASE Open \/ MapSegment \/ Link
  <2>1. layout' = layout /\ moved' = moved \cup {"opened"}
    BY <1>3 DEF Open, MapSegment, Link
  <2>2. TargetOK' /\ Len(list') >= Len(list) /\ \A i \in 1..Len(list) : list'[i] = list[i]
    BY <1>3, OpenKeeps, MapSegmentKeeps, LinkKeeps, LinkedIs
  <2>3. Len(list) \in Nat /\ Len(list') \in Nat
    BY <2>2, LinkedIs DEF TargetOK, Linked
  <2>4. (LearntTheList' = LearntTheList) /\ ("closed" \in moved' <=> "closed" \in moved)
    BY <1>1, <2>1 DEF LearntTheList, Is, solist
  <2>5. ASSUME OnItsWay PROVE OnItsWay'
    <3>1. \A n \in Nodes : Readable(somaps, n)'
      BY <1>1, <2>5 DEF OnItsWay, Readable
    <3>2. /\ Len(before) \in 0..Len(list) /\ Len(infos) \in 0..Len(list)
      BY <2>5 DEF OnItsWay
    <3>3. /\ \A i \in 1..Len(before) : before[i] = list'[i]
          /\ \A i \in 1..Len(infos) : infos[i].ptr = list'[i]
      BY <2>2, <2>3, <2>5, <3>2 DEF OnItsWay
    <3>4. Len(infos) < Len(list) => list'[Len(infos) + 1] = list[Len(infos) + 1]
      BY <2>2, <2>3, <3>2
    <3>5. Len(infos) >= 1 => list'[Len(infos)] = list[Len(infos)]
      BY <2>2, <2>3, <3>2
    <3>6. Len(before) \in 0..Len(list') /\ Len(infos) \in 0..Len(list') /\ (Len(infos) < Len(list) => Len(infos) < Len(list'))
      BY <2>2, <2>3, <3>2
    <3> QED
      BY <1>1, <2>5, <3>1, <3>3, <3>4, <3>5, <3>6 DEF OnItsWay
  <2>6. WalkWhole => WalkWhole'
    BY <1>1, <2>4 DEF WalkWhole, Walked
  <2> QED
    BY <1>1, <2>2, <2>4, <2>5, <2>6 DEF WalkInv
<1> QED
  BY <1>2, <1>3 DEF TargetNext

\* WalkWhole, for every process, every layout of a soinfo and whatever the linker
\* does meanwhile: once the head of the list and the word that leads from one soinfo
\* to the next are known, a walk during which nothing is closed comes by every soinfo
\* that was on the list when it began, in the list's order, however the list grows.
THEOREM WalkIsWhole == SoInfoSpec => [](LearntTheList => WalkWhole)
<1>1. TargetInit /\ SoInfoInit => TargetOK /\ WalkInv
  BY InitialTarget DEF SoInfoInit, WalkInv, WalkWhole, Walked
<1>2. /\ TargetOK /\ WalkInv
      /\ [SoInfoNext \/ (TargetNext /\ UNCHANGED <<scan, setup>>)]_<<target, scan, setup>>
      => TargetOK' /\ WalkInv'
  <2> SUFFICES ASSUME TargetOK, WalkInv,
                      [SoInfoNext \/ (TargetNext /\ UNCHANGED <<scan, setup>>)]_<<target, scan, setup>>
               PROVE  TargetOK' /\ WalkInv'
    OBVIOUS
  <2>1. CASE TargetNext /\ UNCHANGED <<scan, setup>>
    BY <2>1, LinkerKeepsWalk
  <2>2. CASE UNCHANGED <<target, scan, setup>>
    <3>1. TargetOK'
      BY <2>2, TargetSame DEF target
    <3>2. WalkInv'
      BY <2>2 DEF target, scan, setup, WalkInv, WalkWhole, Walked, LearntTheList, Is, OnItsWay, solist, Readable
    <3> QED
      BY <3>1, <3>2
  <2>3. CASE SoInfoNext
    <3>1. UNCHANGED <<layout, image, words, list>>
      BY <2>3 DEF SoInfoNext, InitRead, InitLearn, InitNext, SearchStart, SearchHead, SearchEnd, AllSoInfo,
                  WalkInfo, WalkStep, target
    <3>2. TargetOK'
      BY <3>1, TargetSame
    <3>3. WalkInv'
      BY <2>3, WalkStarts, WalkNotes, WalkSteps, LearningKeeps DEF SoInfoNext
    <3> QED
      BY <3>2, <3>3
  <2> QED
    BY <2>1, <2>2, <2>3
<1>3. WalkInv => (LearntTheList => WalkWhole)
  BY DEF WalkInv
<1> QED
  BY <1>1, <1>2, <1>3, PTL DEF SoInfoSpec

-----------------------------------------------------------------------------
(* ElfSearch: what is found as long as the linker rests.                   *)

\* What is read at an address now.
Read(s) == FromBase(Maps, s, ImageAt(s))

LEMMA FileIs ==
  ASSUME NEW f \in DOMAIN Files
  PROVE  /\ Files[f].inode \in Nat \ {0} /\ Files[f].machine \in Nat \ {0} /\ Files[f].dyns # {}
         /\ ~Files[f].phdrs[1].w
BY FilesAssumption

\* The map an image begins with.
FrontMap(s) == SegmentMap(s, 1)

LEMMA FrontFound ==
  ASSUME TargetOK, NEW s \in Used, image[s].mapped # 0
  PROVE  LET f == image[s].file IN
         /\ f \in DOMAIN Files /\ image[s].mapped \in 1..Segs(f) /\ s \in Nat \ {0}
         /\ FrontMap(s) \in Maps /\ FrontMap(s).start = s /\ FrontMap(s).end \in Nat /\ FrontMap(s).end <= s + Span(s)
         /\ FrontMap(s).r = TRUE /\ FrontMap(s).w = FALSE /\ FrontMap(s).path = f
         /\ FrontMap(s).inode = Files[f].inode /\ AddressMap(Maps, s) = FrontMap(s)
<1> DEFINE f == image[s].file
           m == FrontMap(s)
<1>1. f \in DOMAIN Files /\ image[s].mapped \in 0..Segs(f) /\ s \in Nat \ {0}
  BY UsedIs
<1>2. Segs(f) \in Nat \ {0}
  BY <1>1, SegsIs
<1>3. image[s].mapped \in 1..Segs(f) /\ 1 \in 1..Segs(f) /\ 1 \in 1..image[s].mapped
  BY <1>1, <1>2
<1>4. m \in Maps
  BY <1>3 DEF Maps, MapsOf, FrontMap
<1>5. /\ m.start = s /\ m.r = TRUE /\ m.path = f /\ m.inode = Files[f].inode
      /\ m.end \in Nat /\ m.start < m.end /\ m.end <= s + Span(s)
  BY <1>3, SegmentIs DEF FrontMap
<1>6. m.w = FALSE
  <2>1. m.w = Files[f].phdrs[1].w
    BY DEF SegmentMap, FrontMap
  <2> DEFINE Header == [type : {"LOAD", "DYNAMIC"}, vaddr : Nat, memsz : Nat \ {0}, filesz : Nat, w : BOOLEAN]
             P == Files[f].phdrs
  <2>2. P \in Seq(Header) /\ 1 \in DOMAIN P
    BY <1>1, <1>3, HeadersAre, FilesAssumption
  <2> HIDE DEF Header, P
  <2>3. P[1] \in Header
    BY <2>2
  <2>4. P[1].w \in BOOLEAN
    BY <2>3 DEF Header
  <2>5. ~P[1].w
    BY <1>1, FileIs DEF P
  <2> QED
    BY <2>1, <2>4, <2>5 DEF P
<1> HIDE DEF m
<1>7. AddressMap(Maps, s) = m
  BY <1>1, <1>4, <1>5, LookedUp
<1> QED
  BY <1>1, <1>3, <1>4, <1>5, <1>6, <1>7 DEF m

\* An image that can be read begins with its first segment.
LEMMA ReadMade ==
  ASSUME TargetOK, NEW s, Read(s) # Invalid
  PROVE  LET f == image[s].file
             m == SegmentMap(s, 1) IN
         /\ s \in Used /\ image[s].mapped \in 1..Segs(f) /\ f \in DOMAIN Files
         /\ m \in Maps /\ m.start = s /\ m.r = TRUE /\ m.w = FALSE /\ m.inode = Files[f].inode
         /\ m.path = f /\ AddressMap(Maps, s) = m /\ Read(s).machine = Files[f].machine
<1> DEFINE f == image[s].file
<1>1. HeaderIsValid(Maps, s, ImageAt(s))
  BY DEF Read, FromBase
<1>2. ImageAt(s) # Absent
  BY <1>1 DEF HeaderIsValid, Absent
<1>3. s \in Slots /\ image[s].mapped # 0
  BY <1>2 DEF ImageAt
<1>4. s \in Used
  BY <1>3 DEF Used, NoImage
<1>5. Read(s).machine = ImageAt(s).machine
  BY <1>1, Zenon DEF Read, FromBase
<1>6. ImageAt(s).machine = Files[f].machine
  BY <1>3 DEF ImageAt
<1> QED
  BY <1>3, <1>4, <1>5, <1>6, FrontFound DEF FrontMap

LEMMA ReadIs ==
  ASSUME TargetOK, NEW s, IsValid(Read(s))
  PROVE  LET f == image[s].file
             m == SegmentMap(s, 1) IN
         /\ s \in Used /\ image[s].mapped \in 1..Segs(f) /\ f \in DOMAIN Files
         /\ m \in Maps /\ m.start = s /\ m.r = TRUE /\ m.w = FALSE /\ m.inode = Files[f].inode
         /\ m.path = f /\ AddressMap(Maps, s) = m
<1>1. Read(s) # Invalid
  BY DEF IsValid, Invalid
<1> QED
  BY <1>1, ReadMade

\* The maps in the range of an image are its own.
LEMMA SegmentsAre ==
  ASSUME TargetOK, NEW s \in Used
  PROVE  Segments(Maps, s, Span(s)) = MapsOf(s)
<1>1. s \in Slots /\ s \in Nat \ {0} /\ Span(s) \in Nat \ {0} /\ image[s].file \in DOMAIN Files
  BY UsedIs
<1>2. ASSUME NEW m \in MapsOf(s) PROVE m \in Segments(Maps, s, Span(s))
  <2>1. m \in Maps
    BY DEF Maps
  <2>2. m.start \in Nat /\ m.end \in Nat /\ s <= m.start /\ m.end <= s + Span(s)
    BY MapsOfIs
  <2> QED
    BY <1>1, <2>1, <2>2 DEF Segments
<1>3. ASSUME NEW m \in Segments(Maps, s, Span(s)) PROVE m \in MapsOf(s)
  <2>1. m \in Maps /\ m.start >= s /\ m.end <= s + Span(s)
    BY DEF Segments
  <2>2. m.start \in Nat /\ m.end \in Nat /\ m.start < m.end
    BY <2>1, StartsPositive
  <2>3. m # SoinfoMap
    <3> SUFFICES ASSUME m = SoinfoMap PROVE FALSE
      OBVIOUS
    <3>1. m.start \in Nodes /\ m.end - 32 \in Nodes
      BY SoinfoMapIs
    <3>2. (\A n \in Nodes : s + Span(s) <= n) \/ \A n \in Nodes : n + 32 <= s
      BY <1>1, SlotsAssumption DEF Span
    <3> QED
      BY <1>1, <2>1, <2>2, <3>1, <3>2
  <2>4. PICK t \in Used : m \in MapsOf(t)
    BY <2>1, <2>3 DEF Maps
  <2>5. t \in Slots /\ t \in Nat /\ Span(t) \in Nat /\ t <= m.start /\ m.end <= t + Span(t) /\ image[t].file \in DOMAIN Files
    BY <2>4, MapsOfIs, UsedIs
  <2>6. (s < t => s + Span(s) <= t) /\ (t < s => t + Span(t) <= s)
    BY <1>1, <2>5, SlotsAssumption DEF Span
  <2>7. s = t
    BY <1>1, <2>1, <2>2, <2>5, <2>6
  <2> QED
    BY <2>4, <2>7
<1> QED
  BY <1>2, <1>3

LEMMA SegmentsAbove ==
  ASSUME NEW f \in DOMAIN Files, NEW i \in 1..Segs(f)
  PROVE  MinVaddr(Files[f].phdrs) <= Files[f].phdrs[i].vaddr
<1> DEFINE v == Files[f].phdrs[1].vaddr
           z == Files[f].phdrs[1].memsz
           w == Files[f].phdrs[i].vaddr
<1>1. Segs(f) \in Nat \ {0} /\ 1 \in 1..Segs(f)
  BY SegsIs
<1>2. v \in Nat /\ z \in Nat \ {0} /\ w \in Nat
  BY <1>1, HeadersAre
<1>3. MinVaddr(Files[f].phdrs) = KT_PAGE_START(v)
  BY SizeIs
<1>4. KT_PAGE_START(v) <= v /\ KT_PAGE_START(v) \in Nat /\ KT_PAGE_START(w) <= w /\ KT_PAGE_START(w) \in Nat
  BY <1>2, PageStart
<1>5. 1 < i => v + z <= KT_PAGE_START(w)
  BY <1>1, HeadersAre
<1>6. i = 1 => w = v
  OBVIOUS
<1> HIDE DEF v, z, w
<1>7. i = 1 \/ 1 < i
  BY <1>1
<1>8. KT_PAGE_START(v) <= w
  BY <1>2, <1>4, <1>5, <1>6, <1>7
<1> QED
  BY <1>3, <1>8 DEF w, v

\* Every address an image has in its segments lies in a map that can be read.
LEMMA SegmentReadable ==
  ASSUME TargetOK, NEW s \in Used, NEW i \in 1..image[s].mapped, NEW a \in Nat,
         LET P == Files[image[s].file].phdrs IN
         P[i].vaddr <= a /\ a < P[i].vaddr + P[i].memsz
  PROVE  /\ s - MinVaddr(Files[image[s].file].phdrs) + a \in Nat
         /\ s <= s - MinVaddr(Files[image[s].file].phdrs) + a
         /\ Readable(Maps, s - MinVaddr(Files[image[s].file].phdrs) + a)
         /\ AddressMap(Maps, s - MinVaddr(Files[image[s].file].phdrs) + a) = SegmentMap(s, i)
<1> DEFINE P == Files[image[s].file].phdrs
           b == s - MinVaddr(P)
           m == SegmentMap(s, i)
           v == P[i].vaddr
           z == P[i].memsz
<1>1. /\ s \in Nat /\ image[s].file \in DOMAIN Files /\ image[s].mapped \in 0..Segs(image[s].file)
      /\ Segs(image[s].file) \in Nat
  BY UsedIs, SegsIs
<1>2. i \in 1..Segs(image[s].file)
  BY <1>1
<1>3. /\ m.start \in Nat /\ m.end \in Nat /\ s <= m.start /\ m.start < m.end /\ m.r = TRUE
  BY <1>2, SegmentIs
<1>4. m \in Maps
  BY DEF Maps, MapsOf
<1>5. v \in Nat /\ z \in Nat \ {0}
  BY <1>1, <1>2, HeadersAre
<1>6. MinVaddr(P) \in Nat
  BY <1>1, SizeIs
<1>7. m.start = KT_PAGE_START(b + v) /\ m.end = KT_PAGE_END(b + v + z)
  BY DEF SegmentMap
<1>8. v <= a /\ a < v + z
  OBVIOUS
<1> HIDE DEF P, m, v, z
<1>9. b \in Int /\ b + v \in Int
  BY <1>1, <1>5, <1>6
<1>10. b + v \in Nat /\ MinVaddr(P) <= v
  <2>1. \A j \in 1..Segs(image[s].file) : MinVaddr(P) <= P[j].vaddr
    BY <1>1, SegmentsAbove DEF P
  <2> QED
    BY <1>1, <1>2, <1>5, <1>6, <2>1 DEF v
<1>11. KT_PAGE_START(b + v) <= b + v
  BY <1>10, PageStart
<1>12. b + v + z \in Nat
  BY <1>5, <1>10
<1>13. KT_PAGE_END(b + v + z) >= b + v + z
  BY <1>12, PageEnd
<1>14. b + a \in Nat /\ m.start <= b + a /\ b + a < m.end /\ s <= b + a
  BY <1>1, <1>3, <1>5, <1>6, <1>7, <1>8, <1>9, <1>10, <1>11, <1>13
<1>15. AddressMap(Maps, b + a) = m
  BY <1>3, <1>4, <1>14, LookedUp
<1> QED
  BY <1>3, <1>14, <1>15 DEF Readable, P, m
\* The dynamic section of an image that is complete can be read.
LEMMA DynamicThere ==
  ASSUME TargetOK, NEW s \in Used, Complete(s)
  PROVE  LET P == Files[image[s].file].phdrs
             d == P[Min(Dynamics(P))]
             a == s - MinVaddr(P) + d.vaddr IN
         /\ Dynamics(P) # {} /\ d.vaddr \in Nat \ {0} /\ a \in Nat /\ s <= a /\ CanRead(Maps, a, d.memsz)
         /\ \E i \in 1..image[s].mapped : AddressMap(Maps, a) = SegmentMap(s, i)
<1> DEFINE f == image[s].file
           P == Files[f].phdrs
           bias == s - MinVaddr(P)
           d == P[Min(Dynamics(P))]
<1>1. f \in DOMAIN Files /\ s \in Nat \ {0} /\ image[s].mapped = Segs(f) /\ Segs(f) \in Nat \ {0}
  BY UsedIs, SegsIs DEF Complete
<1>2. Dynamics(P) # {} /\ d.vaddr \in Nat \ {0} /\ d.memsz \in Nat \ {0}
  BY <1>1, FilesAssumption, DynamicIs
<1>3. PICK i \in Loads(P) : P[i].vaddr <= d.vaddr /\ d.vaddr + d.memsz <= P[i].vaddr + P[i].memsz
  BY <1>1, FilesAssumption
<1>4. i \in 1..image[s].mapped
  BY <1>1, SegsIs
<1>5. P[i].vaddr \in Nat /\ P[i].memsz \in Nat
  BY <1>1, <1>4, HeadersAre
<1> DEFINE v == d.vaddr
           z == d.memsz
           e == v + (z - 1)
           V == P[i].vaddr
           Z == P[i].memsz
<1>6. v \in Nat /\ z \in Nat \ {0} /\ V \in Nat /\ Z \in Nat /\ V <= v /\ v + z <= V + Z
  BY <1>2, <1>3, <1>5
<1> HIDE DEF v, V, Z, z
<1>7. v \in Nat /\ P[i].vaddr <= v /\ v < P[i].vaddr + P[i].memsz
  <2>1. V <= v /\ v < V + Z
    BY <1>6
  <2> QED
    BY <1>6, <2>1 DEF V, Z
<1>8. e \in Nat /\ P[i].vaddr <= e /\ e < P[i].vaddr + P[i].memsz
  <2>1. e \in Nat /\ V <= e /\ e < V + Z
    BY <1>6
  <2> QED
    BY <2>1 DEF V, Z
<1> HIDE DEF e
<1>9. /\ bias + v \in Nat /\ s <= bias + v /\ Readable(Maps, bias + v)
      /\ AddressMap(Maps, bias + v) = SegmentMap(s, i)
  <2>1. /\ s - MinVaddr(P) + v \in Nat /\ s <= s - MinVaddr(P) + v
        /\ Readable(Maps, s - MinVaddr(P) + v)
        /\ AddressMap(Maps, s - MinVaddr(P) + v) = SegmentMap(s, i)
    BY <1>4, <1>7, SegmentReadable
  <2> QED
    BY <2>1
<1>10. Readable(Maps, bias + e)
  BY <1>4, <1>8, SegmentReadable
<1>11. bias \in Int
  BY <1>1, SizeIs
<1>12. bias + v + z - 1 = bias + e
  BY <1>6, <1>11 DEF e
<1>13. CanRead(Maps, bias + d.vaddr, d.memsz)
  BY <1>2, <1>9, <1>10, <1>12 DEF CanRead, v, z
<1> QED
  BY <1>2, <1>4, <1>9, <1>13 DEF v

LEMMA ReadShows ==
  ASSUME TargetOK, NEW s, IsValid(Read(s))
  PROVE  LET f == image[s].file IN
         /\ Read(s).base = s /\ Read(s).bias = s - MinVaddr(Files[f].phdrs)
         /\ Read(s).machine = Files[f].machine /\ Read(s).path = f /\ Read(s).inode = Files[f].inode
         /\ Read(s).segments = MapsOf(s) /\ Read(s) # Invalid
         /\ (HasDynamics(Read(s)) <=> Complete(s))
<1> DEFINE f == image[s].file
           P == Files[f].phdrs
           bias == s - MinVaddr(P)
           map == AddressMap(Maps, s)
           segments == Segments(Maps, s, LoadSize(P))
           d == P[Min(Dynamics(P))]
           hasDynamic == /\ Dynamics(P) # {} /\ d.vaddr # 0
                         /\ CanRead(Maps, bias + d.vaddr, d.memsz)
           dyns == IF hasDynamic THEN ImageAt(s).dyns ELSE {}
<1>1. HeaderIsValid(Maps, s, ImageAt(s))
  BY DEF Read, FromBase, IsValid, Invalid
<1>2. /\ s \in Used /\ image[s].mapped \in 1..Segs(f) /\ f \in DOMAIN Files
      /\ map.inode = Files[f].inode /\ map.path = f
  BY ReadIs
<1>3. s \in Slots /\ s \in Nat \ {0} /\ Span(s) = LoadSize(P) /\ Segs(f) \in Nat \ {0}
  BY <1>2, UsedIs, SegsIs DEF Span
<1>4. /\ ImageAt(s).phdrs = P /\ ImageAt(s).machine = Files[f].machine
      /\ ImageAt(s).dyns = IF image[s].mapped = Segs(f) THEN Files[f].dyns ELSE {}
  BY <1>2, <1>3 DEF ImageAt
<1>5. /\ Read(s).base = s /\ Read(s).bias = bias /\ Read(s).machine = ImageAt(s).machine
      /\ Read(s).path = map.path /\ Read(s).inode = map.inode /\ Read(s).segments = segments
      /\ Read(s).dynamic = (IF hasDynamic THEN bias + d.vaddr ELSE 0) /\ Read(s).dyns = dyns
  BY <1>1, <1>4, Zenon DEF Read, FromBase
<1>6. segments = MapsOf(s)
  BY <1>2, <1>3, SegmentsAre
<1>7. ASSUME Complete(s) PROVE HasDynamics(Read(s))
  <2>1. image[s].mapped = Segs(f)
    BY <1>7 DEF Complete
  <2>2. Files[f].dyns # {}
    BY <1>2, FileIs
  <2>3. /\ Dynamics(P) # {} /\ d.vaddr \in Nat \ {0} /\ bias + d.vaddr \in Nat /\ s <= bias + d.vaddr
        /\ CanRead(Maps, bias + d.vaddr, d.memsz)
    BY <1>2, <1>7, DynamicThere
  <2>4. hasDynamic
    BY <2>3
  <2>5. dyns = Files[f].dyns
    BY <1>4, <2>1, <2>4
  <2>6. bias + d.vaddr # 0
    <3> DEFINE a == bias + d.vaddr
    <3>1. a \in Nat /\ s <= a /\ s \in Nat \ {0}
      BY <1>3, <2>3
    <3> HIDE DEF a
    <3>2. a # 0
      BY <3>1
    <3> QED
      BY <3>2 DEF a
  <2> QED
    BY <1>5, <2>2, <2>4, <2>5, <2>6 DEF HasDynamics
<1>8. ASSUME HasDynamics(Read(s)) PROVE Complete(s)
  BY <1>4, <1>5, <1>8 DEF HasDynamics, Complete
<1>9. Read(s) # Invalid
  BY DEF IsValid, Invalid
<1> QED
  BY <1>2, <1>4, <1>5, <1>6, <1>7, <1>8, <1>9

-----------------------------------------------------------------------------
(* The loop over the maps.                                                 *)

LEMMA FrontIs ==
  ASSUME TargetOK, NEW t \in Images
  PROVE  /\ t \in Nat \ {0} /\ t \in Used /\ t \in Slots /\ IsValid(Read(t)) /\ image[t].file \in DOMAIN Files
         /\ FrontMap(t) \in Maps /\ FrontMap(t).start = t
         /\ \A m \in Maps : m.start = t => m = FrontMap(t)
<1>1. t \in Slots /\ IsValid(Read(t))
  BY DEF Images, Read
<1>2. t \in Used /\ FrontMap(t) \in Maps /\ FrontMap(t).start = t /\ image[t].file \in DOMAIN Files
  BY <1>1, ReadIs DEF FrontMap
<1>3. t \in Nat \ {0}
  BY <1>2, UsedIs
<1>4. ASSUME NEW m \in Maps, m.start = t PROVE m = FrontMap(t)
  <2>1. t < m.end /\ t < FrontMap(t).end /\ m.start <= t /\ FrontMap(t).start <= t
    BY <1>2, <1>3, <1>4, StartsPositive
  <2> QED
    BY <1>2, <1>3, <2>1, MapsApart
<1> QED
  BY <1>1, <1>2, <1>3, <1>4

\* How far the loop over the maps has come: what has been found are the images that
\* have been inspected and fit, by address, and lastElfNode is the file of the last
\* one there was.
LoopHolds ==
  /\ maps = Maps /\ todo \subseteq Maps
  /\ \A m \in Maps \ todo : \A n \in todo : m.start < n.start
  /\ elfs \in Seq({elfs[i] : i \in DOMAIN elfs})
  /\ \A i \in 1..Len(elfs) : /\ elfs[i].base \in Inspected /\ FrontMap(elfs[i].base) \notin todo
                             /\ elfs[i] = Read(elfs[i].base) /\ TypeFits(elfs[i])
  /\ \A i, j \in 1..Len(elfs) : i < j => elfs[i].base < elfs[j].base
  /\ \A s \in Inspected : FrontMap(s) \notin todo /\ TypeFits(Read(s)) => \E i \in 1..Len(elfs) : elfs[i].base = s
  /\ \/ lastElfNode = 0 /\ \A s \in Images : FrontMap(s) \in todo
     \/ \E s \in Images : /\ FrontMap(s) \notin todo /\ lastElfNode = Files[image[s].file].inode
                          /\ \A t \in Images : FrontMap(t) \notin todo => t <= s

SettledInv ==
  /\ query \in Queries \cup {NoQuery}
  /\ prog = Invalid \/ prog.machine = Files[MainFile].machine
  /\ settled => \A s \in Slots : cached[s] \in {Invalid, Read(s)}
  /\ settled /\ busy => LoopHolds
  /\ SettledIsBest /\ RemoteSymbolRight

\* As long as the images are the same, so is all that is read of them.
LEMMA Rests ==
  ASSUME image' = image
  PROVE  /\ Maps' = Maps /\ \A s : Read(s)' = Read(s) /\ FrontMap(s)' = FrontMap(s)
         /\ Used' = Used /\ \A s : MapsOf(s)' = MapsOf(s) /\ Complete(s)' = Complete(s)
<1>1. \A s, i : SegmentMap(s, i)' = SegmentMap(s, i)
  BY DEF SegmentMap
<1>2. \A s : Reserved(s)' = Reserved(s) /\ ImageAt(s)' = ImageAt(s) /\ FrontMap(s)' = FrontMap(s) /\ Complete(s)' = Complete(s)
  BY <1>1 DEF Reserved, ImageAt, FrontMap, SegmentMap, Complete
<1>3. \A s : MapsOf(s)' = MapsOf(s)
  BY <1>1, <1>2 DEF MapsOf
<1>4. Used' = Used
  BY DEF Used
<1>5. Maps' = Maps
  BY <1>3, <1>4 DEF Maps
<1> QED
  BY <1>2, <1>3, <1>4, <1>5 DEF Read

LEMMA RestsFor ==
  ASSUME image' = image, query' = query
  PROVE  Images' = Images /\ Inspected' = Inspected
<1>1. \A s : Read(s)' = Read(s)
  BY Rests
<1>2. Images' = Images
  BY <1>1 DEF Images, Read
<1> QED
  BY <1>2 DEF Inspected

\* What the loop reads at a map is what is there now.
LEMMA Looked ==
  ASSUME NEW m, settled, SettledInv, maps = Maps, Look(m)
  PROVE  /\ elfs' = IF IsValid(Read(m.start)) /\ TypeFits(Read(m.start)) THEN Append(elfs, Read(m.start)) ELSE elfs
         /\ lastElfNode' = IF IsValid(Read(m.start)) THEN Read(m.start).inode ELSE lastElfNode
         /\ \A s \in Slots : cached'[s] \in {Invalid, Read(s)}
<1> DEFINE elf == IF CacheHit(m) THEN cached[m.start] ELSE FromBase(maps, m.start, ImageAt(m.start))
<1>1. CacheHit(m) => cached[m.start] = Read(m.start)
  BY DEF CacheHit, SettledInv
<1>2. elf = Read(m.start)
  BY <1>1 DEF Read
<1>3. /\ cached' = [s \in Slots |-> IF s # m.start THEN cached[s] ELSE IF IsValid(elf) THEN elf ELSE Invalid]
      /\ elfs' = IF IsValid(elf) /\ TypeFits(elf) THEN Append(elfs, elf) ELSE elfs
      /\ lastElfNode' = IF IsValid(elf) THEN elf.inode ELSE lastElfNode
  BY DEF Look
<1> HIDE DEF elf
<1>4. \A s \in Slots : cached[s] \in {Invalid, Read(s)}
  BY DEF SettledInv
<1> QED
  BY <1>2, <1>3, <1>4

\* Where no image begins the loop notes nothing.
LEMMA VisitElsewhere ==
  ASSUME TargetOK, SettledInv, settled, LoopHolds, NEW m \in todo, m.start \notin Images,
         IF PassedOver(m) THEN UNCHANGED <<cached, elfs, lastElfNode>> ELSE Look(m)
  PROVE  UNCHANGED <<elfs, lastElfNode>>
<1>1. CASE PassedOver(m)
  BY <1>1
<1>2. CASE ~PassedOver(m) /\ ~IsValid(Read(m.start))
  BY <1>2, Looked DEF LoopHolds
<1>3. CASE IsValid(Read(m.start))
  <2> DEFINE s == m.start
  <2>1. /\ s \in Used /\ FrontMap(s) \in Maps /\ FrontMap(s).start = s /\ FrontMap(s).path = image[s].file
        /\ image[s].file \in DOMAIN Files
    BY <1>3, ReadIs DEF FrontMap
  <2>2. s \in Slots /\ s \in Nat
    BY <2>1, UsedIs
  <2>3. query.area \notin {"Any", Files[image[s].file].area}
    BY <1>3, <2>2 DEF Images, Read
  <2>4. m \in Maps
    BY DEF LoopHolds
  <2>5. m = FrontMap(s)
    <3>1. s < m.end /\ s < FrontMap(s).end
      BY <2>1, <2>4, StartsPositive
    <3> QED
      BY <2>1, <2>2, <2>4, <3>1, MapsApart
  <2>6. PassedOver(m)
    BY <2>1, <2>3, <2>5 DEF PassedOver
  <2> QED
    BY <2>6
<1> QED
  BY <1>1, <1>2, <1>3

LEMMA VisitLoop ==
  ASSUME TargetOK, SettledInv, settled, busy, Visit
  PROVE  LoopHolds'
<1>1. PICK m \in todo : /\ \A n \in todo : m.start <= n.start
                        /\ todo' = todo \ {m}
                        /\ IF PassedOver(m) THEN UNCHANGED <<cached, elfs, lastElfNode>> ELSE Look(m)
  BY DEF Visit
<1> DEFINE a == m.start
<1>2. LoopHolds
  BY DEF SettledInv
<1>3. image' = image /\ query' = query /\ prog' = prog /\ maps' = maps
  BY DEF Visit, target
<1>4. /\ Maps' = Maps /\ (\A s : Read(s)' = Read(s) /\ FrontMap(s)' = FrontMap(s))
      /\ Images' = Images /\ Inspected' = Inspected /\ \A e : TypeFits(e)' = TypeFits(e)
  BY <1>3, Rests, RestsFor DEF TypeFits
<1>5. /\ m \in Maps /\ todo' \subseteq Maps
  BY <1>1, <1>2 DEF LoopHolds
<1>6. \A k \in Maps \ todo' : \A n \in todo' : k.start < n.start
  <2> SUFFICES ASSUME NEW k \in Maps \ todo', NEW n \in todo' PROVE k.start < n.start
    OBVIOUS
  <2>1. n \in todo /\ n # m /\ n \in Maps
    BY <1>1, <1>5
  <2>2. CASE k # m
    BY <1>1, <1>2, <2>1, <2>2 DEF LoopHolds
  <2>3. CASE k = m
    <3>1. m.start <= n.start
      BY <1>1, <2>1
    <3>2. m.start \in Nat /\ n.start \in Nat /\ m.start < m.end /\ n.start < n.end
      BY <1>5, <2>1, StartsPositive
    <3>3. m.start # n.start
      BY <1>5, <2>1, <3>2, MapsApart
    <3> QED
      BY <2>3, <3>1, <3>2, <3>3
  <2> QED
    BY <2>2, <2>3
<1>7. \A t \in Images : /\ FrontMap(t) \notin todo => t < a
                        /\ FrontMap(t) \in todo => a <= t
                        /\ (FrontMap(t) \in todo' <=> FrontMap(t) \in todo /\ t # a)
  <2> SUFFICES ASSUME NEW t \in Images
               PROVE  /\ FrontMap(t) \notin todo => t < a
                      /\ FrontMap(t) \in todo => a <= t
                      /\ (FrontMap(t) \in todo' <=> FrontMap(t) \in todo /\ t # a)
    OBVIOUS
  <2>1. FrontMap(t) \in Maps /\ FrontMap(t).start = t /\ (m.start = t => m = FrontMap(t))
    BY <1>5, FrontIs
  <2>2. FrontMap(t) \notin todo => t < a
    BY <1>1, <1>2, <2>1 DEF LoopHolds
  <2>3. FrontMap(t) \in todo => a <= t
    BY <1>1, <2>1
  <2> QED
    BY <1>1, <2>1, <2>2, <2>3
<1>8. Inspected \subseteq Images
  BY DEF Inspected
<1>9. Len(elfs) \in Nat /\ DOMAIN elfs = 1..Len(elfs)
  BY <1>2, Noted DEF LoopHolds
<1>10. a \in Nat
  BY <1>5, StartsPositive
<1>11. CASE a \notin Images
  <2>1. elfs' = elfs /\ lastElfNode' = lastElfNode
    BY <1>1, <1>2, <1>11, VisitElsewhere
  <2>2. \A t \in Images : FrontMap(t) \in todo' <=> FrontMap(t) \in todo
    BY <1>7, <1>11
  <2> HIDE DEF a
  <2>3. /\ \A i \in 1..Len(elfs) : /\ elfs[i].base \in Inspected /\ FrontMap(elfs[i].base) \notin todo'
                                   /\ elfs[i] = Read(elfs[i].base) /\ TypeFits(elfs[i])
    BY <1>2, <1>8, <2>2 DEF LoopHolds
  <2>4. \A s \in Inspected : FrontMap(s) \notin todo' /\ TypeFits(Read(s)) => \E i \in 1..Len(elfs) : elfs[i].base = s
    BY <1>2, <1>8, <2>2 DEF LoopHolds
  <2>5. \/ lastElfNode = 0 /\ \A s \in Images : FrontMap(s) \in todo'
        \/ \E s \in Images : /\ FrontMap(s) \notin todo' /\ lastElfNode = Files[image[s].file].inode
                             /\ \A t \in Images : FrontMap(t) \notin todo' => t <= s
    BY <1>2, <2>2 DEF LoopHolds
  <2>6. elfs \in Seq({elfs[i] : i \in DOMAIN elfs}) /\ maps = Maps
        /\ \A i, j \in 1..Len(elfs) : i < j => elfs[i].base < elfs[j].base
    BY <1>2 DEF LoopHolds
  <2> QED
    BY <1>3, <1>4, <1>5, <1>6, <2>1, <2>3, <2>4, <2>5, <2>6 DEF LoopHolds
<1>12. CASE a \in Images
  <2> DEFINE node == Files[image[a].file].inode
  <2>1. /\ m = FrontMap(a) /\ IsValid(Read(a)) /\ a \in Used /\ image[a].file \in DOMAIN Files
    BY <1>5, <1>12, FrontIs
  <2>2. /\ m.r = TRUE /\ m.w = FALSE /\ m.inode = node /\ m.path = image[a].file /\ node # 0
        /\ Read(a).base = a /\ Read(a).inode = node
    <3>1. node \in Nat \ {0}
      BY <2>1, FileIs
    <3>2. FrontMap(a).r = TRUE /\ FrontMap(a).w = FALSE /\ FrontMap(a).inode = node /\ FrontMap(a).path = image[a].file
      BY <2>1, ReadIs DEF FrontMap
    <3>3. Read(a).base = a /\ Read(a).inode = node
      BY <2>1, ReadShows
    <3> QED
      BY <2>1, <3>1, <3>2, <3>3
  <2>3. query.area = "Any" \/ query.area = Files[image[a].file].area
    BY <1>12 DEF Images
  <2>4. PassedOver(m) <=> node = lastElfNode
    BY <2>2, <2>3 DEF PassedOver
  <2>5. /\ lastElfNode' = node
        /\ \/ a \notin Inspected /\ elfs' = elfs
           \/ /\ a \in Inspected
              /\ elfs' = IF TypeFits(Read(a)) THEN Append(elfs, Read(a)) ELSE elfs
    <3>1. CASE node = lastElfNode
      <4>1. PICK u \in Images : /\ FrontMap(u) \notin todo /\ lastElfNode = Files[image[u].file].inode
                               /\ \A t \in Images : FrontMap(t) \notin todo => t <= u
        BY <1>2, <2>2, <3>1 DEF LoopHolds
      <4>2. u < a /\ Files[image[u].file].inode = node
        BY <1>7, <3>1, <4>1
      <4>3. ASSUME a \in Inspected PROVE FALSE
        <5>1. PICK v \in Images : u < v /\ v < a
          BY <4>2, <4>3 DEF Inspected
        <5>2. FrontMap(v) \notin todo
          BY <1>7, <1>10, <5>1, FrontIs
        <5>3. v <= u /\ v \in Nat /\ u \in Nat
          BY <4>1, <5>2, FrontIs
        <5> QED
          BY <5>1, <5>3
      <4> QED
        BY <1>1, <2>4, <3>1, <4>3
    <3>2. CASE node # lastElfNode
      <4>1. Look(m)
        BY <1>1, <2>4, <3>2
      <4>2. /\ elfs' = IF TypeFits(Read(a)) THEN Append(elfs, Read(a)) ELSE elfs
            /\ lastElfNode' = node
        BY <1>2, <2>1, <2>2, <4>1, Looked DEF LoopHolds
      <4>3. ASSUME NEW t \in Images, t < a, Files[image[t].file].inode = node
            PROVE  \E u \in Images : t < u /\ u < a /\ Files[image[u].file].inode # node
        <5>1. FrontMap(t) \notin todo
          BY <1>7, <1>10, <4>3, FrontIs
        <5>2. PICK u \in Images : /\ FrontMap(u) \notin todo /\ lastElfNode = Files[image[u].file].inode
                                 /\ \A k \in Images : FrontMap(k) \notin todo => k <= u
          BY <1>2, <5>1 DEF LoopHolds
        <5>3. t <= u /\ u < a /\ t # u
          BY <1>7, <3>2, <4>3, <5>1, <5>2
        <5>4. t \in Nat /\ u \in Nat
          BY FrontIs
        <5> QED
          BY <3>2, <5>2, <5>3, <5>4
      <4>4. a \in Inspected
        BY <1>12, <4>3 DEF Inspected
      <4> QED
        BY <4>2, <4>4
    <3> QED
      BY <3>1, <3>2
  <2>6. \E s \in Images : /\ FrontMap(s) \notin todo' /\ lastElfNode' = Files[image[s].file].inode
                          /\ \A t \in Images : FrontMap(t) \notin todo' => t <= s
    <3>1. FrontMap(a) \notin todo'
      BY <1>7, <1>12
    <3>2. ASSUME NEW t \in Images, FrontMap(t) \notin todo' PROVE t <= a
      <4>1. t = a \/ t < a
        BY <1>7, <3>2
      <4> QED
        BY <1>10, <4>1, FrontIs
    <3> QED
      BY <1>12, <2>5, <3>1, <3>2
  <2>7. CASE elfs' = elfs /\ (a \notin Inspected \/ ~TypeFits(Read(a)))
    <3>1. /\ \A i \in 1..Len(elfs) : /\ elfs[i].base \in Inspected /\ FrontMap(elfs[i].base) \notin todo'
                                   /\ elfs[i] = Read(elfs[i].base) /\ TypeFits(elfs[i])
      BY <1>1, <1>2 DEF LoopHolds
    <3>2. \A s \in Inspected : FrontMap(s) \notin todo' /\ TypeFits(Read(s)) => \E i \in 1..Len(elfs) : elfs[i].base = s
      <4> SUFFICES ASSUME NEW s \in Inspected, FrontMap(s) \notin todo', TypeFits(Read(s))
                   PROVE  \E i \in 1..Len(elfs) : elfs[i].base = s
        OBVIOUS
      <4>1. s # a
        BY <2>7
      <4>2. FrontMap(s) \notin todo
        BY <1>7, <1>8, <4>1
      <4> QED
        BY <1>2, <4>2 DEF LoopHolds
    <3>3. elfs \in Seq({elfs[i] : i \in DOMAIN elfs}) /\ maps = Maps
          /\ \A i, j \in 1..Len(elfs) : i < j => elfs[i].base < elfs[j].base
      BY <1>2 DEF LoopHolds
    <3> HIDE DEF a, node
    <3> QED
      BY <1>3, <1>4, <1>5, <1>6, <2>6, <2>7, <3>1, <3>2, <3>3 DEF LoopHolds
  <2>8. CASE a \in Inspected /\ TypeFits(Read(a)) /\ elfs' = Append(elfs, Read(a))
    <3> DEFINE e == Read(a)
               t == Append(elfs, e)
               n == Len(elfs)
    <3>1. elfs \in Seq({elfs[i] : i \in DOMAIN elfs})
      BY <1>2 DEF LoopHolds
    <3>2. /\ t \in Seq({t[i] : i \in DOMAIN t}) /\ Len(t) = n + 1 /\ n \in Nat
          /\ t[n + 1] = e /\ \A i \in 1..n : t[i] = elfs[i]
      BY <3>1, Noted
    <3>3. e.base = a /\ TypeFits(e) /\ elfs' = t /\ e = Read(a)
      BY <2>2, <2>8
    <3> HIDE DEF t, e, n
    <3>4. \A i \in 1..n : /\ elfs[i].base \in Inspected /\ FrontMap(elfs[i].base) \notin todo /\ elfs[i].base < a
                          /\ elfs[i] = Read(elfs[i].base) /\ TypeFits(elfs[i])
      BY <1>2, <1>7, <1>8 DEF LoopHolds, n
    <3>5. \A i \in 1..(n + 1) : i \in 1..n \/ i = n + 1
      BY <3>2
    <3>6. \A i \in 1..(n + 1) : /\ t[i].base \in Inspected /\ FrontMap(t[i].base) \notin todo'
                               /\ t[i] = Read(t[i].base) /\ TypeFits(t[i])
      <4> SUFFICES ASSUME NEW i \in 1..(n + 1)
                   PROVE  /\ t[i].base \in Inspected /\ FrontMap(t[i].base) \notin todo'
                          /\ t[i] = Read(t[i].base) /\ TypeFits(t[i])
        OBVIOUS
      <4>1. CASE i \in 1..n
        BY <1>1, <3>2, <3>4, <4>1
      <4>2. CASE i = n + 1
        BY <1>7, <1>12, <2>8, <3>2, <3>3, <4>2
      <4> QED
        BY <3>5, <4>1, <4>2
    <3>7. \A i, j \in 1..(n + 1) : i < j => t[i].base < t[j].base
      <4> SUFFICES ASSUME NEW i \in 1..(n + 1), NEW j \in 1..(n + 1), i < j PROVE t[i].base < t[j].base
        OBVIOUS
      <4>1. i \in 1..n
        BY <3>2
      <4>2. CASE j \in 1..n
        BY <1>2, <3>2, <4>1, <4>2 DEF LoopHolds, n
      <4>3. CASE j = n + 1
        BY <3>2, <3>3, <3>4, <4>1, <4>3
      <4> QED
        BY <3>5, <4>2, <4>3
    <3>8. \A s \in Inspected : FrontMap(s) \notin todo' /\ TypeFits(Read(s)) => \E i \in 1..(n + 1) : t[i].base = s
      <4> SUFFICES ASSUME NEW s \in Inspected, FrontMap(s) \notin todo', TypeFits(Read(s))
                   PROVE  \E i \in 1..(n + 1) : t[i].base = s
        OBVIOUS
      <4>1. CASE s = a
        <5>1. n + 1 \in 1..(n + 1)
          BY <3>2
        <5> QED
          BY <3>2, <3>3, <4>1, <5>1
      <4>2. CASE s # a
        <5>1. FrontMap(s) \notin todo
          BY <1>7, <1>8, <4>2
        <5>2. PICK i \in 1..n : elfs[i].base = s
          BY <1>2, <5>1 DEF LoopHolds, n
        <5>3. i \in 1..(n + 1)
          BY <3>2
        <5> QED
          BY <3>2, <5>2, <5>3
      <4> QED
        BY <4>1, <4>2
    <3>9. maps = Maps
      BY <1>2 DEF LoopHolds
    <3> HIDE DEF a, node
    <3> QED
      BY <1>3, <1>4, <1>5, <1>6, <2>6, <3>2, <3>3, <3>6, <3>7, <3>8, <3>9 DEF LoopHolds
  <2> QED
    BY <2>5, <2>7, <2>8
<1> QED
  BY <1>11, <1>12

-----------------------------------------------------------------------------
(* What findElf chooses.                                                   *)

LEMMA QueryIs ==
  ASSUME SettledInv
  PROVE  query.type \in {"Any", "Native", "Emulated"}
<1>1. NoQuery.type = "Any"
  BY DEF NoQuery
<1>2. query = NoQuery \/ query \in Queries
  BY DEF SettledInv
<1> QED
  BY <1>1, <1>2, QueriesAssumption

LEMMA MapsCounted ==
  ASSUME TargetOK, NEW s \in Used
  PROVE  Cardinality(MapsOf(s)) \in Nat
<1> DEFINE n == image[s].mapped
           A == {SegmentMap(s, i) : i \in 1..n}
           B == IF n = Segs(image[s].file) THEN {} ELSE {Reserved(s)}
<1>1. n \in Nat
  <2>1. n \in 0..Segs(image[s].file) /\ Segs(image[s].file) \in Nat
    BY UsedIs, SegsIs
  <2> QED
    BY <2>1
<1>2. IsFiniteSet(1..n)
  <2>1. n \in Int /\ 1 \in Int
    BY <1>1
  <2> HIDE DEF n
  <2> QED
    BY <2>1, FS_Interval
<1>3. IsFiniteSet(A)
  <2> DEFINE g == [i \in 1..n |-> SegmentMap(s, i)]
  <2>1. g \in Surjection(1..n, A)
    BY DEF Surjection
  <2> HIDE DEF g, A
  <2> QED
    BY <1>2, <2>1, FS_Surjection
<1>4. IsFiniteSet(B)
  BY FS_EmptySet, FS_Singleton
<1>5. MapsOf(s) = A \cup B
  BY DEF MapsOf
<1> HIDE DEF A, B
<1> QED
  BY <1>3, <1>4, <1>5, FS_Union, FS_CardinalityType

\* What is found is one of what was noted under the name, the best one if any has a
\* dynamic section.
LEMMA FinishFinds ==
  ASSUME TargetOK, SettledInv, settled, busy, Finish
  PROVE  \/ found' = Invalid /\ Named(elfs, query.name) = {}
         \/ \E i \in Named(elfs, query.name) :
              /\ found' = elfs[i]
              /\ LET better(j) == \/ Complete(elfs[i].base) /\ ~Complete(elfs[j].base)
                                 \/ /\ Complete(elfs[i].base) <=> Complete(elfs[j].base)
                                    /\ LET n(k) == Cardinality(MapsOf(elfs[k].base)) IN
                                       n(j) <= n(i) /\ (j > i => n(j) < n(i))
                 IN  \A j \in Named(elfs, query.name) : better(j)
<1> DEFINE named == Named(elfs, query.name)
           dynamic == {i \in named : HasDynamics(elfs[i])}
           is == IF dynamic # {} THEN dynamic ELSE named
<1>1. LoopHolds
  BY DEF SettledInv
<1>2. found' \in Choose(elfs, is)
  BY DEF Finish
<1>3. named \subseteq 1..Len(elfs)
  BY <1>1, Noted DEF LoopHolds, Named
<1>4. \A i \in named : /\ elfs[i].segments = MapsOf(elfs[i].base)
                       /\ HasDynamics(elfs[i]) <=> Complete(elfs[i].base)
  <2> SUFFICES ASSUME NEW i \in named
               PROVE  /\ elfs[i].segments = MapsOf(elfs[i].base)
                      /\ HasDynamics(elfs[i]) <=> Complete(elfs[i].base)
    OBVIOUS
  <2> DEFINE s == elfs[i].base
  <2>1. s \in Images /\ elfs[i] = Read(s)
    BY <1>1, <1>3 DEF LoopHolds, Inspected
  <2>2. IsValid(Read(s))
    BY <2>1, FrontIs
  <2>3. Read(s).segments = MapsOf(s) /\ (HasDynamics(Read(s)) <=> Complete(s))
    BY <2>2, ReadShows
  <2> HIDE DEF named
  <2> QED
    BY <2>1, <2>3
<1> HIDE DEF named
<1>5. CASE named = {}
  <2>1. is = {}
    BY <1>5
  <2>2. found' = Invalid
    BY <1>2, <2>1 DEF Choose
  <2> QED
    BY <1>5, <2>2 DEF named
<1>6. CASE named # {}
  <2>1. is # {} /\ is \subseteq named
    BY <1>6
  <2> DEFINE n(i) == Cardinality(elfs[i].segments)
  <2>2. PICK i \in is : found' = elfs[i] /\ \A j \in is : n(j) <= n(i) /\ (j > i => n(j) < n(i))
    <3> HIDE DEF is
    <3> QED
      BY <1>2, <2>1, Zenon DEF Choose
  <2>3. i \in named
    BY <2>1
  <2>4. \A j \in is : n(j) = Cardinality(MapsOf(elfs[j].base))
    BY <1>4, <2>1
  <2>5. \A j \in named : \/ Complete(elfs[i].base) /\ ~Complete(elfs[j].base)
                         \/ j \in is /\ (Complete(elfs[i].base) <=> Complete(elfs[j].base))
    <3> SUFFICES ASSUME NEW j \in named
                 PROVE  \/ Complete(elfs[i].base) /\ ~Complete(elfs[j].base)
                        \/ j \in is /\ (Complete(elfs[i].base) <=> Complete(elfs[j].base))
      OBVIOUS
    <3>1. /\ HasDynamics(elfs[i]) <=> Complete(elfs[i].base)
          /\ HasDynamics(elfs[j]) <=> Complete(elfs[j].base)
      BY <1>4, <2>3
    <3>2. CASE dynamic = {}
      BY <2>3, <3>1, <3>2
    <3>3. CASE dynamic # {}
      <4>1. HasDynamics(elfs[i])
        BY <3>3, <2>2
      <4> QED
        BY <3>1, <3>3, <4>1
    <3> QED
      BY <3>2, <3>3
  <2> HIDE DEF is, n
  <2>6. \A j \in is : LET c(k) == Cardinality(MapsOf(elfs[k].base)) IN
                       c(j) <= c(i) /\ (j > i => c(j) < c(i))
    BY <2>2, <2>4
  <2> QED
    BY <2>2, <2>3, <2>5, <2>6, Zenon DEF named
<1> QED
  BY <1>5, <1>6

LEMMA MainFileIs == MainFile \in DOMAIN Files
<1> DEFINE First == [slot : Slots, file : DOMAIN Files, node : Nodes]
<1>1. Initially \in Seq(First) /\ 2 \in 1..Len(Initially)
  BY InitiallyAssumption
<1> HIDE DEF First
<1>2. Initially[2] \in First
  BY <1>1
<1> QED
  BY <1>2 DEF First, MainFile

LEMMA FinishBest ==
  ASSUME TargetOK, SettledInv, settled, busy, Finish
  PROVE  SettledIsBest'
<1>1. image' = image /\ query' = query /\ prog' = prog /\ todo = {}
  BY DEF Finish, target
<1>2. /\ Inspected' = Inspected
      /\ \A s : Complete(s)' = Complete(s) /\ MapsOf(s)' = MapsOf(s)
  BY <1>1, Rests, RestsFor
<1>3. LoopHolds
  BY DEF SettledInv
<1> DEFINE named == Named(elfs, query.name)
           suits(s) == LET f == Files[image[s].file] IN
                       \/ query.type = "Any"
                       \/ query.type = "Native" /\ f.machine = Files[MainFile].machine
                       \/ query.type = "Emulated" /\ f.machine # Files[MainFile].machine
           fit == {s \in Inspected : query.name \in {Files[image[s].file].name, image[s].file} /\ suits(s)}
<1>4. ASSUME prog # Invalid, NEW s \in Inspected PROVE TypeFits(Read(s)) <=> suits(s)
  <2>1. s \in Images
    BY DEF Inspected
  <2>2. IsValid(Read(s)) /\ image[s].file \in DOMAIN Files
    BY <2>1, FrontIs
  <2>3. Read(s).machine = Files[image[s].file].machine
    BY <2>2, ReadShows
  <2>4. Files[image[s].file].machine # 0 /\ Files[MainFile].machine # 0
    BY <2>2, MainFileIs, FileIs
  <2>5. prog.machine = Files[MainFile].machine
    BY <1>4 DEF SettledInv
  <2> QED
    BY <2>3, <2>4, <2>5 DEF TypeFits
<1>5. named = {i \in 1..Len(elfs) : query.name \in {Files[elfs[i].path].name, elfs[i].path}}
  BY <1>3, Noted DEF LoopHolds, Named
<1>6. \A i \in 1..Len(elfs) : /\ elfs[i].base \in Inspected /\ elfs[i].path = image[elfs[i].base].file
                             /\ TypeFits(Read(elfs[i].base))
  <2> SUFFICES ASSUME NEW i \in 1..Len(elfs)
               PROVE  /\ elfs[i].base \in Inspected /\ elfs[i].path = image[elfs[i].base].file
                      /\ TypeFits(Read(elfs[i].base))
    OBVIOUS
  <2>1. elfs[i].base \in Inspected /\ elfs[i] = Read(elfs[i].base) /\ TypeFits(elfs[i])
    BY <1>3 DEF LoopHolds
  <2>2. IsValid(Read(elfs[i].base))
    BY <2>1, FrontIs DEF Inspected
  <2>3. Read(elfs[i].base).path = image[elfs[i].base].file
    BY <2>2, ReadShows
  <2> QED
    BY <2>1, <2>3
<1> HIDE DEF suits
<1>7. ASSUME prog # Invalid
      PROVE  /\ \A i \in named : elfs[i].base \in fit
             /\ \A s \in fit : \E i \in named : elfs[i].base = s
  <2>1. ASSUME NEW i \in named PROVE elfs[i].base \in fit
    BY <1>4, <1>5, <1>6, <1>7
  <2>2. ASSUME NEW s \in fit PROVE \E i \in named : elfs[i].base = s
    <3>1. s \in Inspected /\ TypeFits(Read(s))
      BY <1>4, <1>7
    <3>2. PICK i \in 1..Len(elfs) : elfs[i].base = s
      BY <1>1, <1>3, <3>1 DEF LoopHolds
    <3> QED
      BY <1>5, <1>6, <3>2
  <2> QED
    BY <2>1, <2>2
<1> HIDE DEF fit, named
<1>8. ASSUME prog # Invalid
      PROVE  IF fit = {} THEN found' = Invalid
             ELSE \E s \in fit : found'.base = s /\ \A t \in fit : Prefer(s, t)
  <2>1. CASE found' = Invalid /\ named = {}
    BY <1>7, <1>8, <2>1
  <2>2. ASSUME NEW i \in named, found' = elfs[i],
               \A j \in named : \/ Complete(elfs[i].base) /\ ~Complete(elfs[j].base)
                                \/ /\ Complete(elfs[i].base) <=> Complete(elfs[j].base)
                                   /\ LET n(k) == Cardinality(MapsOf(elfs[k].base)) IN
                                      n(j) <= n(i) /\ (j > i => n(j) < n(i))
        PROVE  \E s \in fit : found'.base = s /\ \A t \in fit : Prefer(s, t)
    <3> DEFINE s == elfs[i].base
    <3>1. s \in fit /\ found'.base = s
      BY <1>7, <1>8, <2>2
    <3>2. ASSUME NEW t \in fit PROVE Prefer(s, t)
      <4>1. PICK j \in named : elfs[j].base = t
        BY <1>7, <1>8
      <4>2. i \in 1..Len(elfs) /\ j \in 1..Len(elfs) /\ i \in Nat /\ j \in Nat
        BY <1>5
      <4>3. s \in Used /\ t \in Used /\ s \in Nat /\ t \in Nat
        BY <1>6, <4>1, <4>2, FrontIs DEF Inspected
      <4> DEFINE c(x) == Cardinality(MapsOf(x))
      <4>4. c(s) \in Nat /\ c(t) \in Nat
        BY <4>3, MapsCounted
      <4>5. j < i => t < s
        BY <1>3, <4>1, <4>2 DEF LoopHolds
      <4>6. \/ Complete(s) /\ ~Complete(t)
            \/ (Complete(s) <=> Complete(t)) /\ c(t) <= c(s) /\ (j > i => c(t) < c(s))
        BY <2>2, <4>1
      <4>7. j > i \/ j = i \/ j < i
        BY <4>2
      <4>8. j = i => t = s
        BY <4>1
      <4> HIDE DEF c, s
      <4>9. CASE Complete(s) /\ ~Complete(t)
        BY <4>9 DEF Prefer
      <4>10. CASE (Complete(s) <=> Complete(t)) /\ c(t) <= c(s) /\ (j > i => c(t) < c(s))
        <5>1. IF c(s) # c(t) THEN c(s) > c(t) ELSE s >= t
          BY <4>3, <4>4, <4>5, <4>7, <4>8, <4>10
        <5>2. Complete(s) = Complete(t)
          BY <4>10 DEF Complete
        <5> QED
          BY <5>1, <5>2 DEF Prefer, c
      <4> QED
        BY <4>6, <4>9, <4>10
    <3> QED
      BY <3>1, <3>2
  <2> QED
    BY <1>7, <1>8, <2>1, <2>2, FinishFinds DEF named
<1>9. \A s, t : Prefer(s, t)' = Prefer(s, t)
  BY <1>2 DEF Prefer
<1>10. SettledIsBest' = (~busy' /\ settled' /\ query # NoQuery /\ prog # Invalid =>
          IF fit = {} THEN found' = Invalid
          ELSE \E s \in fit : found'.base = s /\ \A t \in fit : Prefer(s, t))
  BY <1>1, <1>2, <1>9 DEF SettledIsBest, fit, suits
<1> QED
  BY <1>8, <1>10

-----------------------------------------------------------------------------
(* Where findRemoteSymbol finds a function.                                *)

\* A function's symbol is found at the function, if it is found.
LEMMA SymbolIs ==
  ASSUME TargetOK, NEW s \in Images, NEW x \in DOMAIN Files[image[s].file].functions,
         FindSymbol(Read(s), Files[image[s].file].syms, x) # 0
  PROVE  LET f == Files[image[s].file] IN
         FindSymbol(Read(s), f.syms, x) = s - MinVaddr(f.phdrs) + f.functions[x]
<1> DEFINE f == Files[image[s].file]
           v == f.functions[x]
           elf == Read(s)
           all == Symbols(elf, f.syms)
           c == CHOOSE y \in all : y.name = x
           min == MinVaddr(f.phdrs)
<1>1. /\ s \in Slots /\ s \in Nat /\ image[s].file \in DOMAIN Files /\ IsValid(elf)
  BY FrontIs
<1>2. elf.bias = s - min
  BY <1>1, ReadShows
<1>3. /\ v \in Nat /\ min <= v /\ min + v < s
      /\ \A j \in DOMAIN f.syms : f.syms[j].name = x => f.syms[j].value = v
  BY <1>1, FunctionsAssumption
<1>4. min \in Nat
  BY <1>1, SizeIs
<1>5. c \in all /\ c.name = x /\ FindSymbol(elf, f.syms, x) = c.address
  BY DEF FindSymbol
<1> HIDE DEF c, elf, v, min
<1>6. PICK j \in DOMAIN f.syms :
        c = [name |-> f.syms[j].name,
             address |-> IF f.syms[j].value < elf.bias THEN elf.bias + f.syms[j].value ELSE f.syms[j].value]
  BY <1>5 DEF Symbols
<1>7. f.syms[j].value = v
  BY <1>3, <1>5, <1>6
<1>8. v < elf.bias /\ elf.bias + v = s - min + v
  BY <1>1, <1>2, <1>3, <1>4
<1>9. c.address = s - min + v
  BY <1>6, <1>7, <1>8
<1> QED
  BY <1>5, <1>9 DEF elf, v, min

\* Where this process has the file, what lies in its first segment is as far behind
\* the start of that segment's map as behind the file's base.
LEMMA LocalMap ==
  ASSUME NEW f \in DOMAIN Files, NEW v \in Nat, MinVaddr(Files[f].phdrs) <= v,
         v < Files[f].phdrs[1].vaddr + Files[f].phdrs[1].memsz, MinVaddr(Files[f].phdrs) < LocalBase
  PROVE  LET P == Files[f].phdrs
             local == LocalBase - MinVaddr(P) + v
             starts == {KT_PAGE_START(LocalBase - MinVaddr(P) + P[i].vaddr) : i \in Loads(P)}
         IN  Max({a \in starts : a <= local}) = LocalBase
<1> DEFINE P == Files[f].phdrs
           min == MinVaddr(P)
           d == LocalBase - min
           n == Segs(f)
           local == d + v
           starts == {KT_PAGE_START(d + P[i].vaddr) : i \in Loads(P)}
           below == {a \in starts : a <= local}
<1>1. n \in Nat \ {0} /\ Loads(P) = 1..n
  BY SegsIs
<1>2. min \in Nat /\ min % Page = 0 /\ min = KT_PAGE_START(P[1].vaddr)
  BY SizeIs
<1>3. LocalBase \in Nat /\ LocalBase % Page = 0
  BY FunctionsAssumption
<1>4. \A i \in 1..n : /\ P[i].vaddr \in Nat /\ P[i].memsz \in Nat /\ min <= P[i].vaddr
                      /\ 1 < i => P[1].vaddr + P[1].memsz <= KT_PAGE_START(P[i].vaddr)
  <2> SUFFICES ASSUME NEW i \in 1..n
               PROVE  /\ P[i].vaddr \in Nat /\ P[i].memsz \in Nat /\ min <= P[i].vaddr
                      /\ 1 < i => P[1].vaddr + P[1].memsz <= KT_PAGE_START(P[i].vaddr)
    OBVIOUS
  <2>1. 1 \in 1..Segs(f)
    BY <1>1
  <2>2. P[i].vaddr \in Nat /\ P[i].memsz \in Nat \ {0} /\ min <= P[i].vaddr
    BY HeadersAre, SegmentsAbove
  <2>3. 1 < i => P[1].vaddr + P[1].memsz <= KT_PAGE_START(P[i].vaddr)
    BY <2>1, HeadersAre
  <2> QED
    BY <2>2, <2>3
<1>5. min <= v /\ v < P[1].vaddr + P[1].memsz /\ min < LocalBase
  OBVIOUS
<1> HIDE DEF P, min, n
<1>6. d \in Nat /\ d % Page = 0
  <2>1. (LocalBase - min) % Page = 0
    BY <1>2, <1>3, Boundaries
  <2> QED
    BY <1>2, <1>3, <1>5, <2>1
<1>7. d + min = LocalBase
  BY <1>2, <1>3
<1> HIDE DEF d
<1>8. \A i \in 1..n : /\ KT_PAGE_START(P[i].vaddr) \in Nat
                      /\ KT_PAGE_START(d + P[i].vaddr) = d + KT_PAGE_START(P[i].vaddr)
  <2> SUFFICES ASSUME NEW i \in 1..n
               PROVE  /\ KT_PAGE_START(P[i].vaddr) \in Nat
                      /\ KT_PAGE_START(d + P[i].vaddr) = d + KT_PAGE_START(P[i].vaddr)
    OBVIOUS
  <2>1. P[i].vaddr \in Nat
    BY <1>4
  <2>2. KT_PAGE_START(P[i].vaddr) \in Nat
    BY <2>1, PageStart
  <2>3. d + KT_PAGE_START(P[i].vaddr) \in Nat
    BY <1>6, <2>2
  <2> QED
    BY <1>6, <2>1, <2>2, <2>3, PageMoved
<1>9. \A i \in 1..n : KT_PAGE_START(d + P[i].vaddr) <= local => KT_PAGE_START(d + P[i].vaddr) = LocalBase
  <2> SUFFICES ASSUME NEW i \in 1..n, KT_PAGE_START(d + P[i].vaddr) <= local
               PROVE  KT_PAGE_START(d + P[i].vaddr) = LocalBase
    OBVIOUS
  <2>1. CASE i = 1
    BY <1>2, <1>7, <1>8, <2>1
  <2>2. CASE 1 < i
    <3>1. P[1].vaddr + P[1].memsz <= KT_PAGE_START(P[i].vaddr)
      BY <1>4, <2>2
    <3>2. P[1].vaddr \in Nat /\ P[1].memsz \in Nat
      BY <1>1, <1>4
    <3>3. KT_PAGE_START(P[i].vaddr) \in Nat /\ d + KT_PAGE_START(P[i].vaddr) <= d + v
      BY <1>8
    <3> QED
      BY <1>5, <1>6, <3>1, <3>2, <3>3
  <2> QED
    BY <1>1, <2>1, <2>2
<1>10. LocalBase \in below
  <2>1. 1 \in 1..n
    BY <1>1
  <2>2. KT_PAGE_START(d + P[1].vaddr) = LocalBase
    BY <1>2, <1>7, <1>8, <2>1
  <2>3. LocalBase <= local
    BY <1>2, <1>5, <1>6, <1>7
  <2> QED
    BY <1>1, <2>1, <2>2, <2>3
<1>11. below = {LocalBase}
  BY <1>1, <1>9, <1>10
<1>12. Max({LocalBase}) \in {LocalBase}
  BY <1>3, MaxIs, FS_Singleton
<1>13. Max(below) = LocalBase
  BY <1>11, <1>12
<1> QED
  BY <1>13 DEF d, P, min

LEMMA RemoteIs ==
  ASSUME TargetOK, NEW s \in Images, Complete(s), NEW x \in DOMAIN Files[image[s].file].functions,
         LET f == Files[image[s].file] IN
         f.functions[x] < f.phdrs[1].vaddr + f.phdrs[1].memsz \/ FindSymbol(Read(s), f.syms, x) # 0
  PROVE  LET f == Files[image[s].file] IN
         RemoteSymbol(Read(s), image[s].file, x) = s - MinVaddr(f.phdrs) + f.functions[x]
<1> DEFINE name == image[s].file
           f == Files[name]
           P == f.phdrs
           v == f.functions[x]
           min == MinVaddr(P)
           local == LocalBase - min + v
           starts == {KT_PAGE_START(LocalBase - min + P[i].vaddr) : i \in Loads(P)}
           l_start == Max({a \in starts : a <= local})
           address == FindSymbol(Read(s), f.syms, x)
<1>1. s \in Slots /\ s \in Nat /\ name \in DOMAIN Files /\ IsValid(Read(s))
  BY FrontIs
<1>2. Read(s).base = s /\ Read(s).path = name
  BY <1>1, ReadShows
<1>3. SymsOf(Read(s)) = f.syms
  BY <1>2 DEF SymsOf, Complete
<1>4. RemoteSymbol(Read(s), name, x) = IF address # 0 THEN address ELSE local - l_start + s
  BY <1>1, <1>2, <1>3 DEF RemoteSymbol
<1>5. CASE address # 0
  BY <1>4, <1>5, SymbolIs
<1>6. CASE address = 0
  <2>1. v < P[1].vaddr + P[1].memsz
    BY <1>6
  <2>2. v \in Nat /\ min <= v /\ min < LocalBase
    <3>1. v \in Nat /\ min <= v /\ min + v < LocalBase
      BY <1>1, FunctionsAssumption
    <3>2. min \in Nat /\ LocalBase \in Nat
      BY <1>1, SizeIs, FunctionsAssumption
    <3> HIDE DEF v, min
    <3> QED
      BY <3>1, <3>2
  <2>3. l_start = LocalBase
    BY <1>1, <2>1, <2>2, LocalMap
  <2>4. min \in Nat /\ LocalBase \in Nat
    BY <1>1, SizeIs, FunctionsAssumption
  <2> HIDE DEF v, min, l_start
  <2>5. local - LocalBase + s = s - min + v
    BY <1>1, <2>2, <2>4
  <2> QED
    BY <1>4, <1>6, <2>3, <2>5 DEF v, min
<1> QED
  BY <1>5, <1>6

-----------------------------------------------------------------------------
(* The whole search.                                                       *)

LEMMA FinishRemote ==
  ASSUME TargetOK, SettledInv, settled, busy, Finish
  PROVE  RemoteSymbolRight'
<1> SUFFICES ASSUME query.symbol # "none", found' # Invalid, HasDynamics(found')
             PROVE  LET f == Files[query.name]
                        v == f.functions[query.symbol]
                        first == v < f.phdrs[Min(Loads(f.phdrs))].vaddr + f.phdrs[Min(Loads(f.phdrs))].memsz
                    IN  first \/ FindSymbol(found', f.syms, query.symbol) # 0 =>
                          remote' = found'.base - MinVaddr(f.phdrs) + v
  <2>1. query' = query
    BY DEF Finish
  <2> QED
    BY <2>1 DEF RemoteSymbolRight, HasDynamics
<1> DEFINE x == query.symbol
<1>1. LoopHolds
  BY DEF SettledInv
<1>2. query \in Queries /\ query.name \in DOMAIN Files /\ x \in DOMAIN Files[query.name].functions
      /\ \A f \in DOMAIN Files : query.name \in {Files[f].name, f} => f = query.name
  <2>1. query # NoQuery
    BY DEF NoQuery
  <2> QED
    BY <2>1, QueriesAssumption DEF SettledInv
<1>3. PICK i \in Named(elfs, query.name) : found' = elfs[i]
  BY FinishFinds
<1> DEFINE s == elfs[i].base
<1>4. i \in 1..Len(elfs) /\ query.name \in {Files[elfs[i].path].name, elfs[i].path}
  BY <1>1, <1>3, Noted DEF LoopHolds, Named
<1>5. s \in Images /\ elfs[i] = Read(s)
  BY <1>1, <1>4 DEF LoopHolds, Inspected
<1>6. IsValid(Read(s)) /\ image[s].file \in DOMAIN Files
  BY <1>5, FrontIs
<1>7. elfs[i].path = image[s].file /\ (HasDynamics(elfs[i]) <=> Complete(s))
  BY <1>5, <1>6, ReadShows
<1>8. image[s].file = query.name /\ Complete(s)
  BY <1>2, <1>3, <1>4, <1>6, <1>7
<1>9. remote' = RemoteSymbol(Read(s), query.name, x)
  <2>1. remote' = RemoteSymbol(found', query.name, x)
    BY DEF Finish
  <2> QED
    BY <1>3, <1>5, <2>1
<1>10. Min(Loads(Files[query.name].phdrs)) = 1
  <2>1. Loads(Files[query.name].phdrs) = 1..Segs(query.name) /\ Segs(query.name) \in Nat \ {0}
    BY <1>2, SegsIs
  <2> DEFINE n == Segs(query.name)
  <2>2. 1..n \in SUBSET Nat /\ 1 \in 1..n /\ n \in Nat
    BY <2>1
  <2> HIDE DEF n
  <2>3. Min(1..n) \in 1..n /\ Min(1..n) <= 1
    BY <2>2, MinIs
  <2>4. Min(1..n) = 1
    BY <2>2, <2>3
  <2> QED
    BY <2>1, <2>4 DEF n
<1> HIDE DEF s, x
<1>11. found'.base = s /\ found' = Read(s)
  BY <1>3, <1>5 DEF s
<1> QED
  BY <1>2, <1>5, <1>8, <1>9, <1>10, <1>11, RemoteIs DEF x

LEMMA ConstructKeeps == TargetOK /\ SettledInv /\ Construct => SettledInv'
<1> SUFFICES ASSUME Construct PROVE SettledInv'
  OBVIOUS
<1>1. \A s \in Slots : cached'[s] = Invalid
  BY DEF Construct
<1>2. query' = NoQuery /\ prog' = Invalid /\ ~busy' /\ NoQuery.symbol = "none"
  BY DEF Construct, NoQuery
<1> QED
  BY <1>1, <1>2 DEF SettledInv, SettledIsBest, RemoteSymbolRight

\* The program is read at a map of its file.
LEMMA ProgramIs ==
  ASSUME TargetOK, SettledInv, NEW e \in getProgramElf(Maps)
  PROVE  e = Invalid \/ e.machine = Files[MainFile].machine
<1> DEFINE exe == {m \in Maps : m.path = MainFile /\ m.r /\ ~m.w}
           good == {m \in exe : FromBase(Maps, m.start, ImageAt(m.start)).dynamic # 0}
           chosen == CHOOSE m \in good : \A n \in good : m.start <= n.start
           s == chosen.start
<1>1. CASE e = prog
  BY <1>1 DEF SettledInv
<1>2. CASE e # prog
  <2>1. good # {} /\ e = Read(s)
    BY <1>2 DEF getProgramElf, Read
  <2>2. PICK m \in good : \A n \in good : m.start <= n.start
    <3> DEFINE S == {m.start : m \in good}
    <3>1. \A m \in good : m.start \in Nat
      BY StartsPositive
    <3> HIDE DEF good
    <3>2. S \in SUBSET Nat /\ S # {}
      BY <2>1, <3>1
    <3>3. Min(S) \in S /\ \A x \in S : Min(S) <= x
      BY <3>2, MinIs
    <3>4. PICK m \in good : m.start = Min(S)
      BY <3>3
    <3>5. \A n \in good : n.start \in S
      OBVIOUS
    <3> QED
      BY <3>3, <3>4, <3>5
  <2>3. chosen \in good
    BY <2>2
  <2> HIDE DEF chosen
  <2>4. chosen \in Maps /\ chosen.path = MainFile /\ Read(s).dynamic # 0
    BY <2>3 DEF Read
  <2>5. Read(s) # Invalid
    BY <2>4 DEF Invalid
  <2>6. /\ s \in Used /\ AddressMap(Maps, s).path = image[s].file
        /\ Read(s).machine = Files[image[s].file].machine
    BY <2>5, ReadMade
  <2>7. s \in Nat /\ s < chosen.end
    BY <2>4, StartsPositive
  <2>8. AddressMap(Maps, s) = chosen
    BY <2>4, <2>7, LookedUp
  <2> QED
    BY <2>1, <2>4, <2>6, <2>8
<1> QED
  BY <1>1, <1>2

LEMMA BeginKeeps == TargetOK /\ SettledInv /\ Begin => SettledInv'
<1> SUFFICES ASSUME TargetOK, SettledInv, Begin PROVE SettledInv'
  OBVIOUS
<1>1. /\ query' \in Queries /\ prog' \in getProgramElf(Maps) /\ maps' = Maps /\ todo' = Maps /\ elfs' = <<>>
      /\ lastElfNode' = 0 /\ busy' = TRUE /\ cached' = cached /\ settled' = settled /\ image' = image
  BY DEF Begin, target
<1>2. prog' = Invalid \/ prog'.machine = Files[MainFile].machine
  BY <1>1, ProgramIs
<1>3. Maps' = Maps /\ \A s : Read(s)' = Read(s) /\ FrontMap(s)' = FrontMap(s)
  BY <1>1, Rests
<1>4. settled' => \A s \in Slots : cached'[s] \in {Invalid, Read(s)'}
  BY <1>1, <1>3 DEF SettledInv
<1>5. \A t \in Images' : FrontMap(t) \in Maps
  <2> SUFFICES ASSUME NEW t \in Images' PROVE FrontMap(t) \in Maps
    OBVIOUS
  <2>1. IsValid(Read(t)')
    BY DEF Images, Read
  <2>2. IsValid(Read(t))
    BY <1>3, <2>1
  <2> QED
    BY <2>2, ReadIs DEF FrontMap
<1>6. LoopHolds'
  <2>1. Len(elfs') = 0 /\ elfs' \in Seq({elfs'[i] : i \in DOMAIN elfs'})
    BY <1>1
  <2>2. \A s \in Images' : FrontMap(s)' \in todo'
    BY <1>1, <1>3, <1>5
  <2>3. Inspected' \subseteq Images'
    BY DEF Inspected
  <2>4. \A i \in 1..Len(elfs') : FALSE
    BY <2>1
  <2>5. maps' = Maps' /\ todo' = Maps'
    BY <1>1, <1>3
  <2> QED
    BY <1>1, <2>1, <2>2, <2>3, <2>4, <2>5 DEF LoopHolds
<1>7. SettledIsBest' /\ RemoteSymbolRight'
  BY <1>1 DEF SettledIsBest, RemoteSymbolRight
<1> QED
  BY <1>1, <1>2, <1>4, <1>6, <1>7 DEF SettledInv

LEMMA VisitKeeps == TargetOK /\ SettledInv /\ Visit => SettledInv'
<1> SUFFICES ASSUME TargetOK, SettledInv, Visit PROVE SettledInv'
  OBVIOUS
<1>1. /\ busy /\ busy' = busy /\ query' = query /\ prog' = prog /\ maps' = maps /\ image' = image
      /\ settled' = settled
  BY DEF Visit, target
<1>2. \A s : Read(s)' = Read(s)
  BY <1>1, Rests
<1>3. ASSUME settled PROVE LoopHolds' /\ \A s \in Slots : cached'[s] \in {Invalid, Read(s)}
  <2>1. LoopHolds'
    BY <1>1, <1>3, VisitLoop
  <2>2. maps = Maps
    BY <1>1, <1>3 DEF SettledInv, LoopHolds
  <2>3. PICK m \in todo : IF PassedOver(m) THEN UNCHANGED <<cached, elfs, lastElfNode>> ELSE Look(m)
    BY DEF Visit
  <2>4. CASE PassedOver(m)
    BY <1>3, <2>1, <2>3, <2>4 DEF SettledInv
  <2>5. CASE ~PassedOver(m)
    BY <1>3, <2>1, <2>2, <2>3, <2>5, Looked
  <2> QED
    BY <2>4, <2>5
<1>4. SettledIsBest' /\ RemoteSymbolRight'
  BY <1>1 DEF SettledIsBest, RemoteSymbolRight
<1> QED
  BY <1>1, <1>2, <1>3, <1>4 DEF SettledInv

LEMMA FinishSettled == TargetOK /\ SettledInv /\ Finish => SettledInv'
<1> SUFFICES ASSUME TargetOK, SettledInv, Finish PROVE SettledInv'
  OBVIOUS
<1>1. /\ busy /\ ~busy' /\ query' = query /\ prog' = prog /\ image' = image /\ settled' = settled
      /\ cached' = [s \in Slots |-> IF Readable(maps, s) THEN cached[s] ELSE Invalid]
  BY DEF Finish, target
<1>2. \A s : Read(s)' = Read(s)
  BY <1>1, Rests
<1>3. settled' => \A s \in Slots : cached'[s] \in {Invalid, Read(s)}
  BY <1>1 DEF SettledInv
<1>4. SettledIsBest' /\ RemoteSymbolRight'
  <2>1. CASE settled
    BY <1>1, <2>1, FinishBest, FinishRemote
  <2>2. CASE ~settled
    BY <1>1, <2>2 DEF SettledIsBest, RemoteSymbolRight
  <2> QED
    BY <2>1, <2>2
<1> QED
  BY <1>1, <1>2, <1>3, <1>4 DEF SettledInv

LEMMA LinkerMoves == SettledInv /\ Meanwhile => SettledInv'
BY DEF SettledInv, Meanwhile, SettledIsBest, RemoteSymbolRight

LEMMA SettledSame == SettledInv /\ UNCHANGED <<target, search>> => SettledInv'
<1> SUFFICES ASSUME SettledInv, UNCHANGED <<target, search>> PROVE SettledInv'
  OBVIOUS
<1>1. /\ UNCHANGED <<cached, prog, query, maps, todo, elfs, lastElfNode, busy, found, remote, settled>>
      /\ image' = image
  BY DEF search, target
<1>2. /\ Maps' = Maps /\ (\A s : Read(s)' = Read(s) /\ FrontMap(s)' = FrontMap(s))
      /\ Images' = Images /\ Inspected' = Inspected /\ (\A e : TypeFits(e)' = TypeFits(e))
      /\ \A a, b : Prefer(a, b)' = Prefer(a, b)
  BY <1>1, Rests, RestsFor DEF TypeFits, Prefer
<1>3. LoopHolds => LoopHolds'
  <2> SUFFICES ASSUME LoopHolds PROVE LoopHolds'
    OBVIOUS
  <2>1. maps = Maps /\ todo \subseteq Maps /\ \A m \in Maps \ todo : \A n \in todo : m.start < n.start
    BY DEF LoopHolds
  <2>2. elfs \in Seq({elfs[i] : i \in DOMAIN elfs})
    BY DEF LoopHolds
  <2>3. /\ \A i \in 1..Len(elfs) : /\ elfs[i].base \in Inspected /\ FrontMap(elfs[i].base) \notin todo
                                   /\ elfs[i] = Read(elfs[i].base) /\ TypeFits(elfs[i])
        /\ \A i, j \in 1..Len(elfs) : i < j => elfs[i].base < elfs[j].base
    BY DEF LoopHolds
  <2>4. \A s \in Inspected : FrontMap(s) \notin todo /\ TypeFits(Read(s)) => \E i \in 1..Len(elfs) : elfs[i].base = s
    BY DEF LoopHolds
  <2>5. \/ lastElfNode = 0 /\ \A s \in Images : FrontMap(s) \in todo
        \/ \E s \in Images : /\ FrontMap(s) \notin todo /\ lastElfNode = Files[image[s].file].inode
                             /\ \A t \in Images : FrontMap(t) \notin todo => t <= s
    BY DEF LoopHolds
  <2> QED
    BY <1>1, <1>2, <2>1, <2>2, <2>3, <2>4, <2>5 DEF LoopHolds
<1>4. SettledIsBest' = SettledIsBest
  BY <1>1, <1>2 DEF SettledIsBest
<1>5. RemoteSymbolRight' = RemoteSymbolRight
  BY <1>1 DEF RemoteSymbolRight
<1> QED
  BY <1>1, <1>2, <1>3, <1>4, <1>5 DEF SettledInv

\* What has been said of the linker's process and of the search holds at every step.
LEMMA SettledInvariance == SearchSpec => [](TargetOK /\ SettledInv)
<1>1. TargetInit /\ SearchInit => TargetOK /\ SettledInv
  <2> SUFFICES ASSUME TargetInit, SearchInit PROVE TargetOK /\ SettledInv
    OBVIOUS
  <2>1. TargetOK
    BY InitialTarget
  <2>2. query = NoQuery /\ prog = Invalid /\ ~busy /\ NoQuery.symbol = "none"
        /\ \A s \in Slots : cached[s] = Invalid
    BY DEF SearchInit, NoQuery
  <2> QED
    BY <2>1, <2>2 DEF SettledInv, SettledIsBest, RemoteSymbolRight
<1>2. /\ TargetOK /\ SettledInv /\ [SearchNext \/ (TargetNext /\ Meanwhile)]_<<target, search>>
      => TargetOK' /\ SettledInv'
  <2> SUFFICES ASSUME TargetOK, SettledInv, [SearchNext \/ (TargetNext /\ Meanwhile)]_<<target, search>>
               PROVE  TargetOK' /\ SettledInv'
    OBVIOUS
  <2>1. CASE SearchNext
    <3>1. UNCHANGED <<layout, image, words, list>>
      BY <2>1 DEF SearchNext, Construct, Begin, Visit, Finish, target
    <3>2. SettledInv'
      BY <2>1, ConstructKeeps, BeginKeeps, VisitKeeps, FinishSettled DEF SearchNext
    <3> QED
      BY <3>1, <3>2, TargetSame
  <2>2. CASE TargetNext /\ Meanwhile
    BY <2>2, LinkerMoves, OpenKeeps, MapSegmentKeeps, LinkKeeps, CloseKeeps DEF TargetNext
  <2>3. CASE UNCHANGED <<target, search>>
    BY <2>3, SettledSame, TargetSame DEF target
  <2> QED
    BY <2>1, <2>2, <2>3
<1> QED
  BY <1>1, <1>2, PTL DEF SearchSpec

\* SettledIsBest, for every process and every set of queries: the image that is found
\* while the linker rests is the one the documentation promises.
THEOREM BestIsFound == SearchSpec => []SettledIsBest
<1>1. SettledInv => SettledIsBest
  BY DEF SettledInv
<1> QED
  BY <1>1, SettledInvariance, PTL

\* RemoteSymbolRight, for every process and every set of queries: the address of a
\* function that is found by its symbol, or lies in the first segment, is its own.
THEOREM RemoteSymbolFound == SearchSpec => []RemoteSymbolRight
<1>1. SettledInv => RemoteSymbolRight
  BY DEF SettledInv
<1> QED
  BY <1>1, SettledInvariance, PTL

-----------------------------------------------------------------------------
(* SoInfo: what the soinfos say of their images.                           *)

\* The words that say the same in every soinfo of an image.
Plain == {"phdr", "phnum", "dyn", "strtab", "symtab", "strsz", "laddr", "bias"}

\* What the linker has written of an image into its soinfo: all of it but for a base and
\* a size in its own.
Described(s) ==
  LET W == words[image[s].node]
      F == Filled(image[s].file, s, 0)
  IN  /\ \A x \in Plain : W[x] = F[x]
      /\ \/ W.base = F.base /\ W.size = F.size
         \/ W.base = 0 /\ W.size = 0 /\ image[s].file = Initially[1].file

SoinfosHold ==
  /\ \A s, t \in Used : image[s].node = image[t].node => s = t
  /\ \A s \in Used : image[s].node \in OnList
  /\ \A s \in Used : words[image[s].node].phdr # 0 => Complete(s) /\ Described(s)

LEMMA FilledSame ==
  ASSUME NEW f, NEW s, NEW next
  PROVE  /\ \A x \in Plain : Filled(f, s, next)[x] = Filled(f, s, 0)[x]
         /\ Filled(f, s, next).base = Filled(f, s, 0).base
         /\ Filled(f, s, next).size = Filled(f, s, 0).size
BY DEF Filled, Plain

LEMMA LinkersOwnSame ==
  ASSUME NEW next
  PROVE  LET F == Filled(Initially[1].file, Initially[1].slot, 0) IN
         /\ \A x \in Plain : LinkersOwn(next)[x] = F[x]
         /\ LinkersOwn(next).base = 0 /\ LinkersOwn(next).size = 0
BY DEF Filled, Plain, LinkersOwn

LEMMA SoinfosSame ==
  ASSUME SoinfosHold, UNCHANGED <<image, words, list>>
  PROVE  SoinfosHold'
BY DEF SoinfosHold, Used, OnList, Complete, Described

LEMMA InitialSoinfos == TargetInit => SoinfosHold
<1> SUFFICES ASSUME TargetInit PROVE SoinfosHold
  OBVIOUS
<1> DEFINE n == Len(Initially)
           First == [slot : Slots, file : DOMAIN Files, node : Nodes]
<1>1. n \in Nat /\ n >= 2 /\ DOMAIN Initially = 1..n
  BY InitiallyAssumption
<1>2. list = [i \in 1..n |-> Initially[i].node]
  BY <1>1 DEF TargetInit
<1>3. \A i \in 1..n : Initially[i] \in First
  <2> HIDE DEF First
  <2>1. Initially \in Seq(First)
    BY InitiallyAssumption DEF First
  <2> QED
    BY <1>1, <2>1
<1>4. \A i, j \in 1..n : Initially[i].node = Initially[j].node => i = j
  BY <1>1, InitiallyAssumption
<1> HIDE DEF n, First
<1>5. ASSUME NEW s \in Used
      PROVE  \E i \in 1..n : /\ Initially[i].slot = s /\ Initially[i].file = image[s].file
                             /\ Initially[i].node = image[s].node
                             /\ image[s].mapped = Segs(image[s].file)
  <2>1. s \in Slots /\ image[s] # NoImage
    BY DEF Used
  <2>2. image[s] = IF \E i \in 1..n : Initially[i].slot = s
                   THEN LET i == CHOOSE i \in 1..n : Initially[i].slot = s
                        IN  [file |-> Initially[i].file, mapped |-> Segs(Initially[i].file),
                             node |-> Initially[i].node]
                   ELSE NoImage
    BY <1>1, <2>1 DEF TargetInit
  <2> DEFINE k == CHOOSE i \in 1..n : Initially[i].slot = s
  <2>3. k \in 1..n /\ Initially[k].slot = s
    BY <2>1, <2>2
  <2>4. image[s] = [file |-> Initially[k].file, mapped |-> Segs(Initially[k].file), node |-> Initially[k].node]
    BY <2>1, <2>2
  <2> HIDE DEF k
  <2> QED
    BY <2>3, <2>4
<1>6. ASSUME NEW s \in Used, NEW i \in 1..n, Initially[i].slot = s, Initially[i].file = image[s].file,
             Initially[i].node = image[s].node
      PROVE  image[s].node \in OnList /\ Described(s)
  <2> DEFINE a == image[s].node
             k == CHOOSE j \in DOMAIN list : list[j] = a
             after == IF k = Len(list) THEN 0 ELSE list[k + 1]
  <2>1. DOMAIN list = 1..n /\ list[i] = a
    BY <1>2, <1>6
  <2>2. a \in OnList
    BY <2>1 DEF OnList
  <2>3. k \in 1..n /\ list[k] = a
    BY <2>1
  <2>4. k = i
    BY <1>2, <1>4, <1>6, <2>3
  <2>5. a \in Nodes
    BY <1>3, <1>6 DEF First
  <2>6. words[a] = IF k = 1 THEN LinkersOwn(after) ELSE Filled(Initially[k].file, Initially[k].slot, after)
    BY <2>2, <2>5 DEF TargetInit
  <2> HIDE DEF k, after
  <2>7. CASE k = 1
    <3>1. words[a] = LinkersOwn(after) /\ image[s].file = Initially[1].file /\ Initially[1].slot = s
      BY <1>6, <2>4, <2>6, <2>7
    <3> QED
      BY <2>2, <3>1, LinkersOwnSame DEF Described
  <2>8. CASE k # 1
    <3>1. words[a] = Filled(image[s].file, s, after)
      BY <1>6, <2>4, <2>6, <2>8
    <3> QED
      BY <2>2, <3>1, FilledSame DEF Described
  <2> QED
    BY <2>7, <2>8
<1>7. \A s, t \in Used : image[s].node = image[t].node => s = t
  BY <1>4, <1>5
<1> QED
  BY <1>5, <1>6, <1>7 DEF SoinfosHold, Complete

\* Of the soinfos that were there only one word changes, and no image or list entry goes.
LEMMA OpenDescribes ==
  ASSUME TargetOK, SoinfosHold, Open
  PROVE  SoinfosHold'
<1>1. PICK f \in Openable, s \in Slots \ Used :
        LET n == Min(Nodes \ OnList) IN
        /\ image' = [image EXCEPT ![s] = [file |-> f, mapped |-> 0, node |-> n]]
        /\ words' = [words EXCEPT ![list[Len(list)]].next = n, ![n] = Empty]
        /\ list' = Append(list, n)
  BY DEF Open
<1> DEFINE n == Min(Nodes \ OnList)
           last == list[Len(list)]
<1>2. n \in Nodes /\ n \notin OnList
  <2>1. Nodes # OnList /\ OnList \subseteq Nodes
    BY LinkedIs DEF Open, OnList
  <2>2. Nodes \ OnList \in SUBSET Nat /\ Nodes \ OnList # {}
    BY <2>1, NodesAssumption
  <2> QED
    BY <2>2, MinIs
<1>3. /\ image' = [image EXCEPT ![s] = [file |-> f, mapped |-> 0, node |-> n]]
      /\ words' = [[words EXCEPT ![last] = [words[last] EXCEPT !.next = n]] EXCEPT ![n] = Empty]
      /\ list' = Append(list, n)
  BY <1>1
<1>4. last \in OnList /\ last \in Nodes /\ words \in [Nodes -> [WordNames -> Int]]
  BY LinkedIs DEF OnList, TargetOK
<1>5. OnList' = OnList \cup {n}
  <2>1. Len(list) \in Nat /\ DOMAIN list = 1..Len(list) /\ list \in Seq(Nodes)
    BY LinkedIs
  <2>2. /\ DOMAIN list' = 1..(Len(list) + 1) /\ list'[Len(list) + 1] = n
        /\ \A i \in 1..Len(list) : list'[i] = list[i]
    BY <1>2, <1>3, <2>1
  <2>3. \A i \in DOMAIN list' : i \in DOMAIN list \/ i = Len(list) + 1
    BY <2>1, <2>2
  <2>4. \A i \in DOMAIN list : i \in DOMAIN list' /\ list'[i] = list[i]
    BY <2>1, <2>2
  <2>5. Len(list) + 1 \in DOMAIN list'
    BY <2>1, <2>2
  <2> QED
    BY <2>2, <2>3, <2>4, <2>5 DEF OnList
<1> HIDE DEF n, last
<1>6. image \in [Slots -> Loaded \cup {NoImage}]
  BY DEF TargetOK
<1>7. /\ \A t \in Used' : t = s \/ (t \in Used /\ t # s /\ image'[t] = image[t])
      /\ image'[s].node = n
  BY <1>3, <1>6 DEF Used
<1>8. words'[n].phdr = 0
  BY <1>2, <1>3, <1>4 DEF Empty, WordNames
<1>9. \A m \in OnList : \A x \in WordNames \ {"next"} : words'[m][x] = words[m][x]
  <2> SUFFICES ASSUME NEW m \in OnList, NEW x \in WordNames \ {"next"} PROVE words'[m][x] = words[m][x]
    OBVIOUS
  <2>1. m # n /\ m \in Nodes
    BY <1>2, LinkedIs DEF OnList
  <2>2. words'[m] = IF m = last THEN [words[last] EXCEPT !.next = n] ELSE words[m]
    BY <1>2, <1>3, <1>4, <2>1
  <2> QED
    BY <1>4, <2>1, <2>2
<1>10. "phdr" \in WordNames \ {"next"} /\ "base" \in WordNames \ {"next"} /\ "size" \in WordNames \ {"next"}
       /\ Plain \subseteq WordNames \ {"next"}
  BY DEF WordNames, Plain
<1>11. \A t \in Used : image[t].node \in OnList
  BY DEF SoinfosHold
<1>12. ASSUME NEW t \in Used', words'[image'[t].node].phdr # 0 PROVE Complete(t)' /\ Described(t)'
  <2>1. t \in Used /\ t # s /\ image'[t] = image[t]
    BY <1>7, <1>8, <1>12
  <2>2. words[image[t].node].phdr # 0
    BY <1>9, <1>10, <1>11, <1>12, <2>1
  <2>3. Complete(t) /\ Described(t)
    BY <2>1, <2>2 DEF SoinfosHold
  <2> QED
    BY <1>9, <1>10, <1>11, <2>1, <2>3 DEF Complete, Described
<1>13. \A t, u \in Used' : image'[t].node = image'[u].node => t = u
  BY <1>2, <1>7, <1>11 DEF SoinfosHold
<1> QED
  BY <1>5, <1>7, <1>11, <1>12, <1>13 DEF SoinfosHold

LEMMA MapSegmentDescribes ==
  ASSUME TargetOK, SoinfosHold, MapSegment
  PROVE  SoinfosHold'
<1>1. PICK s \in Used : /\ image[s].mapped < Segs(image[s].file)
                        /\ image' = [image EXCEPT ![s].mapped = @ + 1]
  BY DEF MapSegment
<1>2. UNCHANGED <<layout, words, list>>
  BY DEF MapSegment
<1>3. s \in Slots /\ image[s] \in Loaded /\ image \in [Slots -> Loaded \cup {NoImage}]
  BY DEF TargetOK, Used
<1>4. image[s].mapped \in Nat /\ Segs(image[s].file) \in Nat
  BY UsedIs, SegsIs
<1>5. words[image[s].node].phdr = 0
  BY <1>1, <1>4 DEF SoinfosHold, Complete
<1>6. /\ \A t \in Used' : t \in Used /\ image'[t].node = image[t].node /\ (t # s => image'[t] = image[t])
  BY <1>1, <1>3 DEF Used, Loaded
<1>7. OnList' = OnList
  BY <1>2 DEF OnList
<1>8. ASSUME NEW t \in Used', words'[image'[t].node].phdr # 0 PROVE Complete(t)' /\ Described(t)'
  <2>1. t \in Used /\ t # s /\ image'[t] = image[t]
    BY <1>2, <1>5, <1>6, <1>8
  <2>2. Complete(t) /\ Described(t)
    BY <1>2, <1>8, <2>1 DEF SoinfosHold
  <2> QED
    BY <1>2, <2>1, <2>2 DEF Complete, Described
<1> QED
  BY <1>6, <1>7, <1>8 DEF SoinfosHold

LEMMA LinkDescribes ==
  ASSUME TargetOK, SoinfosHold, Link
  PROVE  SoinfosHold'
<1>1. PICK s \in Used :
        /\ image[s].mapped = Segs(image[s].file)
        /\ words' = [words EXCEPT ![image[s].node] = Filled(image[s].file, s, @.next)]
  BY DEF Link
<1>2. UNCHANGED <<layout, image, list>>
  BY DEF Link
<1> DEFINE n == image[s].node
           F == Filled(image[s].file, s, words[n].next)
<1>3. n \in Nodes /\ words \in [Nodes -> [WordNames -> Int]]
  BY UsedIs DEF TargetOK
<1>4. words' = [words EXCEPT ![n] = F]
  BY <1>1
<1>5. /\ \A x \in Plain : F[x] = Filled(image[s].file, s, 0)[x]
      /\ F.base = Filled(image[s].file, s, 0).base /\ F.size = Filled(image[s].file, s, 0).size
  BY FilledSame
<1> HIDE DEF F
<1>6. words'[n] = F /\ \A m \in Nodes : m # n => words'[m] = words[m]
  BY <1>3, <1>4
<1>7. Used' = Used /\ OnList' = OnList
  BY <1>2 DEF Used, OnList
<1>8. Complete(s)' /\ Described(s)'
  BY <1>1, <1>2, <1>5, <1>6 DEF Complete, Described
<1>9. ASSUME NEW t \in Used, t # s, words'[image[t].node].phdr # 0 PROVE Complete(t)' /\ Described(t)'
  <2>1. image[t].node # n /\ image[t].node \in Nodes
    BY <1>9, UsedIs DEF SoinfosHold
  <2>2. words'[image[t].node] = words[image[t].node]
    BY <1>6, <2>1
  <2>3. Complete(t) /\ Described(t)
    BY <1>9, <2>2 DEF SoinfosHold
  <2> QED
    BY <1>2, <2>2, <2>3 DEF Complete, Described
<1> QED
  BY <1>2, <1>7, <1>8, <1>9 DEF SoinfosHold

LEMMA CloseDescribes ==
  ASSUME TargetOK, SoinfosHold, Close
  PROVE  SoinfosHold'
<1> DEFINE L == Len(list)
<1>1. PICK s \in Used, i \in 2..Len(list) :
        /\ image[s].node = list[i]
        /\ image' = [image EXCEPT ![s] = NoImage]
        /\ words' = [words EXCEPT ![list[i - 1]].next = words[list[i]].next]
        /\ list' = RemoveAt(list, i)
  BY DEF Close
<1>2. L \in Nat /\ i - 1 \in 1..L /\ i \in 1..L /\ i >= 2 /\ DOMAIN list = 1..L
  BY LinkedIs
<1> DEFINE prev == list[i - 1]
           new == [words[prev] EXCEPT !.next = words[list[i]].next]
<1>3. prev \in Nodes /\ words[prev] \in [WordNames -> Int] /\ words \in [Nodes -> [WordNames -> Int]]
  BY <1>2, LinkedIs DEF TargetOK
<1>4. words' = [words EXCEPT ![prev] = new] /\ \A x \in WordNames \ {"next"} : new[x] = words[prev][x]
  BY <1>1, <1>3
<1> HIDE DEF new, prev
<1>5. \A m \in Nodes : \A x \in WordNames \ {"next"} : words'[m][x] = words[m][x]
  BY <1>3, <1>4
<1>6. /\ Len(list') = L - 1 /\ DOMAIN list' = 1..(L - 1)
      /\ \A j \in 1..(L - 1) : list'[j] = IF j < i THEN list[j] ELSE list[j + 1]
  <2>1. list \in Seq(Nodes)
    BY DEF TargetOK, Linked
  <2>2. i \in 1..Len(list)
    BY <1>2
  <2> DEFINE R == RemoveAt(list, i)
  <2>3. /\ R \in Seq(Nodes) /\ Len(R) = Len(list) - 1
        /\ \A j \in 1..(Len(list) - 1) : R[j] = IF j < i THEN list[j] ELSE list[j + 1]
    BY <2>1, <2>2, RemovedIs
  <2>4. list' = R
    BY <1>1
  <2> HIDE DEF R
  <2>5. DOMAIN R = 1..Len(R)
    BY <2>3
  <2> QED
    BY <2>3, <2>4, <2>5
<1> HIDE DEF L
<1>7. OnList \ {list[i]} \subseteq OnList'
  <2> SUFFICES ASSUME NEW j \in 1..L, list[j] # list[i] PROVE list[j] \in OnList'
    BY <1>2 DEF OnList
  <2>1. j < i \/ j > i
    BY <1>2
  <2>2. CASE j < i
    <3>1. j \in 1..(L - 1)
      BY <1>2, <2>2
    <3>2. list'[j] = list[j]
      BY <1>6, <2>2, <3>1
    <3> QED
      BY <1>6, <3>1, <3>2 DEF OnList
  <2>3. CASE j > i
    <3>1. j - 1 \in 1..(L - 1) /\ ~(j - 1 < i) /\ (j - 1) + 1 = j
      BY <1>2, <2>3
    <3>2. list'[j - 1] = list[j]
      BY <1>6, <3>1
    <3> QED
      BY <1>6, <3>1, <3>2 DEF OnList
  <2> QED
    BY <2>1, <2>2, <2>3
<1>8. image \in [Slots -> Loaded \cup {NoImage}] /\ s \in Slots
  BY DEF TargetOK, Used
<1>9. \A t \in Used' : t \in Used /\ t # s /\ image'[t] = image[t]
  BY <1>1, <1>8 DEF Used
<1>10. \A t \in Used' : image[t].node \in OnList' /\ image[t].node \in Nodes
  <2> SUFFICES ASSUME NEW t \in Used' PROVE image[t].node \in OnList' /\ image[t].node \in Nodes
    OBVIOUS
  <2>1. t \in Used /\ t # s
    BY <1>9
  <2>2. image[t].node # list[i] /\ image[t].node \in OnList /\ image[t].node \in Nodes
    BY <1>1, <2>1, UsedIs DEF SoinfosHold
  <2> QED
    BY <1>7, <2>2
<1>11. "phdr" \in WordNames \ {"next"} /\ "base" \in WordNames \ {"next"} /\ "size" \in WordNames \ {"next"}
       /\ Plain \subseteq WordNames \ {"next"}
  BY DEF WordNames, Plain
<1>12. ASSUME NEW t \in Used', words'[image'[t].node].phdr # 0 PROVE Complete(t)' /\ Described(t)'
  <2>1. t \in Used /\ image'[t] = image[t] /\ image[t].node \in Nodes
    BY <1>9, <1>10
  <2>2. words[image[t].node].phdr # 0
    BY <1>5, <1>11, <1>12, <2>1
  <2>3. Complete(t) /\ Described(t)
    BY <2>1, <2>2 DEF SoinfosHold
  <2> QED
    BY <1>5, <1>11, <2>1, <2>3 DEF Complete, Described
<1>13. \A t, u \in Used' : image'[t].node = image'[u].node => t = u
  BY <1>9 DEF SoinfosHold
<1> QED
  BY <1>9, <1>10, <1>12, <1>13 DEF SoinfosHold

\* An image that is complete as it is read where nothing is missing of it.
Seen(s, machine) ==
  LET F == Files[image[s].file]
      bias == s - MinVaddr(F.phdrs)
      segments == Segments(Maps, s, LoadSize(F.phdrs))
  IN  [base |-> s, phdr |-> s + F.phoff, bias |-> bias, size |-> LoadSize(F.phdrs),
       dynamic |-> bias + F.phdrs[Min(Dynamics(F.phdrs))].vaddr, dyns |-> F.dyns,
       strtab |-> FixTable(Maps, Tag(F.dyns, "STRTAB"), bias),
       symtab |-> FixTable(Maps, Tag(F.dyns, "SYMTAB"), bias),
       strsz |-> Tag(F.dyns, "STRSZ"), machine |-> machine,
       path |-> image[s].file, inode |-> F.inode, segments |-> segments,
       bss |-> BssSegments(segments, FrontMap(s), F.phdrs, bias)]

\* Where the parts of an image that is complete are.
LEMMA PartsOf ==
  ASSUME TargetOK, NEW s \in Used, Complete(s)
  PROVE  LET f == image[s].file
             P == Files[f].phdrs
             bias == s - MinVaddr(P)
         IN  /\ f \in DOMAIN Files /\ image[s].mapped # 0 /\ s \in Nat \ {0}
             /\ MinVaddr(P) \in Nat /\ bias \in Nat \ {0}
             /\ LoadSize(P) \in Nat \ {0} /\ MaxVaddr(P) # 0 /\ Loads(P) # {} /\ P # <<>>
             /\ Files[f].phoff \in Nat \ {0} /\ s + Files[f].phoff # 0
             /\ AddressMap(Maps, s) = FrontMap(s) /\ AddressMap(Maps, s + Files[f].phoff) = FrontMap(s)
             /\ FrontMap(s).start = s /\ FrontMap(s).r = TRUE /\ FrontMap(s).path = f
             /\ FrontMap(s).inode = Files[f].inode
             /\ FrontMap(s).end \in Nat /\ FrontMap(s).end <= s + LoadSize(P)
<1> DEFINE f == image[s].file
           P == Files[f].phdrs
           bias == s - MinVaddr(P)
           off == Files[f].phoff
           v == P[1].vaddr
           z == P[1].memsz
<1>1. f \in DOMAIN Files /\ s \in Nat \ {0} /\ image[s].mapped = Segs(f) /\ Segs(f) \in Nat \ {0} /\ s \in Slots
  BY UsedIs, SegsIs DEF Complete
<1>2. image[s].mapped # 0
  BY <1>1
<1>3. /\ FrontMap(s) \in Maps /\ FrontMap(s).start = s /\ FrontMap(s).end \in Nat /\ FrontMap(s).end <= s + LoadSize(P)
      /\ FrontMap(s).r = TRUE /\ FrontMap(s).path = f /\ FrontMap(s).inode = Files[f].inode
      /\ AddressMap(Maps, s) = FrontMap(s)
  BY <1>2, FrontFound DEF Span
<1>4. /\ MinVaddr(P) \in Nat /\ MaxVaddr(P) \in Nat /\ MinVaddr(P) < MaxVaddr(P) /\ LoadSize(P) \in Nat \ {0}
  BY <1>1, SizeIs
<1>5. MinVaddr(P) + Tag(Files[f].dyns, "STRTAB") < s
  BY <1>1, LibrariesAssumption
<1>6. Tag(Files[f].dyns, "STRTAB") \in Nat
  BY <1>1, TagIs
<1> HIDE DEF P
<1>7. bias \in Nat \ {0}
  BY <1>1, <1>4, <1>5, <1>6
<1>8. Loads(P) = 1..Segs(f) /\ P # <<>> /\ Loads(P) # {}
  <2>1. Loads(P) = 1..Segs(f) /\ Segs(f) <= Len(P)
    BY <1>1, SegsIs DEF P
  <2>2. Len(<<>>) = 0
    OBVIOUS
  <2> QED
    BY <1>1, <2>1, <2>2
<1>9. v \in Nat /\ z \in Nat \ {0}
  <2>1. 1 \in 1..Segs(f)
    BY <1>1
  <2> QED
    BY <1>1, <2>1, HeadersAre DEF P
<1>10. off \in Nat \ {0} /\ MinVaddr(P) + off < v + z
  BY <1>1, FilesAssumption, LibrariesAssumption DEF P
<1>11. FrontMap(s).end = KT_PAGE_END(bias + v + z)
  BY DEF FrontMap, SegmentMap, P
<1> HIDE DEF f, v, z, off
<1>12. bias + v + z \in Nat
  BY <1>7, <1>9
<1>13. bias + v + z <= FrontMap(s).end
  BY <1>11, <1>12, PageEnd
<1> HIDE DEF bias
<1>14. s + off < bias + v + z
  <2>1. bias = s - MinVaddr(P)
    BY DEF bias
  <2> HIDE DEF bias
  <2> QED
    BY <1>1, <1>4, <1>9, <1>10, <2>1
<1>15. s + off \in Nat /\ s <= s + off /\ s + off < FrontMap(s).end /\ s + off # 0
  BY <1>1, <1>3, <1>10, <1>12, <1>13, <1>14
<1>16. AddressMap(Maps, s + off) = FrontMap(s)
  BY <1>3, <1>15, LookedUp
<1> QED
  BY <1>1, <1>2, <1>3, <1>4, <1>7, <1>8, <1>10, <1>15, <1>16 DEF f, P, bias, off

\* Its own header says so,
LEMMA HeaderShows ==
  ASSUME TargetOK, NEW s \in Used, Complete(s)
  PROVE  FromBase(Maps, s, [ImageAt(s) EXCEPT !.header = "intact"]) = Seen(s, Files[image[s].file].machine)
<1> DEFINE F == Files[image[s].file]
           P == F.phdrs
           bias == s - MinVaddr(P)
           map == AddressMap(Maps, s)
           I == [ImageAt(s) EXCEPT !.header = "intact"]
           segments == Segments(Maps, s, LoadSize(P))
           d == P[Min(Dynamics(P))]
           hasDynamic == /\ Dynamics(P) # {} /\ d.vaddr # 0
                         /\ CanRead(Maps, bias + d.vaddr, d.memsz)
           dyns == IF hasDynamic THEN F.dyns ELSE {}
<1>1. /\ image[s].mapped # 0 /\ F.phoff # 0 /\ P # <<>> /\ Loads(P) # {} /\ MaxVaddr(P) # 0
      /\ map = FrontMap(s) /\ AddressMap(Maps, s + F.phoff) = FrontMap(s)
      /\ FrontMap(s).start = s /\ FrontMap(s).r = TRUE /\ FrontMap(s).path = image[s].file /\ FrontMap(s).inode = F.inode
  BY PartsOf
<1>2. s \in Slots
  BY UsedIs
<1>3. I.header = "intact" /\ I.phoff = F.phoff /\ I.phdrs = P /\ I.dyns = F.dyns /\ I.machine = F.machine
  BY <1>1, <1>2 DEF ImageAt, Complete
<1>4. Dynamics(P) # {} /\ d.vaddr \in Nat \ {0} /\ CanRead(Maps, bias + d.vaddr, d.memsz)
  BY DynamicThere
<1>5. hasDynamic /\ dyns = F.dyns
  BY <1>4
<1> HIDE DEF I
<1>6. HeaderIsValid(Maps, s, I)
  BY <1>1, <1>3 DEF HeaderIsValid, Readable
<1>7. FromBase(Maps, s, I) =
        [base |-> s, phdr |-> s + F.phoff, bias |-> bias,
         size |-> LoadSize(P), dynamic |-> IF hasDynamic THEN bias + d.vaddr ELSE 0,
         dyns |-> dyns, strtab |-> FixTable(Maps, Tag(dyns, "STRTAB"), bias),
         symtab |-> FixTable(Maps, Tag(dyns, "SYMTAB"), bias), strsz |-> Tag(dyns, "STRSZ"),
         machine |-> F.machine, path |-> map.path, inode |-> map.inode,
         segments |-> segments, bss |-> BssSegments(segments, map, P, bias)]
  BY <1>3, <1>6, Zenon DEF FromBase
<1> HIDE DEF hasDynamic, dyns, map, segments, bias, d, P, F
<1>8. FromBase(Maps, s, I) =
        [base |-> s, phdr |-> s + F.phoff, bias |-> bias,
         size |-> LoadSize(P), dynamic |-> bias + d.vaddr,
         dyns |-> F.dyns, strtab |-> FixTable(Maps, Tag(F.dyns, "STRTAB"), bias),
         symtab |-> FixTable(Maps, Tag(F.dyns, "SYMTAB"), bias), strsz |-> Tag(F.dyns, "STRSZ"),
         machine |-> F.machine, path |-> image[s].file, inode |-> F.inode,
         segments |-> segments, bss |-> BssSegments(segments, FrontMap(s), P, bias)]
  BY <1>1, <1>5, <1>7
<1> QED
  BY <1>8 DEF Seen, I, segments, bias, d, P, F

\* What is noted of a soinfo is what its words are, and where its image is.
NotedAs(e) ==
  LET W == words[e.ptr] IN
  /\ \A x \in {"base", "size", "phdr", "phnum", "dyn", "strtab", "symtab"} : e[x] = W[x]
  /\ e.bias \in {W.bias, W.laddr} /\ e.strsz \in {0, W.strsz}
  /\ W.base # 0 => e.path = AddressMap(Maps, W.base).path
  /\ W.base = 0 /\ e.bias # 0 => e.path = AddressMap(Maps, e.bias).path

LEMMA FieldsAre ==
  ASSUME TargetOK, NEW s \in Used, Complete(s), Described(s), NEW e, NotedAs(e), e.ptr = image[s].node
  PROVE  LET f == image[s].file
             P == Files[f].phdrs
             bias == s - MinVaddr(P)
             T(t) == Tag(Files[f].dyns, t)
         IN  /\ e.phdr = s + Files[f].phoff /\ e.phnum = Len(P) /\ e.bias = bias
             /\ e.dyn = bias + P[Min(Dynamics(P))].vaddr
             /\ e.strtab = bias + T("STRTAB") /\ e.symtab = bias + T("SYMTAB")
             /\ e.strsz = 0 \/ e.strsz = T("STRSZ")
             /\ e.path = f
             /\ \/ e.base = s /\ e.size = LoadSize(P)
                \/ e.base = 0 /\ e.size = 0 /\ f = "linker" /\ bias = s
<1> DEFINE f == image[s].file
           P == Files[f].phdrs
           bias == s - MinVaddr(P)
           W == words[image[s].node]
           F == Filled(f, s, 0)
<1>1. /\ f \in DOMAIN Files /\ s \in Nat \ {0} /\ MinVaddr(P) \in Nat /\ bias \in Nat \ {0}
      /\ AddressMap(Maps, s).path = f
  BY PartsOf
<1>2. /\ W.phdr = F.phdr /\ W.phnum = F.phnum /\ W.dyn = F.dyn /\ W.strtab = F.strtab /\ W.symtab = F.symtab
      /\ W.strsz = F.strsz /\ W.laddr = F.laddr /\ W.bias = F.bias
      /\ \/ W.base = F.base /\ W.size = F.size
         \/ W.base = 0 /\ W.size = 0 /\ f = Initially[1].file
  BY DEF Described, Plain
<1>3. /\ e.base = W.base /\ e.size = W.size /\ e.phdr = W.phdr /\ e.phnum = W.phnum /\ e.dyn = W.dyn
      /\ e.strtab = W.strtab /\ e.symtab = W.symtab
      /\ e.bias \in {W.bias, W.laddr} /\ e.strsz \in {0, W.strsz}
      /\ W.base # 0 => e.path = AddressMap(Maps, W.base).path
      /\ W.base = 0 /\ e.bias # 0 => e.path = AddressMap(Maps, e.bias).path
  BY DEF NotedAs
<1>4. /\ F.phdr = s + Files[f].phoff /\ F.phnum = Len(P) /\ F.base = s /\ F.size = LoadSize(P)
      /\ F.dyn = bias + P[Min(Dynamics(P))].vaddr
      /\ F.strtab = bias + Tag(Files[f].dyns, "STRTAB") /\ F.strsz = Tag(Files[f].dyns, "STRSZ")
      /\ F.symtab = bias + Tag(Files[f].dyns, "SYMTAB") /\ F.laddr = bias /\ F.bias = bias
  BY DEF Filled
<1> HIDE DEF W, F
<1>5. /\ e.phdr = s + Files[f].phoff /\ e.phnum = Len(P) /\ e.bias = bias
      /\ e.dyn = bias + P[Min(Dynamics(P))].vaddr
      /\ e.strtab = bias + Tag(Files[f].dyns, "STRTAB") /\ e.symtab = bias + Tag(Files[f].dyns, "SYMTAB")
      /\ e.strsz = 0 \/ e.strsz = Tag(Files[f].dyns, "STRSZ")
  BY <1>2, <1>3, <1>4
<1>6. CASE W.base = F.base /\ W.size = F.size
  <2>1. e.base = s /\ e.size = LoadSize(P) /\ e.path = f
    BY <1>1, <1>3, <1>4, <1>6
  <2> QED
    BY <1>5, <2>1
<1>7. CASE W.base = 0 /\ W.size = 0 /\ f = Initially[1].file
  <2>1. f = "linker" /\ MinVaddr(P) = 0
    BY <1>7, LibrariesAssumption
  <2>2. bias = s
    BY <1>1, <2>1
  <2>3. e.base = 0 /\ e.size = 0 /\ e.path = f
    BY <1>1, <1>3, <1>5, <1>7, <2>2
  <2> QED
    BY <1>5, <2>1, <2>2, <2>3
<1> QED
  BY <1>2, <1>6, <1>7

LEMMA TableFixed ==
  ASSUME NEW bias \in Nat \ {0}, NEW t \in Nat \ {0}, t < bias
  PROVE  FixTable(Maps, bias + t, bias) = FixTable(Maps, t, bias)
BY DEF FixTable

ElfFields == {"base", "phdr", "bias", "size", "dynamic", "dyns", "strtab", "symtab", "strsz",
              "machine", "path", "inode", "segments", "bss"}

\* and so does its soinfo.
LEMMA SoinfoShows ==
  ASSUME TargetOK, NEW s \in Used, Complete(s), Described(s), NEW e, NotedAs(e), e.ptr = image[s].node
  PROVE  \E machine : FromSoInfo(Maps, e, ImageAt(s)) = Seen(s, machine)
<1> DEFINE f == image[s].file
           F == Files[f]
           P == F.phdrs
           bias == s - MinVaddr(P)
           I == ImageAt(s)
           d == P[Min(Dynamics(P))]
           segments == Segments(Maps, s, LoadSize(P))
<1>1. /\ f \in DOMAIN Files /\ image[s].mapped # 0 /\ s \in Nat \ {0} /\ bias \in Nat \ {0}
      /\ LoadSize(P) \in Nat \ {0} /\ MaxVaddr(P) # 0 /\ Loads(P) # {} /\ F.phoff \in Nat \ {0}
      /\ s + F.phoff # 0 /\ MinVaddr(P) \in Nat
      /\ AddressMap(Maps, s) = FrontMap(s) /\ AddressMap(Maps, s + F.phoff) = FrontMap(s)
      /\ FrontMap(s).start = s /\ FrontMap(s).r = TRUE /\ FrontMap(s).path = f
      /\ FrontMap(s).inode = F.inode /\ FrontMap(s).end \in Nat /\ FrontMap(s).end <= s + LoadSize(P)
  BY PartsOf
<1>2. s \in Slots
  BY UsedIs
<1>3. /\ I.header \in {"intact", "erased"} /\ I.phoff = F.phoff /\ I.phdrs = P /\ I.dyns = F.dyns
  BY <1>1, <1>2 DEF ImageAt, Complete
<1>4. /\ e.phdr = s + F.phoff /\ e.phnum = Len(P) /\ e.bias = bias /\ e.dyn = bias + d.vaddr
      /\ e.strtab = bias + Tag(F.dyns, "STRTAB") /\ e.symtab = bias + Tag(F.dyns, "SYMTAB")
      /\ e.strsz = 0 \/ e.strsz = Tag(F.dyns, "STRSZ")
      /\ e.path = f
      /\ \/ e.base = s /\ e.size = LoadSize(P)
         \/ e.base = 0 /\ e.size = 0 /\ f = "linker" /\ bias = s
  BY FieldsAre
<1>5. /\ Dynamics(P) # {} /\ d.vaddr \in Nat \ {0} /\ bias + d.vaddr \in Nat /\ s <= bias + d.vaddr
      /\ CanRead(Maps, bias + d.vaddr, d.memsz)
      /\ Within(AddressMap(Maps, bias + d.vaddr), s, LoadSize(P))
  <2>1. /\ Dynamics(P) # {} /\ d.vaddr \in Nat \ {0} /\ bias + d.vaddr \in Nat /\ s <= bias + d.vaddr
        /\ CanRead(Maps, bias + d.vaddr, d.memsz)
    BY DynamicThere
  <2>2. PICK i \in 1..image[s].mapped : AddressMap(Maps, bias + d.vaddr) = SegmentMap(s, i)
    BY DynamicThere
  <2>3. i \in 1..Segs(f)
    BY DEF Complete
  <2>4. LET m == SegmentMap(s, i) IN m.r = TRUE /\ s <= m.start /\ m.end <= s + LoadSize(P) /\ m.start \in Nat
    BY <2>3, SegmentIs DEF Span
  <2> QED
    BY <2>1, <2>2, <2>4 DEF Within
<1>6. P \in Seq([type : {"LOAD", "DYNAMIC"}, vaddr : Nat, memsz : Nat \ {0}, filesz : Nat, w : BOOLEAN])
  BY <1>1, FilesAssumption
<1>7. Len(P) \in Nat /\ SubSeq(P, 1, Len(P)) = P
  <2> DEFINE H == [type : {"LOAD", "DYNAMIC"}, vaddr : Nat, memsz : Nat \ {0}, filesz : Nat, w : BOOLEAN]
  <2>1. P \in Seq(H)
    BY <1>6
  <2> HIDE DEF H, P
  <2> QED
    BY <2>1
<1>8. Min({Len(P), Len(P)}) = Len(P)
  <2> DEFINE n == Len(P)
  <2>1. n \in Nat
    BY <1>7
  <2> HIDE DEF n
  <2>2. Min({n, n}) \in {n, n}
    BY <2>1, MinIs
  <2> QED
    BY <2>2 DEF n
<1>9. /\ Tag(F.dyns, "STRTAB") \in Nat \ {0} /\ Tag(F.dyns, "SYMTAB") \in Nat \ {0}
      /\ Tag(F.dyns, "STRTAB") < bias /\ Tag(F.dyns, "SYMTAB") < bias /\ Tag(F.dyns, "STRSZ") \in Nat
  <2>1. /\ Tag(F.dyns, "STRTAB") \in Nat /\ Tag(F.dyns, "SYMTAB") \in Nat /\ Tag(F.dyns, "STRSZ") \in Nat
    BY <1>1, TagIs
  <2>2. \A t \in {"STRTAB", "SYMTAB"} : Tag(F.dyns, t) # 0 /\ MinVaddr(P) + Tag(F.dyns, t) < s
    BY <1>1, <1>2, LibrariesAssumption
  <2> DEFINE M == MinVaddr(P)
             A == Tag(F.dyns, "STRTAB")
             B == Tag(F.dyns, "SYMTAB")
  <2>3. A # 0 /\ B # 0 /\ M + A < s /\ M + B < s
    BY <2>2
  <2>4. M \in Nat /\ s \in Nat /\ A \in Nat /\ B \in Nat /\ bias = s - M
    BY <1>1, <2>1
  <2> HIDE DEF M, A, B, bias
  <2>5. A < bias /\ B < bias /\ A # 0 /\ B # 0
    BY <2>3, <2>4
  <2> QED
    BY <2>1, <2>5 DEF A, B
<1> DEFINE base == SoBase(Maps, e)
           phnum == IF Corrupted(e, I) THEN e.phnum ELSE Len(I.phdrs)
<1>10. base = s
  <2>1. CASE e.base = s
    BY <1>1, <2>1 DEF SoBase
  <2>2. CASE e.base = 0 /\ bias = s
    <3> DEFINE places == <<e.bias, e.phdr, e.dyn, e.symtab, e.strtab>>
               inMaps == {i \in DOMAIN places : AddressMap(Maps, places[i]).start # 0}
    <3>1. places[1] = s /\ DOMAIN places = 1..5
      BY <1>4, <2>2
    <3>2. base = IF inMaps = {} THEN 0 ELSE AddressMap(Maps, places[Min(inMaps)]).start
      BY <2>2 DEF SoBase
    <3> HIDE DEF places
    <3>3. 1 \in inMaps /\ inMaps \in SUBSET Nat /\ \A i \in inMaps : i >= 1
      BY <1>1, <3>1
    <3> HIDE DEF inMaps
    <3>4. Min(inMaps) = 1
      <4>1. Min(inMaps) \in inMaps /\ Min(inMaps) <= 1
        BY <3>3, MinIs
      <4> HIDE DEF base
      <4> QED
        BY <3>3, <4>1
    <3> QED
      BY <1>1, <3>1, <3>2, <3>3, <3>4
  <2> QED
    BY <1>4, <2>1, <2>2
<1>11. SubSeq(I.phdrs, 1, Min({phnum, Len(I.phdrs)})) = P
  BY <1>3, <1>4, <1>7, <1>8
<1>12. ~IsLinker(e) => SoIsComplete(e)
  <2>1. ASSUME ~IsLinker(e) PROVE e.base = s /\ e.size = LoadSize(P)
    BY <1>4, <2>1 DEF IsLinker
  <2>2. e.strtab # 0 /\ e.symtab # 0
    <3> DEFINE A == Tag(F.dyns, "STRTAB")
               B == Tag(F.dyns, "SYMTAB")
    <3>1. A \in Nat /\ B \in Nat /\ bias \in Nat \ {0} /\ e.strtab = bias + A /\ e.symtab = bias + B
      BY <1>1, <1>4, <1>9
    <3> HIDE DEF A, B, bias
    <3> QED
      BY <3>1
  <2>3. e.bias # 0 /\ e.phdr # 0
    BY <1>1, <1>4
  <2>4. e.dyn # 0
    <3> DEFINE a == bias + d.vaddr
    <3>1. a \in Nat /\ s <= a /\ s \in Nat \ {0} /\ e.dyn = a
      BY <1>1, <1>4, <1>5
    <3> HIDE DEF a
    <3> QED
      BY <3>1
  <2>5. s # 0 /\ LoadSize(P) # 0
    BY <1>1
  <2> QED
    BY <2>1, <2>2, <2>3, <2>4, <2>5 DEF SoIsComplete
<1>13. FixTable(Maps, e.strtab, bias) = FixTable(Maps, Tag(F.dyns, "STRTAB"), bias)
       /\ FixTable(Maps, e.symtab, bias) = FixTable(Maps, Tag(F.dyns, "SYMTAB"), bias)
       /\ e.strtab # 0 /\ e.symtab # 0
  <2> DEFINE A == Tag(F.dyns, "STRTAB")
             B == Tag(F.dyns, "SYMTAB")
  <2>1. A \in Nat \ {0} /\ B \in Nat \ {0} /\ bias \in Nat \ {0} /\ e.strtab = bias + A /\ e.symtab = bias + B
        /\ A < bias /\ B < bias
    BY <1>1, <1>4, <1>9
  <2> HIDE DEF A, B, bias
  <2>2. FixTable(Maps, bias + A, bias) = FixTable(Maps, A, bias) /\ FixTable(Maps, bias + B, bias) = FixTable(Maps, B, bias)
    BY <2>1, TableFixed
  <2>3. e.strtab # 0 /\ e.symtab # 0
    BY <2>1
  <2> QED
    BY <2>1, <2>2, <2>3 DEF A, B
<1>14. e.dyn # 0 /\ e.dyn = bias + d.vaddr
  <2> DEFINE a == bias + d.vaddr
  <2>1. a \in Nat /\ s <= a /\ s \in Nat \ {0} /\ e.dyn = a
    BY <1>1, <1>4, <1>5
  <2> HIDE DEF a
  <2> QED
    BY <2>1 DEF a
<1> DEFINE map == AddressMap(Maps, base)
           phdrs == SubSeq(I.phdrs, 1, Min({phnum, Len(I.phdrs)}))
           phdr == IF e.phdr # 0 THEN e.phdr ELSE base + I.phoff
           phdrMap == AddressMap(Maps, phdr)
           fixed == IF SoBias(Maps, base, e) # 0 THEN SoBias(Maps, base, e) ELSE base - MinVaddr(phdrs)
           size == IF e.size # 0 THEN e.size ELSE LoadSize(phdrs)
           parts == Segments(Maps, base, size)
           dyn == phdrs[Min(Dynamics(phdrs))]
           dynamic == IF Dynamics(phdrs) # {} /\ e.dyn = 0 /\ dyn.vaddr # 0 THEN fixed + dyn.vaddr ELSE e.dyn
           dyns == IF Dynamics(phdrs) # {} /\ CanRead(Maps, dynamic, dyn.memsz) THEN I.dyns ELSE {}
           strtab == IF e.strtab # 0 THEN e.strtab ELSE Tag(dyns, "STRTAB")
           symtab == IF e.symtab # 0 THEN e.symtab ELSE Tag(dyns, "SYMTAB")
           strsz == IF e.strsz # 0 THEN e.strsz ELSE Tag(dyns, "STRSZ")
           machine == IF Corrupted(e, I) THEN e.machine ELSE I.machine
           read == [Invalid EXCEPT !.base = base, !.phdr = e.phdr, !.bias = e.bias, !.size = e.size,
                      !.dynamic = e.dyn, !.strtab = e.strtab, !.symtab = e.symtab,
                      !.strsz = e.strsz, !.path = e.path]
           none == ~map.r \/ map.start # base \/ (~IsLinker(e) /\ ~SoIsComplete(e))
           wrong == \/ ~phdrMap.r \/ phdrMap.start < base
                    \/ e.size # 0 /\ phdrMap.end > base + e.size
                    \/ ~IsLinker(e) /\ ~Within(AddressMap(Maps, e.dyn), base, e.size)
                    \/ Loads(phdrs) = {} \/ MaxVaddr(phdrs) = 0
<1>15. FromSoInfo(Maps, e, I) =
         IF none THEN Invalid ELSE IF I.header = "absent" THEN read ELSE IF wrong THEN Invalid
         ELSE [read EXCEPT
                 !.phdr = phdr, !.bias = fixed, !.size = size, !.dynamic = dynamic, !.dyns = dyns,
                 !.strtab = FixTable(Maps, strtab, fixed), !.symtab = FixTable(Maps, symtab, fixed),
                 !.strsz = strsz, !.machine = machine,
                 !.inode = map.inode, !.segments = parts,
                 !.bss = BssSegments(parts, map, phdrs, fixed)]
  BY Zenon DEF FromSoInfo
<1>16. phdrs = P
  BY <1>11
<1>17. map = FrontMap(s) /\ phdr = s + F.phoff /\ phdrMap = FrontMap(s)
  BY <1>1, <1>4, <1>10
<1>18. fixed = bias
  <2>1. SoBias(Maps, base, e) \in {0, bias}
    BY <1>4 DEF SoBias
  <2>2. base - MinVaddr(phdrs) = bias
    BY <1>10, <1>16
  <2> HIDE DEF base, phdrs, bias
  <2> QED
    BY <2>1, <2>2
<1>19. size = LoadSize(P)
  <2>1. LoadSize(phdrs) = LoadSize(P)
    BY <1>16
  <2>2. e.size = 0 \/ e.size = LoadSize(P)
    BY <1>4
  <2> HIDE DEF phdrs
  <2> QED
    BY <2>1, <2>2
<1>20. parts = segments
  BY <1>10, <1>19
<1>21. dyn = d /\ Dynamics(phdrs) # {}
  BY <1>5, <1>16
<1>22. dynamic = bias + d.vaddr
  BY <1>14
<1>23. dyns = F.dyns
  BY <1>3, <1>5, <1>21, <1>22
<1>24. strtab = e.strtab /\ symtab = e.symtab
  BY <1>13
<1>25. strsz = Tag(F.dyns, "STRSZ")
  BY <1>4, <1>23
<1>26. ~none
  BY <1>1, <1>10, <1>12, <1>17
<1>27. ~wrong
  <2>1. FrontMap(s).start = s /\ FrontMap(s).r = TRUE /\ s \in Nat /\ LoadSize(P) \in Nat /\ FrontMap(s).end \in Nat
        /\ FrontMap(s).end <= s + LoadSize(P)
    BY <1>1
  <2>2. phdrMap.r /\ ~(phdrMap.start < base)
    BY <2>1, <1>10, <1>17
  <2>3. ~(e.size # 0 /\ phdrMap.end > base + e.size)
    <3>1. e.size = 0 \/ e.size = LoadSize(P)
      BY <1>4
    <3> DEFINE z == LoadSize(P)
    <3>2. z \in Nat /\ (e.size = 0 \/ e.size = z) /\ phdrMap.end \in Nat /\ phdrMap.end <= s + z /\ base = s
      BY <2>1, <3>1, <1>10, <1>17
    <3> HIDE DEF z, phdrMap, base
    <3> QED
      BY <2>1, <3>2
  <2>4. ~(~IsLinker(e) /\ ~Within(AddressMap(Maps, e.dyn), base, e.size))
    <3>1. ASSUME ~IsLinker(e) PROVE e.size = LoadSize(P)
      BY <1>4, <3>1 DEF IsLinker
    <3> QED
      BY <3>1, <1>5, <1>10, <1>14
  <2>5. Loads(phdrs) # {} /\ MaxVaddr(phdrs) # 0
    BY <1>1, <1>16
  <2> HIDE DEF phdrMap, base, phdrs
  <2> QED
    BY <2>2, <2>3, <2>4, <2>5
<1>28. I.header # "absent"
  BY <1>3
<1> HIDE DEF none, wrong, map, phdrs, phdr, phdrMap, fixed, size, parts, dyn, dynamic, dyns, strtab, symtab, strsz,
             machine, base, I, F, P, bias, d, segments
<1>29. FromSoInfo(Maps, e, I) =
         [base |-> s, phdr |-> s + F.phoff, bias |-> bias, size |-> LoadSize(P),
          dynamic |-> bias + d.vaddr, dyns |-> F.dyns,
          strtab |-> FixTable(Maps, e.strtab, bias), symtab |-> FixTable(Maps, e.symtab, bias),
          strsz |-> Tag(F.dyns, "STRSZ"), machine |-> machine,
          path |-> f, inode |-> F.inode, segments |-> segments,
          bss |-> BssSegments(segments, FrontMap(s), P, bias)]
  <2>1. FromSoInfo(Maps, e, I) =
          [read EXCEPT
             !.phdr = s + F.phoff, !.bias = bias, !.size = LoadSize(P), !.dynamic = bias + d.vaddr, !.dyns = F.dyns,
             !.strtab = FixTable(Maps, e.strtab, bias), !.symtab = FixTable(Maps, e.symtab, bias),
             !.strsz = Tag(F.dyns, "STRSZ"), !.machine = machine,
             !.inode = F.inode, !.segments = segments,
             !.bss = BssSegments(segments, FrontMap(s), P, bias)]
    BY <1>1, <1>15, <1>16, <1>17, <1>18, <1>19, <1>20, <1>22, <1>23, <1>24, <1>25, <1>26, <1>27, <1>28
  <2>2. Invalid = [x \in ElfFields |-> Invalid[x]]
    BY DEF Invalid, ElfFields
  <2>3. read = [x \in ElfFields |-> read[x]] /\ read.base = s /\ read.path = f
    <3>1. read = [x \in ElfFields |-> read[x]]
      BY <2>2
    <3>2. read.base = base /\ read.path = e.path
      BY <2>2 DEF ElfFields
    <3> QED
      BY <3>1, <3>2, <1>4, <1>10
  <2> HIDE DEF read, f
  <2> DEFINE u1 == s + F.phoff
             u2 == LoadSize(P)
             u3 == bias + d.vaddr
             u4 == FixTable(Maps, e.strtab, bias)
             u5 == FixTable(Maps, e.symtab, bias)
             u6 == Tag(F.dyns, "STRSZ")
             u7 == BssSegments(segments, FrontMap(s), P, bias)
             u8 == F.dyns
             u9 == F.inode
  <2>4. FromSoInfo(Maps, e, I) =
          [read EXCEPT
             !.phdr = u1, !.bias = bias, !.size = u2, !.dynamic = u3, !.dyns = u8,
             !.strtab = u4, !.symtab = u5, !.strsz = u6, !.machine = machine,
             !.inode = u9, !.segments = segments, !.bss = u7]
    BY <2>1
  <2> HIDE DEF u1, u2, u3, u4, u5, u6, u7, u8, u9
  <2> DEFINE r == FromSoInfo(Maps, e, I)
             q == [base |-> s, phdr |-> u1, bias |-> bias, size |-> u2, dynamic |-> u3, dyns |-> u8,
                   strtab |-> u4, symtab |-> u5, strsz |-> u6, machine |-> machine, path |-> f, inode |-> u9,
                   segments |-> segments, bss |-> u7]
  <2> HIDE DEF r
  <2>5. r = [read EXCEPT
               !.phdr = u1, !.bias = bias, !.size = u2, !.dynamic = u3, !.dyns = u8,
               !.strtab = u4, !.symtab = u5, !.strsz = u6, !.machine = machine,
               !.inode = u9, !.segments = segments, !.bss = u7]
    BY <2>4 DEF r
  <2>6. r = [x \in ElfFields |-> r[x]]
    BY <2>3, <2>5
  <2>7. /\ r.base = s /\ r.path = f /\ r.phdr = u1 /\ r.bias = bias /\ r.size = u2 /\ r.dynamic = u3
        /\ r.dyns = u8 /\ r.strtab = u4 /\ r.symtab = u5 /\ r.strsz = u6 /\ r.machine = machine
        /\ r.inode = u9 /\ r.segments = segments /\ r.bss = u7
    BY <2>3, <2>5 DEF ElfFields
  <2>8. q = [x \in ElfFields |-> q[x]]
    BY DEF ElfFields
  <2>9. \A x \in ElfFields : r[x] = q[x]
    BY <2>7 DEF ElfFields
  <2> HIDE DEF q
  <2>10. r = q
    BY <2>6, <2>8, <2>9
  <2> QED
    BY <2>10 DEF r, q, u1, u2, u3, u4, u5, u6, u7, u8, u9
<1> QED
  BY <1>29, <1>13 DEF Seen, I, F, P, bias, d, segments

LEMMA SeenBut ==
  ASSUME NEW s, NEW machine
  PROVE  [Seen(s, machine) EXCEPT !.machine = 0] = Seen(s, 0)
BY DEF Seen

\* A soinfo whose fields are known is noted as it is.
LEMMA NotedIs ==
  ASSUME TargetOK, LearntTheFields, somaps = Maps, NEW a \in Nodes
  PROVE  InfoFromSoInfo(a).ptr = a /\ NotedAs(InfoFromSoInfo(a))
<1> DEFINE at(x) == Word(a + offs[x])
           places == <<at("base"), at("bias"), at("phdr"), at("dyn"), at("strtab"), at("symtab")>>
           some == {i \in DOMAIN places : places[i] # 0}
           path == IF some = {} THEN "none" ELSE AddressMap(Maps, places[Min(some)]).path
           e == InfoFromSoInfo(a)
           W == words[a]
<1>1. ASSUME NEW x, NEW w, Is(x, w) PROVE at(x) = W[w]
  BY <1>1, WordIs DEF Is
<1>2. \A x \in {"base", "size", "phdr", "phnum", "dyn", "strtab", "symtab"} : at(x) = W[x]
  <2> SUFFICES ASSUME NEW x \in {"base", "size", "phdr", "phnum", "dyn", "strtab", "symtab"} PROVE at(x) = W[x]
    OBVIOUS
  <2>1. Is(x, x)
    BY DEF LearntTheFields
  <2> HIDE DEF at
  <2> QED
    BY <1>1, <2>1
<1>3. at("bias") \in {W.bias, W.laddr}
  <2>1. PICK w \in {"bias", "laddr"} : Is("bias", w)
    BY DEF LearntTheFields
  <2> HIDE DEF at
  <2> QED
    BY <1>1, <2>1
<1>4. offs.strsz # 0 => at("strsz") = W.strsz
  <2>1. offs.strsz # 0 => Is("strsz", "strsz")
    BY DEF LearntTheFields
  <2> HIDE DEF at
  <2> QED
    BY <1>1, <2>1
<1>5. /\ e.ptr = a /\ e.base = at("base") /\ e.size = at("size") /\ e.phdr = at("phdr")
      /\ e.phnum = at("phnum") /\ e.dyn = at("dyn") /\ e.strtab = at("strtab") /\ e.symtab = at("symtab")
      /\ e.strsz = (IF offs.strsz = 0 THEN 0 ELSE at("strsz")) /\ e.bias = at("bias")
  BY DEF InfoFromSoInfo
<1>6. e.path = path
  BY DEF InfoFromSoInfo
<1>7. places[1] = at("base") /\ places[2] = at("bias") /\ DOMAIN places = 1..6
  OBVIOUS
<1> HIDE DEF at, places, e, W
<1>8. some \in SUBSET Nat /\ \A i \in some : i >= 1
  BY <1>7
<1>9. ASSUME at("base") # 0 PROVE path = AddressMap(Maps, at("base")).path
  <2>1. 1 \in some
    BY <1>7, <1>9
  <2> HIDE DEF some
  <2>2. Min(some) \in some /\ Min(some) <= 1
    BY <1>8, <2>1, MinIs
  <2> DEFINE m == Min(some)
  <2>3. m \in Nat /\ m >= 1 /\ m <= 1
    BY <1>8, <2>2
  <2> HIDE DEF m
  <2>4. m = 1
    BY <2>3
  <2> QED
    BY <1>7, <2>1, <2>4 DEF m
<1>10. ASSUME at("base") = 0, at("bias") # 0 PROVE path = AddressMap(Maps, at("bias")).path
  <2>1. 2 \in some /\ 1 \notin some
    BY <1>7, <1>10
  <2> HIDE DEF some
  <2>2. Min(some) \in some /\ Min(some) <= 2
    BY <1>8, <2>1, MinIs
  <2> DEFINE m == Min(some)
  <2>3. m \in Nat /\ m >= 1 /\ m <= 2 /\ m # 1
    BY <1>8, <2>1, <2>2
  <2> HIDE DEF m
  <2>4. m = 2
    BY <2>3
  <2> QED
    BY <1>7, <2>1, <2>4 DEF m
<1>11. W.base = at("base")
  BY <1>2
<1>12. W.base # 0 => e.path = AddressMap(Maps, W.base).path
  BY <1>6, <1>9, <1>11
<1>13. W.base = 0 /\ e.bias # 0 => e.path = AddressMap(Maps, e.bias).path
  BY <1>5, <1>6, <1>10, <1>11
<1>14. /\ e.base = W.base /\ e.size = W.size /\ e.phdr = W.phdr /\ e.phnum = W.phnum
       /\ e.dyn = W.dyn /\ e.strtab = W.strtab /\ e.symtab = W.symtab
  BY <1>2, <1>5
<1>15. e.bias \in {W.bias, W.laddr} /\ e.strsz \in {0, W.strsz}
  BY <1>3, <1>4, <1>5
<1>16. words[e.ptr] = W
  BY <1>5 DEF W
<1> QED
  BY <1>5, <1>12, <1>13, <1>14, <1>15, <1>16 DEF NotedAs, e

\* What was noted of soinfos still holds, as long as the linker has rested since the
\* walk began; and there is a walk only where the offsets have been learnt.
NotedInv ==
  /\ pc \in {"walk", "step"} \/ infos # <<>> => ready
  /\ pc \in {"learn", "next", "heads"} => infos = <<>>
  /\ pc \in {"walk", "step"} /\ moved = {} => somaps = Maps
  /\ infos \in Seq({infos[i] : i \in DOMAIN infos})
  /\ LearntTheFields /\ moved = {} => \A i \in DOMAIN infos : infos[i].ptr \in Nodes => NotedAs(infos[i])

LEMMA NoteFirst ==
  ASSUME infos = <<>>
  PROVE  infos \in Seq({infos[i] : i \in DOMAIN infos}) /\ DOMAIN infos = {}
OBVIOUS

LEMMA WalkNotesWell ==
  ASSUME TargetOK, NotedInv, WalkInfo
  PROVE  NotedInv'
<1>1. /\ pc = "walk" /\ UNCHANGED <<target, setup, offs, ready, sohead, before>>
      /\ IF si = 0 \/ ~Readable(somaps, si) THEN WalkEnd /\ UNCHANGED infos
         ELSE pc' = "step" /\ infos' = Append(infos, InfoFromSoInfo(si)) /\ UNCHANGED <<si, somaps>>
  BY DEF WalkInfo
<1>2. UNCHANGED <<image, words, layout, offs, moved, ready>>
  BY <1>1 DEF target
<1>3. Maps' = Maps /\ (LearntTheFields' <=> LearntTheFields) /\ ready /\ \A e : NotedAs(e)' <=> NotedAs(e)
  BY <1>1, <1>2, Rests DEF LearntTheFields, Is, NotedAs, NotedInv
<1>4. CASE WalkEnd /\ UNCHANGED infos
  BY <1>2, <1>3, <1>4 DEF NotedInv, WalkEnd
<1>5. CASE pc' = "step" /\ infos' = Append(infos, InfoFromSoInfo(si)) /\ UNCHANGED <<si, somaps>>
  <2> DEFINE e == InfoFromSoInfo(si)
             t == Append(infos, e)
  <2>1. /\ Len(infos) \in Nat /\ DOMAIN infos = 1..Len(infos)
        /\ t \in Seq({t[i] : i \in DOMAIN t}) /\ DOMAIN t = 1..(Len(infos) + 1)
        /\ t[Len(infos) + 1] = e /\ \A i \in 1..Len(infos) : t[i] = infos[i]
    <3> HIDE DEF e
    <3>1. infos \in Seq({infos[i] : i \in DOMAIN infos})
      BY DEF NotedInv
    <3> QED
      BY <3>1, Noted
  <2>2. ASSUME LearntTheFields, moved = {}, e.ptr \in Nodes PROVE NotedAs(e)
    <3>1. e.ptr = si
      BY DEF InfoFromSoInfo
    <3>2. somaps = Maps
      BY <1>1, <2>2 DEF NotedInv
    <3> QED
      BY <2>2, <3>1, <3>2, NotedIs
  <2>3. infos' = t
    BY <1>5
  <2> HIDE DEF t, e
  <2>4. ASSUME LearntTheFields, moved = {}, NEW i \in DOMAIN t, t[i].ptr \in Nodes PROVE NotedAs(t[i])
    <3>1. i \in 1..Len(infos) \/ i = Len(infos) + 1
      BY <2>1
    <3>2. \A j \in DOMAIN infos : infos[j].ptr \in Nodes => NotedAs(infos[j])
      BY <2>4 DEF NotedInv
    <3> QED
      BY <2>1, <2>2, <2>4, <3>1, <3>2
  <2> QED
    BY <1>1, <1>2, <1>3, <1>5, <2>1, <2>3, <2>4 DEF NotedInv
<1> QED
  BY <1>1, <1>4, <1>5

LEMMA ScannerNotesWell ==
  ASSUME TargetOK, NotedInv, SoInfoNext
  PROVE  NotedInv'
<1>1. CASE InitRead \/ InitLearn \/ InitNext \/ SearchStart \/ SearchHead \/ SearchEnd
  <2>1. infos' = <<>> /\ pc' \in {"idle", "learn", "next", "heads"}
    <3>1. CASE InitRead
      BY <3>1 DEF InitRead
    <3>2. CASE InitLearn
      <4>1. pc = "learn" /\ infos' = infos /\ pc' \in {"idle", "next"}
        BY <3>2 DEF InitLearn
      <4> QED
        BY <4>1 DEF NotedInv
    <3>3. CASE InitNext
      BY <3>3 DEF InitNext, NotedInv
    <3>4. CASE SearchStart
      BY <3>4 DEF SearchStart
    <3>5. CASE SearchHead
      <4>1. pc = "heads" /\ infos' = infos /\ pc' = pc
        BY <3>5 DEF SearchHead
      <4> QED
        BY <4>1 DEF NotedInv
    <3>6. CASE SearchEnd
      BY <3>6 DEF SearchEnd, NotedInv
    <3> QED
      BY <1>1, <3>1, <3>2, <3>3, <3>4, <3>5, <3>6
  <2>2. infos' \in Seq({infos'[i] : i \in DOMAIN infos'}) /\ DOMAIN infos' = {}
    BY <2>1
  <2> QED
    BY <2>1, <2>2 DEF NotedInv
<1>2. CASE AllSoInfo
  <2>1. /\ somaps' = Maps /\ infos' = <<>> /\ pc' = "walk" /\ ready /\ ready' = ready /\ image' = image
    BY <1>2 DEF AllSoInfo
  <2>2. infos' \in Seq({infos'[i] : i \in DOMAIN infos'}) /\ DOMAIN infos' = {}
    BY <2>1
  <2>3. somaps' = Maps'
    BY <2>1, Rests
  <2> QED
    BY <2>1, <2>2, <2>3 DEF NotedInv
<1>3. CASE WalkInfo
  BY <1>3, WalkNotesWell
<1>4. CASE WalkStep
  <2>1. /\ pc = "step" /\ UNCHANGED <<target, setup, offs, ready, infos>>
        /\ WalkEnd \/ (pc' = "walk" /\ UNCHANGED somaps)
    BY <1>4 DEF WalkStep
  <2>2. UNCHANGED <<image, words, layout, offs, moved, ready, infos>>
    BY <2>1 DEF target
  <2>3. Maps' = Maps /\ (LearntTheFields' <=> LearntTheFields) /\ \A e : NotedAs(e)' <=> NotedAs(e)
    BY <2>2, Rests DEF LearntTheFields, Is, NotedAs
  <2> QED
    BY <2>1, <2>2, <2>3 DEF NotedInv, WalkEnd
<1> QED
  BY <1>1, <1>2, <1>3, <1>4 DEF SoInfoNext

LEMMA LinkerKeepsNotes ==
  ASSUME TargetOK, SoinfosHold, NotedInv, TargetNext, UNCHANGED <<scan, setup>>
  PROVE  SoinfosHold' /\ NotedInv'
<1>1. UNCHANGED <<pc, infos, ready, somaps>>
  BY DEF scan
<1>2. moved' # {}
  BY DEF TargetNext, Open, MapSegment, Link, Close
<1>3. SoinfosHold'
  BY OpenDescribes, MapSegmentDescribes, LinkDescribes, CloseDescribes DEF TargetNext
<1> QED
  BY <1>1, <1>2, <1>3 DEF NotedInv

\* InfosTruthful, for every process, every layout of a soinfo and all files: once the
\* scanner knows the words of a soinfo, what it makes of every soinfo of a walk the linker
\* did not disturb is what it would make of the image's own header, were it still there.
THEOREM InfosAreTruthful == SoInfoSpec => [](Learnt => InfosTruthful)
<1>1. TargetInit /\ SoInfoInit => TargetOK /\ SoinfosHold /\ NotedInv
  <2> SUFFICES ASSUME TargetInit, SoInfoInit PROVE TargetOK /\ SoinfosHold /\ NotedInv
    OBVIOUS
  <2>1. infos = <<>> /\ pc = "idle"
    BY DEF SoInfoInit
  <2> QED
    BY <2>1, InitialTarget, InitialSoinfos, NoteFirst DEF NotedInv
<1>2. /\ TargetOK /\ SoinfosHold /\ NotedInv
      /\ [SoInfoNext \/ (TargetNext /\ UNCHANGED <<scan, setup>>)]_<<target, scan, setup>>
      => TargetOK' /\ SoinfosHold' /\ NotedInv'
  <2> SUFFICES ASSUME TargetOK, SoinfosHold, NotedInv,
                      [SoInfoNext \/ (TargetNext /\ UNCHANGED <<scan, setup>>)]_<<target, scan, setup>>
               PROVE  TargetOK' /\ SoinfosHold' /\ NotedInv'
    OBVIOUS
  <2>1. CASE TargetNext /\ UNCHANGED <<scan, setup>>
    BY <2>1, LinkerKeepsNotes, OpenKeeps, MapSegmentKeeps, LinkKeeps, CloseKeeps DEF TargetNext
  <2>2. CASE UNCHANGED <<target, scan, setup>>
    <3>1. UNCHANGED <<layout, image, words, list, moved, offs, pc, infos, ready, somaps>>
      BY <2>2 DEF target, scan
    <3>2. TargetOK' /\ SoinfosHold'
      BY <3>1, TargetSame, SoinfosSame
    <3>3. Maps' = Maps /\ (LearntTheFields' <=> LearntTheFields) /\ \A e : NotedAs(e)' <=> NotedAs(e)
      BY <3>1, Rests DEF LearntTheFields, Is, NotedAs
    <3> QED
      BY <3>1, <3>2, <3>3 DEF NotedInv
  <2>3. CASE SoInfoNext
    <3>1. UNCHANGED <<layout, image, words, list>>
      BY <2>3 DEF SoInfoNext, InitRead, InitLearn, InitNext, SearchStart, SearchHead, SearchEnd, AllSoInfo,
                  WalkInfo, WalkStep, target
    <3> QED
      BY <2>3, <3>1, TargetSame, SoinfosSame, ScannerNotesWell
  <2> QED
    BY <2>1, <2>2, <2>3
<1>3. TargetOK /\ SoinfosHold /\ NotedInv => (Learnt => InfosTruthful)
  <2> SUFFICES ASSUME TargetOK, SoinfosHold, NotedInv, Learnt, Walked, moved = {}, calm,
                      NEW i \in DOMAIN infos, NEW s \in Used,
                      image[s].node = infos[i].ptr, words[infos[i].ptr].phdr # 0
               PROVE  [FromSoInfo(Maps, infos[i], ImageAt(s)) EXCEPT !.machine = 0]
                        = [FromBase(Maps, s, [ImageAt(s) EXCEPT !.header = "intact"]) EXCEPT !.machine = 0]
    BY DEF InfosTruthful
  <2>1. LearntTheFields
    BY DEF Walked, NotedInv, Learnt
  <2>2. infos[i].ptr \in Nodes
    BY UsedIs
  <2>3. NotedAs(infos[i])
    BY <2>1, <2>2 DEF NotedInv
  <2>4. Complete(s) /\ Described(s)
    BY DEF SoinfosHold
  <2>5. PICK machine : FromSoInfo(Maps, infos[i], ImageAt(s)) = Seen(s, machine)
    BY <2>3, <2>4, SoinfoShows
  <2>6. FromBase(Maps, s, [ImageAt(s) EXCEPT !.header = "intact"]) = Seen(s, Files[image[s].file].machine)
    BY <2>4, HeaderShows
  <2> QED
    BY <2>5, <2>6, SeenBut
<1> QED
  BY <1>1, <1>2, <1>3, PTL DEF SoInfoSpec
=============================================================================
