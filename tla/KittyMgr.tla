------------------------------ MODULE KittyMgr ------------------------------
(***************************************************************************)
(* KittyMemoryMgr: it owns the memory operations, hands raw pointers to    *)
(* them to its scanners, patches and backups, may be initialized again for *)
(* another process or another kind of operation, and dumps memory.         *)
(*                                                                         *)
(* src/KittyMemory/KittyMemoryMgr.cpp; kitty_mgr.cpp calls it once, with   *)
(* MODE_SYSCALL and patches.  A pointer is a position in ops, 0 is null.   *)
(* Process 1 is the one whose memory MemoryPatch has.                      *)
(***************************************************************************)
EXTENDS MemoryPatch, Sequences, FiniteSetsExt, SequencesExt

CONSTANTS
  Pids,     \* process ids passed to initialize; 0 stands for those below 1
  PathOf,   \* the pathname of each cell's map, a sequence of its parts
  Elf,      \* the cells between base and end of an ELF found earlier
  Limit,    \* 0x1000: how many bytes a dump must have more than
  MaxInits  \* bound: how often initialize is called

ASSUME CellsAssumption == Cells \subseteq Nat /\ IsFiniteSet(Cells)
ASSUME PidsAssumption == Pids \subseteq Nat
ASSUME BufferAssumption == "hole" \notin Patch /\ Limit \in Nat

VARIABLES
  init, pid, eMemOp, memOp, memOpPatch, \* the fields of the same names
  scanOp,     \* the pointer of memScanner, elfScanner and the other scanners
  patchOp,    \* the pointer of memPatch and memBackup
  tracePid,   \* trace.pid()
  ops,        \* the IKittyMemOp objects ever made
  inits,      \* calls of initialize
  patchReady, \* the last of them was to bring up patches, and did; a ghost
  madeBy,     \* the pointer each patch and backup keeps, and its inits

  phase,      \* of a dump: "idle", "read", "write" or "done"
  kind,       \* "file", "range", "elf", or "fixed" for an ELF fixed by its soinfo
  range,      \* the first and last cell
  memBuffer, \* what was read; a "hole" is a zero it was made with
  file,       \* what the destination holds
  result,     \* the dump's answer
  unmapped    \* a page was unmapped or mapped since the dump began; a ghost

mgr == <<init, pid, eMemOp, memOp, memOpPatch, scanOp, patchOp, tracePid, ops, inits, patchReady>>
dumping == <<phase, kind, range, memBuffer, file, result>>
vars == <<patchVars, mgr, madeBy, dumping, unmapped>>

Live(op) == op # 0 /\ ops[op].live
Freed(os, op) == IF op = 0 THEN os ELSE [os EXCEPT ![op].live = FALSE]

MgrInit ==
  /\ init = FALSE /\ pid = 0 /\ eMemOp = "none" /\ memOp = 0 /\ memOpPatch = 0
  /\ scanOp = 0 /\ patchOp = 0 /\ tracePid = 0 /\ ops = <<>> /\ inits = 0
  /\ patchReady = FALSE /\ madeBy = [x \in Objects |-> [op |-> 0, inits |-> 0]]
  /\ phase = "idle" /\ kind = "none" /\ range = <<>> /\ memBuffer = <<>> /\ file = <<>> /\ result = FALSE
  /\ unmapped = FALSE

isMemValid == init /\ pid # 0 /\ memOp # 0

-----------------------------------------------------------------------------
(* initialize.                                                             *)

\* Faulty: what was set up once stays so.
Bug_IsUp(up) == init \/ up

\* _init is cleared first and set when the memory operations have come up.
IsUp(up) == up

Refuse(p, mode) ==
  /\ pid' = p /\ init' = IsUp(FALSE) /\ inits' = inits + 1 /\ patchReady' = FALSE
  /\ IF p = 0 THEN UNCHANGED <<eMemOp, memOp, ops>>
     ELSE /\ eMemOp' = mode /\ ops' = Freed(ops, memOp) /\ memOp' = 0
          /\ mode \notin {"syscall", "io"}
  /\ UNCHANGED <<memOpPatch, scanOp, patchOp, tracePid>>

Made(p, k) == [pid |-> p, kind |-> k, live |-> TRUE]

\* The operations do not come up: no system call, or /proc/<pid>/mem does not open.
Fail(p, mode) ==
  /\ p # 0 /\ mode \in {"syscall", "io"}
  /\ pid' = p /\ eMemOp' = mode /\ init' = IsUp(FALSE) /\ inits' = inits + 1 /\ patchReady' = FALSE
  /\ ops' = Append(Freed(ops, memOp), Made(p, mode)) /\ memOp' = Len(ops')
  /\ UNCHANGED <<memOpPatch, scanOp, patchOp, tracePid>>

\* With "syscall", patches get operations of their own, which may not come up.
Succeed(p, mode, initMemPatch, opens) ==
  /\ p # 0 /\ mode \in {"syscall", "io"}
  /\ pid' = p /\ eMemOp' = mode /\ init' = IsUp(TRUE) /\ inits' = inits + 1
  /\ LET first == Append(Freed(ops, memOp), Made(p, mode))
         second == Append(Freed(first, memOpPatch), Made(p, "io"))
         own == initMemPatch /\ mode = "syscall"
     IN  /\ memOp' = Len(first) /\ scanOp' = memOp'
         /\ ops' = IF own THEN second ELSE first
         /\ memOpPatch' = IF own THEN Len(second) ELSE memOpPatch
         /\ patchReady' = (initMemPatch /\ (own => opens))
         /\ patchOp' = IF ~patchReady' THEN patchOp ELSE IF own THEN memOpPatch' ELSE memOp'
  /\ tracePid' = p

Initialize ==
  /\ inits < MaxInits /\ phase = "idle"
  /\ \E p \in Pids, mode \in {"none", "syscall", "io"} :
       \/ Refuse(p, mode) \/ Fail(p, mode)
       \/ \E initMemPatch, opens \in BOOLEAN : Succeed(p, mode, initMemPatch, opens)
  /\ UNCHANGED <<patchVars, madeBy, dumping, unmapped>>

-----------------------------------------------------------------------------
(* Patches and backups, of process 1.  What a freed operation does is      *)
(* undefined: such a call is left out, and Usable says when there is none. *)

Make(x) ==
  /\ IF patchOp = 0 THEN CreateInvalid(x)
     ELSE Live(patchOp) /\ ops[patchOp].pid = 1 /\ (Create(x) \/ CreateInvalid(x))
  /\ madeBy' = [madeBy EXCEPT ![x] = [op |-> patchOp, inits |-> inits]]

Use(x) ==
  /\ Live(madeBy[x].op) \/ obj[x] = "invalid"
  /\ Restore(x) \/ NotValid(x) \/ (x \in Patch /\ Modify(x))
  /\ UNCHANGED madeBy

\* writeMem and writeMemStr write nothing while the manager is not valid.
Patching ==
  /\ \/ \E x \in Objects : Make(x) \/ Use(x)
     \/ \E c \in Cells : isMemValid /\ pid = 1 /\ Overwrite(c) /\ UNCHANGED madeBy
  /\ UNCHANGED <<mgr, dumping, unmapped>>

Disturb ==
  /\ \E c \in Cells : Remap(c)
  /\ unmapped' = (phase # "idle") /\ UNCHANGED <<mgr, madeBy, dumping>>

-----------------------------------------------------------------------------
(* dumpMemRange, dumpMemFile, dumpMemELF.                                  *)

\* it.inode == firstMap.inode, which is not 0.
SameFile(a, b) == PathOf[a] = PathOf[b] /\ PathOf[a] # <<"anon">>

\* What a caller may name: the last part of a path.
Names == {<<PathOf[c][Len(PathOf[c])]>> : c \in Cells}

\* The lines of the map file that end with q.
getMaps(q) == {c \in ok : IsSuffix(q, PathOf[c])}

\* Faulty: does not look where the next map begins.
Bug_FileRange(q) ==
  LET maps == getMaps(q)
  IN  <<Min(maps), Max({Min(maps)} \cup {c \in maps : SameFile(c, Min(maps))})>>

\* The first map whose name ends with q, and those of the same file right behind it.
FileRange(q) ==
  LET maps == getMaps(q)
      first == Min(maps)
      whole(c) == \A d \in first..c : d \in maps /\ SameFile(d, first)
  IN  <<first, Max({first} \cup {c \in maps : whole(c)})>>

DumpFile(q) ==
  /\ getMaps(q) # {}
  /\ range' = FileRange(q) /\ kind' = "file"

DumpRange(first, last) == first <= last /\ range' = <<first, last>> /\ kind' = "range"

\* elf.base() and elf.end(); the ELF itself was read earlier.
DumpELF == range' = <<Min(Elf), Max(Elf)>> /\ kind' \in {"elf", "fixed"}

DumpBegin ==
  /\ isMemValid /\ phase = "idle" /\ phase' = "read"
  /\ \/ \E q \in Names : DumpFile(q)
     \/ \E a, b \in Cells : DumpRange(a, b)
     \/ DumpELF
  /\ UNCHANGED <<memBuffer, file, result, unmapped>>

\* Read by operations of its own, unless those of the manager are "io"; they may
\* fail to open.  More than one page must have been read.
DumpRead ==
  /\ phase = "read"
  /\ LET cells == range[1]..range[2]
     IN  \/ /\ Cardinality(cells \cap ok) > Limit /\ phase' = "write"
            /\ memBuffer' = [i \in 1..Cardinality(cells) |->
                               LET c == range[1] + i - 1 IN IF c \in ok THEN mem[c] ELSE "hole"]
         \/ /\ Cardinality(cells \cap ok) <= Limit \/ eMemOp = "syscall"
            /\ phase' = "done" /\ UNCHANGED memBuffer
  /\ UNCHANGED <<kind, range, file, result, unmapped>>

\* The file may not open, and the disk may hold less than all of it.  The header
\* of an ELF that was fixed by its soinfo is written over the one in memory.
DumpWrite ==
  /\ phase = "write" /\ phase' = "done"
  /\ \/ UNCHANGED <<file, result>>
     \/ \E n \in 0..Len(memBuffer) :
          /\ result' = (n > Limit)
          /\ LET written == SubSeq(memBuffer, 1, n)
             IN  file' = IF result' /\ kind = "fixed" THEN ReplaceAt(written, 1, "header") ELSE written
  /\ UNCHANGED <<kind, range, memBuffer, unmapped>>

DumpEnd ==
  /\ phase = "done" /\ phase' = "idle" /\ kind' = "none" /\ range' = <<>> /\ memBuffer' = <<>>
  /\ result' = FALSE /\ file' = <<>> /\ unmapped' = FALSE

Dumping == (DumpBegin \/ DumpRead \/ DumpWrite \/ DumpEnd) /\ UNCHANGED <<patchVars, mgr, madeBy>>

\* Patches may come and go during a dump.
MgrNext == Initialize \/ Patching \/ Disturb \/ Dumping

MgrSpec == PatchInit /\ MgrInit /\ [][MgrNext]_vars

-----------------------------------------------------------------------------
(* What the manager promises.                                              *)

\* After any sequence of initializations, whenever the manager calls itself valid,
\* its scanners and the tracer work on the process it was last given with
\* operations that exist; and so do the patches made since, if these came up.
Usable ==
  /\ isMemValid =>
       /\ Live(memOp) /\ ops[memOp].pid = pid /\ scanOp = memOp /\ tracePid = pid
       /\ patchReady => Live(patchOp) /\ ops[patchOp].pid = pid /\ ops[patchOp].kind = "io"
  /\ \A x \in Objects :
       obj[x] = "valid" /\ madeBy[x].inits = inits /\ patchReady => Live(madeBy[x].op)

\* A dump of a mapped file that succeeds has pages of one file only, none left out
\* between them and none behind them that could follow, unless pages came or went
\* during the dump or the disk was full.
DumpIsOneFile ==
  phase = "done" /\ kind = "file" /\ result /\ ~unmapped =>
    /\ \A i \in DOMAIN file : LET c == range[1] + i - 1
                             IN  c \in ok /\ PathOf[c] = PathOf[range[1]] /\ file[i] # "hole"
    /\ range[2] + 1 \in ok => ~SameFile(range[2] + 1, range[1])
=============================================================================
