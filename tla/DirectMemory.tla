---------------------------- MODULE DirectMemory ----------------------------
(***************************************************************************)
(* The KittyMemory namespace: memRead, memWrite and memExecWrite look up   *)
(* the map of an address, add what is missing to the protection, copy, and *)
(* put the protection back; dumpMemToDisk does so map by map.  Several     *)
(* threads call them, in a process that protects its pages itself.         *)
(*                                                                         *)
(* src/KittyMemory/KittyMemory.cpp.  What is copied is left out: a page is *)
(* copied or the copy faults.  In the file a page is its number, or 0 for  *)
(* a page of zeros; single bytes of zero are only counted.  All maps are   *)
(* read at once; what becomes of it when they are not is PtrValidator's    *)
(* subject.                                                                *)
(***************************************************************************)
EXTENDS AddressSpace, Sequences, FiniteSetsExt, SequencesExt

CONSTANTS
  Threads, \* those that call memRead, memWrite and memExecWrite
  Dumper,  \* the one that calls dumpMemToDisk and dumpMemFileToDisk
  MaxCalls \* bound: how many calls are made

ASSUME DumperAssumption == Dumper \notin Threads

VARIABLES
  call,    \* of each thread, the call it is in; alone and the pages are ghosts
  maps,    \* allMaps: those dumpMemToDisk has still to do
  from, to, \* the pages it dumps, and
  pos,     \* currentPos
  found,   \* the maps as it has read them; a ghost
  file,    \* what the destination holds, but for
  extra,   \* the bytes of zero that are too many in it
  full,    \* the disk is
  calls,   \* made so far
  dead,    \* the thread that faulted
  tainted  \* pages of a call over several maps, or that the process changed under a call; a ghost

dumping == <<maps, from, to, pos, found, file, extra, full>>
vars == <<space, call, dumping, calls, dead, tainted>>

Callers == Threads \cup {Dumper}
Idle == [op |-> "none", pc |-> "idle", pages |-> {}, todo |-> {}, seen |-> {}, alone |-> TRUE, ok |-> FALSE]

CallRecords ==
  [op : {"none", "memRead", "memWrite", "memExecWrite", "dump"},
   pc : {"idle", "ask", "open", "copy", "back", "done"},
   pages : SUBSET Pages, todo : SUBSET Pages, seen : SUBSET Rights, alone : BOOLEAN, ok : BOOLEAN]

TypeOK ==
  /\ SpaceTypeOK
  /\ call \in [Callers -> CallRecords]
  /\ maps \subseteq [pages : SUBSET Pages, prot : SUBSET Rights, file : {FileOf[p] : p \in Pages}]
  /\ tainted \subseteq Pages /\ calls \in Nat /\ dead \in Callers \cup {"nobody"} /\ full \in BOOLEAN

CallsInit ==
  /\ call = [t \in Callers |-> Idle]
  /\ maps = {} /\ from = 1 /\ to = 0 /\ pos = 1 /\ found = {} /\ file = <<>> /\ extra = 0 /\ full = FALSE
  /\ calls = 0 /\ dead = "nobody" /\ tainted = {}

\* A call of t over some pages begins; it and the calls it meets are not alone.
Enter(t, new) ==
  call' = [u \in Callers |->
             IF u = t THEN [new EXCEPT !.alone = @ /\ \A v \in Callers : call[v].pages \cap new.pages = {}]
             ELSE [call[u] EXCEPT !.alone = @ /\ call[u].pages \cap new.pages = {}]]

Goto(t, pc) == call' = [call EXCEPT ![t].pc = pc]
Finish(t, ok) == call' = [call EXCEPT ![t].pc = "done", ![t].ok = ok]

-----------------------------------------------------------------------------
(* memRead, memWrite, memExecWrite.                                        *)

Need(op) == IF op = "memRead" THEN "r" ELSE "w"
Opened(op, seen) == IF op = "memExecWrite" THEN Rights ELSE seen \cup {Need(op)}

\* Faulty: takes it that what could not be written was for reading.
Bug_Back(op, seen) == IF op = "memExecWrite" THEN {"r", "x"} ELSE {"r"}
Back(op, seen) == IF op = "memExecWrite" THEN {"r", "x"} ELSE seen

OneMap(pages) == \A p, q \in pages : p \in mapped /\ prot[p] = prot[q]

\* Only the map of the first address is looked up.
Begin(t, op, first, last) ==
  /\ call[t].pc = "idle" /\ first <= last /\ first..last \subseteq Pages
  /\ calls < MaxCalls /\ calls' = calls + 1
  /\ LET pages == first..last
     IN  /\ Enter(t, [op |-> op, pages |-> pages, todo |-> pages, seen |-> prot[first],
                      alone |-> OneMap(pages), ok |-> FALSE,
                      pc |-> IF first \notin mapped THEN "done"
                             ELSE IF Need(op) \in prot[first] THEN "copy" ELSE "open"])
         /\ tainted' = IF OneMap(pages) THEN tainted ELSE tainted \cup pages
  /\ UNCHANGED <<space, dumping, dead>>

\* Faulty: rounds the length to one page.
Bug_Protected(pages) == {p \in pages : \A q \in pages : p <= q}
\* KT_PAGE_LEN2: the pages from the first to the last address.
Protected(pages) == pages

Open(t) ==
  /\ t \in Threads /\ call[t].pc = "open"
  /\ \E success \in BOOLEAN :
       /\ Mprotect(Protected(call[t].pages), Opened(call[t].op, call[t].seen), success)
       /\ IF success THEN Goto(t, "copy") ELSE Finish(t, FALSE)
  /\ UNCHANGED <<dumping, calls, dead, tainted>>

\* memcpy goes up through the pages and faults where one is not, or no longer, open.
Copy(t) ==
  /\ t \in Threads /\ call[t].pc = "copy"
  /\ \E p \in call[t].todo :
       /\ \A q \in call[t].todo : p <= q
       /\ IF Need(call[t].op) \in prot[p]
          THEN call' = [call EXCEPT ![t].todo = @ \ {p}] /\ UNCHANGED dead
          ELSE dead' = t /\ UNCHANGED call
  /\ UNCHANGED <<space, dumping, calls, tainted>>

Copied(t) ==
  /\ t \in Threads /\ call[t].pc = "copy" /\ call[t].todo = {}
  /\ IF Need(call[t].op) \in call[t].seen THEN Finish(t, TRUE) ELSE Goto(t, "back")
  /\ UNCHANGED <<space, dumping, calls, dead, tainted>>

PutBack(t) ==
  /\ t \in Threads /\ call[t].pc = "back"
  /\ \E success \in BOOLEAN :
       /\ Mprotect(Protected(call[t].pages), Back(call[t].op, call[t].seen), success)
       /\ Finish(t, success)
  /\ UNCHANGED <<dumping, calls, dead, tainted>>

Return(t) ==
  /\ call[t].pc = "done" /\ call' = [call EXCEPT ![t] = Idle]
  /\ IF t = Dumper
     THEN /\ maps' = {} /\ from' = 1 /\ to' = 0 /\ pos' = 1 /\ found' = {} /\ file' = <<>> /\ extra' = 0
          /\ UNCHANGED full
     ELSE UNCHANGED dumping
  /\ UNCHANGED <<space, calls, dead, tainted>>

-----------------------------------------------------------------------------
(* dumpMemToDisk, dumpMemFileToDisk.                                       *)

AskRange(first, last) ==
  /\ call[Dumper].pc = "idle" /\ first <= last
  /\ calls < MaxCalls /\ calls' = calls + 1
  /\ from' = first /\ to' = last /\ pos' = first
  /\ call' = [call EXCEPT ![Dumper].pc = "ask"]

getMaps(f) == {m \in Maps : m.file = f}

\* The first map of a file, and those of the same file right behind it.
AskFile(f) ==
  LET of == UNION {m.pages : m \in getMaps(f)}
  IN  of # {} /\ AskRange(Min(of), Max({p \in of : Min(of)..p \subseteq of}))

DumpAsk ==
  /\ (\E p, q \in Pages : AskRange(p, q)) \/ (\E f \in Range(FileOf) : AskFile(f))
  /\ UNCHANGED <<space, maps, found, file, extra, full, dead, tainted>>

\* The maps are read, for dumpMemFileToDisk a second time, and the file is opened.
DumpBegin ==
  /\ call[Dumper].pc = "ask"
  /\ maps' = {m \in Maps : m.pages \cap from..to # {}} /\ found' = maps'
  /\ \E opens \in BOOLEAN :
       Enter(Dumper, [Idle EXCEPT !.op = "dump", !.pages = UNION {m.pages : m \in maps'},
                                  !.pc = IF opens THEN "open" ELSE "done"])
  /\ UNCHANGED <<space, from, to, pos, file, extra, full, calls, dead, tainted>>

\* Faulty: does not fill in what lies between the maps.
Bug_Zeros(n) == <<>>
\* fillWithZeros.
Zeros(n) == [i \in 1..n |-> 0]

\* A full disk takes no more.
Put(s) == file' = IF full THEN file ELSE file \o s

\* The next map: the gap before it is filled, and it is made readable if it is not.
DumpOpen ==
  /\ call[Dumper].pc = "open" /\ maps # {}
  /\ \E m \in maps :
       LET here == {p \in m.pages : pos <= p /\ p <= to}
       IN  /\ \A k \in maps : Min(m.pages) <= Min(k.pages)
           /\ Put(Zeros(Min(here) - pos)) /\ pos' = Min(here)
           /\ \/ /\ "r" \in m.prot /\ UNCHANGED space
                 /\ call' = [call EXCEPT ![Dumper].pc = "copy", ![Dumper].seen = m.prot, ![Dumper].todo = m.pages]
              \/ /\ "r" \notin m.prot
                 /\ \E success \in BOOLEAN :
                      /\ Mprotect(m.pages, m.prot \cup {"r"}, success)
                      /\ call' = [call EXCEPT ![Dumper].pc = "copy", ![Dumper].ok = success,
                                              ![Dumper].seen = m.prot, ![Dumper].todo = m.pages]
           /\ maps' = maps \ {m}
  /\ UNCHANGED <<from, to, found, extra, full, calls, dead, tainted>>

\* write gives up at the first page it cannot read or has no room for, and returns
\* -1 if that is the first of all: the zeros that make up for it are then one more.
DumpCopy ==
  /\ call[Dumper].pc = "copy"
  /\ LET here == {p \in call[Dumper].todo : pos <= p /\ p <= to}
         end == Max(here) + 1
         tried == "r" \in call[Dumper].seen \/ call[Dumper].ok
     IN  \E stop \in pos..end, nowFull \in BOOLEAN :
           /\ \A p \in pos..(stop - 1) : tried /\ "r" \in prot[p]
           /\ stop < end /\ tried /\ ~nowFull /\ ~full => "r" \notin prot[stop]
           /\ nowFull => tried /\ stop < end /\ upsets < MaxUpsets
           /\ upsets' = IF nowFull THEN upsets + 1 ELSE upsets
           /\ full' = (full \/ nowFull) /\ (full => stop = pos)
           /\ Put([i \in 1..(stop - pos) |-> pos + i - 1]
                  \o IF nowFull THEN <<>> ELSE Zeros(end - stop))
           /\ extra' = extra + IF tried /\ stop = pos /\ ~nowFull /\ ~full THEN 1 ELSE 0
           /\ pos' = end
  /\ Goto(Dumper, IF call[Dumper].ok THEN "back" ELSE "open")
  /\ UNCHANGED <<mapped, prot, own, maps, from, to, found, calls, dead, tainted>>

DumpBack ==
  /\ call[Dumper].pc = "back"
  /\ \E success \in BOOLEAN : Mprotect(call[Dumper].todo, call[Dumper].seen, success)
  /\ call' = [call EXCEPT ![Dumper].pc = "open", ![Dumper].ok = FALSE]
  /\ UNCHANGED <<dumping, calls, dead, tainted>>

\* currentPos - address is the size, whatever was written.
DumpEnd ==
  /\ call[Dumper].pc = "open" /\ maps = {}
  /\ Put(Zeros(to - pos + 1)) /\ pos' = to + 1
  /\ Finish(Dumper, TRUE)
  /\ UNCHANGED <<space, maps, from, to, found, extra, full, calls, dead, tainted>>

-----------------------------------------------------------------------------

\* The process changes a page, under a call or not.
Change ==
  /\ \E p \in Pages :
       /\ OwnStep(p)
       /\ call' = [u \in Callers |-> [call[u] EXCEPT !.alone = @ /\ p \notin call[u].pages]]
       /\ tainted' = IF \E u \in Callers : p \in call[u].pages THEN tainted \cup {p} ELSE tainted \ {p}
  /\ UNCHANGED <<dumping, calls, dead>>

CallsNext ==
  /\ dead = "nobody"
  /\ \/ \E t \in Threads :
          \/ \E op \in {"memRead", "memWrite", "memExecWrite"}, p, q \in Pages : Begin(t, op, p, q)
          \/ Open(t) \/ Copy(t) \/ Copied(t) \/ PutBack(t)
     \/ \E t \in Callers : Return(t)
     \/ DumpAsk \/ DumpBegin \/ DumpOpen \/ DumpCopy \/ DumpBack \/ DumpEnd
     \/ Change

CallsSpec == SpaceInit /\ CallsInit /\ [][CallsNext]_vars

-----------------------------------------------------------------------------
(* What the functions promise.                                             *)

\* However calls overlap, and whichever mprotect fails, the process may do with its
\* pages all it asked for: the calls may leave a page more open than it was, never
\* less.  Not so for a page the process changed under a call, and for the pages of a
\* call over more than one map, which get the protection of the first.
NothingTakenAway == \A p \in mapped \ tainted : own[p] \subseteq prot[p]

\* A call that met no other, nor a change by the process, and stayed in one map does
\* not fault, and if it returns true has left the protection as it found it:
\* memExecWrite leaves what it had to open readable and executable.
AloneIsExact ==
  /\ dead # "nobody" => ~call[dead].alone
  /\ \A t \in Threads : call[t].pc = "done" /\ call[t].ok /\ call[t].alone =>
       \A p \in call[t].pages :
         prot[p] = IF "w" \notin call[t].seen /\ call[t].op = "memExecWrite" THEN {"r", "x"} ELSE call[t].seen

\* In a dump every page lies where it belongs, or zeros do, but for single bytes of zero
\* too many, whatever happens to the maps meanwhile, as long as the disk has room; and
\* if no other call and no change came in between, zeros stand only for what was not
\* mapped or not readable, and no byte is too many.
DumpInPlace ==
  call[Dumper].pc = "done" /\ call[Dumper].ok /\ ~full =>
    /\ Len(file) = to - from + 1
    /\ \A i \in DOMAIN file : file[i] \in {0, from + i - 1}
    /\ call[Dumper].alone =>
         /\ extra = 0
         /\ \A i \in DOMAIN file : file[i] = 0 =>
              \A m \in found : from + i - 1 \in m.pages => "r" \notin m.prot
=============================================================================
