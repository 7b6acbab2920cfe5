----------------------------- MODULE PagesProofs -----------------------------
(***************************************************************************)
(* DirectMemory takes nothing away, for any number of threads, pages and   *)
(* calls: what the process may do with a page it asked for is in what      *)
(* every call in progress remembers of that page, and puts back.           *)
(*                                                                         *)
(* What the pointer validator answers, for any address space, any number   *)
(* of changes to it and any sequence of questions and refreshes.  A yes    *)
(* rests on what was seen, whatever changed since (Sound); a no rests on   *)
(* the order of the regions and on their covering all maps, as long as     *)
(* nothing changes (Complete).                                             *)
(*                                                                         *)
(* What a dump writes, for any maps and any calls beside it: the file is   *)
(* what lies behind the cursor, page by page (Filed), because the maps are *)
(* done in order (Placed) and, if nobody came in between, are still as     *)
(* they were read (Undisturbed).                                           *)
(***************************************************************************)
EXTENDS DirectMemory, PtrValidator, SequenceTheorems, WellFoundedInduction, FunctionTheorems, FiniteSetTheorems, TLAPS

LEMMA PagesAreNumbers == Pages \subseteq Nat \ {0}
<1>1. Cardinality(Pages) \in Nat
  BY PagesAssumption, FS_CardinalityType
<1> QED
  BY <1>1, PagesAssumption

\* A call remembers every right of its pages; it only opens and puts back pages of a
\* protection that lacks the one it needs.
Remembers(c) ==
  c.pc \in {"open", "copy", "back"} =>
    /\ \A p \in c.pages \ tainted : own[p] \subseteq c.seen
    /\ c.pc # "copy" => Need(c.op) \notin c.seen

ThreadsRemember == \A t \in Threads : Remembers(call[t])

\* The same of the maps the dump has before it, and of the one it is at.
MapRemembers(m) == m.pages \subseteq call[Dumper].pages /\ \A p \in m.pages \ tainted : own[p] \subseteq m.prot
DumpRemembers ==
  /\ \A m \in maps : MapRemembers(m)
  /\ call[Dumper].pc \in {"copy", "back"} =>
       /\ call[Dumper].todo \subseteq call[Dumper].pages
       /\ \A p \in call[Dumper].todo \ tainted : own[p] \subseteq call[Dumper].seen

IInv == TypeOK /\ NothingTakenAway /\ ThreadsRemember /\ DumpRemembers

LEMMA Initially == SpaceInit /\ CallsInit => IInv
<1> SUFFICES ASSUME SpaceInit, CallsInit PROVE IInv
  OBVIOUS
<1>1. SpaceTypeOK
  BY ProtectionsAssumption DEF SpaceInit, SpaceTypeOK
<1>2. Idle \in CallRecords
  BY DEF Idle, CallRecords
<1>3. TypeOK
  BY <1>1, <1>2 DEF CallsInit, TypeOK
<1>4. NothingTakenAway
  BY DEF SpaceInit, NothingTakenAway
<1>5. ThreadsRemember /\ DumpRemembers
  BY DEF CallsInit, ThreadsRemember, Remembers, DumpRemembers, Idle, Callers
<1> QED
  BY <1>3, <1>4, <1>5 DEF IInv

-----------------------------------------------------------------------------
\* mprotect takes nothing away if the new protection allows what was asked for.
LEMMA MprotectKeeps ==
  ASSUME SpaceTypeOK, NothingTakenAway, NEW pages \in SUBSET Pages, NEW new \in SUBSET Rights,
         NEW success, Mprotect(pages, new, success), tainted' = tainted,
         \A p \in pages \ tainted : own[p] \subseteq new
  PROVE  SpaceTypeOK' /\ NothingTakenAway' /\ mapped' = mapped /\ own' = own
<1>1. PICK changed \in SUBSET (pages \cap mapped) :
        /\ prot' = [p \in Pages |-> IF p \in changed THEN new ELSE prot[p]]
        /\ upsets' \in {upsets, upsets + 1} /\ mapped' = mapped /\ own' = own
  BY DEF Mprotect
<1>2. SpaceTypeOK'
  BY <1>1 DEF SpaceTypeOK
<1>3. NothingTakenAway'
  BY <1>1 DEF SpaceTypeOK, NothingTakenAway
<1> QED
  BY <1>1, <1>2, <1>3

\* The pages of a map are mapped and have its protection.
LEMMA MapsAreAlike ==
  ASSUME SpaceTypeOK, NEW m \in Maps
  PROVE  /\ m \in [pages : SUBSET Pages, prot : SUBSET Rights, file : {FileOf[p] : p \in Pages}]
         /\ \A q \in m.pages : q \in mapped /\ prot[q] = m.prot
<1>1. PICK p \in mapped : m = MapIn(mapped, prot, p)
  BY DEF Maps
<1>2. p \in Pages /\ \A q \in m.pages : q \in Pages /\ Alike(mapped, prot, p, q)
  BY <1>1 DEF MapIn, SpaceTypeOK
<1>3. ASSUME NEW q \in m.pages PROVE q \in mapped /\ prot[q] = prot[p]
  <2>1. q \in Pages /\ p \in Nat /\ q \in Nat
    BY <1>2, PagesAreNumbers
  <2>2. (p <= q /\ q <= q) \/ (q <= q /\ q <= p)
    BY <2>1
  <2> QED
    BY <1>2, <2>1, <2>2 DEF Alike
<1>4. m.prot = prot[p]
  BY <1>1 DEF MapIn
<1> QED
  BY <1>1, <1>2, <1>3, <1>4 DEF MapIn, SpaceTypeOK

\* Calls that differ in `alone` at most.
Like(c, d) ==
  c.op = d.op /\ c.pc = d.pc /\ c.pages = d.pages /\ c.todo = d.todo /\ c.seen = d.seen /\ c.ok = d.ok

LEMMA AloneTyped ==
  ASSUME NEW c \in CallRecords, NEW b \in BOOLEAN
  PROVE  [c EXCEPT !.alone = b] \in CallRecords /\ Like([c EXCEPT !.alone = b], c)
BY DEF CallRecords, Like

LEMMA EnterIs ==
  ASSUME call \in [Callers -> CallRecords], NEW t \in Callers, NEW new \in CallRecords, Enter(t, new)
  PROVE  /\ call' \in [Callers -> CallRecords] /\ Like(call'[t], new)
         /\ \A u \in Callers \ {t} : Like(call'[u], call[u])
<1>1. /\ new.alone \in BOOLEAN
      /\ \A u \in Callers : call[u] \in CallRecords /\ call[u].alone \in BOOLEAN
  BY DEF CallRecords
<1> DEFINE apart == new.alone /\ \A v \in Callers : call[v].pages \cap new.pages = {}
           still(u) == call[u].alone /\ call[u].pages \cap new.pages = {}
<1>2. /\ call' = [u \in Callers |-> IF u = t THEN [new EXCEPT !.alone = apart] ELSE [call[u] EXCEPT !.alone = still(u)]]
      /\ apart \in BOOLEAN /\ \A u \in Callers : still(u) \in BOOLEAN
  BY <1>1, Zenon DEF Enter
<1> HIDE DEF apart, still
<1>3. call'[t] \in CallRecords /\ Like(call'[t], new)
  BY <1>2, AloneTyped
<1>4. \A u \in Callers \ {t} : call'[u] \in CallRecords /\ Like(call'[u], call[u])
  BY <1>1, <1>2, AloneTyped
<1> QED
  BY <1>2, <1>3, <1>4

LEMMA GotoIs ==
  ASSUME call \in [Callers -> CallRecords], NEW t \in Callers,
         NEW next \in {"idle", "ask", "open", "copy", "back", "done"}, Goto(t, next)
  PROVE  /\ call' \in [Callers -> CallRecords] /\ call'[t].pc = next
         /\ call'[t].op = call[t].op /\ call'[t].pages = call[t].pages /\ call'[t].seen = call[t].seen
         /\ call'[t].todo = call[t].todo
         /\ \A u \in Callers \ {t} : Like(call'[u], call[u])
BY DEF Goto, Like, CallRecords

LEMMA FinishIs ==
  ASSUME call \in [Callers -> CallRecords], NEW t \in Callers, NEW ok \in BOOLEAN, Finish(t, ok)
  PROVE  /\ call' \in [Callers -> CallRecords] /\ call'[t].pc = "done" /\ call'[t].pages = call[t].pages
         /\ \A u \in Callers \ {t} : Like(call'[u], call[u])
<1> DEFINE c == [call[t] EXCEPT !.pc = "done", !.ok = ok]
<1>1. call[t] \in CallRecords
  OBVIOUS
<1>2. c \in CallRecords /\ c.pc = "done" /\ c.pages = call[t].pages
  BY <1>1 DEF CallRecords
<1> HIDE DEF c
<1>3. call' = [call EXCEPT ![t] = c]
  BY DEF Finish, c
<1> QED
  BY <1>2, <1>3 DEF Like

-----------------------------------------------------------------------------
\* A step of a thread changes nothing for the other calls.
LEMMA ThreadStep ==
  ASSUME IInv, NEW t \in Threads, SpaceTypeOK', NothingTakenAway', own' = own,
         call' \in [Callers -> CallRecords], \A u \in Callers \ {t} : Like(call'[u], call[u]),
         tainted \subseteq tainted', tainted' \subseteq Pages, calls' \in Nat,
         UNCHANGED dumping, dead' \in Callers \cup {"nobody"}, Remembers(call[t])'
  PROVE  IInv'
<1>1. TypeOK'
  BY DEF IInv, TypeOK, dumping
<1>2. \A u \in Threads \ {t} : Remembers(call[u])'
  BY DEF IInv, ThreadsRemember, Remembers, Like, Callers
<1>3. ThreadsRemember'
  BY <1>2 DEF ThreadsRemember
<1>4. Like(call'[Dumper], call[Dumper])
  BY DumperAssumption DEF Callers
<1>5. DumpRemembers'
  BY <1>4 DEF IInv, DumpRemembers, MapRemembers, Like, dumping
<1> QED
  BY <1>1, <1>3, <1>5 DEF IInv

LEMMA BeginStep ==
  ASSUME IInv, NEW t \in Threads, NEW op \in {"memRead", "memWrite", "memExecWrite"},
         NEW first \in Pages, NEW last \in Pages, Begin(t, op, first, last)
  PROVE  IInv'
<1> DEFINE pages == first..last
           new == [op |-> op, pages |-> pages, todo |-> pages, seen |-> prot[first],
                   alone |-> OneMap(pages), ok |-> FALSE,
                   pc |-> IF first \notin mapped THEN "done"
                          ELSE IF Need(op) \in prot[first] THEN "copy" ELSE "open"]
<1>1. /\ t \in Callers /\ first \in pages /\ pages \in SUBSET Pages /\ Enter(t, new)
      /\ UNCHANGED <<space, dumping, dead>> /\ calls' = calls + 1
      /\ tainted' = IF OneMap(pages) THEN tainted ELSE tainted \cup pages
  BY PagesAreNumbers DEF Begin, Callers
<1>2. OneMap(pages) \in BOOLEAN
  BY Zenon DEF OneMap
<1>3. prot[first] \in SUBSET Rights
  BY DEF IInv, TypeOK, SpaceTypeOK
<1> DEFINE single == OneMap(pages)
<1> HIDE DEF single
<1>4. new \in CallRecords
  BY <1>1, <1>2, <1>3 DEF CallRecords, single
<1>5. new.op = op /\ new.pages = pages /\ new.seen = prot[first] /\ new.pc \in {"done", "copy", "open"}
      /\ (new.pc = "open" => Need(op) \notin prot[first])
  BY DEF single
<1>6. OneMap(pages) => \A p \in pages \ tainted : own[p] \subseteq prot[first]
  BY <1>1 DEF OneMap, IInv, NothingTakenAway
<1> HIDE DEF new
<1>7. /\ call' \in [Callers -> CallRecords] /\ Like(call'[t], new)
      /\ \A u \in Callers \ {t} : Like(call'[u], call[u])
  BY <1>1, <1>4, EnterIs DEF IInv, TypeOK
<1>8. Remembers(call[t])'
  BY <1>1, <1>5, <1>6, <1>7 DEF Remembers, Like, space
<1>9. SpaceTypeOK' /\ NothingTakenAway' /\ own' = own
  BY <1>1 DEF IInv, TypeOK, SpaceTypeOK, NothingTakenAway, space
<1> QED
  BY <1>1, <1>7, <1>8, <1>9, ThreadStep DEF IInv, TypeOK

LEMMA OpenStep ==
  ASSUME IInv, NEW t \in Threads, Open(t)
  PROVE  IInv'
<1>1. t \in Callers /\ call[t] \in CallRecords /\ call[t].pc = "open" /\ Remembers(call[t])
  BY DEF IInv, TypeOK, ThreadsRemember, Open, Callers
<1>2. PICK success \in BOOLEAN :
        /\ Mprotect(call[t].pages, Opened(call[t].op, call[t].seen), success)
        /\ IF success THEN Goto(t, "copy") ELSE Finish(t, FALSE)
  BY DEF Open, Protected
<1>3. /\ UNCHANGED <<dumping, calls, dead, tainted>>
      /\ call[t].pages \in SUBSET Pages /\ Opened(call[t].op, call[t].seen) \in SUBSET Rights
      /\ call[t].seen \subseteq Opened(call[t].op, call[t].seen)
  BY <1>1 DEF Open, Opened, Need, Rights, CallRecords
<1>4. SpaceTypeOK' /\ NothingTakenAway' /\ own' = own
  BY <1>1, <1>2, <1>3, MprotectKeeps DEF IInv, TypeOK, Remembers
<1>5. /\ call' \in [Callers -> CallRecords] /\ \A u \in Callers \ {t} : Like(call'[u], call[u])
      /\ \/ call'[t].pc = "done"
         \/ call'[t].pc = "copy" /\ call'[t].pages = call[t].pages /\ call'[t].seen = call[t].seen
  <2>1. CASE success
    <3>1. Goto(t, "copy")
      BY <1>2, <2>1
    <3> QED
      BY <1>1, <3>1, GotoIs DEF IInv, TypeOK
  <2>2. CASE ~success
    <3>1. Finish(t, FALSE) /\ FALSE \in BOOLEAN
      BY <1>2, <2>2
    <3> QED
      BY <1>1, <3>1, FinishIs DEF IInv, TypeOK
  <2> QED
    BY <2>1, <2>2
<1>6. Remembers(call[t])'
  BY <1>1, <1>3, <1>4, <1>5 DEF Remembers
<1> QED
  BY <1>3, <1>4, <1>5, <1>6, ThreadStep DEF IInv, TypeOK

LEMMA CopyStep ==
  ASSUME IInv, NEW t \in Threads, Copy(t)
  PROVE  IInv'
<1>1. t \in Callers /\ call[t] \in CallRecords /\ call[t].pc = "copy" /\ Remembers(call[t])
  BY DEF IInv, TypeOK, ThreadsRemember, Copy, Callers
<1>2. PICK p \in call[t].todo :
        \/ call' = [call EXCEPT ![t].todo = @ \ {p}] /\ UNCHANGED dead
        \/ dead' = t /\ UNCHANGED call
  BY DEF Copy
<1>3. UNCHANGED <<space, dumping, calls, tainted>>
  BY DEF Copy
<1>4. /\ call' \in [Callers -> CallRecords] /\ \A u \in Callers \ {t} : Like(call'[u], call[u])
      /\ call'[t].pc = "copy" /\ call'[t].pages = call[t].pages /\ call'[t].seen = call[t].seen
  BY <1>1, <1>2 DEF IInv, TypeOK, CallRecords, Like
<1>5. SpaceTypeOK' /\ NothingTakenAway' /\ own' = own
  BY <1>3 DEF IInv, TypeOK, SpaceTypeOK, NothingTakenAway, space
<1>6. Remembers(call[t])'
  BY <1>1, <1>3, <1>4, <1>5 DEF Remembers
<1>7. dead' \in Callers \cup {"nobody"}
  BY <1>1, <1>2 DEF IInv, TypeOK
<1> QED
  BY <1>3, <1>4, <1>5, <1>6, <1>7, ThreadStep DEF IInv, TypeOK

LEMMA CopiedStep ==
  ASSUME IInv, NEW t \in Threads, Copied(t)
  PROVE  IInv'
<1>1. t \in Callers /\ call[t] \in CallRecords /\ call[t].pc = "copy" /\ Remembers(call[t])
  BY DEF IInv, TypeOK, ThreadsRemember, Copied, Callers
<1>2. UNCHANGED <<space, dumping, calls, dead, tainted>>
  BY DEF Copied
<1>3. SpaceTypeOK' /\ NothingTakenAway' /\ own' = own
  BY <1>2 DEF IInv, TypeOK, SpaceTypeOK, NothingTakenAway, space
<1>4. CASE Need(call[t].op) \in call[t].seen
  <2>1. Finish(t, TRUE)
    BY <1>4 DEF Copied
  <2>2. /\ call' \in [Callers -> CallRecords] /\ \A u \in Callers \ {t} : Like(call'[u], call[u])
        /\ call'[t].pc = "done"
    BY <1>1, <2>1, FinishIs DEF IInv, TypeOK
  <2> QED
    BY <1>2, <1>3, <2>2, ThreadStep DEF IInv, TypeOK, Remembers
<1>5. CASE Need(call[t].op) \notin call[t].seen
  <2>1. Goto(t, "back")
    BY <1>5 DEF Copied
  <2>2. /\ call' \in [Callers -> CallRecords] /\ \A u \in Callers \ {t} : Like(call'[u], call[u])
        /\ call'[t].pc = "back" /\ call'[t].op = call[t].op
        /\ call'[t].pages = call[t].pages /\ call'[t].seen = call[t].seen
    BY <1>1, <2>1, GotoIs DEF IInv, TypeOK
  <2>3. Remembers(call[t])'
    BY <1>1, <1>2, <1>3, <1>5, <2>2 DEF Remembers, Need
  <2> QED
    BY <1>2, <1>3, <2>2, <2>3, ThreadStep DEF IInv, TypeOK
<1> QED
  BY <1>4, <1>5

\* What memExecWrite puts back lacks write access, and so did what it found.
LEMMA PutBackStep ==
  ASSUME IInv, NEW t \in Threads, PutBack(t)
  PROVE  IInv'
<1>1. t \in Callers /\ call[t] \in CallRecords /\ call[t].pc = "back" /\ Remembers(call[t])
  BY DEF IInv, TypeOK, ThreadsRemember, PutBack, Callers
<1>2. PICK success \in BOOLEAN :
        Mprotect(call[t].pages, Back(call[t].op, call[t].seen), success) /\ Finish(t, success)
  BY DEF PutBack, Protected
<1>3. /\ UNCHANGED <<dumping, calls, dead, tainted>>
      /\ call[t].pages \in SUBSET Pages /\ Back(call[t].op, call[t].seen) \in SUBSET Rights
      /\ call[t].seen \subseteq Back(call[t].op, call[t].seen)
  BY <1>1 DEF PutBack, Back, Need, Rights, CallRecords, Remembers
<1>4. SpaceTypeOK' /\ NothingTakenAway' /\ own' = own
  BY <1>1, <1>2, <1>3, MprotectKeeps DEF IInv, TypeOK, Remembers
<1>5. /\ call' \in [Callers -> CallRecords] /\ \A u \in Callers \ {t} : Like(call'[u], call[u])
      /\ call'[t].pc = "done"
  BY <1>1, <1>2, FinishIs DEF IInv, TypeOK
<1> QED
  BY <1>3, <1>4, <1>5, ThreadStep DEF IInv, TypeOK, Remembers

LEMMA ReturnStep ==
  ASSUME IInv, NEW t \in Callers, Return(t)
  PROVE  IInv'
<1>1. /\ call' = [call EXCEPT ![t] = Idle] /\ UNCHANGED <<space, calls, dead, tainted>>
      /\ maps' \in {maps, {}} /\ full' = full /\ (t # Dumper => maps' = maps)
  BY DEF Return, dumping
<1>2. Idle \in CallRecords /\ Idle.pc = "idle"
  BY DEF Idle, CallRecords
<1>3. /\ call' \in [Callers -> CallRecords] /\ call'[t].pc = "idle"
      /\ \A u \in Callers \ {t} : call'[u] = call[u]
  BY <1>1, <1>2 DEF IInv, TypeOK
<1>4. TypeOK' /\ NothingTakenAway'
  BY <1>1, <1>3 DEF IInv, TypeOK, SpaceTypeOK, NothingTakenAway, space
<1>5. ThreadsRemember'
  BY <1>1, <1>3 DEF IInv, ThreadsRemember, Remembers, Callers, space
<1>6. t = Dumper => maps' = {}
  BY DEF Return
<1>7. DumpRemembers'
  BY <1>1, <1>3, <1>6 DEF IInv, DumpRemembers, MapRemembers, Callers, space
<1> QED
  BY <1>4, <1>5, <1>7 DEF IInv
-----------------------------------------------------------------------------
\* A step of the dump changes nothing for the threads.
LEMMA DumperStep ==
  ASSUME IInv, SpaceTypeOK', NothingTakenAway', own' = own, full' \in BOOLEAN, calls' \in Nat,
         call' \in [Callers -> CallRecords], \A u \in Callers \ {Dumper} : Like(call'[u], call[u]),
         UNCHANGED <<dead, tainted>>,
         maps' \subseteq [pages : SUBSET Pages, prot : SUBSET Rights, file : {FileOf[p] : p \in Pages}],
         DumpRemembers'
  PROVE  IInv'
<1>1. TypeOK'
  BY DEF IInv, TypeOK
<1>2. \A u \in Threads : Like(call'[u], call[u])
  BY DumperAssumption DEF Callers
<1>3. ThreadsRemember'
  BY <1>2 DEF IInv, ThreadsRemember, Remembers, Like
<1> QED
  BY <1>1, <1>3 DEF IInv

LEMMA DumpAskStep ==
  ASSUME IInv, DumpAsk
  PROVE  IInv'
<1>1. PICK first, last : AskRange(first, last)
  BY DEF DumpAsk, AskFile
<1>2. /\ call[Dumper].pc = "idle" /\ call' = [call EXCEPT ![Dumper].pc = "ask"] /\ calls' = calls + 1
      /\ UNCHANGED <<space, maps, full, dead, tainted>>
  BY <1>1 DEF AskRange, DumpAsk
<1>3. Dumper \in Callers /\ call[Dumper] \in CallRecords
  BY DEF Callers, IInv, TypeOK
<1>4. /\ call' \in [Callers -> CallRecords] /\ \A u \in Callers \ {Dumper} : Like(call'[u], call[u])
      /\ call'[Dumper].pc = "ask" /\ call'[Dumper].pages = call[Dumper].pages
  BY <1>2, <1>3 DEF IInv, TypeOK, CallRecords, Like
<1>5. SpaceTypeOK' /\ NothingTakenAway' /\ own' = own
  BY <1>2 DEF IInv, TypeOK, SpaceTypeOK, NothingTakenAway, space
<1>6. DumpRemembers'
  BY <1>2, <1>4, <1>5 DEF IInv, DumpRemembers, MapRemembers
<1> QED
  BY <1>2, <1>4, <1>5, <1>6, DumperStep DEF IInv, TypeOK

LEMMA DumpBeginStep ==
  ASSUME IInv, DumpBegin
  PROVE  IInv'
<1>1. PICK opens \in BOOLEAN :
        Enter(Dumper, [Idle EXCEPT !.op = "dump", !.pages = UNION {m.pages : m \in maps'},
                                   !.pc = IF opens THEN "open" ELSE "done"])
  BY DEF DumpBegin
<1>2. maps' \subseteq Maps /\ UNCHANGED <<space, full, calls, dead, tainted>> /\ Dumper \in Callers
  BY DEF DumpBegin, Callers
<1>3. \A m \in maps' :
        /\ m \in [pages : SUBSET Pages, prot : SUBSET Rights, file : {FileOf[p] : p \in Pages}]
        /\ \A q \in m.pages : q \in mapped /\ prot[q] = m.prot
  BY <1>2, MapsAreAlike DEF IInv, TypeOK
<1> DEFINE all == UNION {m.pages : m \in maps'}
           new == [Idle EXCEPT !.op = "dump", !.pages = all, !.pc = IF opens THEN "open" ELSE "done"]
<1>4. all \in SUBSET Pages /\ \A m \in maps' : m.pages \subseteq all
  BY <1>3
<1> HIDE DEF all
<1>5. new \in CallRecords /\ new.pages = all /\ new.pc \in {"open", "done"}
  BY <1>4 DEF Idle, CallRecords
<1>6. Enter(Dumper, new)
  BY <1>1 DEF all
<1> HIDE DEF new
<1>7. /\ call' \in [Callers -> CallRecords] /\ Like(call'[Dumper], new)
      /\ \A u \in Callers \ {Dumper} : Like(call'[u], call[u])
  BY <1>2, <1>5, <1>6, EnterIs DEF IInv, TypeOK
<1>8. SpaceTypeOK' /\ NothingTakenAway' /\ own' = own
  BY <1>2 DEF IInv, TypeOK, SpaceTypeOK, NothingTakenAway, space
<1>9. DumpRemembers'
  <2>1. ASSUME NEW m \in maps' PROVE MapRemembers(m)'
    <3>1. m.pages \subseteq call'[Dumper].pages
      BY <1>4, <1>5, <1>7 DEF Like
    <3>2. \A p \in m.pages \ tainted : own[p] \subseteq m.prot
      BY <1>3 DEF IInv, NothingTakenAway
    <3> QED
      BY <1>2, <1>8, <3>1, <3>2 DEF MapRemembers
  <2>2. call'[Dumper].pc \notin {"copy", "back"}
    BY <1>5, <1>7 DEF Like
  <2> QED
    BY <2>1, <2>2 DEF DumpRemembers
<1>10. maps' \subseteq [pages : SUBSET Pages, prot : SUBSET Rights, file : {FileOf[p] : p \in Pages}]
  BY <1>3
<1> QED
  BY <1>2, <1>7, <1>8, <1>9, <1>10, DumperStep DEF IInv, TypeOK

LEMMA DumpOpenStep ==
  ASSUME IInv, DumpOpen
  PROVE  IInv'
<1>1. PICK m \in maps :
        /\ maps' = maps \ {m}
        /\ \/ /\ UNCHANGED space
              /\ call' = [call EXCEPT ![Dumper].pc = "copy", ![Dumper].seen = m.prot, ![Dumper].todo = m.pages]
           \/ \E success \in BOOLEAN :
                /\ Mprotect(m.pages, m.prot \cup {"r"}, success)
                /\ call' = [call EXCEPT ![Dumper].pc = "copy", ![Dumper].ok = success,
                                        ![Dumper].seen = m.prot, ![Dumper].todo = m.pages]
  BY Zenon DEF DumpOpen
<1>2. UNCHANGED <<full, calls, dead, tainted>> /\ Dumper \in Callers /\ call[Dumper] \in CallRecords
  BY DEF DumpOpen, Callers, IInv, TypeOK
<1>3. m.pages \in SUBSET Pages /\ m.prot \in SUBSET Rights /\ MapRemembers(m)
  BY DEF IInv, TypeOK, DumpRemembers
<1>4. /\ call' \in [Callers -> CallRecords] /\ \A u \in Callers \ {Dumper} : call'[u] = call[u]
      /\ call'[Dumper].pc = "copy" /\ call'[Dumper].todo = m.pages /\ call'[Dumper].seen = m.prot
      /\ call'[Dumper].pages = call[Dumper].pages
  <2>1. CASE call' = [call EXCEPT ![Dumper].pc = "copy", ![Dumper].seen = m.prot, ![Dumper].todo = m.pages]
    BY <1>2, <1>3, <2>1 DEF IInv, TypeOK, CallRecords
  <2>2. ASSUME NEW success \in BOOLEAN,
               call' = [call EXCEPT ![Dumper].pc = "copy", ![Dumper].ok = success,
                                    ![Dumper].seen = m.prot, ![Dumper].todo = m.pages]
        PROVE <1>4
    BY <1>2, <1>3, <2>2 DEF IInv, TypeOK, CallRecords
  <2> QED
    BY <1>1, <2>1, <2>2
<1>5. SpaceTypeOK' /\ NothingTakenAway' /\ own' = own
  <2>1. CASE UNCHANGED space
    BY <1>2, <2>1 DEF IInv, TypeOK, SpaceTypeOK, NothingTakenAway, space
  <2>2. ASSUME NEW success \in BOOLEAN, Mprotect(m.pages, m.prot \cup {"r"}, success) PROVE <1>5
    <3>1. m.prot \cup {"r"} \in SUBSET Rights /\ \A p \in m.pages \ tainted : own[p] \subseteq m.prot \cup {"r"}
      BY <1>3 DEF Rights, MapRemembers
    <3> QED
      BY <1>2, <1>3, <2>2, <3>1, MprotectKeeps DEF IInv, TypeOK
  <2> QED
    BY <1>1, <2>1, <2>2
<1>6. DumpRemembers'
  BY <1>1, <1>2, <1>3, <1>4, <1>5 DEF IInv, DumpRemembers, MapRemembers
<1>7. \A u \in Callers \ {Dumper} : Like(call'[u], call[u])
  BY <1>4 DEF Like
<1> QED
  BY <1>1, <1>2, <1>4, <1>5, <1>6, <1>7, DumperStep DEF IInv, TypeOK

LEMMA DumpCopyStep ==
  ASSUME IInv, DumpCopy
  PROVE  IInv'
<1>1. PICK stop, nowFull \in BOOLEAN :
        upsets' = (IF nowFull THEN upsets + 1 ELSE upsets) /\ full' = (full \/ nowFull)
  BY Zenon DEF DumpCopy
<1>2. /\ Goto(Dumper, IF call[Dumper].ok THEN "back" ELSE "open") /\ call[Dumper].pc = "copy"
      /\ UNCHANGED <<mapped, prot, own, maps, calls, dead, tainted>> /\ Dumper \in Callers
  BY DEF DumpCopy, Callers
<1>3. /\ call' \in [Callers -> CallRecords] /\ call'[Dumper].pc \in {"back", "open"}
      /\ call'[Dumper].pages = call[Dumper].pages /\ call'[Dumper].todo = call[Dumper].todo
      /\ call'[Dumper].seen = call[Dumper].seen
      /\ \A u \in Callers \ {Dumper} : Like(call'[u], call[u])
  <2>1. PICK next \in {"back", "open"} : Goto(Dumper, next)
    BY <1>2
  <2> QED
    BY <1>2, <2>1, GotoIs DEF IInv, TypeOK
<1>4. SpaceTypeOK' /\ NothingTakenAway' /\ own' = own
  BY <1>1, <1>2 DEF IInv, TypeOK, SpaceTypeOK, NothingTakenAway
<1>5. DumpRemembers'
  BY <1>2, <1>3 DEF IInv, DumpRemembers, MapRemembers
<1>6. full' \in BOOLEAN
  BY <1>1, Zenon
<1> QED
  BY <1>2, <1>3, <1>4, <1>5, <1>6, DumperStep DEF IInv, TypeOK

LEMMA DumpBackStep ==
  ASSUME IInv, DumpBack
  PROVE  IInv'
<1>1. /\ call[Dumper].pc = "back" /\ call' = [call EXCEPT ![Dumper].pc = "open", ![Dumper].ok = FALSE]
      /\ UNCHANGED <<dumping, calls, dead, tainted>> /\ Dumper \in Callers
  BY DEF DumpBack, Callers
<1>2. PICK success \in BOOLEAN : Mprotect(call[Dumper].todo, call[Dumper].seen, success)
  BY DEF DumpBack
<1>3. /\ call[Dumper] \in CallRecords
      /\ call[Dumper].todo \in SUBSET Pages /\ call[Dumper].seen \in SUBSET Rights
      /\ \A p \in call[Dumper].todo \ tainted : own[p] \subseteq call[Dumper].seen
  BY <1>1 DEF IInv, TypeOK, CallRecords, DumpRemembers
<1>4. SpaceTypeOK' /\ NothingTakenAway' /\ own' = own
  BY <1>1, <1>2, <1>3, MprotectKeeps DEF IInv, TypeOK
<1>5. /\ call' \in [Callers -> CallRecords] /\ call'[Dumper].pc = "open"
      /\ call'[Dumper].pages = call[Dumper].pages
      /\ \A u \in Callers \ {Dumper} : Like(call'[u], call[u])
  BY <1>1, <1>3 DEF IInv, TypeOK, CallRecords, Like
<1>6. DumpRemembers'
  BY <1>1, <1>4, <1>5 DEF IInv, DumpRemembers, MapRemembers, dumping
<1> QED
  BY <1>1, <1>4, <1>5, <1>6, DumperStep DEF IInv, TypeOK, dumping

LEMMA DumpEndStep ==
  ASSUME IInv, DumpEnd
  PROVE  IInv'
<1>1. /\ Finish(Dumper, TRUE) /\ UNCHANGED <<space, maps, full, calls, dead, tainted>>
      /\ Dumper \in Callers /\ TRUE \in BOOLEAN
  BY DEF DumpEnd, Callers
<1>2. /\ call' \in [Callers -> CallRecords] /\ call'[Dumper].pc = "done"
      /\ call'[Dumper].pages = call[Dumper].pages
      /\ \A u \in Callers \ {Dumper} : Like(call'[u], call[u])
  BY <1>1, FinishIs DEF IInv, TypeOK
<1>3. SpaceTypeOK' /\ NothingTakenAway' /\ own' = own
  BY <1>1 DEF IInv, TypeOK, SpaceTypeOK, NothingTakenAway, space
<1>4. DumpRemembers'
  BY <1>1, <1>2, <1>3 DEF IInv, DumpRemembers, MapRemembers
<1> QED
  BY <1>1, <1>2, <1>3, <1>4, DumperStep DEF IInv, TypeOK

-----------------------------------------------------------------------------
\* The process itself: a page it changes under a call is tainted, and no call
\* remembers anything of another.
LEMMA ChangeStep ==
  ASSUME IInv, Change
  PROVE  IInv'
<1>1. PICK p \in Pages :
        /\ OwnStep(p)
        /\ call' = [u \in Callers |-> [call[u] EXCEPT !.alone = @ /\ p \notin call[u].pages]]
        /\ tainted' = IF \E u \in Callers : p \in call[u].pages THEN tainted \cup {p} ELSE tainted \ {p}
  BY DEF Change
<1>2. UNCHANGED <<dumping, calls, dead>>
  BY DEF Change
<1>3. PICK new \in SUBSET Rights : OwnChange(p, new) /\ mapped' \subseteq mapped \cup {p}
  BY <1>1, ProtectionsAssumption DEF OwnStep, OwnMprotect, OwnMunmap, OwnMmap
<1>4. /\ prot' = [prot EXCEPT ![p] = new] /\ own' = [own EXCEPT ![p] = new] /\ upsets' = upsets + 1
      /\ mapped' \subseteq Pages
  BY <1>3 DEF OwnChange, IInv, TypeOK, SpaceTypeOK
<1>5. SpaceTypeOK' /\ NothingTakenAway'
  BY <1>1, <1>3, <1>4 DEF IInv, TypeOK, SpaceTypeOK, NothingTakenAway
<1>6. call' \in [Callers -> CallRecords] /\ \A u \in Callers : Like(call'[u], call[u])
  <2>1. \A u \in Callers : call[u] \in CallRecords /\ call[u].alone \in BOOLEAN
    BY DEF IInv, TypeOK, CallRecords
  <2> DEFINE still(u) == call[u].alone /\ p \notin call[u].pages
  <2>2. call' = [u \in Callers |-> [call[u] EXCEPT !.alone = still(u)]] /\ \A u \in Callers : still(u) \in BOOLEAN
    BY <1>1, <2>1, Zenon
  <2> HIDE DEF still
  <2>3. \A u \in Callers : call'[u] \in CallRecords /\ Like(call'[u], call[u])
    BY <2>1, <2>2, AloneTyped
  <2> QED
    BY <2>2, <2>3
<1>7. \A u \in Callers : \A q \in call[u].pages \ tainted' :
        q \in Pages /\ q \notin tainted /\ own'[q] = own[q]
  BY <1>1, <1>4 DEF IInv, TypeOK, SpaceTypeOK, CallRecords
<1>8. ThreadsRemember'
  BY <1>6, <1>7 DEF IInv, ThreadsRemember, Remembers, Like, Callers
<1>9. DumpRemembers'
  BY <1>2, <1>6, <1>7 DEF IInv, DumpRemembers, MapRemembers, Like, Callers, dumping
<1>10. TypeOK'
  BY <1>1, <1>2, <1>5, <1>6 DEF IInv, TypeOK, dumping
<1> QED
  BY <1>5, <1>8, <1>9, <1>10 DEF IInv

LEMMA Inductive == IInv /\ [CallsNext]_vars => IInv'
<1> SUFFICES ASSUME IInv, [CallsNext]_vars PROVE IInv'
  OBVIOUS
<1>1. ASSUME NEW t \in Threads, NEW op \in {"memRead", "memWrite", "memExecWrite"},
             NEW p \in Pages, NEW q \in Pages, Begin(t, op, p, q)
      PROVE IInv'
  BY <1>1, BeginStep
<1>2. ASSUME NEW t \in Threads, Open(t) \/ Copy(t) \/ Copied(t) \/ PutBack(t) PROVE IInv'
  BY <1>2, OpenStep, CopyStep, CopiedStep, PutBackStep
<1>3. ASSUME NEW t \in Callers, Return(t) PROVE IInv'
  BY <1>3, ReturnStep
<1>4. CASE DumpAsk \/ DumpBegin \/ DumpOpen \/ DumpCopy \/ DumpBack \/ DumpEnd
  BY <1>4, DumpAskStep, DumpBeginStep, DumpOpenStep, DumpCopyStep, DumpBackStep, DumpEndStep
<1>5. CASE Change
  BY <1>5, ChangeStep
<1>6. CASE UNCHANGED vars
  BY <1>6 DEF vars, space, dumping, IInv, TypeOK, SpaceTypeOK, NothingTakenAway,
       ThreadsRemember, Remembers, DumpRemembers, MapRemembers
<1> QED
  BY <1>1, <1>2, <1>3, <1>4, <1>5, <1>6 DEF CallsNext

\* The state keeps its type, whatever calls, dumps and changes come together.
THEOREM TypeCorrect == CallsSpec => []TypeOK
<1>1. IInv => TypeOK
  BY DEF IInv
<1> QED
  BY Initially, Inductive, <1>1, PTL DEF CallsSpec

\* For any number of threads beside a dump and any layout of pages, and with every
\* mprotect free to fail: no call of memRead, memWrite, memExecWrite or dumpMemToDisk
\* leaves the process with less than it asked for.
THEOREM NothingIsTakenAway == CallsSpec => []NothingTakenAway
<1>1. IInv => NothingTakenAway
  BY DEF IInv
<1> QED
  BY Initially, Inductive, <1>1, PTL DEF CallsSpec

-----------------------------------------------------------------------------
(* A call that met no other.                                               *)

\* What a call that succeeds leaves of the protection it found.
Left(c) == IF "w" \notin c.seen /\ c.op = "memExecWrite" THEN {"r", "x"} ELSE c.seen

\* The pages of a call are protected as it takes them to be.
Exactly(c) ==
  /\ c.pc \in {"open", "copy"} => c.todo \subseteq c.pages
  /\ c.pc = "open" => \A p \in c.pages : prot[p] = c.seen
  /\ c.pc = "copy" => \A p \in c.pages : prot[p] = IF Need(c.op) \in c.seen THEN c.seen ELSE Opened(c.op, c.seen)
  /\ c.pc = "done" /\ c.ok => \A p \in c.pages : prot[p] = Left(c)

AloneOK(t) ==
  call[t].alone => Exactly(call[t]) /\ \A u \in Callers \ {t} : call[u].pages \cap call[t].pages = {}
AllAlone == \A t \in Threads : AloneOK(t)

LEMMA MprotectOnly ==
  ASSUME SpaceTypeOK, NEW pages \in SUBSET Pages, NEW new, NEW success \in BOOLEAN, Mprotect(pages, new, success)
  PROVE  /\ \A p \in Pages \ pages : prot'[p] = prot[p]
         /\ success => \A p \in pages : prot'[p] = new
<1>1. PICK changed \in SUBSET (pages \cap mapped) :
        /\ success = (changed = pages)
        /\ prot' = [p \in Pages |-> IF p \in changed THEN new ELSE prot[p]]
  BY Zenon DEF Mprotect
<1>2. success => changed = pages
  BY <1>1, Zenon
<1> QED
  BY <1>1, <1>2

LEMMA AloneIs ==
  ASSUME NEW c \in CallRecords, NEW b
  PROVE  [c EXCEPT !.alone = b].alone = b
BY DEF CallRecords

\* Whoever enters parts with no one it meets.
LEMMA EnterAlone ==
  ASSUME call \in [Callers -> CallRecords], NEW t \in Callers, NEW new \in CallRecords, Enter(t, new)
  PROVE  /\ call'[t].alone => new.alone /\ \A v \in Callers : call[v].pages \cap new.pages = {}
         /\ \A u \in Callers \ {t} :
              call'[u].alone => call[u].alone /\ call[u].pages \cap new.pages = {}
<1> DEFINE apart == new.alone /\ \A v \in Callers : call[v].pages \cap new.pages = {}
           still(u) == call[u].alone /\ call[u].pages \cap new.pages = {}
<1>1. call' = [u \in Callers |-> IF u = t THEN [new EXCEPT !.alone = apart] ELSE [call[u] EXCEPT !.alone = still(u)]]
  BY Zenon DEF Enter
<1>2. call'[t].alone = apart
  <2>1. call'[t] = [new EXCEPT !.alone = apart]
    BY <1>1, Zenon
  <2> QED
    BY <2>1, AloneIs, Zenon
<1>3. ASSUME NEW u \in Callers \ {t} PROVE call'[u].alone = still(u)
  <2>1. call'[u] = [call[u] EXCEPT !.alone = still(u)] /\ call[u] \in CallRecords
    BY <1>1, Zenon
  <2> QED
    BY <2>1, AloneIs, Zenon
<1> QED
  BY <1>2, <1>3, Zenon

\* One call at work at its own pages is no matter to the calls that are alone.
LEMMA OthersAlone ==
  ASSUME IInv, AllAlone, NEW t \in Callers,
         \A u \in Callers \ {t} : Like(call'[u], call[u]) /\ (call'[u].alone => call[u].alone),
         \A u \in Threads \ {t} : call'[u].alone => call'[t].pages \cap call[u].pages = {},
         \A p \in Pages : prot'[p] # prot[p] => p \in call[t].pages \/ p \in call'[t].pages
  PROVE  \A u \in Threads \ {t} : AloneOK(u)'
<1> SUFFICES ASSUME NEW u \in Threads \ {t}, call'[u].alone
             PROVE  Exactly(call[u])' /\ \A v \in Callers \ {u} : call'[v].pages \cap call'[u].pages = {}
  BY DEF AloneOK
<1>1. /\ u \in Callers /\ Like(call'[u], call[u]) /\ call[u].alone
      /\ call'[t].pages \cap call[u].pages = {}
      /\ call[u].pages \subseteq Pages
  BY DEF Callers, IInv, TypeOK, CallRecords
<1>2. Exactly(call[u]) /\ \A v \in Callers \ {u} : call[v].pages \cap call[u].pages = {}
  BY <1>1 DEF AllAlone, AloneOK
<1>3. \A p \in call[u].pages : prot'[p] = prot[p]
  BY <1>1, <1>2
<1>4. /\ call'[u].op = call[u].op /\ call'[u].pc = call[u].pc /\ call'[u].pages = call[u].pages
      /\ call'[u].todo = call[u].todo /\ call'[u].seen = call[u].seen /\ call'[u].ok = call[u].ok
  BY <1>1 DEF Like
<1>5. Exactly(call[u])'
  BY <1>2, <1>3, <1>4 DEF Exactly, Left
<1>6. \A v \in Callers \ {u} : call'[v].pages \cap call'[u].pages = {}
  BY <1>1, <1>2, <1>4 DEF Like
<1> QED
  BY <1>5, <1>6

\* A step of a call under way.
LEMMA OwnStepAlone ==
  ASSUME IInv, AllAlone, NEW t \in Callers, NEW c, call' = [call EXCEPT ![t] = c],
         c.pages \subseteq call[t].pages, c.alone => call[t].alone \/ c.pages = {},
         \A p \in Pages : prot'[p] # prot[p] => p \in call[t].pages,
         t \in Threads /\ c.alone => Exactly(call[t])'
  PROVE  AllAlone'
<1>1. call'[t] = c /\ \A u \in Callers \ {t} : call'[u] = call[u] /\ Like(call'[u], call[u])
  BY DEF IInv, TypeOK, Like
<1>2. ASSUME NEW u \in Threads \ {t}, call'[u].alone PROVE call'[t].pages \cap call[u].pages = {}
  BY <1>1, <1>2 DEF AllAlone, AloneOK, Callers
<1>3. \A u \in Threads \ {t} : AloneOK(u)'
  BY <1>1, <1>2, OthersAlone
<1>4. ASSUME t \in Threads, call'[t].alone PROVE AloneOK(t)'
  BY <1>1, <1>4 DEF AllAlone, AloneOK
<1> QED
  BY <1>3, <1>4 DEF AllAlone, AloneOK

LEMMA BeginAlone ==
  ASSUME IInv, AllAlone, NEW t \in Threads, NEW op \in {"memRead", "memWrite", "memExecWrite"},
         NEW first \in Pages, NEW last \in Pages, Begin(t, op, first, last)
  PROVE  AllAlone'
<1> DEFINE pages == first..last
           single == OneMap(pages)
           new == [op |-> op, pages |-> pages, todo |-> pages, seen |-> prot[first],
                   alone |-> single, ok |-> FALSE,
                   pc |-> IF first \notin mapped THEN "done"
                          ELSE IF Need(op) \in prot[first] THEN "copy" ELSE "open"]
<1>1. /\ t \in Callers /\ first \in pages /\ pages \in SUBSET Pages /\ Enter(t, new) /\ UNCHANGED space
  BY PagesAreNumbers DEF Begin, Callers
<1>2. single \in BOOLEAN
  BY Zenon DEF OneMap
<1>3. prot[first] \in SUBSET Rights
  BY DEF IInv, TypeOK, SpaceTypeOK
<1>4. single => \A p \in pages : prot[p] = prot[first]
  BY <1>1 DEF OneMap
<1> HIDE DEF single
<1>5. new \in CallRecords
  BY <1>1, <1>2, <1>3 DEF CallRecords
<1>6. /\ new.op = op /\ new.pages = pages /\ new.todo = pages /\ new.seen = prot[first] /\ new.alone = single
      /\ new.ok = FALSE /\ new.pc \in {"done", "copy", "open"} /\ (new.pc = "copy" => Need(op) \in prot[first])
  OBVIOUS
<1> HIDE DEF new, pages
<1>7. Like(call'[t], new) /\ \A u \in Callers \ {t} : Like(call'[u], call[u])
  BY <1>1, <1>5, EnterIs DEF IInv, TypeOK
<1>8. /\ call'[t].alone => new.alone /\ \A v \in Callers : call[v].pages \cap new.pages = {}
      /\ \A u \in Callers \ {t} : call'[u].alone => call[u].alone /\ call[u].pages \cap new.pages = {}
  BY <1>1, <1>5, EnterAlone DEF IInv, TypeOK
<1>9. \A u \in Threads \ {t} : AloneOK(u)'
  <2>1. \A u \in Threads \ {t} : call'[u].alone => call'[t].pages \cap call[u].pages = {}
    BY <1>7, <1>8 DEF Like, Callers
  <2>2. \A u \in Callers \ {t} : Like(call'[u], call[u]) /\ (call'[u].alone => call[u].alone)
    BY <1>7, <1>8
  <2>3. \A p \in Pages : prot'[p] = prot[p]
    BY <1>1 DEF space
  <2> QED
    BY <1>1, <2>1, <2>2, <2>3, OthersAlone
<1>10. AloneOK(t)'
  <2> SUFFICES ASSUME call'[t].alone
               PROVE  Exactly(call[t])' /\ \A u \in Callers \ {t} : call'[u].pages \cap call'[t].pages = {}
    BY DEF AloneOK
  <2>1. single /\ \A u \in Callers \ {t} : call[u].pages \cap pages = {}
    BY <1>6, <1>8
  <2>2. Exactly(call[t])'
    BY <1>1, <1>4, <1>6, <1>7, <2>1 DEF Exactly, Like, space
  <2> QED
    BY <1>6, <1>7, <2>1, <2>2 DEF Like
<1> QED
  BY <1>9, <1>10 DEF AllAlone

LEMMA OpenAlone ==
  ASSUME IInv, AllAlone, NEW t \in Threads, Open(t)
  PROVE  AllAlone'
<1>1. t \in Callers /\ call[t] \in CallRecords /\ call[t].pc = "open" /\ Need(call[t].op) \notin call[t].seen
  BY DEF IInv, TypeOK, ThreadsRemember, Remembers, Open, Callers
<1>2. PICK success \in BOOLEAN :
        /\ Mprotect(call[t].pages, Opened(call[t].op, call[t].seen), success)
        /\ IF success THEN Goto(t, "copy") ELSE Finish(t, FALSE)
  BY DEF Open, Protected
<1>3. /\ \A p \in Pages \ call[t].pages : prot'[p] = prot[p]
      /\ success => \A p \in call[t].pages : prot'[p] = Opened(call[t].op, call[t].seen)
  BY <1>1, <1>2, MprotectOnly DEF IInv, TypeOK, CallRecords
<1> DEFINE c == IF success THEN [call[t] EXCEPT !.pc = "copy"] ELSE [call[t] EXCEPT !.pc = "done", !.ok = FALSE]
<1>4. /\ c.pages = call[t].pages /\ c.alone = call[t].alone /\ c.op = call[t].op /\ c.seen = call[t].seen
      /\ c.todo = call[t].todo
      /\ success => c.pc = "copy"
      /\ ~success => c.pc = "done" /\ c.ok = FALSE
  BY <1>1 DEF CallRecords
<1>5. call' = [call EXCEPT ![t] = c]
  BY <1>2 DEF Goto, Finish
<1> HIDE DEF c
<1>6. call'[t] = c
  BY <1>1, <1>5 DEF IInv, TypeOK
<1>7. c.alone => call[t].todo \subseteq call[t].pages
  BY <1>1, <1>4 DEF AllAlone, AloneOK, Exactly
<1>8. c.alone => Exactly(call[t])'
  BY <1>1, <1>3, <1>4, <1>6, <1>7 DEF Exactly
<1> QED
  BY <1>1, <1>3, <1>4, <1>5, <1>8, OwnStepAlone

\* Only a call that is not alone can find a page of its own closed.
LEMMA CopyAlone ==
  ASSUME IInv, AllAlone, NEW t \in Threads, Copy(t)
  PROVE  AllAlone' /\ (UNCHANGED dead \/ (dead' = t /\ ~call'[t].alone))
<1>1. t \in Callers /\ call[t] \in CallRecords /\ call[t].pc = "copy" /\ UNCHANGED space
  BY DEF IInv, TypeOK, Copy, Callers
<1>2. PICK p \in call[t].todo :
        \/ call' = [call EXCEPT ![t].todo = @ \ {p}] /\ UNCHANGED dead
        \/ Need(call[t].op) \notin prot[p] /\ dead' = t /\ UNCHANGED call
  BY DEF Copy
<1>3. CASE call' = [call EXCEPT ![t].todo = @ \ {p}] /\ UNCHANGED dead
  <2> DEFINE c == [call[t] EXCEPT !.todo = call[t].todo \ {p}]
  <2>1. /\ c.pages = call[t].pages /\ c.alone = call[t].alone /\ c.op = call[t].op /\ c.seen = call[t].seen
        /\ c.pc = "copy" /\ c.todo \subseteq call[t].todo
    BY <1>1 DEF CallRecords
  <2>2. call' = [call EXCEPT ![t] = c]
    BY <1>3
  <2> HIDE DEF c
  <2>3. call'[t] = c
    BY <1>1, <2>2 DEF IInv, TypeOK
  <2>4. c.alone => Exactly(call[t])
    BY <2>1 DEF AllAlone, AloneOK
  <2>5. c.alone => Exactly(call[t])'
    BY <1>1, <2>1, <2>3, <2>4 DEF Exactly, space
  <2>6. \A q \in Pages : prot'[q] = prot[q]
    BY <1>1 DEF space
  <2> QED
    BY <1>1, <1>3, <2>1, <2>2, <2>5, <2>6, OwnStepAlone
<1>4. CASE Need(call[t].op) \notin prot[p] /\ dead' = t /\ UNCHANGED call
  <2>1. ASSUME call[t].alone PROVE FALSE
    <3>1. Exactly(call[t]) /\ p \in call[t].pages
      BY <1>1, <2>1 DEF AllAlone, AloneOK, Exactly
    <3>2. prot[p] = IF Need(call[t].op) \in call[t].seen THEN call[t].seen ELSE Opened(call[t].op, call[t].seen)
      BY <1>1, <3>1 DEF Exactly
    <3>3. Need(call[t].op) \in Opened(call[t].op, call[t].seen)
      BY DEF Opened, Need, Rights
    <3> QED
      BY <1>4, <3>2, <3>3
  <2>2. AllAlone'
    BY <1>1, <1>4 DEF AllAlone, AloneOK, Exactly, Left, space
  <2> QED
    BY <1>4, <2>1, <2>2, Zenon
<1> QED
  BY <1>2, <1>3, <1>4

LEMMA CopiedAlone ==
  ASSUME IInv, AllAlone, NEW t \in Threads, Copied(t)
  PROVE  AllAlone'
<1>1. t \in Callers /\ call[t] \in CallRecords /\ call[t].pc = "copy" /\ UNCHANGED space
  BY DEF IInv, TypeOK, Copied, Callers
<1> DEFINE c == IF Need(call[t].op) \in call[t].seen
                THEN [call[t] EXCEPT !.pc = "done", !.ok = TRUE] ELSE [call[t] EXCEPT !.pc = "back"]
<1>2. /\ c.pages = call[t].pages /\ c.alone = call[t].alone /\ c.op = call[t].op /\ c.seen = call[t].seen
      /\ c.pc \in {"done", "back"} /\ (c.pc = "done" => Need(call[t].op) \in call[t].seen)
  BY <1>1 DEF CallRecords
<1>3. call' = [call EXCEPT ![t] = c]
  BY DEF Copied, Finish, Goto
<1> HIDE DEF c
<1>4. call'[t] = c
  BY <1>1, <1>3 DEF IInv, TypeOK
<1>5. c.alone => Exactly(call[t])
  BY <1>2 DEF AllAlone, AloneOK
<1>6. c.alone => Exactly(call[t])'
  BY <1>1, <1>2, <1>4, <1>5 DEF Exactly, Left, Need, space
<1>7. \A q \in Pages : prot'[q] = prot[q]
  BY <1>1 DEF space
<1> QED
  BY <1>1, <1>2, <1>3, <1>6, <1>7, OwnStepAlone

LEMMA PutBackAlone ==
  ASSUME IInv, AllAlone, NEW t \in Threads, PutBack(t)
  PROVE  AllAlone'
<1>1. t \in Callers /\ call[t] \in CallRecords /\ call[t].pc = "back" /\ Need(call[t].op) \notin call[t].seen
  BY DEF IInv, TypeOK, ThreadsRemember, Remembers, PutBack, Callers
<1>2. PICK success \in BOOLEAN :
        Mprotect(call[t].pages, Back(call[t].op, call[t].seen), success) /\ Finish(t, success)
  BY DEF PutBack, Protected
<1>3. /\ \A p \in Pages \ call[t].pages : prot'[p] = prot[p]
      /\ success => \A p \in call[t].pages : prot'[p] = Back(call[t].op, call[t].seen)
  BY <1>1, <1>2, MprotectOnly DEF IInv, TypeOK, CallRecords
<1> DEFINE c == [call[t] EXCEPT !.pc = "done", !.ok = success]
<1>4. /\ c.pages = call[t].pages /\ c.alone = call[t].alone /\ c.op = call[t].op /\ c.seen = call[t].seen
      /\ c.pc = "done"
  BY <1>1 DEF CallRecords
<1>5. c.ok = success
  BY <1>1, Zenon DEF CallRecords
<1>6. call' = [call EXCEPT ![t] = c]
  BY <1>2 DEF Finish
<1> HIDE DEF c
<1>7. call'[t] = c
  BY <1>1, <1>6 DEF IInv, TypeOK
<1>8. Back(call[t].op, call[t].seen) = Left(call[t])
  BY <1>1 DEF Back, Left, Need
<1>9. Left(c) = Left(call[t])
  BY <1>4 DEF Left
<1>10. success => Exactly(call[t])'
  BY <1>3, <1>4, <1>7, <1>8, <1>9 DEF Exactly, Left
<1>11. ~success => Exactly(call[t])'
  BY <1>4, <1>5, <1>7 DEF Exactly
<1> QED
  BY <1>1, <1>3, <1>4, <1>6, <1>10, <1>11, OwnStepAlone

LEMMA ReturnAlone ==
  ASSUME IInv, AllAlone, NEW t \in Callers, Return(t)
  PROVE  AllAlone'
<1>1. call' = [call EXCEPT ![t] = Idle] /\ UNCHANGED space
  BY DEF Return
<1>2. Idle.pages = {} /\ Idle.pc = "idle"
  BY DEF Idle
<1>3. call'[t] = Idle
  BY <1>1 DEF IInv, TypeOK
<1>4. Exactly(call[t])'
  BY <1>2, <1>3 DEF Exactly
<1>5. \A q \in Pages : prot'[q] = prot[q]
  BY <1>1 DEF space
<1> QED
  BY <1>1, <1>2, <1>4, <1>5, OwnStepAlone

\* The dump opens and puts back pages of its own maps only.
LEMMA DumperAlone ==
  ASSUME IInv, AllAlone, call'[Dumper].pages = call[Dumper].pages,
         \A u \in Callers \ {Dumper} : call'[u] = call[u],
         \A p \in Pages : prot'[p] # prot[p] => p \in call[Dumper].pages
  PROVE  AllAlone'
<1>1. Dumper \in Callers /\ Dumper \notin Threads
  BY DumperAssumption DEF Callers
<1>2. \A u \in Callers \ {Dumper} : Like(call'[u], call[u]) /\ (call'[u].alone => call[u].alone)
  BY DEF Like
<1>3. ASSUME NEW u \in Threads, call'[u].alone PROVE call'[Dumper].pages \cap call[u].pages = {}
  BY <1>1, <1>3 DEF AllAlone, AloneOK, Callers
<1>4. \A u \in Threads \ {Dumper} : AloneOK(u)'
  BY <1>1, <1>2, <1>3, OthersAlone
<1> QED
  BY <1>1, <1>4 DEF AllAlone

LEMMA DumpAskAlone ==
  ASSUME IInv, AllAlone, DumpAsk
  PROVE  AllAlone'
<1>1. PICK first, last : AskRange(first, last)
  BY DEF DumpAsk, AskFile
<1>2. call' = [call EXCEPT ![Dumper].pc = "ask"] /\ UNCHANGED space
  BY <1>1 DEF AskRange, DumpAsk
<1>3. Dumper \in Callers /\ call[Dumper] \in CallRecords
  BY DEF Callers, IInv, TypeOK
<1>4. call'[Dumper].pages = call[Dumper].pages /\ \A u \in Callers \ {Dumper} : call'[u] = call[u]
  BY <1>2, <1>3 DEF IInv, TypeOK, CallRecords
<1> QED
  BY <1>2, <1>4, DumperAlone DEF space

LEMMA DumpBeginAlone ==
  ASSUME IInv, AllAlone, DumpBegin
  PROVE  AllAlone'
<1> DEFINE all == UNION {m.pages : m \in maps'}
<1>1. PICK opens \in BOOLEAN :
        Enter(Dumper, [Idle EXCEPT !.op = "dump", !.pages = all, !.pc = IF opens THEN "open" ELSE "done"])
  BY DEF DumpBegin
<1>2. maps' \subseteq Maps /\ UNCHANGED space /\ Dumper \in Callers /\ Dumper \notin Threads
  BY DumperAssumption DEF DumpBegin, Callers
<1>3. \A m \in maps' : m.pages \subseteq Pages
  BY <1>2, MapsAreAlike DEF IInv, TypeOK
<1> DEFINE new == [Idle EXCEPT !.op = "dump", !.pages = all, !.pc = IF opens THEN "open" ELSE "done"]
<1>4. all \in SUBSET Pages
  BY <1>3
<1> HIDE DEF all
<1>5. new \in CallRecords
  BY <1>4 DEF Idle, CallRecords
<1>6. Enter(Dumper, new)
  BY <1>1
<1> HIDE DEF new
<1>7. Like(call'[Dumper], new) /\ \A u \in Callers \ {Dumper} : Like(call'[u], call[u])
  BY <1>2, <1>5, <1>6, EnterIs DEF IInv, TypeOK
<1>8. \A u \in Callers \ {Dumper} : call'[u].alone => call[u].alone /\ call[u].pages \cap new.pages = {}
  BY <1>2, <1>5, <1>6, EnterAlone DEF IInv, TypeOK
<1>9. \A u \in Threads \ {Dumper} : call'[u].alone => call'[Dumper].pages \cap call[u].pages = {}
  BY <1>7, <1>8 DEF Like, Callers
<1>10. \A p \in Pages : prot'[p] = prot[p]
  BY <1>2 DEF space
<1>11. \A u \in Threads \ {Dumper} : AloneOK(u)'
  BY <1>2, <1>7, <1>8, <1>9, <1>10, OthersAlone
<1> QED
  BY <1>2, <1>11 DEF AllAlone

LEMMA DumpOpenAlone ==
  ASSUME IInv, AllAlone, DumpOpen
  PROVE  AllAlone'
<1>1. PICK m \in maps :
        \/ /\ UNCHANGED space
           /\ call' = [call EXCEPT ![Dumper].pc = "copy", ![Dumper].seen = m.prot, ![Dumper].todo = m.pages]
        \/ \E success \in BOOLEAN :
             /\ Mprotect(m.pages, m.prot \cup {"r"}, success)
             /\ call' = [call EXCEPT ![Dumper].pc = "copy", ![Dumper].ok = success,
                                     ![Dumper].seen = m.prot, ![Dumper].todo = m.pages]
  BY Zenon DEF DumpOpen
<1>2. /\ Dumper \in Callers /\ call[Dumper] \in CallRecords
      /\ m.pages \in SUBSET Pages /\ m.pages \subseteq call[Dumper].pages
  BY DEF Callers, IInv, TypeOK, DumpRemembers, MapRemembers
<1>3. call'[Dumper].pages = call[Dumper].pages /\ \A u \in Callers \ {Dumper} : call'[u] = call[u]
  <2>1. CASE call' = [call EXCEPT ![Dumper].pc = "copy", ![Dumper].seen = m.prot, ![Dumper].todo = m.pages]
    BY <1>2, <2>1 DEF IInv, TypeOK, CallRecords
  <2>2. ASSUME NEW success \in BOOLEAN,
               call' = [call EXCEPT ![Dumper].pc = "copy", ![Dumper].ok = success,
                                    ![Dumper].seen = m.prot, ![Dumper].todo = m.pages]
        PROVE <1>3
    BY <1>2, <2>2 DEF IInv, TypeOK, CallRecords
  <2> QED
    BY <1>1, <2>1, <2>2
<1>4. \A p \in Pages : prot'[p] # prot[p] => p \in call[Dumper].pages
  <2>1. CASE UNCHANGED space
    BY <2>1 DEF space
  <2>2. ASSUME NEW success \in BOOLEAN, Mprotect(m.pages, m.prot \cup {"r"}, success) PROVE <1>4
    <3>1. \A p \in Pages \ m.pages : prot'[p] = prot[p]
      BY <1>2, <2>2, MprotectOnly DEF IInv, TypeOK
    <3> QED
      BY <1>2, <3>1
  <2> QED
    BY <1>1, <2>1, <2>2
<1> QED
  BY <1>3, <1>4, DumperAlone

LEMMA DumpBackAlone ==
  ASSUME IInv, AllAlone, DumpBack
  PROVE  AllAlone'
<1>1. /\ call[Dumper].pc = "back" /\ call' = [call EXCEPT ![Dumper].pc = "open", ![Dumper].ok = FALSE]
      /\ Dumper \in Callers
  BY DEF DumpBack, Callers
<1>2. PICK success \in BOOLEAN : Mprotect(call[Dumper].todo, call[Dumper].seen, success)
  BY DEF DumpBack
<1>3. /\ call[Dumper] \in CallRecords
      /\ call[Dumper].todo \in SUBSET Pages /\ call[Dumper].todo \subseteq call[Dumper].pages
  BY <1>1 DEF IInv, TypeOK, CallRecords, DumpRemembers
<1>4. \A p \in Pages \ call[Dumper].todo : prot'[p] = prot[p]
  BY <1>2, <1>3, MprotectOnly DEF IInv, TypeOK
<1>5. call'[Dumper].pages = call[Dumper].pages /\ \A u \in Callers \ {Dumper} : call'[u] = call[u]
  BY <1>1, <1>3 DEF IInv, TypeOK, CallRecords
<1> QED
  BY <1>3, <1>4, <1>5, DumperAlone

LEMMA DumpCopyOrEndAlone ==
  ASSUME IInv, AllAlone, DumpCopy \/ DumpEnd
  PROVE  AllAlone'
<1>1. prot' = prot /\ Dumper \in Callers /\ call[Dumper] \in CallRecords
  BY DEF DumpCopy, DumpEnd, space, Callers, IInv, TypeOK
<1>2. PICK c : call' = [call EXCEPT ![Dumper] = c] /\ c.pages = call[Dumper].pages
  <2>1. CASE DumpCopy
    <3>1. PICK next \in {"back", "open"} : Goto(Dumper, next)
      BY <2>1 DEF DumpCopy
    <3> DEFINE c == [call[Dumper] EXCEPT !.pc = next]
    <3>2. call' = [call EXCEPT ![Dumper] = c]
      BY <3>1 DEF Goto
    <3>3. c.pages = call[Dumper].pages
      BY <1>1 DEF CallRecords
    <3> QED
      BY <3>2, <3>3
  <2>2. CASE DumpEnd
    <3> DEFINE c == [call[Dumper] EXCEPT !.pc = "done", !.ok = TRUE]
    <3>1. call' = [call EXCEPT ![Dumper] = c]
      BY <2>2 DEF DumpEnd, Finish
    <3>2. c.pages = call[Dumper].pages
      BY <1>1 DEF CallRecords
    <3> QED
      BY <3>1, <3>2
  <2> QED
    BY <2>1, <2>2
<1>3. call'[Dumper].pages = call[Dumper].pages /\ \A u \in Callers \ {Dumper} : call'[u] = call[u]
  BY <1>1, <1>2 DEF IInv, TypeOK
<1> QED
  BY <1>1, <1>3, DumperAlone

\* A change by the process leaves no call alone whose pages it meets.
LEMMA ChangeAlone ==
  ASSUME IInv, AllAlone, Change
  PROVE  AllAlone'
<1>1. PICK p \in Pages :
        /\ OwnStep(p)
        /\ call' = [u \in Callers |-> [call[u] EXCEPT !.alone = @ /\ p \notin call[u].pages]]
  BY DEF Change
<1>2. \A q \in Pages \ {p} : prot'[q] = prot[q]
  BY <1>1 DEF OwnStep, OwnMprotect, OwnMunmap, OwnMmap, OwnChange, IInv, TypeOK, SpaceTypeOK
<1> DEFINE still(u) == call[u].alone /\ p \notin call[u].pages
<1>3. \A u \in Callers : call[u] \in CallRecords /\ call[u].alone \in BOOLEAN
  BY DEF IInv, TypeOK, CallRecords
<1>4. call' = [u \in Callers |-> [call[u] EXCEPT !.alone = still(u)]] /\ \A u \in Callers : still(u) \in BOOLEAN
  BY <1>1, <1>3, Zenon
<1>5. \A u \in Callers : call'[u].alone = still(u)
  BY <1>3, <1>4, AloneIs, Zenon
<1> HIDE DEF still
<1>6. \A u \in Callers : Like(call'[u], call[u])
  BY <1>3, <1>4, AloneTyped
<1>7. ASSUME NEW t \in Threads, call'[t].alone
      PROVE  Exactly(call[t])' /\ \A u \in Callers \ {t} : call'[u].pages \cap call'[t].pages = {}
  <2>1. t \in Callers /\ call[t].alone /\ p \notin call[t].pages
    BY <1>5, <1>7, Zenon DEF still, Callers
  <2>2. Exactly(call[t]) /\ \A u \in Callers \ {t} : call[u].pages \cap call[t].pages = {}
    BY <2>1 DEF AllAlone, AloneOK
  <2>3. call[t].pages \subseteq Pages /\ \A q \in call[t].pages : prot'[q] = prot[q]
    BY <1>2, <1>3, <2>1 DEF CallRecords
  <2>4. Exactly(call[t])'
    BY <1>6, <2>1, <2>2, <2>3 DEF Exactly, Left, Like
  <2> QED
    BY <1>6, <2>1, <2>2, <2>4 DEF Like
<1> QED
  BY <1>7 DEF AllAlone, AloneOK

DeadNotAlone == dead # "nobody" => ~call[dead].alone

LEMMA AloneInductive ==
  ASSUME IInv, AllAlone, DeadNotAlone, [CallsNext]_vars
  PROVE  AllAlone' /\ DeadNotAlone'
<1>1. ASSUME CallsNext PROVE AllAlone' /\ DeadNotAlone'
  <2>1. dead = "nobody"
    BY <1>1 DEF CallsNext
  <2>2. ASSUME AllAlone', dead' = dead PROVE AllAlone' /\ DeadNotAlone'
    BY <2>1, <2>2, Zenon DEF DeadNotAlone
  <2>3. ASSUME NEW t \in Threads, NEW op \in {"memRead", "memWrite", "memExecWrite"},
               NEW p \in Pages, NEW q \in Pages, Begin(t, op, p, q)
        PROVE AllAlone' /\ DeadNotAlone'
    BY <2>2, <2>3, BeginAlone DEF Begin
  <2>4. ASSUME NEW t \in Threads, Copy(t) PROVE AllAlone' /\ DeadNotAlone'
    BY <2>1, <2>4, CopyAlone, Zenon DEF DeadNotAlone
  <2>5. ASSUME NEW t \in Threads, Open(t) \/ Copied(t) \/ PutBack(t) PROVE AllAlone' /\ DeadNotAlone'
    BY <2>2, <2>5, OpenAlone, CopiedAlone, PutBackAlone DEF Open, Copied, PutBack
  <2>6. ASSUME NEW t \in Callers, Return(t) PROVE AllAlone' /\ DeadNotAlone'
    BY <2>2, <2>6, ReturnAlone DEF Return
  <2>7. CASE DumpAsk \/ DumpBegin \/ DumpOpen
    BY <2>2, <2>7, DumpAskAlone, DumpBeginAlone, DumpOpenAlone DEF DumpAsk, DumpBegin, DumpOpen
  <2>8. CASE DumpCopy \/ DumpBack \/ DumpEnd
    <3>1. dead' = dead
      BY <2>8 DEF DumpCopy, DumpBack, DumpEnd
    <3> QED
      BY <2>2, <2>8, <3>1, DumpBackAlone, DumpCopyOrEndAlone
  <2>9. CASE Change
    BY <2>2, <2>9, ChangeAlone DEF Change
  <2> QED
    BY <1>1, <2>3, <2>4, <2>5, <2>6, <2>7, <2>8, <2>9 DEF CallsNext
<1>2. ASSUME UNCHANGED vars PROVE AllAlone' /\ DeadNotAlone'
  <2>1. AllAlone'
    BY <1>2 DEF vars, space, AllAlone, AloneOK, Exactly, Left
  <2>2. call' = call /\ dead' = dead
    BY <1>2 DEF vars
  <2> QED
    BY <2>1, <2>2, Zenon DEF DeadNotAlone
<1> QED
  BY <1>1, <1>2

LEMMA AloneInitially == SpaceInit /\ CallsInit => AllAlone /\ DeadNotAlone
<1> SUFFICES ASSUME SpaceInit, CallsInit PROVE AllAlone /\ DeadNotAlone
  OBVIOUS
<1>1. \A u \in Callers : call[u] = Idle
  BY DEF CallsInit
<1>2. Idle.pages = {} /\ Idle.pc = "idle"
  BY DEF Idle
<1> QED
  BY <1>1, <1>2 DEF CallsInit, AllAlone, AloneOK, Exactly, DeadNotAlone, Callers

\* For any number of threads beside a dump and any layout of pages: a call that meets
\* no other call and no change by the process, and stays in one map, does not fault;
\* and if memRead, memWrite or memExecWrite then returns true, the protection is as it
\* found it, or what memExecWrite leaves in its place.
THEOREM AloneLeavesNothingOpen == CallsSpec => []AloneIsExact
<1>1. IInv /\ AllAlone /\ DeadNotAlone => AloneIsExact
  <2> SUFFICES ASSUME AllAlone, DeadNotAlone PROVE AloneIsExact
    OBVIOUS
  <2>1. ASSUME NEW t \in Threads, call[t].pc = "done" /\ call[t].ok /\ call[t].alone
        PROVE  \A p \in call[t].pages :
                 prot[p] = IF "w" \notin call[t].seen /\ call[t].op = "memExecWrite" THEN {"r", "x"} ELSE call[t].seen
    BY <2>1 DEF AllAlone, AloneOK, Exactly, Left
  <2> QED
    BY <2>1, Zenon DEF AloneIsExact, DeadNotAlone
<1>2. IInv /\ [CallsNext]_vars => IInv'
  BY Inductive
<1>3. IInv /\ AllAlone /\ DeadNotAlone /\ [CallsNext]_vars => AllAlone' /\ DeadNotAlone'
  BY AloneInductive
<1> QED
  BY <1>1, <1>2, <1>3, Initially, AloneInitially, PTL DEF CallsSpec

-----------------------------------------------------------------------------
(* The pointer validator.                                                  *)

Questions == Rights \cup {"any"}
Regions == [start : Nat, end : Nat, prot : SUBSET Rights]

ValidatorTypeOK ==
  /\ SpaceTypeOK
  /\ pid \in {1, 2} /\ regions \in Seq(Regions) /\ hint \in Nat
  /\ pc \in {"ready", "refresh", "find", "lines", "answered"} /\ at \in Nat
  /\ asked \in [right : Questions, first : Nat, last : Nat] /\ ptr \in Nat
  /\ was \in [Questions -> SUBSET Pages]

\* While maps is read, and while regions may be asked.
Looking == pc \in {"refresh", "lines"} \/ (pc = "find" /\ ~useCache)
Cached == useCache \/ pc = "refresh"

PagesOf(region) == region.start..(region.end - 1)

\* What a yes rests on: the rights of now were rights since the maps were first looked
\* at, those a region gives its pages were too, and so was what is checked already.
SeenIsKept == Looking => \A right \in Questions : Having(pid, right) \subseteq was[right]
Were(region) == \A right \in region.prot \cup {"any"} : PagesOf(region) \subseteq was[right]
RegionsWere == Cached => \A i \in DOMAIN regions : Were(regions[i])
CheckedWas ==
  pc \in {"find", "lines"} =>
    /\ asked.first <= ptr /\ ptr <= asked.last
    /\ asked.first..(ptr - 1) \subseteq was[asked.right]

\* What a no rests on, as long as nothing changes: the regions are the maps up to
\* where they are read, in order, and no line that was read holds ptr.
Exact(region) ==
  /\ region.start < region.end
  /\ \A p \in PagesOf(region) : p \in MappedIn(pid) /\ ProtIn(pid)[p] = region.prot
ExactAll == \A i \in DOMAIN regions : Exact(regions[i])
Ordered == \A i, j \in DOMAIN regions : i < j => regions[i].end <= regions[j].start
Covered(p) == \E i \in DOMAIN regions : p \in PagesOf(regions[i])
Parted == at = 0 \/ at \notin Pages \/ ~Alike(MappedIn(pid), ProtIn(pid), at - 1, at)
RegionsAre ==
  Cached /\ steady =>
    /\ ExactAll
    /\ Ordered
    /\ pc = "refresh" =>
         /\ \A i \in DOMAIN regions : regions[i].end <= at
         /\ \A p \in MappedIn(pid) : p < at => Covered(p)
         /\ Parted
    /\ pc # "refresh" /\ filled => \A p \in MappedIn(pid) : Covered(p)
NotPassed == pc = "lines" /\ steady /\ ptr \in MappedIn(pid) => at <= ptr

Sound == SeenIsKept /\ RegionsWere /\ CheckedWas /\ YesWasTrue
Complete == RegionsAre /\ NotPassed /\ NoIsTrue

-----------------------------------------------------------------------------
(* Pages and lines.                                                        *)

LEMMA MinIs ==
  ASSUME NEW S \in SUBSET Nat, S # {}
  PROVE  Min(S) \in S /\ \A x \in S : Min(S) <= x
<1> DEFINE less == {pair \in Nat \X Nat : pair[1] < pair[2]}
<1>1. IsWellFoundedOn(less, Nat)
  BY NatLessThanWellFounded DEF OpToRel
<1> HIDE DEF less
<1>2. PICK x \in S : \A y \in S : ~(<<y, x>> \in less)
  BY <1>1, WFMin, Zenon
<1>3. ASSUME NEW y \in S PROVE x <= y
  <2>1. y < x => <<y, x>> \in less
    BY DEF less
  <2> QED
    BY <1>2, <2>1
<1> QED
  BY <1>3 DEF Min

LEMMA PagesAre == Top \in Nat /\ Pages = 1..Top
<1> DEFINE n == Cardinality(Pages)
<1>1. n \in Nat
  BY PagesAssumption, FS_CardinalityType
<1>2. Pages = 1..n /\ n >= 1
  <2>1. Pages = 1..n /\ Pages # {}
    BY PagesAssumption
  <2> QED
    BY <1>1, <2>1
<1> HIDE DEF n
<1>3. n \in Pages /\ \A y \in Pages : n >= y
  BY <1>1, <1>2
<1>4. Top \in Pages /\ \A y \in Pages : Top >= y
  BY <1>3 DEF Top, Max
<1>5. Top = n
  BY <1>1, <1>2, <1>3, <1>4
<1> QED
  BY <1>1, <1>2, <1>5

LEMMA MaxIs ==
  ASSUME NEW S \in SUBSET Pages, S # {}
  PROVE  Max(S) \in S /\ \A x \in S : Max(S) >= x
<1> DEFINE T == {Top - x : x \in S}
<1>1. T \in SUBSET Nat /\ T # {}
  <2>1. ASSUME NEW x \in S PROVE Top - x \in Nat
    <3>1. x \in 1..Top /\ Top \in Nat
      BY PagesAre
    <3> QED
      BY <3>1
  <2> QED
    BY <2>1
<1>2. Min(T) \in T /\ \A y \in T : Min(T) <= y
  BY <1>1, MinIs
<1>3. PICK x \in S : Min(T) = Top - x
  BY <1>2
<1>4. \A y \in S : x >= y
  <2> SUFFICES ASSUME NEW y \in S PROVE x >= y
    OBVIOUS
  <2>1. Top - x <= Top - y
    BY <1>2, <1>3
  <2> QED
    BY <2>1, PagesAre
<1> QED
  BY <1>4 DEF Max

LEMMA SpaceOf ==
  ASSUME SpaceTypeOK, NEW id \in {1, 2}
  PROVE  MappedIn(id) \subseteq Pages /\ ProtIn(id) \in [Pages -> SUBSET Rights]
  BY OtherProtAssumption DEF SpaceTypeOK, MappedIn, ProtIn

LEMMA HavingIs ==
  ASSUME SpaceTypeOK, NEW id \in {1, 2}
  PROVE  /\ Now(id) \in [Questions -> SUBSET Pages]
         /\ \A right \in Questions : Now(id)[right] = Having(id, right)
  BY SpaceOf DEF Now, Having, Questions

\* The line the kernel gives is of one map: its pages are mapped and protected alike.
\* It ends behind where it was looked for, passes over nothing mapped, and goes on
\* as far as the map does.
LEMMA LineIs ==
  ASSUME SpaceTypeOK, NEW id \in {1, 2}, NEW a \in Nat, More(id, a)
  PROVE  /\ Line(id, a) \in Regions
         /\ Line(id, a).start < Line(id, a).end /\ a < Line(id, a).end
         /\ \A x \in PagesOf(Line(id, a)) : x \in MappedIn(id) /\ ProtIn(id)[x] = Line(id, a).prot
         /\ \A x \in MappedIn(id) : a <= x => Line(id, a).start <= x
         /\ Line(id, a).end \in Pages =>
              ~Alike(MappedIn(id), ProtIn(id), Line(id, a).end - 1, Line(id, a).end)
         /\ a = 0 \/ a \notin Pages \/ ~Alike(MappedIn(id), ProtIn(id), a - 1, a) => a <= Line(id, a).start
<1> DEFINE M == MappedIn(id)
           P == ProtIn(id)
           S == {q \in M : q >= a}
           p == Min(S)
           m == MapIn(M, P, p)
           first == Min(m.pages)
           last == Max(m.pages)
<1>1. M \subseteq Pages /\ P \in [Pages -> SUBSET Rights]
  BY SpaceOf
<1>2. p \in S /\ \A x \in S : p <= x
  BY <1>1, PagesAre, MinIs DEF More
<1>3. p \in M /\ p >= a /\ p \in Nat
  BY <1>1, <1>2, PagesAre
<1>4. m.pages = {q \in Pages : Alike(M, P, p, q)} /\ m.prot = P[p]
  BY Zenon DEF MapIn
<1> HIDE DEF M, P, p, m
<1>5. p \in m.pages
  BY <1>1, <1>3, <1>4, PagesAre DEF Alike
<1>6. m.pages \subseteq Pages /\ m.pages \subseteq Nat
  BY <1>4, PagesAre
<1>7. /\ first \in m.pages /\ \A x \in m.pages : first <= x
      /\ last \in m.pages /\ \A x \in m.pages : last >= x
  BY <1>5, <1>6, MinIs, MaxIs
<1> HIDE DEF first, last
<1>8. first \in Pages /\ last \in Pages /\ first <= p /\ p <= last /\ first \in Nat /\ last \in Nat
  BY <1>5, <1>6, <1>7
<1>9. \A x \in first..last : x \in Pages /\ x \in M /\ P[x] = P[p] /\ FileOf[x] = FileOf[p]
  <2> SUFFICES ASSUME NEW x \in first..last PROVE x \in Pages /\ x \in M /\ P[x] = P[p] /\ FileOf[x] = FileOf[p]
    OBVIOUS
  <2>1. x \in Pages
    BY <1>8, PagesAre
  <2>2. Alike(M, P, p, first) /\ Alike(M, P, p, last)
    BY <1>4, <1>7
  <2>3. (first <= x /\ x <= p) \/ (p <= x /\ x <= last)
    BY <1>3, <1>8
  <2> QED
    BY <2>1, <2>2, <2>3 DEF Alike
<1>10. Line(id, a) = [start |-> first, end |-> last + 1, prot |-> P[p]]
  BY <1>4, Zenon DEF Line, first, last, m, p, P, M
<1>11. last + 1 \in Pages => ~Alike(M, P, last, last + 1)
  <2> SUFFICES ASSUME last + 1 \in Pages, Alike(M, P, last, last + 1) PROVE FALSE
    OBVIOUS
  <2>1. last + 1 \in M /\ P[last + 1] = P[last] /\ FileOf[last + 1] = FileOf[last]
    BY <1>8 DEF Alike
  <2>2. P[last] = P[p] /\ FileOf[last] = FileOf[p]
    BY <1>3, <1>8, <1>9
  <2>3. ASSUME NEW d \in Pages, (p <= d /\ d <= last + 1) \/ (last + 1 <= d /\ d <= p)
        PROVE d \in M /\ P[d] = P[p] /\ FileOf[d] = FileOf[p]
    <3>1. d \in first..last \/ d = last + 1
      BY <1>3, <1>8, <2>3, PagesAre
    <3> QED
      BY <1>9, <2>1, <2>2, <3>1
  <2>4. last + 1 \in m.pages
    BY <1>4, <2>3 DEF Alike
  <2> QED
    BY <1>7, <1>8, <2>4
<1>12. a = 0 \/ a \notin Pages \/ ~Alike(M, P, a - 1, a) => a <= first
  <2> SUFFICES ASSUME a = 0 \/ a \notin Pages \/ ~Alike(M, P, a - 1, a), ~(a <= first) PROVE FALSE
    OBVIOUS
  <2>1. first <= a - 1 /\ a <= last /\ a \in Pages /\ a # 0 /\ a - 1 \in Nat
    BY <1>3, <1>8, PagesAre
  <2>2. a - 1 \in first..last /\ a \in first..last
    BY <1>8, <2>1
  <2>3. \A d \in Pages : (a - 1 <= d /\ d <= a) \/ (a <= d /\ d <= a - 1) => d \in first..last
    BY <1>8, <2>1, <2>2, PagesAre
  <2>4. Alike(M, P, a - 1, a)
    <3>1. \A d \in first..last : d \in M /\ P[d] = P[a - 1] /\ FileOf[d] = FileOf[a - 1]
      BY <1>9, <2>2
    <3> QED
      BY <2>3, <3>1 DEF Alike
  <2> QED
    BY <2>1, <2>4
<1>13. \A x \in M : a <= x => first <= x
  BY <1>1, <1>2, <1>3, <1>8, PagesAre
<1>14. P[p] \in SUBSET Rights
  BY <1>1, <1>3
<1>15. last + 1 - 1 = last /\ a < last + 1 /\ first < last + 1
  BY <1>3, <1>8
<1> QED
  BY <1>8, <1>9, <1>10, <1>11, <1>12, <1>13, <1>14, <1>15 DEF M, P, PagesOf, Regions
LEMMA RegionsTyped ==
  ASSUME ValidatorTypeOK
  PROVE  /\ regions \in Seq(Regions) /\ Len(regions) \in Nat /\ DOMAIN regions = 1..Len(regions)
         /\ \A i \in 1..Len(regions) :
              regions[i] \in Regions /\ regions[i].start \in Nat /\ regions[i].end \in Nat
<1>1. regions \in Seq(Regions)
  BY DEF ValidatorTypeOK
<1>2. \A region \in Regions : region.start \in Nat /\ region.end \in Nat
  BY DEF Regions
<1> QED
  BY <1>1, <1>2

LEMMA NewLookIs ==
  ASSUME ValidatorTypeOK, NEW id \in {1, 2}
  PROVE  Now(id) \in [Questions -> SUBSET Pages] /\ Unseen \in [Questions -> SUBSET Pages]
  BY HavingIs DEF ValidatorTypeOK, Unseen, Questions

LEMMA LookType ==
  ASSUME ValidatorTypeOK, NEW id \in {1, 2}, Refresh(id) \/ Clear
  PROVE  /\ regions' \in Seq(Regions) /\ hint' \in Nat /\ was' \in [Questions -> SUBSET Pages]
         /\ pc' \in {pc, "refresh"} /\ at' \in {at, 0}
<1>1. regions' = <<>> /\ hint' = 0 /\ was' \in {Now(id), Unseen} /\ pc' \in {pc, "refresh"} /\ at' \in {at, 0}
  BY DEF Refresh, Clear, Drop
<1>2. <<>> \in Seq(Regions)
  OBVIOUS
<1> QED
  BY <1>1, <1>2, NewLookIs

\* What a region found makes of the question.
LEMMA FoundIs ==
  ASSUME NEW region, Found(region)
  PROVE  \/ ~Allows(region) /\ pc' = "answered" /\ answer' = FALSE /\ ptr' = ptr /\ at' = at
         \/ Allows(region) /\ region.end > asked.last /\ pc' = "answered" /\ answer' = TRUE /\ ptr' = ptr /\ at' = at
         \/ /\ Allows(region) /\ ~(region.end > asked.last)
            /\ ptr' = region.end /\ pc' = "find" /\ at' = 0 /\ answer' = answer
  BY Zenon DEF Found, Answer

LEMMA FoundType ==
  ASSUME ValidatorTypeOK, NEW region \in Regions, Found(region)
  PROVE  pc' \in {"find", "answered"} /\ at' \in Nat /\ ptr' \in Nat
<1>1. region.end \in Nat
  BY DEF Regions
<1>2. CASE UNCHANGED <<ptr, at>> /\ pc' = "answered"
  BY <1>2 DEF ValidatorTypeOK
<1>3. CASE ptr' = region.end /\ pc' = "find" /\ at' = 0
  BY <1>1, <1>3
<1> QED
  BY <1>2, <1>3, FoundIs

\* Of the cache a region is found that holds ptr, by the hint or by the search, or
\* the search stops at none.
FoundCached(i) == i \in DOMAIN regions /\ Within(regions[i]) /\ Found(regions[i]) /\ hint' \in {hint, i - 1}
FoundNone(i) == Bound(i) /\ ~(i <= Len(regions) /\ Within(regions[i])) /\ Answer(FALSE) /\ UNCHANGED <<ptr, at, hint>>

LEMMA FindCachedIs ==
  ASSUME ValidatorTypeOK, FindCached
  PROVE  (\E i \in DOMAIN regions : FoundCached(i)) \/ (\E i \in 1..(Len(regions) + 1) : FoundNone(i))
<1>1. regions \in Seq(Regions) /\ hint \in Nat /\ Len(regions) \in Nat /\ DOMAIN regions = 1..Len(regions)
  BY DEF ValidatorTypeOK
<1>2. CASE hint < Len(regions) /\ Within(regions[hint + 1]) /\ Found(regions[hint + 1]) /\ UNCHANGED hint
  <2>1. hint + 1 \in DOMAIN regions
    BY <1>1, <1>2
  <2> QED
    BY <1>2, <2>1 DEF FoundCached
<1>3. ASSUME NEW i \in 1..(Len(regions) + 1), Bound(i),
             i <= Len(regions) /\ Within(regions[i]), Found(regions[i]) /\ hint' = i - 1
      PROVE  \E j \in DOMAIN regions : FoundCached(j)
  BY <1>1, <1>3 DEF FoundCached
<1>4. ASSUME NEW i \in 1..(Len(regions) + 1), Bound(i),
             ~(i <= Len(regions) /\ Within(regions[i])), Answer(FALSE) /\ UNCHANGED <<ptr, at, hint>>
      PROVE  \E j \in 1..(Len(regions) + 1) : FoundNone(j)
  BY <1>4 DEF FoundNone
<1> QED
  BY <1>2, <1>3, <1>4, Zenon DEF FindCached

-----------------------------------------------------------------------------
(* The state keeps its type.                                               *)

LEMMA InitiallyTyped == SpaceInit /\ ValidatorInit => ValidatorTypeOK
<1> SUFFICES ASSUME SpaceInit, ValidatorInit PROVE ValidatorTypeOK
  OBVIOUS
<1>1. SpaceTypeOK
  BY ProtectionsAssumption DEF SpaceInit, SpaceTypeOK
<1>2. Nothing \in [right : Questions, first : Nat, last : Nat] /\ Unseen \in [Questions -> SUBSET Pages]
  BY DEF Nothing, Unseen, Questions
<1>3. <<>> \in Seq(Regions)
  OBVIOUS
<1> QED
  BY <1>1, <1>2, <1>3 DEF ValidatorInit, ValidatorTypeOK

LEMMA KeepsSpaceType == SpaceTypeOK /\ (\E p \in Pages : OwnStep(p)) => SpaceTypeOK'
  BY ProtectionsAssumption DEF SpaceTypeOK, OwnStep, OwnMprotect, OwnMunmap, OwnMmap, OwnChange

LEMMA TypeStep == ValidatorTypeOK /\ [ValidatorNext]_validatorVars => ValidatorTypeOK'
<1> SUFFICES ASSUME ValidatorTypeOK, [ValidatorNext]_validatorVars PROVE ValidatorTypeOK'
  OBVIOUS
<1> USE DEF validatorVars, validator, asking, ghosts, space
<1>1. ASSUME NEW use \in BOOLEAN, setUseCache(use) PROVE ValidatorTypeOK'
  <2>1. Refresh(pid) \/ Clear
    BY <1>1, Zenon DEF setUseCache
  <2>2. UNCHANGED <<space, pid, asked, ptr>>
    BY <1>1 DEF setUseCache
  <2>3. SpaceTypeOK'
    BY <2>2 DEF ValidatorTypeOK, SpaceTypeOK
  <2> QED
    BY <2>1, <2>2, <2>3, LookType DEF ValidatorTypeOK
<1>2. ASSUME NEW id \in {1, 2}, setPID(id) PROVE ValidatorTypeOK'
  <2>1. Refresh(id) \/ Clear
    BY <1>2, Zenon DEF setPID
  <2>2. UNCHANGED <<space, asked, ptr>> /\ pid' = id
    BY <1>2 DEF setPID
  <2>3. SpaceTypeOK'
    BY <2>2 DEF ValidatorTypeOK, SpaceTypeOK
  <2> QED
    BY <2>1, <2>2, <2>3, LookType DEF ValidatorTypeOK
<1>3. CASE clearCache
  BY <1>3, LookType DEF clearCache, ValidatorTypeOK, SpaceTypeOK
<1>4. CASE refreshRegionCache
  BY <1>4, LookType DEF refreshRegionCache, ValidatorTypeOK, SpaceTypeOK
<1>5. CASE RefreshLine
  <2> DEFINE line == Line(pid, at)
             n == Len(regions)
  <2>1. line \in Regions
    BY <1>5, LineIs DEF RefreshLine, ValidatorTypeOK
  <2>2. at' = line.end /\ regions' = IF n > 0 /\ canMergeWith(regions[n], line)
                                    THEN [regions EXCEPT ![n].end = line.end] ELSE Append(regions, line)
    BY <1>5 DEF RefreshLine
  <2> HIDE DEF line
  <2>3. at' \in Nat /\ line.end \in Nat
    BY <2>1, <2>2 DEF Regions
  <2>4. regions' \in Seq(Regions)
    <3>1. CASE n > 0 /\ canMergeWith(regions[n], line)
      <4>1. n \in 1..Len(regions) /\ regions[n] \in Regions
        BY <3>1 DEF ValidatorTypeOK
      <4>2. [regions[n] EXCEPT !.end = line.end] \in Regions
        BY <2>3, <4>1 DEF Regions
      <4>3. regions' = [regions EXCEPT ![n] = [regions[n] EXCEPT !.end = line.end]]
        BY <2>2, <3>1
      <4> QED
        BY <4>1, <4>2, <4>3 DEF ValidatorTypeOK
    <3>2. CASE ~(n > 0 /\ canMergeWith(regions[n], line))
      <4>1. regions' = Append(regions, line)
        BY <2>2, <3>2
      <4> QED
        BY <2>1, <4>1 DEF ValidatorTypeOK
    <3> QED
      BY <3>1, <3>2
  <2> QED
    BY <1>5, <2>3, <2>4 DEF RefreshLine, ValidatorTypeOK, SpaceTypeOK
<1>6. CASE RefreshEnd
  <2>1. PICK order \in Bijection(DOMAIN regions, DOMAIN regions) : regions' = [i \in DOMAIN regions |-> regions[order[i]]]
    BY <1>6 DEF RefreshEnd
  <2>2. order \in [DOMAIN regions -> DOMAIN regions]
    BY Fun_BijectionProperties
  <2>3. regions' \in Seq(Regions)
    <3>1. DOMAIN regions = 1..Len(regions) /\ Len(regions) \in Nat
      BY DEF ValidatorTypeOK
    <3>2. \A i \in 1..Len(regions) : regions[order[i]] \in Regions
      BY <2>2, <3>1 DEF ValidatorTypeOK
    <3> QED
      BY <2>1, <3>1, <3>2
  <2> QED
    BY <1>6, <2>3 DEF RefreshEnd, ValidatorTypeOK, SpaceTypeOK
<1>7. ASSUME NEW right \in Rights \cup {"any"}, NEW p \in Pages \cup {0}, NEW q \in Pages \cup {Top + 1},
             Ask(right, p, q)
      PROVE  ValidatorTypeOK'
  <2>1. p \in Nat /\ q \in Nat
    BY PagesAre
  <2> QED
    BY <1>7, <2>1, NewLookIs DEF Ask, Answer, ValidatorTypeOK, SpaceTypeOK, Questions
<1>8. CASE FindCached
  <2>1. \A i \in DOMAIN regions : regions[i] \in Regions /\ i \in Nat \ {0}
    BY DEF ValidatorTypeOK
  <2>2. /\ pc' \in {"find", "answered"} /\ at' \in Nat /\ ptr' \in Nat
        /\ hint' \in Nat
    <3>1. ASSUME NEW i \in DOMAIN regions, FoundCached(i) PROVE <2>2
      BY <2>1, <3>1, FoundType DEF FoundCached, ValidatorTypeOK
    <3>2. ASSUME NEW i, FoundNone(i) PROVE <2>2
      BY <3>2 DEF FoundNone, Answer, ValidatorTypeOK
    <3> QED
      BY <1>8, <3>1, <3>2, FindCachedIs
  <2> QED
    BY <1>8, <2>2 DEF FindCached, ValidatorTypeOK, SpaceTypeOK
<1>9. CASE FindBegin
  BY <1>9 DEF FindBegin, Answer, ValidatorTypeOK, SpaceTypeOK
<1>10. CASE FindLine
  <2>1. More(pid, at) => Line(pid, at) \in Regions
    BY LineIs DEF ValidatorTypeOK
  <2>2. /\ pc' \in {"find", "lines", "answered"} /\ at' \in Nat /\ ptr' \in Nat
    <3>1. CASE ~More(pid, at)
      BY <1>10, <3>1 DEF FindLine, Answer, ValidatorTypeOK
    <3>2. CASE More(pid, at) /\ Within(Line(pid, at))
      <4>1. Found(Line(pid, at))
        BY <1>10, <3>2, Zenon DEF FindLine
      <4>2. pc' \in {"find", "answered"} /\ at' \in Nat /\ ptr' \in Nat
        BY <2>1, <3>2, <4>1, FoundType
      <4> QED
        BY <4>2
    <3>3. CASE More(pid, at) /\ ~Within(Line(pid, at))
      <4>1. at' = Line(pid, at).end /\ UNCHANGED <<pc, ptr>>
        BY <1>10, <3>3, Zenon DEF FindLine
      <4>2. Line(pid, at).end \in Nat /\ pc = "lines" /\ ptr \in Nat
        BY <1>10, <2>1, <3>3 DEF Regions, FindLine, ValidatorTypeOK
      <4> QED
        BY <4>1, <4>2
    <3> QED
      BY <3>1, <3>2, <3>3
  <2> QED
    BY <1>10, <2>2 DEF FindLine, ValidatorTypeOK, SpaceTypeOK
<1>11. CASE Done
  <2>1. Nothing \in [right : Questions, first : Nat, last : Nat] /\ Unseen \in [Questions -> SUBSET Pages]
    BY DEF Nothing, Unseen, Questions
  <2> QED
    BY <1>11, <2>1 DEF Done, ValidatorTypeOK, SpaceTypeOK
<1>12. CASE MapsChange
  <2>1. SpaceTypeOK'
    BY <1>12, KeepsSpaceType DEF MapsChange, ValidatorTypeOK
  <2>2. \A right \in Questions : Having(1, right)' \subseteq Pages
    BY <2>1 DEF SpaceTypeOK, Having, MappedIn
  <2> QED
    BY <1>12, <2>1, <2>2 DEF MapsChange, ValidatorTypeOK
<1>13. CASE UNCHANGED validatorVars
  BY <1>13 DEF ValidatorTypeOK, SpaceTypeOK
<1> QED
  BY <1>1, <1>2, <1>3, <1>4, <1>5, <1>6, <1>7, <1>8, <1>9, <1>10, <1>11, <1>12, <1>13 DEF ValidatorNext

-----------------------------------------------------------------------------
(* A yes was true.                                                         *)

LEMMA InitiallySound == ValidatorInit => Sound
  BY DEF ValidatorInit, Sound, SeenIsKept, Looking, RegionsWere, Cached, CheckedWas, YesWasTrue

\* A new look at the maps has seen all that is there, and made nothing of it yet.
LEMMA RefreshSound ==
  ASSUME NEW id \in {1, 2}, Refresh(id), pid' = id, UNCHANGED space
  PROVE  Sound'
<1>1. regions' = <<>> /\ was' = Now(id) /\ pc' = "refresh"
  BY DEF Refresh, Drop
<1>2. SeenIsKept'
  BY <1>1 DEF SeenIsKept, Now, Having, MappedIn, ProtIn, Questions, space
<1> QED
  BY <1>1, <1>2 DEF Sound, RegionsWere, CheckedWas, YesWasTrue

LEMMA ClearSound ==
  ASSUME pc = "ready", Clear
  PROVE  Sound'
  BY DEF Clear, Drop, Sound, SeenIsKept, Looking, RegionsWere, CheckedWas, YesWasTrue

\* What a line says of its pages is so when it is read.
LEMMA LineWere ==
  ASSUME ValidatorTypeOK, SeenIsKept, Looking, More(pid, at)
  PROVE  Were(Line(pid, at))
<1> DEFINE line == Line(pid, at)
<1>1. line \in Regions /\ \A x \in PagesOf(line) : x \in MappedIn(pid) /\ ProtIn(pid)[x] = line.prot
  BY LineIs DEF ValidatorTypeOK
<1> HIDE DEF line
<1>2. ASSUME NEW right \in line.prot \cup {"any"} PROVE PagesOf(line) \subseteq was[right]
  <2>1. right \in Questions
    BY <1>1 DEF Regions, Questions
  <2>2. PagesOf(line) \subseteq Having(pid, right)
    BY <1>1 DEF Having
  <2> QED
    BY <2>1, <2>2 DEF SeenIsKept
<1> QED
  BY <1>2 DEF Were, line

\* A region that was right when it was read brings a question that far.
LEMMA FoundSound ==
  ASSUME ValidatorTypeOK, CheckedWas, pc \in {"find", "lines"},
         NEW region \in Regions, Were(region), Within(region), Found(region), UNCHANGED <<asked, was>>
  PROVE  CheckedWas' /\ YesWasTrue'
<1>1. region.start \in Nat /\ region.end \in Nat /\ region.start <= ptr /\ ptr < region.end
  BY DEF Regions, Within
<1>2. /\ asked.first \in Nat /\ asked.last \in Nat /\ ptr \in Nat /\ asked.first <= ptr /\ ptr <= asked.last
      /\ asked.first..(ptr - 1) \subseteq was[asked.right]
  BY DEF ValidatorTypeOK, CheckedWas
<1>3. Allows(region) => asked.first..(region.end - 1) \subseteq was[asked.right]
  <2> SUFFICES ASSUME Allows(region), NEW p \in asked.first..(region.end - 1) PROVE p \in was[asked.right]
    OBVIOUS
  <2>1. p \in asked.first..(ptr - 1) \/ p \in PagesOf(region)
    BY <1>1, <1>2 DEF PagesOf
  <2>2. PagesOf(region) \subseteq was[asked.right]
    BY DEF Were, Allows
  <2> QED
    BY <1>2, <2>1, <2>2
<1>4. CASE ~Allows(region) /\ pc' = "answered" /\ answer' = FALSE
  BY <1>4 DEF CheckedWas, YesWasTrue
<1>5. CASE Allows(region) /\ region.end > asked.last /\ pc' = "answered"
  <2>1. asked.first..asked.last \subseteq asked.first..(region.end - 1)
    BY <1>1, <1>2, <1>5
  <2> QED
    BY <1>3, <1>5, <2>1 DEF CheckedWas, YesWasTrue
<1>6. CASE Allows(region) /\ ~(region.end > asked.last) /\ ptr' = region.end /\ pc' = "find"
  BY <1>1, <1>2, <1>3, <1>6 DEF CheckedWas, YesWasTrue
<1> QED
  BY <1>4, <1>5, <1>6, FoundIs

LEMMA SoundStep == ValidatorTypeOK /\ Sound /\ [ValidatorNext]_validatorVars => Sound'
<1> SUFFICES ASSUME ValidatorTypeOK, Sound, [ValidatorNext]_validatorVars PROVE Sound'
  OBVIOUS
<1> USE DEF validatorVars, validator, asking, ghosts
<1>0. pid \in {1, 2} /\ SpaceTypeOK /\ at \in Nat /\ \A i \in DOMAIN regions : regions[i] \in Regions
  BY DEF ValidatorTypeOK
<1>1. ASSUME NEW use \in BOOLEAN, setUseCache(use) PROVE Sound'
  BY <1>0, <1>1, RefreshSound, ClearSound DEF setUseCache
<1>2. ASSUME NEW id \in {1, 2}, setPID(id) PROVE Sound'
  BY <1>2, RefreshSound, ClearSound DEF setPID
<1>3. CASE clearCache
  BY <1>3, ClearSound DEF clearCache
<1>4. CASE refreshRegionCache
  BY <1>0, <1>4, RefreshSound DEF refreshRegionCache
<1>5. CASE RefreshLine
  <2> DEFINE line == Line(pid, at)
             n == Len(regions)
  <2>1. /\ pc = "refresh" /\ pc' = "refresh" /\ UNCHANGED <<space, pid, was>>
        /\ regions' = IF n > 0 /\ canMergeWith(regions[n], line)
                      THEN [regions EXCEPT ![n].end = line.end] ELSE Append(regions, line)
    BY <1>5 DEF RefreshLine
  <2>2. line \in Regions /\ \A x \in PagesOf(line) : x \in MappedIn(pid) /\ ProtIn(pid)[x] = line.prot
    BY <1>0, <1>5, LineIs DEF RefreshLine
  <2> HIDE DEF line
  <2>3. SeenIsKept'
    BY <2>1 DEF Sound, SeenIsKept, Looking, Having, MappedIn, ProtIn, space
  <2>4. Were(line)
    BY <1>5, <2>1, LineWere DEF Sound, Looking, RefreshLine, line
  <2>5. \A i \in DOMAIN regions' : Were(regions'[i])
    <3>0. regions \in Seq(Regions) /\ \A i \in DOMAIN regions : Were(regions[i])
      BY <2>1 DEF Sound, RegionsWere, Cached, ValidatorTypeOK
    <3>1. CASE n > 0 /\ canMergeWith(regions[n], line)
      <4> DEFINE old == regions[n]
                 new == [old EXCEPT !.end = line.end]
      <4>1. n \in DOMAIN regions /\ old \in Regions /\ Were(old) /\ old.end = line.start /\ old.prot = line.prot
        BY <3>0, <3>1 DEF canMergeWith
      <4>2. new.start = old.start /\ new.end = line.end /\ new.prot = old.prot
        BY <4>1 DEF Regions
      <4>3. PagesOf(new) \subseteq PagesOf(old) \cup PagesOf(line)
        BY <2>2, <4>1, <4>2 DEF PagesOf, Regions
      <4>4. Were(new)
        BY <2>4, <4>1, <4>2, <4>3 DEF Were
      <4>5. regions' = [regions EXCEPT ![n] = new]
        BY <2>1, <3>1
      <4> QED
        BY <3>0, <4>1, <4>4, <4>5
    <3>2. CASE ~(n > 0 /\ canMergeWith(regions[n], line))
      <4>1. regions' = Append(regions, line)
        BY <2>1, <3>2
      <4>2. ASSUME NEW i \in DOMAIN regions' PROVE regions'[i] = line \/ (i \in DOMAIN regions /\ regions'[i] = regions[i])
        BY <2>2, <3>0, <4>1
      <4> QED
        BY <2>4, <3>0, <4>2
    <3> QED
      BY <3>1, <3>2
  <2>6. RegionsWere'
    BY <2>1, <2>5 DEF RegionsWere, Were
  <2> QED
    BY <2>1, <2>3, <2>6 DEF Sound, CheckedWas, YesWasTrue
<1>6. CASE RefreshEnd
  <2>1. /\ pc = "refresh" /\ pc' = "ready" /\ UNCHANGED was
        /\ \E order \in Bijection(DOMAIN regions, DOMAIN regions) : regions' = [i \in DOMAIN regions |-> regions[order[i]]]
    BY <1>6 DEF RefreshEnd
  <2>2. PICK order \in [DOMAIN regions -> DOMAIN regions] : regions' = [i \in DOMAIN regions |-> regions[order[i]]]
    BY <2>1, Fun_BijectionProperties
  <2>3. RegionsWere'
    BY <2>1, <2>2 DEF Sound, RegionsWere, Cached, Were
  <2> QED
    BY <2>1, <2>3 DEF Sound, SeenIsKept, Looking, CheckedWas, YesWasTrue
<1>7. ASSUME NEW right \in Rights \cup {"any"}, NEW p \in Pages \cup {0}, NEW q \in Pages \cup {Top + 1},
             Ask(right, p, q)
      PROVE  Sound'
  <2>1. /\ pc = "ready" /\ p <= q /\ asked' = [right |-> right, first |-> p, last |-> q] /\ ptr' = p
        /\ UNCHANGED <<space, validator>>
    BY <1>7 DEF Ask
  <2>2. CASE Answer(FALSE) /\ UNCHANGED was
    BY <2>1, <2>2 DEF Answer, Sound, SeenIsKept, Looking, RegionsWere, Cached, Were, CheckedWas, YesWasTrue
  <2>3. CASE pc' = "find" /\ IF useCache THEN UNCHANGED was ELSE was' = Now(pid)
    <3>1. SeenIsKept'
      BY <2>1, <2>3 DEF SeenIsKept, Looking, Now, Having, MappedIn, ProtIn, Questions, space
    <3>2. RegionsWere'
      BY <2>1, <2>3 DEF Sound, RegionsWere, Cached, Were
    <3>3. p \in Nat /\ q \in Nat
      BY PagesAre
    <3> QED
      BY <2>1, <2>3, <3>1, <3>2, <3>3 DEF Sound, CheckedWas, YesWasTrue
  <2> QED
    BY <1>7, <2>2, <2>3, Zenon DEF Ask
<1>8. CASE FindCached
  <2>1. pc = "find" /\ useCache /\ UNCHANGED <<space, pid, useCache, regions, asked, was>>
    BY <1>8 DEF FindCached
  <2>2. pc' \in {"find", "answered"}
    <3>1. ASSUME NEW i \in DOMAIN regions, FoundCached(i) PROVE <2>2
      BY <1>0, <3>1, FoundType DEF FoundCached
    <3>2. ASSUME NEW i, FoundNone(i) PROVE <2>2
      BY <3>2 DEF FoundNone, Answer
    <3> QED
      BY <1>8, <3>1, <3>2, FindCachedIs
  <2>3. SeenIsKept' /\ RegionsWere'
    BY <2>1, <2>2 DEF Sound, SeenIsKept, Looking, RegionsWere, Cached, Were
  <2>4. CheckedWas' /\ YesWasTrue'
    <3>1. ASSUME NEW i \in DOMAIN regions, FoundCached(i) PROVE <2>4
      <4>1. Were(regions[i])
        BY <2>1 DEF Sound, RegionsWere, Cached
      <4> QED
        BY <1>0, <2>1, <3>1, <4>1, FoundSound DEF Sound, FoundCached
    <3>2. ASSUME NEW i, FoundNone(i) PROVE <2>4
      BY <3>2 DEF FoundNone, Answer, CheckedWas, YesWasTrue
    <3> QED
      BY <1>8, <3>1, <3>2, FindCachedIs
  <2> QED
    BY <2>3, <2>4 DEF Sound
<1>9. CASE FindBegin
  <2>1. /\ pc = "find" /\ ~useCache /\ UNCHANGED <<space, validator, asked, was>>
        /\ (pc' = "lines" /\ UNCHANGED ptr) \/ (pc' = "answered" /\ answer' = FALSE)
    BY <1>9 DEF FindBegin, Answer
  <2> QED
    BY <2>1 DEF Sound, SeenIsKept, Looking, RegionsWere, Cached, Were, CheckedWas, YesWasTrue,
      Having, MappedIn, ProtIn, space
<1>10. CASE FindLine
  <2>1. pc = "lines" /\ UNCHANGED <<space, validator, asked, was>>
    BY <1>10 DEF FindLine
  <2>2. pc' \in {"find", "lines", "answered"} /\ CheckedWas' /\ YesWasTrue'
    <3>1. CASE ~More(pid, at)
      BY <1>10, <3>1 DEF FindLine, Answer, CheckedWas, YesWasTrue
    <3>2. CASE More(pid, at) /\ Within(Line(pid, at))
      <4> DEFINE line == Line(pid, at)
      <4>1. Found(line)
        BY <1>10, <3>2, Zenon DEF FindLine
      <4>2. line \in Regions
        BY <1>0, <3>2, LineIs
      <4>3. Were(line)
        BY <2>1, <3>2, LineWere DEF Sound, Looking
      <4> HIDE DEF line
      <4>4. Within(line)
        BY <3>2 DEF line
      <4>5. CheckedWas' /\ YesWasTrue'
        BY <2>1, <4>1, <4>2, <4>3, <4>4, FoundSound DEF Sound
      <4>6. pc' \in {"find", "answered"}
        BY <4>1, <4>2, FoundType
      <4> QED
        BY <4>5, <4>6
    <3>3. CASE More(pid, at) /\ ~Within(Line(pid, at))
      <4>1. UNCHANGED <<pc, ptr>>
        BY <1>10, <3>3, Zenon DEF FindLine
      <4> QED
        BY <2>1, <4>1 DEF Sound, CheckedWas, YesWasTrue
    <3> QED
      BY <3>1, <3>2, <3>3
  <2>3. SeenIsKept' /\ RegionsWere'
    BY <2>1, <2>2 DEF Sound, SeenIsKept, Looking, RegionsWere, Cached, Were, Having, MappedIn, ProtIn, space
  <2> QED
    BY <2>2, <2>3 DEF Sound
<1>11. CASE Done
  <2>1. /\ pc = "answered" /\ pc' = "ready" /\ UNCHANGED <<regions, useCache>>
        /\ useCache => UNCHANGED was
    BY <1>11 DEF Done
  <2> QED
    BY <2>1 DEF Sound, SeenIsKept, Looking, RegionsWere, Cached, Were, CheckedWas, YesWasTrue
<1>12. CASE MapsChange
  <2>1. UNCHANGED <<validator, asking>>
    BY <1>12 DEF MapsChange
  <2>2. \A right \in Questions : was[right] \subseteq was'[right]
    BY <1>12 DEF MapsChange, ValidatorTypeOK
  <2>3. SeenIsKept'
    <3>1. CASE pid = 1 /\ Looking
      <4>1. \A right \in Questions : was'[right] = was[right] \cup Having(1, right)'
        BY <1>12, <3>1 DEF MapsChange, Looking, ValidatorTypeOK
      <4> QED
        BY <2>1, <3>1, <4>1 DEF SeenIsKept, Having, MappedIn, ProtIn
    <3>2. CASE pid # 1
      BY <2>1, <2>2, <3>2 DEF Sound, SeenIsKept, Looking, Having, MappedIn, ProtIn
    <3>3. CASE ~Looking
      BY <2>1, <3>3 DEF SeenIsKept, Looking
    <3> QED
      BY <3>1, <3>2, <3>3
  <2>4. RegionsWere'
    <3>1. \A i \in DOMAIN regions : regions[i].prot \cup {"any"} \subseteq Questions
      BY <1>0 DEF Regions, Questions
    <3> QED
      BY <2>1, <2>2, <3>1 DEF Sound, RegionsWere, Cached, Were
  <2>5. asked.right \in Questions
    BY DEF ValidatorTypeOK
  <2> QED
    BY <2>1, <2>2, <2>3, <2>4, <2>5 DEF Sound, CheckedWas, YesWasTrue
<1>13. CASE UNCHANGED validatorVars
  BY <1>13 DEF Sound, SeenIsKept, Looking, RegionsWere, Cached, Were, CheckedWas, YesWasTrue,
    Having, MappedIn, ProtIn, space
<1> QED
  BY <1>1, <1>2, <1>3, <1>4, <1>5, <1>6, <1>7, <1>8, <1>9, <1>10, <1>11, <1>12, <1>13 DEF ValidatorNext

-----------------------------------------------------------------------------
(* A no was true.                                                          *)

LEMMA InitiallyComplete == ValidatorInit => Complete
  BY DEF ValidatorInit, Complete, RegionsAre, Cached, NotPassed, NoIsTrue

LEMMA FreshComplete ==
  ASSUME ValidatorTypeOK', pc = "ready", NEW id, Refresh(id) \/ Clear
  PROVE  Complete'
<1>1. regions' = <<>> /\ filled' = FALSE /\ (pc' = "ready" \/ (pc' = "refresh" /\ at' = 0))
  BY DEF Refresh, Clear, Drop
<1>2. MappedIn(pid)' \subseteq Nat
  BY PagesAre DEF MappedIn, ValidatorTypeOK, SpaceTypeOK
<1>3. RegionsAre'
  BY <1>1, <1>2 DEF RegionsAre, ExactAll, Ordered, Parted
<1> QED
  BY <1>1, <1>3 DEF Complete, NotPassed, NoIsTrue

\* A region that is right holds what makes it be refused.
LEMMA FoundComplete ==
  ASSUME ValidatorTypeOK, CheckedWas, pc \in {"find", "lines"},
         NEW region \in Regions, steady => Exact(region), Within(region), Found(region),
         UNCHANGED <<space, pid, asked, steady>>
  PROVE  NoIsTrue'
<1>1. region.start \in Nat /\ region.end \in Nat /\ ptr \in PagesOf(region)
  BY DEF Regions, Within, PagesOf, ValidatorTypeOK
<1>2. ptr \in asked.first..asked.last
  BY DEF ValidatorTypeOK, CheckedWas
<1>3. CASE ~Allows(region) /\ steady
  <2>1. ptr \notin Having(pid, asked.right)
    BY <1>1, <1>3 DEF Exact, Having, Allows
  <2>2. Having(pid, asked.right)' = Having(pid, asked.right)
    BY DEF Having, MappedIn, ProtIn, space
  <2> QED
    BY <1>2, <2>1, <2>2 DEF NoIsTrue
<1>4. CASE ~steady
  BY <1>4 DEF NoIsTrue
<1>5. CASE answer' = TRUE
  BY <1>5 DEF NoIsTrue
<1>6. CASE pc' = "find"
  BY <1>6 DEF NoIsTrue
<1> QED
  BY <1>3, <1>4, <1>5, <1>6, FoundIs

\* In regions that are in order, the search meets the one that holds ptr if any does.
LEMMA BoundFinds ==
  ASSUME ValidatorTypeOK, Ordered, \A i \in DOMAIN regions : regions[i].start < regions[i].end,
         NEW i \in 1..(Len(regions) + 1), Bound(i), Covered(ptr)
  PROVE  i <= Len(regions) /\ Within(regions[i])
<1>0. /\ Len(regions) \in Nat /\ DOMAIN regions = 1..Len(regions) /\ ptr \in Nat
      /\ \A j \in DOMAIN regions : regions[j].start \in Nat /\ regions[j].end \in Nat
  BY RegionsTyped DEF ValidatorTypeOK
<1>1. PICK j \in DOMAIN regions : regions[j].start <= ptr /\ ptr < regions[j].end
  BY <1>0 DEF Covered, PagesOf
<1>2. ~(j < i)
  <2> SUFFICES ASSUME j < i PROVE FALSE
    OBVIOUS
  <2>1. i - 1 \in DOMAIN regions /\ regions[i - 1].end <= ptr /\ (j = i - 1 \/ j < i - 1)
    <3>1. j \in 1..Len(regions) /\ i \in Int /\ i > 1
      BY <1>0
    <3>2. i - 1 \in 1..Len(regions) /\ (j = i - 1 \/ j < i - 1)
      BY <1>0, <3>1
    <3> QED
      BY <1>0, <3>1, <3>2 DEF Bound
  <2>2. j < i - 1 => regions[j].end <= regions[i - 1].start
    BY <2>1 DEF Ordered
  <2> QED
    BY <1>0, <1>1, <2>1, <2>2
<1>3. ~(i < j)
  <2> SUFFICES ASSUME i < j PROVE FALSE
    OBVIOUS
  <2>1. i \in DOMAIN regions /\ regions[i].end > ptr
    BY <1>0, <1>1 DEF Bound
  <2>2. regions[i].end <= regions[j].start
    BY <2>1 DEF Ordered
  <2> QED
    BY <1>0, <1>1, <2>1, <2>2
<1>4. i = j
  BY <1>0, <1>1, <1>2, <1>3
<1> QED
  BY <1>0, <1>1, <1>4 DEF Within

\* The next line goes to the regions in its place.
LEMMA RefreshLineComplete ==
  ASSUME ValidatorTypeOK, RegionsAre, RefreshLine
  PROVE  RegionsAre'
<1> DEFINE line == Line(pid, at)
           n == Len(regions)
<1>1. /\ pc = "refresh" /\ pc' = "refresh" /\ UNCHANGED <<space, pid, steady>> /\ at' = line.end
      /\ regions' = IF n > 0 /\ canMergeWith(regions[n], line)
                    THEN [regions EXCEPT ![n].end = line.end] ELSE Append(regions, line)
      /\ More(pid, at)
  BY DEF RefreshLine, ghosts
<1> SUFFICES ASSUME steady PROVE RegionsAre'
  BY <1>1 DEF RegionsAre
<1>2. /\ regions \in Seq(Regions) /\ n \in Nat /\ DOMAIN regions = 1..n
      /\ \A i \in 1..n : regions[i] \in Regions /\ regions[i].start \in Nat /\ regions[i].end \in Nat
      /\ pid \in {1, 2} /\ SpaceTypeOK /\ at \in Nat
  BY RegionsTyped DEF ValidatorTypeOK
<1>3. /\ \A i \in 1..n : Exact(regions[i]) /\ regions[i].end <= at
      /\ \A i, j \in 1..n : i < j => regions[i].end <= regions[j].start
      /\ \A p \in MappedIn(pid) : p < at => Covered(p)
      /\ Parted
  BY <1>1, <1>2 DEF RegionsAre, Cached, ExactAll, Ordered
<1>4. /\ line \in Regions /\ line.start \in Nat /\ line.end \in Nat
      /\ Exact(line) /\ at < line.end /\ at <= line.start
      /\ \A p \in MappedIn(pid) : at <= p => line.start <= p
      /\ line.end \in Pages => ~Alike(MappedIn(pid), ProtIn(pid), line.end - 1, line.end)
  BY <1>1, <1>2, <1>3, LineIs DEF Parted, Exact, Regions
<1>5. MappedIn(pid)' = MappedIn(pid) /\ ProtIn(pid)' = ProtIn(pid) /\ MappedIn(pid) \subseteq Nat
  BY <1>1, <1>2, SpaceOf, PagesAre DEF MappedIn, ProtIn, space
<1> HIDE DEF line, n
<1>6. Parted'
  BY <1>1, <1>4, <1>5 DEF Parted
<1>7. (\A i \in DOMAIN regions' : Exact(regions'[i])) => ExactAll'
  BY <1>5 DEF ExactAll, Exact
<1>8. CASE n > 0 /\ canMergeWith(regions[n], line)
  <2> DEFINE old == regions[n]
             new == [old EXCEPT !.end = line.end]
  <2>1. n \in 1..n /\ old \in Regions /\ Exact(old) /\ old.end = line.start /\ old.prot = line.prot
    BY <1>2, <1>3, <1>8 DEF canMergeWith
  <2>2. new.start = old.start /\ new.end = line.end /\ new.prot = old.prot
    BY <2>1 DEF Regions
  <2>3. regions' = [regions EXCEPT ![n] = new]
    BY <1>1, <1>8
  <2> HIDE DEF new, old
  <2>4. DOMAIN regions' = 1..n /\ regions'[n] = new /\ \A i \in 1..n : i # n => regions'[i] = regions[i]
    BY <1>2, <2>1, <2>3
  <2>5. old.start < old.end /\ line.start < line.end /\ old.start \in Nat /\ old.end \in Nat
    BY <1>2, <1>4, <2>1 DEF Exact, old
  <2>6. \A p \in Nat : p \in PagesOf(new) <=> p \in PagesOf(old) \/ p \in PagesOf(line)
    BY <1>4, <2>1, <2>2, <2>5 DEF PagesOf
  <2>7. Exact(new)
    <3>1. \A p \in PagesOf(new) : p \in PagesOf(old) \/ p \in PagesOf(line)
      BY <1>4, <2>2, <2>5, <2>6 DEF PagesOf
    <3> QED
      BY <1>4, <2>1, <2>2, <2>5, <3>1 DEF Exact
  <2>8. ExactAll'
    <3>1. ASSUME NEW i \in DOMAIN regions' PROVE Exact(regions'[i])
      BY <1>3, <2>4, <2>7
    <3> QED
      BY <1>7, <3>1
  <2>9. Ordered'
    <3>1. ASSUME NEW i \in 1..n, NEW j \in 1..n, i < j PROVE regions'[i].end <= regions'[j].start
      <4>1. i # n /\ regions'[i] = regions[i] /\ regions'[j].start = regions[j].start
        <5>1. i # n
          BY <1>2, <3>1
        <5>2. j = n => regions'[j].start = regions[j].start
          BY <2>2, <2>4 DEF old
        <5> QED
          BY <2>4, <5>1, <5>2
      <4> QED
        BY <1>3, <3>1, <4>1
    <3> QED
      BY <2>4, <3>1 DEF Ordered
  <2>10. \A i \in DOMAIN regions' : regions'[i].end <= at'
    <3>1. ASSUME NEW i \in 1..n PROVE regions'[i].end <= line.end
      <4>1. CASE i = n
        BY <1>4, <2>2, <2>4, <4>1
      <4>2. CASE i # n
        BY <1>2, <1>3, <1>4, <2>4, <4>2
      <4> QED
        BY <4>1, <4>2
    <3> QED
      BY <1>1, <2>4, <3>1
  <2>11. \A p \in MappedIn(pid) : p < line.end => Covered(p)'
    <3> SUFFICES ASSUME NEW p \in MappedIn(pid), p < line.end PROVE Covered(p)'
      OBVIOUS
    <3>1. p \in Nat
      BY <1>5
    <3>2. CASE p \in PagesOf(line)
      BY <2>1, <2>4, <2>6, <3>1, <3>2 DEF Covered
    <3>3. CASE p < at
      <4>1. PICK i \in 1..n : p \in PagesOf(regions[i])
        BY <1>2, <1>3, <3>3 DEF Covered
      <4> QED
        BY <2>4, <2>6, <3>1, <4>1 DEF Covered, old
    <3> QED
      BY <1>2, <1>4, <3>1, <3>2, <3>3 DEF PagesOf
  <2> QED
    BY <1>1, <1>5, <1>6, <2>8, <2>9, <2>10, <2>11 DEF RegionsAre
<1>9. CASE ~(n > 0 /\ canMergeWith(regions[n], line))
  <2>1. regions' = Append(regions, line)
    BY <1>1, <1>9
  <2>2. DOMAIN regions' = 1..(n + 1) /\ regions'[n + 1] = line /\ \A i \in 1..n : regions'[i] = regions[i]
    BY <1>2, <1>4, <2>1 DEF n
  <2>3. \A i \in DOMAIN regions' : i \in 1..n \/ i = n + 1
    BY <1>2, <2>2
  <2>4. ExactAll'
    <3>1. ASSUME NEW i \in DOMAIN regions' PROVE Exact(regions'[i])
      BY <1>3, <1>4, <2>2, <2>3
    <3> QED
      BY <1>7, <3>1
  <2>5. Ordered'
    <3>1. ASSUME NEW i \in 1..(n + 1), NEW j \in 1..(n + 1), i < j PROVE regions'[i].end <= regions'[j].start
      <4>1. i \in 1..n /\ regions'[i] = regions[i]
        BY <1>2, <2>2, <3>1
      <4>2. CASE j \in 1..n
        BY <1>3, <2>2, <3>1, <4>1, <4>2
      <4>3. CASE j = n + 1
        BY <1>2, <1>3, <1>4, <2>2, <4>1, <4>3
      <4> QED
        BY <1>2, <4>2, <4>3
    <3> QED
      BY <2>2, <3>1 DEF Ordered
  <2>6. \A i \in DOMAIN regions' : regions'[i].end <= at'
    <3>1. ASSUME NEW i \in 1..n PROVE regions[i].end <= line.end
      BY <1>2, <1>3, <1>4
    <3> QED
      BY <1>1, <1>4, <2>2, <2>3, <3>1
  <2>7. \A p \in MappedIn(pid) : p < line.end => Covered(p)'
    <3> SUFFICES ASSUME NEW p \in MappedIn(pid), p < line.end PROVE Covered(p)'
      OBVIOUS
    <3>1. p \in Nat /\ n + 1 \in 1..(n + 1) /\ \A i \in 1..n : i \in 1..(n + 1)
      BY <1>2, <1>5
    <3>2. CASE p \in PagesOf(line)
      BY <2>2, <3>1, <3>2 DEF Covered
    <3>3. CASE p < at
      <4>1. PICK i \in 1..n : p \in PagesOf(regions[i])
        BY <1>2, <1>3, <3>3 DEF Covered
      <4> QED
        BY <2>2, <3>1, <4>1 DEF Covered
    <3> QED
      BY <1>2, <1>4, <3>1, <3>2, <3>3 DEF PagesOf
  <2> QED
    BY <1>1, <1>5, <1>6, <2>4, <2>5, <2>6, <2>7 DEF RegionsAre
<1> QED
  BY <1>8, <1>9

\* Sorting leaves regions that are in order in order, and loses none.
LEMMA RefreshEndComplete ==
  ASSUME ValidatorTypeOK, RegionsAre, RefreshEnd
  PROVE  RegionsAre'
<1>1. /\ pc = "refresh" /\ pc' = "ready" /\ UNCHANGED <<space, pid, steady>>
      /\ filled' => ~More(pid, at)
      /\ \E order \in Bijection(DOMAIN regions, DOMAIN regions) :
           /\ regions' = [i \in DOMAIN regions |-> regions[order[i]]]
           /\ \A i, j \in DOMAIN regions : i < j => regions'[i].start <= regions'[j].start
  BY DEF RefreshEnd
<1> SUFFICES ASSUME steady PROVE RegionsAre'
  BY <1>1 DEF RegionsAre
<1>2. PICK order \in Bijection(DOMAIN regions, DOMAIN regions) :
        /\ regions' = [i \in DOMAIN regions |-> regions[order[i]]]
        /\ \A i, j \in DOMAIN regions : i < j => regions'[i].start <= regions'[j].start
  BY <1>1
<1>3. /\ order \in [DOMAIN regions -> DOMAIN regions]
      /\ \A i, j \in DOMAIN regions : order[i] = order[j] => i = j
      /\ \A i \in DOMAIN regions : \E j \in DOMAIN regions : order[j] = i
  BY Fun_BijectionProperties
<1>4. /\ Len(regions) \in Nat /\ DOMAIN regions = 1..Len(regions)
      /\ \A i \in DOMAIN regions : regions[i].start \in Nat /\ regions[i].end \in Nat
  BY RegionsTyped
<1>5. /\ \A i \in DOMAIN regions : Exact(regions[i]) /\ regions[i].start < regions[i].end
      /\ \A i, j \in DOMAIN regions : i < j => regions[i].end <= regions[j].start
      /\ \A p \in MappedIn(pid) : p < at => Covered(p)
  BY <1>1 DEF RegionsAre, Cached, ExactAll, Exact, Ordered
<1>6. MappedIn(pid)' = MappedIn(pid) /\ ProtIn(pid)' = ProtIn(pid) /\ MappedIn(pid) \subseteq Nat /\ at \in Nat
  BY <1>1, SpaceOf, PagesAre DEF MappedIn, ProtIn, space, ValidatorTypeOK
<1>7. DOMAIN regions' = DOMAIN regions /\ \A i \in DOMAIN regions : regions'[i] = regions[order[i]]
  BY <1>2
<1>8. ExactAll'
  <2>1. \A i \in DOMAIN regions' : Exact(regions'[i])
    BY <1>3, <1>5, <1>7
  <2> QED
    BY <1>6, <2>1 DEF ExactAll, Exact
<1>9. Ordered'
  <2>1. ASSUME NEW i \in DOMAIN regions, NEW j \in DOMAIN regions, i < j
        PROVE  regions[order[i]].end <= regions[order[j]].start
    <3>1. order[i] \in 1..Len(regions) /\ order[j] \in 1..Len(regions) /\ order[i] # order[j]
      BY <1>3, <1>4, <2>1
    <3>2. regions[order[i]].start <= regions[order[j]].start
      BY <1>2, <1>7, <2>1
    <3>3. CASE order[i] < order[j]
      BY <1>3, <1>5, <3>3
    <3>4. CASE order[j] < order[i]
      <4>1. regions[order[j]].end <= regions[order[i]].start /\ regions[order[j]].start < regions[order[j]].end
        BY <1>3, <1>5, <3>4
      <4>2. regions[order[i]].start \in Nat /\ regions[order[j]].start \in Nat /\ regions[order[j]].end \in Nat
        BY <1>3, <1>4
      <4> QED
        BY <3>2, <4>1, <4>2
    <3> QED
      BY <1>4, <3>1, <3>3, <3>4
  <2> QED
    BY <1>7, <2>1 DEF Ordered
<1>10. filled' => \A p \in MappedIn(pid) : Covered(p)'
  <2> SUFFICES ASSUME filled', NEW p \in MappedIn(pid) PROVE Covered(p)'
    OBVIOUS
  <2>1. Covered(p)
    BY <1>1, <1>5, <1>6 DEF More
  <2>2. PICK i \in DOMAIN regions : p \in PagesOf(regions[i])
    BY <2>1 DEF Covered
  <2>3. PICK j \in DOMAIN regions : order[j] = i
    BY <1>3
  <2> QED
    BY <1>7, <2>2, <2>3 DEF Covered
<1> QED
  BY <1>1, <1>6, <1>8, <1>9, <1>10 DEF RegionsAre

LEMMA CompleteStep ==
  ValidatorTypeOK /\ Sound /\ Complete /\ ValidatorTypeOK' /\ [ValidatorNext]_validatorVars => Complete'
<1> SUFFICES ASSUME ValidatorTypeOK, Sound, Complete, ValidatorTypeOK', [ValidatorNext]_validatorVars
             PROVE  Complete'
  OBVIOUS
<1> USE DEF validatorVars, validator, asking, ghosts
<1>0. /\ pid \in {1, 2} /\ SpaceTypeOK /\ at \in Nat /\ ptr \in Nat /\ \A i \in DOMAIN regions : regions[i] \in Regions
      /\ CheckedWas /\ RegionsAre
      /\ MappedIn(pid) \subseteq Pages
  BY SpaceOf DEF ValidatorTypeOK, Sound, Complete
<1>1. ASSUME NEW use \in BOOLEAN, setUseCache(use) PROVE Complete'
  BY <1>1, FreshComplete DEF setUseCache
<1>2. ASSUME NEW id \in {1, 2}, setPID(id) PROVE Complete'
  BY <1>2, FreshComplete DEF setPID
<1>3. CASE clearCache
  BY <1>3, FreshComplete DEF clearCache
<1>4. CASE refreshRegionCache
  BY <1>4, FreshComplete DEF refreshRegionCache
<1>5. CASE RefreshLine
  <2>1. pc' = "refresh"
    BY <1>5 DEF RefreshLine
  <2> QED
    BY <1>0, <1>5, <2>1, RefreshLineComplete DEF Complete, NotPassed, NoIsTrue
<1>6. CASE RefreshEnd
  <2>1. pc' = "ready"
    BY <1>6 DEF RefreshEnd
  <2> QED
    BY <1>0, <1>6, <2>1, RefreshEndComplete DEF Complete, NotPassed, NoIsTrue
<1>7. ASSUME NEW right \in Rights \cup {"any"}, NEW p \in Pages \cup {0}, NEW q \in Pages \cup {Top + 1},
             Ask(right, p, q)
      PROVE  Complete'
  <2>1. /\ pc = "ready" /\ p <= q /\ asked' = [right |-> right, first |-> p, last |-> q]
        /\ pc' \in {"answered", "find"} /\ (pc' = "answered" => p = 0 \/ q > Top)
        /\ UNCHANGED <<space, validator, filled>>
    BY <1>7, Zenon DEF Ask, Answer
  <2>2. RegionsAre'
    <3>1. CASE useCache
      <4>1. UNCHANGED steady
        BY <1>7, <3>1 DEF Ask
      <4> QED
        BY <1>0, <2>1, <3>1, <4>1 DEF RegionsAre, Cached, ExactAll, Exact, Ordered, Covered, MappedIn, ProtIn, space
    <3>2. CASE ~useCache
      BY <2>1, <3>2 DEF RegionsAre, Cached
    <3> QED
      BY <3>1, <3>2
  <2>3. NoIsTrue'
    <3> SUFFICES ASSUME p = 0 \/ q > Top PROVE ~(asked'.first..asked'.last \subseteq Having(pid, asked.right)')
      BY <2>1 DEF NoIsTrue
    <3>1. p \in Nat /\ q \in Nat /\ 0 \notin Pages /\ (q > Top => q \notin Pages)
      BY PagesAre
    <3>2. Having(pid, asked.right)' \subseteq Pages
      BY SpaceOf DEF Having, MappedIn, ValidatorTypeOK, SpaceTypeOK
    <3>3. p \in p..q /\ q \in p..q
      BY <2>1, <3>1
    <3>4. asked'.first = p /\ asked'.last = q
      BY <2>1
    <3> QED
      BY <3>1, <3>2, <3>3, <3>4
  <2> QED
    BY <2>1, <2>2, <2>3 DEF Complete, NotPassed
<1>8. CASE FindCached
  <2>1. pc = "find" /\ useCache /\ UNCHANGED <<space, pid, useCache, regions, asked, filled, steady>>
    BY <1>8 DEF FindCached
  <2>2. pc' \in {"find", "answered"}
    <3>1. ASSUME NEW i \in DOMAIN regions, FoundCached(i) PROVE <2>2
      BY <1>0, <3>1, FoundType DEF FoundCached
    <3>2. ASSUME NEW i, FoundNone(i) PROVE <2>2
      BY <3>2 DEF FoundNone, Answer
    <3> QED
      BY <1>8, <3>1, <3>2, FindCachedIs
  <2>3. RegionsAre'
    BY <1>0, <2>1, <2>2 DEF RegionsAre, Cached, ExactAll, Exact, Ordered, Covered, MappedIn, ProtIn, space
  <2>4. NoIsTrue'
    <3>1. ASSUME NEW i \in DOMAIN regions, FoundCached(i) PROVE NoIsTrue'
      <4>1. steady => Exact(regions[i])
        BY <1>0, <2>1 DEF RegionsAre, Cached, ExactAll
      <4> QED
        BY <1>0, <2>1, <3>1, <4>1, FoundComplete DEF FoundCached
    <3>2. ASSUME NEW i \in 1..(Len(regions) + 1), FoundNone(i) PROVE NoIsTrue'
      <4> SUFFICES ASSUME filled, steady PROVE ~(asked.first..asked.last \subseteq Having(pid, asked.right)')
        BY <2>1 DEF NoIsTrue
      <4>1. /\ Ordered /\ \A j \in DOMAIN regions : regions[j].start < regions[j].end
            /\ \A p \in MappedIn(pid) : Covered(p)
        BY <1>0, <2>1 DEF RegionsAre, Cached, ExactAll, Exact
      <4>2. ~Covered(ptr)
        BY <3>2, <4>1, BoundFinds DEF FoundNone
      <4>3. ptr \notin Having(pid, asked.right)'
        BY <2>1, <4>1, <4>2 DEF Having, MappedIn, space
      <4>4. ptr \in asked.first..asked.last
        BY <1>0, <2>1 DEF CheckedWas, ValidatorTypeOK
      <4> QED
        BY <4>3, <4>4
    <3> QED
      BY <1>8, <3>1, <3>2, FindCachedIs
  <2> QED
    BY <2>2, <2>3, <2>4 DEF Complete, NotPassed
<1>9. CASE FindBegin
  <2>1. /\ pc = "find" /\ ~useCache /\ UNCHANGED <<space, validator, asked>>
        /\ (pc' = "lines" /\ at' = 0) \/ (pc' = "answered" /\ filled' = FALSE)
    BY <1>9 DEF FindBegin, Answer
  <2>2. ptr' \in Nat
    BY DEF ValidatorTypeOK
  <2> QED
    BY <2>1, <2>2 DEF Complete, RegionsAre, Cached, NotPassed, NoIsTrue
<1>10. CASE FindLine
  <2>1. pc = "lines" /\ UNCHANGED <<space, validator, asked, filled, steady>>
    BY <1>10 DEF FindLine
  <2>2. pc' \in {"find", "lines", "answered"} /\ NotPassed' /\ NoIsTrue'
    <3>0. ptr \in asked.first..asked.last
      BY <1>0, <2>1 DEF CheckedWas, ValidatorTypeOK
    <3>1. CASE ~More(pid, at)
      <4>1. pc' = "answered"
        BY <1>10, <3>1 DEF FindLine, Answer
      <4>2. steady => ptr \notin MappedIn(pid)
        BY <1>0, <2>1, <3>1 DEF Complete, NotPassed, More
      <4>3. steady => ptr \notin Having(pid, asked.right)'
        BY <2>1, <4>2 DEF Having, MappedIn, space
      <4> QED
        BY <2>1, <3>0, <4>1, <4>3 DEF NotPassed, NoIsTrue
    <3>2. CASE More(pid, at) /\ Within(Line(pid, at))
      <4> DEFINE line == Line(pid, at)
      <4>1. Found(line)
        BY <1>10, <3>2, Zenon DEF FindLine
      <4>2. line \in Regions /\ Exact(line)
        BY <1>0, <3>2, LineIs DEF Exact
      <4> HIDE DEF line
      <4>3. Within(line)
        BY <3>2 DEF line
      <4>4. NoIsTrue'
        BY <1>0, <2>1, <4>1, <4>2, <4>3, FoundComplete
      <4>5. pc' \in {"find", "answered"}
        BY <4>1, <4>2, FoundType
      <4> QED
        BY <4>4, <4>5 DEF NotPassed
    <3>3. CASE More(pid, at) /\ ~Within(Line(pid, at))
      <4> DEFINE line == Line(pid, at)
      <4>1. UNCHANGED <<pc, ptr>> /\ at' = line.end
        BY <1>10, <3>3, Zenon DEF FindLine
      <4>2. /\ line \in Regions /\ line.start \in Nat /\ line.end \in Nat
            /\ \A x \in MappedIn(pid) : at <= x => line.start <= x
        BY <1>0, <3>3, LineIs DEF Regions
      <4>3. steady /\ ptr \in MappedIn(pid) => at <= ptr
        BY <2>1 DEF Complete, NotPassed
      <4>4. steady /\ ptr \in MappedIn(pid) => line.end <= ptr
        BY <1>0, <3>3, <4>2, <4>3 DEF Within
      <4>5. MappedIn(pid)' = MappedIn(pid)
        BY <2>1 DEF MappedIn, space
      <4> QED
        BY <2>1, <4>1, <4>4, <4>5 DEF NotPassed, NoIsTrue
    <3> QED
      BY <3>1, <3>2, <3>3
  <2>3. RegionsAre'
    BY <1>0, <2>1, <2>2 DEF RegionsAre, Cached, ExactAll, Exact, Ordered, Covered, MappedIn, ProtIn, space
  <2> QED
    BY <2>2, <2>3 DEF Complete
<1>11. CASE Done
  <2>1. pc = "answered" /\ pc' = "ready" /\ UNCHANGED <<space, pid, regions, useCache>>
    BY <1>11 DEF Done
  <2>2. useCache => UNCHANGED <<filled, steady>>
    BY <1>11 DEF Done
  <2>3. RegionsAre'
    BY <1>0, <2>1, <2>2 DEF RegionsAre, Cached, ExactAll, Exact, Ordered, Covered, MappedIn, ProtIn, space
  <2> QED
    BY <2>1, <2>3 DEF Complete, NotPassed, NoIsTrue
<1>12. CASE MapsChange
  <2>1. UNCHANGED <<validator, asking, filled>>
    BY <1>12 DEF MapsChange
  <2>2. CASE pid = 1 /\ (useCache \/ pc # "ready")
    <3>1. steady' = FALSE
      BY <1>12, <2>2 DEF MapsChange
    <3> QED
      BY <3>1 DEF Complete, RegionsAre, NotPassed, NoIsTrue
  <2>3. CASE pid = 1 /\ ~(useCache \/ pc # "ready")
    BY <2>1, <2>3 DEF Complete, RegionsAre, Cached, NotPassed, NoIsTrue
  <2>4. CASE pid = 2
    <3>1. UNCHANGED steady
      BY <1>12, <2>4 DEF MapsChange
    <3> QED
      BY <2>1, <2>4, <3>1 DEF Complete, RegionsAre, Cached, ExactAll, Exact, Ordered, Parted, Covered, NotPassed, NoIsTrue,
        Having, MappedIn, ProtIn
  <2> QED
    BY <1>0, <2>2, <2>3, <2>4
<1>13. CASE UNCHANGED validatorVars
  BY <1>13 DEF Complete, RegionsAre, Cached, ExactAll, Exact, Ordered, Parted, Covered, NotPassed, NoIsTrue,
    Having, MappedIn, ProtIn, space
<1> QED
  BY <1>1, <1>2, <1>3, <1>4, <1>5, <1>6, <1>7, <1>8, <1>9, <1>10, <1>11, <1>12, <1>13 DEF ValidatorNext

-----------------------------------------------------------------------------
\* Whatever the process does to its maps while they are read: the validator says yes
\* to a range only if every page of it could be used so at some time since the call
\* began, or since the regions it was answered from were read.
THEOREM YesIsTrue == ValidatorSpec => []YesWasTrue
<1>1. SpaceInit /\ ValidatorInit => ValidatorTypeOK /\ Sound
  BY InitiallyTyped, InitiallySound
<1>2. ValidatorTypeOK /\ Sound /\ [ValidatorNext]_validatorVars => (ValidatorTypeOK /\ Sound)'
  BY TypeStep, SoundStep
<1>3. Sound => YesWasTrue
  BY DEF Sound
<1> QED
  BY <1>1, <1>2, <1>3, PTL DEF ValidatorSpec

\* It says no to a range all pages of which may be used so only if the maps changed
\* under it or could not be read: the hint and the search miss no region.
THEOREM NoWasTrue == ValidatorSpec => []NoIsTrue
<1>1. SpaceInit /\ ValidatorInit => ValidatorTypeOK /\ Sound /\ Complete
  BY InitiallyTyped, InitiallySound, InitiallyComplete
<1>2. ValidatorTypeOK /\ Sound /\ Complete /\ [ValidatorNext]_validatorVars
        => (ValidatorTypeOK /\ Sound /\ Complete)'
  BY TypeStep, SoundStep, CompleteStep
<1>3. Complete => NoIsTrue
  BY DEF Complete
<1> QED
  BY <1>1, <1>2, <1>3, PTL DEF ValidatorSpec

-----------------------------------------------------------------------------
(* What a dump writes.                                                     *)

\* Sequences that hold, for each page from a to before b, the page or zeros; and those
\* that hold zeros for no page of a set.
Fits(s, a, b) == s \in Seq(Int) /\ Len(s) = b - a /\ \A i \in 1..Len(s) : s[i] \in {0, a + i - 1}
Spares(s, a, pages) == \A i \in 1..Len(s) : s[i] = 0 => a + i - 1 \notin pages

LEMMA PutOn ==
  ASSUME NEW a \in Nat, NEW b \in Nat, NEW c \in Nat, a <= b, b <= c, NEW s, NEW t, Fits(s, a, b), Fits(t, b, c)
  PROVE  /\ Fits(s \o t, a, c)
         /\ \A pages : Spares(s, a, pages) /\ Spares(t, b, pages) => Spares(s \o t, a, pages)
<1>1. s \in Seq(Int) /\ t \in Seq(Int) /\ Len(s) = b - a /\ Len(t) = c - b
  BY DEF Fits
<1> DEFINE st == s \o t
<1>2. /\ st \in Seq(Int) /\ Len(st) = Len(s) + Len(t)
      /\ \A i \in 1..(Len(s) + Len(t)) : st[i] = IF i <= Len(s) THEN s[i] ELSE t[i - Len(s)]
  BY <1>1, ConcatProperties, Zenon
<1>3. Len(s) \in Nat /\ Len(t) \in Nat
  BY <1>1
<1> HIDE DEF st
<1>4. ASSUME NEW i \in 1..Len(st)
      PROVE  \/ i \in 1..Len(s) /\ st[i] = s[i]
             \/ \E k \in 1..Len(t) : st[i] = t[k] /\ b + k - 1 = a + i - 1
  <2>1. CASE i <= Len(s)
    <3>1. i \in 1..Len(s)
      BY <1>2, <1>3, <1>4, <2>1
    <3>2. st[i] = s[i]
      BY <1>2, <1>4, <2>1
    <3> QED
      BY <3>1, <3>2
  <2>2. CASE i > Len(s)
    <3> DEFINE k == i - Len(s)
    <3>1. i \in 1..(Len(s) + Len(t)) /\ i \in Int
      BY <1>2, <1>4
    <3>2. k \in 1..Len(t)
      BY <1>3, <2>2, <3>1
    <3>3. st[i] = IF i <= Len(s) THEN s[i] ELSE t[i - Len(s)]
      BY <1>2, <3>1
    <3>4. ~(i <= Len(s))
      BY <1>3, <2>2, <3>1
    <3>5. st[i] = t[k]
      BY <3>3, <3>4
    <3>6. b + k - 1 = a + i - 1
      BY <1>1, <3>1
    <3> QED
      BY <3>2, <3>5, <3>6
  <2> QED
    BY <1>2, <1>3, <1>4, <2>1, <2>2
<1>5. Fits(st, a, c)
  <2>1. Len(st) = c - a
    BY <1>1, <1>2
  <2>2. ASSUME NEW i \in 1..Len(st) PROVE st[i] \in {0, a + i - 1}
    BY <1>4 DEF Fits
  <2> QED
    BY <1>2, <2>1, <2>2 DEF Fits
<1>6. ASSUME NEW pages, Spares(s, a, pages), Spares(t, b, pages) PROVE Spares(st, a, pages)
  BY <1>4, <1>6 DEF Spares
<1> QED
  BY <1>5, <1>6 DEF st

LEMMA ZerosFit ==
  ASSUME NEW a \in Nat, NEW b \in Nat, a <= b
  PROVE  /\ Fits(Zeros(b - a), a, b)
         /\ \A pages : (\A p \in pages : ~(a <= p /\ p < b)) => Spares(Zeros(b - a), a, pages)
<1>1. b - a \in Nat
  OBVIOUS
<1>2. Zeros(b - a) \in Seq(Int) /\ Len(Zeros(b - a)) = b - a /\ \A i \in 1..(b - a) : Zeros(b - a)[i] = 0
  BY <1>1 DEF Zeros
<1>3. Fits(Zeros(b - a), a, b)
  BY <1>2 DEF Fits
<1>4. ASSUME NEW pages, \A p \in pages : ~(a <= p /\ p < b) PROVE Spares(Zeros(b - a), a, pages)
  <2> SUFFICES ASSUME NEW i \in 1..(b - a) PROVE a + i - 1 \notin pages
    BY <1>2 DEF Spares
  <2>1. a <= a + i - 1 /\ a + i - 1 < b
    OBVIOUS
  <2> QED
    BY <1>4, <2>1
<1> QED
  BY <1>3, <1>4

LEMMA PagesFit ==
  ASSUME NEW a \in Nat \ {0}, NEW b \in Nat, a <= b
  PROVE  LET s == [i \in 1..(b - a) |-> a + i - 1] IN Fits(s, a, b) /\ \A pages : Spares(s, a, pages)
<1> DEFINE s == [i \in 1..(b - a) |-> a + i - 1]
<1>1. b - a \in Nat
  OBVIOUS
<1>2. s \in Seq(Int) /\ Len(s) = b - a /\ \A i \in 1..(b - a) : s[i] = a + i - 1 /\ s[i] # 0
  BY <1>1
<1> HIDE DEF s
<1>3. Fits(s, a, b) /\ \A pages : Spares(s, a, pages)
  BY <1>2 DEF Fits, Spares
<1> QED
  BY <1>3 DEF s

-----------------------------------------------------------------------------
\* Pages that lie together, and one behind the other.
OneRun(pages) == \A p, q \in pages : p..q \subseteq pages
Before(pages, others) == \A p \in pages, q \in others : p < q

LEMMA AlikeMaps ==
  ASSUME NEW p \in Pages, NEW q \in Pages, Alike(mapped, prot, p, q)
  PROVE  \A r \in Pages : Alike(mapped, prot, p, r) => Alike(mapped, prot, q, r)
<1> SUFFICES ASSUME NEW r \in Pages, Alike(mapped, prot, p, r), NEW d \in Pages,
                    (q <= d /\ d <= r) \/ (r <= d /\ d <= q)
             PROVE  d \in mapped /\ prot[d] = prot[q] /\ FileOf[d] = FileOf[q]
  BY DEF Alike
<1>1. p \in Nat /\ q \in Nat /\ r \in Nat /\ d \in Nat
  BY PagesAreNumbers
<1>2. (p <= q /\ q <= q) \/ (q <= q /\ q <= p)
  BY <1>1
<1>3. prot[q] = prot[p] /\ FileOf[q] = FileOf[p]
  BY <1>2 DEF Alike
<1>4. \/ (p <= d /\ d <= q) \/ (q <= d /\ d <= p)
      \/ (p <= d /\ d <= r) \/ (r <= d /\ d <= p)
  BY <1>1
<1>5. d \in mapped /\ prot[d] = prot[p] /\ FileOf[d] = FileOf[p]
  BY <1>4 DEF Alike
<1> QED
  BY <1>3, <1>5

\* Maps lie one behind the other.
LEMMA MapsAreRuns ==
  ASSUME SpaceTypeOK
  PROVE  /\ \A m \in Maps : m.pages \subseteq Pages /\ m.pages # {} /\ OneRun(m.pages)
         /\ \A m, n \in Maps : m = n \/ Before(m.pages, n.pages) \/ Before(n.pages, m.pages)
<1> DEFINE same(p, q) == Alike(mapped, prot, p, q)
<1>1. ASSUME NEW p \in mapped
      PROVE  /\ p \in Pages /\ MapIn(mapped, prot, p).pages = {q \in Pages : same(p, q)} /\ same(p, p)
             /\ MapIn(mapped, prot, p).prot = prot[p] /\ MapIn(mapped, prot, p).file = FileOf[p]
  <2>1. p \in Pages
    BY DEF SpaceTypeOK
  <2>2. \A d \in Pages : (p <= d /\ d <= p) \/ (p <= d /\ d <= p) => d = p
    BY <2>1, PagesAreNumbers
  <2> QED
    BY <2>1, <2>2 DEF MapIn, Alike
<1>2. ASSUME NEW p \in mapped PROVE OneRun({q \in Pages : same(p, q)})
  <2> SUFFICES ASSUME NEW q \in Pages, same(p, q), NEW r \in Pages, same(p, r), NEW d \in q..r
               PROVE  d \in Pages /\ same(p, d)
    BY DEF OneRun
  <2>1. p \in Nat /\ q \in Nat /\ r \in Nat /\ d \in Nat /\ q <= d /\ d <= r /\ d \in Pages
    BY <1>1, PagesAre
  <2>2. ASSUME NEW e \in Pages, (p <= e /\ e <= d) \/ (d <= e /\ e <= p)
        PROVE  (p <= e /\ e <= r) \/ (q <= e /\ e <= p)
    <3>1. e \in Nat
      BY PagesAreNumbers
    <3> QED
      BY <2>1, <2>2, <3>1
  <2>3. same(p, d)
    BY <2>2 DEF Alike
  <2> QED
    BY <2>1, <2>3
<1>3. ASSUME NEW p \in mapped, NEW q \in Pages, same(p, q) PROVE q \in mapped /\ MapIn(mapped, prot, q) = MapIn(mapped, prot, p)
  <2>1. p \in Pages /\ p \in Nat /\ q \in Nat
    BY <1>1, PagesAreNumbers
  <2>2. (p <= q /\ q <= q) \/ (q <= q /\ q <= p)
    BY <2>1
  <2>3. q \in mapped /\ prot[q] = prot[p] /\ FileOf[q] = FileOf[p]
    BY <1>3, <2>2 DEF Alike
  <2>4. same(q, p)
    BY <1>3, <2>1, AlikeMaps, <1>1
  <2>5. {r \in Pages : same(p, r)} = {r \in Pages : same(q, r)}
    BY <1>3, <2>1, <2>4, AlikeMaps
  <2> QED
    BY <2>3, <2>5 DEF MapIn
<1> HIDE DEF same
<1>4. ASSUME NEW m \in Maps PROVE \E p \in mapped : m = MapIn(mapped, prot, p)
  BY DEF Maps
<1>5. ASSUME NEW m \in Maps PROVE m.pages \subseteq Pages /\ m.pages # {} /\ OneRun(m.pages)
  BY <1>1, <1>2, <1>4
<1>6. ASSUME NEW m \in Maps, NEW n \in Maps, NEW x \in m.pages, x \in n.pages PROVE m = n
  <2>1. PICK p \in mapped : m = MapIn(mapped, prot, p)
    BY <1>4
  <2>2. PICK q \in mapped : n = MapIn(mapped, prot, q)
    BY <1>4
  <2>3. x \in Pages /\ same(p, x) /\ same(q, x)
    BY <1>1, <1>6, <2>1, <2>2
  <2> QED
    BY <1>3, <2>1, <2>2, <2>3
<1>7. ASSUME NEW m \in Maps, NEW n \in Maps, m # n PROVE Before(m.pages, n.pages) \/ Before(n.pages, m.pages)
  <2>1. m.pages \cap n.pages = {}
    BY <1>6, <1>7
  <2>2. OneRun(m.pages) /\ OneRun(n.pages) /\ m.pages \subseteq Nat /\ n.pages \subseteq Nat
    BY <1>5, PagesAreNumbers
  <2>3. PICK a \in m.pages, b \in n.pages : TRUE
    BY <1>5
  <2>4. ASSUME NEW x \in m.pages, NEW y \in n.pages
        PROVE  (a < b => x < y) /\ (b < a => y < x)
    <3>1. ASSUME NEW z \in m.pages, NEW w \in m.pages, NEW v \in n.pages PROVE ~(z <= v /\ v <= w)
      <4>1. z \in Nat /\ w \in Nat /\ v \in Nat
        BY <2>2
      <4>2. z <= v /\ v <= w => v \in z..w
        BY <4>1
      <4> QED
        BY <2>1, <2>2, <4>2 DEF OneRun
    <3>2. ASSUME NEW z \in n.pages, NEW w \in n.pages, NEW v \in m.pages PROVE ~(z <= v /\ v <= w)
      <4>1. z \in Nat /\ w \in Nat /\ v \in Nat
        BY <2>2
      <4>2. z <= v /\ v <= w => v \in z..w
        BY <4>1
      <4> QED
        BY <2>1, <2>2, <4>2 DEF OneRun
    <3>3. x \in Nat /\ y \in Nat /\ a \in Nat /\ b \in Nat
      BY <2>2
    <3>4. ~(a <= y /\ y <= x) /\ ~(x <= y /\ y <= a) /\ ~(y <= a /\ a <= b) /\ ~(b <= a /\ a <= y)
          /\ ~(y <= x /\ x <= b) /\ ~(b <= x /\ x <= y) /\ ~(x <= b /\ b <= a) /\ ~(a <= b /\ b <= x)
      BY <3>1, <3>2
    <3> QED
      BY <3>3, <3>4
  <2>5. a < b \/ b < a
    BY <2>1, <2>2, <2>3
  <2> QED
    BY <2>4, <2>5 DEF Before
<1> QED
  BY <1>5, <1>7

-----------------------------------------------------------------------------
(* A dump.                                                                 *)

\* The pages of its range that a dump at work has still ahead, and those it found readable.
Working == call[Dumper].pc \in {"open", "copy", "back"}
Ahead == pos..to
Legible == UNION {m.pages : m \in {n \in found : "r" \in n.prot}}

Cursor ==
  /\ call[Dumper].pc # "idle" =>
       from \in Nat \ {0} /\ to \in Nat /\ pos \in Nat /\ from <= pos /\ from <= to
  /\ Working => pos <= to + 1
  /\ call[Dumper].pc = "ask" => pos = from
  /\ call[Dumper].pc \in {"idle", "ask"} => maps = {} /\ file = <<>> /\ extra = 0

\* The maps that were found lie one behind the other; those to be done reach into what
\* is ahead, the others do not, but for the one the dump is at.
FoundInOrder ==
  /\ \A m \in found : m.pages \subseteq Pages /\ m.pages # {} /\ OneRun(m.pages)
  /\ \A m, n \in found : m = n \/ Before(m.pages, n.pages) \/ Before(n.pages, m.pages)
AtMap(m) ==
  /\ m.pages = call[Dumper].todo /\ m.prot = call[Dumper].seen /\ pos \in m.pages /\ pos <= to
  /\ \A n \in maps : Before(m.pages, n.pages)
  /\ \A n \in found \ maps : n = m \/ n.pages \cap Ahead = {}
Placed ==
  Working =>
    /\ maps \subseteq found /\ FoundInOrder
    /\ \A m \in maps : m.pages \cap Ahead # {}
    /\ call[Dumper].pc = "copy" => \E m \in found \ maps : AtMap(m)
    /\ call[Dumper].pc # "copy" => \A m \in found \ maps : m.pages \cap Ahead = {}
    /\ call[Dumper].pc = "back" => \A n \in maps : Before(call[Dumper].todo, n.pages)
    /\ call[Dumper].pc = "open" => ~call[Dumper].ok

\* What the file holds of the pages behind.
Filed ==
  Working /\ ~full =>
    /\ Fits(file, from, pos)
    /\ call[Dumper].alone => extra = 0 /\ Spares(file, from, Legible)

\* While a dump is alone, its maps are as they were found, but for what it opened itself.
Undisturbed ==
  Working /\ call[Dumper].alone =>
    /\ \A u \in Threads : call[u].pages \cap call[Dumper].pages = {}
    /\ \A m \in maps : \A p \in m.pages : prot[p] = m.prot
    /\ call[Dumper].pc = "copy" /\ ("r" \in call[Dumper].seen \/ call[Dumper].ok) =>
         \A p \in call[Dumper].todo : "r" \in prot[p]

DumpInv == Cursor /\ Placed /\ Filed /\ Undisturbed /\ DumpInPlace

LEMMA DumpInitially == SpaceInit /\ CallsInit => DumpInv
<1> SUFFICES ASSUME SpaceInit, CallsInit PROVE DumpInv
  OBVIOUS
<1>1. call[Dumper].pc = "idle" /\ maps = {} /\ file = <<>> /\ extra = 0
  BY DEF CallsInit, Callers, Idle
<1> QED
  BY <1>1 DEF DumpInv, Cursor, Placed, Filed, Undisturbed, DumpInPlace, Working

\* What others do is no matter to a dump, if it keeps off the pages of one that is alone.
LEMMA DumpUntouched ==
  ASSUME IInv, DumpInv, UNCHANGED dumping, Like(call'[Dumper], call[Dumper]),
         call'[Dumper].alone => call[Dumper].alone,
         Working /\ call'[Dumper].alone =>
           /\ \A u \in Threads : call'[u].pages \cap call[Dumper].pages = {}
           /\ \A p \in call[Dumper].pages : prot'[p] = prot[p]
  PROVE  DumpInv'
<1>1. /\ maps' = maps /\ from' = from /\ to' = to /\ pos' = pos /\ found' = found
      /\ file' = file /\ extra' = extra /\ full' = full
  BY DEF dumping
<1>2. /\ call'[Dumper].pc = call[Dumper].pc /\ call'[Dumper].todo = call[Dumper].todo
      /\ call'[Dumper].seen = call[Dumper].seen /\ call'[Dumper].ok = call[Dumper].ok
      /\ call'[Dumper].pages = call[Dumper].pages
  BY DEF Like
<1>3. Cursor'
  BY <1>1, <1>2 DEF DumpInv, Cursor, Working
<1>4. Placed'
  BY <1>1, <1>2 DEF DumpInv, Placed, Working, AtMap, FoundInOrder, Ahead
<1>5. Filed'
  BY <1>1, <1>2 DEF DumpInv, Filed, Working, Legible
<1>6. DumpInPlace'
  BY <1>1, <1>2 DEF DumpInv, DumpInPlace
<1>7. Undisturbed'
  <2> SUFFICES ASSUME Working, call'[Dumper].alone
               PROVE  /\ \A u \in Threads : call'[u].pages \cap call[Dumper].pages = {}
                      /\ \A m \in maps : \A p \in m.pages : prot'[p] = m.prot
                      /\ call[Dumper].pc = "copy" /\ ("r" \in call[Dumper].seen \/ call[Dumper].ok) =>
                           \A p \in call[Dumper].todo : "r" \in prot'[p]
    BY <1>1, <1>2 DEF Undisturbed, Working
  <2>1. /\ \A m \in maps : m.pages \subseteq call[Dumper].pages
        /\ call[Dumper].pc = "copy" => call[Dumper].todo \subseteq call[Dumper].pages
    BY DEF IInv, DumpRemembers, MapRemembers
  <2> QED
    BY <2>1 DEF DumpInv, Undisturbed
<1> QED
  BY <1>3, <1>4, <1>5, <1>6, <1>7 DEF DumpInv

\* A thread works at its own pages, and so not at those of a dump that is alone.
LEMMA ThreadDump ==
  ASSUME IInv, DumpInv, NEW t \in Threads, NEW c, call' = [call EXCEPT ![t] = c],
         c.pages \subseteq call[t].pages, UNCHANGED dumping,
         \A p \in Pages : prot'[p] # prot[p] => p \in call[t].pages
  PROVE  DumpInv'
<1>1. /\ t \in Callers /\ Dumper \in Callers /\ t # Dumper /\ call \in [Callers -> CallRecords]
      /\ Threads \subseteq Callers
  BY DumperAssumption DEF Callers, IInv, TypeOK
<1>2. call'[Dumper] = call[Dumper] /\ \A u \in Threads : call'[u].pages \subseteq call[u].pages
  BY <1>1
<1>3. call[Dumper].pages \subseteq Pages
  BY <1>1 DEF CallRecords
<1>4. ASSUME Working, call[Dumper].alone
      PROVE  /\ \A u \in Threads : call'[u].pages \cap call[Dumper].pages = {}
             /\ \A p \in call[Dumper].pages : prot'[p] = prot[p]
  <2>1. \A u \in Threads : call[u].pages \cap call[Dumper].pages = {}
    BY <1>4 DEF DumpInv, Undisturbed
  <2> QED
    BY <1>2, <1>3, <2>1
<1>5. Like(call'[Dumper], call[Dumper])
  BY <1>2 DEF Like
<1> QED
  BY <1>2, <1>4, <1>5, DumpUntouched

LEMMA ThreadStepDump ==
  ASSUME IInv, DumpInv, NEW t \in Threads, Open(t) \/ Copy(t) \/ Copied(t) \/ PutBack(t) \/ Return(t)
  PROVE  DumpInv'
<1>1. t \in Callers /\ t # Dumper /\ call \in [Callers -> CallRecords] /\ call[t] \in CallRecords
      /\ call[t].pages \in SUBSET Pages /\ SpaceTypeOK
  BY DumperAssumption DEF Callers, IInv, TypeOK, CallRecords
<1> DEFINE Apt(c) == call' = [call EXCEPT ![t] = c] /\ c.pages \subseteq call[t].pages
<1>2. ASSUME NEW next, Goto(t, next) PROVE \E c : Apt(c)
  <2> DEFINE c == [call[t] EXCEPT !.pc = next]
  <2>1. c.pages = call[t].pages
    BY <1>1 DEF CallRecords
  <2>2. Apt(c)
    BY <1>2, <2>1 DEF Goto
  <2> HIDE DEF c, Apt
  <2> QED
    BY <2>2
<1>3. ASSUME NEW ok, Finish(t, ok) PROVE \E c : Apt(c)
  <2> DEFINE c == [call[t] EXCEPT !.pc = "done", !.ok = ok]
  <2>1. c.pages = call[t].pages
    BY <1>1 DEF CallRecords
  <2>2. Apt(c)
    BY <1>3, <2>1 DEF Finish
  <2> HIDE DEF c, Apt
  <2> QED
    BY <2>2
<1>4. ASSUME NEW todo, call' = [call EXCEPT ![t].todo = todo] PROVE \E c : Apt(c)
  <2> DEFINE c == [call[t] EXCEPT !.todo = todo]
  <2>1. c.pages = call[t].pages
    BY <1>1 DEF CallRecords
  <2>2. Apt(c)
    BY <1>4, <2>1
  <2> HIDE DEF c, Apt
  <2> QED
    BY <2>2
<1>5. ASSUME call' = call PROVE \E c : Apt(c)
  <2>1. Apt(call[t])
    BY <1>1, <1>5
  <2> HIDE DEF Apt
  <2> QED
    BY <2>1
<1>6. ASSUME call' = [call EXCEPT ![t] = Idle] PROVE \E c : Apt(c)
  <2>1. Apt(Idle)
    BY <1>6 DEF Idle
  <2> HIDE DEF Apt
  <2> QED
    BY <2>1
<1>7. \E c : Apt(c)
  <2> HIDE DEF Apt
  <2>1. CASE Open(t)
    BY <1>2, <1>3, <2>1 DEF Open
  <2>2. CASE Copy(t)
    BY <1>4, <1>5, <2>2 DEF Copy
  <2>3. CASE Copied(t)
    BY <1>2, <1>3, <2>3 DEF Copied
  <2>4. CASE PutBack(t)
    BY <1>3, <2>4 DEF PutBack
  <2>5. CASE Return(t)
    BY <1>6, <2>5 DEF Return
  <2> QED
    BY <2>1, <2>2, <2>3, <2>4, <2>5
<1>8. \A p \in Pages : prot'[p] # prot[p] => p \in call[t].pages
  <2>1. ASSUME NEW new, NEW success \in BOOLEAN, Mprotect(call[t].pages, new, success) PROVE <1>8
    BY <1>1, <2>1, MprotectOnly
  <2>2. CASE Open(t) \/ PutBack(t)
    BY <2>1, <2>2 DEF Open, PutBack, Protected
  <2>3. CASE Copy(t) \/ Copied(t) \/ Return(t)
    BY <2>3 DEF Copy, Copied, Return, space
  <2> QED
    BY <2>2, <2>3
<1>9. UNCHANGED dumping
  BY <1>1 DEF Open, Copy, Copied, PutBack, Return
<1> QED
  BY <1>7, <1>8, <1>9, ThreadDump

LEMMA BeginDump ==
  ASSUME IInv, DumpInv, NEW t \in Threads, NEW op \in {"memRead", "memWrite", "memExecWrite"},
         NEW first \in Pages, NEW last \in Pages, Begin(t, op, first, last)
  PROVE  DumpInv'
<1> DEFINE pages == first..last
           single == OneMap(pages)
           new == [op |-> op, pages |-> pages, todo |-> pages, seen |-> prot[first], alone |-> single, ok |-> FALSE,
                   pc |-> IF first \notin mapped THEN "done"
                          ELSE IF Need(op) \in prot[first] THEN "copy" ELSE "open"]
<1>1. /\ t \in Callers /\ Dumper \in Callers \ {t} /\ pages \in SUBSET Pages /\ Enter(t, new)
      /\ UNCHANGED <<space, dumping>> /\ call \in [Callers -> CallRecords]
  BY DumperAssumption DEF Begin, Callers, IInv, TypeOK
<1>2. single \in BOOLEAN
  BY Zenon DEF OneMap
<1> HIDE DEF single
<1>3. new \in CallRecords /\ new.pages = pages
  BY <1>1, <1>2 DEF CallRecords, IInv, TypeOK, SpaceTypeOK
<1> HIDE DEF new
<1>4. Like(call'[t], new) /\ \A u \in Callers \ {t} : Like(call'[u], call[u])
  BY <1>1, <1>3, EnterIs
<1>5. call'[Dumper].alone => call[Dumper].alone /\ call[Dumper].pages \cap pages = {}
  BY <1>1, <1>3, EnterAlone
<1>6. call'[t].pages = pages /\ \A u \in Threads \ {t} : call'[u].pages = call[u].pages
  BY <1>3, <1>4 DEF Like, Callers
<1>7. ASSUME Working, call'[Dumper].alone
      PROVE  /\ \A u \in Threads : call'[u].pages \cap call[Dumper].pages = {}
             /\ \A p \in call[Dumper].pages : prot'[p] = prot[p]
  BY <1>1, <1>5, <1>6, <1>7 DEF DumpInv, Undisturbed, space
<1> QED
  BY <1>1, <1>4, <1>5, <1>7, DumpUntouched

LEMMA ChangeDump ==
  ASSUME IInv, DumpInv, Change
  PROVE  DumpInv'
<1>1. PICK p \in Pages :
        /\ OwnStep(p)
        /\ call' = [u \in Callers |-> [call[u] EXCEPT !.alone = @ /\ p \notin call[u].pages]]
  BY DEF Change
<1>2. UNCHANGED dumping /\ Dumper \in Callers /\ Threads \subseteq Callers
  BY DEF Change, Callers
<1>3. \A q \in Pages \ {p} : prot'[q] = prot[q]
  BY <1>1 DEF OwnStep, OwnMprotect, OwnMunmap, OwnMmap, OwnChange, IInv, TypeOK, SpaceTypeOK
<1> DEFINE still(u) == call[u].alone /\ p \notin call[u].pages
<1>4. \A u \in Callers : call[u] \in CallRecords /\ call[u].alone \in BOOLEAN
  BY DEF IInv, TypeOK, CallRecords
<1>5. call' = [u \in Callers |-> [call[u] EXCEPT !.alone = still(u)]] /\ \A u \in Callers : still(u) \in BOOLEAN
  BY <1>1, <1>4, Zenon
<1>6. \A u \in Callers : call'[u].alone = still(u)
  BY <1>4, <1>5, AloneIs, Zenon
<1> HIDE DEF still
<1>7. \A u \in Callers : Like(call'[u], call[u])
  BY <1>4, <1>5, AloneTyped
<1>8. call'[Dumper].alone => call[Dumper].alone /\ p \notin call[Dumper].pages
  BY <1>2, <1>6, Zenon DEF still
<1>9. \A u \in Threads : call'[u].pages = call[u].pages
  BY <1>2, <1>7 DEF Like
<1>10. call[Dumper].pages \subseteq Pages
  BY <1>2, <1>4 DEF CallRecords
<1>11. ASSUME Working, call'[Dumper].alone
       PROVE  /\ \A u \in Threads : call'[u].pages \cap call[Dumper].pages = {}
              /\ \A q \in call[Dumper].pages : prot'[q] = prot[q]
  BY <1>3, <1>8, <1>9, <1>10, <1>11 DEF DumpInv, Undisturbed
<1> QED
  BY <1>2, <1>7, <1>8, <1>11, DumpUntouched

-----------------------------------------------------------------------------
LEMMA DumperReturns ==
  ASSUME IInv, Return(Dumper)
  PROVE  DumpInv'
<1>1. Dumper \in Callers /\ call' = [call EXCEPT ![Dumper] = Idle] /\ maps' = {} /\ file' = <<>> /\ extra' = 0
  BY DEF Callers, Return
<1>2. call'[Dumper].pc = "idle"
  BY <1>1 DEF IInv, TypeOK, Idle
<1>3. Cursor'
  BY <1>1, <1>2 DEF Cursor, Working
<1> QED
  BY <1>2, <1>3 DEF DumpInv, Placed, Filed, Undisturbed, DumpInPlace, Working

LEMMA AskedInRange ==
  ASSUME IInv, DumpAsk
  PROVE  /\ from' \in Pages /\ to' \in Pages /\ from' <= to' /\ pos' = from'
         /\ call[Dumper].pc = "idle" /\ call' = [call EXCEPT ![Dumper].pc = "ask"]
<1>1. ASSUME NEW first \in Pages, NEW last \in Pages, AskRange(first, last)
      PROVE  /\ from' \in Pages /\ to' \in Pages /\ from' <= to' /\ pos' = from'
             /\ call[Dumper].pc = "idle" /\ call' = [call EXCEPT ![Dumper].pc = "ask"]
  BY <1>1 DEF AskRange
<1>2. ASSUME NEW f, AskFile(f) PROVE \E first, last \in Pages : AskRange(first, last)
  <2> DEFINE of == UNION {m.pages : m \in getMaps(f)}
             low == Min(of)
             near == {p \in of : low..p \subseteq of}
  <2>1. of # {} /\ AskRange(low, Max(near))
    BY <1>2 DEF AskFile
  <2>2. \A m \in getMaps(f) : m.pages \subseteq Pages
    BY MapsAreAlike DEF getMaps, IInv, TypeOK
  <2>3. of \subseteq Pages /\ of \subseteq Nat
    BY <2>2, PagesAreNumbers
  <2> HIDE DEF of
  <2>4. low \in of /\ \A x \in of : low <= x
    BY <2>1, <2>3, MinIs
  <2> HIDE DEF low
  <2>5. low..low = {low}
    BY <2>3, <2>4
  <2>6. near # {} /\ near \subseteq Pages
    BY <2>3, <2>4, <2>5
  <2> HIDE DEF near
  <2>7. Max(near) \in Pages /\ low \in Pages
    BY <2>3, <2>4, <2>6, MaxIs
  <2> QED
    BY <2>1, <2>7
<1> QED
  BY <1>1, <1>2 DEF DumpAsk

LEMMA DumpAskDump ==
  ASSUME IInv, DumpInv, DumpAsk
  PROVE  DumpInv'
<1>1. /\ from' \in Nat \ {0} /\ to' \in Nat /\ pos' = from' /\ from' <= to'
      /\ call[Dumper].pc = "idle" /\ call' = [call EXCEPT ![Dumper].pc = "ask"]
  BY AskedInRange, PagesAreNumbers
<1>2. UNCHANGED <<maps, file, extra>> /\ Dumper \in Callers /\ call[Dumper] \in CallRecords
  BY DEF DumpAsk, Callers, IInv, TypeOK
<1>3. call'[Dumper].pc = "ask"
  BY <1>1, <1>2 DEF IInv, TypeOK, CallRecords
<1>4. maps = {} /\ file = <<>> /\ extra = 0
  BY <1>1 DEF DumpInv, Cursor
<1>5. Cursor'
  BY <1>1, <1>2, <1>3, <1>4 DEF Cursor, Working
<1> QED
  BY <1>3, <1>5 DEF DumpInv, Placed, Filed, Undisturbed, DumpInPlace, Working

LEMMA DumpBeginDump ==
  ASSUME IInv, DumpInv, DumpBegin
  PROVE  DumpInv'
<1> DEFINE all == UNION {m.pages : m \in maps'}
<1>1. PICK opens \in BOOLEAN :
        Enter(Dumper, [Idle EXCEPT !.op = "dump", !.pages = all, !.pc = IF opens THEN "open" ELSE "done"])
  BY DEF DumpBegin
<1> DEFINE new == [Idle EXCEPT !.op = "dump", !.pages = all, !.pc = IF opens THEN "open" ELSE "done"]
<1>2. /\ maps' = {m \in Maps : m.pages \cap from..to # {}} /\ found' = maps'
      /\ UNCHANGED <<space, from, to, pos, file, extra, full>> /\ call[Dumper].pc = "ask"
      /\ Dumper \in Callers /\ Threads \subseteq Callers \ {Dumper}
      /\ call \in [Callers -> CallRecords] /\ SpaceTypeOK
  BY DumperAssumption DEF DumpBegin, Callers, IInv, TypeOK
<1>3. maps' \subseteq Maps
  BY <1>2
<1>4. \A m \in maps' : m.pages \subseteq Pages /\ \A p \in m.pages : prot[p] = m.prot
  BY <1>2, <1>3, MapsAreAlike
<1>5. all \in SUBSET Pages /\ \A m \in maps' : m.pages \subseteq all
  BY <1>4
<1> HIDE DEF all
<1>6. new \in CallRecords /\ new.pages = all /\ new.pc \in {"open", "done"} /\ ~new.ok
  BY <1>5 DEF Idle, CallRecords
<1>7. Enter(Dumper, new)
  BY <1>1
<1> HIDE DEF new
<1>8. /\ Like(call'[Dumper], new) /\ \A u \in Callers \ {Dumper} : Like(call'[u], call[u])
      /\ call'[Dumper].alone => \A v \in Callers : call[v].pages \cap new.pages = {}
  BY <1>2, <1>6, <1>7, EnterIs, EnterAlone
<1>9. call'[Dumper].pc \in {"open", "done"} /\ call'[Dumper].pages = all /\ ~call'[Dumper].ok
  BY <1>6, <1>8 DEF Like
<1>10. /\ from \in Nat \ {0} /\ to \in Nat /\ pos = from /\ from <= to /\ file = <<>> /\ extra = 0
  BY <1>2 DEF DumpInv, Cursor
<1>11. Cursor'
  BY <1>2, <1>9, <1>10 DEF Cursor, Working
<1>12. FoundInOrder'
  BY <1>2, <1>3, MapsAreRuns DEF FoundInOrder
<1>13. Placed'
  BY <1>2, <1>9, <1>10, <1>12 DEF Placed, Working, Ahead
<1>14. Fits(<<>>, from, from) /\ \A pages : Spares(<<>>, from, pages)
  BY <1>10 DEF Fits, Spares
<1>15. Filed'
  BY <1>2, <1>10, <1>14 DEF Filed
<1>16. Undisturbed'
  <2> SUFFICES ASSUME call'[Dumper].alone
               PROVE  /\ \A u \in Threads : call'[u].pages \cap call'[Dumper].pages = {}
                      /\ \A m \in maps' : \A p \in m.pages : prot'[p] = m.prot
    BY <1>9 DEF Undisturbed
  <2>1. \A u \in Threads : call'[u].pages = call[u].pages /\ call[u].pages \cap all = {}
    BY <1>2, <1>6, <1>8 DEF Like
  <2> QED
    BY <1>2, <1>4, <1>9, <2>1 DEF space
<1>17. DumpInPlace'
  BY <1>9 DEF DumpInPlace
<1> QED
  BY <1>11, <1>13, <1>15, <1>16, <1>17 DEF DumpInv

\* The map the dump goes to next: nothing readable lies between it and what is behind.
LEMMA DumpOpenDump ==
  ASSUME IInv, DumpInv, DumpOpen
  PROVE  DumpInv'
<1> DEFINE here(m) == {p \in m.pages : pos <= p /\ p <= to}
           Reads(m) == UNCHANGED space /\ "r" \in m.prot
                       /\ call' = [call EXCEPT ![Dumper].pc = "copy", ![Dumper].seen = m.prot, ![Dumper].todo = m.pages]
           Opens(m, success) ==
             /\ Mprotect(m.pages, m.prot \cup {"r"}, success) /\ "r" \notin m.prot
             /\ call' = [call EXCEPT ![Dumper].pc = "copy", ![Dumper].ok = success,
                                     ![Dumper].seen = m.prot, ![Dumper].todo = m.pages]
<1>1. PICK m \in maps :
        /\ \A k \in maps : Min(m.pages) <= Min(k.pages)
        /\ Put(Zeros(Min(here(m)) - pos)) /\ pos' = Min(here(m)) /\ maps' = maps \ {m}
        /\ Reads(m) \/ \E success \in BOOLEAN : Opens(m, success)
  BY Zenon DEF DumpOpen
<1> DEFINE h == Min(here(m))
<1>2. /\ call[Dumper].pc = "open" /\ UNCHANGED <<from, to, found, extra, full>>
      /\ Dumper \in Callers /\ call[Dumper] \in CallRecords /\ Threads \subseteq Callers \ {Dumper}
      /\ call \in [Callers -> CallRecords] /\ SpaceTypeOK
  BY DumperAssumption DEF DumpOpen, Callers, IInv, TypeOK
<1>3. Cursor /\ Placed /\ Filed /\ Undisturbed /\ Working
  BY <1>2 DEF DumpInv, Working
<1>4. /\ from \in Nat \ {0} /\ to \in Nat /\ pos \in Nat /\ from <= pos /\ from <= to
      /\ maps \subseteq found /\ FoundInOrder /\ ~call[Dumper].ok
      /\ \A k \in maps : k.pages \cap Ahead # {}
      /\ \A k \in found \ maps : k.pages \cap Ahead = {}
  BY <1>2, <1>3 DEF Cursor, Placed
<1>5. /\ m \in found /\ m.pages \in SUBSET Pages /\ m.pages \subseteq Nat /\ m.prot \in SUBSET Rights
      /\ m.pages \subseteq call[Dumper].pages
  BY <1>4, PagesAreNumbers DEF FoundInOrder, IInv, TypeOK, DumpRemembers, MapRemembers
<1>6. /\ h \in m.pages /\ h \in Nat /\ pos <= h /\ h <= to
      /\ \A p \in m.pages : pos <= p /\ p <= to => h <= p
  <2> DEFINE pages == here(m)
  <2>1. PICK x \in m.pages : x \in Ahead
    BY <1>4
  <2>2. x \in pages
    BY <1>4, <2>1 DEF Ahead
  <2>3. pages # {} /\ pages \in SUBSET Nat
    BY <1>5, <2>2
  <2>4. Min(pages) \in pages /\ \A y \in pages : Min(pages) <= y
    <3> HIDE DEF pages
    <3> QED
      BY <2>3, MinIs
  <2> QED
    BY <1>5, <2>4
<1>7. Put(Zeros(h - pos)) /\ pos' = h
  BY <1>1
<1> HIDE DEF h
<1>8. \A k \in maps \ {m} : Before(m.pages, k.pages)
  <2> SUFFICES ASSUME NEW k \in maps \ {m} PROVE ~Before(k.pages, m.pages)
    BY <1>4 DEF FoundInOrder
  <2>1. /\ k.pages # {} /\ k.pages \in SUBSET Nat /\ m.pages # {} /\ m.pages \in SUBSET Nat
    BY <1>4, <1>5, PagesAreNumbers DEF FoundInOrder
  <2>2. Min(k.pages) \in k.pages /\ Min(m.pages) \in m.pages
    BY <2>1, MinIs
  <2>3. Min(m.pages) <= Min(k.pages) /\ Min(m.pages) \in Nat /\ Min(k.pages) \in Nat
    BY <1>1, <2>1, <2>2
  <2> QED
    BY <2>2, <2>3 DEF Before
<1>9. /\ call'[Dumper].pc = "copy" /\ call'[Dumper].seen = m.prot /\ call'[Dumper].todo = m.pages
      /\ call'[Dumper].pages = call[Dumper].pages /\ call'[Dumper].alone = call[Dumper].alone
      /\ \A u \in Callers \ {Dumper} : call'[u] = call[u]
  <2>1. CASE Reads(m)
    BY <1>2, <2>1 DEF CallRecords
  <2>2. ASSUME NEW success \in BOOLEAN, Opens(m, success) PROVE <1>9
    BY <1>2, <2>2 DEF CallRecords
  <2> QED
    BY <1>1, <2>1, <2>2
<1>10. /\ \A p \in Pages \ m.pages : prot'[p] = prot[p]
       /\ call[Dumper].alone /\ ("r" \in m.prot \/ call'[Dumper].ok) => \A p \in m.pages : "r" \in prot'[p]
  <2>1. call[Dumper].alone => \A p \in m.pages : prot[p] = m.prot
    BY <1>3 DEF Undisturbed
  <2>2. CASE Reads(m)
    BY <2>1, <2>2 DEF space
  <2>3. ASSUME NEW success \in BOOLEAN, Opens(m, success) PROVE <1>10
    <3>1. call'[Dumper].ok = success
      BY <1>2, <2>3, Zenon DEF CallRecords
    <3>2. /\ \A p \in Pages \ m.pages : prot'[p] = prot[p]
          /\ success => \A p \in m.pages : prot'[p] = m.prot \cup {"r"}
      BY <1>2, <1>5, <2>3, MprotectOnly
    <3>3. success => \A p \in m.pages : "r" \in prot'[p]
      BY <3>2
    <3>4. "r" \notin m.prot
      BY <2>3
    <3> QED
      BY <3>1, <3>2, <3>3, <3>4
  <2> QED
    BY <1>1, <2>2, <2>3
<1> HIDE DEF Reads, Opens, here
<1>11. /\ maps' = maps \ {m} /\ from' = from /\ to' = to /\ found' = found /\ extra' = extra /\ full' = full
       /\ pos' = h
  BY <1>1, <1>2, <1>7
<1>12. Cursor'
  BY <1>4, <1>6, <1>9, <1>11 DEF Cursor, Working
<1>13. Ahead' \subseteq Ahead /\ \A y \in Ahead : y \in Nat /\ (h < y => y \in Ahead')
  BY <1>4, <1>6, <1>11 DEF Ahead
<1>14. FoundInOrder'
  BY <1>4, <1>11 DEF FoundInOrder
<1>15. ASSUME NEW k \in maps' PROVE k.pages \cap Ahead' # {}
  <2>1. PICK y \in k.pages : y \in Ahead
    BY <1>4, <1>11
  <2>2. h < y
    BY <1>6, <1>8, <1>11 DEF Before
  <2> QED
    BY <1>13, <2>1, <2>2
<1>16. ASSUME NEW k \in found \ maps' PROVE k = m \/ k.pages \cap Ahead' = {}
  BY <1>4, <1>11, <1>13
<1>17. AtMap(m)'
  BY <1>6, <1>8, <1>9, <1>11, <1>16 DEF AtMap
<1>18. Placed'
  BY <1>4, <1>5, <1>9, <1>11, <1>14, <1>15, <1>17 DEF Placed
<1>19. Filed'
  <2> SUFFICES ASSUME ~full
               PROVE  Fits(file', from, h) /\ (call[Dumper].alone => extra = 0 /\ Spares(file', from, Legible))
    BY <1>9, <1>11 DEF Filed, Legible
  <2>1. Fits(file, from, pos) /\ (call[Dumper].alone => extra = 0 /\ Spares(file, from, Legible))
    BY <1>3 DEF Filed
  <2>2. file' = file \o Zeros(h - pos)
    BY <1>7 DEF Put
  <2>3. ASSUME NEW p \in Legible, pos <= p, p < h PROVE FALSE
    <3>1. PICK n \in found : p \in n.pages
      BY DEF Legible
    <3>2. p \in Nat
      BY <1>4, <3>1, PagesAreNumbers DEF FoundInOrder
    <3>3. p \in Ahead
      BY <1>4, <1>6, <2>3, <3>2 DEF Ahead
    <3>4. n \in maps
      BY <1>4, <3>1, <3>3
    <3>5. n # m
      BY <1>4, <1>6, <2>3, <3>1, <3>2
    <3>6. h < p
      BY <1>6, <1>8, <3>1, <3>4, <3>5 DEF Before
    <3> QED
      BY <1>6, <2>3, <3>2, <3>6
  <2>4. Fits(Zeros(h - pos), pos, h) /\ Spares(Zeros(h - pos), pos, Legible)
    BY <1>4, <1>6, <2>3, ZerosFit
  <2> QED
    BY <1>4, <1>6, <2>1, <2>2, <2>4, PutOn
<1>20. Undisturbed'
  <2> SUFFICES ASSUME call[Dumper].alone
               PROVE  /\ \A u \in Threads : call[u].pages \cap call[Dumper].pages = {}
                      /\ \A k \in maps \ {m} : \A p \in k.pages : prot'[p] = k.prot
    BY <1>2, <1>9, <1>10, <1>11 DEF Undisturbed
  <2>1. ASSUME NEW k \in maps \ {m}, NEW p \in k.pages PROVE p \in Pages /\ p \notin m.pages
    <3>1. p \in Pages /\ p \in Nat
      BY <1>4, PagesAreNumbers DEF FoundInOrder
    <3> QED
      BY <1>8, <3>1 DEF Before
  <2> QED
    BY <1>3, <1>10, <2>1 DEF Undisturbed
<1>21. DumpInPlace'
  BY <1>9 DEF DumpInPlace
<1> QED
  BY <1>12, <1>18, <1>19, <1>20, <1>21 DEF DumpInv

\* What write does not copy it makes up for with zeros; alone it copies all it may read.
LEMMA DumpCopyDump ==
  ASSUME IInv, DumpInv, DumpCopy
  PROVE  DumpInv'
<1> DEFINE tried == "r" \in call[Dumper].seen \/ call[Dumper].ok
           here == {p \in call[Dumper].todo : pos <= p /\ p <= to}
           last == Max(here)
           end == last + 1
           copied(stop) == [i \in 1..(stop - pos) |-> pos + i - 1]
<1>1. PICK stop \in pos..end, nowFull \in BOOLEAN :
        /\ stop < end /\ tried /\ ~nowFull /\ ~full => "r" \notin prot[stop]
        /\ full' = (full \/ nowFull)
        /\ Put(copied(stop) \o IF nowFull THEN <<>> ELSE Zeros(end - stop))
        /\ extra' = extra + IF tried /\ stop = pos /\ ~nowFull /\ ~full THEN 1 ELSE 0
        /\ pos' = end
  BY Zenon DEF DumpCopy
<1>2. /\ call[Dumper].pc = "copy" /\ UNCHANGED <<prot, maps, from, to, found>>
      /\ Goto(Dumper, IF call[Dumper].ok THEN "back" ELSE "open")
      /\ Dumper \in Callers /\ call[Dumper] \in CallRecords /\ Threads \subseteq Callers \ {Dumper}
      /\ call \in [Callers -> CallRecords]
  BY DumperAssumption DEF DumpCopy, Callers, IInv, TypeOK
<1>3. Cursor /\ Placed /\ Filed /\ Undisturbed /\ Working
  BY <1>2 DEF DumpInv, Working
<1>4. /\ from \in Nat \ {0} /\ to \in Nat /\ pos \in Nat /\ from <= pos /\ from <= to
      /\ maps \subseteq found /\ FoundInOrder
      /\ \A k \in maps : k.pages \cap Ahead # {}
      /\ \E m \in found \ maps : AtMap(m)
  BY <1>2, <1>3 DEF Cursor, Placed
<1>5. PICK m \in found \ maps : AtMap(m)
  BY <1>4
<1>6. /\ m.pages = call[Dumper].todo /\ m.prot = call[Dumper].seen /\ pos \in m.pages /\ pos <= to
      /\ \A n \in maps : Before(m.pages, n.pages)
      /\ \A n \in found \ maps : n = m \/ n.pages \cap Ahead = {}
      /\ m.pages \subseteq Pages /\ m.pages \subseteq Nat /\ OneRun(m.pages)
  BY <1>4, <1>5, PagesAreNumbers DEF AtMap, FoundInOrder
<1>7. /\ last \in m.pages /\ last \in Nat /\ pos <= last /\ last <= to
      /\ \A p \in m.pages : p <= to => p <= last
  <2>1. pos \in here /\ here \in SUBSET Pages
    BY <1>4, <1>6
  <2>2. Max(here) \in here /\ \A x \in here : Max(here) >= x
    <3> HIDE DEF here
    <3> QED
      BY <2>1, MaxIs
  <2>3. ASSUME NEW p \in m.pages, p <= to PROVE p <= last
    <3>1. CASE pos <= p
      BY <1>6, <2>2, <2>3, <3>1
    <3>2. CASE ~(pos <= p)
      BY <1>4, <1>6, <2>2, <3>2
    <3> QED
      BY <3>1, <3>2
  <2> QED
    BY <1>6, <2>2, <2>3
<1>8. stop \in Nat /\ pos <= stop /\ stop <= end /\ end \in Nat /\ pos < end /\ end <= to + 1 /\ pos' = end
  BY <1>1, <1>4, <1>7
<1>9. \A p \in Nat : pos <= p /\ p < end => p \in m.pages /\ p \in Ahead
  <2> SUFFICES ASSUME NEW p \in Nat, pos <= p, p < end PROVE p \in m.pages /\ p \in Ahead
    OBVIOUS
  <2>1. p \in pos..last /\ p \in pos..to
    BY <1>4, <1>7
  <2> QED
    BY <1>6, <1>7, <2>1 DEF OneRun, Ahead
<1> DEFINE zeros == Zeros(end - stop)
<1>10. ~full' => ~full /\ ~nowFull
  BY <1>1, Zenon
<1>11. ASSUME ~full' PROVE file' = file \o (copied(stop) \o zeros)
  BY <1>1, <1>10, <1>11, Zenon DEF Put
<1>12. Fits(copied(stop), pos, stop) /\ \A pages : Spares(copied(stop), pos, pages)
  <2>1. pos \in Nat \ {0}
    BY <1>4
  <2>2. stop \in Nat /\ pos <= stop
    BY <1>8
  <2> HIDE DEF end
  <2> QED
    BY <2>1, <2>2, PagesFit, Zenon
<1>13. ASSUME ~full', call[Dumper].alone, tried PROVE stop = end
  <2> SUFFICES ASSUME stop < end PROVE FALSE
    BY <1>8
  <2>1. stop \in m.pages
    BY <1>8, <1>9
  <2>2. "r" \in prot[stop]
    BY <1>2, <1>3, <1>6, <1>13, <2>1 DEF Undisturbed
  <2> QED
    BY <1>1, <1>10, <1>13, <2>2
<1>14. ASSUME ~full', call[Dumper].alone, NEW p \in Legible, stop <= p, p < end PROVE FALSE
  <2>1. PICK n \in found : p \in n.pages /\ "r" \in n.prot
    BY DEF Legible
  <2>2. p \in Nat
    BY <1>4, <2>1, PagesAreNumbers DEF FoundInOrder
  <2>3. p \in Ahead /\ pos <= p /\ p <= last
    BY <1>4, <1>7, <1>8, <1>9, <1>14, <2>2
  <2>4. "r" \notin call[Dumper].seen
    BY <1>8, <1>13, <1>14, <2>2
  <2>5. n # m
    BY <1>6, <2>1, <2>4
  <2>6. n \in maps
    BY <1>6, <2>1, <2>3, <2>5
  <2>7. last < p
    BY <1>6, <1>7, <2>1, <2>6 DEF Before
  <2> QED
    BY <1>7, <2>2, <2>3, <2>7
<1> HIDE DEF copied, last
<1>15. Fits(zeros, stop, end) /\ (~full' /\ call[Dumper].alone => Spares(zeros, stop, Legible))
  BY <1>8, <1>14, ZerosFit
<1>16. ASSUME ~full', call[Dumper].alone PROVE extra' = extra
  <2>1. CASE tried
    <3>1. stop # pos
      BY <1>8, <1>13, <1>16, <2>1
    <3>2. extra' = extra + 0
      BY <1>1, <3>1
    <3>3. extra = 0
      BY <1>3, <1>10, <1>16 DEF Filed
    <3> QED
      BY <3>2, <3>3
  <2>2. CASE ~tried
    <3>1. extra' = extra + 0
      BY <1>1, <2>2
    <3>2. extra = 0
      BY <1>3, <1>10, <1>16 DEF Filed
    <3> QED
      BY <3>1, <3>2
  <2> QED
    BY <2>1, <2>2
<1>17. /\ call'[Dumper].pc = IF call[Dumper].ok THEN "back" ELSE "open"
       /\ call'[Dumper].seen = call[Dumper].seen /\ call'[Dumper].todo = call[Dumper].todo
       /\ call'[Dumper].pages = call[Dumper].pages /\ call'[Dumper].alone = call[Dumper].alone
       /\ call'[Dumper].ok = call[Dumper].ok
       /\ \A u \in Callers \ {Dumper} : call'[u] = call[u]
  BY <1>2 DEF Goto, CallRecords
<1>18. call'[Dumper].pc \in {"back", "open"} /\ (call'[Dumper].pc = "open" => ~call'[Dumper].ok)
  BY <1>17
<1>19. /\ maps' = maps /\ from' = from /\ to' = to /\ found' = found /\ pos' = end
  BY <1>2, <1>8
<1> HIDE DEF tried, end, zeros
<1>20. Cursor'
  BY <1>4, <1>8, <1>18, <1>19 DEF Cursor, Working
<1>21. /\ Ahead' \subseteq Ahead
       /\ \A y \in Ahead : last < y => y \in Ahead'
       /\ \A y \in Ahead' : y \in Nat /\ last < y /\ y <= to
  BY <1>4, <1>7, <1>8, <1>19 DEF Ahead, end
<1>22. FoundInOrder'
  BY <1>4, <1>19 DEF FoundInOrder
<1>23. ASSUME NEW k \in maps PROVE k.pages \cap Ahead' # {}
  <2>1. PICK y \in k.pages : y \in Ahead
    BY <1>4
  <2>2. last < y
    BY <1>6, <1>7 DEF Before
  <2> QED
    BY <1>21, <2>1, <2>2
<1>24. ASSUME NEW k \in found \ maps PROVE k.pages \cap Ahead' = {}
  <2>1. CASE k = m
    <3> SUFFICES ASSUME NEW y \in m.pages, y \in Ahead' PROVE FALSE
      BY <2>1
    <3>1. y \in Nat /\ last < y /\ y <= last
      BY <1>7, <1>21
    <3> QED
      BY <1>7, <3>1
  <2>2. CASE k # m
    BY <1>6, <1>21, <2>2
  <2> QED
    BY <2>1, <2>2
<1>25. Placed'
  BY <1>4, <1>6, <1>17, <1>18, <1>19, <1>22, <1>23, <1>24 DEF Placed
<1>26. Filed'
  <2> SUFFICES ASSUME ~full'
               PROVE  Fits(file', from, end) /\ (call[Dumper].alone => extra' = 0 /\ Spares(file', from, Legible))
    BY <1>17, <1>19 DEF Filed, Legible
  <2>1. Fits(file, from, pos) /\ (call[Dumper].alone => extra = 0 /\ Spares(file, from, Legible))
    BY <1>3, <1>10 DEF Filed
  <2> DEFINE more == copied(stop) \o zeros
  <2>2. Fits(more, pos, end) /\ (call[Dumper].alone => Spares(more, pos, Legible))
    BY <1>4, <1>8, <1>12, <1>15, PutOn
  <2>3. file' = file \o more
    BY <1>11
  <2> HIDE DEF more
  <2>4. Fits(file', from, end) /\ (call[Dumper].alone => Spares(file', from, Legible))
    BY <1>4, <1>8, <2>1, <2>2, <2>3, PutOn
  <2> QED
    BY <1>16, <2>1, <2>4
<1>27. Undisturbed'
  BY <1>2, <1>3, <1>17, <1>18, <1>19 DEF Undisturbed
<1>28. DumpInPlace'
  BY <1>18 DEF DumpInPlace
<1> QED
  BY <1>20, <1>25, <1>26, <1>27, <1>28 DEF DumpInv

LEMMA DumpBackDump ==
  ASSUME IInv, DumpInv, DumpBack
  PROVE  DumpInv'
<1>1. /\ call[Dumper].pc = "back" /\ call' = [call EXCEPT ![Dumper].pc = "open", ![Dumper].ok = FALSE]
      /\ UNCHANGED dumping /\ Dumper \in Callers /\ call[Dumper] \in CallRecords
      /\ Threads \subseteq Callers \ {Dumper} /\ call \in [Callers -> CallRecords] /\ SpaceTypeOK
  BY DumperAssumption DEF DumpBack, Callers, IInv, TypeOK
<1>2. PICK success \in BOOLEAN : Mprotect(call[Dumper].todo, call[Dumper].seen, success)
  BY DEF DumpBack
<1>3. \A p \in Pages \ call[Dumper].todo : prot'[p] = prot[p]
  BY <1>1, <1>2, MprotectOnly DEF CallRecords
<1>4. /\ call'[Dumper].pc = "open" /\ call'[Dumper].ok = FALSE
      /\ call'[Dumper].pages = call[Dumper].pages /\ call'[Dumper].alone = call[Dumper].alone
      /\ \A u \in Callers \ {Dumper} : call'[u] = call[u]
  BY <1>1 DEF CallRecords
<1>5. /\ maps' = maps /\ from' = from /\ to' = to /\ pos' = pos /\ found' = found
      /\ file' = file /\ extra' = extra /\ full' = full
  BY <1>1 DEF dumping
<1>6. Cursor /\ Placed /\ Filed /\ Undisturbed /\ Working
  BY <1>1 DEF DumpInv, Working
<1>7. /\ maps \subseteq found /\ FoundInOrder /\ \A n \in maps : Before(call[Dumper].todo, n.pages)
      /\ \A n \in maps : n.pages \cap Ahead # {}
      /\ \A n \in found \ maps : n.pages \cap Ahead = {}
  BY <1>1, <1>6 DEF Placed
<1>8. Cursor'
  BY <1>1, <1>4, <1>5, <1>6 DEF Cursor, Working
<1>9. FoundInOrder' /\ Ahead' = Ahead
  BY <1>5, <1>7 DEF FoundInOrder, Ahead
<1>10. Placed'
  BY <1>4, <1>5, <1>7, <1>9 DEF Placed
<1>11. Filed'
  BY <1>4, <1>5, <1>6 DEF Filed, Working, Legible
<1>12. Undisturbed'
  <2> SUFFICES ASSUME call[Dumper].alone
               PROVE  /\ \A u \in Threads : call[u].pages \cap call[Dumper].pages = {}
                      /\ \A n \in maps : \A p \in n.pages : prot'[p] = n.prot
    BY <1>1, <1>4, <1>5 DEF Undisturbed
  <2>1. ASSUME NEW n \in maps, NEW p \in n.pages PROVE p \in Pages \ call[Dumper].todo
    <3>1. p \in Pages /\ p \in Nat
      BY <1>7, PagesAreNumbers DEF FoundInOrder
    <3> QED
      BY <1>7, <3>1 DEF Before
  <2> QED
    BY <1>3, <1>6, <2>1 DEF Undisturbed
<1>13. DumpInPlace'
  BY <1>4 DEF DumpInPlace
<1> QED
  BY <1>8, <1>10, <1>11, <1>12, <1>13 DEF DumpInv

\* Behind the last map nothing is readable.
LEMMA DumpEndDump ==
  ASSUME IInv, DumpInv, DumpEnd
  PROVE  DumpInv'
<1>1. /\ call[Dumper].pc = "open" /\ maps = {} /\ Put(Zeros(to - pos + 1)) /\ pos' = to + 1
      /\ Finish(Dumper, TRUE) /\ UNCHANGED <<maps, from, to, found, extra, full>>
      /\ Dumper \in Callers /\ call[Dumper] \in CallRecords /\ call \in [Callers -> CallRecords]
  BY DEF DumpEnd, Callers, IInv, TypeOK
<1>2. call'[Dumper].pc = "done" /\ call'[Dumper].alone = call[Dumper].alone
  BY <1>1 DEF Finish, CallRecords
<1>3. Cursor /\ Placed /\ Filed /\ Working
  BY <1>1 DEF DumpInv, Working
<1>4. /\ from \in Nat \ {0} /\ to \in Nat /\ pos \in Nat /\ from <= pos /\ from <= to /\ pos <= to + 1
      /\ FoundInOrder /\ \A n \in found : n.pages \cap Ahead = {}
  BY <1>1, <1>3 DEF Cursor, Placed
<1>5. Cursor'
  BY <1>1, <1>2, <1>4 DEF Cursor, Working
<1>6. DumpInPlace'
  <2> SUFFICES ASSUME ~full
               PROVE  /\ Len(file') = to - from + 1
                      /\ \A i \in DOMAIN file' : file'[i] \in {0, from + i - 1}
                      /\ call[Dumper].alone =>
                           /\ extra = 0
                           /\ \A i \in DOMAIN file' : file'[i] = 0 =>
                                \A m \in found : from + i - 1 \in m.pages => "r" \notin m.prot
    BY <1>1, <1>2 DEF DumpInPlace
  <2> DEFINE end == to + 1
             zeros == Zeros(end - pos)
  <2>1. Fits(file, from, pos) /\ (call[Dumper].alone => extra = 0 /\ Spares(file, from, Legible))
    BY <1>3 DEF Filed
  <2>2. to - pos + 1 = end - pos /\ end \in Nat /\ pos <= end
    BY <1>4
  <2>3. file' = file \o zeros
    BY <1>1, <2>2 DEF Put
  <2>4. ASSUME NEW p \in Legible, pos <= p, p < end PROVE FALSE
    <3>1. PICK n \in found : p \in n.pages
      BY DEF Legible
    <3>2. p \in Nat
      BY <1>4, <3>1, PagesAreNumbers DEF FoundInOrder
    <3>3. p \in Ahead
      BY <1>4, <2>4, <3>2 DEF Ahead
    <3> QED
      BY <1>4, <3>1, <3>3
  <2>5. Fits(zeros, pos, end) /\ Spares(zeros, pos, Legible)
    BY <1>4, <2>2, <2>4, ZerosFit
  <2> HIDE DEF zeros
  <2>6. Fits(file', from, end) /\ (call[Dumper].alone => Spares(file', from, Legible))
    BY <1>4, <2>1, <2>2, <2>3, <2>5, PutOn
  <2>7. Len(file') = to - from + 1 /\ DOMAIN file' = 1..Len(file')
    BY <1>4, <2>6 DEF Fits
  <2>8. \A i \in DOMAIN file' : file'[i] \in {0, from + i - 1}
    BY <2>6, <2>7 DEF Fits
  <2>9. ASSUME call[Dumper].alone, NEW i \in DOMAIN file', file'[i] = 0,
               NEW m \in found, from + i - 1 \in m.pages
        PROVE  "r" \notin m.prot
    <3>1. from + i - 1 \notin Legible
      BY <2>6, <2>7, <2>9 DEF Spares
    <3> QED
      BY <2>9, <3>1 DEF Legible
  <2> QED
    BY <2>1, <2>7, <2>8, <2>9
<1> QED
  BY <1>2, <1>5, <1>6 DEF DumpInv, Placed, Filed, Undisturbed, Working

LEMMA DumpInductive ==
  ASSUME IInv, DumpInv, [CallsNext]_vars
  PROVE  DumpInv'
<1>1. ASSUME CallsNext PROVE DumpInv'
  <2>1. ASSUME NEW t \in Threads, NEW op \in {"memRead", "memWrite", "memExecWrite"},
               NEW p \in Pages, NEW q \in Pages, Begin(t, op, p, q)
        PROVE DumpInv'
    BY <2>1, BeginDump
  <2>2. ASSUME NEW t \in Threads, Open(t) \/ Copy(t) \/ Copied(t) \/ PutBack(t) PROVE DumpInv'
    BY <2>2, ThreadStepDump
  <2>3. ASSUME NEW t \in Callers, Return(t) PROVE DumpInv'
    BY <2>3, ThreadStepDump, DumperReturns DEF Callers
  <2>4. CASE DumpAsk \/ DumpBegin \/ DumpOpen \/ DumpCopy \/ DumpBack \/ DumpEnd
    BY <2>4, DumpAskDump, DumpBeginDump, DumpOpenDump, DumpCopyDump, DumpBackDump, DumpEndDump
  <2>5. CASE Change
    BY <2>5, ChangeDump
  <2> QED
    BY <1>1, <2>1, <2>2, <2>3, <2>4, <2>5 DEF CallsNext
<1>2. ASSUME UNCHANGED vars PROVE DumpInv'
  <2>1. UNCHANGED dumping /\ call' = call /\ prot' = prot
    BY <1>2 DEF vars, space
  <2>2. Like(call'[Dumper], call[Dumper])
    BY <2>1 DEF Like
  <2> QED
    BY <2>1, <2>2, DumpUntouched DEF DumpInv, Undisturbed
<1> QED
  BY <1>1, <1>2

\* For any number of threads beside a dump, any maps and any range: a dump that
\* succeeds is as long as its range and has every page in its place, or zeros, whatever
\* happens to the maps meanwhile, as long as the disk has room; and if no call and no
\* change came in between, zeros stand only for what was not mapped or not readable.
THEOREM DumpIsInPlace == CallsSpec => []DumpInPlace
<1>1. IInv /\ DumpInv => DumpInPlace
  BY DEF DumpInv
<1>2. IInv /\ [CallsNext]_vars => IInv'
  BY Inductive
<1>3. IInv /\ DumpInv /\ [CallsNext]_vars => DumpInv'
  BY DumpInductive
<1> QED
  BY <1>1, <1>2, <1>3, Initially, DumpInitially, PTL DEF CallsSpec

=============================================================================
