---------------------------- MODULE DumperProofs ----------------------------
(* Proofs about Dumper, for any number of assemblies: what dump.cs holds    *)
(* when the run ends in whatever way, and what is logged about it.          *)
EXTENDS Dumper, FiniteSetTheorems, TLAPS

-----------------------------------------------------------------------------
(* The inductive invariant.                                                *)

\* The handlers are installed one after the other, before all the rest.
SigsInv ==
  /\ pc \in {"unloaded", "sleep"} => sigs = {}
  /\ pc = "signals" => sigs \in {{}, {"SIGSEGV"}, {"SIGSEGV", "SIGABRT"}}

\* Where the loop over the assemblies stands.
LoopInv ==
  /\ pc \notin {"export", "close", "done"} => next = 1
  /\ pc = "export" => next <= N
  /\ pc = "close" => next = N + 1

\* The blocks up to b have all been dealt with, and none behind b.
Gapless(b) == buffer \subseteq 1..b /\ 1..b \subseteq buffer \cup skipped

\* The stream takes the blocks in order until it fails, and the file has
\* them up to some point.
StreamInv ==
  /\ buffer \subseteq 1..(next - 1)
  /\ ~bad => Gapless(next - 1)
  /\ \E b \in 0..N : Gapless(b)
  /\ \E k \in 0..(next - 1) : disk = buffer \cap 1..k

Early == {"init failed", "no module", "unresolved", "no domain", "open failed"}

\* What is logged goes with where the run stands.
SaidInv ==
  /\ pc # "done" => said \cap Verdicts = {}
  /\ \E v \in Verdicts : said \cap Verdicts \subseteq {v}
  /\ pc = "done" /\ sigs # {} => said \cap Verdicts # {}
  /\ pc \notin {"assemblies", "export", "close", "done"} => ~opened
  /\ pc \in {"assemblies", "export", "close"} => opened
  /\ said \cap Early # {} => pc = "done" /\ ~opened
  /\ "exported" \in said =>
       pc = "done" /\ next = N + 1 /\ (~bad => disk = buffer)

Inv == SigsInv /\ LoopInv /\ StreamInv /\ SaidInv

-----------------------------------------------------------------------------
LEMMA FatalSignals == {Fatal[k] : k \in 1..3} = {"SIGSEGV", "SIGABRT", "SIGILL"}
  BY DEF Fatal

LEMMA NextSignal ==
  ASSUME TypeOK, SigsInv, InstallHandler
  PROVE  /\ pc = "signals"
         /\ \/ sigs' = {"SIGSEGV"} /\ pc' = "signals"
            \/ sigs' = {"SIGSEGV", "SIGABRT"} /\ pc' = "signals"
            \/ sigs' = {"SIGSEGV", "SIGABRT", "SIGILL"} /\ pc' = "mgr"
<1>1. pc = "signals" /\ sigs \in {{}, {"SIGSEGV"}, {"SIGSEGV", "SIGABRT"}}
  BY DEF InstallHandler, At, SigsInv
<1>2. CASE sigs = {}
  <2>1. Cardinality(sigs) + 1 = 1
    BY <1>2, FS_EmptySet
  <2> QED BY <1>1, <1>2, <2>1 DEF InstallHandler, Goto, Fatal
<1>3. CASE sigs = {"SIGSEGV"}
  <2>1. Cardinality(sigs) + 1 = 2
    BY <1>3, FS_Singleton
  <2> QED BY <1>1, <1>3, <2>1 DEF InstallHandler, Goto, Fatal
<1>4. CASE sigs = {"SIGSEGV", "SIGABRT"}
  <2>1. IsFiniteSet({"SIGSEGV"}) /\ Cardinality({"SIGSEGV"}) = 1
    BY FS_Singleton
  <2>2. Cardinality({"SIGSEGV"} \cup {"SIGABRT"}) = 2
    BY <2>1, FS_AddElement
  <2>3. sigs = {"SIGSEGV"} \cup {"SIGABRT"}
    BY <1>4
  <2>4. Cardinality(sigs) + 1 = 3
    BY <2>2, <2>3
  <2> QED BY <1>1, <1>4, <2>4 DEF InstallHandler, Goto, Fatal
<1> QED BY <1>1, <1>2, <1>3, <1>4

\* Handing over blocks leaves the file with those up to some point.
LEMMA FlushKeepsOrder ==
  ASSUME NAssumption, NEW n \in Nat, NEW B, NEW D, NEW C, NEW F,
         B \subseteq 1..n, B \subseteq C, C \cap 1..n = B,
         NEW k \in 0..n, D = B \cap 1..k,
         NEW q \in 0..N, F = D \cup (C \cap 1..q),
         NEW n2 \in Nat, n <= n2, C \subseteq 1..n2
  PROVE  \E h \in 0..n2 : F = C \cap 1..h
<1>1. CASE q <= k
  <2>1. F = C \cap 1..k
    BY <1>1
  <2> QED BY <2>1
<1>2. CASE q > k /\ q <= n2
  <2>1. F = C \cap 1..q
    BY <1>2
  <2> QED BY <1>2, <2>1
<1>3. CASE q > k /\ q > n2
  <2>1. F = C \cap 1..n2
    BY <1>3
  <2> QED BY <2>1
<1> QED BY <1>1, <1>2, <1>3

-----------------------------------------------------------------------------
LEMMA InitInv == Init => TypeOK /\ Inv
<1> SUFFICES ASSUME Init PROVE TypeOK /\ Inv
  OBVIOUS
<1>1. TypeOK
  <2>1. 1 \in 1..(N + 1)
    BY NAssumption
  <2>2. {} \subseteq {Fatal[k] : k \in 1..3} /\ {} \subseteq Assemblies /\ {} \subseteq Messages
    OBVIOUS
  <2>3. /\ pc \in Points
        /\ proc \in {"running", "dumper fault", "game fault", "game exit"}
        /\ lib \in {"absent", "mapped", "ready"}
        /\ resolved \in BOOLEAN /\ bad \in BOOLEAN /\ opened \in BOOLEAN
    BY DEF Init, Points
  <2> QED BY <2>1, <2>2, <2>3 DEF Init, TypeOK
<1>2. SigsInv /\ LoopInv
  BY DEF Init, SigsInv, LoopInv
<1>3. StreamInv
  <2>1. next - 1 = 0 /\ buffer = {} /\ disk = {}
    BY DEF Init
  <2>2. Gapless(0)
    BY <2>1 DEF Gapless
  <2> QED BY NAssumption, <2>1, <2>2 DEF StreamInv
<1>4. SaidInv
  BY DEF Init, SaidInv, Verdicts, Early
<1> QED BY <1>1, <1>2, <1>3, <1>4 DEF Inv

LEMMA LoopNext == TypeOK /\ Inv /\ ExportAssembly => next \in 1..N
<1> SUFFICES ASSUME TypeOK, Inv, ExportAssembly PROVE next \in 1..N
  OBVIOUS
<1>1. pc = "export"
  BY DEF ExportAssembly, At
<1>2. next <= N
  BY <1>1 DEF Inv, LoopInv
<1>3. next \in 1..(N + 1)
  BY DEF TypeOK
<1> QED BY NAssumption, <1>2, <1>3

LEMMA TypeStep ==
  ASSUME TypeOK, Inv, [Next]_vars
  PROVE  TypeOK'
<1> USE NAssumption DEF TypeOK, Points, InExportCS, Messages, Verdicts, Assemblies
<1>1. CASE JNI_OnLoad
  BY <1>1 DEF JNI_OnLoad, Goto, Quiet, outVars
<1>2. CASE JNI_OnLoadNoThread
  BY <1>2 DEF JNI_OnLoadNoThread, Goto, Quiet, outVars
<1>3. CASE Wake
  BY <1>3 DEF Wake, Goto, Quiet, outVars
<1>4. CASE InstallHandler
  <2>1. sigs' \subseteq {Fatal[k] : k \in 1..3} /\ pc' \in {"signals", "mgr"}
    BY <1>4, NextSignal, FatalSignals DEF Inv
  <2> QED BY <1>4, <2>1 DEF InstallHandler, Quiet, outVars
<1>5. CASE InitKittyMgr
  BY <1>5 DEF InitKittyMgr, Leave, Say, Goto, Quiet, outVars
<1>6. CASE GetModuleBase
  BY <1>6 DEF GetModuleBase, Leave, Say, Goto, Quiet, outVars
<1>7. CASE ResolveFunctions
  BY <1>7 DEF ResolveFunctions, Leave, Say, Goto, Quiet, outVars
<1>8. CASE DomainGet
  BY <1>8 DEF DomainGet, Leave, Say, Goto, Quiet, outVars
<1>9. CASE OpenOutput
  BY <1>9 DEF OpenOutput, ReturnFromExport, Goto, Quiet
<1>10. CASE QueryAssemblies
  BY <1>10 DEF QueryAssemblies, ReturnFromExport, Goto, Quiet, outVars
<1>11. CASE ExportAssembly
  <2>1. next \in 1..N
    BY <1>11, LoopNext
  <2>2. /\ next' = next + 1 /\ pc' \in {"export", "close"}
        /\ UNCHANGED <<said, sigs, proc, lib, resolved, opened>>
    BY <1>11 DEF ExportAssembly, AfterIteration, Goto, Quiet
  <2>3. /\ skipped' \subseteq 1..N /\ buffer' \subseteq 1..N
        /\ bad' \in BOOLEAN /\ disk' \subseteq 1..N
    BY <1>11, <2>1 DEF ExportAssembly, SkipAssembly, DropBlock, AcceptBlock, FailInBlock, Flushes
  <2>4. next + 1 \in 1..(N + 1)
    BY ONLY <2>1, NAssumption
  <2> QED BY <2>2, <2>3, <2>4
<1>12. CASE CloseOutput
  <2>1. bad' \in BOOLEAN /\ disk' \subseteq 1..N
    BY <1>12 DEF CloseOutput, Flushes
  <2> QED BY <1>12, <2>1 DEF CloseOutput, ReturnFromExport, Goto
<1>13. CASE Throw
  <2>1. disk' \subseteq 1..N
    BY <1>13 DEF Throw, Flushes
  <2> QED BY <1>13, <2>1 DEF Throw, Leave, Say, Goto
<1>14. CASE DumperFault
  BY <1>14 DEF DumperFault, Die, outVars
<1>15. CASE GameStep
  BY <1>15 DEF GameStep, GameMapsLibrary, GameInitialisesRuntime, GameFault, GameExit, Die, Quiet, outVars
<1>16. CASE UNCHANGED vars
  BY <1>16 DEF vars, outVars
<1> QED BY <1>1, <1>2, <1>3, <1>4, <1>5, <1>6, <1>7, <1>8, <1>9, <1>10, <1>11,
           <1>12, <1>13, <1>14, <1>15, <1>16 DEF Next, DumperStep

-----------------------------------------------------------------------------
LEMMA SigsStep ==
  ASSUME TypeOK, Inv, [Next]_vars
  PROVE  SigsInv'
<1> USE DEF SigsInv, Inv
<1>1. CASE JNI_OnLoad \/ JNI_OnLoadNoThread \/ Wake
  BY <1>1 DEF JNI_OnLoad, JNI_OnLoadNoThread, Wake, Goto, At
<1>2. CASE InstallHandler
  BY <1>2, NextSignal
<1>3. CASE InitKittyMgr \/ GetModuleBase \/ ResolveFunctions \/ DomainGet
  BY <1>3 DEF InitKittyMgr, GetModuleBase, ResolveFunctions, DomainGet, Leave, Goto
<1>4. CASE OpenOutput \/ QueryAssemblies \/ CloseOutput \/ Throw
  BY <1>4 DEF OpenOutput, QueryAssemblies, CloseOutput, Throw, ReturnFromExport, Leave, Goto
<1>5. CASE ExportAssembly
  BY <1>5 DEF ExportAssembly, AfterIteration, Goto
<1>6. CASE DumperFault \/ GameStep \/ UNCHANGED vars
  BY <1>6 DEF DumperFault, GameStep, GameMapsLibrary, GameInitialisesRuntime, GameFault, GameExit, Die, vars
<1> QED BY <1>1, <1>2, <1>3, <1>4, <1>5, <1>6 DEF Next, DumperStep

LEMMA LoopStep ==
  ASSUME TypeOK, Inv, [Next]_vars
  PROVE  LoopInv'
<1> USE DEF LoopInv, Inv
<1>1. CASE JNI_OnLoad \/ JNI_OnLoadNoThread \/ Wake
  BY <1>1 DEF JNI_OnLoad, JNI_OnLoadNoThread, Wake, Goto, At, outVars
<1>2. CASE InstallHandler
  <2>1. pc = "signals" /\ pc' \in {"signals", "mgr"} /\ next' = next
    BY <1>2, NextSignal DEF InstallHandler, outVars
  <2> QED BY <2>1
<1>3. CASE InitKittyMgr \/ GetModuleBase \/ ResolveFunctions \/ DomainGet
  BY <1>3 DEF InitKittyMgr, GetModuleBase, ResolveFunctions, DomainGet, Leave, Goto, At, outVars
<1>4. CASE OpenOutput \/ CloseOutput \/ Throw
  BY <1>4 DEF OpenOutput, CloseOutput, Throw, ReturnFromExport, Leave, Goto, At
<1>5. CASE QueryAssemblies
  <2>1. pc = "assemblies" /\ next' = next /\ next = 1
    BY <1>5 DEF At, QueryAssemblies, outVars
  <2>2. pc' = "done" \/ (pc' = "export" /\ N > 0)
    BY <1>5 DEF QueryAssemblies, ReturnFromExport, Goto
  <2> QED BY <2>1, <2>2, NAssumption
<1>6. CASE ExportAssembly
  <2>1. next \in 1..N /\ next' = next + 1
    BY <1>6, LoopNext DEF ExportAssembly
  <2>2. pc' = IF next < N THEN "export" ELSE "close"
    BY <1>6 DEF ExportAssembly, AfterIteration, Goto
  <2> QED BY <2>1, <2>2, NAssumption
<1>7. CASE DumperFault \/ GameStep \/ UNCHANGED vars
  BY <1>7 DEF DumperFault, GameStep, GameMapsLibrary, GameInitialisesRuntime, GameFault, GameExit, Die, vars, outVars
<1> QED BY <1>1, <1>2, <1>3, <1>4, <1>5, <1>6, <1>7 DEF Next, DumperStep

-----------------------------------------------------------------------------
\* The stream and the file, when nothing but the file changes.
LEMMA OnlyFlushed ==
  ASSUME NAssumption, TypeOK, StreamInv, UNCHANGED <<next, buffer, skipped>>,
         bad => bad', disk' \in Flushes(buffer) \cup {disk}
  PROVE  StreamInv'
<1> DEFINE n == next - 1
<1>1. n \in Nat /\ n <= N
  <2>1. next \in 1..(N + 1)
    BY DEF TypeOK
  <2> QED BY <2>1, NAssumption
<1>2. PICK k \in 0..n : disk = buffer \cap 1..k
  BY DEF StreamInv
<1>3. \E h \in 0..n : disk' = buffer \cap 1..h
  <2>1. CASE disk' = disk
    BY <1>2, <2>1
  <2>2. CASE disk' \in Flushes(buffer)
    <3>1. PICK q \in 0..N : disk' = disk \cup (buffer \cap 1..q)
      BY <2>2 DEF Flushes
    <3>2. buffer \subseteq 1..n
      BY DEF StreamInv
    <3>3. buffer \cap 1..n = buffer
      BY <3>2
    <3> HIDE DEF n
    <3> QED BY <1>1, <1>2, <3>1, <3>2, <3>3, FlushKeepsOrder
  <2> QED BY <2>1, <2>2
<1> QED BY <1>1, <1>3 DEF StreamInv, Gapless

LEMMA StreamExport ==
  ASSUME TypeOK, Inv, ExportAssembly
  PROVE  StreamInv'
<1> DEFINE n == next - 1
<1>1. next \in 1..N /\ next' = next + 1
  BY LoopNext DEF ExportAssembly
<1>2. n \in Nat /\ n <= N /\ next \in Nat /\ next' - 1 = next /\ n <= next /\ 1..next = 1..n \cup {next}
  BY <1>1, NAssumption
<1>3. /\ buffer \subseteq 1..n
      /\ ~bad => Gapless(n)
      /\ \E b \in 0..N : Gapless(b)
  BY DEF Inv, StreamInv
<1>4. PICK k \in 0..n : disk = buffer \cap 1..k
  BY DEF Inv, StreamInv
<1> HIDE DEF n
<1>5. k \in 0..next
  BY <1>2, <1>4
<1>6. StreamInv' <=>
        /\ buffer' \subseteq 1..next
        /\ ~bad' => buffer' \subseteq 1..next /\ 1..next \subseteq buffer' \cup skipped'
        /\ \E b \in 0..N : buffer' \subseteq 1..b /\ 1..b \subseteq buffer' \cup skipped'
        /\ \E h \in 0..next : disk' = buffer' \cap 1..h
  BY <1>2 DEF StreamInv, Gapless
<1>7. CASE SkipAssembly
  <2>1. skipped' = skipped \cup {next} /\ bad' = bad /\ buffer' = buffer /\ disk' = disk
    BY <1>7 DEF SkipAssembly
  <2>2. buffer' \subseteq 1..next
    BY <1>2, <1>3, <2>1
  <2>3. ~bad' => 1..next \subseteq buffer' \cup skipped'
    BY <1>2, <1>3, <2>1 DEF Gapless
  <2>4. \E b \in 0..N : buffer' \subseteq 1..b /\ 1..b \subseteq buffer' \cup skipped'
    BY <1>3, <2>1 DEF Gapless
  <2>5. disk' = buffer' \cap 1..k
    BY <1>4, <2>1
  <2> QED BY <1>5, <1>6, <2>2, <2>3, <2>4, <2>5
<1>8. CASE DropBlock
  <2>1. bad /\ bad' = bad /\ skipped' = skipped /\ buffer' = buffer /\ disk' = disk
    BY <1>8 DEF DropBlock
  <2>2. buffer' \subseteq 1..next
    BY <1>2, <1>3, <2>1
  <2>3. \E b \in 0..N : buffer' \subseteq 1..b /\ 1..b \subseteq buffer' \cup skipped'
    BY <1>3, <2>1 DEF Gapless
  <2>4. disk' = buffer' \cap 1..k
    BY <1>4, <2>1
  <2> QED BY <1>5, <1>6, <2>1, <2>2, <2>3, <2>4
<1>9. CASE AcceptBlock
  <2>1. /\ ~bad /\ bad' = bad /\ skipped' = skipped
        /\ buffer' = buffer \cup {next} /\ disk' \in Flushes(buffer')
    BY <1>9 DEF AcceptBlock
  <2>2. PICK q \in 0..N : disk' = disk \cup (buffer' \cap 1..q)
    BY <2>1 DEF Flushes
  <2>3. buffer' \subseteq 1..next /\ 1..next \subseteq buffer' \cup skipped'
    BY <1>2, <1>3, <2>1 DEF Gapless
  <2>4. next \notin 1..n
    BY <1>2 DEF n
  <2>5. buffer \subseteq buffer' /\ buffer' \cap 1..n = buffer
    BY <1>3, <2>1, <2>4
  <2>6. \E h \in 0..next : disk' = buffer' \cap 1..h
    BY <1>2, <1>3, <1>4, <2>2, <2>3, <2>5, FlushKeepsOrder, NAssumption
  <2>7. next \in 0..N
    BY <1>1
  <2> QED BY <1>6, <2>3, <2>6, <2>7
<1>10. CASE FailInBlock
  <2>1. /\ bad' = TRUE /\ skipped' = skipped /\ buffer' = buffer
        /\ disk' \in Flushes(buffer)
    BY <1>10 DEF FailInBlock
  <2>2. PICK q \in 0..N : disk' = disk \cup (buffer \cap 1..q)
    BY <2>1 DEF Flushes
  <2>3. buffer' \subseteq 1..next /\ buffer \subseteq 1..next
    BY <1>2, <1>3, <2>1
  <2>4. \E b \in 0..N : buffer' \subseteq 1..b /\ 1..b \subseteq buffer' \cup skipped'
    BY <1>3, <2>1 DEF Gapless
  <2>5. buffer \cap 1..n = buffer
    BY <1>3
  <2>6. \E h \in 0..next : disk' = buffer \cap 1..h
    BY <1>2, <1>3, <1>4, <2>2, <2>3, <2>5, FlushKeepsOrder, NAssumption
  <2> QED BY <1>6, <2>1, <2>3, <2>4, <2>6
<1> QED BY <1>7, <1>8, <1>9, <1>10 DEF ExportAssembly

LEMMA StreamStep ==
  ASSUME TypeOK, Inv, [Next]_vars
  PROVE  StreamInv'
<1> USE DEF outVars
<1>0. StreamInv
  BY DEF Inv
<1>1. CASE UNCHANGED <<next, bad, buffer, disk, skipped>>
  BY <1>0, <1>1 DEF StreamInv, Gapless
<1>2. CASE JNI_OnLoad \/ JNI_OnLoadNoThread \/ Wake \/ InstallHandler \/ InitKittyMgr
  BY <1>1, <1>2 DEF JNI_OnLoad, JNI_OnLoadNoThread, Wake, InstallHandler, InitKittyMgr
<1>3. CASE GetModuleBase \/ ResolveFunctions \/ DomainGet \/ OpenOutput \/ QueryAssemblies
  BY <1>1, <1>3 DEF GetModuleBase, ResolveFunctions, DomainGet, OpenOutput, QueryAssemblies
<1>4. CASE ExportAssembly
  BY <1>4, StreamExport
<1>5. CASE CloseOutput
  <2>1. /\ UNCHANGED <<next, buffer, skipped>>
        /\ \/ ~bad /\ disk' = buffer /\ bad' = bad
           \/ bad' = TRUE /\ disk' \in Flushes(buffer) \cup {disk}
    BY <1>5 DEF CloseOutput
  <2>2. CASE ~bad /\ disk' = buffer /\ bad' = bad
    <3>1. next - 1 \in 0..(next - 1) /\ buffer \subseteq 1..(next - 1)
      <4>1. next \in 1..(N + 1)
        BY DEF TypeOK
      <4> QED BY <1>0, <4>1, NAssumption DEF StreamInv
    <3>2. buffer \cap 1..(next - 1) = buffer
      BY <3>1
    <3>3. \E h \in 0..(next - 1) : disk' = buffer \cap 1..h
      BY <2>2, <3>1, <3>2
    <3> QED BY <1>0, <2>1, <2>2, <3>3 DEF StreamInv, Gapless
  <2>3. CASE bad' = TRUE /\ disk' \in Flushes(buffer) \cup {disk}
    BY <1>0, <2>1, <2>3, OnlyFlushed, NAssumption
  <2> QED BY <2>1, <2>2, <2>3
<1>6. CASE Throw
  <2>1. UNCHANGED <<next, bad, buffer, skipped>> /\ disk' \in Flushes(buffer) \cup {disk}
    BY <1>6 DEF Throw
  <2> QED BY <1>0, <2>1, OnlyFlushed, NAssumption
<1>7. CASE DumperFault \/ GameStep \/ UNCHANGED vars
  BY <1>1, <1>7 DEF DumperFault, GameStep, GameMapsLibrary, GameInitialisesRuntime, GameFault, GameExit, Die, vars
<1> QED BY <1>2, <1>3, <1>4, <1>5, <1>6, <1>7 DEF Next, DumperStep

-----------------------------------------------------------------------------
(* What is logged.                                                         *)

LEMMA SaidStep ==
  ASSUME TypeOK, Inv, [Next]_vars
  PROVE  SaidInv'
<1> USE DEF Verdicts, Early
<1>0. SaidInv
  BY DEF Inv
<1>1. CASE JNI_OnLoad \/ Wake
  <2>1. /\ pc \in {"unloaded", "sleep"} /\ pc' \in {"sleep", "signals"}
        /\ UNCHANGED <<said, sigs, outVars>>
    BY <1>1 DEF JNI_OnLoad, Wake, Goto, At, Quiet
  <2> QED BY <1>0, <2>1 DEF SaidInv, outVars
<1>2. CASE JNI_OnLoadNoThread
  <2>1. sigs = {} /\ sigs' = {}
    BY <1>2 DEF JNI_OnLoadNoThread, At, Inv, SigsInv
  <2> QED BY <1>0, <1>2, <2>1 DEF SaidInv, JNI_OnLoadNoThread, Goto, At, Quiet, outVars
<1>3. CASE InstallHandler
  <2>1. /\ pc = "signals" /\ pc' \in {"signals", "mgr"}
        /\ UNCHANGED <<said, opened, next, bad, disk, buffer>>
    BY <1>3, NextSignal DEF InstallHandler, Quiet, outVars, Inv
  <2> QED BY <1>0, <2>1 DEF SaidInv
<1>4. CASE InitKittyMgr
  BY <1>0, <1>4 DEF SaidInv, InitKittyMgr, Leave, Say, Goto, At, Quiet, outVars
<1>5. CASE GetModuleBase
  <2>1. /\ pc = "base" /\ UNCHANGED <<sigs, outVars>>
        /\ \/ pc' = "resolve" /\ said' = said
           \/ pc' = "done" /\ said' = said \cup {"no module"}
    BY <1>5 DEF GetModuleBase, Leave, Say, Goto, At, Quiet
  <2> QED BY <1>0, <2>1 DEF SaidInv, outVars
<1>6. CASE ResolveFunctions
  BY <1>0, <1>6 DEF SaidInv, ResolveFunctions, Leave, Say, Goto, At, Quiet, outVars
<1>7. CASE DomainGet
  <2>1. /\ pc = "domain" /\ UNCHANGED <<sigs, outVars>>
        /\ \/ pc' = "open" /\ said' = said
           \/ pc' = "done" /\ said' = said \cup {"no domain"}
    BY <1>7 DEF DomainGet, Leave, Say, Goto, At, Quiet
  <2> QED BY <1>0, <2>1 DEF SaidInv, outVars
<1>8. CASE OpenOutput
  <2>1. /\ pc = "open" /\ sigs' = sigs /\ next' = next
        /\ \/ pc' = "assemblies" /\ said' = said /\ opened'
           \/ /\ pc' = "done" /\ opened' = opened
              /\ said' = said \cup {"open failed", "success"}
    BY <1>8 DEF OpenOutput, ReturnFromExport, Goto, At, Quiet
  <2>2. ~opened /\ "exported" \notin said
    BY <1>0, <2>1 DEF SaidInv
  <2>3. CASE pc' = "assemblies" /\ said' = said /\ opened'
    BY <1>0, <2>1, <2>2, <2>3 DEF SaidInv
  <2>4. CASE pc' = "done" /\ opened' = opened /\ said' = said \cup {"open failed", "success"}
    BY <1>0, <2>1, <2>2, <2>4 DEF SaidInv
  <2> QED BY <2>1, <2>3, <2>4
<1>9. CASE QueryAssemblies
  BY <1>0, <1>9 DEF SaidInv, QueryAssemblies, ReturnFromExport, Goto, At, Quiet, outVars
<1>10. CASE ExportAssembly
  <2>1. /\ pc = "export" /\ pc' \in {"export", "close"}
        /\ said' = said /\ opened' = opened
    BY <1>10 DEF ExportAssembly, At, Goto, AfterIteration, Quiet
  <2> QED BY <1>0, <2>1 DEF SaidInv
<1>11. CASE CloseOutput
  <2>1. /\ pc = "close" /\ pc' = "done" /\ next' = next /\ next = N + 1
        /\ buffer' = buffer /\ (~bad' => disk' = buffer)
        /\ said' = said \cup {"exported", "success"} /\ opened' = opened
    BY <1>11 DEF CloseOutput, ReturnFromExport, At, Goto, Inv, LoopInv
  <2> QED BY <1>0, <2>1 DEF SaidInv
<1>12. CASE Throw
  <2>1. pc # "done" /\ pc' = "done" /\ said' = said \cup {"crashed"} /\ opened' = opened
    BY <1>12 DEF Throw, Leave, Say, Goto, InExportCS
  <2> QED BY <1>0, <2>1 DEF SaidInv
<1>13. CASE DumperFault \/ GameStep \/ UNCHANGED vars
  <2>1. /\ UNCHANGED <<pc, sigs, outVars>>
        /\ said' = said \/ said' = said \cup {"caught fatal signal"}
    BY <1>13 DEF DumperFault, GameStep, GameMapsLibrary, GameInitialisesRuntime, GameFault, GameExit, Die, Quiet, vars
  <2> QED BY <1>0, <2>1 DEF SaidInv, outVars
<1> QED BY <1>1, <1>2, <1>3, <1>4, <1>5, <1>6, <1>7, <1>8, <1>9, <1>10, <1>11,
           <1>12, <1>13 DEF Next, DumperStep

LEMMA GrowthStep ==
  ASSUME TypeOK, Inv, [Next]_vars
  PROVE  /\ disk \subseteq disk'
         /\ disk' # disk => opened /\ pc \in {"export", "close", "assemblies"}
<1> USE DEF outVars
<1>1. CASE UNCHANGED disk
  BY <1>1
<1>2. CASE JNI_OnLoad \/ JNI_OnLoadNoThread \/ Wake \/ InstallHandler \/ InitKittyMgr
  BY <1>1, <1>2 DEF JNI_OnLoad, JNI_OnLoadNoThread, Wake, InstallHandler, InitKittyMgr
<1>3. CASE GetModuleBase \/ ResolveFunctions \/ DomainGet \/ OpenOutput \/ QueryAssemblies
  BY <1>1, <1>3 DEF GetModuleBase, ResolveFunctions, DomainGet, OpenOutput, QueryAssemblies
<1>4. CASE ExportAssembly
  <2>1. pc = "export" /\ opened
    BY <1>4 DEF ExportAssembly, At, Inv, SaidInv
  <2>2. disk \subseteq disk'
    BY <1>4 DEF ExportAssembly, SkipAssembly, DropBlock, AcceptBlock, FailInBlock, Flushes
  <2> QED BY <2>1, <2>2
<1>5. CASE CloseOutput
  <2>1. pc = "close" /\ opened
    BY <1>5 DEF CloseOutput, At, Inv, SaidInv
  <2>2. disk \subseteq buffer
    BY DEF Inv, StreamInv
  <2>3. disk \subseteq disk'
    BY <1>5, <2>2 DEF CloseOutput, Flushes
  <2> QED BY <2>1, <2>3
<1>6. CASE Throw
  <2>1. pc \in InExportCS /\ disk \subseteq disk'
    BY <1>6 DEF Throw, Flushes
  <2>2. CASE pc = "open"
    <3>1. buffer \subseteq 1..(1 - 1)
      BY <2>2 DEF Inv, LoopInv, StreamInv
    <3>2. buffer = {}
      BY <3>1
    <3>3. disk' = disk
      BY <1>6, <3>2 DEF Throw, Flushes
    <3> QED BY <3>3
  <2>3. CASE pc # "open"
    BY <2>1, <2>3 DEF InExportCS, Inv, SaidInv
  <2> QED BY <2>2, <2>3
<1>7. CASE DumperFault \/ GameStep \/ UNCHANGED vars
  BY <1>1, <1>7 DEF DumperFault, GameStep, GameMapsLibrary, GameInitialisesRuntime, GameFault, GameExit, Die, vars
<1> QED BY <1>2, <1>3, <1>4, <1>5, <1>6, <1>7 DEF Next, DumperStep

-----------------------------------------------------------------------------
(* The theorems.                                                           *)

LEMMA Invariance == Spec => [](TypeOK /\ Inv)
<1>1. TypeOK /\ Inv /\ [Next]_vars => (TypeOK /\ Inv)'
  BY TypeStep, SigsStep, LoopStep, StreamStep, SaidStep DEF Inv
<1> QED BY InitInv, <1>1, PTL DEF Spec

\* Every variable of a run has its type: in particular the loop over the
\* assemblies never goes past the last one.
THEOREM TypeCorrect == Spec => []TypeOK
  BY Invariance, PTL

\* Whatever ends the run, and whenever, dump.cs holds a prefix of the dump
\* (the stream's buffer and its failures in Generator::ExportCS).
THEOREM AlwaysAPrefix == Spec => []DumpIsPrefix
<1>1. TypeOK /\ Inv => DumpIsPrefix
  <2> SUFFICES ASSUME TypeOK, Inv PROVE DumpIsPrefix
    OBVIOUS
  <2>1. PICK b \in 0..N : buffer \subseteq 1..b /\ 1..b \subseteq buffer \cup skipped
    BY DEF Inv, StreamInv, Gapless
  <2>2. next \in 1..(N + 1)
    BY DEF TypeOK
  <2>3. PICK k \in 0..(next - 1) : disk = buffer \cap 1..k
    BY DEF Inv, StreamInv
  <2>4. k \in 0..N
    BY <2>2, <2>3, NAssumption
  <2>5. CASE k <= b
    <3>1. disk \subseteq 1..k /\ 1..k \subseteq 1..b
      BY <2>1, <2>3, <2>4, <2>5
    <3>2. 1..k \subseteq disk \cup skipped
      BY <2>1, <2>3, <3>1
    <3> QED BY <2>4, <3>1, <3>2 DEF DumpIsPrefix
  <2>6. CASE b < k
    <3>1. 1..b \subseteq 1..k
      BY <2>1, <2>4, <2>6
    <3>2. disk = buffer
      BY <2>1, <2>3, <3>1
    <3> QED BY <2>1, <3>2 DEF DumpIsPrefix
  <2> QED BY <2>1, <2>4, <2>5, <2>6
<1> QED BY Invariance, <1>1, PTL

\* A run that gives up before the export has not truncated the dump of an
\* earlier run (Dumper::Run checks everything before ExportCS opens the file).
THEOREM OldDumpSurvivesAborts == Spec => []EarlyAbortKeepsPreviousDump
<1>1. Inv => EarlyAbortKeepsPreviousDump
  BY DEF Inv, SaidInv, Early, EarlyAbortKeepsPreviousDump
<1> QED BY Invariance, <1>1, PTL

\* When ExportCS logs that it has exported the layout, it has visited every
\* assembly, and unless the stream failed dump.cs holds all of them.
THEOREM ExportIsComplete == Spec => []ExportedIsComplete
<1>1. TypeOK /\ Inv => ExportedIsComplete
  <2> SUFFICES ASSUME TypeOK, Inv, "exported" \in said
               PROVE  next = N + 1 /\ (~bad => disk \cup skipped = Assemblies)
    BY DEF ExportedIsComplete
  <2>1. next = N + 1 /\ (~bad => disk = buffer)
    BY DEF Inv, SaidInv
  <2>2. next - 1 = N
    BY <2>1, NAssumption
  <2>3. ~bad => buffer \subseteq 1..N /\ 1..N \subseteq buffer \cup skipped
    BY <2>2 DEF Inv, StreamInv, Gapless
  <2> QED BY <2>1, <2>3 DEF TypeOK, Assemblies
<1> QED BY Invariance, <1>1, PTL

\* One way out, one verdict: a run never logs two verdicts on itself, and
\* its thread never ends without one once the handlers are being installed.
THEOREM VerdictIsUnique == Spec => []OneVerdict
<1>1. Inv => OneVerdict
  <2> SUFFICES ASSUME Inv PROVE OneVerdict
    OBVIOUS
  <2>1. PICK v \in Verdicts : said \cap Verdicts \subseteq {v}
    BY DEF Inv, SaidInv
  <2>2. IsFiniteSet({v}) /\ Cardinality({v}) = 1
    BY FS_Singleton
  <2>3. Cardinality(said \cap Verdicts) <= 1
    BY <2>1, <2>2, FS_Subset
  <2>4. pc = "done" /\ sigs # {} => said \cap Verdicts # {}
    BY DEF Inv, SaidInv
  <2> QED BY <2>3, <2>4 DEF OneVerdict
<1> QED BY Invariance, <1>1, PTL

\* What a run has written to dump.cs it never takes back, and it writes only
\* while ExportCS has the file open.
THEOREM NothingTakenBack == Spec => DumpOnlyGrows
<1>1. TypeOK /\ Inv /\ [Next]_vars =>
        [/\ disk \subseteq disk'
         /\ disk' # disk => opened /\ pc \in {"export", "close", "assemblies"}]_vars
  BY GrowthStep
<1> QED BY Invariance, <1>1, PTL DEF Spec, DumpOnlyGrows
=============================================================================
