------------------------------- MODULE Dumper -------------------------------
(***************************************************************************)
(* The dumper library inside the game process: JNI_OnLoad, the detached    *)
(* MainThread it spawns, Dumper::Initialize, Dumper::Run and the outline   *)
(* of Generator::ExportCS (one step per assembly).  It runs beside the     *)
(* game's own threads, which map and initialise libil2cpp.so in their own  *)
(* time, take signals of their own, and may end the process at any point.  *)
(*                                                                         *)
(* src/app/android_main.cpp, src/core/engine.cpp,                          *)
(* src/generator/cs_generator.cpp (ExportCS).  What ResolveFunctions does  *)
(* pattern by pattern is module ApiResolver, what one assembly's block     *)
(* holds is module CsGenerator.                                            *)
(***************************************************************************)
EXTENDS Naturals, Sequences, FiniteSets

CONSTANT N   \* assemblies loaded in the IL2CPP domain

ASSUME NAssumption == N \in Nat

VARIABLES
  pc,        \* control point of the dumper thread
  sigs,      \* signal numbers whose disposition is GlobalSignalHandler
  proc,      \* "running", or what ended the process
  lib,       \* the game's libil2cpp.so: absent, mapped or initialised
  resolved,  \* no il2cpp_* function pointer is null
  next,      \* index of the assembly ExportCS handles next
  bad,       \* the ofstream has failed; it drops everything from then on
  buffer,    \* assembly blocks the ofstream has accepted
  opened,    \* this run has truncated dump.cs: an earlier dump is gone
  disk,      \* assembly blocks of this run that dump.cs holds
  skipped,   \* assemblies passed over because they have no image
  said       \* messages logged so far

outVars == <<next, bad, buffer, opened, disk, skipped>>
vars == <<pc, sigs, proc, lib, resolved, outVars, said>>

Fatal == <<"SIGSEGV", "SIGABRT", "SIGILL">>
Assemblies == 1..N

\* The messages that close a run, one per way out of MainThread and Run.
Verdicts == {"init failed", "no module", "unresolved", "no domain",
             "crashed", "success"}
Messages == Verdicts \cup {"open failed", "no assemblies", "exported",
                          "caught fatal signal"}

InExportCS == {"open", "assemblies", "export", "close"}
Points == {"unloaded", "sleep", "signals", "mgr", "base", "resolve",
           "domain", "done"} \cup InExportCS

TypeOK ==
  /\ pc \in Points
  /\ sigs \subseteq {Fatal[k] : k \in 1..3}
  /\ proc \in {"running", "dumper fault", "game fault", "game exit"}
  /\ lib \in {"absent", "mapped", "ready"}
  /\ resolved \in BOOLEAN
  /\ next \in 1..(N + 1)
  /\ bad \in BOOLEAN
  /\ buffer \subseteq Assemblies
  /\ opened \in BOOLEAN
  /\ disk \subseteq Assemblies
  /\ skipped \subseteq Assemblies
  /\ said \subseteq Messages

Init ==
  /\ pc = "unloaded" /\ sigs = {} /\ proc = "running"
  /\ lib = "absent"
  /\ resolved = FALSE
  /\ next = 1 /\ bad = FALSE /\ buffer = {} /\ skipped = {}
  /\ opened = FALSE /\ disk = {}
  /\ said = {}

-----------------------------------------------------------------------------
(* The dumper thread.                                                      *)

At(from) == proc = "running" /\ pc = from
Goto(to) == pc' = to
Say(m) == said' = said \cup {m}
Quiet == UNCHANGED said

\* Faulty: the success message after the try block instead of inside it.
Bug_Leave(m) ==
  /\ Goto("done")
  /\ said' = said \cup {m} \cup (IF m = "crashed" THEN {"success"} ELSE {})

\* A return from MainThread or Run: the thread ends after logging m.
Leave(m) == Goto("done") /\ Say(m)

JNI_OnLoad ==
  /\ At("unloaded")
  /\ Goto("sleep")
  /\ Quiet /\ UNCHANGED <<sigs, proc, lib, resolved, outVars>>

\* pthread_create failed: `thread` stays uninitialised and pthread_detach
\* gets it all the same, which either returns an error nobody reads or
\* brings the process down.
JNI_OnLoadNoThread ==
  /\ At("unloaded")
  /\ Goto("done")
  /\ proc' \in {"running", "dumper fault"}
  /\ Quiet /\ UNCHANGED <<sigs, lib, resolved, outVars>>

\* Faulty: wait for the library instead of for five seconds.
Bug_Wake ==
  /\ At("sleep") /\ lib # "absent"
  /\ Goto("signals")
  /\ Quiet /\ UNCHANGED <<sigs, proc, lib, resolved, outVars>>

Wake ==
  /\ At("sleep")
  /\ Goto("signals")
  /\ Quiet /\ UNCHANGED <<sigs, proc, lib, resolved, outVars>>

\* One call of signal(); the three are separate system calls.
InstallHandler ==
  /\ At("signals")
  /\ LET k == Cardinality(sigs) + 1
     IN  /\ sigs' = sigs \cup {Fatal[k]}
         /\ Goto(IF k = Len(Fatal) THEN "mgr" ELSE "signals")
  /\ Quiet /\ UNCHANGED <<proc, lib, resolved, outVars>>

InitKittyMgr ==
  /\ At("mgr")
  /\ \/ Goto("base") /\ Quiet
     \/ Leave("init failed")
  /\ UNCHANGED <<sigs, proc, lib, resolved, outVars>>

GetModuleBase ==
  /\ At("base")
  /\ IF lib = "absent" THEN Leave("no module")
                       ELSE Goto("resolve") /\ Quiet
  /\ UNCHANGED <<sigs, proc, lib, resolved, outVars>>

ResolveFunctions ==
  /\ At("resolve")
  /\ \/ resolved' = TRUE /\ Goto("domain") /\ Quiet
     \/ UNCHANGED resolved /\ Leave("unresolved")
  /\ UNCHANGED <<sigs, proc, lib, outVars>>

\* il2cpp_domain_get; the il2cpp_thread_attach after it is commented out.
DomainGet ==
  /\ At("domain")
  /\ IF lib = "ready" THEN Goto("open") /\ Quiet ELSE Leave("no domain")
  /\ UNCHANGED <<sigs, proc, lib, resolved, outVars>>

\* A return of ExportCS: Run ignores the result and logs success.
ReturnFromExport(m) == Goto("done") /\ said' = said \cup {m, "success"}

\* Faulty: the file is emptied before it is known that it can be written.
Bug_OpenOutput ==
  /\ At("open")
  /\ opened' = TRUE
  /\ \/ Goto("assemblies") /\ Quiet
     \/ ReturnFromExport("open failed")
  /\ UNCHANGED <<sigs, proc, lib, resolved>>
  /\ UNCHANGED <<next, bad, buffer, disk, skipped>>

\* std::ofstream out(outPath) truncates the dump of an earlier run.
OpenOutput ==
  /\ At("open")
  /\ \/ Goto("assemblies") /\ opened' = TRUE /\ Quiet
     \/ ReturnFromExport("open failed") /\ UNCHANGED opened
  /\ UNCHANGED <<sigs, proc, lib, resolved>>
  /\ UNCHANGED <<next, bad, buffer, disk, skipped>>

QueryAssemblies ==
  /\ At("assemblies")
  /\ \/ N > 0 /\ Goto("export") /\ Quiet
     \/ ReturnFromExport("no assemblies")
  /\ UNCHANGED <<sigs, proc, lib, resolved, outVars>>

\* Faulty: the loop bound one too low.
Bug_AfterIterationLow == IF next < N - 1 THEN "export" ELSE "close"

\* The loop's last iteration is the one for assembly N.
AfterIteration == IF next < N THEN "export" ELSE "close"

\* What the file can hold once the stream has handed over any part of the
\* blocks it has accepted, in order.
Flushes(accepted) == {disk \cup (accepted \cap 1..k) : k \in 0..N}

\* A null assembly, or one without an image: `continue`.
SkipAssembly ==
  /\ skipped' = skipped \cup {next}
  /\ UNCHANGED <<bad, buffer, disk>>

\* operator<< on a stream that has failed does nothing.
DropBlock ==
  /\ bad
  /\ UNCHANGED <<bad, buffer, disk, skipped>>

\* Faulty: a failed stream is cleared and written to again.
Bug_AcceptBlock ==
  /\ buffer' = buffer \cup {next}
  /\ disk' \in Flushes(buffer')
  /\ UNCHANGED <<bad, skipped>>

AcceptBlock ==
  /\ ~bad
  /\ buffer' = buffer \cup {next}
  /\ disk' \in Flushes(buffer')
  /\ UNCHANGED <<bad, skipped>>

\* Faulty: the incomplete file is removed when a write fails.
Bug_FailInBlock ==
  /\ ~bad
  /\ bad' = TRUE /\ disk' = {}
  /\ UNCHANGED <<buffer, skipped>>

\* A write to the file fails while the block goes out: the stream is bad
\* from here on and the file stays as far as it got.
FailInBlock ==
  /\ ~bad
  /\ bad' = TRUE
  /\ disk' \in Flushes(buffer)
  /\ UNCHANGED <<buffer, skipped>>

\* One iteration of the assembly loop.
ExportAssembly ==
  /\ At("export")
  /\ next' = next + 1
  /\ Goto(AfterIteration)
  /\ SkipAssembly \/ DropBlock \/ AcceptBlock \/ FailInBlock
  /\ Quiet /\ UNCHANGED <<sigs, proc, lib, resolved, opened>>

\* out.close() flushes; nobody asks the stream whether that worked.
CloseOutput ==
  /\ At("close")
  /\ \/ ~bad /\ disk' = buffer /\ UNCHANGED bad
     \/ bad' = TRUE /\ disk' \in IF bad THEN {disk} ELSE Flushes(buffer)
  /\ ReturnFromExport("exported")
  /\ UNCHANGED <<sigs, proc, lib, resolved>>
  /\ UNCHANGED <<next, buffer, opened, skipped>>

\* Run's catch clauses: an exception out of ExportCS (bad_alloc from any of
\* its strings) ends the run; ~ofstream writes out what it can.
Throw ==
  /\ proc = "running" /\ pc \in InExportCS
  /\ Leave("crashed")
  /\ disk' \in IF bad THEN {disk} ELSE Flushes(buffer)
  /\ UNCHANGED <<sigs, proc, lib, resolved>>
  /\ UNCHANGED <<next, bad, buffer, opened, skipped>>

\* GlobalSignalHandler, or the disposition the process had before it: no
\* buffer of the stream reaches the file.
Die(reason) ==
  /\ proc = "running"
  /\ proc' = reason
  /\ \E s \in {Fatal[k] : k \in 1..3} :
       said' = said \cup (IF s \in sigs THEN {"caught fatal signal"} ELSE {})
  /\ UNCHANGED <<pc, sigs, lib, resolved, outVars>>

\* The dumper thread takes a fatal signal: a fault while it scans memory or
\* walks the runtime's structures, or the abort of an exception that nothing
\* catches (outside Run's try block).
DumperFault ==
  /\ pc \in {"mgr", "base", "resolve", "domain"} \cup InExportCS
  /\ Die("dumper fault")

DumperStep ==
  \/ JNI_OnLoad \/ JNI_OnLoadNoThread \/ Wake \/ InstallHandler
  \/ InitKittyMgr \/ GetModuleBase \/ ResolveFunctions \/ DomainGet
  \/ OpenOutput \/ QueryAssemblies \/ ExportAssembly \/ CloseOutput
  \/ Throw

-----------------------------------------------------------------------------
(* The game.                                                               *)

GameMapsLibrary ==
  /\ proc = "running" /\ lib = "absent" /\ lib' = "mapped"
  /\ Quiet /\ UNCHANGED <<pc, sigs, proc, resolved, outVars>>

GameInitialisesRuntime ==
  /\ proc = "running" /\ lib = "mapped" /\ lib' = "ready"
  /\ Quiet /\ UNCHANGED <<pc, sigs, proc, resolved, outVars>>

\* A thread of the game takes a fatal signal.
GameFault == Die("game fault")

GameExit ==
  /\ proc = "running"
  /\ proc' = "game exit"
  /\ Quiet /\ UNCHANGED <<pc, sigs, lib, resolved, outVars>>

GameStep == GameMapsLibrary \/ GameInitialisesRuntime \/ GameFault \/ GameExit

Next == DumperStep \/ DumperFault \/ GameStep

\* Once the library is loaded its thread is scheduled like any other; the
\* game owes the dumper nothing.
Fairness == WF_vars(DumperStep)

Spec == Init /\ [][Next]_vars /\ Fairness

-----------------------------------------------------------------------------
(* Properties.                                                             *)

\* A run that gives up before the export (library missing, an API not
\* resolved, no domain) leaves the dump of an earlier run as it was:
\* ExportCS, which truncates dump.cs, comes after every check of Run.
EarlyAbortKeepsPreviousDump ==
  said \cap {"init failed", "no module", "unresolved", "no domain",
             "open failed"} # {} => ~opened

\* Every way out of MainThread and Run logs one verdict, and only one,
\* whichever mixture of failures led there.
OneVerdict ==
  /\ Cardinality(said \cap Verdicts) <= 1
  /\ pc = "done" /\ sigs # {} => said \cap Verdicts # {}

\* "Exported C# assembly layout successfully" is logged after every assembly
\* was visited, and unless the stream failed the file then holds them all.
ExportedIsComplete ==
  "exported" \in said =>
    /\ next = N + 1
    /\ ~bad => disk \cup skipped = Assemblies

\* Whatever ends the process or the export, and whenever, dump.cs holds a
\* prefix of the dump: the blocks come in the order of the assemblies, and
\* only an assembly that was skipped is missing between two of them.
DumpIsPrefix ==
  \E k \in 0..N : disk \subseteq 1..k /\ 1..k \subseteq disk \cup skipped

\* A run never takes back what it has written to dump.cs, and writes only
\* while ExportCS is running.
DumpOnlyGrows ==
  [][/\ disk \subseteq disk'
     /\ disk' # disk => opened /\ pc \in {"export", "close", "assemblies"}]_vars

\* Once loaded, the dumper's thread comes to its end unless the process does
\* first: no wait in it depends on the game's progress.
Terminates == <>(pc = "done" \/ proc # "running")

-----------------------------------------------------------------------------
(* What comments, messages and documents say, and the code does not do.    *)

\* engine.cpp:78 logs that the dumper "has completed operations
\* successfully".
SuccessMeansExported == "success" \in said => "exported" \in said
=============================================================================
