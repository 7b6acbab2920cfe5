----------------------------- MODULE MCTracer -----------------------------
(***************************************************************************)
(* The two ways to watch a process: the tracer's manager ("trace") and     *)
(* hardware watchpoints ("watch"), which share no state.                   *)
(***************************************************************************)
EXTENDS Tracer, PerfWatch

VARIABLE scene

CONSTANT One  \* the watch that is used alone, long enough for its ring to wrap around

\* How the manager is set up does not matter to the watchpoints.
MCInit ==
  /\ Init /\ WatchInit
  /\ \/ scene = "trace"
     \/ scene \in {"watch", "watches"} /\ timed /\ auto /\ x86

MCNext ==
  /\ UNCHANGED scene
  /\ \/ scene = "trace" /\ Next /\ UNCHANGED watchVars
     \/ scene = "watch" /\ WatchNext /\ Range(watches') \subseteq {One} /\ UNCHANGED vars
     \/ scene = "watches" /\ WatchNext /\ hits' <= 2 /\ UNCHANGED vars

\* The thread in poll runs too; nothing is assumed of the watched addresses.
MCSpec == MCInit /\ [][MCNext]_<<vars, watchVars, scene>> /\ Fairness /\ WF_watchVars(Polling)
=============================================================================
