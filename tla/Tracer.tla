------------------------------- MODULE Tracer -------------------------------
(***************************************************************************)
(* KittyTraceMgr: attaching to a process, stopping it, and making it call  *)
(* a function, execute a syscall or run into a breakpoint while its own    *)
(* life goes on: signals arrive, calls take for ever, somebody kills it.   *)
(*                                                                         *)
(* src/KittyMemory/KittyTrace.cpp.  The first half of the module is the    *)
(* traced process as the kernel keeps it (external); the second half has   *)
(* one action for each stretch of a method between two waits.  waitpid     *)
(* is for that process only, so it either finds a status or does not.      *)
(***************************************************************************)
EXTENDS Naturals

CONSTANT MaxStops  \* bound: signals from elsewhere and breakpoints hit
ASSUME MaxStopsAssumption == MaxStops \in Nat

VARIABLES
  \* The process.
  life,      \* "running", "stopped" (ptrace-stop), "frozen" (by SIGSTOP), "dead", "gone" (reaped)
  traced,    \* by us: "no", "attached" or "seized"
  pend,      \* on their way to it: SIGSTOP "STOP", PTRACE_INTERRUPT "INT"
  status,    \* what waitpid will report: "none", a stop signal or "EXIT"
  ctx,       \* whose registers it has, and where its PC is (see Contexts)
  patched,   \* code that is not its own: at a breakpoint, at the PC; "hw" for a debug register
  stepping,  \* resumed for a single step
  stops,     \* counts Signal and Hit
  \* The manager.
  attached, seized,    \* _attached, _seized
  timed, auto,         \* _remoteCallTimeout > 0 (or timeout_ms > 0), _autoRestoreRegs
  x86,                 \* a breakpoint trap leaves the PC behind the instruction
  \* The call in progress.
  op, pc, res,         \* the operation, its next step, its result
  seen,                \* its local variables: status,
  bakRegs, bakCode     \* backup_regs, and whose code was at the place that is patched

process == <<life, traced, pend, status, ctx, patched, stepping, stops>>
setup == <<timed, auto, x86>>
locals == <<seen, bakRegs, bakCode>>
call == <<op, pc, res, locals>>
vars == <<process, attached, seized, setup, call>>

Contexts ==
  {"own",               \* in its own code, its own registers
   "atbp", "atwatch",   \* at the software, hardware breakpoint
   "past",              \* one byte behind the breakpoint, inside an instruction
   "func", "ret",       \* in the remote function, at the return address
   "sys", "sysdone",    \* before, behind the injected syscall instruction
   "lost"}              \* in its own code with registers that do not fit it

Breaks == {"soft", "hard"}
Calls == {"call", "syscall"} \cup Breaks
Mark == [o \in {"syscall", "soft", "hard"} |->
           CASE o = "syscall" -> "pc" [] o = "soft" -> "bp" [] o = "hard" -> "hw"]

TypeOK ==
  /\ life \in {"running", "stopped", "frozen", "dead", "gone"}
  /\ traced \in {"no", "attached", "seized"}
  /\ pend \in SUBSET {"STOP", "INT"}
  /\ status \in {"none", "STOP", "CHLD", "TRAP", "OTHER", "EXIT"}
  /\ ctx \in Contexts
  /\ patched \in SUBSET {"bp", "pc", "hw"}
  /\ stepping \in BOOLEAN /\ stops \in 0..MaxStops
  /\ attached \in BOOLEAN /\ seized \in BOOLEAN
  /\ timed \in BOOLEAN /\ auto \in BOOLEAN /\ x86 \in BOOLEAN
  /\ op \in {"none", "attach", "stop", "step"} \cup Calls
  /\ pc \in {"idle", "attaching", "wait", "handle", "late", "stopping", "cleanup",
             "skip", "stepwait", "again"}
  /\ seen \in {"none", "STOP", "CHLD", "TRAP", "OTHER"}
  /\ res \in {"none", "SUCCESS", "FAILED", "TIMEOUT", "EXITED", "CONT_FAILED",
              "STEP_FAILED", "REGS_FAILED", "MEM_FAILED", "MISMATCH_STOP"}
  /\ bakRegs \in Contexts /\ bakCode \in SUBSET {"bp", "pc", "hw"}

Init ==
  /\ life = "running" /\ traced = "no" /\ pend = {} /\ status = "none"
  /\ ctx = "own" /\ patched = {} /\ stepping = FALSE /\ stops = 0
  /\ attached = FALSE /\ seized = FALSE
  /\ timed \in BOOLEAN /\ auto \in BOOLEAN /\ x86 \in BOOLEAN
  /\ op = "none" /\ pc = "idle" /\ seen = "none" /\ res = "none"
  /\ bakRegs = "own" /\ bakCode = {}

Alive == life \in {"running", "stopped", "frozen"}

\* getRegs, setRegs, peekMem and pokeMem succeed exactly on a stopped process.
Stopped == life = "stopped"

-----------------------------------------------------------------------------
(* The process.  Any ptrace-stop uses up a pending PTRACE_INTERRUPT, but   *)
(* not a pending SIGSTOP, which is a signal of its own.                    *)

Environment == UNCHANGED <<traced, patched, attached, seized, setup, call>>

Halt(s) ==
  /\ life = "running" /\ traced # "no"
  /\ life' = "stopped" /\ status' = s /\ stepping' = FALSE
  /\ Environment

\* A signal from elsewhere: "CHLD" for those the loops let pass, "OTHER" for the rest.
Signal ==
  /\ stops < MaxStops /\ stops' = stops + 1
  /\ \E s \in {"CHLD", "OTHER"} : Halt(s)
  /\ pend' = pend \ {"INT"}
  /\ UNCHANGED ctx

StopArrives ==
  /\ "STOP" \in pend /\ Halt("STOP")
  /\ pend' = {}
  /\ UNCHANGED <<ctx, stops>>

\* The stop PTRACE_INTERRUPT leads to: WSTOPSIG is SIGTRAP.
Interrupted ==
  /\ "INT" \in pend /\ Halt("TRAP")
  /\ pend' = pend \ {"INT"}
  /\ UNCHANGED <<ctx, stops>>

\* The remote function returns to an address that faults.
Return ==
  /\ ctx = "func" /\ Halt("OTHER")
  /\ ctx' = "ret" /\ pend' = pend \ {"INT"}
  /\ UNCHANGED stops

Hit ==
  /\ ctx = "own" /\ stops < MaxStops /\ stops' = stops + 1
  /\ Halt("TRAP")
  /\ \E b \in patched \cap {"bp", "hw"} :
       ctx' = IF b = "hw" THEN "atwatch" ELSE IF x86 THEN "past" ELSE "atbp"
  /\ pend' = pend \ {"INT"}

Stepped ==
  /\ stepping /\ Halt("TRAP")
  /\ ctx' = IF ctx = "sys" THEN "sysdone" ELSE ctx
  /\ pend' = pend \ {"INT"}
  /\ UNCHANGED stops

\* It executes the syscall without being stepped, and runs on.
RunOn ==
  /\ life = "running" /\ ~stepping /\ ctx \in {"sys", "sysdone"}
  /\ ctx' = IF ctx = "sys" THEN "sysdone" ELSE "lost"
  /\ UNCHANGED <<life, pend, status, stepping, stops>> /\ Environment

\* Killed, or its own exit.
Die ==
  /\ Alive
  /\ life' = "dead" /\ status' = (IF traced = "no" THEN "none" ELSE "EXIT")
  /\ stepping' = FALSE
  /\ UNCHANGED <<pend, ctx, stops>> /\ Environment

Process == Signal \/ StopArrives \/ Interrupted \/ Return \/ Hit \/ Stepped \/ RunOn \/ Die

-----------------------------------------------------------------------------
(* What the manager's methods are made of.                                 *)

\* ptrace(PTRACE_CONT or PTRACE_SINGLESTEP): an unreported stop is forgotten.
Resume(step) ==
  /\ life' = "running" /\ stepping' = step /\ status' = "none"
  /\ ctx' = CASE ctx \in {"atbp", "atwatch"} -> "own"
              [] ctx = "past" -> "lost"
              [] OTHER -> ctx

\* A successful waitpid.
Reported ==
  /\ status # "none" /\ status' = "none"
  /\ life' = (IF status = "EXIT" THEN "gone" ELSE life)
  /\ traced' = (IF status = "EXIT" THEN "no" ELSE traced)
  /\ UNCHANGED <<pend, ctx, patched, stepping, stops>>

\* TracerPid of /proc/pid/status is our own.
IsAttached == traced # "no"

\* A method returns r; its local variables are gone.
Finish(r) ==
  /\ pc' = "idle" /\ res' = r /\ op' = "none"
  /\ seen' = "none" /\ bakRegs' = "own" /\ bakCode' = {}
Enter(o, p) == op' = o /\ pc' = p /\ res' = "none"
Goto(p) == pc' = p /\ UNCHANGED op

-----------------------------------------------------------------------------
(* Attaching, stopping, detaching.                                         *)

\* KittyTraceMgr(pid): a second manager for the process takes over.
Construct ==
  /\ pc = "idle" /\ Finish("none")
  /\ attached' = IsAttached /\ seized' = FALSE
  /\ UNCHANGED <<process, setup>>

Reattach ==
  /\ pc = "idle" /\ Finish("none")
  /\ IsAttached /\ attached' = TRUE
  /\ UNCHANGED <<process, seized, setup>>

\* A frozen process stops at once.
Trace(mode) ==
  /\ pc = "idle" /\ ~IsAttached /\ Alive
  /\ traced' = mode
  /\ life' = (IF life = "frozen" THEN "stopped" ELSE life)
  /\ status' = (IF life = "frozen" THEN "STOP" ELSE "none")
  /\ UNCHANGED <<ctx, patched, stepping, stops, setup>>

Attach ==
  /\ Trace("attached")
  /\ pend' = {"STOP"} /\ seized' = FALSE
  /\ Enter("attach", "attaching")
  /\ UNCHANGED <<attached, locals>>

\* The first stop it reports need not be that of the SIGSTOP.
AttachWait ==
  /\ pc = "attaching" /\ Reported /\ Finish("none")
  /\ attached' = (IF status = "EXIT" THEN attached ELSE TRUE)
  /\ UNCHANGED <<seized, setup>>

Seize ==
  /\ Trace("seized") /\ Finish("none")
  /\ attached' = TRUE /\ seized' = TRUE
  /\ UNCHANGED pend

\* Faulty: a SIGSTOP, whichever way it was attached.
Bug_StopRequest == pend \cup {"STOP"}

\* stop(): the request and, in StopWait, its waitpid.
StopRequest == pend \cup {IF seized THEN "INT" ELSE "STOP"}

Stop ==
  /\ pc = "idle" /\ attached /\ Alive /\ IsAttached
  /\ pend' = StopRequest /\ Enter("stop", "stopping")
  /\ UNCHANGED <<life, traced, status, ctx, patched, stepping, stops, attached, seized,
                 setup, locals>>

StopWait ==
  /\ pc = "stopping" /\ Reported
  /\ IF op \in Calls THEN Goto("cleanup") /\ UNCHANGED <<res, locals>> ELSE Finish("none")
  /\ UNCHANGED <<attached, seized, setup>>

Cont ==
  /\ pc = "idle" /\ attached /\ Stopped
  /\ Resume(FALSE) /\ Finish("none")
  /\ UNCHANGED <<traced, pend, patched, stops, attached, seized, setup>>

\* step, waitStep and waitSyscall; the last two wait for what comes of it.
Step ==
  /\ pc = "idle" /\ attached /\ Stopped
  /\ Resume(TRUE)
  /\ Finish("none") \/ (Enter("step", "stopping") /\ UNCHANGED locals)
  /\ UNCHANGED <<traced, pend, patched, stops, attached, seized, setup>>

Wait ==
  /\ pc = "idle" /\ attached /\ Reported /\ Finish("none")
  /\ UNCHANGED <<attached, seized, setup>>

\* Reaps what there is to reap.  A process that runs stays traced.
Detach ==
  /\ pc = "idle" /\ attached' = FALSE /\ Finish("none")
  /\ IF ~IsAttached
     THEN UNCHANGED process
     ELSE \/ /\ Stopped
             /\ traced' = "no" /\ status' = "none" /\ stepping' = FALSE
             /\ life' = (IF "STOP" \in pend THEN "frozen" ELSE "running")
             /\ pend' = {}
             /\ UNCHANGED <<ctx, patched, stops>>
          \/ ~Stopped /\ status = "none" /\ UNCHANGED process
          \/ ~Stopped /\ Reported
  /\ UNCHANGED <<seized, setup>>

-----------------------------------------------------------------------------
(* The remote operations: set up and let run.                              *)

Run(c, step) == ctx' = c /\ life' = "running" /\ stepping' = step /\ status' = "none"

\* Registers backed up, arguments and return address put in place, and off it goes.
BeginCall ==
  /\ pc = "idle" /\ attached
  /\ \/ ~Stopped /\ Finish("REGS_FAILED") /\ UNCHANGED process
     \/ Stopped /\ Finish("MEM_FAILED") /\ UNCHANGED process  \* its stack cannot be written
     \/ /\ Stopped /\ Enter("call", "wait")
        /\ bakRegs' = ctx /\ Run("func", FALSE)
        /\ UNCHANGED <<traced, pend, patched, stops, seen, bakCode>>
  /\ UNCHANGED <<attached, seized, setup>>

BeginSyscall ==
  /\ pc = "idle" /\ attached
  /\ \/ ~Stopped /\ Finish("REGS_FAILED") /\ UNCHANGED process
     \/ /\ Stopped /\ Enter("syscall", "wait")
        /\ bakRegs' = ctx /\ bakCode' = patched
        /\ patched' = patched \cup {"pc"} /\ Run("sys", TRUE)
        /\ UNCHANGED <<traced, pend, stops, seen>>
  /\ UNCHANGED <<attached, seized, setup>>

SetBreak(o) ==
  /\ attached
  /\ \/ /\ ~Stopped /\ Finish(IF o = "soft" THEN "MEM_FAILED" ELSE "FAILED")
        /\ UNCHANGED process
     \/ /\ Stopped /\ Enter(o, "wait")
        /\ bakCode' = patched /\ patched' = patched \cup {Mark[o]} /\ Resume(FALSE)
        /\ UNCHANGED <<traced, pend, stops, seen, bakRegs>>
  /\ UNCHANGED <<attached, seized, setup>>

BeginBreak == pc = "idle" /\ \E o \in Breaks : SetBreak(o)
Again == pc = "again" /\ SetBreak(op)

-----------------------------------------------------------------------------
(* Their loops: wait, with a timeout where there is one, and look at what  *)
(* came of it.                                                             *)

TakeStatus ==
  /\ pc = "wait" /\ Reported
  /\ IF status = "EXIT"
     THEN Finish("EXITED") /\ attached' = FALSE
     ELSE Goto("handle") /\ seen' = status /\ UNCHANGED <<attached, res, bakRegs, bakCode>>
  /\ UNCHANGED <<seized, setup>>

\* _callSyscall waits without a timeout.
TimeOut ==
  /\ pc = "wait" /\ timed /\ op # "syscall" /\ status = "none"
  /\ Goto("late") /\ res' = "TIMEOUT"
  /\ UNCHANGED <<process, attached, seized, setup, locals>>

\* stop() once more; the stop that was waited for may come first.
StopLate ==
  /\ pc = "late"
  /\ IF Alive THEN pend' = StopRequest /\ Goto("stopping")
              ELSE Goto("cleanup") /\ UNCHANGED pend
  /\ UNCHANGED <<life, traced, status, ctx, patched, stepping, stops, attached, seized,
                 setup, res, locals>>

\* Faulty: a SIGSTOP is taken for a stop that matters.
Bug_LetPass == seen = "CHLD"

\* SIGCHLD, SIGSTOP and SIGTSTP are kept from the process.
LetPass == seen \in {"CHLD", "STOP"}

\* validate_ret, the PC behind the syscall, validate_trap.
Expected ==
  CASE op = "call" -> ctx = "ret"
    [] op = "syscall" -> ctx = "sysdone"
    [] op = "soft" -> seen = "TRAP" /\ ctx \in {"atbp", "past"}
    [] op = "hard" -> seen = "TRAP" /\ ctx = "atwatch"

\* `return failure_return(r)`, or `break` with SUCCESS.
Leave(r) ==
  /\ Goto("cleanup") /\ res' = r /\ seen' = "none"
  /\ UNCHANGED <<life, status, ctx, stepping, bakRegs, bakCode>>
Continue == Resume(FALSE) /\ Goto("wait") /\ seen' = "none" /\ UNCHANGED <<res, bakRegs, bakCode>>

\* A stop nobody asked for sends the process on its way, with the signal;
\* only setHardBreakpointAndWait then goes on waiting.
OtherStop ==
  IF op = "hard"
  THEN Continue
  ELSE /\ Resume(FALSE)
       /\ Goto("cleanup") /\ res' = "MISMATCH_STOP" /\ seen' = "none"
       /\ UNCHANGED <<bakRegs, bakCode>>

\* Faulty: goes on waiting without setting the process going.
Bug_Handle ==
  /\ pc = "handle"
  /\ CASE LetPass /\ Stopped -> Goto("wait") /\ UNCHANGED <<life, status, ctx, stepping, res, locals>>
       [] ~Stopped -> Leave(IF LetPass THEN "CONT_FAILED" ELSE "REGS_FAILED")
       [] ~LetPass /\ Stopped /\ Expected -> Leave("SUCCESS")
       [] ~LetPass /\ Stopped /\ ~Expected -> OtherStop
  /\ UNCHANGED <<traced, pend, patched, stops, attached, seized, setup>>

Handle ==
  /\ pc = "handle"
  /\ CASE ~Stopped -> Leave(IF LetPass THEN "CONT_FAILED" ELSE "REGS_FAILED")
       [] LetPass /\ Stopped -> Continue
       [] ~LetPass /\ Stopped /\ Expected -> Leave("SUCCESS")
       [] ~LetPass /\ Stopped /\ ~Expected -> OtherStop
  /\ UNCHANGED <<traced, pend, patched, stops, attached, seized, setup>>

\* Faulty: failure_return without its pokeMem.
Bug_PutBack ==
  /\ ctx' = CASE op \in {"call", "syscall"} /\ auto -> bakRegs
              [] op = "soft" /\ res = "SUCCESS" -> "atbp"
              [] OTHER -> ctx
  /\ patched' = IF op = "hard" THEN patched \ {"hw"}
                ELSE IF res = "SUCCESS" THEN bakCode ELSE patched

\* failure_return and its counterpart after success, on a stopped process: the
\* registers, the code, the debug register; x86 rewinds the PC of a breakpoint hit.
PutBack ==
  /\ ctx' = CASE op \in {"call", "syscall"} /\ auto -> bakRegs
              [] op = "soft" /\ res = "SUCCESS" -> "atbp"
              [] OTHER -> ctx
  /\ patched' = CASE op = "call" -> patched
                  [] op = "hard" -> patched \ {"hw"}
                  [] OTHER -> bakCode

\* After a breakpoint the callback may ask for the next hit.
CleanUp ==
  /\ pc = "cleanup"
  /\ IF Stopped THEN PutBack ELSE UNCHANGED <<ctx, patched>>
  /\ \/ Finish(IF op = "soft" /\ res = "SUCCESS" /\ ~Stopped THEN "MEM_FAILED" ELSE res)
     \/ /\ op \in Breaks /\ res = "SUCCESS" /\ (op = "soft" => Stopped)
        /\ Goto("skip") /\ UNCHANGED <<res, locals>>
  /\ UNCHANGED <<life, traced, pend, status, stepping, stops, attached, seized, setup>>

\* waitStep(), to get past the breakpoint.
Skip ==
  /\ pc = "skip"
  /\ IF Stopped THEN Resume(TRUE) /\ Goto("stepwait") /\ UNCHANGED <<res, locals>>
                ELSE Finish("STEP_FAILED") /\ UNCHANGED <<life, status, ctx, stepping>>
  /\ UNCHANGED <<traced, pend, patched, stops, attached, seized, setup>>

SkipWait ==
  /\ pc = "stepwait" /\ Reported
  /\ IF status = "EXIT" THEN Finish("STEP_FAILED") ELSE Goto("again") /\ UNCHANGED <<res, locals>>
  /\ UNCHANGED <<attached, seized, setup>>

Caller == Construct \/ Reattach \/ Attach \/ Seize \/ Stop \/ Cont \/ Step \/ Wait \/ Detach
          \/ BeginCall \/ BeginSyscall \/ BeginBreak
Manager == AttachWait \/ StopWait \/ TakeStatus \/ TimeOut \/ StopLate \/ Handle \/ CleanUp
           \/ Skip \/ SkipWait \/ Again

Next == Process \/ Caller \/ Manager

\* The manager's thread runs, and the kernel delivers what was asked of it; nothing
\* is assumed of the remote function, of other signals or of the caller.
Fairness ==
  /\ WF_vars(Manager)
  /\ WF_vars(StopArrives) /\ WF_vars(Interrupted) /\ WF_vars(Stepped)

Spec == Init /\ [][Next]_vars /\ Fairness

-----------------------------------------------------------------------------
(* What the caller gets.                                                   *)

Ends == pc # "idle" /\ pc' = "idle"

\* A process handed back dead, or stopped with its registers and its code.  A software
\* breakpoint that is hit while it times out leaves the x86 PC behind it.
HandedBack ==
  \/ life' \in {"dead", "gone"}
  \/ /\ life' = "stopped"
     /\ op \in {"call", "syscall"} /\ auto => ctx' = bakRegs
     /\ op # "hard" => patched' = (IF op = "call" THEN patched ELSE bakCode)
     /\ op = "hard" => "hw" \notin patched'
     /\ op = "soft" /\ ctx' = "past" => x86 /\ res' = "TIMEOUT"

\* Every way out of a call, a syscall or a breakpoint (failure_return, the timeout,
\* success) leaves a process that is dead, or stopped with the registers it was
\* found with (its stack pointer's alignment aside) and the code that was there; but
\* after MISMATCH_STOP the process was set going first.
CleanReturn == [][Ends /\ op \in Calls /\ res' # "MISMATCH_STOP" => HandedBack]_vars

\* A process seized by its manager is never left frozen by detach(), whatever stops
\* were asked for and timed out before: PTRACE_INTERRUPT leaves no signal behind.
NeverFrozenWhenSeized == [][life' = "frozen" => ~seized]_vars

\* Without signals from elsewhere and breakpoints, a remote call in a process that was
\* attached to (not seized) never ends at a wrong stop: a SIGSTOP that an earlier
\* timeout left behind is swallowed by the call's loop.
QuietCallsMatch ==
  [][op = "call" /\ res' = "MISMATCH_STOP" /\ res # res' => stops > 0 \/ traced = "seized"]_vars

\* With a timeout, every call and breakpoint wait comes to an end: a function that
\* never returns is stopped, and the stop arrives.
CallsEnd == pc # "idle" /\ timed /\ op \in {"call", "soft", "hard"} ~> pc = "idle"
=============================================================================
