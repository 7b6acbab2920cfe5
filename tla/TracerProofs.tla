---------------------------- MODULE TracerProofs ----------------------------
(***************************************************************************)
(* Theorems about Tracer, for any number of signals and breakpoints: what  *)
(* is pending and reported fits the process' life, and the manager's next  *)
(* step fits both.  And about PerfWatch, for any rings and any hits.       *)
(***************************************************************************)
EXTENDS Tracer, PerfWatch, TLAPS

Over == life \in {"dead", "gone"}

\* TypeOK in four parts.
ProcessTyped ==
  /\ life \in {"running", "stopped", "frozen", "dead", "gone"}
  /\ traced \in {"no", "attached", "seized"}
  /\ status \in {"none", "STOP", "CHLD", "TRAP", "OTHER", "EXIT"}
  /\ ctx \in Contexts /\ stops \in 0..MaxStops
SetsTyped ==
  pend \subseteq {"STOP", "INT"} /\ patched \subseteq {"bp", "pc", "hw"} /\ bakCode \subseteq {"bp", "pc", "hw"}
FlagsTyped ==
  /\ stepping \in BOOLEAN /\ attached \in BOOLEAN /\ seized \in BOOLEAN
  /\ timed \in BOOLEAN /\ auto \in BOOLEAN /\ x86 \in BOOLEAN
CallTyped ==
  /\ op \in {"none", "attach", "stop", "step"} \cup Calls
  /\ pc \in {"idle", "attaching", "wait", "handle", "late", "stopping", "cleanup",
             "skip", "stepwait", "again"}
  /\ seen \in {"none", "STOP", "CHLD", "TRAP", "OTHER"}
  /\ res \in {"none", "SUCCESS", "FAILED", "TIMEOUT", "EXITED", "CONT_FAILED",
              "STEP_FAILED", "REGS_FAILED", "MEM_FAILED", "MISMATCH_STOP"}
  /\ bakRegs \in Contexts

\* A status is that of the stop, or of the end, the process is in.
StatusFits ==
  /\ status \in {"STOP", "CHLD", "TRAP", "OTHER"} => life = "stopped"
  /\ status = "EXIT" => life = "dead"

\* Nothing is pending for a process that is not traced, and no SIGSTOP by a manager
\* that seized it.
PendingFits ==
  /\ "STOP" \in pend => ~seized
  /\ traced = "no" /\ Alive => pend = {}
  /\ life = "stopped" => traced # "no"
  /\ life = "frozen" => traced = "no" /\ ~seized
  /\ pc # "idle" /\ Alive => traced # "no"

\* Where the manager counts on a stopped process it has one, or the process is over.
StepFits ==
  /\ pc \in {"handle", "skip", "again"} => life = "stopped" \/ Over
  /\ pc \in {"late", "stopping"} /\ op \in Calls => res = "TIMEOUT"
  /\ pc = "attaching" => op = "attach"
  /\ pc = "late" => op \in Calls
  /\ pc \in {"wait", "handle"} => op \in Calls
  /\ pc \in {"skip", "stepwait", "again"} => op \in Breaks
  /\ pc = "cleanup" =>
       /\ op \in Calls /\ res \in {"SUCCESS", "TIMEOUT", "CONT_FAILED", "REGS_FAILED", "MISMATCH_STOP"}
       /\ res # "MISMATCH_STOP" => life = "stopped" \/ Over
       /\ res \in {"CONT_FAILED", "REGS_FAILED"} => Over
  /\ ctx = "past" \/ bakRegs = "past" => x86

IInv == ProcessTyped /\ SetsTyped /\ FlagsTyped /\ CallTyped /\ StatusFits /\ PendingFits /\ StepFits

LEMMA TypesAre == TypeOK <=> ProcessTyped /\ SetsTyped /\ FlagsTyped /\ CallTyped
BY DEF TypeOK, ProcessTyped, SetsTyped, FlagsTyped, CallTyped

LEMMA Initially == Init => IInv
<1> SUFFICES ASSUME Init PROVE IInv
  OBVIOUS
<1>1. ProcessTyped /\ SetsTyped /\ CallTyped
  BY MaxStopsAssumption DEF Init, ProcessTyped, SetsTyped, CallTyped, Contexts
<1>2. FlagsTyped
  BY DEF Init, FlagsTyped
<1>3. StatusFits /\ PendingFits /\ StepFits
  BY DEF Init, StatusFits, PendingFits, StepFits, Over, Alive
<1> QED
  BY <1>1, <1>2, <1>3 DEF IInv

-----------------------------------------------------------------------------
(* The process.                                                            *)

LEMMA ProcessStep ==
  ASSUME IInv, Process
  PROVE  IInv'
<1> USE DEF IInv, ProcessTyped, SetsTyped, FlagsTyped, CallTyped, StatusFits, PendingFits, StepFits, Over, Alive, Contexts, Calls, Breaks,
            Environment, setup, call, locals
<1> USE MaxStopsAssumption
<1>1. CASE Signal
  <2>1. ProcessTyped'
    BY <1>1 DEF Signal, Halt
  <2>2. SetsTyped'
    BY <1>1 DEF Signal, Halt
  <2>3. FlagsTyped'
    BY <1>1 DEF Signal, Halt
  <2>4. CallTyped'
    BY <1>1 DEF Signal, Halt
  <2>5. StatusFits'
    BY <1>1 DEF Signal, Halt
  <2>6. PendingFits'
    BY <1>1 DEF Signal, Halt
  <2>7. StepFits'
    BY <1>1 DEF Signal, Halt
  <2> QED
    BY <2>1, <2>2, <2>3, <2>4, <2>5, <2>6, <2>7 DEF IInv
<1>2. CASE StopArrives
  <2>1. ProcessTyped'
    BY <1>2 DEF StopArrives, Halt
  <2>2. SetsTyped'
    BY <1>2 DEF StopArrives, Halt
  <2>3. FlagsTyped'
    BY <1>2 DEF StopArrives, Halt
  <2>4. CallTyped'
    BY <1>2 DEF StopArrives, Halt
  <2>5. StatusFits'
    BY <1>2 DEF StopArrives, Halt
  <2>6. PendingFits'
    BY <1>2 DEF StopArrives, Halt
  <2>7. StepFits'
    BY <1>2 DEF StopArrives, Halt
  <2> QED
    BY <2>1, <2>2, <2>3, <2>4, <2>5, <2>6, <2>7 DEF IInv
<1>3. CASE Interrupted
  <2>1. ProcessTyped'
    BY <1>3 DEF Interrupted, Halt
  <2>2. SetsTyped'
    BY <1>3 DEF Interrupted, Halt
  <2>3. FlagsTyped'
    BY <1>3 DEF Interrupted, Halt
  <2>4. CallTyped'
    BY <1>3 DEF Interrupted, Halt
  <2>5. StatusFits'
    BY <1>3 DEF Interrupted, Halt
  <2>6. PendingFits'
    BY <1>3 DEF Interrupted, Halt
  <2>7. StepFits'
    BY <1>3 DEF Interrupted, Halt
  <2> QED
    BY <2>1, <2>2, <2>3, <2>4, <2>5, <2>6, <2>7 DEF IInv
<1>4. CASE Return
  <2>1. ProcessTyped'
    BY <1>4 DEF Return, Halt
  <2>2. SetsTyped'
    BY <1>4 DEF Return, Halt
  <2>3. FlagsTyped'
    BY <1>4 DEF Return, Halt
  <2>4. CallTyped'
    BY <1>4 DEF Return, Halt
  <2>5. StatusFits'
    BY <1>4 DEF Return, Halt
  <2>6. PendingFits'
    BY <1>4 DEF Return, Halt
  <2>7. StepFits'
    BY <1>4 DEF Return, Halt
  <2> QED
    BY <2>1, <2>2, <2>3, <2>4, <2>5, <2>6, <2>7 DEF IInv
<1>5. CASE Hit
  <2>1. ProcessTyped'
    BY <1>5 DEF Hit, Halt
  <2>2. SetsTyped'
    BY <1>5 DEF Hit, Halt
  <2>3. FlagsTyped'
    BY <1>5 DEF Hit, Halt
  <2>4. CallTyped'
    BY <1>5 DEF Hit, Halt
  <2>5. StatusFits'
    BY <1>5 DEF Hit, Halt
  <2>6. PendingFits'
    BY <1>5 DEF Hit, Halt
  <2>7. StepFits'
    BY <1>5 DEF Hit, Halt
  <2> QED
    BY <2>1, <2>2, <2>3, <2>4, <2>5, <2>6, <2>7 DEF IInv
<1>6. CASE Stepped
  <2>1. ProcessTyped'
    BY <1>6 DEF Stepped, Halt
  <2>2. SetsTyped'
    BY <1>6 DEF Stepped, Halt
  <2>3. FlagsTyped'
    BY <1>6 DEF Stepped, Halt
  <2>4. CallTyped'
    BY <1>6 DEF Stepped, Halt
  <2>5. StatusFits'
    BY <1>6 DEF Stepped, Halt
  <2>6. PendingFits'
    BY <1>6 DEF Stepped, Halt
  <2>7. StepFits'
    BY <1>6 DEF Stepped, Halt
  <2> QED
    BY <2>1, <2>2, <2>3, <2>4, <2>5, <2>6, <2>7 DEF IInv
<1>7. CASE RunOn
  <2>1. ProcessTyped'
    BY <1>7 DEF RunOn
  <2>2. SetsTyped'
    BY <1>7 DEF RunOn
  <2>3. FlagsTyped'
    BY <1>7 DEF RunOn
  <2>4. CallTyped'
    BY <1>7 DEF RunOn
  <2>5. StatusFits'
    BY <1>7 DEF RunOn
  <2>6. PendingFits'
    BY <1>7 DEF RunOn
  <2>7. StepFits'
    BY <1>7 DEF RunOn
  <2> QED
    BY <2>1, <2>2, <2>3, <2>4, <2>5, <2>6, <2>7 DEF IInv
<1>8. CASE Die
  <2>1. ProcessTyped'
    BY <1>8 DEF Die
  <2>2. SetsTyped'
    BY <1>8 DEF Die
  <2>3. FlagsTyped'
    BY <1>8 DEF Die
  <2>4. CallTyped'
    BY <1>8 DEF Die
  <2>5. StatusFits'
    BY <1>8 DEF Die
  <2>6. PendingFits'
    BY <1>8 DEF Die
  <2>7. StepFits'
    BY <1>8 DEF Die
  <2> QED
    BY <2>1, <2>2, <2>3, <2>4, <2>5, <2>6, <2>7 DEF IInv
<1> QED
  BY <1>1, <1>2, <1>3, <1>4, <1>5, <1>6, <1>7, <1>8 DEF Process

-----------------------------------------------------------------------------
(* The manager: its methods are entered, and go on.                        *)

LEMMA CallerStep ==
  ASSUME IInv, Caller
  PROVE  IInv'
<1> USE DEF IInv, ProcessTyped, SetsTyped, FlagsTyped, CallTyped, StatusFits, PendingFits, StepFits, Over, Alive, Contexts, Calls, Breaks,
            process, setup, call, locals, Finish, Enter, Goto, Stopped, IsAttached
<1>1. CASE Construct
  <2>1. ProcessTyped'
    BY <1>1 DEF Construct
  <2>2. SetsTyped'
    BY <1>1 DEF Construct
  <2>3. FlagsTyped'
    BY <1>1 DEF Construct
  <2>4. CallTyped'
    BY <1>1 DEF Construct
  <2>5. StatusFits'
    BY <1>1 DEF Construct
  <2>6. PendingFits'
    BY <1>1 DEF Construct
  <2>7. StepFits'
    BY <1>1 DEF Construct
  <2> QED
    BY <2>1, <2>2, <2>3, <2>4, <2>5, <2>6, <2>7 DEF IInv
<1>2. CASE Reattach
  <2>1. ProcessTyped'
    BY <1>2 DEF Reattach
  <2>2. SetsTyped'
    BY <1>2 DEF Reattach
  <2>3. FlagsTyped'
    BY <1>2 DEF Reattach
  <2>4. CallTyped'
    BY <1>2 DEF Reattach
  <2>5. StatusFits'
    BY <1>2 DEF Reattach
  <2>6. PendingFits'
    BY <1>2 DEF Reattach
  <2>7. StepFits'
    BY <1>2 DEF Reattach
  <2> QED
    BY <2>1, <2>2, <2>3, <2>4, <2>5, <2>6, <2>7 DEF IInv
<1>3. CASE Attach
  <2>1. ProcessTyped'
    BY <1>3 DEF Attach, Trace
  <2>2. SetsTyped'
    BY <1>3 DEF Attach, Trace
  <2>3. FlagsTyped'
    BY <1>3 DEF Attach, Trace
  <2>4. CallTyped'
    BY <1>3 DEF Attach, Trace
  <2>5. StatusFits'
    BY <1>3 DEF Attach, Trace
  <2>6. PendingFits'
    BY <1>3 DEF Attach, Trace
  <2>7. StepFits'
    BY <1>3 DEF Attach, Trace
  <2> QED
    BY <2>1, <2>2, <2>3, <2>4, <2>5, <2>6, <2>7 DEF IInv
<1>4. CASE Seize
  <2>1. ProcessTyped'
    BY <1>4 DEF Seize, Trace
  <2>2. SetsTyped'
    BY <1>4 DEF Seize, Trace
  <2>3. FlagsTyped'
    BY <1>4 DEF Seize, Trace
  <2>4. CallTyped'
    BY <1>4 DEF Seize, Trace
  <2>5. StatusFits'
    BY <1>4 DEF Seize, Trace
  <2>6. PendingFits'
    BY <1>4 DEF Seize, Trace
  <2>7. StepFits'
    BY <1>4 DEF Seize, Trace
  <2> QED
    BY <2>1, <2>2, <2>3, <2>4, <2>5, <2>6, <2>7 DEF IInv
<1>5. CASE Stop
  <2>1. ProcessTyped'
    BY <1>5 DEF Stop, StopRequest
  <2>2. SetsTyped'
    BY <1>5 DEF Stop, StopRequest
  <2>3. FlagsTyped'
    BY <1>5 DEF Stop, StopRequest
  <2>4. CallTyped'
    BY <1>5 DEF Stop, StopRequest
  <2>5. StatusFits'
    BY <1>5 DEF Stop, StopRequest
  <2>6. PendingFits'
    BY <1>5 DEF Stop, StopRequest
  <2>7. StepFits'
    BY <1>5 DEF Stop, StopRequest
  <2> QED
    BY <2>1, <2>2, <2>3, <2>4, <2>5, <2>6, <2>7 DEF IInv
<1>6. CASE Cont
  <2>1. ProcessTyped'
    BY <1>6 DEF Cont, Resume
  <2>2. SetsTyped'
    BY <1>6 DEF Cont, Resume
  <2>3. FlagsTyped'
    BY <1>6 DEF Cont, Resume
  <2>4. CallTyped'
    BY <1>6 DEF Cont, Resume
  <2>5. StatusFits'
    BY <1>6 DEF Cont, Resume
  <2>6. PendingFits'
    BY <1>6 DEF Cont, Resume
  <2>7. StepFits'
    BY <1>6 DEF Cont, Resume
  <2> QED
    BY <2>1, <2>2, <2>3, <2>4, <2>5, <2>6, <2>7 DEF IInv
<1>7. CASE Step
  <2>1. ProcessTyped'
    BY <1>7 DEF Step, Resume
  <2>2. SetsTyped'
    BY <1>7 DEF Step, Resume
  <2>3. FlagsTyped'
    BY <1>7 DEF Step, Resume
  <2>4. CallTyped'
    BY <1>7 DEF Step, Resume
  <2>5. StatusFits'
    BY <1>7 DEF Step, Resume
  <2>6. PendingFits'
    BY <1>7 DEF Step, Resume
  <2>7. StepFits'
    BY <1>7 DEF Step, Resume
  <2> QED
    BY <2>1, <2>2, <2>3, <2>4, <2>5, <2>6, <2>7 DEF IInv
<1>8. CASE Wait
  <2>1. ProcessTyped'
    BY <1>8 DEF Wait, Reported
  <2>2. SetsTyped'
    BY <1>8 DEF Wait, Reported
  <2>3. FlagsTyped'
    BY <1>8 DEF Wait, Reported
  <2>4. CallTyped'
    BY <1>8 DEF Wait, Reported
  <2>5. StatusFits'
    BY <1>8 DEF Wait, Reported
  <2>6. PendingFits'
    BY <1>8 DEF Wait, Reported
  <2>7. StepFits'
    BY <1>8 DEF Wait, Reported
  <2> QED
    BY <2>1, <2>2, <2>3, <2>4, <2>5, <2>6, <2>7 DEF IInv
<1>9. CASE Detach
  <2>1. ProcessTyped'
    BY <1>9 DEF Detach, Reported
  <2>2. SetsTyped'
    BY <1>9 DEF Detach, Reported
  <2>3. FlagsTyped'
    BY <1>9 DEF Detach, Reported
  <2>4. CallTyped'
    BY <1>9 DEF Detach, Reported
  <2>5. StatusFits'
    BY <1>9 DEF Detach, Reported
  <2>6. PendingFits'
    BY <1>9 DEF Detach, Reported
  <2>7. StepFits'
    BY <1>9 DEF Detach, Reported
  <2> QED
    BY <2>1, <2>2, <2>3, <2>4, <2>5, <2>6, <2>7 DEF IInv
<1>10. CASE BeginCall
  <2>1. ProcessTyped'
    BY <1>10 DEF BeginCall, Run
  <2>2. SetsTyped'
    BY <1>10 DEF BeginCall, Run
  <2>3. FlagsTyped'
    BY <1>10 DEF BeginCall, Run
  <2>4. CallTyped'
    BY <1>10 DEF BeginCall, Run
  <2>5. StatusFits'
    BY <1>10 DEF BeginCall, Run
  <2>6. PendingFits'
    BY <1>10 DEF BeginCall, Run
  <2>7. StepFits'
    BY <1>10 DEF BeginCall, Run
  <2> QED
    BY <2>1, <2>2, <2>3, <2>4, <2>5, <2>6, <2>7 DEF IInv
<1>11. CASE BeginSyscall
  <2>1. ProcessTyped'
    BY <1>11 DEF BeginSyscall, Run
  <2>2. SetsTyped'
    BY <1>11 DEF BeginSyscall, Run
  <2>3. FlagsTyped'
    BY <1>11 DEF BeginSyscall, Run
  <2>4. CallTyped'
    BY <1>11 DEF BeginSyscall, Run
  <2>5. StatusFits'
    BY <1>11 DEF BeginSyscall, Run
  <2>6. PendingFits'
    BY <1>11 DEF BeginSyscall, Run
  <2>7. StepFits'
    BY <1>11 DEF BeginSyscall, Run
  <2> QED
    BY <2>1, <2>2, <2>3, <2>4, <2>5, <2>6, <2>7 DEF IInv
<1>12. CASE BeginBreak
  <2>1. ProcessTyped'
    BY <1>12 DEF BeginBreak, SetBreak, Resume, Mark
  <2>2. SetsTyped'
    BY <1>12 DEF BeginBreak, SetBreak, Resume, Mark
  <2>3. FlagsTyped'
    BY <1>12 DEF BeginBreak, SetBreak, Resume, Mark
  <2>4. CallTyped'
    BY <1>12 DEF BeginBreak, SetBreak, Resume, Mark
  <2>5. StatusFits'
    BY <1>12 DEF BeginBreak, SetBreak, Resume, Mark
  <2>6. PendingFits'
    BY <1>12 DEF BeginBreak, SetBreak, Resume, Mark
  <2>7. StepFits'
    BY <1>12 DEF BeginBreak, SetBreak, Resume, Mark
  <2> QED
    BY <2>1, <2>2, <2>3, <2>4, <2>5, <2>6, <2>7 DEF IInv
<1> QED
  BY <1>1, <1>2, <1>3, <1>4, <1>5, <1>6, <1>7, <1>8, <1>9, <1>10, <1>11, <1>12 DEF Caller

LEMMA ManagerStep ==
  ASSUME IInv, Manager
  PROVE  IInv'
<1> USE DEF IInv, ProcessTyped, SetsTyped, FlagsTyped, CallTyped, StatusFits, PendingFits, StepFits, Over, Alive, Contexts, Calls, Breaks,
            process, setup, call, locals, Finish, Enter, Goto, Stopped, IsAttached
<1>1. CASE AttachWait
  <2>1. ProcessTyped'
    BY <1>1 DEF AttachWait, Reported
  <2>2. SetsTyped'
    BY <1>1 DEF AttachWait, Reported
  <2>3. FlagsTyped'
    BY <1>1 DEF AttachWait, Reported
  <2>4. CallTyped'
    BY <1>1 DEF AttachWait, Reported
  <2>5. StatusFits'
    BY <1>1 DEF AttachWait, Reported
  <2>6. PendingFits'
    BY <1>1 DEF AttachWait, Reported
  <2>7. StepFits'
    BY <1>1 DEF AttachWait, Reported
  <2> QED
    BY <2>1, <2>2, <2>3, <2>4, <2>5, <2>6, <2>7 DEF IInv
<1>2. CASE StopWait
  <2>1. ProcessTyped'
    BY <1>2 DEF StopWait, Reported
  <2>2. SetsTyped'
    BY <1>2 DEF StopWait, Reported
  <2>3. FlagsTyped'
    BY <1>2 DEF StopWait, Reported
  <2>4. CallTyped'
    BY <1>2 DEF StopWait, Reported
  <2>5. StatusFits'
    BY <1>2 DEF StopWait, Reported
  <2>6. PendingFits'
    BY <1>2 DEF StopWait, Reported
  <2>7. StepFits'
    BY <1>2 DEF StopWait, Reported
  <2> QED
    BY <2>1, <2>2, <2>3, <2>4, <2>5, <2>6, <2>7 DEF IInv
<1>3. CASE TakeStatus
  <2>1. ProcessTyped'
    BY <1>3 DEF TakeStatus, Reported
  <2>2. SetsTyped'
    BY <1>3 DEF TakeStatus, Reported
  <2>3. FlagsTyped'
    BY <1>3 DEF TakeStatus, Reported
  <2>4. CallTyped'
    BY <1>3 DEF TakeStatus, Reported
  <2>5. StatusFits'
    BY <1>3 DEF TakeStatus, Reported
  <2>6. PendingFits'
    BY <1>3 DEF TakeStatus, Reported
  <2>7. StepFits'
    BY <1>3 DEF TakeStatus, Reported
  <2> QED
    BY <2>1, <2>2, <2>3, <2>4, <2>5, <2>6, <2>7 DEF IInv
<1>4. CASE TimeOut
  <2>1. ProcessTyped'
    BY <1>4 DEF TimeOut
  <2>2. SetsTyped'
    BY <1>4 DEF TimeOut
  <2>3. FlagsTyped'
    BY <1>4 DEF TimeOut
  <2>4. CallTyped'
    BY <1>4 DEF TimeOut
  <2>5. StatusFits'
    BY <1>4 DEF TimeOut
  <2>6. PendingFits'
    BY <1>4 DEF TimeOut
  <2>7. StepFits'
    BY <1>4 DEF TimeOut
  <2> QED
    BY <2>1, <2>2, <2>3, <2>4, <2>5, <2>6, <2>7 DEF IInv
<1>5. CASE StopLate
  <2>1. ProcessTyped'
    BY <1>5 DEF StopLate, StopRequest
  <2>2. SetsTyped'
    BY <1>5 DEF StopLate, StopRequest
  <2>3. FlagsTyped'
    BY <1>5 DEF StopLate, StopRequest
  <2>4. CallTyped'
    BY <1>5 DEF StopLate, StopRequest
  <2>5. StatusFits'
    BY <1>5 DEF StopLate, StopRequest
  <2>6. PendingFits'
    BY <1>5 DEF StopLate, StopRequest
  <2>7. StepFits'
    BY <1>5 DEF StopLate, StopRequest
  <2> QED
    BY <2>1, <2>2, <2>3, <2>4, <2>5, <2>6, <2>7 DEF IInv
<1>6. CASE Handle
  <2>1. pc = "handle" /\ op \in Calls /\ UNCHANGED <<traced, pend, patched, stops, attached, seized, setup>>
    BY <1>6 DEF Handle
  <2>2. CASE ~Stopped /\ (Leave("CONT_FAILED") \/ Leave("REGS_FAILED"))
    <3>1. ProcessTyped'
      BY <2>1, <2>2 DEF Leave
    <3>2. SetsTyped'
      BY <2>1, <2>2 DEF Leave
    <3>3. FlagsTyped'
      BY <2>1, <2>2 DEF Leave
    <3>4. CallTyped'
      BY <2>1, <2>2 DEF Leave
    <3>5. StatusFits'
      BY <2>1, <2>2 DEF Leave
    <3>6. PendingFits'
      BY <2>1, <2>2 DEF Leave
    <3>7. StepFits'
      BY <2>1, <2>2 DEF Leave
    <3> QED
      BY <3>1, <3>2, <3>3, <3>4, <3>5, <3>6, <3>7 DEF IInv
  <2>3. CASE Stopped /\ Continue
    <3>1. ProcessTyped'
      BY <2>1, <2>3 DEF Continue, Resume
    <3>2. SetsTyped'
      BY <2>1, <2>3 DEF Continue, Resume
    <3>3. FlagsTyped'
      BY <2>1, <2>3 DEF Continue, Resume
    <3>4. CallTyped'
      BY <2>1, <2>3 DEF Continue, Resume
    <3>5. StatusFits'
      BY <2>1, <2>3 DEF Continue, Resume
    <3>6. PendingFits'
      BY <2>1, <2>3 DEF Continue, Resume
    <3>7. StepFits'
      BY <2>1, <2>3 DEF Continue, Resume
    <3> QED
      BY <3>1, <3>2, <3>3, <3>4, <3>5, <3>6, <3>7 DEF IInv
  <2>4. CASE Stopped /\ Leave("SUCCESS")
    BY <2>1, <2>4 DEF Leave
  <2>5. CASE Stopped /\ OtherStop
    <3>1. ProcessTyped'
      BY <2>1, <2>5 DEF OtherStop, Continue, Resume
    <3>2. SetsTyped'
      BY <2>1, <2>5 DEF OtherStop, Continue, Resume
    <3>3. FlagsTyped'
      BY <2>1, <2>5 DEF OtherStop, Continue, Resume
    <3>4. CallTyped'
      BY <2>1, <2>5 DEF OtherStop, Continue, Resume
    <3>5. StatusFits'
      BY <2>1, <2>5 DEF OtherStop, Continue, Resume
    <3>6. PendingFits'
      BY <2>1, <2>5 DEF OtherStop, Continue, Resume
    <3>7. StepFits'
      BY <2>1, <2>5 DEF OtherStop, Continue, Resume
    <3> QED
      BY <3>1, <3>2, <3>3, <3>4, <3>5, <3>6, <3>7 DEF IInv
  <2> QED
    BY <1>6, <2>2, <2>3, <2>4, <2>5 DEF Handle
<1>7. CASE CleanUp
  <2>1. ProcessTyped'
    BY <1>7 DEF CleanUp, PutBack
  <2>2. SetsTyped'
    BY <1>7 DEF CleanUp, PutBack
  <2>3. FlagsTyped'
    BY <1>7 DEF CleanUp, PutBack
  <2>4. CallTyped'
    BY <1>7 DEF CleanUp, PutBack
  <2>5. StatusFits'
    BY <1>7 DEF CleanUp, PutBack
  <2>6. PendingFits'
    BY <1>7 DEF CleanUp, PutBack
  <2>7. StepFits'
    BY <1>7 DEF CleanUp, PutBack
  <2> QED
    BY <2>1, <2>2, <2>3, <2>4, <2>5, <2>6, <2>7 DEF IInv
<1>8. CASE Skip
  <2>1. ProcessTyped'
    BY <1>8 DEF Skip, Resume
  <2>2. SetsTyped'
    BY <1>8 DEF Skip, Resume
  <2>3. FlagsTyped'
    BY <1>8 DEF Skip, Resume
  <2>4. CallTyped'
    BY <1>8 DEF Skip, Resume
  <2>5. StatusFits'
    BY <1>8 DEF Skip, Resume
  <2>6. PendingFits'
    BY <1>8 DEF Skip, Resume
  <2>7. StepFits'
    BY <1>8 DEF Skip, Resume
  <2> QED
    BY <2>1, <2>2, <2>3, <2>4, <2>5, <2>6, <2>7 DEF IInv
<1>9. CASE SkipWait
  <2>1. ProcessTyped'
    BY <1>9 DEF SkipWait, Reported
  <2>2. SetsTyped'
    BY <1>9 DEF SkipWait, Reported
  <2>3. FlagsTyped'
    BY <1>9 DEF SkipWait, Reported
  <2>4. CallTyped'
    BY <1>9 DEF SkipWait, Reported
  <2>5. StatusFits'
    BY <1>9 DEF SkipWait, Reported
  <2>6. PendingFits'
    BY <1>9 DEF SkipWait, Reported
  <2>7. StepFits'
    BY <1>9 DEF SkipWait, Reported
  <2> QED
    BY <2>1, <2>2, <2>3, <2>4, <2>5, <2>6, <2>7 DEF IInv
<1>10. CASE Again
  <2>1. ProcessTyped'
    BY <1>10 DEF Again, SetBreak, Resume, Mark
  <2>2. SetsTyped'
    BY <1>10 DEF Again, SetBreak, Resume, Mark
  <2>3. FlagsTyped'
    BY <1>10 DEF Again, SetBreak, Resume, Mark
  <2>4. CallTyped'
    BY <1>10 DEF Again, SetBreak, Resume, Mark
  <2>5. StatusFits'
    BY <1>10 DEF Again, SetBreak, Resume, Mark
  <2>6. PendingFits'
    BY <1>10 DEF Again, SetBreak, Resume, Mark
  <2>7. StepFits'
    BY <1>10 DEF Again, SetBreak, Resume, Mark
  <2> QED
    BY <2>1, <2>2, <2>3, <2>4, <2>5, <2>6, <2>7 DEF IInv
<1> QED
  BY <1>1, <1>2, <1>3, <1>4, <1>5, <1>6, <1>7, <1>8, <1>9, <1>10 DEF Manager

-----------------------------------------------------------------------------
LEMMA Inductive == IInv /\ [Next]_vars => IInv'
<1> SUFFICES ASSUME IInv, [Next]_vars PROVE IInv'
  OBVIOUS
<1>1. CASE Process
  BY <1>1, ProcessStep
<1>2. CASE Caller
  BY <1>2, CallerStep
<1>3. CASE Manager
  BY <1>3, ManagerStep
<1>4. CASE UNCHANGED vars
  BY <1>4 DEF IInv, ProcessTyped, SetsTyped, FlagsTyped, CallTyped, StatusFits, PendingFits, StepFits,
       Over, Alive, Contexts, Calls, Breaks, vars, process, setup, call, locals
<1> QED
  BY <1>1, <1>2, <1>3, <1>4 DEF Next

LEMMA Always == Spec => []IInv
BY Initially, Inductive, PTL DEF Spec

\* The state of process, manager and call keeps its type.
THEOREM TypeCorrect == Spec => []TypeOK
<1>1. IInv => TypeOK
  BY TypesAre DEF IInv
<1> QED
  BY Always, <1>1, PTL

\* With any number of signals, breakpoints, timeouts and managers: detach() does not
\* leave a process frozen that the manager it is called on has seized.
THEOREM SeizedIsNeverFrozen == Spec => NeverFrozenWhenSeized
<1>1. IInv /\ [Next]_vars => [life' = "frozen" => ~seized]_vars
  <2> SUFFICES ASSUME IInv, [Next]_vars, life' = "frozen" PROVE ~seized
    OBVIOUS
  <2>1. CASE life = "frozen"
    BY <2>1 DEF IInv, PendingFits
  <2>2. CASE life # "frozen"
    <3>1. ~Process
      BY <2>2 DEF Process, Signal, StopArrives, Interrupted, Return, Hit, Stepped, RunOn, Die, Halt
    <3>2. ~Manager
      BY <2>2 DEF Manager, AttachWait, StopWait, TakeStatus, TimeOut, StopLate, Handle, CleanUp, Skip, SkipWait,
           Again, Reported, Leave, Continue, OtherStop, Resume, SetBreak, process
    <3>3. Caller
      BY <2>2, <3>1, <3>2 DEF Next, vars, process
    <3>4. Detach
      BY <2>2, <3>3 DEF Caller, Construct, Reattach, Attach, Seize, Trace, Stop, Cont, Step, Wait, BeginCall,
           BeginSyscall, BeginBreak, SetBreak, Run, Reported, Resume, process
    <3>5. "STOP" \in pend
      BY <2>2, <3>4 DEF Detach, Reported, process
    <3> QED
      BY <3>5 DEF IInv, PendingFits
  <2> QED
    BY <2>1, <2>2
<1> QED
  BY Always, <1>1, PTL DEF Spec, NeverFrozenWhenSeized

LEMMA EndOfCall ==
  ASSUME IInv, Next, Ends, op \in Calls, res' # "MISMATCH_STOP"
  PROVE  HandedBack
<1>1. ~Process
  BY DEF Ends, Process, Signal, StopArrives, Interrupted, Return, Hit, Stepped, RunOn, Die, Halt, Environment, call
<1>2. ~Caller
  BY DEF Ends, Caller, Construct, Reattach, Attach, Seize, Trace, Stop, Cont, Step, Wait, Detach, BeginCall,
     BeginSyscall, BeginBreak
<1>3. TakeStatus \/ CleanUp \/ Skip \/ SkipWait \/ Again
  <2>1. ~AttachWait /\ ~StopWait /\ ~TimeOut /\ ~StopLate
    BY DEF Ends, AttachWait, StopWait, TimeOut, StopLate, Goto, IInv, StepFits, Calls, Breaks
  <2>2. ~Handle
    BY DEF Ends, Handle, Leave, Continue, OtherStop, Goto
  <2> QED
    BY <1>1, <1>2, <2>1, <2>2 DEF Next, Manager
<1>4. CASE TakeStatus
  BY <1>4 DEF TakeStatus, Reported, Goto, Ends, HandedBack
<1>5. CASE Skip
  BY <1>5 DEF Skip, Stopped, Goto, Ends, HandedBack, IInv, StepFits, Over
<1>6. CASE SkipWait
  BY <1>6 DEF SkipWait, Reported, Goto, Ends, HandedBack
<1>7. CASE Again
  BY <1>7 DEF Again, SetBreak, Stopped, Enter, Ends, HandedBack, IInv, StepFits, Over, process
<1>8. CASE CleanUp
  <2>1. pc = "cleanup" /\ life' = life /\ x86' = x86
    BY <1>8 DEF CleanUp, setup
  <2>2. res' = IF op = "soft" /\ res = "SUCCESS" /\ ~Stopped THEN "MEM_FAILED" ELSE res
    BY <1>8 DEF CleanUp, Finish, Goto, Ends
  <2>3. res \in {"SUCCESS", "TIMEOUT", "CONT_FAILED", "REGS_FAILED"} /\ (life = "stopped" \/ Over)
    BY <2>1, <2>2 DEF IInv, StepFits
  <2>4. CASE Over
    BY <2>1, <2>4 DEF Over, HandedBack
  <2>5. CASE life = "stopped"
    <3>1. PutBack /\ res' = res /\ res \in {"SUCCESS", "TIMEOUT"}
      BY <1>8, <2>1, <2>2, <2>3, <2>5 DEF CleanUp, Stopped, IInv, StepFits, Over
    <3>2. op \in {"call", "syscall"} /\ auto => ctx' = bakRegs
      BY <3>1 DEF PutBack
    <3>3. op # "hard" => patched' = (IF op = "call" THEN patched ELSE bakCode)
      BY <3>1 DEF PutBack
    <3>4. op = "hard" => "hw" \notin patched'
      BY <3>1 DEF PutBack
    <3>5. op = "soft" /\ ctx' = "past" => x86 /\ res' = "TIMEOUT"
      <4> SUFFICES ASSUME op = "soft", ctx' = "past" PROVE x86 /\ res' = "TIMEOUT"
        OBVIOUS
      <4>1. res # "SUCCESS" /\ ctx' = ctx
        BY <3>1 DEF PutBack
      <4> QED
        BY <3>1, <4>1 DEF IInv, StepFits
    <3> QED
      BY <2>1, <2>5, <3>2, <3>3, <3>4, <3>5 DEF HandedBack
  <2> QED
    BY <2>3, <2>4, <2>5
<1> QED
  BY <1>3, <1>4, <1>5, <1>6, <1>7, <1>8

\* Every end of a remote call, syscall or breakpoint but a wrong stop hands back a
\* process that is over, or stopped with its own registers and code, whatever
\* happened to it meanwhile.
THEOREM CallsReturnCleanly == Spec => CleanReturn
<1>1. IInv /\ [Next]_vars => [Ends /\ op \in Calls /\ res' # "MISMATCH_STOP" => HandedBack]_vars
  BY EndOfCall
<1> QED
  BY Always, <1>1, PTL DEF Spec, CleanReturn

\* Where nothing but the manager disturbs a process it is attached to, a call's process
\* is in the function until it stops at the return address, or for a SIGSTOP.
AttachedFits == traced = "attached" => "INT" \notin pend /\ ~seized
Undisturbed == stops = 0 /\ traced = "attached" /\ op = "call" /\ pc \in {"wait", "handle"}
CallFits ==
  /\ ctx \in {"func", "ret"} /\ ~stepping
  /\ status \in {"none", "STOP", "OTHER", "EXIT"} /\ seen \in {"none", "STOP", "OTHER"}
  /\ life = "running" \/ status = "STOP" \/ seen = "STOP" => ctx = "func"
  /\ status = "OTHER" \/ seen = "OTHER" => ctx = "ret"
  /\ pc = "handle" => seen # "none"
SeenFits == pc # "handle" => seen = "none"
QuietInv == AttachedFits /\ SeenFits /\ (Undisturbed => CallFits)

LEMMA AttachedStep ==
  ASSUME IInv, AttachedFits, Next
  PROVE  AttachedFits'
<1> SUFFICES ASSUME traced' = "attached" PROVE "INT" \notin pend' /\ ~seized'
  BY DEF AttachedFits
<1>1. CASE Process
  <2>1. traced' = traced /\ seized' = seized /\ pend' \subseteq pend
    BY <1>1 DEF Process, Signal, StopArrives, Interrupted, Return, Hit, Stepped, RunOn, Die, Halt, Environment
  <2> QED
    BY <2>1 DEF AttachedFits
<1>2. CASE Caller
  <2>1. CASE Attach
    BY <2>1 DEF Attach
  <2>2. CASE Construct \/ Reattach \/ Seize \/ Cont \/ Step \/ Wait \/ BeginCall \/ BeginSyscall \/ BeginBreak
    <3>1. traced' = traced \/ traced' = "no" \/ traced' = "seized"
      BY <2>2 DEF Construct, Reattach, Seize, Trace, Cont, Step, Wait, Reported, BeginCall, BeginSyscall, BeginBreak, SetBreak, process
    <3>2. pend' = pend /\ (seized' = seized \/ seized' = FALSE \/ traced' = "seized")
      BY <2>2 DEF Construct, Reattach, Seize, Trace, Cont, Step, Wait, Reported, BeginCall, BeginSyscall, BeginBreak, SetBreak, process
    <3> QED
      BY <3>1, <3>2 DEF AttachedFits
  <2>3. CASE Stop
    BY <2>3 DEF Stop, StopRequest, AttachedFits
  <2>4. CASE Detach
    BY <2>4 DEF Detach, Reported, process, AttachedFits
  <2> QED
    BY <1>2, <2>1, <2>2, <2>3, <2>4 DEF Caller
<1>3. CASE Manager
  <2>1. CASE StopLate
    BY <2>1 DEF StopLate, StopRequest, AttachedFits
  <2>2. CASE ~StopLate
    <3>1. pend' = pend /\ seized' = seized /\ (traced' = traced \/ traced' = "no")
      BY <1>3, <2>2 DEF Manager, AttachWait, StopWait, TakeStatus, TimeOut, Handle, CleanUp, Skip, SkipWait, Again,
         SetBreak, Reported, process
    <3> QED
      BY <3>1 DEF AttachedFits
  <2> QED
    BY <2>1, <2>2
<1> QED
  BY <1>1, <1>2, <1>3 DEF Next

LEMMA SeenStep ==
  ASSUME IInv, SeenFits, Next
  PROVE  SeenFits'
<1>1. CASE Process
  BY <1>1 DEF Process, Signal, StopArrives, Interrupted, Return, Hit, Stepped, RunOn, Die, Halt, Environment, call, locals, SeenFits
<1>2. CASE Caller
  <2>1. seen' = "none" \/ (pc = "idle" /\ seen' = seen)
    BY <1>2 DEF Caller, Construct, Reattach, Attach, Seize, Trace, Stop, Cont, Step, Wait, Detach, BeginCall, BeginSyscall,
       BeginBreak, SetBreak, Finish, Enter, locals
  <2> QED
    BY <2>1 DEF SeenFits
<1>3. CASE Manager
  <2>1. CASE TakeStatus
    BY <2>1 DEF TakeStatus, Finish, Goto, SeenFits
  <2>2. CASE Handle
    BY <2>2 DEF Handle, Leave, Continue, OtherStop, SeenFits
  <2>3. CASE ~TakeStatus /\ ~Handle
    <3>1. seen' = "none" \/ (pc # "handle" /\ seen' = seen)
      BY <1>3, <2>3 DEF Manager, AttachWait, StopWait, TimeOut, StopLate, CleanUp, Skip, SkipWait, Again, SetBreak,
         Finish, Goto, Enter, locals
    <3> QED
      BY <3>1 DEF SeenFits
  <2> QED
    BY <2>1, <2>2, <2>3
<1> QED
  BY <1>1, <1>2, <1>3 DEF Next

LEMMA CallStep ==
  ASSUME IInv, QuietInv, Next, Undisturbed'
  PROVE  CallFits'
<1>1. CASE Process
  <2>1. stops = 0 /\ UNCHANGED <<traced, seen, op, pc>> /\ ~Signal /\ ~Hit
    BY <1>1 DEF Process, Signal, StopArrives, Interrupted, Return, Hit, Stepped, RunOn, Die, Environment, Halt, call, locals,
       Undisturbed, IInv, ProcessTyped
  <2>2. Undisturbed /\ CallFits /\ "INT" \notin pend
    BY <2>1 DEF Undisturbed, QuietInv, AttachedFits
  <2>3. ~Interrupted /\ ~Stepped /\ ~RunOn
    BY <2>2 DEF Interrupted, Stepped, RunOn, CallFits
  <2>4. CASE StopArrives
    BY <2>1, <2>2, <2>4 DEF StopArrives, Halt, CallFits, IInv, StepFits, Over
  <2>5. CASE Return
    <3>1. life = "running" /\ life' = "stopped" /\ status' = "OTHER" /\ stepping' = FALSE /\ ctx' = "ret"
      BY <2>5 DEF Return, Halt
    <3>2. seen = "none"
      BY <3>1 DEF QuietInv, SeenFits, IInv, StepFits, Over
    <3> QED
      BY <2>1, <2>2, <3>1, <3>2 DEF CallFits
  <2>6. CASE Die
    BY <2>1, <2>2, <2>6 DEF Die, Environment, CallFits
  <2> QED
    BY <1>1, <2>1, <2>3, <2>4, <2>5, <2>6 DEF Process
<1>2. CASE Caller
  <2>1. CASE BeginCall
    <3>1. pc = "idle" /\ seen' = seen /\ Run("func", FALSE) /\ pc' = "wait"
      BY <2>1 DEF BeginCall, Undisturbed, Finish, Enter
    <3>2. seen' = "none"
      BY <3>1 DEF QuietInv, SeenFits
    <3> QED
      BY <3>1, <3>2 DEF Run, CallFits
  <2>2. CASE ~BeginCall
    <3>1. pc' = "idle" \/ op' # "call"
      BY <1>2, <2>2 DEF Caller, Construct, Reattach, Attach, Seize, Stop, Cont, Step, Wait, Detach, BeginSyscall, BeginBreak,
         SetBreak, Finish, Enter, Breaks
    <3> QED
      BY <3>1 DEF Undisturbed
  <2> QED
    BY <2>1, <2>2
<1>3. CASE Manager
  <2>1. CASE TakeStatus
    <3>1. /\ pc = "wait" /\ status # "none" /\ status # "EXIT" /\ status' = "none" /\ seen' = status /\ pc' = "handle"
          /\ UNCHANGED <<life, traced, ctx, stops, stepping, op>>
      BY <2>1 DEF TakeStatus, Reported, Finish, Goto, Undisturbed
    <3>2. Undisturbed /\ CallFits
      BY <3>1 DEF Undisturbed, QuietInv
    <3>3. life # "running"
      BY <3>1, <3>2 DEF CallFits, IInv, StatusFits
    <3> QED
      BY <3>1, <3>2, <3>3 DEF CallFits
  <2>2. CASE Handle
    <3>1. pc = "handle" /\ pc' = "wait" /\ op' = op /\ UNCHANGED <<traced, stops>>
      BY <2>2 DEF Handle, Leave, Continue, OtherStop, Goto, Undisturbed, IInv, StepFits, Calls, Breaks
    <3>2. Undisturbed /\ CallFits
      BY <3>1 DEF Undisturbed, QuietInv
    <3>3. Continue /\ LetPass
      BY <2>2, <3>1, <3>2 DEF Handle, Leave, OtherStop, Goto, Undisturbed
    <3>4. seen = "STOP" /\ ctx = "func"
      BY <3>2, <3>3 DEF LetPass, CallFits
    <3>5. status' = "none" /\ seen' = "none" /\ stepping' = FALSE /\ ctx' = ctx
      BY <3>3, <3>4 DEF Continue, Resume
    <3> QED
      BY <3>1, <3>4, <3>5 DEF CallFits
  <2>3. CASE ~TakeStatus /\ ~Handle
    <3>1. pc' \notin {"wait", "handle"} \/ op' # "call"
      BY <1>3, <2>3 DEF Manager, AttachWait, StopWait, TimeOut, StopLate, CleanUp, Skip, SkipWait, Again, SetBreak,
         Finish, Goto, Enter, IInv, StepFits, Breaks
    <3> QED
      BY <3>1 DEF Undisturbed
  <2> QED
    BY <2>1, <2>2, <2>3
<1> QED
  BY <1>1, <1>2, <1>3 DEF Next

\* A remote call ends at a wrong stop only if a signal from elsewhere or a breakpoint was
\* hit, or the process was seized: a SIGSTOP that an earlier timeout has left is swallowed
\* by the loop of _callFunctionFrom, however often that happens.
THEOREM UndisturbedCallsMatch == Spec => QuietCallsMatch
<1>1. Init => QuietInv
  BY DEF Init, QuietInv, AttachedFits, SeenFits, Undisturbed
<1>2. IInv /\ QuietInv /\ [Next]_vars => QuietInv'
  <2> SUFFICES ASSUME IInv, QuietInv, [Next]_vars PROVE QuietInv'
    OBVIOUS
  <2>1. CASE Next
    BY <2>1, AttachedStep, SeenStep, CallStep DEF QuietInv
  <2>2. CASE UNCHANGED vars
    BY <2>2 DEF vars, process, call, locals, QuietInv, AttachedFits, SeenFits, Undisturbed, CallFits
  <2> QED
    BY <2>1, <2>2
<1>3. IInv /\ QuietInv /\ [Next]_vars =>
        [op = "call" /\ res' = "MISMATCH_STOP" /\ res # res' => stops > 0 \/ traced = "seized"]_vars
  <2> SUFFICES ASSUME IInv, QuietInv, Next, op = "call", res' = "MISMATCH_STOP", res # res', ~(stops > 0), traced # "seized"
               PROVE  FALSE
    OBVIOUS
  <2>1. ~Process
    BY DEF Process, Signal, StopArrives, Interrupted, Return, Hit, Stepped, RunOn, Die, Halt, Environment, call
  <2>2. ~Caller
    BY DEF Caller, Construct, Reattach, Attach, Seize, Stop, Cont, Step, Wait, Detach, BeginCall, BeginSyscall, BeginBreak,
       SetBreak, Finish, Enter
  <2>3. Handle
    BY <2>1, <2>2 DEF Next, Manager, AttachWait, StopWait, TakeStatus, TimeOut, StopLate, CleanUp, Skip, SkipWait, Again,
       SetBreak, Finish, Goto, Enter
  <2>4. pc = "handle" /\ Stopped /\ ~LetPass /\ ~Expected
    BY <2>3 DEF Handle, Leave, Continue, OtherStop
  <2>5. traced = "attached" /\ stops = 0
    BY <2>4 DEF Stopped, IInv, PendingFits, ProcessTyped
  <2>6. CallFits
    BY <2>4, <2>5 DEF QuietInv, Undisturbed
  <2> QED
    BY <2>4, <2>6 DEF CallFits, LetPass, Expected
<1> QED
  BY Always, <1>1, <1>2, <1>3, PTL DEF Spec, QuietCallsMatch

-----------------------------------------------------------------------------
(* The watchpoints.                                                        *)

Words == [kind : {"free", "sample", "lost"}, hit : Nat, part : Nat]

WatchTypeOK ==
  /\ ring \in [Watch -> [0..(Size - 1) -> Words]] /\ head \in [Watch -> Nat] /\ tail \in [Watch -> Nat]
  /\ lost \in [Watch -> Nat] /\ hits \in Nat /\ passed \subseteq 1..hits /\ told \subseteq passed
  /\ watches \in Seq(Watch) /\ todo \in Seq(Watch) /\ at \in Nat /\ end \in Nat
  /\ step \in {"head", "read"} => todo # <<>>
  /\ \A w \in Watch : tail[w] <= head[w] /\ head[w] - tail[w] < Size

Cell(w, j) == ring[w][j % Size]

\* From where on the ring of w has not been read.
First(w) == IF step = "read" /\ w = Head(todo) THEN at ELSE tail[w]

\* The record with position j lies whole between two others.
WholeIn(r, from, to, j) ==
  LET c == r[j % Size]
      s == j - c.part
  IN  /\ c.kind \in {"sample", "lost"} /\ c.part < Length(c.kind)
      /\ from <= s /\ s + Length(c.kind) <= to
      /\ \A k \in 0..(Length(c.kind) - 1) : r[(s + k) % Size] = [kind |-> c.kind, hit |-> c.hit, part |-> k]
Whole(w, j) == WholeIn(ring[w], tail[w], head[w], j)
InPlace == \A w \in Watch : \A j \in tail[w]..(head[w] - 1) : Whole(w, j)

\* A record starts at j, or will.
Starts(w, j) == j = head[w] \/ (j < head[w] /\ Cell(w, j).part = 0)

\* The cursor and the end of the reading lie between records.
Reading ==
  step = "read" =>
    /\ tail[Head(todo)] <= at /\ at <= end /\ end <= head[Head(todo)]
    /\ Starts(Head(todo), at) /\ Starts(Head(todo), end)

\* What has not been read is no hit passed already, and each hit has one record.
Unread(w, j) == First(w) <= j /\ j < head[w] /\ Cell(w, j).kind = "sample"
Fresh ==
  /\ \A w \in Watch, j \in Nat : Unread(w, j) => Cell(w, j).hit \in (1..hits) \ passed
  /\ \A w, v \in Watch, j, k \in Nat :
       Unread(w, j) /\ Unread(v, k) /\ Cell(w, j).hit = Cell(v, k).hit =>
          w = v /\ j - Cell(w, j).part = k - Cell(v, k).part

SampleOf(h) == [i \in 1..4 |-> [kind |-> "sample", hit |-> h, part |-> i]]
OutIsReal == out = <<>> \/ \E h \in passed \ told : out = SampleOf(h)

WatchInv == WatchTypeOK /\ InPlace /\ Reading /\ Fresh /\ OutIsReal

-----------------------------------------------------------------------------
(* Positions and offsets in the ring.                                      *)

LEMMA ModIs ==
  ASSUME NEW a \in Int
  PROVE  a % Size \in 0..(Size - 1) /\ \E q \in Int : a = Size * q + (a % Size)
<1>1. a % Size \in 0..(Size - 1)
  BY SizeAssumption
<1>2. a = Size * (a \div Size) + (a % Size) /\ (a \div Size) \in Int
  BY SizeAssumption
<1> QED
  BY <1>1, <1>2

LEMMA TimesSize ==
  ASSUME NEW n \in Int, n >= 1
  PROVE  Size * n >= Size
BY SizeAssumption

LEMMA ModUnique ==
  ASSUME NEW a \in Int, NEW q \in Int, NEW r \in 0..(Size - 1), a = Size * q + r
  PROVE  a % Size = r
<1>1. PICK p \in Int : a = Size * p + (a % Size)
  BY ModIs
<1>2. a % Size \in 0..(Size - 1)
  BY ModIs
<1>3. Size * (p - q) = r - (a % Size)
  BY SizeAssumption, <1>1, <1>2
<1>6. Size * (q - p) = (a % Size) - r
  BY SizeAssumption, <1>1, <1>2
<1>4. (p - q >= 1 => Size * (p - q) >= Size) /\ (q - p >= 1 => Size * (q - p) >= Size)
  BY TimesSize
<1>5. p = q
  BY SizeAssumption, <1>2, <1>3, <1>4, <1>6
<1> QED
  BY SizeAssumption, <1>1, <1>2, <1>5

\* The offset of a position from another, whether or not the ring ends between them.
LEMMA OffsetIs ==
  ASSUME NEW j \in Int, NEW from \in Int, j - from < Size, from - j <= Size
  PROVE  ((j % Size) - from) % Size = IF j >= from THEN j - from ELSE j - from + Size
<1>1. PICK q \in Int : j = Size * q + (j % Size)
  BY ModIs
<1>2. j % Size \in Int
  BY ModIs
<1>3. CASE j >= from
  <2>1. (j % Size) - from = Size * (-q) + (j - from) /\ j - from \in 0..(Size - 1)
    BY <1>1, <1>2, <1>3, SizeAssumption
  <2> QED
    BY <1>2, <1>3, <2>1, ModUnique
<1>4. CASE j < from
  <2>1. (j % Size) - from = Size * (-q - 1) + (j - from + Size) /\ j - from + Size \in 0..(Size - 1)
    BY <1>1, <1>2, <1>4, SizeAssumption
  <2> QED
    BY <1>2, <1>4, <2>1, ModUnique
<1> QED
  BY <1>3, <1>4

\* new is the ring old with a record put at `from`, part by part.
IsPut(new, old, from, kind, hit) ==
  /\ new \in [0..(Size - 1) -> Words]
  /\ \A k \in 0..(Length(kind) - 1) : new[(from + k) % Size] = [kind |-> kind, hit |-> hit, part |-> k]
  /\ \A j \in Int : j < from /\ from - j <= Size - Length(kind) => new[j % Size] = old[j % Size]

LEMMA WithIs ==
  ASSUME NEW r \in [0..(Size - 1) -> Words], NEW from \in Nat, NEW kind \in {"sample", "lost"}, NEW hit \in Nat,
         Length(kind) <= Size
  PROVE  IsPut(With(r, from, kind, hit), r, from, kind, hit)
<1> DEFINE put == With(r, from, kind, hit)
<1>1. Length(kind) \in 1..Size /\ Size \in Nat
  BY SizeAssumption DEF Length
<1>2. \A i \in 0..(Size - 1) :
        put[i] = IF (i - from) % Size < Length(kind) THEN [kind |-> kind, hit |-> hit, part |-> (i - from) % Size] ELSE r[i]
  BY DEF With
<1>3. put \in [0..(Size - 1) -> Words]
  <2>1. ASSUME NEW i \in 0..(Size - 1) PROVE put[i] \in Words
    <3>1. i - from \in Int
      BY <1>1
    <3>2. (i - from) % Size \in 0..(Size - 1)
      BY <3>1, ModIs
    <3>3. (i - from) % Size \in Nat
      BY <3>2
    <3>4. [kind |-> kind, hit |-> hit, part |-> (i - from) % Size] \in Words
      BY <3>3 DEF Words
    <3>5. r[i] \in Words
      OBVIOUS
    <3> QED
      BY <1>2, <3>4, <3>5, Zenon
  <2> QED
    BY <2>1 DEF With
<1> HIDE DEF put
<1>4. ASSUME NEW k \in 0..(Length(kind) - 1) PROVE put[(from + k) % Size] = [kind |-> kind, hit |-> hit, part |-> k]
  <2>1. from + k \in Int /\ (from + k) - from < Size /\ from - (from + k) <= Size /\ from + k >= from /\ (from + k) - from = k
    BY <1>1
  <2>2. (((from + k) % Size) - from) % Size = k
    BY <2>1, OffsetIs
  <2>3. (from + k) % Size \in 0..(Size - 1)
    BY <2>1, ModIs
  <2>4. k < Length(kind)
    BY <1>1
  <2> QED
    BY <1>2, <2>2, <2>3, <2>4
<1>5. ASSUME NEW j \in Int, j < from, from - j <= Size - Length(kind) PROVE put[j % Size] = r[j % Size]
  <2>1. j - from < Size /\ from - j <= Size /\ ~(j >= from) /\ ~(j - from + Size < Length(kind))
    BY <1>1, <1>5
  <2>2. ((j % Size) - from) % Size = j - from + Size
    BY <2>1, OffsetIs
  <2>3. j % Size \in 0..(Size - 1)
    BY ModIs
  <2> QED
    BY <1>2, <2>1, <2>2, <2>3
<1> QED
  BY <1>3, <1>4, <1>5 DEF put, IsPut

-----------------------------------------------------------------------------
(* The kernel.                                                             *)

LEMMA CellTyped ==
  ASSUME WatchTypeOK, NEW w \in Watch, NEW j \in Int
  PROVE  Cell(w, j) \in Words /\ Cell(w, j).part \in Nat /\ Cell(w, j).hit \in Nat
<1>1. j % Size \in 0..(Size - 1)
  BY ModIs
<1>2. Cell(w, j) \in Words
  BY <1>1 DEF WatchTypeOK, Cell
<1> QED
  BY <1>2 DEF Words

\* A hit leaves the ring alone, or puts a sample, and before it the record of lost
\* hits, behind what has not been read.
Appends(w, f) ==
  /\ head' = [head EXCEPT ![w] = head[w] + f + 5] /\ head[w] - tail[w] + f + 5 < Size
  /\ ring' \in [Watch -> [0..(Size - 1) -> Words]]
  /\ \A v \in Watch \ {w} : ring'[v] = ring[v]
  /\ \A j \in Int : tail[w] <= j /\ j < head[w] => ring'[w][j % Size] = ring[w][j % Size]
  /\ f = 3 => \A k \in 0..2 : ring'[w][(head[w] + k) % Size] = [kind |-> "lost", hit |-> 0, part |-> k]
  /\ \A k \in 0..4 : ring'[w][(head[w] + f + k) % Size] = [kind |-> "sample", hit |-> hits + 1, part |-> k]

LEMMA WatchedIs ==
  ASSUME WatchTypeOK, NEW w \in Watch, Watched(w)
  PROVE  /\ lost' \in [Watch -> Nat]
         /\ (UNCHANGED <<ring, head>>) \/ Appends(w, 0) \/ Appends(w, 3)
<1> DEFINE first == IF lost[w] > 0 THEN 3 ELSE 0
           before == IF lost[w] > 0 THEN With(ring[w], head[w], "lost", 0) ELSE ring[w]
           after == With(before, head[w] + first, "sample", hits + 1)
<1>1. /\ head[w] \in Nat /\ tail[w] \in Nat /\ lost[w] \in Nat /\ ring[w] \in [0..(Size - 1) -> Words]
      /\ hits + 1 \in Nat /\ Size \in Nat /\ tail[w] <= head[w] /\ first \in {0, 3}
  BY SizeAssumption DEF WatchTypeOK
<1>2. CASE ~(head[w] - tail[w] + first + 5 < Size)
  <2>1. lost' = [lost EXCEPT ![w] = lost[w] + 1] /\ UNCHANGED <<ring, head>>
    BY <1>2 DEF Watched
  <2>2. lost' \in [Watch -> Nat]
    <3>1. lost \in [Watch -> Nat] /\ lost[w] + 1 \in Nat
      BY <1>1 DEF WatchTypeOK
    <3> QED
      BY <2>1, <3>1
  <2> QED
    BY <2>1, <2>2
<1>3. CASE head[w] - tail[w] + first + 5 < Size
  <2>1. /\ ring' = [ring EXCEPT ![w] = after] /\ head' = [head EXCEPT ![w] = head[w] + first + 5]
        /\ lost' = [lost EXCEPT ![w] = 0]
    BY <1>3 DEF Watched
  <2>2. Length("sample") = 5 /\ Length("lost") = 3
    BY DEF Length
  <2>3. /\ before \in [0..(Size - 1) -> Words]
        /\ \A j \in Int : tail[w] <= j /\ j < head[w] => before[j % Size] = ring[w][j % Size]
        /\ first = 3 => \A k \in 0..2 : before[(head[w] + k) % Size] = [kind |-> "lost", hit |-> 0, part |-> k]
    <3>1. CASE lost[w] > 0
      <4> DEFINE b == With(ring[w], head[w], "lost", 0)
      <4>1. Length("lost") <= Size /\ "lost" \in {"sample", "lost"} /\ 0 \in Nat
        BY <1>1, <1>3, <2>2, <3>1
      <4>2. /\ b \in [0..(Size - 1) -> Words]
            /\ \A k \in 0..(Length("lost") - 1) : b[(head[w] + k) % Size] = [kind |-> "lost", hit |-> 0, part |-> k]
            /\ \A j \in Int : j < head[w] /\ head[w] - j <= Size - Length("lost") => b[j % Size] = ring[w][j % Size]
        BY <1>1, <4>1, WithIs DEF IsPut
      <4> HIDE DEF b
      <4>3. before = b
        BY <3>1 DEF b
      <4>4. \A j \in Int : tail[w] <= j /\ j < head[w] => head[w] - j <= Size - 3
        BY <1>1, <1>3
      <4> HIDE DEF before
      <4> QED
        BY <2>2, <4>2, <4>3, <4>4
    <3>2. CASE ~(lost[w] > 0)
      BY <1>1, <3>2
    <3> QED
      BY <3>1, <3>2
  <2> HIDE DEF before
  <2>4. /\ after \in [0..(Size - 1) -> Words]
        /\ \A k \in 0..4 : after[(head[w] + first + k) % Size] = [kind |-> "sample", hit |-> hits + 1, part |-> k]
        /\ \A j \in Int : j < head[w] + first /\ (head[w] + first) - j <= Size - 5 => after[j % Size] = before[j % Size]
    <3>1. Length("sample") <= Size /\ "sample" \in {"sample", "lost"} /\ head[w] + first \in Nat
      BY <1>1, <1>3, <2>2
    <3> DEFINE from == head[w] + first
    <3>2. IsPut(after, before, from, "sample", hits + 1)
      BY <1>1, <2>3, <3>1, WithIs
    <3> HIDE DEF from, after
    <3>3. /\ after \in [0..(Size - 1) -> Words]
          /\ \A k \in 0..4 : after[(from + k) % Size] = [kind |-> "sample", hit |-> hits + 1, part |-> k]
          /\ \A j \in Int : j < from /\ from - j <= Size - 5 => after[j % Size] = before[j % Size]
      BY <2>2, <3>2 DEF IsPut
    <3> QED
      BY <3>3 DEF from
  <2> HIDE DEF first, after
  <2>5. \A j \in Int : tail[w] <= j /\ j < head[w] => after[j % Size] = ring[w][j % Size]
    <3>1. \A j \in Int : tail[w] <= j /\ j < head[w] => j < head[w] + first /\ (head[w] + first) - j <= Size - 5
      BY <1>1, <1>3
    <3> QED
      BY <2>3, <2>4, <3>1
  <2>6. first = 3 => \A k \in 0..2 : after[(head[w] + k) % Size] = [kind |-> "lost", hit |-> 0, part |-> k]
    <3> SUFFICES ASSUME first = 3, NEW k \in 0..2
                 PROVE  after[(head[w] + k) % Size] = [kind |-> "lost", hit |-> 0, part |-> k]
      OBVIOUS
    <3>1. head[w] + k \in Int /\ head[w] + k < head[w] + first /\ (head[w] + first) - (head[w] + k) <= Size - 5
      <4>1. head[w] \in Nat /\ tail[w] \in Nat /\ Size \in Nat /\ tail[w] <= head[w]
        BY <1>1
      <4>2. head[w] - tail[w] + 3 + 5 < Size
        BY <1>3
      <4>3. head[w] + 3 - (head[w] + k) <= Size - 5
        BY <4>1, <4>2
      <4> QED
        BY <4>1, <4>3
    <3> QED
      BY <2>3, <2>4, <3>1
  <2>7. ring'[w] = after /\ ring' \in [Watch -> [0..(Size - 1) -> Words]] /\ \A v \in Watch \ {w} : ring'[v] = ring[v]
    BY <2>1, <2>4 DEF WatchTypeOK
  <2>8. Appends(w, first)
    BY <1>3, <2>1, <2>4, <2>5, <2>6, <2>7 DEF Appends
  <2>9. lost' \in [Watch -> Nat]
    BY <2>1 DEF WatchTypeOK
  <2> QED
    BY <1>1, <2>8, <2>9
<1> QED
  BY <1>2, <1>3

LEMMA WholeKept ==
  ASSUME WatchTypeOK, NEW w \in Watch, NEW j \in Int, tail[w] <= j, j < head[w], Whole(w, j),
         tail'[w] = tail[w], head'[w] \in Nat, head'[w] >= head[w],
         \A i \in Int : tail[w] <= i /\ i < head[w] => ring'[w][i % Size] = ring[w][i % Size]
  PROVE  Whole(w, j)'
<1> DEFINE c == Cell(w, j)
           s == j - c.part
<1>1. /\ c.kind \in {"sample", "lost"} /\ c.part < Length(c.kind)
      /\ tail[w] <= s /\ s + Length(c.kind) <= head[w]
      /\ \A k \in 0..(Length(c.kind) - 1) : Cell(w, s + k) = [kind |-> c.kind, hit |-> c.hit, part |-> k]
  BY DEF Whole, WholeIn, Cell
<1>2. c.part \in Nat /\ head[w] \in Nat /\ tail[w] \in Nat /\ Length(c.kind) \in {3, 5}
  BY CellTyped DEF WatchTypeOK, Length
<1>3. ring'[w][j % Size] = c
  BY DEF Cell
<1> HIDE DEF c
<1>4. \A k \in 0..(Length(c.kind) - 1) : s + k \in Int /\ tail[w] <= s + k /\ s + k < head[w]
  BY <1>1, <1>2
<1>5. \A k \in 0..(Length(c.kind) - 1) : ring'[w][(s + k) % Size] = [kind |-> c.kind, hit |-> c.hit, part |-> k]
  BY <1>1, <1>4 DEF Cell
<1>6. s + Length(c.kind) <= head'[w]
  BY <1>1, <1>2
<1> QED
  BY <1>1, <1>3, <1>5, <1>6 DEF Whole, WholeIn, Cell
IsAt(r, s, kind, hit) ==
  \A k \in 0..(Length(kind) - 1) : r[(s + k) % Size] = [kind |-> kind, hit |-> hit, part |-> k]

\* Every part of a record shows it whole.
LEMMA RecordIsWhole ==
  ASSUME NEW r, NEW from \in Int, NEW to \in Int, NEW s \in Int, NEW kind \in {"sample", "lost"}, NEW hit \in Nat,
         from <= s, s + Length(kind) <= to, NEW j \in s..(s + Length(kind) - 1), IsAt(r, s, kind, hit)
  PROVE  WholeIn(r, from, to, j)
<1>1. Length(kind) \in {3, 5}
  BY DEF Length
<1>2. PICK n \in 0..(Length(kind) - 1) : n = j - s /\ j = s + n /\ j - n = s
  BY <1>1
<1>3. r[j % Size] = [kind |-> kind, hit |-> hit, part |-> n]
  BY <1>2 DEF IsAt
<1>4. n < Length(kind)
  BY <1>1
<1> DEFINE c == r[j % Size]
<1>5. c.kind = kind /\ c.hit = hit /\ c.part = n
  BY <1>3
<1> HIDE DEF c
<1>6. \A k \in 0..(Length(c.kind) - 1) : r[((j - c.part) + k) % Size] = [kind |-> c.kind, hit |-> c.hit, part |-> k]
  BY <1>2, <1>5 DEF IsAt
<1> QED
  BY <1>2, <1>4, <1>5, <1>6 DEF WholeIn, c

LEMMA AppendsKeeps ==
  ASSUME WatchInv, NEW w \in Watch, NEW f \in {0, 3}, Appends(w, f), hits' = hits + 1,
         UNCHANGED <<tail, step, todo, at, end, passed>>
  PROVE  InPlace' /\ Reading' /\ Fresh'
<1>1. /\ head[w] \in Nat /\ tail[w] \in Nat /\ tail[w] <= head[w] /\ hits \in Nat /\ Size \in Nat
      /\ head \in [Watch -> Nat] /\ tail \in [Watch -> Nat] /\ passed \subseteq 1..hits
      /\ at \in Nat /\ end \in Nat
  BY SizeAssumption DEF WatchInv, WatchTypeOK
<1>2. /\ head'[w] = head[w] + f + 5 /\ head'[w] \in Nat /\ head'[w] >= head[w]
      /\ \A v \in Watch \ {w} : ring'[v] = ring[v] /\ head'[v] = head[v]
      /\ \A j \in Int : tail[w] <= j /\ j < head[w] => ring'[w][j % Size] = ring[w][j % Size]
  <2>1. head' = [head EXCEPT ![w] = head[w] + f + 5]
    BY DEF Appends
  <2>2. head'[w] = head[w] + f + 5 /\ \A v \in Watch \ {w} : head'[v] = head[v]
    BY <1>1, <2>1
  <2>3. head'[w] \in Nat /\ head'[w] >= head[w]
    BY <1>1, <2>2
  <2>4. /\ \A v \in Watch \ {w} : ring'[v] = ring[v]
        /\ \A j \in Int : tail[w] <= j /\ j < head[w] => ring'[w][j % Size] = ring[w][j % Size]
    BY DEF Appends
  <2> QED
    BY <2>2, <2>3, <2>4
<1>3. f = 3 => \A k \in 0..2 : ring'[w][(head[w] + k) % Size] = [kind |-> "lost", hit |-> 0, part |-> k]
  BY DEF Appends
<1>4. \A k \in 0..4 : ring'[w][((head[w] + f) + k) % Size] = [kind |-> "sample", hit |-> hits + 1, part |-> k]
  <2>1. ASSUME NEW k \in 0..4 PROVE ring'[w][((head[w] + f) + k) % Size] = [kind |-> "sample", hit |-> hits + 1, part |-> k]
    <3>1. ring'[w][(head[w] + f + k) % Size] = [kind |-> "sample", hit |-> hits + 1, part |-> k]
      BY DEF Appends
    <3> QED
      BY <1>1, <3>1
  <2> QED
    BY <2>1
<1>5. Length("sample") = 5 /\ Length("lost") = 3
  BY DEF Length
<1>6. ASSUME NEW j \in Int, head[w] <= j, j < head'[w]
      PROVE  /\ WholeIn(ring'[w], tail[w], head'[w], j)
             /\ \/ f = 3 /\ j < head[w] + 3 /\ ring'[w][j % Size] = [kind |-> "lost", hit |-> 0, part |-> j - head[w]]
                \/ head[w] + f <= j /\ ring'[w][j % Size] = [kind |-> "sample", hit |-> hits + 1, part |-> j - (head[w] + f)]
  <2>1. CASE j < head[w] + f
    <3>1. f = 3 /\ j - head[w] \in 0..2 /\ j \in head[w]..(head[w] + 3 - 1) /\ head[w] + 3 <= head'[w] /\ head[w] + (j - head[w]) = j
      BY <1>1, <1>2, <1>6, <2>1
    <3>2. ring'[w][j % Size] = [kind |-> "lost", hit |-> 0, part |-> j - head[w]]
      BY <1>3, <3>1
    <3>4. IsAt(ring'[w], head[w], "lost", 0)
      BY <1>3, <1>5, <3>1 DEF IsAt
    <3>3. WholeIn(ring'[w], tail[w], head'[w], j)
      <4>1. /\ tail[w] \in Int /\ head'[w] \in Int /\ head[w] \in Int /\ "lost" \in {"sample", "lost"} /\ 0 \in Nat
            /\ tail[w] <= head[w] /\ head[w] + Length("lost") <= head'[w] /\ j \in head[w]..(head[w] + Length("lost") - 1)
        BY <1>1, <1>2, <1>5, <3>1
      <4> QED
        BY <3>4, <4>1, RecordIsWhole
    <3> QED
      BY <2>1, <3>1, <3>2, <3>3
  <2>2. CASE ~(j < head[w] + f)
    <3> DEFINE s == head[w] + f
    <3>1. s \in Nat /\ j - s \in 0..4 /\ j \in s..(s + 5 - 1) /\ s + 5 <= head'[w] /\ s + (j - s) = j /\ s <= j /\ tail[w] <= s
      BY <1>1, <1>2, <1>6, <2>2
    <3>2. \A k \in 0..4 : ring'[w][(s + k) % Size] = [kind |-> "sample", hit |-> hits + 1, part |-> k]
      BY <1>4
    <3> HIDE DEF s
    <3>3. ring'[w][j % Size] = [kind |-> "sample", hit |-> hits + 1, part |-> j - s]
      BY <3>1, <3>2
    <3>4. hits + 1 \in Nat /\ "sample" \in {"sample", "lost"} /\ head'[w] \in Int /\ tail[w] \in Int
      BY <1>1, <1>2
    <3>6. IsAt(ring'[w], s, "sample", hits + 1)
      BY <1>5, <3>2 DEF IsAt
    <3>5. WholeIn(ring'[w], tail[w], head'[w], j)
      <4>1. s \in Int /\ s + Length("sample") <= head'[w] /\ j \in s..(s + Length("sample") - 1)
        BY <1>5, <3>1
      <4> QED
        BY <3>1, <3>4, <3>6, <4>1, RecordIsWhole
    <3> QED
      BY <3>1, <3>3, <3>5 DEF s
  <2> QED
    BY <2>1, <2>2
<1>7. InPlace'
  <2> SUFFICES ASSUME NEW v \in Watch, NEW j \in tail'[v]..(head'[v] - 1)
               PROVE  Whole(v, j)'
    BY DEF InPlace
  <2>1. tail'[v] = tail[v] /\ tail[v] \in Nat /\ head[v] \in Nat
    BY <1>1
  <2>2. CASE v # w
    BY <1>2, <2>1, <2>2 DEF WatchInv, InPlace, Whole
  <2>3. CASE v = w /\ j < head[w]
    <3>1. Whole(w, j) /\ j \in Int /\ tail[w] <= j
      BY <2>1, <2>3 DEF WatchInv, InPlace
    <3> QED
      BY <1>1, <1>2, <2>3, <3>1, WholeKept DEF WatchInv
  <2>4. CASE v = w /\ ~(j < head[w])
    <3>1. j \in Int /\ head[w] <= j /\ j < head'[w]
      BY <1>1, <1>2, <2>1, <2>4
    <3> QED
      BY <1>6, <2>1, <2>4, <3>1 DEF Whole
  <2> QED
    BY <2>2, <2>3, <2>4
<1>8. ASSUME NEW j \in Nat, tail[w] <= j, j <= head[w], Starts(w, j)
      PROVE  Starts(w, j)'
  <2>1. j < head'[w]
    BY <1>1, <1>2, <1>8
  <2>2. CASE j = head[w]
    <3>3. head[w] <= j /\ j \in Int /\ j - head[w] = 0 /\ (head[w] + f <= j => f = 0 /\ j - (head[w] + f) = 0)
      BY <1>1, <2>2
    <3>4. \/ ring'[w][j % Size] = [kind |-> "lost", hit |-> 0, part |-> 0]
          \/ ring'[w][j % Size] = [kind |-> "sample", hit |-> hits + 1, part |-> 0]
      <4>1. \/ f = 3 /\ j < head[w] + 3 /\ ring'[w][j % Size] = [kind |-> "lost", hit |-> 0, part |-> j - head[w]]
            \/ head[w] + f <= j /\ ring'[w][j % Size] = [kind |-> "sample", hit |-> hits + 1, part |-> j - (head[w] + f)]
        BY <1>6, <2>1, <3>3
      <4> QED
        BY <3>3, <4>1
    <3>1. ring'[w][j % Size].part = 0
      BY <3>4
    <3> QED
      BY <2>1, <3>1 DEF Starts, Cell
  <2>3. CASE j < head[w]
    BY <1>2, <1>8, <2>1, <2>3 DEF Starts, Cell
  <2> QED
    BY <1>1, <1>8, <2>2, <2>3
<1>9. Reading'
  <2> SUFFICES ASSUME step = "read"
               PROVE  /\ tail[Head(todo)] <= at /\ at <= end /\ end <= head'[Head(todo)]
                      /\ Starts(Head(todo), at)' /\ Starts(Head(todo), end)'
    BY DEF Reading
  <2>1. /\ tail[Head(todo)] <= at /\ at <= end /\ end <= head[Head(todo)]
        /\ Starts(Head(todo), at) /\ Starts(Head(todo), end) /\ Head(todo) \in Watch
    BY DEF WatchInv, Reading, WatchTypeOK
  <2>2. CASE Head(todo) = w
    <3>1. tail[w] <= end /\ at <= head[w] /\ end <= head'[w]
      BY <1>1, <1>2, <2>1, <2>2
    <3>2. Starts(w, at)'
      BY <1>1, <1>8, <2>1, <2>2, <3>1 DEF Starts, Cell
    <3>3. Starts(w, end)'
      BY <1>1, <1>8, <2>1, <2>2, <3>1 DEF Starts, Cell
    <3> QED
      BY <2>1, <2>2, <3>1, <3>2, <3>3 DEF Starts, Cell
  <2>3. CASE Head(todo) # w
    BY <1>2, <2>1, <2>3 DEF Starts, Cell
  <2> QED
    BY <2>2, <2>3
<1>10. \A v \in Watch : First(v)' = First(v) /\ First(v) \in Nat /\ First(v) >= tail[v]
  <2>1. ASSUME NEW v \in Watch PROVE First(v)' = First(v) /\ First(v) \in Nat /\ First(v) >= tail[v]
    <3>1. step = "read" => tail[Head(todo)] <= at
      BY DEF WatchInv, Reading
    <3> QED
      BY <1>1, <3>1 DEF First
  <2> QED
    BY <2>1
<1>11. ASSUME NEW v \in Watch, NEW j \in Nat, Unread(v, j)'
       PROVE  \/ Unread(v, j) /\ Cell(v, j)' = Cell(v, j)
              \/ v = w /\ Cell(v, j)'.hit = hits + 1 /\ j - Cell(v, j)'.part = head[w] + f
  <2>1. First(v) <= j /\ tail[v] <= j /\ j < head'[v] /\ Cell(v, j)'.kind = "sample" /\ head[v] \in Nat /\ tail[v] \in Nat
    BY <1>1, <1>10, <1>11 DEF Unread
  <2>2. CASE v # w
    BY <1>2, <2>1, <2>2 DEF Unread, Cell
  <2>3. CASE v = w /\ j < head[w]
    BY <1>2, <2>1, <2>3 DEF Unread, Cell
  <2>4. CASE v = w /\ head[w] <= j
    <3>1. \/ ring'[w][j % Size] = [kind |-> "lost", hit |-> 0, part |-> j - head[w]]
          \/ ring'[w][j % Size] = [kind |-> "sample", hit |-> hits + 1, part |-> j - (head[w] + f)]
      BY <1>6, <2>1, <2>4
    <3>2. Cell(v, j)' = ring'[w][j % Size] /\ Cell(v, j)'.kind = "sample" /\ "lost" # "sample"
      BY <2>1, <2>4 DEF Cell
    <3>3. Cell(v, j)' = [kind |-> "sample", hit |-> hits + 1, part |-> j - (head[w] + f)]
      BY <3>1, <3>2
    <3>4. j - (j - (head[w] + f)) = head[w] + f
      BY <1>1
    <3> QED
      BY <2>4, <3>3, <3>4
  <2> QED
    BY <1>1, <2>2, <2>3, <2>4
<1>12. Fresh'
  <2>1. ASSUME NEW v \in Watch, NEW j \in Nat, Unread(v, j)'
        PROVE  Cell(v, j)'.hit \in (1..(hits + 1)) \ passed
    <3>1. CASE Unread(v, j) /\ Cell(v, j)' = Cell(v, j)
      BY <1>1, <3>1 DEF WatchInv, Fresh
    <3>2. CASE Cell(v, j)'.hit = hits + 1
      BY <1>1, <3>2
    <3> QED
      BY <1>11, <2>1, <3>1, <3>2
  <2>2. ASSUME NEW v \in Watch, NEW u \in Watch, NEW j \in Nat, NEW k \in Nat, Unread(v, j)', Unread(u, k)',
               Cell(v, j)'.hit = Cell(u, k)'.hit
        PROVE  v = u /\ j - Cell(v, j)'.part = k - Cell(u, k)'.part
    <3>1. Unread(v, j) => Cell(v, j).hit \in 1..hits
      BY DEF WatchInv, Fresh
    <3>2. Unread(u, k) => Cell(u, k).hit \in 1..hits
      BY DEF WatchInv, Fresh
    <3>3. Unread(v, j) /\ Unread(u, k) /\ Cell(v, j).hit = Cell(u, k).hit =>
            v = u /\ j - Cell(v, j).part = k - Cell(u, k).part
      BY DEF WatchInv, Fresh
    <3>4. \A h \in 1..hits : h # hits + 1
      BY <1>1
    <3>5. \/ Unread(v, j) /\ Cell(v, j)' = Cell(v, j)
          \/ v = w /\ Cell(v, j)'.hit = hits + 1 /\ j - Cell(v, j)'.part = head[w] + f
      BY <1>11, <2>2
    <3>6. \/ Unread(u, k) /\ Cell(u, k)' = Cell(u, k)
          \/ u = w /\ Cell(u, k)'.hit = hits + 1 /\ k - Cell(u, k)'.part = head[w] + f
      BY <1>11, <2>2
    <3> QED
      BY <2>2, <3>1, <3>2, <3>3, <3>4, <3>5, <3>6
  <2> QED
    BY <2>1, <2>2 DEF Fresh, Unread, Cell
<1> QED
  BY <1>7, <1>9, <1>12

\* A step that neither writes nor reads the rings.
LEMMA RingsKept ==
  ASSUME WatchInv, UNCHANGED <<ring, head, tail, hits, passed>>, step # "read", step' # "read"
  PROVE  InPlace' /\ Reading' /\ Fresh'
<1>1. InPlace'
  BY DEF WatchInv, InPlace, Whole
<1>2. Reading'
  BY DEF Reading
<1>3. \A w \in Watch, j \in Nat : Unread(w, j)' = Unread(w, j) /\ Cell(w, j)' = Cell(w, j)
  BY DEF Unread, First, Cell
<1>4. Fresh'
  <2>1. /\ \A w \in Watch, j \in Nat : Unread(w, j)' => Cell(w, j)'.hit \in (1..hits) \ passed
        /\ \A w, v \in Watch, j, k \in Nat :
             Unread(w, j)' /\ Unread(v, k)' /\ Cell(w, j)'.hit = Cell(v, k)'.hit =>
                w = v /\ j - Cell(w, j)'.part = k - Cell(v, k)'.part
    BY <1>3 DEF WatchInv, Fresh
  <2> QED
    BY <2>1 DEF Fresh, Unread, Cell
<1> QED
  BY <1>1, <1>2, <1>4

-----------------------------------------------------------------------------
(* The caller.                                                             *)

\* The record that begins where one does.
LEMMA RecordAt ==
  ASSUME WatchInv, NEW w \in Watch, NEW j \in Nat, tail[w] <= j, j < head[w], Cell(w, j).part = 0
  PROVE  /\ Cell(w, j).kind \in {"sample", "lost"} /\ j + Length(Cell(w, j).kind) <= head[w]
         /\ \A k \in 0..(Length(Cell(w, j).kind) - 1) :
              Cell(w, j + k) = [kind |-> Cell(w, j).kind, hit |-> Cell(w, j).hit, part |-> k]
<1>1. Whole(w, j)
  BY DEF WatchInv, InPlace, WatchTypeOK
<1>2. j - Cell(w, j).part = j
  OBVIOUS
<1> QED
  BY <1>1, <1>2 DEF Whole, WholeIn, Cell

\* No record straddles a position at which one starts.
LEMMA NoneStraddles ==
  ASSUME WatchInv, NEW w \in Watch, NEW j \in Nat, NEW b \in Nat, tail[w] <= b, b <= j, j < head[w], Cell(w, b).part = 0
  PROVE  b <= j - Cell(w, j).part
<1> DEFINE c == Cell(w, j)
           s == j - c.part
<1>1. c.part \in Nat /\ head[w] \in Nat /\ tail[w] \in Nat
  BY CellTyped DEF WatchInv, WatchTypeOK
<1>2. Whole(w, j)
  BY <1>1 DEF WatchInv, InPlace
<1>3. c.part < Length(c.kind) /\ Length(c.kind) \in {3, 5}
      /\ \A k \in 0..(Length(c.kind) - 1) : Cell(w, s + k) = [kind |-> c.kind, hit |-> c.hit, part |-> k]
  BY <1>2 DEF Whole, WholeIn, Cell, Length
<1>4. SUFFICES ASSUME ~(b <= s) PROVE FALSE
  OBVIOUS
<1> HIDE DEF c
<1>5. b - s \in 0..(Length(c.kind) - 1) /\ s + (b - s) = b /\ b - s # 0
  BY <1>1, <1>3, <1>4
<1>6. Cell(w, b) = [kind |-> c.kind, hit |-> c.hit, part |-> b - s]
  BY <1>3, <1>5
<1> QED
  BY <1>5, <1>6

LEMMA ReadHeadKeeps ==
  ASSUME WatchInv, ReadHead
  PROVE  WatchInv'
<1> DEFINE w == Head(todo)
<1>1. /\ w \in Watch /\ todo # <<>> /\ step = "head" /\ step' = "read" /\ end' = head[w] /\ at' = tail[w]
      /\ UNCHANGED <<kernel, watches, todo, woken, out, told, passed>>
  BY DEF ReadHead, WatchInv, WatchTypeOK
<1>2. tail[w] \in Nat /\ head[w] \in Nat /\ tail[w] <= head[w]
  BY <1>1 DEF WatchInv, WatchTypeOK
<1>3. WatchTypeOK'
  BY <1>1, <1>2 DEF WatchInv, WatchTypeOK, kernel
<1>4. InPlace'
  BY <1>1 DEF WatchInv, InPlace, Whole, kernel
<1>5. Starts(w, tail[w])
  <2>1. CASE tail[w] < head[w]
    <3>1. Whole(w, tail[w])
      BY <1>1, <1>2, <2>1 DEF WatchInv, InPlace
    <3>2. tail[w] <= tail[w] - Cell(w, tail[w]).part /\ Cell(w, tail[w]).part \in Nat
      <4>1. Cell(w, tail[w]).part \in Nat
        BY <1>1, <1>2, CellTyped DEF WatchInv
      <4>2. tail[w] <= tail[w] - Cell(w, tail[w]).part
        BY <3>1 DEF Whole, WholeIn, Cell
      <4> QED
        BY <4>1, <4>2
    <3>3. Cell(w, tail[w]).part = 0
      BY <1>2, <3>2
    <3> QED
      BY <2>1, <3>3 DEF Starts
  <2>2. CASE tail[w] = head[w]
    BY <2>2 DEF Starts
  <2> QED
    BY <1>2, <2>1, <2>2
<1>6. Reading'
  <2>1. Starts(w, tail[w])' /\ Starts(w, head[w])'
    BY <1>1, <1>5 DEF Starts, Cell, kernel
  <2> QED
    BY <1>1, <1>2, <2>1 DEF Reading, Starts, Cell, kernel
<1>7. \A v \in Watch, j \in Nat : Unread(v, j)' = Unread(v, j) /\ Cell(v, j)' = Cell(v, j)
  BY <1>1 DEF Unread, First, Cell, kernel
<1>8. Fresh'
  <2>1. /\ \A v \in Watch, j \in Nat : Unread(v, j)' => Cell(v, j)'.hit \in (1..hits) \ passed
        /\ \A v, u \in Watch, j, k \in Nat :
             Unread(v, j)' /\ Unread(u, k)' /\ Cell(v, j)'.hit = Cell(u, k)'.hit =>
                v = u /\ j - Cell(v, j)'.part = k - Cell(u, k)'.part
    BY <1>7 DEF WatchInv, Fresh
  <2> QED
    BY <1>1, <2>1 DEF Fresh, Unread, Cell, kernel
<1>9. OutIsReal'
  BY <1>1 DEF WatchInv, OutIsReal
<1> QED
  BY <1>3, <1>4, <1>6, <1>8, <1>9 DEF WatchInv

LEMMA ReadRecordKeeps ==
  ASSUME WatchInv, ReadRecord
  PROVE  WatchInv'
<1> DEFINE w == Head(todo)
           c == Cell(w, at)
           n == Length(c.kind)
<1>1. /\ w \in Watch /\ todo # <<>> /\ step = "read" /\ at < end /\ at' = at + n
      /\ IF c.kind = "sample" THEN out' = Payload(w, at + 1) /\ passed' = passed \cup {c.hit}
         ELSE UNCHANGED <<out, passed>>
      /\ UNCHANGED <<kernel, watches, step, todo, woken, end, told>>
  BY DEF ReadRecord, Until, Cell, WatchInv, WatchTypeOK
<1>2. /\ at \in Nat /\ end \in Nat /\ tail[w] \in Nat /\ head[w] \in Nat /\ hits \in Nat
      /\ tail[w] <= at /\ end <= head[w] /\ Starts(w, at) /\ Starts(w, end) /\ at < head[w]
      /\ passed \subseteq 1..hits /\ told \subseteq passed
  <2>1. /\ at \in Nat /\ end \in Nat /\ tail[w] \in Nat /\ head[w] \in Nat /\ hits \in Nat
        /\ passed \subseteq 1..hits /\ told \subseteq passed
    BY <1>1 DEF WatchInv, WatchTypeOK
  <2>2. tail[w] <= at /\ end <= head[w] /\ Starts(w, at) /\ Starts(w, end)
    BY <1>1 DEF WatchInv, Reading
  <2>3. at < head[w]
    BY <1>1, <2>1, <2>2
  <2> QED
    BY <2>1, <2>2, <2>3
<1>3. c.part = 0 /\ n \in {3, 5} /\ c.hit \in Nat
  BY <1>1, <1>2, CellTyped DEF Starts, Length, WatchInv
<1>4. c.kind \in {"sample", "lost"} /\ at + n <= head[w] /\ \A k \in 0..(n - 1) : Cell(w, at + k) = [kind |-> c.kind, hit |-> c.hit, part |-> k]
  BY <1>1, <1>2, <1>3, RecordAt
<1> HIDE DEF w, c, n
<1>5. at + n <= end
  <2> SUFFICES ASSUME ~(at + n <= end) PROVE FALSE
    OBVIOUS
  <2>1. end - at \in 0..(n - 1) /\ at + (end - at) = end /\ end - at # 0 /\ end < head[w]
    BY <1>1, <1>2, <1>3, <1>4
  <2>2. Cell(w, end) = [kind |-> c.kind, hit |-> c.hit, part |-> end - at]
    BY <1>4, <2>1
  <2> QED
    BY <1>2, <2>1, <2>2 DEF Starts
<1>6. Starts(w, at + n)
  <2>1. CASE at + n < head[w]
    <3> DEFINE d == Cell(w, at + n)
               s == at + n - d.part
    <3>1. d.part \in Nat /\ at + n \in Nat /\ n - 1 \in 0..(n - 1) /\ at + (n - 1) \in Nat /\ tail[w] <= at + n
      BY <1>1, <1>2, <1>3, CellTyped DEF WatchInv
    <3>2. Whole(w, at + n)
      BY <1>1, <1>2, <2>1, <3>1 DEF WatchInv, InPlace
    <3>3. /\ d.part < Length(d.kind) /\ d.kind \in {"sample", "lost"}
          /\ \A k \in 0..(Length(d.kind) - 1) : Cell(w, ((at + n) - d.part) + k) = [kind |-> d.kind, hit |-> d.hit, part |-> k]
      BY <3>2 DEF Whole, WholeIn, Cell
    <3>4. Length(d.kind) \in {3, 5} /\ n = Length(c.kind)
      BY DEF Length, n
    <3>5. Cell(w, at + (n - 1)) = [kind |-> c.kind, hit |-> c.hit, part |-> n - 1]
      BY <1>4, <3>1
    <3> HIDE DEF d
    <3>6. CASE d.part # 0
      <4>1. d.part - 1 \in 0..(Length(d.kind) - 1) /\ ((at + n) - d.part) + (d.part - 1) = at + (n - 1)
        BY <1>2, <1>3, <3>1, <3>3, <3>4, <3>6
      <4>2. Cell(w, at + (n - 1)) = [kind |-> d.kind, hit |-> d.hit, part |-> d.part - 1]
        BY <3>3, <4>1
      <4>3. d.kind = c.kind /\ d.part - 1 = n - 1
        BY <3>5, <4>2
      <4> QED
        BY <1>3, <3>1, <3>3, <3>4, <4>3
    <3> QED
      BY <2>1, <3>6 DEF Starts, d
  <2>2. CASE at + n = head[w]
    BY <2>2 DEF Starts
  <2> QED
    BY <1>2, <1>3, <1>4, <2>1, <2>2
<1>7. Reading'
  <2>1. UNCHANGED <<ring, head, tail, end, todo>>
    BY <1>1 DEF kernel
  <2>2. /\ \/ at + n = head[w]
           \/ at + n < head[w] /\ ring[w][(at + n) % Size].part = 0
        /\ \/ end = head[w]
           \/ end < head[w] /\ ring[w][end % Size].part = 0
    BY <1>2, <1>6 DEF Starts, Cell
  <2>3. tail[w] <= at + n
    BY <1>2, <1>3
  <2> QED
    BY <1>1, <1>2, <1>5, <2>1, <2>2, <2>3 DEF Reading, Starts, Cell, w
<1>8. InPlace'
  BY <1>1 DEF WatchInv, InPlace, Whole, kernel
<1>9. ASSUME NEW v \in Watch, NEW j \in Nat, Unread(v, j)'
      PROVE  /\ Unread(v, j) /\ Cell(v, j)' = Cell(v, j)
             /\ c.kind = "sample" => Cell(v, j).hit # c.hit
  <2>1. UNCHANGED <<ring, head, tail>> /\ step' = "read" /\ Head(todo') = w
    BY <1>1 DEF kernel, w
  <2>2. Unread(v, j) /\ Cell(v, j)' = Cell(v, j) /\ (v = w => at + n <= j)
    <3>1. Cell(v, j)' = Cell(v, j) /\ First(v)' <= j /\ j < head[v] /\ Cell(v, j).kind = "sample"
      BY <1>9, <2>1 DEF Unread, Cell
    <3>2. CASE v = w
      <4>1. First(v)' = at + n /\ First(v) = at
        BY <1>1, <2>1, <3>2 DEF First, w
      <4>2. at <= j /\ at + n <= j
        BY <1>2, <1>3, <3>1, <4>1
      <4> QED
        BY <3>1, <4>1, <4>2 DEF Unread
    <3>3. CASE v # w
      <4>1. First(v)' = First(v)
        BY <1>1, <2>1, <3>3 DEF First, w
      <4> QED
        BY <3>1, <3>3, <4>1 DEF Unread
    <3> QED
      BY <3>2, <3>3
  <2>3. ASSUME c.kind = "sample", Cell(v, j).hit = c.hit PROVE FALSE
    <3>1. Unread(w, at) /\ Cell(w, at) = c
      BY <1>1, <1>2, <2>3 DEF Unread, First, c, w
    <3>2. v = w /\ j - Cell(v, j).part = at - c.part
      BY <1>1, <1>2, <2>2, <2>3, <3>1 DEF WatchInv, Fresh
    <3>3. Whole(v, j)
      <4>1. tail[w] <= j /\ j < head[w]
        BY <1>2, <1>3, <2>2, <3>2 DEF Unread
      <4> QED
        BY <1>1, <1>2, <3>2, <4>1 DEF WatchInv, InPlace
    <3>4. Cell(v, j).part < 5
      BY <2>2, <3>3 DEF Whole, WholeIn, Unread, Cell, Length
    <3>5. n = 5 /\ Cell(v, j).part \in Nat
      BY <2>3, CellTyped DEF Length, n, WatchInv
    <3> QED
      BY <1>2, <1>3, <2>2, <3>2, <3>4, <3>5
  <2> QED
    BY <2>2, <2>3
<1>10. passed' = (IF c.kind = "sample" THEN passed \cup {c.hit} ELSE passed) /\ UNCHANGED <<hits, told>>
  BY <1>1 DEF kernel
<1>11. c.kind = "sample" => c.hit \in (1..hits) \ passed
  <2>1. c.kind = "sample" => Unread(w, at)
    BY <1>1, <1>2 DEF Unread, First, c, w
  <2> QED
    BY <1>1, <1>2, <2>1 DEF WatchInv, Fresh, c
<1>12. Fresh'
  <2>1. \A v \in Watch, j \in Nat : Unread(v, j)' => Cell(v, j)'.hit \in (1..hits) \ passed'
    <3>1. ASSUME NEW v \in Watch, NEW j \in Nat, Unread(v, j)' PROVE Cell(v, j)'.hit \in (1..hits) \ passed'
      <4>1. Unread(v, j) /\ Cell(v, j)' = Cell(v, j) /\ (c.kind = "sample" => Cell(v, j).hit # c.hit)
        BY <1>9, <3>1
      <4>2. Cell(v, j).hit \in (1..hits) \ passed
        BY <4>1 DEF WatchInv, Fresh
      <4> QED
        BY <1>10, <4>1, <4>2
    <3> QED
      BY <3>1
  <2>2. \A v, u \in Watch, j, k \in Nat :
          Unread(v, j)' /\ Unread(u, k)' /\ Cell(v, j)'.hit = Cell(u, k)'.hit =>
             v = u /\ j - Cell(v, j)'.part = k - Cell(u, k)'.part
    BY <1>9 DEF WatchInv, Fresh
  <2> QED
    BY <1>10, <2>1, <2>2 DEF Fresh, Unread, Cell
<1>13. OutIsReal'
  <2>1. CASE c.kind = "sample"
    <3>1. out' = SampleOf(c.hit)
      <4>1. out' = [i \in 1..4 |-> ring[w][((at + 1) + i - 1) % Size]]
        BY <1>1, <2>1 DEF Payload
      <4>2. n = 5
        BY <2>1 DEF Length, n
      <4>3. ASSUME NEW i \in 1..4 PROVE ring[w][((at + 1) + i - 1) % Size] = [kind |-> "sample", hit |-> c.hit, part |-> i]
        <5>1. i \in 0..(n - 1) /\ (at + 1) + i - 1 = at + i
          BY <1>2, <4>2
        <5>2. Cell(w, at + i) = [kind |-> "sample", hit |-> c.hit, part |-> i]
          BY <1>4, <2>1, <5>1
        <5> QED
          BY <5>1, <5>2 DEF Cell
      <4> QED
        BY <4>1, <4>3 DEF SampleOf
    <3>2. c.hit \in passed' \ told'
      BY <1>2, <1>10, <1>11, <2>1
    <3> QED
      BY <3>1, <3>2 DEF OutIsReal, SampleOf
  <2>2. CASE c.kind # "sample"
    BY <1>1, <1>10, <2>2 DEF WatchInv, OutIsReal
  <2> QED
    BY <2>1, <2>2
<1>14. WatchTypeOK'
  <2>1. UNCHANGED <<ring, head, tail, lost, hits, watches, step, todo, end, told>>
    BY <1>1 DEF kernel
  <2>2. at' \in Nat /\ passed' \subseteq 1..hits /\ told \subseteq passed'
    <3>1. at' \in Nat
      BY <1>1, <1>2, <1>3
    <3>2. passed' \subseteq 1..hits /\ passed \subseteq passed'
      BY <1>2, <1>10, <1>11
    <3> QED
      BY <1>2, <3>1, <3>2
  <2> QED
    BY <2>1, <2>2 DEF WatchInv, WatchTypeOK
<1> QED
  BY <1>7, <1>8, <1>12, <1>13, <1>14 DEF WatchInv

LEMMA ReadEndKeeps ==
  ASSUME WatchInv, ReadEnd
  PROVE  WatchInv'
<1> DEFINE w == Head(todo)
<1>1. /\ w \in Watch /\ todo # <<>> /\ step = "read" /\ ~(at < end) /\ NextWatch
      /\ tail' = [tail EXCEPT ![w] = at] /\ end' = 0 /\ at' = 0
      /\ UNCHANGED <<ring, head, lost, hits, watches, out, told, passed>>
  BY DEF ReadEnd, Until, WatchInv, WatchTypeOK
<1>2. /\ at \in Nat /\ end \in Nat /\ tail \in [Watch -> Nat] /\ head \in [Watch -> Nat] /\ Size \in Nat
      /\ tail[w] <= head[w] /\ head[w] - tail[w] < Size
  BY <1>1, SizeAssumption DEF WatchInv, WatchTypeOK
<1>3. tail[w] <= at /\ end <= head[w] /\ Starts(w, at) /\ at <= end
  BY <1>1 DEF WatchInv, Reading
<1>4. at <= head[w]
  BY <1>1, <1>2, <1>3
<1>5. tail'[w] = at /\ \A v \in Watch \ {w} : tail'[v] = tail[v]
  BY <1>1, <1>2
<1>6. WatchTypeOK'
  <2>1. tail' \in [Watch -> Nat] /\ \A v \in Watch : tail'[v] <= head[v] /\ head[v] - tail'[v] < Size
    <3>1. tail' \in [Watch -> Nat]
      BY <1>1, <1>2
    <3>2. ASSUME NEW v \in Watch PROVE tail'[v] <= head[v] /\ head[v] - tail'[v] < Size
      <4>1. CASE v = w
        <5>1. head[w] - at < Size
          BY <1>1, <1>2, <1>3
        <5> QED
          BY <1>4, <1>5, <4>1, <5>1
      <4>2. CASE v # w
        BY <1>5, <4>2 DEF WatchInv, WatchTypeOK
      <4> QED
        BY <4>1, <4>2
    <3> QED
      BY <3>1, <3>2
  <2>2. todo' \in Seq(Watch) /\ (step' = "head" => todo' # <<>>) /\ step' # "read"
    BY <1>1 DEF WatchInv, WatchTypeOK, NextWatch
  <2> QED
    BY <1>1, <2>1, <2>2 DEF WatchInv, WatchTypeOK
<1>7. step' # "read"
  BY <1>1 DEF NextWatch
<1> HIDE DEF w
<1>8. InPlace'
  <2> SUFFICES ASSUME NEW v \in Watch, NEW j \in tail'[v]..(head[v] - 1)
               PROVE  WholeIn(ring[v], tail'[v], head[v], j)
    BY <1>1 DEF InPlace, Whole
  <2>1. CASE v # w
    BY <1>5, <2>1 DEF WatchInv, InPlace, Whole
  <2>2. CASE v = w
    <3>1. j \in Nat /\ at <= j /\ j < head[w] /\ tail[w] <= j /\ at < head[w]
      BY <1>1, <1>2, <1>3, <1>5, <2>2
    <3>2. Cell(w, at).part = 0
      BY <1>2, <1>3, <3>1 DEF Starts
    <3>3. at <= j - Cell(w, j).part
      BY <1>1, <1>2, <1>3, <3>1, <3>2, NoneStraddles
    <3>4. Whole(w, j)
      BY <1>1, <1>2, <3>1 DEF WatchInv, InPlace
    <3> QED
      BY <1>5, <2>2, <3>3, <3>4 DEF Whole, WholeIn, Cell
  <2> QED
    BY <2>1, <2>2
<1>9. Reading'
  BY <1>7 DEF Reading
<1>10. Fresh'
  <2>1. ASSUME NEW v \in Watch, NEW j \in Nat
        PROVE  Unread(v, j)' = Unread(v, j) /\ Cell(v, j)' = Cell(v, j)
    <3>1. First(v)' = First(v)
      BY <1>1, <1>5, <1>7 DEF First, w
    <3> QED
      BY <1>1, <3>1 DEF Unread, Cell
  <2>2. /\ \A v \in Watch, j \in Nat : Unread(v, j)' => Cell(v, j)'.hit \in (1..hits) \ passed
        /\ \A v, u \in Watch, j, k \in Nat :
             Unread(v, j)' /\ Unread(u, k)' /\ Cell(v, j)'.hit = Cell(u, k)'.hit =>
                v = u /\ j - Cell(v, j)'.part = k - Cell(u, k)'.part
    BY <2>1 DEF WatchInv, Fresh
  <2> QED
    BY <1>1, <2>2 DEF Fresh, Unread, Cell
<1>11. OutIsReal'
  BY <1>1 DEF WatchInv, OutIsReal
<1> QED
  BY <1>6, <1>8, <1>9, <1>10, <1>11 DEF WatchInv

LEMMA WatchedKeeps ==
  ASSUME WatchInv, NEW w \in Watch, Watched(w)
  PROVE  WatchInv'
<1>1. /\ hits' = hits + 1 /\ hits \in Nat
      /\ UNCHANGED <<tail, watches, step, todo, end, at, out, told, passed>>
  BY DEF Watched, WatchInv, WatchTypeOK
<1>2. lost' \in [Watch -> Nat] /\ ((UNCHANGED <<ring, head>>) \/ \E f \in {0, 3} : Appends(w, f))
  BY WatchedIs DEF WatchInv
<1>3. OutIsReal'
  BY <1>1 DEF WatchInv, OutIsReal
<1>4. \A h : h \in 1..hits => h \in 1..hits'
  BY <1>1
<1>7. hits' \in Nat /\ passed' \subseteq 1..hits' /\ told' \subseteq passed'
  <2>1. passed \subseteq 1..hits /\ told \subseteq passed
    BY DEF WatchInv, WatchTypeOK
  <2> QED
    BY <1>1, <1>4, <2>1
<1>5. CASE UNCHANGED <<ring, head>>
  <2>1. InPlace' /\ Reading'
    BY <1>1, <1>5 DEF WatchInv, InPlace, Whole, Reading, Starts, Cell
  <2>2. Fresh'
    <3>1. \A v \in Watch, j \in Nat : Unread(v, j)' = Unread(v, j) /\ Cell(v, j)' = Cell(v, j)
      BY <1>1, <1>5 DEF Unread, First, Cell
    <3>2. /\ \A v \in Watch, j \in Nat : Unread(v, j)' => Cell(v, j)'.hit \in (1..hits') \ passed
          /\ \A v, u \in Watch, j, k \in Nat :
               Unread(v, j)' /\ Unread(u, k)' /\ Cell(v, j)'.hit = Cell(u, k)'.hit =>
                  v = u /\ j - Cell(v, j)'.part = k - Cell(u, k)'.part
      BY <1>4, <3>1 DEF WatchInv, Fresh
    <3> QED
      BY <1>1, <3>2 DEF Fresh, Unread, Cell
  <2>3. WatchTypeOK'
    BY <1>1, <1>2, <1>5, <1>7, Zenon DEF WatchInv, WatchTypeOK
  <2> QED
    BY <1>3, <2>1, <2>2, <2>3 DEF WatchInv
<1>6. ASSUME NEW f \in {0, 3}, Appends(w, f) PROVE WatchInv'
  <2>1. InPlace' /\ Reading' /\ Fresh'
    BY <1>1, <1>6, AppendsKeeps
  <2>2. /\ head' = [head EXCEPT ![w] = head[w] + f + 5] /\ head[w] - tail[w] + f + 5 < Size
        /\ ring' \in [Watch -> [0..(Size - 1) -> Words]]
    BY <1>6 DEF Appends
  <2>3. head \in [Watch -> Nat] /\ tail \in [Watch -> Nat] /\ tail[w] <= head[w] /\ Size \in Nat
    BY SizeAssumption DEF WatchInv, WatchTypeOK
  <2>4. head' \in [Watch -> Nat] /\ \A v \in Watch : tail[v] <= head'[v] /\ head'[v] - tail[v] < Size
    <3>1. head'[w] = head[w] + f + 5 /\ head' \in [Watch -> Nat] /\ \A v \in Watch \ {w} : head'[v] = head[v]
      BY <2>2, <2>3
    <3>2. tail[w] <= head'[w] /\ head'[w] - tail[w] < Size
      <4>1. head[w] \in Nat /\ tail[w] \in Nat /\ f \in Nat
        BY <2>3
      <4> QED
        BY <2>2, <2>3, <3>1, <4>1
    <3> QED
      BY <3>1, <3>2 DEF WatchInv, WatchTypeOK
  <2>5. WatchTypeOK'
    BY <1>1, <1>2, <1>7, <2>2, <2>4, Zenon DEF WatchInv, WatchTypeOK
  <2> QED
    BY <1>3, <2>1, <2>5 DEF WatchInv
<1> QED
  BY <1>2, <1>5, <1>6

LEMMA ClearKeeps ==
  ASSUME WatchInv, Clear
  PROVE  WatchInv'
<1>1. /\ step' = "idle" /\ watches' = <<>> /\ UNCHANGED <<hits, todo, end, at, out, told, passed>>
      /\ ring' = [w \in Watch |-> [i \in 0..(Size - 1) |-> Free]]
      /\ head' = [w \in Watch |-> 0] /\ tail' = head' /\ lost' = head'
  BY DEF Clear
<1>2. ring' \in [Watch -> [0..(Size - 1) -> Words]]
  BY <1>1 DEF Words, Free
<1>3. head' \in [Watch -> Nat] /\ \A w \in Watch : head'[w] = 0 /\ tail'[w] = 0
  BY <1>1
<1>4. WatchTypeOK'
  <2>1. tail' \in [Watch -> Nat] /\ lost' \in [Watch -> Nat] /\ watches' \in Seq(Watch)
    BY <1>1
  <2>2. \A w \in Watch : tail'[w] <= head'[w] /\ head'[w] - tail'[w] < Size
    BY <1>3, SizeAssumption
  <2>3. step' \notin {"head", "read"}
    BY <1>1
  <2> QED
    BY <1>1, <1>2, <1>3, <2>1, <2>2, <2>3, Zenon DEF WatchInv, WatchTypeOK
<1>5. InPlace'
  <2>1. \A w \in Watch : tail'[w]..(head'[w] - 1) = {}
    BY <1>3
  <2> QED
    BY <2>1 DEF InPlace
<1>6. Reading'
  BY <1>1 DEF Reading
<1>7. Fresh'
  <2>1. ASSUME NEW w \in Watch, NEW j \in Nat PROVE ~Unread(w, j)'
    <3>1. ~(j < 0)
      OBVIOUS
    <3> QED
      BY <1>3, <3>1 DEF Unread
  <2>2. /\ \A w \in Watch, j \in Nat : Unread(w, j)' => Cell(w, j)'.hit \in (1..hits') \ passed'
        /\ \A w, v \in Watch, j, k \in Nat :
             Unread(w, j)' /\ Unread(v, k)' /\ Cell(w, j)'.hit = Cell(v, k)'.hit =>
                w = v /\ j - Cell(w, j)'.part = k - Cell(v, k)'.part
    BY <2>1
  <2> QED
    BY <2>2 DEF Fresh, Unread, Cell
<1>8. OutIsReal'
  BY <1>1 DEF WatchInv, OutIsReal
<1> QED
  BY <1>4, <1>5, <1>6, <1>7, <1>8 DEF WatchInv

LEMMA CallbackKeeps ==
  ASSUME WatchInv, Callback
  PROVE  WatchInv'
<1>1. /\ step = "callback" /\ step' \in {"poll", "disable"} /\ out' = <<>> /\ todo' \in {todo, watches}
      /\ told' = told \cup {word.hit : word \in Range(out)}
      /\ UNCHANGED <<kernel, watches, end, at, passed>>
  BY DEF Callback
<1>2. {word.hit : word \in Range(out)} \subseteq passed
  <2>1. CASE out = <<>>
    BY <2>1 DEF Range
  <2>2. CASE out # <<>>
    <3>1. PICK h \in passed : out = SampleOf(h)
      BY <2>2 DEF WatchInv, OutIsReal
    <3>2. \A word \in Range(out) : word.hit = h
      BY <3>1 DEF Range, SampleOf
    <3> QED
      BY <3>2
  <2> QED
    BY <2>1, <2>2
<1>3. InPlace' /\ Reading' /\ Fresh'
  BY <1>1, RingsKept DEF kernel
<1>4. WatchTypeOK'
  BY <1>1, <1>2 DEF WatchInv, WatchTypeOK, kernel
<1>5. OutIsReal'
  BY <1>1 DEF OutIsReal
<1> QED
  BY <1>3, <1>4, <1>5 DEF WatchInv

LEMMA TailKept ==
  ASSUME NEW s \in Seq(Watch), s # <<>>
  PROVE  Tail(s) \in Seq(Watch)
OBVIOUS

LEMMA OthersKeep ==
  ASSUME WatchInv, \/ \E w \in Watch, trap \in BOOLEAN : Add(w, trap)
                   \/ Poll \/ Enable \/ PollOnce \/ NotWoken \/ Disable
  PROVE  WatchInv'
<1>0. <<>> \in Seq(Watch) /\ "callback" # "head"
  OBVIOUS
<1>1. /\ step # "read" /\ step' # "read" /\ UNCHANGED <<ring, head, tail, lost, hits, end, at, told, passed>>
      /\ (out' = out \/ out' = <<>>)
  BY DEF Add, Poll, Enable, PollOnce, NotWoken, NextWatch, Disable, kernel
<1>2. watches' \in Seq(Watch) /\ todo' \in Seq(Watch) /\ (step' = "head" => todo' # <<>>)
  <2>1. watches \in Seq(Watch) /\ todo \in Seq(Watch) /\ (step = "head" => todo # <<>>)
    BY DEF WatchInv, WatchTypeOK
  <2>2. ASSUME NEW w \in Watch, NEW trap \in BOOLEAN, Add(w, trap)
        PROVE  watches' \in Seq(Watch) /\ todo' \in Seq(Watch) /\ (step' = "head" => todo' # <<>>)
    BY <2>1, <2>2 DEF Add
  <2>3. CASE Poll
    BY <2>1, <2>3 DEF Poll
  <2>4. CASE Enable
    <3>1. step' # "head" /\ watches' = watches /\ (todo' = todo \/ todo' = <<>> \/ (todo # <<>> /\ todo' = Tail(todo)))
      BY <2>4, Zenon DEF Enable
    <3> QED
      BY <1>0, <2>1, <3>1, TailKept, Zenon
  <2>5. CASE PollOnce
    <3>1. step' = "head" => woken' # {} /\ woken' \subseteq Range(watches)
      BY <2>5 DEF PollOnce
    <3>2. watches = <<>> => Range(watches) = {}
      BY DEF Range
    <3>3. watches' = watches /\ ((step' = "callback" /\ todo' = <<>>) \/ todo' = watches)
      BY <2>5, Zenon DEF PollOnce
    <3> QED
      BY <1>0, <2>1, <3>1, <3>2, <3>3, Zenon
  <2>6. CASE NotWoken
    BY <2>1, <2>6 DEF NotWoken, NextWatch
  <2>7. CASE Disable
    <3>1. step' # "head" /\ watches' = watches /\ (todo' = todo \/ todo' = <<>> \/ (todo # <<>> /\ todo' = Tail(todo)))
      BY <2>7, Zenon DEF Disable
    <3> QED
      BY <1>0, <2>1, <3>1, TailKept, Zenon
  <2> QED
    BY <2>2, <2>3, <2>4, <2>5, <2>6, <2>7
<1>3. InPlace' /\ Reading' /\ Fresh'
  BY <1>1, RingsKept
<1>4. WatchTypeOK'
  BY <1>1, <1>2 DEF WatchInv, WatchTypeOK
<1>5. OutIsReal'
  BY <1>1 DEF WatchInv, OutIsReal
<1> QED
  BY <1>3, <1>4, <1>5 DEF WatchInv

\* What poll passes to its callback is one hit's own record, whole, or nothing, and no
\* hit is told twice (KittyPerfWatch::consumeRecord), for any number of watches, any size
\* of the rings and any number of hits, which the kernel writes at any time.
THEOREM SamplesAreReal == WatchSpec => []SampleIsReal
<1>1. WatchInit => WatchInv
  <2> SUFFICES ASSUME WatchInit PROVE WatchInv
    OBVIOUS
  <2>1. ring \in [Watch -> [0..(Size - 1) -> Words]]
    BY DEF WatchInit, Words, Free
  <2>2. WatchTypeOK
    BY <2>1, SizeAssumption DEF WatchInit, WatchTypeOK
  <2>3. InPlace
    <3>1. \A w \in Watch : tail[w]..(head[w] - 1) = {}
      BY DEF WatchInit
    <3> QED
      BY <3>1 DEF InPlace
  <2>4. \A w \in Watch, j \in Nat : ~Unread(w, j)
    BY DEF WatchInit, Unread
  <2>5. Reading /\ Fresh /\ OutIsReal
    BY <2>4 DEF WatchInit, Reading, Fresh, OutIsReal
  <2> QED
    BY <2>2, <2>3, <2>5 DEF WatchInv
<1>2. WatchInv /\ [WatchNext]_watchVars => WatchInv'
  <2> SUFFICES ASSUME WatchInv, [WatchNext]_watchVars PROVE WatchInv'
    OBVIOUS
  <2>1. CASE UNCHANGED watchVars
    <3>1. UNCHANGED <<ring, head, tail, lost, hits, passed, told, watches, todo, at, end, step, out>>
      BY <2>1 DEF watchVars, kernel
    <3> QED
      BY <3>1 DEF WatchInv, WatchTypeOK, InPlace, Whole, Reading, Starts, Fresh, Unread, First, Cell, OutIsReal
  <2>2. CASE WatchNext
    BY <2>2, WatchedKeeps, ClearKeeps, ReadHeadKeeps, ReadRecordKeeps, ReadEndKeeps, CallbackKeeps, OthersKeep
    DEF WatchNext, Polling
  <2> QED
    BY <2>1, <2>2
<1>3. WatchInv => SampleIsReal
  BY DEF WatchInv, WatchTypeOK, OutIsReal, SampleIsReal, SampleOf
<1> QED
  BY <1>1, <1>2, <1>3, PTL DEF WatchSpec
=============================================================================
