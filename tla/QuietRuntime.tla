---------------------------- MODULE QuietRuntime ----------------------------
(***************************************************************************)
(* Runtime with a history of overlapping calls.  The verifier is shared    *)
(* and has no lock, so what it says of a call is meaningful only for a     *)
(* call that had the runtime to itself.                                    *)
(***************************************************************************)
EXTENDS Runtime

VARIABLE overlapped  \* two calls were in progress since the runtime was idle

Busy == {t \in Callers : at[t] # "idle"}

Crowded == \E t, u \in Busy : t # u

QuietInit == Init /\ overlapped = FALSE

QuietNext == Next /\ overlapped' = (Crowded' \/ (overlapped /\ Busy # {}))

QuietSpec == QuietInit /\ [][QuietNext]_<<runtimeVars, overlapped>>

-----------------------------------------------------------------------------
\* What a result says of the call and its trace state agree.
Truthful(r) ==
  /\ r.kind # "rejected"
  /\ r.kind = "executed" <=> r.trace.executed
  /\ r.ran <=> r.trace.executed
  /\ r.trace.decision = r.decision
  /\ r.trace.executed => r.trace.malware_clean

\* A call that had the runtime to itself: the online verifier rejects nothing
\* execute does, on any of its paths (a rejection after the run would report a
\* failure of a command that has been executed), and the trace state in the
\* result says what happened: the verdict of this call, whether it ran, and a
\* clean scan if it did (runtime.py).
TraceIsTrue == ~overlapped => Truthful(report)

\* Where the trace stands while a single call is at each step of execute.
Follows(s, step, c) ==
  /\ step \in {"refuse", "evaluate", "emitEvaluate"} =>
       /\ s.phase = "start" /\ s.decision = "PENDING"
  /\ step \in {"refuse", "evaluate"} => c.decision = "PENDING"
  /\ step \notin {"refuse", "evaluate", "emitEvaluate"} => s.decision = c.decision
  /\ step = "resolve" => s.phase = "evaluated" /\ c.decision \in {"DENY", "ESCALATE"}
  /\ step = "denyLog" => c.decision \in {"DENY", "ESCALATE"}
  /\ step \in {"snapshot", "scan", "emitMalware", "emitClean"} => s.phase = "evaluated"
  /\ step \in {"emitBlock", "recheck", "run", "emitExecute"} => s.phase = "scanned" /\ s.scanned
  /\ step = "emitBlock" => ~s.malware_clean
  /\ step \in {"recheck", "run", "emitExecute"} => s.malware_clean
  /\ ~s.executed
  /\ c.ran # "none" <=> step = "emitExecute"

\* A thread has a state in its hands only where execute is about to emit.
ReadersEmit == \A t \in Callers : read[t] # Unread => at[t] \in EmitSteps

\* With what makes it inductive: while calls do not overlap, emit stores the
\* successor of the state the verifier still holds, and that state is where the
\* call has got to.
QuietInv ==
  /\ RuntimeInv
  /\ TraceInv
  /\ ReadersEmit
  /\ ~overlapped =>
       /\ ~Crowded
       /\ \A t \in Busy : /\ Follows(trace, at[t], call[t])
                          /\ read[t] \in {Unread, trace}
                          /\ report = NoReport
       /\ TraceIsTrue
=============================================================================
