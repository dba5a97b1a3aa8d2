------------------------------ MODULE EventLog ------------------------------
(***************************************************************************)
(* The list of events RuntimeTraceVerifier records next to its state, as   *)
(* the outcome of replaying it: verify_trace of trace_model.py folds       *)
(* apply_transition over the list and fails at the first illegal event.    *)
(* append and the store of the new state are one step here.                *)
(***************************************************************************)
EXTENDS TraceVerifier

VARIABLE replayed  \* verify_trace(events), Illegal when it fails

Illegal == [phase |-> "illegal"]

LogInit == TraceInit /\ replayed = trace

\* verify_trace after one more event.
Replay(s, e) ==
  IF s # Illegal /\ Accepts(s, e) THEN After(s, e) ELSE Illegal

\* Mutant: the event is recorded before apply_transition has accepted it.
RecordRejected(t, e) == Rejected(t, e) /\ replayed' = Replay(replayed, e)

\* A rejected event is not recorded.
Refuse(t, e) == Rejected(t, e) /\ UNCHANGED replayed

Record(t, e) == Emit(t, e) /\ replayed' = Replay(replayed, e)

Begin(t) == BeginEmit(t) /\ UNCHANGED replayed

\* reset clears the list.
Clear(t, p) == Reset(t, p) /\ replayed' = Fresh(p)

\* One thread at a time: no other is inside emit.
Step(t) ==
  /\ \A u \in Callers \ {t} : read[u] = Unread
  /\ \/ Begin(t)
     \/ \E e \in TraceEvents : Record(t, e) \/ Refuse(t, e)
     \/ \E p \in BOOLEAN : Clear(t, p)

LogNext == \E t \in Callers : Step(t)

LogSpec == LogInit /\ [][LogNext]_<<traceVars, replayed>>

-----------------------------------------------------------------------------
\* While emits do not overlap, replaying the recorded events succeeds and ends
\* in the state the verifier holds: rejected events leave no mark on either
\* (emit of trace_runtime.py, verify_trace of trace_model.py).
EventsReplay == replayed = trace

\* What makes it inductive: a thread inside emit has read the state the
\* verifier still holds.
LogInv ==
  /\ TraceTyped
  /\ EventsReplay
  /\ \A t \in Callers : read[t] \in {Unread, trace}
=============================================================================
