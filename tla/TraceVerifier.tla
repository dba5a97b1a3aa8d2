--------------------------- MODULE TraceVerifier ---------------------------
(***************************************************************************)
(* RuntimeTraceVerifier of trace_runtime.py: one state that emit moves     *)
(* along the transitions of TraceModel and reset starts again.  It has no  *)
(* lock: whoever shares a verifier shares its state, and emit reads the    *)
(* state, computes the next one and stores it with other threads running   *)
(* in between.                                                             *)
(***************************************************************************)
EXTENDS TraceModel

CONSTANT Callers  \* the threads that share the verifier

VARIABLES
  trace,  \* self.state
  read    \* the state a thread's emit has read and not yet replaced

traceVars == <<trace, read>>

Unread == [phase |-> "unread"]

TraceInit == trace = Fresh(FALSE) /\ read = [t \in Callers |-> Unread]

\* emit, first half: apply_transition is given the state.
BeginEmit(t) ==
  /\ read[t] = Unread
  /\ read' = [read EXCEPT ![t] = trace]
  /\ UNCHANGED trace

\* emit, second half: the transition was accepted and its result is stored.
Emit(t, e) ==
  /\ read[t] # Unread
  /\ Accepts(read[t], e)
  /\ trace' = After(read[t], e)
  /\ read' = [read EXCEPT ![t] = Unread]

\* emit raises TraceViolation and stores nothing.
Rejected(t, e) ==
  /\ read[t] # Unread
  /\ ~Accepts(read[t], e)
  /\ read' = [read EXCEPT ![t] = Unread]
  /\ UNCHANGED trace

\* reset, called by a thread that is not in emit.
Reset(t, parentHas) ==
  /\ read[t] = Unread
  /\ trace' = Fresh(parentHas)
  /\ UNCHANGED read

TraceNext ==
  \E t \in Callers :
    \/ BeginEmit(t)
    \/ \E e \in TraceEvents : Emit(t, e) \/ Rejected(t, e)
    \/ \E p \in BOOLEAN : Reset(t, p)

TraceSpec == TraceInit /\ [][TraceNext]_traceVars

-----------------------------------------------------------------------------
TraceTyped ==
  /\ trace \in BullTraceState
  /\ read \in [Callers -> BullTraceState \cup {Unread}]

\* What the guards of apply_transition leave to the fields: a run has no
\* later phase than "executed", a block never follows a clean scan.
StateInv(s) ==
  /\ s \in BullTraceState
  /\ s.phase = "start" => s.decision = "PENDING" /\ ~s.scanned
  /\ s.phase = "evaluated" => ~s.scanned
  /\ s.executed => s.phase = "executed"
  /\ s.phase = "executed" => s.executed
  /\ Sane(s)

\* The verifier only ever holds a state that validate_invariants passes and a
\* single thread could have reached, even when the emits of several threads
\* race and one overwrites the result of another.
TraceInv ==
  /\ TraceTyped
  /\ StateInv(trace)
  /\ \A t \in Callers : read[t] = Unread \/ StateInv(read[t])

\* The guards alone keep what validate_invariants asserts: in no reachable
\* state does a legal event, run in the sandbox with its filter, lead to a
\* state the invariants of trace_model.py reject.
GuardsSuffice ==
  \A e \in TraceEvents :
    /\ Legal(trace, e)
    /\ e.transition = "Execute" => e.sandboxed /\ e.seccomp
    => Sane(After(trace, e))
=============================================================================
