--------------------------- MODULE RuntimeProofs ---------------------------
(***************************************************************************)
(* Proofs about the trace verifier and the runtime, for any number of      *)
(* callers.                                                                *)
(***************************************************************************)
EXTENDS QuietRuntime, EventLog, TLAPS

\* An event of TraceEvents carries the data its transition needs, and nothing
\* apply_transition computes from it leaves the trace states.
LEMMA AfterType ==
  ASSUME NEW s \in BullTraceState, NEW e \in TraceEvents
  PROVE  After(s, e) \in BullTraceState
<1> USE DEF After, BullTraceState
<1>0. /\ e.transition = "Evaluate" => e.decision \in Decisions
      /\ e.transition = "Execute" => e.sandboxed \in BOOLEAN /\ e.seccomp \in BOOLEAN
  BY DEF TraceEvents
<1>1. CASE e.transition = "Evaluate"
  BY SMTT(60), ZenonT(60), <1>1, <1>0, ZenonT(30)
<1>2. CASE e.transition = "ScanClean"
  BY SMTT(60), ZenonT(60), <1>2, <1>0, ZenonT(30)
<1>3. CASE e.transition = "ScanMalware"
  BY SMTT(60), ZenonT(60), <1>3, <1>0, ZenonT(30)
<1>4. CASE e.transition = "BlockMalware"
  BY <1>4, <1>0
<1>5. CASE e.transition = "Execute"
  BY SMTT(60), ZenonT(60), <1>5, <1>0, ZenonT(30)
<1>6. CASE e.transition = "ResolveDeny"
  BY <1>6, <1>0
<1>7. CASE e.transition = "ResolveEscalate"
  BY <1>7, <1>0
<1>8. CASE e.transition = "GrantChildCapability"
  BY <1>8, <1>0, ZenonT(30)
<1>9. CASE e.transition = "GrantSecret"
  BY <1>9, <1>0, ZenonT(30)
<1>10. CASE e.transition = "ReturnSecret"
  BY <1>10, <1>0, ZenonT(30)
<1>11. CASE e.transition = "GrantBroker"
  BY <1>11, <1>0, ZenonT(30)
<1>12. CASE e.transition = "BrokerEgress"
  BY <1>12, <1>0, ZenonT(30)
<1>13. QED
  BY <1>1, <1>2, <1>3, <1>4, <1>5, <1>6, <1>7, <1>8, <1>9, <1>10, <1>11, <1>12, Zenon DEF TraceEvents

\* In a state of the verifier the guards of apply_transition leave nothing for
\* validate_invariants to reject.
LEMMA GuardsKeepSane ==
  ASSUME NEW s, StateInv(s), NEW e \in TraceEvents, Legal(s, e),
         e.transition = "Execute" => e.sandboxed /\ e.seccomp
  PROVE  Sane(After(s, e))
<1> USE DEF StateInv, BullTraceState, Sane, Legal, After, LegalExecute, LegalScan, LegalEvaluate
<1>1. CASE e.transition = "Evaluate"
  BY SMTT(60), ZenonT(60), <1>1, ZenonT(30)
<1>2. CASE e.transition = "ScanClean"
  BY SMTT(60), ZenonT(60), <1>2, ZenonT(30)
<1>3. CASE e.transition = "ScanMalware"
  BY SMTT(60), ZenonT(60), <1>3, ZenonT(30)
<1>4. CASE e.transition = "BlockMalware"
  BY <1>4
<1>5. CASE e.transition = "Execute"
  BY SMTT(60), ZenonT(60), <1>5, ZenonT(30)
<1>6. CASE e.transition = "ResolveDeny"
  BY <1>6
<1>7. CASE e.transition = "ResolveEscalate"
  BY <1>7
<1>8. CASE e.transition = "GrantChildCapability"
  BY <1>8
<1>9. CASE e.transition = "GrantSecret"
  BY <1>9
<1>10. CASE e.transition = "ReturnSecret"
  BY <1>10
<1>11. CASE e.transition = "GrantBroker"
  BY <1>11
<1>12. CASE e.transition = "BrokerEgress"
  BY <1>12
<1>13. QED
  BY <1>1, <1>2, <1>3, <1>4, <1>5, <1>6, <1>7, <1>8, <1>9, <1>10, <1>11, <1>12, Zenon DEF TraceEvents

\* An accepted event leads from a state of the verifier to another one.
LEMMA AcceptedState ==
  ASSUME NEW s, StateInv(s), NEW e \in TraceEvents, Accepts(s, e)
  PROVE  StateInv(After(s, e))
<1> SUFFICES ASSUME NEW n, n = After(s, e) PROVE StateInv(n)
  OBVIOUS
<1>0. n \in BullTraceState /\ Sane(n) /\ Legal(s, e)
  BY AfterType, SMTT(30) DEF Accepts, StateInv
<1>1. /\ n.phase = "start" => n.decision = "PENDING" /\ ~n.scanned
      /\ n.phase = "evaluated" => ~n.scanned
      /\ n.executed => n.phase = "executed"
      /\ n.phase = "executed" => n.executed
  <2> USE DEF StateInv, BullTraceState, Legal, After, LegalExecute, LegalScan, LegalEvaluate
  <2>1. CASE e.transition = "Evaluate"
    <3>1. n = [s EXCEPT !.phase = "evaluated", !.decision = e.decision]
      BY <2>1
    <3>2. s.phase = "start" /\ ~s.scanned /\ ~s.executed
      BY <2>1, <1>0
    <3>3. n.phase = "evaluated" /\ n.scanned = s.scanned /\ n.executed = s.executed
      BY <3>1
    <3>4. QED
      BY <3>2, <3>3
  <2>2. CASE e.transition = "ScanClean"
    <3>1. n = [s EXCEPT !.phase = "scanned", !.scanned = TRUE, !.malware_clean = TRUE]
      BY <2>2
    <3>2. s.phase \in {"evaluated", "scanned"}
      BY <2>2, <1>0
    <3>3. n.phase = "scanned" /\ (n.executed => s.executed)
      BY <3>1
    <3>4. QED
      BY <3>2, <3>3
  <2>3. CASE e.transition = "ScanMalware"
    <3>1. n = [s EXCEPT !.phase = "scanned", !.scanned = TRUE, !.malware_clean = FALSE]
      BY <2>3
    <3>2. s.phase \in {"evaluated", "scanned"}
      BY <2>3, <1>0
    <3>3. n.phase = "scanned" /\ (n.executed => s.executed)
      BY <3>1
    <3>4. QED
      BY <3>2, <3>3
  <2>4. CASE e.transition = "BlockMalware"
    BY <2>4, <1>0
  <2>5. CASE e.transition = "Execute"
    <3>1. n = [s EXCEPT !.phase = "executed", !.executed = TRUE,
                            !.sandboxed = e.sandboxed, !.seccomp = e.seccomp]
      BY <2>5
    <3>2. s.phase \in {"evaluated", "scanned"}
      BY <2>5, <1>0
    <3>3. n.phase = "executed" /\ n.executed
      BY <3>1
    <3>4. QED
      BY <3>2, <3>3
  <2>6. CASE e.transition = "ResolveDeny"
    BY <2>6, <1>0
  <2>7. CASE e.transition = "ResolveEscalate"
    BY <2>7, <1>0
  <2>8. CASE e.transition = "GrantChildCapability"
    BY <2>8, <1>0
  <2>9. CASE e.transition = "GrantSecret"
    BY <2>9, <1>0
  <2>10. CASE e.transition = "ReturnSecret"
    BY <2>10, <1>0
  <2>11. CASE e.transition = "GrantBroker"
    BY <2>11, <1>0
  <2>12. CASE e.transition = "BrokerEgress"
    BY <2>12, <1>0
  <2>13. QED
    BY <2>1, <2>2, <2>3, <2>4, <2>5, <2>6, <2>7, <2>8, <2>9, <2>10, <2>11, <2>12, Zenon DEF TraceEvents
<1>2. QED
  BY <1>0, <1>1 DEF StateInv

\* reset leaves a state of the verifier.
LEMMA FreshState == \A p \in BOOLEAN : StateInv(Fresh(p))
BY DEF StateInv, Fresh, BullTraceState, Sane, Decisions, EXECUTABLE_DECISIONS

\* A new verifier is in one.
LEMMA InitTrace == TraceInit => TraceInv
<1> SUFFICES ASSUME TraceInit PROVE TraceInv
  OBVIOUS
<1>1. StateInv(trace)
  BY FreshState, Zenon DEF TraceInit
<1>2. QED
  BY <1>1, Zenon DEF TraceInit, TraceInv, TraceTyped, StateInv

\* emit and reset lead from states of the verifier to states of the verifier.
LEMMA TraceSteps == TraceInv /\ [TraceNext]_traceVars => TraceInv'
<1> SUFFICES ASSUME TraceInv, [TraceNext]_traceVars PROVE TraceInv'
  OBVIOUS
<1>0. StateInv(trace) => trace \in BullTraceState
  BY DEF StateInv
<1>1. ASSUME NEW t \in Callers, BeginEmit(t) PROVE TraceInv'
  BY <1>0, <1>1 DEF BeginEmit, TraceInv, TraceTyped
<1>2. ASSUME NEW t \in Callers, NEW e \in TraceEvents, Emit(t, e) PROVE TraceInv'
  <2>1. StateInv(read[t])
    BY <1>2 DEF Emit, TraceInv
  <2>2. StateInv(trace')
    BY <1>2, <2>1, AcceptedState DEF Emit
  <2>3. trace' \in BullTraceState
    BY <2>2 DEF StateInv
  <2>4. QED
    BY <1>2, <2>2, <2>3 DEF Emit, TraceInv, TraceTyped
<1>3. ASSUME NEW t \in Callers, NEW e \in TraceEvents, Rejected(t, e) PROVE TraceInv'
  BY <1>3 DEF Rejected, TraceInv, TraceTyped
<1>4. ASSUME NEW t \in Callers, NEW p \in BOOLEAN, Reset(t, p) PROVE TraceInv'
  <2>1. StateInv(trace')
    BY <1>4, FreshState DEF Reset
  <2>2. trace' \in BullTraceState
    BY <2>1 DEF StateInv
  <2>3. QED
    BY <1>4, <2>1, <2>2 DEF Reset, TraceInv, TraceTyped
<1>5. CASE UNCHANGED traceVars
  BY <1>5 DEF traceVars, TraceInv, TraceTyped
<1>6. QED
  BY <1>1, <1>2, <1>3, <1>4, <1>5 DEF TraceNext

\* The verifier's state satisfies validate_invariants after every emit and
\* every reset, although emit has no lock: what it stores is computed from a
\* state the verifier has held, if not from the one it holds now.
THEOREM TraceInvariant == TraceSpec => []TraceInv
<1>1. TraceInit => TraceInv
  BY InitTrace
<1>2. TraceInv /\ [TraceNext]_traceVars => TraceInv'
  BY TraceSteps
<1>3. QED
  BY <1>1, <1>2, PTL DEF TraceSpec

\* validate_invariants never fires on a legal event: the guards suffice.
THEOREM GuardsAreEnough == TraceSpec => []GuardsSuffice
<1>1. TraceInv => GuardsSuffice
  BY GuardsKeepSane DEF GuardsSuffice, TraceInv
<1>2. QED
  BY <1>1, TraceInvariant, PTL

-----------------------------------------------------------------------------
\* A step of caller t that keeps its own facts keeps everybody's.
LEMMA OneCaller ==
  ASSUME RuntimeInv, NEW t \in Callers, TypeOK', CallInv(t)',
         \A u \in Callers \ {t} : /\ at'[u] = at[u] /\ call'[u] = call[u]
                                  /\ disk'[u] = disk[u] /\ drift'[u] = drift[u]
  PROVE  RuntimeInv'
<1>1. ASSUME NEW u \in Callers \ {t} PROVE CallInv(u)'
  <2>1. CallInv(u)
    BY <1>1 DEF RuntimeInv
  <2>2. QED
    BY <1>1, <2>1 DEF CallInv
<1>2. QED
  BY <1>1 DEF RuntimeInv

\* However a call ends, nothing of it is left.
LEMMA Leaving ==
  ASSUME RuntimeInv, NEW t \in Callers, Leave(t),
         TraceTyped', report' \in Reports
  PROVE  RuntimeInv'
<1>1. NoCall \in Calls
  BY DEF NoCall, Calls, Decisions
<1>2. TypeOK'
  BY <1>1 DEF RuntimeInv, TypeOK, Leave, Go, Steps
<1>3. /\ at'[t] = "idle" /\ call'[t] = NoCall /\ disk'[t] = "none" /\ drift'[t] = "no"
  BY DEF RuntimeInv, TypeOK, Leave, Go
<1>4. CallInv(t)'
  BY <1>3 DEF CallInv, NoCall, AfterSnapshot, AfterVerdict
<1>5. \A u \in Callers \ {t} : /\ at'[u] = at[u] /\ call'[u] = call[u]
                               /\ disk'[u] = disk[u] /\ drift'[u] = drift[u]
  BY DEF RuntimeInv, TypeOK, Leave, Go
<1>6. QED
  BY <1>2, <1>4, <1>5, OneCaller

\* A step of t that only moves on and changes at most its locals.
LEMMA Moving ==
  ASSUME RuntimeInv, NEW t \in Callers, NEW step \in Steps, NEW c \in Calls,
         NEW d \in Contents \cup {"none"}, NEW w \in {"no", "seen", "late"},
         at' = [at EXCEPT ![t] = step], call' = [call EXCEPT ![t] = c],
         disk' = [disk EXCEPT ![t] = d], drift' = [drift EXCEPT ![t] = w],
         TraceTyped', report' \in Reports,
         CallInv(t)'
  PROVE  RuntimeInv'
<1>1. TypeOK'
  BY DEF RuntimeInv, TypeOK
<1>2. \A u \in Callers \ {t} : /\ at'[u] = at[u] /\ call'[u] = call[u]
                               /\ disk'[u] = disk[u] /\ drift'[u] = drift[u]
  BY DEF RuntimeInv, TypeOK
<1>3. QED
  BY <1>1, <1>2, OneCaller

\* emit keeps the trace a trace state, and a rejected event ends the call.
LEMMA EmitTyped ==
  ASSUME RuntimeInv, NEW t \in Callers, NEW e \in TraceEvents, Emit(t, e)
  PROVE  TraceTyped'
<1>1. TraceTyped /\ read[t] \in BullTraceState
  BY DEF Emit, RuntimeInv, TypeOK, TraceTyped
<1>2. After(read[t], e) \in BullTraceState
  BY <1>1, AfterType
<1>3. QED
  BY <1>1, <1>2 DEF Emit, TraceTyped

\* A step that leaves the verifier alone.
LEMMA TraceKept ==
  ASSUME RuntimeInv, UNCHANGED traceVars
  PROVE  TraceTyped'
BY DEF RuntimeInv, TypeOK, TraceTyped, traceVars

\* What execute returns is a result, whatever its parts.
LEMMA ReportTyped ==
  ASSUME NEW kind \in {"none", "refused", "executed", "rejected"},
         NEW c \in Calls, NEW s \in BullTraceState
  PROVE  Report(kind, c, s) \in Reports
BY DEF Report, Reports, Calls

\* A TraceViolation ends the call like any other exit.
LEMMA RejectKeeps ==
  ASSUME RuntimeInv, NEW t \in Callers, NEW e \in TraceEvents, Reject(t, e)
  PROVE  RuntimeInv'
<1>1. TraceTyped' /\ call[t] \in Calls /\ trace \in BullTraceState
  BY DEF RuntimeInv, TypeOK, Reject, Rejected, TraceTyped
<1>2. report' \in Reports
  BY <1>1, ReportTyped DEF Reject, Return
<1>3. QED
  BY <1>1, <1>2, Leaving DEF Reject, Return

\* An event after which the call returns.
LEMMA EmitReturnKeeps ==
  ASSUME RuntimeInv, NEW t \in Callers, NEW e \in TraceEvents,
         NEW kind \in {"refused", "executed"}, EmitReturn(t, e, kind)
  PROVE  RuntimeInv'
<1>1. CASE Reject(t, e)
  BY <1>1, RejectKeeps
<1>2. CASE Emit(t, e) /\ Return(t, kind, trace')
  <2>1. TraceTyped' /\ call[t] \in Calls
    BY <1>2, EmitTyped DEF RuntimeInv, TypeOK
  <2>2. report' \in Reports
    BY <1>2, <2>1, ReportTyped DEF Return, TraceTyped
  <2>3. QED
    BY <1>2, <2>1, <2>2, Leaving DEF Return
<1>3. QED
  BY <1>1, <1>2 DEF EmitReturn

\* A refusal that emits nothing.
LEMMA ReturnKeeps ==
  ASSUME RuntimeInv, NEW t \in Callers, Return(t, "refused", trace), UNCHANGED traceVars
  PROVE  RuntimeInv'
<1>1. TraceTyped' /\ call[t] \in Calls /\ trace \in BullTraceState
  BY TraceKept DEF RuntimeInv, TypeOK, TraceTyped
<1>2. report' \in Reports
  BY <1>1, ReportTyped DEF Return
<1>3. QED
  BY <1>1, <1>2, Leaving DEF Return

\* An event after which the call goes on, its locals as they were.
LEMMA EmitThenKeeps ==
  ASSUME RuntimeInv, NEW t \in Callers, NEW e \in TraceEvents,
         NEW step \in Steps, EmitThen(t, e, step),
         Go(t, step) /\ UNCHANGED <<call, disk, drift>> => CallInv(t)'
  PROVE  RuntimeInv'
<1>1. CASE Reject(t, e)
  BY <1>1, RejectKeeps
<1>2. CASE Emit(t, e) /\ Go(t, step) /\ UNCHANGED <<call, disk, drift, report>>
  <2>1. TraceTyped'
    BY <1>2, EmitTyped
  <2>2. /\ call[t] \in Calls /\ disk[t] \in Contents \cup {"none"}
        /\ drift[t] \in {"no", "seen", "late"} /\ report' \in Reports
    BY <1>2 DEF RuntimeInv, TypeOK
  <2>3. /\ call' = [call EXCEPT ![t] = call[t]] /\ disk' = [disk EXCEPT ![t] = disk[t]]
        /\ drift' = [drift EXCEPT ![t] = drift[t]]
    BY <1>2 DEF RuntimeInv, TypeOK
  <2>4. QED
    BY <1>2, <2>1, <2>2, <2>3, Moving, Zenon DEF Go
<1>3. QED
  BY <1>1, <1>2 DEF EmitThen

\* Every event execute emits is one of the vocabulary.
LEMMA EmittedEvents ==
  /\ \A d \in Decisions : Evaluated(d) \in TraceEvents
  /\ Executed \in TraceEvents
  /\ \A n \in {"ScanClean", "ScanMalware", "BlockMalware", "ResolveDeny",
              "ResolveEscalate"} : Event(n) \in TraceEvents
BY DEF Evaluated, Executed, Event, TraceEvents

\* Each step of a call keeps the facts later steps rely on.
LEMMA StepKeeps ==
  ASSUME RuntimeInv, NEW t \in Callers, CallerStep(t)
  PROVE  RuntimeInv'
<1>1. /\ TypeOK /\ CallInv(t) /\ call[t] \in Calls
      /\ disk[t] \in Contents \cup {"none"} /\ drift[t] \in {"no", "seen", "late"}
  BY DEF RuntimeInv, TypeOK
<1> USE DEF AfterSnapshot, AfterVerdict
<1>2. CASE EmitRefusal(t)
  <2>1. CASE Reject(t, Evaluated("DENY"))
    BY <2>1, RejectKeeps, EmittedEvents DEF Decisions
  <2>2. CASE ~Reject(t, Evaluated("DENY"))
    <3> DEFINE c == [call[t] EXCEPT !.decision = "DENY"]
    <3>1. /\ Emit(t, Evaluated("DENY")) /\ Go(t, "resolve") /\ at[t] = "refuse"
          /\ call' = [call EXCEPT ![t].decision = "DENY"]
          /\ UNCHANGED <<disk, drift, report>>
      BY <1>2, <2>2 DEF EmitRefusal
    <3>2. TraceTyped'
      BY <3>1, EmitTyped, EmittedEvents DEF Decisions
    <3>3. /\ c \in Calls /\ "resolve" \in Steps /\ report' \in Reports
          /\ call' = [call EXCEPT ![t] = c] /\ at' = [at EXCEPT ![t] = "resolve"]
          /\ disk' = [disk EXCEPT ![t] = disk[t]] /\ drift' = [drift EXCEPT ![t] = drift[t]]
      BY <1>1, <3>1, SMTT(30) DEF TypeOK, Calls, Steps, Go, Decisions
    <3>4. CallInv(t)'
      BY <1>1, <3>1, <3>3 DEF TypeOK, CallInv, Calls
    <3>5. QED
      BY <1>1, <3>2, <3>3, <3>4, Moving, Zenon
  <2>3. QED
    BY <2>1, <2>2
<1>3. CASE DenyLog(t)
  <2>1. CASE Return(t, "refused", trace)
    BY <1>3, <2>1, ReturnKeeps DEF DenyLog
  <2>2. CASE Leave(t) /\ UNCHANGED report
    BY <1>1, <1>3, <2>2, Leaving, TraceKept DEF DenyLog, TypeOK
  <2>3. QED
    BY <1>3, <2>1, <2>2 DEF DenyLog
<1>4. CASE EmitEvaluate(t)
  <2> DEFINE next == IF call[t].decision \in EXECUTABLE_DECISIONS
                     THEN "snapshot" ELSE "resolve"
  <2>1. at[t] = "emitEvaluate" /\ EmitThen(t, Evaluated(call[t].decision), next)
    BY <1>4 DEF EmitEvaluate
  <2>2. call[t].decision \in Decisions
    BY <1>1, <2>1 DEF CallInv, Calls
  <2>3. next \in Steps
    BY DEF Steps
  <2>4. ASSUME Go(t, next), UNCHANGED <<call, disk, drift>> PROVE CallInv(t)'
    BY <1>1, <2>1, <2>4 DEF TypeOK, CallInv, Go
  <2>5. QED
    BY <2>1, <2>2, <2>3, <2>4, EmitThenKeeps, EmittedEvents
<1>5. CASE Resolve(t)
  <2> DEFINE e == Event(IF call[t].decision = "DENY" THEN "ResolveDeny" ELSE "ResolveEscalate")
  <2>1. e \in TraceEvents
    BY EmittedEvents
  <2>2. CASE EmitReturn(t, e, "refused")
    BY <2>1, <2>2, EmitReturnKeeps
  <2>3. CASE EmitThen(t, e, "denyLog")
    <3>1. "denyLog" \in Steps /\ at[t] = "resolve"
      BY <1>5 DEF Steps, Resolve
    <3>2. ASSUME Go(t, "denyLog"), UNCHANGED <<call, disk, drift>> PROVE CallInv(t)'
      BY <1>1, <3>1, <3>2 DEF TypeOK, CallInv, Go
    <3>3. QED
      BY <2>1, <2>3, <3>1, <3>2, EmitThenKeeps
  <2>4. QED
    BY <1>5, <2>2, <2>3 DEF Resolve
<1>6. ASSUME NEW d \in Decisions, Evaluate(t, d) PROVE RuntimeInv'
  <2> DEFINE c == [call[t] EXCEPT !.decision = d, !.recorded = d]
  <2>1. /\ c \in Calls /\ "emitEvaluate" \in Steps /\ report' \in Reports
        /\ at[t] = "evaluate" /\ TraceTyped'
        /\ call' = [call EXCEPT ![t] = c] /\ at' = [at EXCEPT ![t] = "emitEvaluate"]
        /\ disk' = [disk EXCEPT ![t] = disk[t]] /\ drift' = [drift EXCEPT ![t] = drift[t]]
    BY SMTT(60), ZenonT(60), <1>1, <1>6, TraceKept, ZenonT(30) DEF TypeOK, Calls, Steps, Go, Evaluate
  <2>2. CallInv(t)'
    BY <1>1, <2>1 DEF TypeOK, CallInv, Calls
  <2>3. QED
    BY <1>1, <2>1, <2>2, Moving, Zenon
<1>7. ASSUME NEW p \in Contents, TakeSnapshot(t, p) PROVE RuntimeInv'
  <2> DEFINE c == [call[t] EXCEPT !.copied = p]
  <2>1. /\ c \in Calls /\ "scan" \in Steps /\ report' \in Reports
        /\ at[t] = "snapshot" /\ TraceTyped'
        /\ call' = [call EXCEPT ![t] = c] /\ at' = [at EXCEPT ![t] = "scan"]
        /\ disk' = [disk EXCEPT ![t] = p] /\ drift' = [drift EXCEPT ![t] = drift[t]]
    BY <1>1, <1>7, TraceKept DEF TypeOK, Calls, Steps, Go, TakeSnapshot
  <2>2. CallInv(t)'
    BY <1>1, <2>1 DEF TypeOK, CallInv, Calls, Contents
  <2>3. QED
    BY <1>1, <2>1, <2>2, Moving, Zenon
<1>8. CASE Inadmissible(t)
  BY <1>8, ReturnKeeps DEF Inadmissible
<1>9. CASE Scan(t)
  <2> DEFINE c == [call[t] EXCEPT !.scanned = disk[t]]
  <2>1. /\ c \in Calls /\ report' \in Reports
        /\ at[t] = "scan" /\ TraceTyped'
        /\ call' = [call EXCEPT ![t] = c]
        /\ disk' = [disk EXCEPT ![t] = disk[t]] /\ drift' = [drift EXCEPT ![t] = drift[t]]
    BY <1>1, <1>9, TraceKept DEF TypeOK, Calls, Scan
  <2>2. CASE disk[t] = "clean" /\ Go(t, "emitClean")
    <3>1. at' = [at EXCEPT ![t] = "emitClean"] /\ "emitClean" \in Steps
      BY <2>2 DEF Go, Steps
    <3>2. CallInv(t)'
      BY <1>1, <2>1, <2>2, <3>1 DEF TypeOK, CallInv, Calls
    <3>3. QED
      BY <1>1, <2>1, <3>1, <3>2, Moving, Zenon
  <2>3. CASE Go(t, "emitMalware")
    <3>1. at' = [at EXCEPT ![t] = "emitMalware"] /\ "emitMalware" \in Steps
      BY <2>3 DEF Go, Steps
    <3>2. CallInv(t)'
      BY <1>1, <2>1, <2>3, <3>1 DEF TypeOK, CallInv, Calls
    <3>3. QED
      BY <1>1, <2>1, <3>1, <3>2, Moving, Zenon
  <2>4. QED
    BY <1>9, <2>2, <2>3 DEF Scan
<1>10. CASE EmitMalware(t)
  <2>1. "emitBlock" \in Steps /\ at[t] = "emitMalware"
    BY <1>10 DEF Steps, EmitMalware
  <2>2. ASSUME Go(t, "emitBlock"), UNCHANGED <<call, disk, drift>> PROVE CallInv(t)'
    BY <1>1, <2>1, <2>2 DEF TypeOK, CallInv, Go
  <2>3. QED
    BY <1>10, <2>1, <2>2, EmitThenKeeps, EmittedEvents DEF EmitMalware
<1>11. CASE EmitBlock(t)
  BY <1>11, EmitReturnKeeps, EmittedEvents DEF EmitBlock
<1>12. CASE EmitClean(t)
  <2>1. "recheck" \in Steps /\ at[t] = "emitClean"
    BY <1>12 DEF Steps, EmitClean
  <2>2. ASSUME Go(t, "recheck"), UNCHANGED <<call, disk, drift>> PROVE CallInv(t)'
    BY <1>1, <2>1, <2>2 DEF TypeOK, CallInv, Go
  <2>3. QED
    BY <1>12, <2>1, <2>2, EmitThenKeeps, EmittedEvents DEF EmitClean
<1>13. CASE Recheck(t)
  <2>1. CASE HashUnchanged(t) /\ Go(t, "run") /\ UNCHANGED <<call, disk, drift, report>>
    <3>1. /\ "run" \in Steps /\ at[t] = "recheck" /\ disk[t] = call[t].copied
          /\ TraceTyped' /\ report' \in Reports
          /\ at' = [at EXCEPT ![t] = "run"] /\ call' = [call EXCEPT ![t] = call[t]]
          /\ disk' = [disk EXCEPT ![t] = disk[t]] /\ drift' = [drift EXCEPT ![t] = drift[t]]
      BY <1>1, <1>13, <2>1, TraceKept DEF TypeOK, Steps, Go, Recheck, HashUnchanged
    <3>2. CallInv(t)'
      BY <1>1, <3>1 DEF TypeOK, CallInv
    <3>3. QED
      BY <1>1, <3>1, <3>2, Moving, Zenon
  <2>2. CASE Return(t, "refused", trace)
    BY <1>13, <2>2, ReturnKeeps DEF Recheck
  <2>3. QED
    BY <1>13, <2>1, <2>2 DEF Recheck
<1>14. CASE Run(t)
  <2> DEFINE c == [call[t] EXCEPT !.ran = disk[t]]
  <2>1. /\ c \in Calls /\ "emitExecute" \in Steps /\ report' \in Reports
        /\ at[t] = "run" /\ TraceTyped'
        /\ call' = [call EXCEPT ![t] = c] /\ at' = [at EXCEPT ![t] = "emitExecute"]
        /\ disk' = [disk EXCEPT ![t] = disk[t]] /\ drift' = [drift EXCEPT ![t] = drift[t]]
    BY <1>1, <1>14, TraceKept, Zenon DEF TypeOK, Calls, Steps, Go, Run
  <2>2. CallInv(t)'
    BY <1>1, <2>1 DEF TypeOK, CallInv, Calls
  <2>3. QED
    BY <1>1, <2>1, <2>2, Moving, Zenon
<1>15. CASE EmitExecute(t)
  BY <1>15, EmitReturnKeeps, EmittedEvents DEF EmitExecute
<1>16. CASE Fail(t)
  <2>1. Leave(t) /\ UNCHANGED <<traceVars, report>>
    BY <1>16 DEF Fail, Raise
  <2>2. TraceTyped' /\ report' \in Reports
    BY <1>1, <2>1, TraceKept DEF TypeOK
  <2>3. QED
    BY <2>1, <2>2, Leaving
<1>17. CASE ReadTrace(t)
  <2>1. UNCHANGED <<at, call, disk, drift, report>> /\ TraceTyped'
    BY <1>1, <1>17 DEF ReadTrace, BeginEmit, TypeOK, TraceTyped, local
  <2>2. QED
    BY <2>1 DEF RuntimeInv, TypeOK, CallInv
<1>18. QED
  BY <1>17, <1>2, <1>3, <1>4, <1>5, <1>6, <1>7, <1>8, <1>9, <1>10, <1>11, <1>12, <1>13,
     <1>14, <1>15, <1>16 DEF CallerStep

\* A runtime nobody has called yet.
LEMMA InitRuntime == Init => RuntimeInv
BY SMTT(60), ZenonT(60), ReportTyped DEF Init, RuntimeInv, TypeOK, TraceTyped, CallInv, NoCall, Calls, TraceInit, Fresh,
  BullTraceState, NoReport, Report, Reports, Steps, Decisions, AfterSnapshot, AfterVerdict

\* Every step of every caller keeps what execute has established.
LEMMA RuntimeSteps == RuntimeInv /\ [Next]_runtimeVars => RuntimeInv'
<1> SUFFICES ASSUME RuntimeInv, [Next]_runtimeVars PROVE RuntimeInv'
  OBVIOUS
<1> USE DEF AfterSnapshot, AfterVerdict
<1>1. ASSUME NEW t \in Callers, NEW permit \in BOOLEAN, NEW bound \in BOOLEAN,
             NEW p \in BOOLEAN, Call(t, permit, bound, p)
      PROVE  RuntimeInv'
  <2> DEFINE c == [NoCall EXCEPT !.permit = permit, !.bound = bound]
             next == IF permit /\ bound THEN "evaluate" ELSE "refuse"
  <2>1. NoCall \in Calls /\ c \in Calls /\ next \in Steps /\ Fresh(FALSE) \in BullTraceState
    BY Zenon DEF NoCall, Calls, Steps, Fresh, BullTraceState
  <2>2. TraceTyped'
    BY <1>1 DEF Call, Reset, Fresh, BullTraceState, RuntimeInv, TypeOK, TraceTyped
  <2>3. report' \in Reports
    BY <1>1, <2>1, ReportTyped, Zenon DEF Call, NoReport
  <2>4. /\ at[t] = "idle" /\ CallInv(t)
        /\ at' = [at EXCEPT ![t] = next] /\ call' = [call EXCEPT ![t] = c]
        /\ disk' = [disk EXCEPT ![t] = disk[t]] /\ drift' = [drift EXCEPT ![t] = drift[t]]
        /\ disk[t] \in Contents \cup {"none"} /\ drift[t] \in {"no", "seen", "late"}
    BY <1>1 DEF Call, Go, RuntimeInv, TypeOK
  <2>5. CallInv(t)'
    BY <2>1, <2>4 DEF CallInv, RuntimeInv, TypeOK, NoCall
  <2>6. QED
    BY <2>1, <2>2, <2>3, <2>4, <2>5, Moving, Zenon
<1>2. ASSUME NEW t \in Callers, CallerStep(t) PROVE RuntimeInv'
  BY <1>2, StepKeeps
<1>3. ASSUME NEW t \in Callers, Drift(t) PROVE RuntimeInv'
  <2> DEFINE w == IF at[t] = "run" THEN "late" ELSE "seen"
  <2>1. PICK d \in Contents \ {disk[t]} : disk' = [disk EXCEPT ![t] = d]
    BY <1>3, Zenon DEF Drift
  <2>2. /\ CallInv(t) /\ at[t] \in Steps /\ call[t] \in Calls
        /\ TraceTyped' /\ report' \in Reports
        /\ at[t] # "emitExecute" /\ disk[t] # "none" /\ drift[t] = "no"
        /\ at' = [at EXCEPT ![t] = at[t]] /\ call' = [call EXCEPT ![t] = call[t]]
        /\ drift' = [drift EXCEPT ![t] = w]
    BY <1>3, TraceKept DEF Drift, RuntimeInv, TypeOK
  <2>3. CallInv(t)'
    <3>1. /\ at'[t] = at[t] /\ call'[t] = call[t] /\ disk'[t] = d /\ drift'[t] = w
          /\ at[t] \in AfterSnapshot /\ disk[t] = call[t].copied /\ call[t].ran = "none"
          /\ d # "none" /\ d # disk[t]
      BY <2>1, <2>2 DEF CallInv, RuntimeInv, TypeOK, Contents
    <3>2. CASE at[t] = "run"
      <4>1. w = "late"
        BY <3>2
      <4>2. QED
        BY <2>2, <3>1, <3>2, <4>1 DEF CallInv
    <3>3. CASE at[t] # "run"
      <4>1. w = "seen"
        BY <3>3
      <4>2. QED
        BY <2>2, <3>1, <3>3, <4>1 DEF CallInv
    <3>4. QED
      BY <3>2, <3>3
  <2>4. QED
    BY <2>1, <2>2, <2>3, Moving, Zenon
<1>4. CASE UNCHANGED runtimeVars
  BY SMTT(60), ZenonT(60), <1>4 DEF runtimeVars, local, RuntimeInv, TypeOK, TraceTyped, CallInv
<1>5. QED
  BY <1>1, <1>2, <1>3, <1>4 DEF Next

\* execute keeps its facts whatever the other callers do.
THEOREM RuntimeInvariant == Spec => []RuntimeInv
<1>1. Init => RuntimeInv
  BY InitRuntime
<1>2. RuntimeInv /\ [Next]_runtimeVars => RuntimeInv'
  BY RuntimeSteps
<1>3. QED
  BY <1>1, <1>2, PTL DEF Spec

\* execute runs a command only with permit, binding, recorded verdict and
\* clean scan, for any number of concurrent callers.
THEOREM RunClearedTheorem == Spec => []RunCleared
<1>1. RuntimeInv => RunCleared
  <2> SUFFICES ASSUME RuntimeInv, NEW t \in Callers, call[t].ran # "none"
               PROVE  /\ call[t].permit /\ call[t].bound
                      /\ call[t].recorded = call[t].decision
                      /\ call[t].decision \in EXECUTABLE_DECISIONS
                      /\ call[t].scanned = "clean"
                      /\ call[t].ran = "clean" \/ drift[t] = "late"
    BY DEF RunCleared
  <2>1. at[t] = "emitExecute" /\ CallInv(t) /\ drift[t] \in {"no", "seen", "late"}
    BY DEF RuntimeInv, CallInv, TypeOK
  <2>2. QED
    BY <2>1 DEF CallInv, AfterVerdict, AfterSnapshot
<1>2. QED
  BY <1>1, RuntimeInvariant, PTL

\* The finally clause of execute removes the snapshot on every way out.
THEOREM SnapshotsRemovedTheorem == Spec => []SnapshotsRemoved
<1>1. RuntimeInv => SnapshotsRemoved
  BY DEF RuntimeInv, CallInv, SnapshotsRemoved
<1>2. QED
  BY <1>1, RuntimeInvariant, PTL

-----------------------------------------------------------------------------
\* A recorded event is one the verifier accepted in the state it still holds.
LEMMA LogSteps == LogInv /\ [LogNext]_<<traceVars, replayed>> => LogInv'
<1> SUFFICES ASSUME LogInv, [LogNext]_<<traceVars, replayed>> PROVE LogInv'
  OBVIOUS
<1> USE DEF LogInv, TraceTyped, EventsReplay
<1>1. ASSUME NEW t \in Callers, Begin(t) PROVE LogInv'
  BY <1>1 DEF Begin, BeginEmit
<1>2. ASSUME NEW t \in Callers, \A u \in Callers \ {t} : read[u] = Unread,
             NEW e \in TraceEvents, Record(t, e)
      PROVE  LogInv'
  <2>1. /\ read[t] = trace /\ Accepts(trace, e) /\ trace' = After(trace, e)
        /\ \A u \in Callers : read'[u] = Unread
        /\ read' \in [Callers -> BullTraceState \cup {Unread}]
    BY <1>2 DEF Record, Emit
  <2>2. trace' \in BullTraceState
    BY <2>1, AfterType
  <2>3. trace # Illegal
    BY DEF Illegal, BullTraceState
  <2>4. replayed' = trace'
    BY <1>2, <2>1, <2>3 DEF Record, Replay
  <2>5. QED
    BY <2>1, <2>2, <2>4
<1>3. ASSUME NEW t \in Callers, NEW e \in TraceEvents, Refuse(t, e) PROVE LogInv'
  BY <1>3 DEF Refuse, Rejected
<1>4. ASSUME NEW t \in Callers, \A u \in Callers \ {t} : read[u] = Unread,
             NEW p \in BOOLEAN, Clear(t, p)
      PROVE  LogInv'
  <2>1. Fresh(p) \in BullTraceState
    BY FreshState DEF StateInv
  <2>2. QED
    BY <1>4, <2>1 DEF Clear, Reset
<1>5. CASE UNCHANGED <<traceVars, replayed>>
  BY <1>5 DEF traceVars
<1>6. QED
  BY <1>1, <1>2, <1>3, <1>4, <1>5 DEF LogNext, Step

\* The event list of the trace verifier replays to its state (verify_trace):
\* no accepted event is missing and no rejected one is recorded, for any
\* number of threads whose emits do not overlap.
THEOREM EventsReplayTheorem == LogSpec => []EventsReplay
<1>1. LogInit => LogInv
  <2>1. Fresh(FALSE) \in BullTraceState
    BY FreshState, Zenon DEF StateInv
  <2>2. QED
    BY <2>1, Zenon DEF LogInit, TraceInit, LogInv, TraceTyped, EventsReplay
<1>2. LogInv => EventsReplay
  BY DEF LogInv
<1>3. QED
  BY <1>1, <1>2, LogSteps, PTL DEF LogSpec

-----------------------------------------------------------------------------
\* A step of execute does to the verifier what emit and reset do.
LEMMA ExecuteTraces ==
  ASSUME RuntimeInv, NEW t \in Callers, CallerStep(t) \/ Drift(t)
  PROVE  [TraceNext]_traceVars
<1>1. \A d \in Decisions \cup {"PENDING"} :
        call[t].decision = d /\ at[t] = "emitEvaluate" => Evaluated(d) \in TraceEvents
  BY EmittedEvents DEF RuntimeInv, CallInv, AfterVerdict
<1>2. call[t].decision \in Decisions \cup {"PENDING"}
  BY DEF RuntimeInv, TypeOK, Calls
<1>3. ASSUME NEW e \in TraceEvents, Emit(t, e) \/ Rejected(t, e) PROVE TraceNext
  BY <1>3 DEF TraceNext
<1>4. CASE EmitRefusal(t)
  BY <1>3, <1>4, EmittedEvents DEF EmitRefusal, Reject, Decisions
<1>5. CASE EmitEvaluate(t)
  BY <1>1, <1>2, <1>3, <1>5 DEF EmitEvaluate, EmitThen, Reject
<1>6. CASE Resolve(t)
  BY <1>3, <1>6, EmittedEvents DEF Resolve, EmitThen, EmitReturn, Reject
<1>7. CASE EmitMalware(t) \/ EmitBlock(t) \/ EmitClean(t) \/ EmitExecute(t)
  BY <1>3, <1>7, EmittedEvents
  DEF EmitMalware, EmitBlock, EmitClean, EmitExecute, EmitThen, EmitReturn, Reject
<1>8. CASE ReadTrace(t)
  BY <1>8 DEF ReadTrace, TraceNext
<1>9. CASE Drift(t)
  BY <1>9 DEF Drift
<1>10. CASE DenyLog(t) \/ Inadmissible(t) \/ Scan(t) \/ Recheck(t) \/ Run(t) \/ Fail(t)
  BY <1>10 DEF DenyLog, Inadmissible, Scan, Recheck, Run, Fail, Raise
<1>11. CASE \/ \E d \in Decisions : Evaluate(t, d)
            \/ \E c \in Contents : TakeSnapshot(t, c)
  BY <1>11, Zenon DEF Evaluate, TakeSnapshot
<1>12. QED
  BY <1>4, <1>5, <1>6, <1>7, <1>8, <1>9, <1>10, <1>11 DEF CallerStep

\* Where execute emits, a call that is alone finds its event accepted.
LEMMA EventsAreLegal ==
  ASSUME NEW s, StateInv(s), NEW step, NEW c, Follows(s, step, c)
  PROVE  /\ step = "refuse" => Accepts(s, Evaluated("DENY"))
         /\ step = "emitEvaluate" =>
              \A d \in Decisions : Accepts(s, Evaluated(d))
         /\ step = "resolve" /\ c.decision = "DENY" => Accepts(s, Event("ResolveDeny"))
         /\ step = "resolve" /\ c.decision # "DENY" => Accepts(s, Event("ResolveEscalate"))
         /\ step = "emitMalware" /\ c.decision \in EXECUTABLE_DECISIONS =>
              Accepts(s, Event("ScanMalware"))
         /\ step = "emitClean" /\ c.decision \in EXECUTABLE_DECISIONS =>
              Accepts(s, Event("ScanClean"))
         /\ step = "emitBlock" => Accepts(s, Event("BlockMalware"))
         /\ step = "emitExecute" /\ c.decision \in EXECUTABLE_DECISIONS => Accepts(s, Executed)
<1>1. ASSUME NEW e \in TraceEvents, Legal(s, e), e.transition = "Execute" => e = Executed
      PROVE  Accepts(s, e)
  BY <1>1, GuardsKeepSane DEF Accepts, Executed
<1>2. step = "refuse" => Accepts(s, Evaluated("DENY"))
  <2>1. Evaluated("DENY") \in TraceEvents
    BY EmittedEvents DEF Decisions
  <2>2. QED
    BY Zenon, <1>1, <2>1 DEF Follows, Evaluated, Legal, LegalEvaluate
<1>3. step = "emitEvaluate" => \A d \in Decisions : Accepts(s, Evaluated(d))
  BY <1>1, EmittedEvents DEF Follows, Evaluated, Legal, LegalEvaluate
<1>4. step = "resolve" /\ c.decision = "DENY" => Accepts(s, Event("ResolveDeny"))
  BY <1>1, EmittedEvents, Zenon DEF Follows, Event, Legal
<1>5. step = "resolve" /\ c.decision # "DENY" => Accepts(s, Event("ResolveEscalate"))
  BY <1>1, EmittedEvents, Zenon DEF Follows, Event, Legal
<1>6. step = "emitMalware" /\ c.decision \in EXECUTABLE_DECISIONS => Accepts(s, Event("ScanMalware"))
  BY <1>1, EmittedEvents, Zenon DEF Follows, Event, Legal, LegalScan
<1>7. step = "emitClean" /\ c.decision \in EXECUTABLE_DECISIONS => Accepts(s, Event("ScanClean"))
  BY <1>1, EmittedEvents, Zenon DEF Follows, Event, Legal, LegalScan
<1>8. step = "emitBlock" => Accepts(s, Event("BlockMalware"))
  BY <1>1, EmittedEvents, Zenon DEF Follows, Event, Legal
<1>9. step = "emitExecute" /\ c.decision \in EXECUTABLE_DECISIONS => Accepts(s, Executed)
  BY <1>1, EmittedEvents, Zenon DEF Follows, Executed, Legal, LegalExecute
<1>10. QED
  BY <1>2, <1>3, <1>4, <1>5, <1>6, <1>7, <1>8, <1>9

\* NoReport says nothing that could be false.
LEMMA NoReportTrue == Truthful(NoReport)
BY Zenon DEF Truthful, NoReport, Report, NoCall, Fresh

\* A call that is alone goes on to a step its trace follows, or returns what its
\* trace confirms.
Advances(t) ==
  IF at'[t] = "idle" THEN Truthful(report')
  ELSE /\ Follows(trace', at'[t], call'[t])
       /\ read'[t] \in {Unread, trace'}
       /\ report' = NoReport

\* Every event the call emits is accepted, and the trace state it leaves is the
\* one the next step of execute relies on.
LEMMA AloneAdvances ==
  ASSUME RuntimeInv, TraceInv, ReadersEmit, NEW t \in Callers, CallerStep(t),
         Follows(trace, at[t], call[t]), read[t] \in {Unread, trace}, report = NoReport
  PROVE  Advances(t)
<1>1. /\ call[t] \in Calls /\ CallInv(t) /\ StateInv(trace) /\ trace \in BullTraceState
      /\ at \in [Callers -> Steps] /\ call \in [Callers -> Calls]
      /\ read \in [Callers -> BullTraceState \cup {Unread}]
  BY DEF RuntimeInv, TypeOK, TraceInv, TraceTyped
<1>2. at[t] \notin EmitSteps => read[t] = Unread
  BY DEF ReadersEmit
<1>3. ASSUME NEW e, Accepts(trace, e), NEW A,
             (Emit(t, e) /\ A) \/ Reject(t, e)
      PROVE  A /\ trace' = After(trace, e) /\ read'[t] = Unread
  BY <1>1, <1>3 DEF Emit, Reject, Rejected
<1>4. CASE EmitRefusal(t)
  <2>1. /\ trace' = After(trace, Evaluated("DENY")) /\ read'[t] = Unread
        /\ at[t] = "refuse" /\ at'[t] = "resolve" /\ UNCHANGED report
        /\ call'[t] = [call[t] EXCEPT !.decision = "DENY"]
    BY <1>1, <1>3, <1>4, EventsAreLegal, Zenon DEF EmitRefusal, Go
  <2>2. trace' = [trace EXCEPT !.phase = "evaluated", !.decision = "DENY"]
    BY <2>1 DEF After, Evaluated
  <2>3. /\ trace'.phase = "evaluated" /\ trace'.decision = "DENY"
        /\ trace'.executed = trace.executed
        /\ call'[t].decision = "DENY" /\ call'[t].ran = call[t].ran
    BY <1>1, <2>1, <2>2, ZenonT(30) DEF BullTraceState, Calls
  <2>4. QED
    BY Zenon, <2>1, <2>3 DEF Advances, Follows
<1>5. CASE EmitEvaluate(t)
  <2> DEFINE d == call[t].decision
             next == IF d \in EXECUTABLE_DECISIONS THEN "snapshot" ELSE "resolve"
  <2>1. at[t] = "emitEvaluate" /\ d \in Decisions
    BY <1>1, <1>5 DEF EmitEvaluate, CallInv, AfterVerdict
  <2>2. /\ trace' = After(trace, Evaluated(d)) /\ read'[t] = Unread
        /\ at'[t] = next /\ UNCHANGED <<call, report>>
    BY <1>1, <1>3, <1>5, <2>1, EventsAreLegal, Zenon DEF EmitEvaluate, EmitThen, Go
  <2>3. trace' = [trace EXCEPT !.phase = "evaluated", !.decision = d]
    BY <2>2 DEF After, Evaluated
  <2>4. QED
    BY <1>1, <2>1, <2>2, <2>3 DEF Advances, Follows, BullTraceState, Decisions
<1>6. CASE Resolve(t)
  <2>0. PICK e : e = Event(IF call[t].decision = "DENY" THEN "ResolveDeny" ELSE "ResolveEscalate")
    OBVIOUS
  <2>1. at[t] = "resolve" /\ Accepts(trace, e)
    BY <1>1, <1>6, <2>0, EventsAreLegal DEF Resolve
  <2>2. /\ After(trace, e).decision = trace.decision
        /\ After(trace, e).executed = trace.executed
    BY <1>1, <2>0, SMTT(30) DEF After, Event, BullTraceState
  <2>3. CASE EmitThen(t, e, "denyLog")
    <3>1. /\ trace' = After(trace, e) /\ read'[t] = Unread
          /\ at'[t] = "denyLog" /\ UNCHANGED <<call, report>>
      BY <1>1, <1>3, <2>1, <2>3, Zenon DEF EmitThen, Go
    <3>2. QED
      BY <2>1, <2>2, <3>1 DEF Advances, Follows
  <2>4. CASE EmitReturn(t, e, "refused")
    <3>1. /\ trace' = After(trace, e) /\ at'[t] = "idle"
          /\ report' = Report("refused", call[t], trace')
      BY <1>1, <1>3, <2>1, <2>4, Zenon DEF EmitReturn, Return, Leave, Go
    <3>2. QED
      BY <2>1, <2>2, <3>1, Zenon DEF Advances, Follows, Truthful, Report
  <2>5. QED
    BY <1>6, <2>0, <2>3, <2>4 DEF Resolve
<1>7. CASE DenyLog(t)
  <2>1. at[t] = "denyLog" /\ at'[t] = "idle" /\ report' \in {report, Report("refused", call[t], trace)}
    BY <1>1, <1>7 DEF DenyLog, Return, Leave, Go
  <2>2. Truthful(Report("refused", call[t], trace))
    BY <2>1, Zenon DEF Follows, Truthful, Report
  <2>3. QED
    BY <2>1, <2>2, NoReportTrue DEF Advances
<1>8. ASSUME NEW d \in Decisions, Evaluate(t, d) PROVE Advances(t)
  <2>1. /\ at[t] = "evaluate" /\ at'[t] = "emitEvaluate" /\ UNCHANGED <<traceVars, report>>
        /\ call'[t].ran = call[t].ran
    BY <1>1, <1>8 DEF Evaluate, Go, Calls
  <2>2. QED
    BY <1>2, <2>1 DEF Advances, Follows, traceVars, EmitSteps
<1>9. ASSUME NEW p \in Contents, TakeSnapshot(t, p) PROVE Advances(t)
  <2>1. /\ at[t] = "snapshot" /\ at'[t] = "scan" /\ UNCHANGED <<traceVars, report>>
        /\ call'[t].ran = call[t].ran /\ call'[t].decision = call[t].decision
    BY <1>1, <1>9 DEF TakeSnapshot, Go, Calls
  <2>2. QED
    BY <1>2, <2>1 DEF Advances, Follows, traceVars, EmitSteps
<1>10. CASE Inadmissible(t)
  <2>1. /\ at[t] \in {"snapshot", "scan"} /\ at'[t] = "idle"
        /\ report' = Report("refused", call[t], trace)
    BY <1>1, <1>10 DEF Inadmissible, Return, Leave, Go
  <2>2. QED
    BY <2>1, Zenon DEF Advances, Follows, Truthful, Report
<1>11. CASE Scan(t)
  <2>1. /\ at[t] = "scan" /\ at'[t] \in {"emitClean", "emitMalware"}
        /\ UNCHANGED <<traceVars, report>>
        /\ call'[t].ran = call[t].ran /\ call'[t].decision = call[t].decision
    BY <1>1, <1>11 DEF Scan, Go, Calls
  <2>2. QED
    BY <1>2, <2>1 DEF Advances, Follows, traceVars, EmitSteps
<1>12. CASE EmitMalware(t)
  <2>1. at[t] = "emitMalware" /\ call[t].decision \in EXECUTABLE_DECISIONS
    BY <1>1, <1>12 DEF EmitMalware, CallInv, AfterVerdict, AfterSnapshot
  <2>2. /\ trace' = After(trace, Event("ScanMalware")) /\ read'[t] = Unread
        /\ at'[t] = "emitBlock" /\ UNCHANGED <<call, report>>
    BY <1>1, <1>3, <1>12, <2>1, EventsAreLegal, Zenon DEF EmitMalware, EmitThen, Go
  <2>3. trace' = [trace EXCEPT !.phase = "scanned", !.scanned = TRUE, !.malware_clean = FALSE]
    BY <2>2 DEF After, Event
  <2>4. QED
    BY <1>1, <2>1, <2>2, <2>3, Zenon DEF Advances, Follows, BullTraceState
<1>13. CASE EmitBlock(t)
  <2>1. at[t] = "emitBlock"
    BY <1>13 DEF EmitBlock
  <2>2. /\ trace' = After(trace, Event("BlockMalware")) /\ at'[t] = "idle"
        /\ report' = Report("refused", call[t], trace')
    BY <1>1, <1>3, <1>13, <2>1, EventsAreLegal, Zenon DEF EmitBlock, EmitReturn, Return, Leave, Go
  <2>3. trace' = [trace EXCEPT !.phase = "blocked"]
    BY <2>2 DEF After, Event
  <2>4. QED
    BY <1>1, <2>1, <2>2, <2>3 DEF Advances, Follows, Truthful, Report, BullTraceState
<1>14. CASE EmitClean(t)
  <2>1. at[t] = "emitClean" /\ call[t].decision \in EXECUTABLE_DECISIONS
    BY <1>1, <1>14 DEF EmitClean, CallInv, AfterVerdict, AfterSnapshot
  <2>2. /\ trace' = After(trace, Event("ScanClean")) /\ read'[t] = Unread
        /\ at'[t] = "recheck" /\ UNCHANGED <<call, report>>
    BY <1>1, <1>3, <1>14, <2>1, EventsAreLegal, Zenon DEF EmitClean, EmitThen, Go
  <2>3. trace' = [trace EXCEPT !.phase = "scanned", !.scanned = TRUE, !.malware_clean = TRUE]
    BY <2>2, SMTT(30) DEF After, Event
  <2>4. QED
    BY <1>1, <2>1, <2>2, <2>3, ZenonT(30) DEF Advances, Follows, BullTraceState
<1>15. CASE Recheck(t)
  <2>1. CASE Go(t, "run") /\ UNCHANGED <<call, report>>
    <3>1. at[t] = "recheck" /\ at'[t] = "run" /\ UNCHANGED <<call, report, traceVars>>
      BY <1>1, <1>15, <2>1 DEF Recheck, Go
    <3>2. QED
      BY <1>2, <3>1 DEF Advances, Follows, traceVars, EmitSteps
  <2>2. CASE Return(t, "refused", trace)
    <3>1. /\ at[t] = "recheck" /\ at'[t] = "idle"
          /\ report' = Report("refused", call[t], trace)
      BY <1>1, <1>15, <2>2 DEF Recheck, Return, Leave, Go
    <3>2. QED
      BY <3>1, Zenon DEF Advances, Follows, Truthful, Report
  <2>3. QED
    BY <1>15, <2>1, <2>2 DEF Recheck
<1>16. CASE Run(t)
  <2>1. /\ at[t] = "run" /\ at'[t] = "emitExecute" /\ UNCHANGED <<traceVars, report>>
        /\ call'[t].ran = disk[t] /\ call'[t].decision = call[t].decision
    BY <1>1, <1>16, SMTT(30) DEF Run, Go, Calls
  <2>2. disk[t] # "none"
    BY <1>1, <2>1, Zenon DEF CallInv, AfterSnapshot
  <2>3. QED
    BY <1>2, <2>1, <2>2 DEF Advances, Follows, traceVars, EmitSteps
<1>17. CASE EmitExecute(t)
  <2>1. at[t] = "emitExecute" /\ call[t].decision \in EXECUTABLE_DECISIONS
    BY <1>1, <1>17 DEF EmitExecute, CallInv, AfterVerdict, AfterSnapshot
  <2>2. /\ trace' = After(trace, Executed) /\ at'[t] = "idle"
        /\ report' = Report("executed", call[t], trace')
    BY <1>1, <1>3, <1>17, <2>1, EventsAreLegal, Zenon DEF EmitExecute, EmitReturn, Return, Leave, Go
  <2>3. trace' = [trace EXCEPT !.phase = "executed", !.executed = TRUE,
                               !.sandboxed = TRUE, !.seccomp = TRUE]
    BY <2>2 DEF After, Executed
  <2>4. QED
    BY <1>1, <2>1, <2>2, <2>3, ZenonT(30) DEF Advances, Follows, Truthful, Report, BullTraceState
<1>18. CASE Fail(t)
  <2>1. at'[t] = "idle" /\ UNCHANGED report
    BY <1>1, <1>18 DEF Fail, Raise, Leave, Go
  <2>2. QED
    BY <2>1, NoReportTrue DEF Advances
<1>19. CASE ReadTrace(t)
  <2>1. UNCHANGED <<at, call, report, trace>> /\ read'[t] = trace /\ at[t] # "idle"
    BY <1>1, <1>19, SMTT(30) DEF ReadTrace, BeginEmit, local, EmitSteps
  <2>2. QED
    BY <2>1 DEF Advances
<1>20. QED
  BY <1>4, <1>5, <1>6, <1>7, <1>8, <1>9, <1>10, <1>11, <1>12, <1>13, <1>14, <1>15, <1>16, <1>17,
     <1>18, <1>19 DEF CallerStep

\* A step changes the place and the reading of one caller only, and leaves a
\* state in a thread's hands only where it is about to emit.
LEMMA OneMoves ==
  ASSUME RuntimeInv, ReadersEmit, NEW t \in Callers,
         CallerStep(t) \/ Drift(t)
  PROVE  /\ at[t] # "idle"
         /\ \A u \in Callers \ {t} : at'[u] = at[u] /\ read'[u] = read[u] /\ call'[u] = call[u]
         /\ ReadersEmit'
<1>1. /\ at \in [Callers -> Steps] /\ call \in [Callers -> Calls] /\ CallInv(t)
      /\ read \in [Callers -> BullTraceState \cup {Unread}]
  BY DEF RuntimeInv, TypeOK, TraceTyped
<1>2. at[t] \notin EmitSteps => read[t] = Unread
  BY DEF ReadersEmit
<1>3. ASSUME \A u \in Callers \ {t} : at'[u] = at[u] /\ read'[u] = read[u],
             read'[t] = Unread
      PROVE  ReadersEmit'
  BY <1>3 DEF ReadersEmit
<1> USE DEF EmitSteps
<1>4. ASSUME NEW e, NEW step, Emit(t, e) /\ Go(t, step) PROVE
        /\ \A u \in Callers \ {t} : at'[u] = at[u] /\ read'[u] = read[u]
        /\ read'[t] = Unread
  BY <1>1, <1>4 DEF Emit, Go
<1>5. ASSUME NEW e, Reject(t, e) PROVE
        /\ \A u \in Callers \ {t} : at'[u] = at[u] /\ read'[u] = read[u] /\ call'[u] = call[u]
        /\ read'[t] = Unread
  BY <1>1, <1>5, SMTT(30) DEF Reject, Rejected, Return, Leave, Go
<1>6. ASSUME NEW e, NEW kind, EmitReturn(t, e, kind) PROVE
        /\ \A u \in Callers \ {t} : at'[u] = at[u] /\ read'[u] = read[u] /\ call'[u] = call[u]
        /\ read'[t] = Unread
  BY <1>1, <1>5, <1>6, SMTT(30) DEF EmitReturn, Emit, Return, Leave, Go
<1>7. ASSUME NEW e, NEW step, EmitThen(t, e, step) PROVE
        /\ \A u \in Callers \ {t} : at'[u] = at[u] /\ read'[u] = read[u] /\ call'[u] = call[u]
        /\ read'[t] = Unread
  BY <1>4, <1>5, <1>7, Zenon DEF EmitThen
<1>8. CASE EmitRefusal(t)
  BY <1>1, <1>3, <1>4, <1>5, <1>8 DEF EmitRefusal
<1>9. CASE EmitEvaluate(t) \/ EmitMalware(t) \/ EmitClean(t)
  BY <1>3, <1>7, <1>9 DEF EmitEvaluate, EmitMalware, EmitClean
<1>10. CASE EmitBlock(t) \/ EmitExecute(t)
  BY <1>3, <1>6, <1>10 DEF EmitBlock, EmitExecute
<1>11. CASE Resolve(t)
  BY <1>3, <1>6, <1>7, <1>11 DEF Resolve
<1>12. CASE ReadTrace(t)
  <2>1. /\ at[t] \in EmitSteps /\ UNCHANGED <<at, call>>
        /\ \A u \in Callers \ {t} : read'[u] = read[u]
    BY <1>1, <1>12 DEF ReadTrace, BeginEmit, local
  <2>2. QED
    BY <2>1 DEF ReadersEmit
<1>13. CASE \/ DenyLog(t) \/ Inadmissible(t) \/ Fail(t) \/ Recheck(t)
  <2>1. /\ at[t] \in {"denyLog", "evaluate", "snapshot", "scan", "recheck", "run"}
        /\ read' = read
        /\ \A u \in Callers \ {t} : at'[u] = at[u] /\ call'[u] = call[u]
    BY <1>1, <1>13, SMTT(30)
    DEF DenyLog, Inadmissible, Fail, Recheck, Raise, Return, Leave, Go, traceVars
  <2>2. QED
    BY <1>2, <1>3, <2>1
<1>14. CASE \/ Scan(t) \/ Run(t)
            \/ \E d \in Decisions : Evaluate(t, d)
            \/ \E c \in Contents : TakeSnapshot(t, c)
  <2>1. /\ at[t] \in {"evaluate", "snapshot", "scan", "run"}
        /\ read' = read
        /\ \A u \in Callers \ {t} : at'[u] = at[u] /\ call'[u] = call[u]
    BY <1>1, <1>14, Zenon DEF Scan, Run, Evaluate, TakeSnapshot, Go, traceVars
  <2>2. QED
    BY <1>2, <1>3, <2>1
<1>15. CASE Drift(t)
  <2>1. UNCHANGED <<at, call, read>> /\ at[t] # "idle"
    BY <1>1, <1>15 DEF Drift, traceVars, CallInv
  <2>2. QED
    BY <2>1 DEF ReadersEmit
<1>16. QED
  BY <1>8, <1>9, <1>10, <1>11, <1>12, <1>13, <1>14, <1>15, Zenon DEF CallerStep

\* While calls do not overlap the only one in progress keeps the trace its own.
LEMMA QuietSteps == QuietInv /\ [QuietNext]_<<runtimeVars, overlapped>> => QuietInv'
<1> SUFFICES ASSUME QuietInv, [QuietNext]_<<runtimeVars, overlapped>> PROVE QuietInv'
  OBVIOUS
<1> USE DEF QuietInv
<1>1. CASE UNCHANGED <<runtimeVars, overlapped>>
  <2>1. UNCHANGED <<traceVars, at, call, disk, drift, report, overlapped, trace, read>>
    BY <1>1, SMTT(30) DEF runtimeVars, local, traceVars
  <2>2. RuntimeInv' /\ TraceInv'
    BY <2>1, RuntimeSteps, TraceSteps DEF runtimeVars, local
  <2>3. QED
    BY <2>1, <2>2 DEF ReadersEmit, Crowded, Busy, TraceIsTrue
<1>2. ASSUME NEW t \in Callers, CallerStep(t) \/ Drift(t), QuietNext PROVE QuietInv'
  <2>1. RuntimeInv'
    BY <1>2, RuntimeSteps DEF QuietNext
  <2>2. TraceInv'
    BY <1>2, ExecuteTraces, TraceSteps
  <2>3. /\ at[t] # "idle" /\ ReadersEmit'
        /\ \A u \in Callers \ {t} : at'[u] = at[u] /\ read'[u] = read[u] /\ call'[u] = call[u]
    BY <1>2, OneMoves, SMTT(30)
  <2>4. ASSUME ~overlapped'
        PROVE  /\ ~Crowded'
               /\ \A u \in Busy' : /\ Follows(trace, at[u], call[u])'
                                   /\ read'[u] \in {Unread, trace'}
                                   /\ report' = NoReport
               /\ TraceIsTrue'
    <3>1. ~Crowded' /\ ~overlapped
      BY <1>2, <2>3, <2>4, Zenon DEF QuietNext, Busy
    <3>2. /\ ~Crowded /\ t \in Busy /\ Follows(trace, at[t], call[t])
          /\ read[t] \in {Unread, trace} /\ report = NoReport
      BY <2>3, <3>1 DEF Busy
    <3>3. \A u \in Callers \ {t} : at'[u] = "idle"
      BY <2>3, <3>2 DEF Crowded, Busy
    <3>4. Advances(t)
      <4>1. CASE CallerStep(t)
        BY <3>2, <4>1, AloneAdvances, SMTT(30)
      <4>2. CASE Drift(t)
        <5>1. UNCHANGED <<trace, read, at, call, report>>
          BY <4>2, SMTT(30) DEF Drift, traceVars
        <5>2. QED
          BY <2>3, <3>2, <5>1 DEF Advances
      <4>3. QED
        BY <1>2, <4>1, <4>2
    <3>5. CASE at'[t] = "idle"
      BY <3>1, <3>3, <3>4, <3>5 DEF Advances, Busy, TraceIsTrue
    <3>6. CASE at'[t] # "idle"
      BY <3>1, <3>3, <3>4, <3>6, NoReportTrue DEF Advances, Busy, TraceIsTrue
    <3>7. QED
      BY <3>5, <3>6
  <2>5. QED
    BY <2>1, <2>2, <2>3, <2>4
<1>3. ASSUME NEW t \in Callers, NEW permit \in BOOLEAN, NEW bound \in BOOLEAN, NEW p \in BOOLEAN,
             Call(t, permit, bound, p), QuietNext
      PROVE  QuietInv'
  <2>1. RuntimeInv'
    BY <1>3, RuntimeSteps DEF QuietNext
  <2>2. TraceInv'
    BY <1>3, TraceSteps DEF Call, TraceNext
  <2>3. /\ at \in [Callers -> Steps] /\ call \in [Callers -> Calls]
    BY DEF RuntimeInv, TypeOK
  <2>4. /\ at[t] = "idle" /\ read[t] = Unread /\ read' = read /\ trace' = Fresh(p)
        /\ at'[t] \in {"evaluate", "refuse"} /\ report' = NoReport
        /\ call'[t] = [NoCall EXCEPT !.permit = permit, !.bound = bound]
        /\ \A u \in Callers \ {t} : at'[u] = at[u]
    BY <1>3, <2>3 DEF Call, Reset, Go
  <2>5. ReadersEmit'
    BY <2>4 DEF ReadersEmit
  <2>6. Follows(trace, at[t], call[t])'
    BY <2>4 DEF Follows, Fresh, NoCall
  <2>7. ASSUME ~overlapped' PROVE ~Crowded' /\ \A u \in Busy' : u = t
    BY <1>3, <2>4, <2>7, Zenon DEF QuietNext, Crowded, Busy
  <2>8. QED
    BY <2>1, <2>2, <2>4, <2>5, <2>6, <2>7, NoReportTrue DEF TraceIsTrue
<1>4. QED
  BY <1>1, <1>2, <1>3, Zenon DEF QuietNext, Next

\* For any number of callers, a call that had the runtime to itself is never
\* stopped by the verifier, and the trace state in its result is what it did.
THEOREM TraceIsTrueTheorem == QuietSpec => []TraceIsTrue
<1>1. QuietInit => QuietInv
  <2> SUFFICES ASSUME QuietInit PROVE QuietInv
    OBVIOUS
  <2>1. RuntimeInv
    BY InitRuntime DEF QuietInit
  <2>2. TraceInv
    BY InitTrace DEF QuietInit, Init
  <2>3. QED
    BY <2>1, <2>2, NoReportTrue
    DEF QuietInit, QuietInv, Init, TraceInit, ReadersEmit, Crowded, Busy, TraceIsTrue
<1>2. QuietInv => TraceIsTrue
  BY DEF QuietInv, TraceIsTrue
<1>3. QED
  BY <1>1, <1>2, QuietSteps, PTL DEF QuietSpec
=============================================================================
