------------------------------ MODULE Runtime ------------------------------
(***************************************************************************)
(* BulldogRuntime.execute of runtime.py behind ProductionRuntime.execute   *)
(* of profiles.py: permit, binding, verdict, snapshot, scan, recheck and   *)
(* sandboxed run of one command, each telling the trace verifier what      *)
(* happened.  Callers share the runtime, hence its verifier and its        *)
(* ledger; everything else is local to a call.                             *)
(*                                                                         *)
(* The engine's verdict, the scanner and the sandbox are inputs.  A        *)
(* workspace is "clean" or "infected".  The project is edited at any time, *)
(* so a snapshot copies either; a snapshot may drift once from what was    *)
(* copied into it.                                                         *)
(***************************************************************************)
EXTENDS TraceVerifier

Contents == {"clean", "infected"}

Steps == {"idle", "refuse", "evaluate", "emitEvaluate", "resolve", "denyLog",
          "snapshot", "scan", "emitMalware", "emitBlock", "emitClean",
          "recheck", "run", "emitExecute"}

NoCall ==
  [permit |-> FALSE, bound |-> FALSE, recorded |-> "PENDING",
   decision |-> "PENDING", copied |-> "none", scanned |-> "none",
   ran |-> "none"]

VARIABLES
  at,       \* each caller's position in execute
  call,     \* its locals: permit and binding checks, verdict, what was
            \* copied, scanned and run
  disk,     \* content of its snapshot directory, "none" when there is none
  drift,    \* the snapshot changed: "no", "seen" (before the recheck), "late"
  report    \* the result of the call that finished last, until the next begins

local == <<at, call, disk, drift>>
runtimeVars == <<trace, read, local, report>>

\* A result names what the call did and the trace state it hands back;
\* "rejected" is a TraceViolation that left execute.
Report(kind, c, s) ==
  [kind |-> kind, decision |-> c.decision, ran |-> c.ran # "none", trace |-> s]

NoReport == Report("none", NoCall, Fresh(FALSE))

Init ==
  /\ TraceInit
  /\ at = [t \in Callers |-> "idle"]
  /\ call = [t \in Callers |-> NoCall]
  /\ disk = [t \in Callers |-> "none"]
  /\ drift = [t \in Callers |-> "no"]
  /\ report = NoReport

Go(t, step) == at' = [at EXCEPT ![t] = step]

\* The call ends, with a result or an exception; finally: destroy_snapshot.
Leave(t) ==
  /\ Go(t, "idle")
  /\ call' = [call EXCEPT ![t] = NoCall]
  /\ disk' = [disk EXCEPT ![t] = "none"]
  /\ drift' = [drift EXCEPT ![t] = "no"]

\* An ExecutionResult with the trace state s.
Return(t, kind, s) == Leave(t) /\ report' = Report(kind, call[t], s)

\* An exception other than a TraceViolation: no result.
Raise(t) == Leave(t) /\ UNCHANGED <<traceVars, report>>

\* A TraceViolation out of emit: the trace keeps its state.
Reject(t, e) == Rejected(t, e) /\ Return(t, "rejected", trace)

\* self.trace.emit(e): on to the next step, or out with a TraceViolation.
EmitThen(t, e, step) ==
  \/ Emit(t, e) /\ Go(t, step) /\ UNCHANGED <<call, disk, drift, report>>
  \/ Reject(t, e)

\* The same, where the call returns after the event.
EmitReturn(t, e, kind) ==
  \/ Emit(t, e) /\ Return(t, kind, trace')
  \/ Reject(t, e)

EmitSteps ==
  {"refuse", "emitEvaluate", "resolve", "emitMalware", "emitBlock", "emitClean",
   "emitExecute"}

\* emit reads the shared state; the steps below that emit follow it.
ReadTrace(t) ==
  at[t] \in EmitSteps /\ BeginEmit(t) /\ UNCHANGED <<local, report>>

-----------------------------------------------------------------------------
\* ProductionRuntime.execute: the trace is reset whatever follows; without a
\* permit minted for this action and this argv, or with a command the action
\* does not authorise, the call goes to _deny_binding.
Call(t, permit, bound, parentHas) ==
  /\ at[t] = "idle"
  /\ Reset(t, parentHas)
  /\ call' = [call EXCEPT ![t] = [NoCall EXCEPT !.permit = permit,
                                                !.bound = bound]]
  /\ Go(t, IF permit /\ bound THEN "evaluate" ELSE "refuse")
  /\ report' = NoReport
  /\ UNCHANGED <<disk, drift>>

\* _deny_binding: two events, then the ledger.
EmitRefusal(t) ==
  /\ at[t] = "refuse"
  /\ \/ /\ Emit(t, Evaluated("DENY"))
        /\ Go(t, "resolve")
        /\ call' = [call EXCEPT ![t].decision = "DENY"]
        /\ UNCHANGED <<disk, drift, report>>
     \/ Reject(t, Evaluated("DENY"))

DenyLog(t) ==
  /\ at[t] = "denyLog"
  /\ UNCHANGED traceVars
  /\ \/ Return(t, "refused", trace)
     \/ Leave(t) /\ UNCHANGED report

\* engine.evaluate: the verdict counts once the ledger has taken it; the
\* ledger may raise instead.
Evaluate(t, d) ==
  /\ at[t] = "evaluate"
  /\ call' = [call EXCEPT ![t].decision = d, ![t].recorded = d]
  /\ Go(t, "emitEvaluate")
  /\ UNCHANGED <<traceVars, disk, drift, report>>

EmitEvaluate(t) ==
  /\ at[t] = "emitEvaluate"
  /\ EmitThen(t, Evaluated(call[t].decision),
       IF call[t].decision \in EXECUTABLE_DECISIONS THEN "snapshot" ELSE "resolve")

\* ResolveDeny and ResolveEscalate; a refused binding is logged afterwards,
\* a verdict of the engine has been already.
Resolve(t) ==
  /\ at[t] = "resolve"
  /\ LET e == Event(IF call[t].decision = "DENY"
                    THEN "ResolveDeny" ELSE "ResolveEscalate")
     IN IF call[t].recorded = "PENDING"
        THEN EmitThen(t, e, "denyLog")
        ELSE EmitReturn(t, e, "refused")

\* create_snapshot: a private copy of the project as it is now.
TakeSnapshot(t, project) ==
  /\ at[t] = "snapshot"
  /\ disk' = [disk EXCEPT ![t] = project]
  /\ call' = [call EXCEPT ![t].copied = project]
  /\ Go(t, "scan")
  /\ UNCHANGED <<traceVars, drift, report>>

\* SnapshotViolation, or a manifest the budget does not admit.
Inadmissible(t) ==
  /\ at[t] \in {"snapshot", "scan"}
  /\ Return(t, "refused", trace)
  /\ UNCHANGED traceVars

\* scan_project reads the snapshot; a scanner that is missing or fails counts
\* as a detection.
Scan(t) ==
  /\ at[t] = "scan"
  /\ \/ /\ disk[t] = "clean"
        /\ Go(t, "emitClean")
     \/ Go(t, "emitMalware")
  /\ call' = [call EXCEPT ![t].scanned = disk[t]]
  /\ UNCHANGED <<traceVars, disk, drift, report>>

EmitMalware(t) ==
  at[t] = "emitMalware" /\ EmitThen(t, Event("ScanMalware"), "emitBlock")

EmitBlock(t) ==
  at[t] = "emitBlock" /\ EmitReturn(t, Event("BlockMalware"), "refused")

EmitClean(t) ==
  at[t] = "emitClean" /\ EmitThen(t, Event("ScanClean"), "recheck")

\* Mutant: the tree is not hashed again.
Unhashed(t) == TRUE

\* hash_tree of the snapshot is still the hash taken when it was made.
HashUnchanged(t) == disk[t] = call[t].copied

Recheck(t) ==
  /\ at[t] = "recheck"
  /\ UNCHANGED traceVars
  /\ \/ HashUnchanged(t) /\ Go(t, "run") /\ UNCHANGED <<call, disk, drift, report>>
     \/ ~HashUnchanged(t) /\ Return(t, "refused", trace)

\* sandbox.run of the snapshot.
Run(t) ==
  /\ at[t] = "run"
  /\ call' = [call EXCEPT ![t].ran = disk[t]]
  /\ Go(t, "emitExecute")
  /\ UNCHANGED <<traceVars, disk, drift, report>>

\* Mutant: the result is returned without the event.
ReturnUnemitted(t) ==
  at[t] = "emitExecute" /\ Return(t, "executed", trace) /\ UNCHANGED traceVars

EmitExecute(t) == at[t] = "emitExecute" /\ EmitReturn(t, Executed, "executed")

\* The ledger raises in engine.evaluate, the project path does not resolve,
\* hash_tree or the sandbox raises.
Fail(t) == at[t] \in {"evaluate", "snapshot", "scan", "recheck", "run"} /\ Raise(t)

\* A process of the same user changes the snapshot.
Drift(t) ==
  /\ disk[t] # "none"
  /\ drift[t] = "no"
  /\ at[t] # "emitExecute"
  /\ \E c \in Contents \ {disk[t]} : disk' = [disk EXCEPT ![t] = c]
  /\ drift' = [drift EXCEPT ![t] =
       IF at[t] = "run" THEN "late" ELSE "seen"]
  /\ UNCHANGED <<traceVars, at, call, report>>

CallerStep(t) ==
  \/ ReadTrace(t)
  \/ EmitRefusal(t) \/ DenyLog(t) \/ EmitEvaluate(t) \/ Resolve(t)
  \/ \E d \in Decisions : Evaluate(t, d)
  \/ \E c \in Contents : TakeSnapshot(t, c)
  \/ Inadmissible(t) \/ Scan(t)
  \/ EmitMalware(t) \/ EmitBlock(t) \/ EmitClean(t)
  \/ Recheck(t) \/ Run(t) \/ EmitExecute(t) \/ Fail(t)

Next ==
  \E t \in Callers :
    \/ \E permit, bound, p \in BOOLEAN : Call(t, permit, bound, p)
    \/ CallerStep(t)
    \/ Drift(t)

Spec == Init /\ [][Next]_runtimeVars

-----------------------------------------------------------------------------
Calls ==
  [permit : BOOLEAN, bound : BOOLEAN,
   recorded : Decisions \cup {"PENDING"}, decision : Decisions \cup {"PENDING"},
   copied : Contents \cup {"none"}, scanned : Contents \cup {"none"},
   ran : Contents \cup {"none"}]

Reports ==
  [kind : {"none", "refused", "executed", "rejected"},
   decision : Decisions \cup {"PENDING"}, ran : BOOLEAN,
   trace : BullTraceState]

TypeOK ==
  /\ TraceTyped
  /\ at \in [Callers -> Steps]
  /\ call \in [Callers -> Calls]
  /\ disk \in [Callers -> Contents \cup {"none"}]
  /\ drift \in [Callers -> {"no", "seen", "late"}]
  /\ report \in Reports

AfterSnapshot ==
  {"scan", "emitMalware", "emitBlock", "emitClean", "recheck", "run", "emitExecute"}

AfterVerdict == AfterSnapshot \cup {"emitEvaluate", "snapshot"}

\* Whatever other callers do to the shared trace, execute runs a command only
\* with a permit and a binding for it, on a verdict of the engine that the
\* ledger holds and that allows it, and on a workspace the scanner passed; the
\* workspace is the scanned one unless it changed after the last hash_tree.
RunCleared ==
  \A t \in Callers : call[t].ran # "none" =>
    /\ call[t].permit /\ call[t].bound
    /\ call[t].recorded = call[t].decision
    /\ call[t].decision \in EXECUTABLE_DECISIONS
    /\ call[t].scanned = "clean"
    /\ call[t].ran = "clean" \/ drift[t] = "late"

\* Every way out of execute, exceptions included, removes the snapshot.
SnapshotsRemoved == \A t \in Callers : at[t] = "idle" => disk[t] = "none"

\* What a call has established at each step of execute, with any number of
\* callers: the facts that make RunCleared inductive.
CallInv(t) ==
  LET c == call[t] IN
  /\ at[t] = "idle" => c = NoCall /\ disk[t] = "none"
  /\ disk[t] = "none" => drift[t] = "no"
  /\ at[t] \notin {"idle", "refuse", "resolve", "denyLog"} => c.permit /\ c.bound
  /\ at[t] \in AfterVerdict => c.recorded = c.decision /\ c.decision \in Decisions
  /\ at[t] \in AfterVerdict \ {"emitEvaluate"} => c.decision \in EXECUTABLE_DECISIONS
  /\ disk[t] # "none" <=> at[t] \in AfterSnapshot
  /\ at[t] \in AfterSnapshot =>
       /\ drift[t] = "no" => disk[t] = c.copied
       /\ drift[t] = "seen" => disk[t] # c.copied
       /\ drift[t] = "late" => at[t] \in {"run", "emitExecute"}
  /\ at[t] \in {"emitClean", "recheck", "run", "emitExecute"} =>
       c.scanned = "clean" /\ (drift[t] = "no" => c.copied = "clean")
  /\ at[t] \in {"run", "emitExecute"} => drift[t] # "seen"
  /\ c.ran # "none" => at[t] = "emitExecute" /\ (drift[t] = "no" => c.ran = "clean")

RuntimeInv == TypeOK /\ \A t \in Callers : CallInv(t)
=============================================================================
