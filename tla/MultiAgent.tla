----------------------------- MODULE MultiAgent -----------------------------
(***************************************************************************)
(* The multi-agent pipeline (multiagent/system.py, agents.py, bus.py) over *)
(* the canary register of HoneyToken.  Several threads call                *)
(* MultiAgentSystem.run at the same time, all sharing one bus, one policy  *)
(* agent with its table of one-time approval tokens and one register; an   *)
(* adapter beside them sends its own envelopes to the executor and asks    *)
(* guard_external_write before it commits a value.                         *)
(*                                                                         *)
(* A thread is a record: the delivery it is in (at), whether the bus is    *)
(* looking at the envelope, at a handler's exception or at its result      *)
(* (phase), and where it stands in it (pc).  Every lock the code takes is  *)
(* taken in a step of its own; PolicyAgent.consume, which takes none, is   *)
(* two steps.                                                              *)
(***************************************************************************)
EXTENDS HoneyToken

CONSTANTS
    Adapter,       \* the thread beside the runs
    Plans,         \* the plans a task may ask for: sequences of actions
    Rules,         \* the policy rules, <<[matches |-> set, verdict |-> v], ...>>
    Registered,    \* actions the executor has a callable for
    MaxCarried,    \* bound on the canaries one value holds
    MaxDirty       \* bound on the values that hold any

ASSUME AdapterIsNoRun == Adapter \notin Runs

VARIABLES
    thread,        \* per run and for the adapter: where its call stands
    tokens,        \* PolicyAgent._tokens: approval token -> action
    performed,     \* history: how often an approved callable ran, per token
    late,          \* history: handlers reached by a trace already tripped
    raised,        \* history: <<trace, owner>> of the leaks found so far
    burnt,         \* history: the runs that were ever tripped
    written,       \* history: the value the adapter committed last
    dirty          \* bound: values holding a canary so far

vars == <<limit, tracked, canary, thread, tokens, performed, late, raised, burnt, written, dirty>>

Threads == Runs \cup {Adapter}
TokenIds == UNION {Runs \X DOMAIN p : p \in Plans}
NoToken == <<>>

(* What a callable, a task or a model can put in a value: any canary that   *)
(* has been exposed to a model, or too much text.                           *)
Contents ==
    {c \in SUBSET ({r \in Runs : canary[r].exposed} \cup {Big}) :
        Cardinality(c) <= IF dirty < MaxDirty THEN MaxCarried ELSE 0}

Counted(value) == dirty' = IF value = {} THEN dirty ELSE dirty + 1

Idle == [pc |-> "idle", at |-> "none", phase |-> "none", trace |-> Big,
         value |-> {}, hit |-> Big, args |-> {}, plan |-> <<>>, token |-> NoToken,
         ok |-> FALSE, out |-> {}, steps |-> <<>>, verdict |-> "allow"]

Init ==
    /\ HoneyInit
    /\ thread = [w \in Threads |-> Idle]
    /\ tokens = <<>>
    /\ performed = [t \in TokenIds |-> 0]
    /\ late = [r \in Runs |-> 0]
    /\ raised = {}
    /\ burnt = {}
    /\ written = {}
    /\ dirty = 0

Becomes(w, rec) == thread' = [thread EXCEPT ![w] = rec]

(* Envelope.forwarded and deliver: the next delivery of the same trace. *)
Forward(rec, at, value) ==
    [rec EXCEPT !.pc = "guard", !.at = at, !.phase = "envelope", !.value = value]

(***************************************************************************)
(* MultiAgentSystem.run up to the first deliver: mint, or the retention    *)
(* limit raises out of run and there is no report.                         *)
(***************************************************************************)
Run(r, task) ==
    /\ thread[r].pc = "idle"
    /\ IF CanMint
       THEN /\ Mint(r)
            /\ Becomes(r, Forward([Idle EXCEPT !.trace = r, !.args = task],
                                  "task", task \cup {r}))
       ELSE /\ Becomes(r, [Idle EXCEPT !.pc = "refused"])
            /\ UNCHANGED <<tracked, canary>>
    /\ Counted(task)
    /\ UNCHANGED <<tokens, performed, late, raised, burnt, written>>

(* The adapter replays an approval token in an envelope of its own trace.  *)
Replay(t) ==
    /\ thread[Adapter].pc = "idle"
    /\ Becomes(Adapter, Forward([Idle EXCEPT !.trace = Adapter, !.token = t,
                                             !.plan = <<tokens[t]>>], "execute", {}))
    /\ UNCHANGED <<tracked, canary, tokens, performed, late, raised, burnt, written, dirty>>

(* guard_external_write: the value is scanned, tripped trace or not.       *)
ExternalWrite(r, value) ==
    /\ thread[Adapter].pc = "idle"
    /\ Becomes(Adapter, [Idle EXCEPT !.pc = "scan", !.at = "write", !.phase = "result",
                                     !.trace = r, !.value = value])
    /\ Counted(value)
    /\ UNCHANGED <<tracked, canary, tokens, performed, late, raised, burnt, written>>

(***************************************************************************)
(* HoneyTokenLeak caught by run: deny, and every step recorded so far      *)
(* loses its output.  The adapter's calls just raise.                      *)
(***************************************************************************)
Suppressed(rec) == [rec EXCEPT !.ok = FALSE, !.out = {}]

Withheld(steps) == [i \in DOMAIN steps |-> [ok |-> FALSE, out |-> {}]]

Denied(rec) ==
    IF rec.trace = Adapter \/ rec.at = "write" THEN Idle
    ELSE [Suppressed(rec) EXCEPT !.pc = "finish", !.verdict = "deny", !.steps = Withheld(@)]

(***************************************************************************)
(* What run and _run_step do with a result the guard let through.          *)
(***************************************************************************)
StepDone(rec) ==
    LET done == [rec EXCEPT !.steps = Append(@, [ok |-> rec.ok, out |-> rec.out]),
                            !.plan = Tail(@),
                            !.verdict = IF rec.ok THEN @ ELSE "deny"]
        next == [done EXCEPT !.ok = FALSE, !.out = {}, !.token = NoToken]
    IN  IF next.plan = <<>> THEN [next EXCEPT !.pc = "finish"]
        ELSE Forward(next, "policy", next.args)

Handled(rec) ==
    CASE rec.at = "task" ->
            IF ~rec.ok THEN [rec EXCEPT !.pc = "finish", !.verdict = "deny"]
            ELSE IF rec.plan = <<>> THEN [rec EXCEPT !.pc = "finish"]
            ELSE Forward(rec, "policy", rec.args)
      [] rec.at = "policy" ->
            IF rec.ok THEN Forward(rec, "execute", rec.args) ELSE StepDone(rec)
      [] rec.at = "execute" ->
            IF rec.trace = Adapter THEN Idle ELSE Forward(rec, "audit", rec.out)
      [] rec.at = "audit" -> Forward(rec, "verify", rec.out)
      [] rec.at = "verify" -> StepDone(rec)
      [] rec.at = "write" -> Idle

(***************************************************************************)
(* What an inspected value goes on to: an envelope reaches its handler, an *)
(* exception becomes the agent.error result, a result is handed back.      *)
(***************************************************************************)
Passed(rec) ==
    CASE rec.phase = "envelope" -> [rec EXCEPT !.pc = "handle"]
      [] rec.phase = "exception" ->
            [Suppressed(rec) EXCEPT !.pc = "guard", !.phase = "result", !.value = {}]
      [] rec.phase = "result" -> Handled(rec)

(***************************************************************************)
(* boundary_guard: a tripped trace is stopped, and the canary of the trace *)
(* itself is allowed once, in the initial envelope of its run.  A value    *)
(* holding no canary passes the scan whatever the register holds, so that  *)
(* scan is no step of its own.                                             *)
(***************************************************************************)
Exposes(w) ==
    /\ thread[w].phase = "envelope"
    /\ thread[w].at = "task"
    /\ ~canary[thread[w].trace].exposed

Stops(t) == Burnt(t)

Inspect(rec) == IF rec.value = {} THEN Passed(rec) ELSE [rec EXCEPT !.pc = "scan"]

Guard(w) ==
    LET t == thread[w] IN
    /\ t.pc = "guard"
    /\ IF Stops(t.trace)
       THEN Becomes(w, Denied(t)) /\ UNCHANGED canary
       ELSE IF Exposes(w)
            THEN /\ Expose(t.trace)
                 /\ Becomes(w, Inspect([t EXCEPT !.value = @ \ {t.trace}]))
            ELSE Becomes(w, Inspect(t)) /\ UNCHANGED canary
    /\ UNCHANGED <<tracked, tokens, performed, late, raised, burnt, written, dirty>>

(***************************************************************************)
(* _inspect_value, where the value holds something: against the markers of *)
(* the runs tracked when it looks.                                         *)
(***************************************************************************)
\* Mutant: the scan only looks at the length.
BlocksForeign(value) == Big \in value

Blocks(value) == Leaks(value)

Scan(w) ==
    LET t == thread[w] IN
    /\ t.pc = "scan"
    /\ \/ /\ Blocks(t.value)
          /\ \E o \in IF Big \in t.value THEN {t.trace} ELSE Owners(t.value) :
                 /\ Becomes(w, [t EXCEPT !.pc = "trip", !.hit = o])
                 /\ raised' = raised \cup {<<t.trace, o>>}
          /\ UNCHANGED written
       \/ /\ ~Blocks(t.value)
          /\ Becomes(w, Passed(t))
          /\ written' = IF t.at = "write" THEN t.value ELSE written
          /\ UNCHANGED raised
    /\ UNCHANGED <<tracked, canary, tokens, performed, late, burnt, dirty>>

(* The trace that carried the canary trips first, its owner in a second step. *)
Both(t, o) == o # t

TripTrace(w) ==
    LET t == thread[w] IN
    /\ t.pc = "trip"
    /\ Trip(t.trace)
    /\ burnt' = burnt \cup ({t.trace} \cap ToSet(tracked))
    /\ Becomes(w, IF Both(t.trace, t.hit) THEN [t EXCEPT !.pc = "owner"] ELSE Denied(t))
    /\ UNCHANGED <<tokens, performed, late, raised, written, dirty>>

TripOwner(w) ==
    LET t == thread[w] IN
    /\ t.pc = "owner"
    /\ Trip(t.hit)
    /\ burnt' = burnt \cup ({t.hit} \cap ToSet(tracked))
    /\ Becomes(w, Denied(t))
    /\ UNCHANGED <<tokens, performed, late, raised, written, dirty>>

(* A handler returns: the bus guards the result. *)
Result(rec, ok, value) ==
    [rec EXCEPT !.pc = "guard", !.phase = "result", !.ok = ok, !.value = value]

(* A handler raises: BaseAgent.handle lets the guard see the exception first. *)
Raises(rec, value) ==
    [rec EXCEPT !.pc = "guard", !.phase = "exception", !.value = value]

CountLate(w) ==
    late' = IF Burnt(thread[w].trace) THEN [late EXCEPT ![thread[w].trace] = @ + 1]
            ELSE late

(* CoordinatorAgent.process: findings deny the task, but the plan is in the *)
(* result either way.  scan_text and the size limits decide which.          *)
Plan(w, plan, clean) ==
    LET t == thread[w] IN
    /\ t.pc = "handle" /\ t.at = "task"
    /\ Becomes(w, Result([t EXCEPT !.plan = plan], clean, t.args))
    /\ CountLate(w)
    /\ UNCHANGED <<tracked, canary, tokens, performed, raised, burnt, written, dirty>>

(* PolicyAgent.decide: the first rule that matches, else deny. *)
Decide(action) ==
    LET hits == {i \in DOMAIN Rules : action \in Rules[i].matches} IN
    IF hits = {} THEN "deny" ELSE Rules[CHOOSE i \in hits : \A j \in hits : i <= j].verdict

(* PolicyAgent.process: an allowed action gets a fresh one-time token. *)
Approves(action) == Decide(action) = "allow"

Policy(w) ==
    LET t == thread[w]
        action == Head(t.plan)
        token == <<w, Len(t.steps) + 1>> IN
    /\ t.pc = "handle" /\ t.at = "policy"
    /\ IF Approves(action)
       THEN /\ tokens' = [k \in DOMAIN tokens \cup {token} |->
                            IF k = token THEN action ELSE tokens[k]]
            /\ Becomes(w, Result([t EXCEPT !.token = token], TRUE, t.args))
       ELSE Becomes(w, Result(t, FALSE, t.args)) /\ UNCHANGED tokens
    /\ CountLate(w)
    /\ UNCHANGED <<tracked, canary, performed, raised, burnt, written, dirty>>

(* ExecutorAgent.process, the check of consume: read, not yet deleted. *)
Execute(w) ==
    LET t == thread[w] IN
    /\ t.pc = "handle" /\ t.at = "execute"
    /\ Becomes(w, IF t.token \in DOMAIN tokens /\ tokens[t.token] = Head(t.plan)
                  THEN [t EXCEPT !.pc = "consume"]
                  ELSE Result(Suppressed(t), FALSE, {}))
    /\ CountLate(w)
    /\ UNCHANGED <<tracked, canary, tokens, performed, raised, burnt, written, dirty>>

\* Mutant: _tokens.pop(token, None).
ConsumesQuietly(token) == TRUE

(***************************************************************************)
(* The del of consume, then the callable.  A token another thread deleted  *)
(* meanwhile makes del raise KeyError; an unregistered action is refused   *)
(* with its token spent; the callable returns or raises any value.         *)
(***************************************************************************)
Consumes(token) == token \in DOMAIN tokens

Consume(w, value, fails) ==
    LET t == thread[w] IN
    /\ t.pc = "consume"
    /\ IF Consumes(t.token)
       THEN /\ tokens' = [k \in DOMAIN tokens \ {t.token} |-> tokens[k]]
            /\ IF Head(t.plan) \in Registered
               THEN /\ performed' = [performed EXCEPT ![t.token] = @ + 1]
                    /\ Becomes(w, IF fails THEN Raises(t, value)
                                  ELSE Result([t EXCEPT !.out = value], TRUE, value))
               ELSE /\ value = {} /\ ~fails
                    /\ Becomes(w, Result(Suppressed(t), FALSE, {}))
                    /\ UNCHANGED performed
       ELSE /\ value = {} /\ fails
            /\ Becomes(w, Raises(t, {}))
            /\ UNCHANGED <<tokens, performed>>
    /\ Counted(value)
    /\ UNCHANGED <<tracked, canary, late, raised, burnt, written>>

(* AuditorAgent.process: its verdict becomes findings and nothing else. *)
Audit(w) ==
    LET t == thread[w] IN
    /\ t.pc = "handle" /\ t.at = "audit"
    /\ Becomes(w, Result(t, t.ok, {}))
    /\ CountLate(w)
    /\ UNCHANGED <<tracked, canary, tokens, performed, raised, burnt, written, dirty>>

(* VerifierAgent.process and the end of _run_step: an output that was not   *)
(* executed, or that scan_text objects to, is withheld.                     *)
Verified(rec, clean) == rec.ok /\ clean

Verify(w, clean) ==
    LET t == thread[w] IN
    /\ t.pc = "handle" /\ t.at = "verify"
    /\ Becomes(w, Result(IF Verified(t, clean) THEN t ELSE Suppressed(t),
                         Verified(t, clean), {}))
    /\ CountLate(w)
    /\ UNCHANGED <<tracked, canary, tokens, performed, raised, burnt, written, dirty>>

(* run's finally clause, then the report is the caller's. *)
Return(r) ==
    /\ thread[r].pc = "finish"
    /\ Complete(r)
    /\ Becomes(r, [Idle EXCEPT !.pc = "returned", !.plan = thread[r].plan,
                               !.steps = thread[r].steps, !.verdict = thread[r].verdict])
    /\ UNCHANGED <<tokens, performed, late, raised, burnt, written, dirty>>

BusStep(w) ==
    \/ Guard(w) \/ Scan(w) \/ TripTrace(w) \/ TripOwner(w)
    \/ Execute(w)
    \/ \E value \in Contents, fails \in BOOLEAN : Consume(w, value, fails)

RunStep(r) ==
    \/ \E task \in Contents : Run(r, task)
    \/ \E plan \in Plans, clean \in BOOLEAN : Plan(r, plan, clean)
    \/ Policy(r) \/ Audit(r) \/ Return(r)
    \/ \E clean \in BOOLEAN : Verify(r, clean)

AdapterStep ==
    \/ \E t \in DOMAIN tokens : Replay(t)
    \/ \E r \in ToSet(tracked), value \in Contents \ {{}} : ExternalWrite(r, value)

Next ==
    /\ \/ \E w \in Threads : BusStep(w)
       \/ \E r \in Runs : RunStep(r)
       \/ AdapterStep
    /\ UNCHANGED limit

Spec == Init /\ [][Next]_vars

TypeOK ==
    /\ HoneyTypeOK
    /\ DOMAIN thread = Threads
    /\ DOMAIN tokens \subseteq TokenIds
    /\ performed \in [TokenIds -> Nat]

-----------------------------------------------------------------------------
(* An approval backs at most one run of a callable, whatever two executors  *)
(* holding the same token do between consume's check and its del, and only  *)
(* an action the rules allow ever runs.                                     *)
OneExecutionPerApproval ==
    /\ \A t \in TokenIds : performed[t] <= 1
    /\ \A t \in DOMAIN tokens : performed[t] = 0 /\ Decide(tokens[t]) = "allow"

(* The report the caller gets is true and clean.  A step it shows as        *)
(* executed ran its callable under its own approval, ALLOW means that every *)
(* step did, and neither its outputs nor a value the adapter committed      *)
(* through guard_external_write hold the canary of a run in the register.   *)
ReportIsTrue ==
    /\ \A r \in Runs : thread[r].pc = "returned" =>
         LET steps == thread[r].steps IN
         /\ \A i \in DOMAIN steps :
              /\ steps[i].ok => performed[<<r, i>>] = 1
              /\ steps[i].out \cap ToSet(tracked) = {}
         /\ thread[r].verdict = "allow" =>
              thread[r].plan = <<>> /\ \A i \in DOMAIN steps : steps[i].ok
    /\ written \cap ToSet(tracked) = {}

(* A leak burns the trace that carried the canary and the run that owns it, *)
(* for as long as the register exists: neither a live nor a tripped trace   *)
(* is ever pruned, and the leak itself trips both.  Once a trace is tripped *)
(* at most the delivery that had already passed its guard reaches a handler.*)
LeakBurnsBoth ==
    /\ \A r \in Runs : late[r] <= 1
    /\ \A r \in burnt : Tracked(r) /\ canary[r].tripped
    /\ \A r \in Runs : thread[r].pc \notin {"idle", "refused", "returned"} => Tracked(r)
    /\ \A p \in raised : \A r \in {p[1], p[2]} \cap Runs :
         \/ ~Tracked(r) \/ canary[r].tripped
         \/ \E w \in Threads : thread[w].pc \in {"trip", "owner"}
                               /\ r \in {thread[w].trace, thread[w].hit}
=============================================================================
