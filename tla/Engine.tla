------------------------------- MODULE Engine -------------------------------
(***************************************************************************)
(* BulldogEngine.evaluate of engine.py with the SessionGuard it shares     *)
(* between threads: policy, advisory model, behavioural rules over the     *)
(* session's last evaluations, the history, the ledger.  The guard takes   *)
(* no lock.  After a restart recover of tools/governed_agent.py rebuilds   *)
(* the histories from the ledger.                                          *)
(*                                                                         *)
(* Risk numbers beyond the decision they lead to, and reasons, are left    *)
(* out.  The list of a session is a heap object: clear takes it out of the *)
(* dictionary while a call may still hold it, so lists are named by their  *)
(* session and a generation.                                               *)
(***************************************************************************)
EXTENDS Policy, FiniteSets, Sequences, Functions

CONSTANTS
  Threads,
  Sessions,        \* session_key: trusted security contexts and actors
  Proposals,       \* actions that are proposed
  Advice,          \* recommendations of the advisory model
  MaxHistory,      \* max_history
  MaxEvaluations,  \* bound: calls of evaluate
  MaxClears        \* bound: clears of one session

\* (A history of length 0 would not be trimmed: events[:-0] is empty.)
ASSUME EngineConstants ==
  /\ Proposals \subseteq ActionRequest
  /\ Advice \subseteq Decision
  /\ MaxHistory \in Nat \ {0} /\ MaxEvaluations \in Nat /\ MaxClears \in Nat

PRIVILEGED_CAPABILITIES ==
  {"credential.read", "process.exec", "network.post", "package.install",
   "agent.spawn", "security_control.write"}

VARIABLES
  at,         \* each thread's position in evaluate
  call,       \* its locals: action, list of its session, capabilities seen, decision
  lists,      \* the lists of SessionEvents
  current,    \* generation of the list that history holds for a session
  calls,      \* how often evaluate was called
  ledger,     \* action_evaluation records of each session, in order
  disturbed   \* calls overlapped, a session was cleared or an evaluation
              \* that is remembered could not be recorded

engineVars == <<at, call, lists, current, calls, ledger, disturbed>>

Lists == Sessions \X (0..MaxClears)

NoCall == [step |-> "idle"]

\* SessionEvent, and the ledger's action_evaluation record
Event(a, d) == [action |-> a, decision |-> d]

Capabilities(events) == [i \in DOMAIN events |-> events[i].action.capability]

\* events[-n:]
LastOf(events, n) ==
  IF Len(events) <= n THEN events ELSE SubSeq(events, Len(events) - n + 1, Len(events))

Init ==
  /\ at = [t \in Threads |-> "idle"]
  /\ call = [t \in Threads |-> NoCall]
  /\ lists = [l \in Lists |-> <<>>]
  /\ current = [s \in Sessions |-> 0]
  /\ calls = 0
  /\ ledger = [s \in Sessions |-> <<>>]
  /\ disturbed = FALSE

-----------------------------------------------------------------------------
Goto(t, step, c) == at' = [at EXCEPT ![t] = step] /\ call' = [call EXCEPT ![t] = c]

\* Mutant: a recommendation replaces the decision of the policy.
TakeAdvice(a, advice) == IF HardBlock(a) THEN "DENY" ELSE advice

\* The advisory model is asked unless the policy blocks, and may only add to it.
Combined(a, advice) ==
  IF HardBlock(a) THEN "DENY" ELSE Stricter(PolicyDecision(a), advice)

\* evaluate up to the list that enforce gets from the history.
Evaluate(t, s, a, advice) ==
  /\ at[t] = "idle"
  /\ calls < MaxEvaluations
  /\ calls' = calls + 1
  /\ Goto(t, IF HardBlock(a) THEN "append" ELSE "read",
          [action |-> a, list |-> <<s, current[s]>>, seen |-> <<>>,
           decision |-> Combined(a, advice)])
  /\ disturbed' = (disturbed \/ \E u \in Threads : at[u] # "idle")
  /\ UNCHANGED <<lists, current, ledger>>

\* previous_actions
ReadActions(t) ==
  /\ at[t] = "read"
  /\ Goto(t, "judge", [call[t] EXCEPT !.seen = Capabilities(lists[call[t].list])])
  /\ UNCHANGED <<lists, current, calls, ledger, disturbed>>

-----------------------------------------------------------------------------
(* The behavioural rules, for a capability c after the capabilities "seen".  *)

GoalDrift(c, seen) ==
  /\ c = "credential.read"
  /\ Range(seen) \cap ProjectCapabilities # {}
  /\ c \notin Range(seen)

AuthorityShift(c, seen) ==
  /\ c \in PRIVILEGED_CAPABILITIES
  /\ seen # <<>>
  /\ Range(LastOf(seen, 3)) \cap PRIVILEGED_CAPABILITIES = {}

\* Mutant: only a denial counts as a restriction.
AlternateAfterDenial(c, seen, previous) == previous = "DENY" /\ c # seen[Len(seen)]

\* previous: the decision on the last event
AlternatePath(c, seen, previous) == previous # "ALLOW" /\ c # seen[Len(seen)]

ToolShopping(c, seen) ==
  Len(seen) >= 3 /\ Cardinality(Range(LastOf(seen, 3)) \cup {c}) >= 4

Flagged(c, seen, events) ==
  \/ GoalDrift(c, seen)
  \/ AuthorityShift(c, seen)
  \/ events # <<>> /\ AlternatePath(c, seen, events[Len(events)].decision)
  \/ ToolShopping(c, seen)

\* previous_results is read after previous_actions; when another thread has
\* put the first event in between, previous_actions[-1] raises.
Unpaired(t) == call[t].seen = <<>> /\ lists[call[t].list] # <<>>

Judge(t) ==
  LET c == call[t] IN
  /\ at[t] = "judge"
  /\ ~Unpaired(t)
  /\ Goto(t, "append",
          IF Flagged(c.action.capability, c.seen, lists[c.list])
          THEN [c EXCEPT !.decision = Stricter(@, "ESCALATE")] ELSE c)
  /\ UNCHANGED <<lists, current, calls, ledger, disturbed>>

JudgeRaises(t) ==
  /\ at[t] = "judge"
  /\ Unpaired(t)
  /\ Goto(t, "idle", NoCall)
  /\ UNCHANGED <<lists, current, calls, ledger, disturbed>>

\* _remember
Remember(t) ==
  LET c == call[t] IN
  /\ at[t] = "append"
  /\ lists' = [lists EXCEPT ![c.list] = Append(@, Event(c.action, c.decision))]
  /\ Goto(t, "trim", c)
  /\ UNCHANGED <<current, calls, ledger, disturbed>>

\* Mutant: the oldest events are kept.
TrimNewest(t) ==
  /\ at[t] = "trim"
  /\ lists' = [lists EXCEPT ![call[t].list] =
                  IF Len(@) > MaxHistory THEN SubSeq(@, 1, MaxHistory) ELSE @]
  /\ Goto(t, "record", call[t])
  /\ UNCHANGED <<current, calls, ledger, disturbed>>

Trim(t) ==
  /\ at[t] = "trim"
  /\ lists' = [lists EXCEPT ![call[t].list] = LastOf(@, MaxHistory)]
  /\ Goto(t, "record", call[t])
  /\ UNCHANGED <<current, calls, ledger, disturbed>>

\* ledger.append, and the return of the result
Record(t) ==
  LET c == call[t] IN
  /\ at[t] = "record"
  /\ ledger' = [ledger EXCEPT ![c.list[1]] = Append(@, Event(c.action, c.decision))]
  /\ Goto(t, "idle", NoCall)
  /\ UNCHANGED <<lists, current, calls, disturbed>>

\* ledger.append raises before anything is written.
RecordRaises(t) ==
  /\ at[t] = "record"
  /\ disturbed' = TRUE
  /\ Goto(t, "idle", NoCall)
  /\ UNCHANGED <<lists, current, calls, ledger>>

-----------------------------------------------------------------------------
\* clear(session) and clear()
Clear(S) ==
  /\ \A s \in S : current[s] < MaxClears
  /\ current' = [s \in Sessions |-> IF s \in S THEN current[s] + 1 ELSE current[s]]
  /\ disturbed' = TRUE
  /\ UNCHANGED <<at, call, lists, calls, ledger>>

\* recover: every record is appended to its session's list, which is trimmed.
Recovered(s) == LastOf(ledger[s], MaxHistory)

\* The process dies, and the next one recovers.
Restart ==
  /\ at' = [t \in Threads |-> "idle"]
  /\ call' = [t \in Threads |-> NoCall]
  /\ current' = [s \in Sessions |-> 0]
  /\ lists' = [l \in Lists |-> IF l[2] = 0 THEN Recovered(l[1]) ELSE <<>>]
  /\ UNCHANGED <<calls, ledger, disturbed>>

Next ==
  \/ \E t \in Threads :
       \/ \E s \in Sessions, a \in Proposals, advice \in Advice : Evaluate(t, s, a, advice)
       \/ ReadActions(t) \/ Judge(t) \/ JudgeRaises(t)
       \/ Remember(t) \/ Trim(t) \/ Record(t) \/ RecordRaises(t)
  \/ \E s \in Sessions : Clear({s})
  \/ Clear(Sessions)
  \/ Restart

Spec == Init /\ [][Next]_engineVars

-----------------------------------------------------------------------------
\* Suspicion never helps: whatever more the tests of the policy find out about
\* an action, the early return or the maximum they trigger never leads to a
\* more lenient decision than the action would have met without it.  (What the
\* policy computes depends on no state: it is evaluated before the first call.)
SuspicionNeverHelps == calls = 0 => Monotone

AsStrict(e) ==
  /\ Order(e.decision) >= Order(PolicyDecision(e.action))
  /\ HardBlock(e.action) => e.decision = "DENY"

\* Nothing softens the policy: whatever the advisory model recommends and the
\* session rules read, in whatever order threads run, what the ledger and the
\* histories say of an action is at least as strict as the policy, and a hard
\* block is a denial.
NeverWeaker ==
  /\ \A s \in Sessions : \A i \in DOMAIN ledger[s] : AsStrict(ledger[s][i])
  /\ \A l \in Lists : \A i \in DOMAIN lists[l] : AsStrict(lists[l][i])

\* A restart is invisible to the session rules: when calls have not overlapped
\* and every evaluation was recorded, recover rebuilds from the ledger exactly
\* the histories the process holds.
RestartInvisible ==
  ~disturbed /\ (\A t \in Threads : at[t] = "idle") =>
    \A s \in Sessions : lists[<<s, current[s]>>] = Recovered(s)

Straight(e) ==
  \A i \in 1..(Len(e) - 1) :
    e[i].decision # "ALLOW" /\ e[i + 1].decision \in {"ALLOW", "SANDBOX"}
      => e[i + 1].action.capability = e[i].action.capability

\* Whoever has been restricted cannot turn to another capability unnoticed:
\* when calls do not overlap, of two successive evaluations of a session in the
\* ledger, with or without a restart in between, the second is not let through
\* after a restriction of the first unless it repeats its capability.
NoDetour == ~disturbed => \A s \in Sessions : Straight(ledger[s])
-----------------------------------------------------------------------------
(* The inductive invariant: also a call in progress carries a decision as    *)
(* strict as the policy's, so whatever it appends is.                        *)
StrictEvents ==
  {e \in [action : ActionRequest, decision : Decision] : AsStrict(e)}

StrictCalls ==
  {c \in [action : ActionRequest, list : Lists, seen : Seq(Capability),
          decision : Decision] : Event(c.action, c.decision) \in StrictEvents}

EngineInv ==
  /\ at \in [Threads -> {"idle", "read", "judge", "append", "trim", "record"}]
  /\ lists \in [Lists -> Seq(StrictEvents)]
  /\ ledger \in [Sessions -> Seq(StrictEvents)]
  /\ current \in [Sessions -> 0..MaxClears]
  /\ call = [t \in Threads |-> call[t]]
  /\ \A t \in Threads : at[t] # "idle" => call[t] \in StrictCalls

-----------------------------------------------------------------------------
(* While nothing has disturbed the calls, one is in progress at most, and at *)
(* each of its steps the history of its session is a known function of the   *)
(* ledger.                                                                   *)
Decided(t) == Event(call[t].action, call[t].decision)

\* e after the evaluations "before" of its session is no detour.
Follows(e, before) ==
  /\ before # <<>>
  /\ before[Len(before)].decision # "ALLOW"
  /\ e.decision \in {"ALLOW", "SANDBOX"}
  => e.action.capability = before[Len(before)].action.capability

Holds(t) ==
  LET s == call[t].list[1]
      held == lists[call[t].list]
  IN
  /\ call[t].list = <<s, current[s]>>
  /\ at[t] \in {"read", "judge", "append"} => held = Recovered(s)
  /\ at[t] = "judge" => call[t].seen = Capabilities(held)
  /\ at[t] = "trim" => held = Append(Recovered(s), Decided(t))
  /\ at[t] = "record" => held = LastOf(Append(Recovered(s), Decided(t)), MaxHistory)
  /\ at[t] \in {"append", "trim", "record"} => Follows(Decided(t), ledger[s])

\* No call has changed the history of s and not yet recorded why.
Settled(s) == \A t \in Threads : at[t] \in {"trim", "record"} => call[t].list[1] # s

QuietInv ==
  ~disturbed =>
    /\ \A t, u \in Threads : at[t] # "idle" /\ at[u] # "idle" => t = u
    /\ \A t \in Threads : at[t] # "idle" => Holds(t)
    /\ \A s \in Sessions : Settled(s) => lists[<<s, current[s]>>] = Recovered(s)
    /\ NoDetour
=============================================================================
