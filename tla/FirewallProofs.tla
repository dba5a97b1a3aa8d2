--------------------------- MODULE FirewallProofs ---------------------------
(***************************************************************************)
(* The two ends of an action's way: what is let through, and what it runs  *)
(* in.  The policy is monotone in what it finds suspicious, and nothing    *)
(* the engine adds to it, for any number of threads and sessions, softens  *)
(* it; while calls do not overlap the history of a session is what the     *)
(* ledger says, so that a restart changes nothing.  In the sandbox, for    *)
(* every profile and every order of the steps of caller, reader, launcher  *)
(* and workload, what runs was attested and nothing outlives its run.      *)
(***************************************************************************)
EXTENDS Engine, Sandbox, TLAPS

\* The order of decisions is a number, and Stricter the maximum in it.
LEMMA OrderOfDecisions ==
  ASSUME NEW d \in Decision, NEW e \in Decision
  PROVE  /\ Order(d) \in 0..3
         /\ Stricter(d, e) \in Decision
         /\ Order(Stricter(d, e)) >= Order(d)
         /\ Order(Stricter(d, e)) >= Order(e)
BY DEF Decision, Order, Stricter

\* The policy answers with a decision, and blocks with a denial.
LEMMA PolicyDecides ==
  ASSUME NEW a \in ActionRequest
  PROVE  PolicyDecision(a) \in Decision /\ (HardBlock(a) => PolicyDecision(a) = "DENY")
BY DEF PolicyDecision, Threshold, Decision

\* Each number the policy adds up grows with the facts.
LEMMA RiskGrows ==
  ASSUME NEW a \in ActionRequest, NEW b \in ActionRequest,
         a.capability = b.capability, a.facts \subseteq b.facts
  PROVE  Risk(a) \in Nat /\ Risk(b) \in Nat /\ Risk(a) <= Risk(b)
<1>1. /\ ResourceRisk(a) \in Nat /\ ResourceRisk(b) \in Nat
      /\ ResourceRisk(a) <= ResourceRisk(b)
  BY DEF ResourceRisk, AtLeast
<1>2. NeedsReview(a) => NeedsReview(b)
  BY DEF NeedsReview
<1>3. /\ CapabilityRisk(a) \in Nat /\ CapabilityRisk(b) \in Nat
      /\ CapabilityRisk(a) <= CapabilityRisk(b)
  BY <1>1, <1>2 DEF CapabilityRisk, AtLeast
<1>4. QED
  BY <1>3 DEF Risk

\* Suspicion never helps: no finding of policy.py, added to an action, makes
\* evaluate answer more leniently.
THEOREM PolicyIsMonotone == Monotone
<1> SUFFICES ASSUME NEW a \in ActionRequest, NEW f \in Facts
             PROVE  LET b == [a EXCEPT !.facts = @ \cup {f}]
                    IN Order(PolicyDecision(a)) <= Order(PolicyDecision(b))
  BY DEF Monotone
<1> DEFINE b == [a EXCEPT !.facts = @ \cup {f}]
<1>1. /\ b \in ActionRequest /\ a.capability = b.capability
      /\ a.brokered = b.brokered /\ a.facts \subseteq b.facts
  BY DEF ActionRequest
<1> HIDE DEF b
<1>2. HardBlock(a) => HardBlock(b)
  BY <1>1 DEF HardBlock
<1>3. Risk(a) \in Nat /\ Risk(b) \in Nat /\ Risk(a) <= Risk(b)
  BY <1>1, RiskGrows
<1>4. Order(Threshold(a)) <= Order(Threshold(b))
  BY <1>3 DEF Threshold, Order
<1>5. CASE HardBlock(b)
  <2>1. PolicyDecision(b) = "DENY" /\ PolicyDecision(a) \in Decision
    BY <1>1, <1>5, PolicyDecides
  <2>2. Order(PolicyDecision(a)) \in 0..3 /\ Order(PolicyDecision(b)) = 3
    BY <2>1, OrderOfDecisions, Zenon DEF Order
  <2>3. QED
    BY <2>2 DEF b
<1>6. CASE ~HardBlock(b)
  <2>1. CASE a.capability = "credential.read" /\ a.brokered
    <3>1. PolicyDecision(a) = "ALLOW" /\ PolicyDecision(b) = "ALLOW"
      BY <1>1, <1>2, <1>6, <2>1 DEF PolicyDecision
    <3>2. QED
      BY <3>1 DEF Order, b
  <2>2. CASE ~(a.capability = "credential.read" /\ a.brokered)
    <3>1. PolicyDecision(a) = Threshold(a) /\ PolicyDecision(b) = Threshold(b)
      BY <1>1, <1>2, <1>6, <2>2 DEF PolicyDecision
    <3>2. QED
      BY <1>4, <3>1 DEF b
  <2>3. QED
    BY <2>1, <2>2
<1>7. QED
  BY <1>5, <1>6

\* The same as a property of the engine's behaviours.
THEOREM SuspicionNeverHelpsTheorem == Spec => []SuspicionNeverHelps
<1>1. SuspicionNeverHelps
  BY PolicyIsMonotone DEF SuspicionNeverHelps
<1>2. QED
  BY <1>1, PTL

-----------------------------------------------------------------------------
\* A list cut to its last n elements has elements of the same set.
LEMMA LastOfTyped ==
  ASSUME NEW S, NEW e \in Seq(S), NEW n \in Nat
  PROVE  LastOf(e, n) \in Seq(S)
<1>1. CASE Len(e) <= n
  BY <1>1 DEF LastOf
<1>2. CASE ~(Len(e) <= n)
  <2>1. Len(e) - n + 1 \in 1..(Len(e) + 1)
    BY <1>2
  <2>2. SubSeq(e, Len(e) - n + 1, Len(e)) \in Seq(S)
    BY <2>1
  <2>3. QED
    BY <1>2, <2>2 DEF LastOf
<1>3. QED
  BY <1>1, <1>2

\* The advisory model and the session rules only add to the policy.
LEMMA CombinedIsStrict ==
  ASSUME NEW a \in ActionRequest, NEW advice \in Decision
  PROVE  Event(a, Combined(a, advice)) \in StrictEvents
<1>1. Combined(a, advice) \in Decision
  BY PolicyDecides, OrderOfDecisions DEF Combined, Decision
<1>2. Order(Combined(a, advice)) >= Order(PolicyDecision(a))
  <2>1. CASE HardBlock(a)
    BY <2>1, PolicyDecides DEF Combined, Order
  <2>2. CASE ~HardBlock(a)
    BY <2>2, PolicyDecides, OrderOfDecisions DEF Combined
  <2>3. QED
    BY <2>1, <2>2
<1>3. QED
  BY <1>1, <1>2 DEF Event, StrictEvents, AsStrict, Combined

\* Raising a strict decision keeps it strict.
LEMMA RaisedIsStrict ==
  ASSUME NEW a, NEW d, Event(a, d) \in StrictEvents
  PROVE  Event(a, Stricter(d, "ESCALATE")) \in StrictEvents
<1>1. a \in ActionRequest /\ d \in Decision /\ "ESCALATE" \in Decision
  BY DEF Event, StrictEvents, Decision
<1>2. Order(d) >= Order(PolicyDecision(a)) /\ (HardBlock(a) => d = "DENY")
  BY DEF Event, StrictEvents, AsStrict
<1>3. /\ Stricter(d, "ESCALATE") \in Decision
      /\ Order(Stricter(d, "ESCALATE")) >= Order(d)
      /\ Order(d) \in 0..3 /\ Order(Stricter(d, "ESCALATE")) \in 0..3
      /\ Order(PolicyDecision(a)) \in 0..3
  BY <1>1, OrderOfDecisions, PolicyDecides
<1>4. HardBlock(a) => Stricter(d, "ESCALATE") = "DENY"
  BY <1>2 DEF Stricter, Order
<1>5. QED
  BY <1>1, <1>2, <1>3, <1>4 DEF Event, StrictEvents, AsStrict

\* Initially nothing has been decided.
LEMMA EngineInit == Init => EngineInv
BY EngineConstants DEF Init, EngineInv, Lists

\* A step of a thread that changes no list and no ledger.
LEMMA LocalStep ==
  ASSUME NEW t \in Threads, NEW step \in {"idle", "read", "judge", "append", "trim", "record"},
         NEW c, EngineInv, Goto(t, step, c), UNCHANGED <<lists, current, ledger>>,
         step # "idle" => c \in StrictCalls
  PROVE  EngineInv'
BY Zenon DEF EngineInv, Goto

\* Evaluate starts with a strict decision for the list of its session.
LEMMA EvaluateStep ==
  ASSUME NEW t \in Threads, NEW s \in Sessions, NEW a \in Proposals, NEW advice \in Advice,
         EngineInv, Evaluate(t, s, a, advice)
  PROVE  EngineInv'
<1>1. a \in ActionRequest /\ Event(a, Combined(a, advice)) \in StrictEvents
  BY CombinedIsStrict, EngineConstants
<1>2. <<s, current[s]>> \in Lists
  BY DEF EngineInv, Lists
<1> DEFINE c == [action |-> a, list |-> <<s, current[s]>>, seen |-> <<>>,
                 decision |-> Combined(a, advice)]
<1>3. c \in StrictCalls
  <2>1. Combined(a, advice) \in Decision
    BY <1>1 DEF Event, StrictEvents
  <2>2. QED
    BY <1>1, <1>2, <2>1 DEF StrictCalls
<1>4. Goto(t, IF HardBlock(a) THEN "append" ELSE "read", c) /\ UNCHANGED <<lists, current, ledger>>
  BY DEF Evaluate
<1> HIDE DEF c
<1>5. QED
  BY <1>3, <1>4, LocalStep

\* The capabilities of a list of events are a sequence of capabilities.
LEMMA CapabilitiesTyped ==
  ASSUME NEW S, NEW events \in Seq(S), \A i \in 1..Len(events) : events[i].action.capability \in Capability
  PROVE  Capabilities(events) \in Seq(Capability)
<1>1. DOMAIN events = 1..Len(events) /\ Len(events) \in Nat
  OBVIOUS
<1>2. Capabilities(events) = [i \in 1..Len(events) |-> events[i].action.capability]
  BY <1>1 DEF Capabilities
<1>3. QED
  BY <1>1, <1>2

\* previous_actions are capabilities.
LEMMA ReadStep == ASSUME NEW t \in Threads, EngineInv, ReadActions(t) PROVE EngineInv'
<1> DEFINE seen == Capabilities(lists[call[t].list])
           c == [call[t] EXCEPT !.seen = seen]
<1>1. call[t] \in StrictCalls /\ call[t].list \in Lists
  BY DEF ReadActions, EngineInv, StrictCalls
<1>2. lists[call[t].list] \in Seq(StrictEvents)
  BY <1>1 DEF EngineInv
<1>3. seen \in Seq(Capability)
  <2>1. \A i \in 1..Len(lists[call[t].list]) :
          lists[call[t].list][i].action.capability \in Capability
    BY <1>2 DEF StrictEvents, ActionRequest
  <2>2. QED
    BY <1>2, <2>1, CapabilitiesTyped
<1> HIDE DEF seen
<1>4. c \in StrictCalls
  BY <1>1, <1>3 DEF StrictCalls
<1>5. Goto(t, "judge", c) /\ UNCHANGED <<lists, current, ledger>>
  BY DEF ReadActions, seen
<1> HIDE DEF c
<1>6. QED
  BY <1>4, <1>5, LocalStep

\* Judge raises the decision or leaves it.
LEMMA JudgeStep == ASSUME NEW t \in Threads, EngineInv, Judge(t) PROVE EngineInv'
<1> DEFINE c == call[t]
           r == [c EXCEPT !.decision = Stricter(@, "ESCALATE")]
<1>1. c \in StrictCalls
  BY DEF Judge, EngineInv
<1>2. r \in StrictCalls
  <2>1. Event(c.action, Stricter(c.decision, "ESCALATE")) \in StrictEvents
    BY <1>1, RaisedIsStrict DEF StrictCalls
  <2>2. Stricter(c.decision, "ESCALATE") \in Decision
    BY <2>1 DEF Event, StrictEvents
  <2>3. QED
    BY <1>1, <2>1, <2>2 DEF StrictCalls
<1>3. PICK d \in {c, r} : Goto(t, "append", d) /\ UNCHANGED <<lists, current, ledger>>
  BY DEF Judge
<1> HIDE DEF c, r
<1>4. QED
  BY <1>1, <1>2, <1>3, LocalStep

\* _remember appends a strict event and keeps the last ones.
LEMMA RememberStep ==
  ASSUME NEW t \in Threads, EngineInv, Remember(t) \/ Trim(t)
  PROVE  EngineInv'
<1> DEFINE l == call[t].list
<1>1. call[t] \in StrictCalls /\ l \in Lists
      /\ Event(call[t].action, call[t].decision) \in StrictEvents
  BY DEF Remember, Trim, EngineInv, StrictCalls
<1>2. PICK e \in Seq(StrictEvents), step \in {"trim", "record"} :
        lists' = [lists EXCEPT ![l] = e] /\ Goto(t, step, call[t])
        /\ UNCHANGED <<current, ledger>>
  <2>1. lists[l] \in Seq(StrictEvents)
    BY <1>1 DEF EngineInv
  <2>2. Append(lists[l], Event(call[t].action, call[t].decision)) \in Seq(StrictEvents)
    BY <1>1, <2>1
  <2>3. LastOf(lists[l], MaxHistory) \in Seq(StrictEvents)
    BY <2>1, LastOfTyped, EngineConstants, Zenon
  <2>4. CASE Remember(t)
    BY <2>2, <2>4, Zenon DEF Remember
  <2>5. CASE Trim(t)
    BY <2>3, <2>5, Zenon DEF Trim
  <2>6. QED
    BY <2>4, <2>5
<1>3. lists' \in [Lists -> Seq(StrictEvents)]
  BY <1>1, <1>2 DEF EngineInv
<1>4. QED
  BY <1>1, <1>2, <1>3, Zenon DEF EngineInv, Goto

\* Record appends the same event to the ledger.
LEMMA RecordStep == ASSUME NEW t \in Threads, EngineInv, Record(t) PROVE EngineInv'
<1>1. Event(call[t].action, call[t].decision) \in StrictEvents /\ call[t].list[1] \in Sessions
  BY DEF Record, EngineInv, StrictCalls, Lists
<1>2. ledger' \in [Sessions -> Seq(StrictEvents)]
  BY <1>1 DEF Record, EngineInv
<1>3. QED
  BY <1>2, Zenon DEF Record, EngineInv, Goto

\* recover builds its lists from the ledger.
LEMMA RestartStep == ASSUME EngineInv, Restart PROVE EngineInv'
<1>1. \A s \in Sessions : Recovered(s) \in Seq(StrictEvents)
  BY LastOfTyped, EngineConstants DEF Recovered, EngineInv
<1>2. \A l \in Lists : l[1] \in Sessions
  BY DEF Lists
<1>3. lists' \in [Lists -> Seq(StrictEvents)]
  BY <1>1, <1>2 DEF Restart
<1>4. QED
  BY <1>3, EngineConstants DEF Restart, EngineInv

\* Every step of the engine, a clear and a restart preserve the invariant.
LEMMA EngineNext == EngineInv /\ [Next]_engineVars => EngineInv'
<1> SUFFICES ASSUME EngineInv, [Next]_engineVars PROVE EngineInv'
  OBVIOUS
<1>1. ASSUME NEW t \in Threads, JudgeRaises(t) \/ RecordRaises(t) PROVE EngineInv'
  BY <1>1, LocalStep DEF JudgeRaises, RecordRaises
<1>2. ASSUME NEW S \in SUBSET Sessions, Clear(S) PROVE EngineInv'
  BY <1>2, EngineConstants DEF Clear, EngineInv
<1>3. CASE UNCHANGED engineVars
  BY <1>3 DEF engineVars, EngineInv
<1>4. QED
  BY <1>1, <1>2, <1>3, EvaluateStep, ReadStep, JudgeStep, RememberStep, RecordStep,
     RestartStep, Zenon
  DEF Next

\* Nothing softens the policy: what engine.py records, remembers and recovers
\* of an action is at least as strict as policy.py, for any number of threads,
\* whatever the advisory model says and wherever the process dies.
THEOREM NothingSoftensPolicy == Spec => []NeverWeaker
<1>1. EngineInv => NeverWeaker
  <2> SUFFICES ASSUME EngineInv PROVE NeverWeaker
    OBVIOUS
  <2>1. ASSUME NEW e \in Seq(StrictEvents), NEW i \in DOMAIN e PROVE AsStrict(e[i])
    BY <2>1 DEF StrictEvents
  <2>2. QED
    BY <2>1 DEF EngineInv, NeverWeaker
<1>2. QED
  BY <1>1, EngineInit, EngineNext, PTL DEF Spec

-----------------------------------------------------------------------------
\* Trimming a history before or after an event is appended to it comes to the
\* same, so that recover, which trims as it goes, finds what _remember left.
LEMMA TrimAppend ==
  ASSUME NEW S, NEW e \in Seq(S), NEW x \in S, NEW n \in Nat \ {0}
  PROVE  LastOf(Append(LastOf(e, n), x), n) = LastOf(Append(e, x), n)
<1>1. CASE Len(e) <= n
  BY <1>1 DEF LastOf
<1>2. CASE Len(e) > n
  <2>. DEFINE cut == SubSeq(e, Len(e) - n + 1, Len(e))
              left == SubSeq(Append(cut, x), 2, n + 1)
              right == SubSeq(Append(e, x), Len(e) - n + 2, Len(e) + 1)
  <2>1. /\ cut \in Seq(S) /\ Len(cut) = n
        /\ \A i \in 1..n : cut[i] = e[Len(e) - n + i]
    BY <1>2
  <2>2. LastOf(e, n) = cut
    BY <1>2 DEF LastOf
  <2>. HIDE DEF cut
  <2>3. /\ Append(cut, x) \in Seq(S) /\ Len(Append(cut, x)) = n + 1
        /\ \A i \in 1..n : Append(cut, x)[i] = cut[i]
        /\ Append(cut, x)[n + 1] = x
    BY <2>1
  <2>4. /\ Append(e, x) \in Seq(S) /\ Len(Append(e, x)) = Len(e) + 1
        /\ \A i \in 1..Len(e) : Append(e, x)[i] = e[i]
        /\ Append(e, x)[Len(e) + 1] = x
    OBVIOUS
  <2>5. left \in Seq(S) /\ Len(left) = n /\ \A i \in 1..n : left[i] = Append(cut, x)[i + 1]
    BY <2>3
  <2>6. right \in Seq(S) /\ Len(right) = n /\ \A i \in 1..n : right[i] = Append(e, x)[Len(e) - n + 1 + i]
    BY <1>2, <2>4
  <2>7. LastOf(Append(cut, x), n) = left
    BY <2>3 DEF LastOf
  <2>8. LastOf(Append(e, x), n) = right
    BY <1>2, <2>4 DEF LastOf
  <2>. HIDE DEF left, right
  <2>9. ASSUME NEW i \in 1..n PROVE left[i] = right[i]
    <3>1. CASE i = n
      <4>0. n \in 1..n
        OBVIOUS
      <4>1. left[n] = Append(cut, x)[n + 1]
        BY <2>5, <4>0, Zenon
      <4>2. right[n] = Append(e, x)[Len(e) - n + 1 + n]
        BY <2>6, <4>0, Zenon
      <4>3. Len(e) - n + 1 + n = Len(e) + 1
        OBVIOUS
      <4>. QED
        BY <2>3, <2>4, <3>1, <4>1, <4>2, <4>3, Zenon
    <3>2. CASE i < n
      <4>. DEFINE j == Len(e) - n + 1 + i
      <4>1. i + 1 \in 1..n /\ j \in 1..Len(e) /\ Len(e) - n + (i + 1) = j
        BY <1>2, <3>2
      <4>2. cut[i + 1] = e[Len(e) - n + (i + 1)]
        BY <2>1, <4>1
      <4>3. left[i] = cut[i + 1]
        BY <2>3, <2>5, <4>1
      <4>4. right[i] = Append(e, x)[j]
        BY <2>6, Zenon
      <4>. HIDE DEF j
      <4>5. Append(e, x)[j] = e[j]
        BY <2>4, <4>1
      <4>. QED
        BY <4>1, <4>2, <4>3, <4>4, <4>5
    <3>. QED
      BY <3>1, <3>2
  <2>10. left = right
    BY <2>5, <2>6, <2>9
  <2>. QED
    BY <2>2, <2>7, <2>8, <2>10
<1>. QED
  BY <1>1, <1>2

\* A trimmed history still ends with the last event.
LEMMA TrimKeepsLast ==
  ASSUME NEW S, NEW e \in Seq(S), NEW n \in Nat \ {0}
  PROVE  /\ LastOf(e, n) = <<>> <=> e = <<>>
         /\ e # <<>> => LastOf(e, n)[Len(LastOf(e, n))] = e[Len(e)]
<1>1. CASE Len(e) <= n
  BY <1>1 DEF LastOf
<1>2. CASE Len(e) > n
  <2>. DEFINE cut == SubSeq(e, Len(e) - n + 1, Len(e))
  <2>1. /\ cut \in Seq(S) /\ Len(cut) = n
        /\ \A i \in 1..n : cut[i] = e[Len(e) - n + i]
    BY <1>2
  <2>2. LastOf(e, n) = cut
    BY <1>2 DEF LastOf
  <2>. HIDE DEF cut
  <2>3. cut[n] = e[Len(e)]
    <3>1. n \in 1..n /\ Len(e) - n + n = Len(e)
      BY <1>2
    <3>2. cut[n] = e[Len(e) - n + n]
      BY <2>1, <3>1
    <3>. QED
      BY <3>1, <3>2
  <2>4. cut # <<>> /\ e # <<>>
    BY <1>2, <2>1
  <2>. QED
    BY <2>1, <2>2, <2>3, <2>4
<1>. QED
  BY <1>1, <1>2

\* What the ledger gains by an event that follows.
LEMMA LedgerFollows ==
  ASSUME NEW S, NEW e \in Seq(S), NEW x \in S, Follows(x, e), Straight(e)
  PROVE  Straight(Append(e, x))
<1>. SUFFICES ASSUME NEW i \in 1..(Len(Append(e, x)) - 1)
     PROVE Append(e, x)[i].decision # "ALLOW" /\ Append(e, x)[i + 1].decision \in {"ALLOW", "SANDBOX"}
              => Append(e, x)[i + 1].action.capability = Append(e, x)[i].action.capability
  BY Zenon DEF Straight
<1>1. CASE i < Len(e)
  <2>1. Append(e, x)[i] = e[i] /\ Append(e, x)[i + 1] = e[i + 1] /\ i \in 1..(Len(e) - 1)
    BY <1>1
  <2>. QED
    BY <2>1 DEF Straight
<1>2. CASE i = Len(e)
  <2>1. Append(e, x)[i] = e[Len(e)] /\ Append(e, x)[i + 1] = x /\ e # <<>>
    BY <1>2
  <2>. QED
    BY <2>1 DEF Follows
<1>. QED
  BY <1>1, <1>2

\* A new engine has recovered what its ledger holds.
LEMMA QuietInit == Init => QuietInv
<1>. SUFFICES ASSUME Init PROVE QuietInv
  OBVIOUS
<1>1. \A s \in Sessions : <<s, current[s]>> \in Lists /\ ledger[s] = <<>>
  BY EngineConstants DEF Init, Lists
<1>2. \A s \in Sessions : Recovered(s) = <<>>
  <2>1. Len(<<>>) = 0 /\ 0 <= MaxHistory
    BY EngineConstants
  <2>. QED
    BY <1>1, <2>1, Zenon DEF Recovered, LastOf
<1>3. NoDetour
  <2>1. Len(<<>>) - 1 = -1 /\ 1..(-1) = {}
    OBVIOUS
  <2>. QED
    BY <1>1, <2>1, Zenon DEF NoDetour, Straight
<1>. QED
  BY <1>1, <1>2, <1>3 DEF QuietInv, Init

\* A step of the thread that is at work leaves every other one idle.
LEMMA OnlyOne ==
  ASSUME EngineInv, NEW t \in Threads,
         \A u \in Threads \ {t} : at[u] = "idle",
         NEW step, NEW c, Goto(t, step, c)
  PROVE  /\ at'[t] = step /\ call'[t] = c
         /\ \A u \in Threads \ {t} : at'[u] = "idle"
BY DEF EngineInv, Goto

\* What is left to show for such a step.
LEMMA QuietStep ==
  ASSUME EngineInv, QuietInv, ~disturbed, NEW t \in Threads,
         \A u \in Threads \ {t} : at[u] = "idle",
         NEW step, NEW c, Goto(t, step, c), UNCHANGED current,
         step # "idle" => Holds(t)',
         \A s \in Sessions : Settled(s)' => lists'[<<s, current[s]>>] = Recovered(s)',
         NoDetour'
  PROVE  QuietInv'
<1>1. /\ at'[t] = step
      /\ \A u \in Threads \ {t} : at'[u] = "idle"
  BY OnlyOne
<1>2. \A u, v \in Threads : at'[u] # "idle" /\ at'[v] # "idle" => u = v
  BY <1>1, Zenon
<1>3. \A u \in Threads : at'[u] # "idle" => Holds(u)'
  BY <1>1, Zenon
<1>. QED
  BY <1>2, <1>3, Zenon DEF QuietInv

\* A step that no other call overlaps, and that neither fails to record nor
\* clears a session, keeps histories and ledger together.
LEMMA QuietNext ==
  ASSUME EngineInv, EngineInv', QuietInv, [Next]_engineVars
  PROVE  QuietInv'
<1>1. CASE disturbed'
  BY <1>1, SMTT(30) DEF QuietInv
<1>2. CASE ~disturbed' /\ disturbed
  BY <1>2, Zenon DEF Next, engineVars, Evaluate, ReadActions, Judge, JudgeRaises, Remember, Trim,
              Record, RecordRaises, Clear, Restart
<1>3. CASE ~disturbed' /\ ~disturbed
  <2>0. /\ \A t, u \in Threads : at[t] # "idle" /\ at[u] # "idle" => t = u
        /\ \A t \in Threads : at[t] # "idle" => Holds(t)
        /\ \A s \in Sessions : Settled(s) => lists[<<s, current[s]>>] = Recovered(s)
        /\ NoDetour
    BY <1>3, Zenon DEF QuietInv
  <2>1. ASSUME NEW t \in Threads, NEW s \in Sessions, NEW a \in Proposals, NEW advice \in Advice,
               Evaluate(t, s, a, advice)
        PROVE  QuietInv'
    <3>. DEFINE c == [action |-> a, list |-> <<s, current[s]>>, seen |-> <<>>,
                      decision |-> Combined(a, advice)]
                step == IF HardBlock(a) THEN "append" ELSE "read"
    <3>1. /\ \A u \in Threads : at[u] = "idle"
          /\ Goto(t, step, c)
          /\ UNCHANGED <<lists, current, ledger>>
      BY <1>3, <2>1, Zenon DEF Evaluate
    <3>2. /\ c.list = <<s, current[s]>> /\ c.list[1] = s
          /\ step = "append" => c.decision = "DENY"
          /\ step \in {"append", "read"}
      BY DEF Combined
    <3>. HIDE DEF c, step
    <3>3. at'[t] = step /\ call'[t] = c /\ \A u \in Threads \ {t} : at'[u] = "idle"
      BY <3>1, OnlyOne
    <3>4. \A r \in Sessions : Settled(r) /\ Recovered(r)' = Recovered(r)
      BY <3>1 DEF Settled, Recovered
    <3>5. lists'[<<s, current'[s]>>] = Recovered(s)'
      BY <2>0, <3>1, <3>4
    <3>6. Holds(t)'
      <4>1. Follows(Decided(t)', ledger'[s]) \/ step = "read"
        BY <3>2, <3>3 DEF Follows, Decided, Event
      <4>. QED
        BY <3>1, <3>2, <3>3, <3>5, <4>1, Zenon DEF Holds
    <3>7. NoDetour'
      BY <1>3, <2>0, <3>1, Zenon DEF NoDetour
    <3>. QED
      BY <1>3, <2>0, <3>1, <3>4, <3>6, <3>7, QuietStep
  <2>2. ASSUME NEW t \in Threads, at[t] # "idle"
        PROVE  /\ \A u \in Threads \ {t} : at[u] = "idle"
               /\ Holds(t)
               /\ call[t] \in StrictCalls
               /\ call[t].list \in Lists /\ call[t].list[1] \in Sessions
               /\ Decided(t) \in StrictEvents
               /\ lists[call[t].list] \in Seq(StrictEvents)
               /\ ledger[call[t].list[1]] \in Seq(StrictEvents)
    <3>1. \A u \in Threads \ {t} : at[u] = "idle"
      BY <2>0, <2>2, Zenon
    <3>2. call[t] \in StrictCalls /\ Holds(t)
      BY <2>0, <2>2 DEF EngineInv
    <3>3. call[t].list \in Lists /\ call[t].list[1] \in Sessions /\ Decided(t) \in StrictEvents
      BY <3>2 DEF StrictCalls, Lists, Decided
    <3>. QED
      BY <3>1, <3>2, <3>3 DEF EngineInv
  <2>3. ASSUME NEW t \in Threads, ReadActions(t) PROVE QuietInv'
    <3>. DEFINE c == [call[t] EXCEPT !.seen = Capabilities(lists[call[t].list])]
    <3>1. at[t] = "read" /\ Goto(t, "judge", c) /\ UNCHANGED <<lists, current, ledger>>
      BY <2>3 DEF ReadActions
    <3>2. call[t] \in StrictCalls /\ Holds(t) /\ \A u \in Threads \ {t} : at[u] = "idle"
      BY <2>2, <3>1
    <3>3. c.list = call[t].list /\ c.seen = Capabilities(lists[call[t].list])
      BY <3>2 DEF StrictCalls
    <3>. HIDE DEF c
    <3>4. at'[t] = "judge" /\ call'[t] = c /\ \A u \in Threads \ {t} : at'[u] = "idle"
      BY <3>1, <3>2, OnlyOne
    <3>5. \A r \in Sessions : Settled(r) /\ Recovered(r)' = Recovered(r)
      BY <3>1, <3>2 DEF Settled, Recovered
    <3>6. Holds(t)'
      BY <3>1, <3>2, <3>3, <3>4 DEF Holds, Recovered
    <3>7. NoDetour'
      BY <1>3, <2>0, <3>1, Zenon DEF NoDetour
    <3>. QED
      BY <1>3, <2>0, <3>1, <3>2, <3>5, <3>6, <3>7, QuietStep
  <2>4. ASSUME NEW t \in Threads, Judge(t) PROVE QuietInv'
    <3>1. at[t] = "judge" /\ UNCHANGED <<lists, current, ledger>> /\ ~Unpaired(t)
      BY <2>4 DEF Judge
    <3>2. /\ call[t] \in StrictCalls /\ Holds(t) /\ \A u \in Threads \ {t} : at[u] = "idle"
          /\ call[t].list[1] \in Sessions
          /\ lists[call[t].list] \in Seq(StrictEvents)
          /\ ledger[call[t].list[1]] \in Seq(StrictEvents)
      BY <2>2, <3>1
    <3>. DEFINE d == call[t]
                raised == [d EXCEPT !.decision = Stricter(@, "ESCALATE")]
                flagged == Flagged(d.action.capability, d.seen, lists[d.list])
                c == IF flagged THEN raised ELSE d
    <3>3. Goto(t, "append", c)
      BY <2>4 DEF Judge
    <3>4. /\ c.list = d.list /\ c.action = d.action
          /\ flagged => c.decision = Stricter(d.decision, "ESCALATE")
          /\ ~flagged => c.decision = d.decision
          /\ d.decision \in Decision
      BY <3>2 DEF StrictCalls
    <3>5. flagged => c.decision \notin {"ALLOW", "SANDBOX"}
      BY <3>4 DEF Stricter, Order, Decision
    <3>6. at'[t] = "append" /\ call'[t] = c /\ \A u \in Threads \ {t} : at'[u] = "idle"
      BY <3>2, <3>3, OnlyOne
    <3>7. \A r \in Sessions : Settled(r) /\ Recovered(r)' = Recovered(r)
      BY <3>1, <3>2 DEF Settled, Recovered
    <3>8. Follows(Event(c.action, c.decision), ledger[d.list[1]])
      <4>. DEFINE before == ledger[d.list[1]]
                  held == lists[d.list]
      <4>1. held = LastOf(before, MaxHistory) /\ d.seen = Capabilities(held)
        BY <3>1, <3>2 DEF Holds, Recovered
      <4>2. before # <<>> => held # <<>> /\ held[Len(held)] = before[Len(before)]
        BY <3>2, <4>1, TrimKeepsLast, EngineConstants
      <4>3. held # <<>> => Len(held) \in DOMAIN held /\ Len(held) \in Nat
        BY <3>2, SMTT(30)
      <4>4. held # <<>> => d.seen[Len(d.seen)] = held[Len(held)].action.capability
        <5>1. DOMAIN held = 1..Len(held) /\ Len(held) \in Nat
          BY <3>2, SMTT(30)
        <5>2. d.seen = [i \in 1..Len(held) |-> held[i].action.capability]
          BY <4>1, <5>1, Zenon DEF Capabilities
        <5>3. Len(d.seen) = Len(held)
          BY <5>1, <5>2
        <5>. QED
          BY <4>3, <5>1, <5>2, <5>3, Zenon
      <4>5. CASE flagged
        BY <3>5, <4>5 DEF Follows, Event
      <4>6. CASE ~flagged
        <5>1. ~(held # <<>> /\ AlternatePath(d.action.capability, d.seen, held[Len(held)].decision))
          BY <4>6, Zenon DEF Flagged
        <5>. HIDE DEF c, flagged, before, held, d
        <5>2. before # <<>> /\ before[Len(before)].decision # "ALLOW" =>
                d.action.capability = before[Len(before)].action.capability
          BY <4>2, <4>4, <5>1, SMTT(30) DEF AlternatePath
        <5>. QED
          BY <3>4, <5>2 DEF Follows, Event, before
      <4>. QED
        BY <4>5, <4>6
    <3>. HIDE DEF c, flagged, raised
    <3>9. Holds(t)'
      BY <3>1, <3>2, <3>4, <3>6, <3>8 DEF Holds, Recovered, Decided
    <3>10. NoDetour'
      BY <1>3, <2>0, <3>1, ZenonT(30) DEF NoDetour
    <3>. QED
      BY <1>3, <2>0, <3>1, <3>2, <3>3, <3>7, <3>9, <3>10, QuietStep
  <2>5. ASSUME NEW t \in Threads, JudgeRaises(t) PROVE QuietInv'
    <3>1. /\ at[t] = "judge" /\ UNCHANGED <<lists, current, ledger>>
          /\ Goto(t, "idle", NoCall)
      BY <2>5 DEF JudgeRaises
    <3>2. \A u \in Threads \ {t} : at[u] = "idle"
      BY <2>2, <3>1
    <3>3. \A r \in Sessions : Settled(r) /\ Recovered(r)' = Recovered(r)
      BY <3>1, <3>2 DEF Settled, Recovered
    <3>4. NoDetour'
      BY <1>3, <2>0, <3>1, ZenonT(30) DEF NoDetour
    <3>. QED
      BY <1>3, <2>0, <3>1, <3>2, <3>3, <3>4, QuietStep
  <2>. DEFINE Longer(t) == Append(Recovered(call[t].list[1]), Decided(t))
              Written(t, step) == IF step = "trim" THEN Longer(t)
                                  ELSE LastOf(Longer(t), MaxHistory)
  <2>6. ASSUME NEW t \in Threads, NEW step \in {"trim", "record"},
               at[t] \in {"append", "trim"}, Goto(t, step, call[t]),
               lists' = [lists EXCEPT ![call[t].list] = Written(t, step)],
               UNCHANGED <<current, ledger>>
        PROVE  QuietInv'
    <3>1. /\ \A u \in Threads \ {t} : at[u] = "idle"
          /\ Holds(t)
          /\ call[t].list \in Lists /\ call[t].list[1] \in Sessions
      BY <2>2, <2>6
    <3>2. at'[t] = step /\ call'[t] = call[t] /\ \A u \in Threads \ {t} : at'[u] = "idle"
      BY <2>6, <3>1, OnlyOne
    <3>3. PICK s \in Sessions : call[t].list = <<s, current[s]>> /\ call[t].list[1] = s
      BY <3>1 DEF Holds
    <3>4. lists'[<<s, current[s]>>] = Written(t, step) /\ \A l \in Lists \ {<<s, current[s]>>} : lists'[l] = lists[l]
      BY <2>6, <3>1, <3>3, ZenonT(30) DEF EngineInv
    <3>5. \A r \in Sessions : Recovered(r)' = Recovered(r)
      BY <2>6 DEF Recovered
    <3>6. ASSUME NEW r \in Sessions, Settled(r)'
          PROVE  lists'[<<r, current[r]>>] = Recovered(r)'
      <4>1. r # s
        BY <2>6, <3>2, <3>3, <3>6 DEF Settled
      <4>2. Settled(r)
        BY <3>1, <3>3, <4>1 DEF Settled
      <4>3. <<r, current[r]>> \in Lists
        BY DEF EngineInv, Lists
      <4>4. <<r, current[r]>> # <<s, current[s]>>
        BY <4>1
      <4>. QED
        BY <2>0, <3>4, <3>5, <4>2, <4>3, <4>4, Zenon
    <3>7. Decided(t)' = Decided(t)
      BY <3>2, Zenon DEF Decided
    <3>8. Follows(Decided(t), ledger[s])
      BY <2>6, <3>1, <3>3 DEF Holds
    <3>9. Holds(t)'
      BY <2>6, <3>2, <3>3, <3>4, <3>5, <3>7, <3>8, Zenon DEF Holds
    <3>10. NoDetour'
      BY <1>3, <2>0, <2>6, Zenon DEF NoDetour
    <3>. QED
      BY <1>3, <2>6, <3>1, <3>6, <3>9, <3>10, QuietStep
  <2>7. ASSUME NEW t \in Threads, Remember(t) PROVE QuietInv'
    <3>1. /\ at[t] = "append" /\ Goto(t, "trim", call[t]) /\ UNCHANGED <<current, ledger>>
          /\ lists' = [lists EXCEPT ![call[t].list] = Append(lists[call[t].list], Decided(t))]
      BY <2>7 DEF Remember, Decided
    <3>2. lists' = [lists EXCEPT ![call[t].list] = Written(t, "trim")]
      BY <2>2, <3>1, Zenon DEF Holds
    <3>. HIDE DEF Written
    <3>. QED
      BY <2>6, <3>1, <3>2, Zenon
  <2>8. ASSUME NEW t \in Threads, Trim(t) PROVE QuietInv'
    <3>1. /\ at[t] = "trim" /\ Goto(t, "record", call[t]) /\ UNCHANGED <<current, ledger>>
          /\ lists' = [lists EXCEPT ![call[t].list] = LastOf(lists[call[t].list], MaxHistory)]
      BY <2>8, SMTT(30) DEF Trim
    <3>2. lists' = [lists EXCEPT ![call[t].list] = Written(t, "record")]
      BY <2>2, <3>1, Zenon DEF Holds
    <3>. HIDE DEF Written
    <3>. QED
      BY <2>6, <3>1, <3>2, Zenon
  <2>9. ASSUME NEW t \in Threads, Record(t) PROVE QuietInv'
    <3>1. /\ at[t] = "record" /\ Goto(t, "idle", NoCall) /\ UNCHANGED <<lists, current>>
          /\ ledger' = [ledger EXCEPT ![call[t].list[1]] = Append(@, Decided(t))]
      BY <2>9 DEF Record, Decided
    <3>2. /\ \A u \in Threads \ {t} : at[u] = "idle"
          /\ Holds(t) /\ Decided(t) \in StrictEvents
          /\ call[t].list \in Lists /\ call[t].list[1] \in Sessions
      BY <2>2, <3>1
    <3>3. PICK s \in Sessions, e \in StrictEvents :
             call[t].list = <<s, current[s]>> /\ call[t].list[1] = s /\ e = Decided(t)
      BY <3>2 DEF Holds
    <3>4. /\ ledger'[s] = Append(ledger[s], e) /\ ledger[s] \in Seq(StrictEvents)
          /\ \A r \in Sessions \ {s} : ledger'[r] = ledger[r]
      BY <3>1, <3>3, SMTT(30) DEF EngineInv
    <3>5. lists[<<s, current[s]>>] = LastOf(Append(Recovered(s), e), MaxHistory)
      BY <3>1, <3>2, <3>3 DEF Holds
    <3>6. lists[<<s, current[s]>>] = LastOf(Append(ledger[s], e), MaxHistory)
      BY <3>4, <3>5, TrimAppend, EngineConstants DEF Recovered
    <3>7. ASSUME NEW r \in Sessions
          PROVE  lists'[<<r, current[r]>>] = Recovered(r)'
      <4>1. CASE r = s
        <5>1. Recovered(s)' = LastOf(ledger'[s], MaxHistory)
          BY DEF Recovered
        <5>2. lists' = lists /\ current' = current
          BY <3>1
        <5>. QED
          BY <3>4, <3>6, <4>1, <5>1, <5>2, Zenon
      <4>2. CASE r # s
        <5>1. Settled(r)
          BY <3>2, <3>3, <4>2 DEF Settled
        <5>. QED
          BY <2>0, <3>1, <3>4, <4>2, <5>1 DEF Recovered
      <4>. QED
        BY <4>1, <4>2, SMTT(30)
    <3>8. NoDetour'
      <4>1. Follows(e, ledger[s])
        BY <3>1, <3>2, <3>3 DEF Holds
      <4>2. \A r \in Sessions : Straight(ledger[r])
        BY <1>3, <2>0, ZenonT(30) DEF NoDetour
      <4>3. Straight(Append(ledger[s], e))
        BY <3>4, <4>1, <4>2, LedgerFollows
      <4>4. ASSUME NEW r \in Sessions PROVE Straight(ledger'[r])
        BY <3>4, <4>2, <4>3, Zenon
      <4>. QED
        BY <4>4, ZenonT(30) DEF NoDetour
    <3>. QED
      BY <1>3, <3>1, <3>2, <3>7, <3>8, QuietStep, Zenon
  <2>10. CASE Restart
    <3>1. /\ \A t \in Threads : at'[t] = "idle"
          /\ \A s \in Sessions : current'[s] = 0 /\ <<s, 0>> \in Lists
          /\ ledger' = ledger
      BY <2>10, EngineConstants DEF Restart, Lists
    <3>2. \A s \in Sessions : lists'[<<s, current'[s]>>] = Recovered(s)'
      BY <2>10, <3>1 DEF Restart, Recovered
    <3>3. NoDetour'
      BY <1>3, <2>0, <3>1, Zenon DEF NoDetour
    <3>. QED
      BY <3>1, <3>2, <3>3, Zenon DEF QuietInv
  <2>11. CASE UNCHANGED engineVars
    <3>1. UNCHANGED <<at, call, lists, current, ledger, disturbed>>
      BY <2>11 DEF engineVars
    <3>2. \A s \in Sessions : Settled(s)' = Settled(s) /\ Recovered(s)' = Recovered(s)
      BY <3>1, Zenon DEF Settled, Recovered
    <3>3. \A t \in Threads : Holds(t)' = Holds(t)
      BY <3>1, ZenonT(30) DEF Holds, Recovered, Decided
    <3>4. NoDetour'
      BY <2>0, <3>1, Zenon DEF NoDetour
    <3>. QED
      BY <2>0, <3>1, <3>2, <3>3, <3>4, Zenon DEF QuietInv
  <2>12. (\A t \in Threads : ~RecordRaises(t)) /\ (\A S \in SUBSET Sessions : ~Clear(S))
    BY <1>3 DEF RecordRaises, Clear
  <2>. QED
    BY <2>1, <2>3, <2>4, <2>5, <2>7, <2>8, <2>9, <2>10, <2>11, <2>12, Zenon DEF Next
<1>. QED
  BY <1>1, <1>2, <1>3

\* While calls do not overlap and none is lost, the history in memory is what
\* recover would build from the ledger (SessionGuard._remember, recover in
\* governed_agent.py).
THEOREM QuietInvariant == Spec => [](EngineInv /\ QuietInv)
<1>1. EngineInv /\ QuietInv /\ [Next]_engineVars => (EngineInv /\ QuietInv)'
  BY EngineNext, QuietNext
<1>. QED
  BY <1>1, EngineInit, QuietInit, PTL DEF Spec

\* A restart between two calls changes no history: recover finds the one the
\* process had.
THEOREM RestartsAreInvisible == Spec => []RestartInvisible
<1>1. QuietInv => RestartInvisible
  BY DEF QuietInv, RestartInvisible, Settled
<1>. QED
  BY <1>1, QuietInvariant, PTL

\* After a restriction, the next evaluation of the session is let through
\* only if it repeats the capability, with or without a restart in between.
THEOREM NoDetourTheorem == Spec => []NoDetour
<1>1. QuietInv => NoDetour
  BY DEF QuietInv, NoDetour
<1>. QED
  BY <1>1, QuietInvariant, PTL

-----------------------------------------------------------------------------
\* Before a job is posted nothing is in force and nothing runs.
LEMMA SandboxStarts == SandboxInit => SandboxInv
BY Zenon DEF SandboxInit, SandboxInv, SandboxTypeOK, Places, Flags, ReleaseInv,
   ScopeInv, Boots, BeforeAttest, Started

\* Every step of the caller, the reader, the launcher and the workload keeps
\* what the release of the workload rests on.
LEMMA SandboxSteps == SandboxInv /\ [SandboxNext]_sandboxVars => SandboxInv'
<1>. SUFFICES ASSUME SandboxInv, [SandboxNext]_sandboxVars PROVE SandboxInv'
  OBVIOUS
<1>. USE DEF SandboxInv, SandboxTypeOK, Places, Flags, ReleaseInv,
   ScopeInv, Started, Boots,
   BeforeAttest, Valid,
             caller, gate, child
<1>1. ASSUME NEW ok \in BOOLEAN, Construct(ok) PROVE SandboxInv'
  <2>1. Places' /\ ReleaseInv' /\ ScopeInv'
    BY <1>1, SMTT(30) DEF Construct
  <2>2. Flags'
    BY <1>1, Zenon DEF Construct
  <2>. QED
    BY <2>1, <2>2
<1>2. ASSUME NEW ok \in BOOLEAN, Prepare(ok) PROVE SandboxInv'
  <2>1. Places' /\ ReleaseInv' /\ ScopeInv'
    BY <1>2, SMTT(30) DEF Prepare
  <2>2. Flags'
    BY <1>2, Zenon DEF Prepare
  <2>. QED
    BY <2>1, <2>2
<1>3. ASSUME NEW parent \in Parents, MakeScope(parent) PROVE SandboxInv'
  <2>1. Places' /\ ReleaseInv' /\ ScopeInv'
    BY <1>3, SMTT(30) DEF MakeScope, Parents
  <2>2. Flags'
    BY <1>3, ZenonT(30) DEF MakeScope, Parents
  <2>. QED
    BY <2>1, <2>2, SMTT(30)
<1>4. ASSUME NEW ok \in BOOLEAN, EnterScope(ok) PROVE SandboxInv'
  <2>1. Places' /\ ReleaseInv' /\ ScopeInv'
    BY <1>4, SMTT(30) DEF EnterScope
  <2>2. Flags'
    BY <1>4, ZenonT(30) DEF EnterScope
  <2>. QED
    BY <2>1, <2>2
<1>5. ASSUME NEW ok \in BOOLEAN, Spawn(ok) PROVE SandboxInv'
  <2>1. Places' /\ ReleaseInv' /\ ScopeInv'
    BY <1>5, SMTT(30) DEF Spawn, Limits
  <2>2. Flags'
    BY <1>5, Zenon DEF Spawn, Limits
  <2>. QED
    BY <2>1, <2>2
<1>6. CASE StreamsEnd
  <2>1. Places' /\ ReleaseInv' /\ ScopeInv'
    BY <1>6, SMTT(30) DEF StreamsEnd
  <2>2. Flags'
    BY <1>6, ZenonT(30) DEF StreamsEnd
  <2>. QED
    BY <2>1, <2>2
<1>7. CASE Deadline
  <2>1. Places' /\ ReleaseInv' /\ ScopeInv'
    BY <1>7, SMTT(30) DEF Deadline, Terminate
  <2>2. Flags'
    BY <1>7, ZenonT(30) DEF Deadline, Terminate
  <2>. QED
    BY <2>1, <2>2
<1>8. CASE Kill
  <2>1. Places' /\ ReleaseInv' /\ ScopeInv'
    BY <1>8, SMTT(30) DEF Kill
  <2>2. Flags'
    BY <1>8, ZenonT(30) DEF Kill
  <2>. QED
    BY <2>1, <2>2
<1>9. CASE CloseWriteEnd
  <2>1. Places' /\ ReleaseInv' /\ ScopeInv'
    BY <1>9, SMTT(30) DEF CloseWriteEnd
  <2>2. Flags'
    BY <1>9, ZenonT(30) DEF CloseWriteEnd
  <2>. QED
    BY <2>1, <2>2
<1>10. CASE LeaveScope
  <2>1. Places' /\ ReleaseInv' /\ ScopeInv'
    BY <1>10, SMTT(30) DEF LeaveScope, Killed
  <2>2. Flags'
    BY <1>10, ZenonT(30) DEF LeaveScope, Killed
  <2>. QED
    BY <2>1, <2>2
<1>11. CASE Join
  <2>1. Places' /\ ReleaseInv' /\ ScopeInv'
    BY <1>11, SMTT(30) DEF Join
  <2>2. Flags'
    BY <1>11, ZenonT(30) DEF Join
  <2>. QED
    BY <2>1, <2>2
<1>12. CASE Finally
  <2>1. Places' /\ ReleaseInv' /\ ScopeInv'
    BY <1>12, SMTT(30) DEF Finally
  <2>2. Flags'
    BY <1>12, ZenonT(30) DEF Finally
  <2>. QED
    BY <2>1, <2>2
<1>13. CASE Exceed
  <2>1. Places'
    BY <1>13, ZenonT(30) DEF Exceed, Terminate
  <2>2. Flags'
    BY <1>13, Zenon DEF Exceed, Terminate
  <2>3. ReleaseInv'
    BY <1>13, Zenon DEF Exceed, Terminate
  <2>4. ScopeInv'
    BY <1>13, Zenon DEF Exceed, Terminate
  <2>. QED
    BY <2>1, <2>2, <2>3, <2>4
<1>14. CASE ReaderReads
  <2>1. Places' /\ ReleaseInv' /\ ScopeInv'
    BY <1>14, SMTT(30) DEF ReaderReads
  <2>2. Flags'
    BY <1>14, Zenon DEF ReaderReads
  <2>. QED
    BY <2>1, <2>2
<1>15. CASE ReaderJudges
  <2>1. Places' /\ ReleaseInv' /\ ScopeInv'
    BY <1>15, SMTT(30) DEF ReaderJudges, Admits
  <2>2. Flags'
    BY <1>15, Zenon DEF ReaderJudges, Admits
  <2>. QED
    BY <2>1, <2>2
<1>16. CASE ReaderReleases
  <2>1. Places' /\ ReleaseInv' /\ ScopeInv'
    BY <1>16, SMTT(30) DEF ReaderReleases
  <2>2. Flags'
    BY <1>16, Zenon DEF ReaderReleases
  <2>. QED
    BY <2>1, <2>2
<1>17. CASE Mount \/ NoNewPrivs
  <2>1. Places' /\ ReleaseInv' /\ ScopeInv'
    BY <1>17, SMTT(30) DEF Mount, NoNewPrivs, Boot
  <2>2. Flags'
    BY <1>17, Zenon DEF Mount, NoNewPrivs, Boot
  <2>. QED
    BY <2>1, <2>2
<1>18. ASSUME NEW ok \in BOOLEAN, Landlock(ok) \/ Interfaces(ok) \/ Seccomp(ok) PROVE SandboxInv'
  <2>1. Places' /\ ReleaseInv' /\ ScopeInv'
    BY <1>18, SMTT(30) DEF Landlock, Interfaces, Seccomp, Boot
  <2>2. Flags'
    BY <1>18, Zenon DEF Landlock, Interfaces, Seccomp, Boot
  <2>. QED
    BY <2>1, <2>2
<1>19. CASE Attest
  <2>1. Places' /\ ReleaseInv' /\ ScopeInv'
    BY <1>19, SMTT(30) DEF Attest
  <2>2. Flags'
    BY <1>19, Zenon DEF Attest
  <2>. QED
    BY <2>1, <2>2
<1>20. CASE Exec
  <2>1. Places' /\ ReleaseInv' /\ ScopeInv'
    BY <1>20, SMTT(30) DEF Exec, Opens
  <2>2. Flags'
    BY <1>20, Zenon DEF Exec, Opens
  <2>. QED
    BY <2>1, <2>2
<1>21. CASE Die
  <2>1. Places' /\ ReleaseInv' /\ ScopeInv'
    BY <1>21, SMTT(30) DEF Die
  <2>2. Flags'
    BY <1>21, Zenon DEF Die
  <2>. QED
    BY <2>1, <2>2
<1>22. CASE Detach
  <2>1. Places' /\ ReleaseInv' /\ ScopeInv'
    BY <1>22, SMTT(30) DEF Detach
  <2>2. Flags'
    BY <1>22, Zenon DEF Detach
  <2>. QED
    BY <2>1, <2>2
<1>23. CASE CloseStreams
  <2>1. Places' /\ ReleaseInv' /\ ScopeInv'
    BY <1>23, SMTT(30) DEF CloseStreams
  <2>2. Flags'
    BY <1>23, Zenon DEF CloseStreams
  <2>. QED
    BY <2>1, <2>2
<1>24. CASE LauncherExits
  <2>1. Places' /\ ReleaseInv' /\ ScopeInv'
    BY <1>24, SMTT(30) DEF LauncherExits
  <2>2. Flags'
    BY <1>24, Zenon DEF LauncherExits
  <2>. QED
    BY <2>1, <2>2
<1>25. CASE UNCHANGED sandboxVars
  <2>1. Places' /\ ReleaseInv' /\ ScopeInv'
    BY <1>25, SMTT(30) DEF sandboxVars
  <2>2. Flags'
    BY <1>25, Zenon DEF sandboxVars
  <2>. QED
    BY <2>1, <2>2
<1>. QED
  BY <1>1, <1>2, <1>3, <1>4, <1>5, <1>6, <1>7, <1>8, <1>9, <1>10, <1>11, <1>12, <1>13, <1>14,
     <1>15, <1>16, <1>17, <1>18, <1>19, <1>20, <1>21, <1>22, <1>23, <1>24, <1>25, Zenon
     DEF SandboxNext, Caller, Reader, Child

\* The pipe holds what is in force, and the release byte is written after the
\* verdict on it (_attestation_gate_reader in namespace_sandbox.py).
THEOREM SandboxInvariant == SandboxSpec => []SandboxInv
BY SandboxStarts, SandboxSteps, PTL DEF SandboxSpec

\* A workload runs only under the protections the host has seen attested and
\* accepted, and within the limits and the cgroup it was given.
THEOREM OnlyAttestedRunsTheorem == SandboxSpec => []OnlyAttestedRuns
<1>1. SandboxInv => OnlyAttestedRuns
  BY DEF SandboxInv, SandboxTypeOK, Places, ReleaseInv, ScopeInv,
     OnlyAttestedRuns, Limits
<1>. QED
  BY <1>1, SandboxInvariant, PTL

\* When a run with a cgroup scope is over, returned or raised, no process, no
\* scope and no directory of it is left (CgroupV2Scope.__exit__ and the
\* finally of NamespaceSandbox.run).
THEOREM NothingOutlivesTheorem == SandboxSpec => []NothingOutlives
<1>1. SandboxInv => NothingOutlives
  BY DEF SandboxInv, ScopeInv, NothingOutlives
<1>. QED
  BY <1>1, SandboxInvariant, PTL
=============================================================================
