------------------------- MODULE ApprovalGateProofs -------------------------
(***************************************************************************)
(* Proofs about ApprovalGate for any number of callers, requests, actions, *)
(* policies and domains, and any times to live and bounds.                 *)
(***************************************************************************)
EXTENDS ApprovalGate, TLAPS

\* StateAfter only abbreviates the two decisions.
USE DEF StateAfter

\* A fresh database with no signed proof and no caller satisfies GateInv.
LEMMA InitGate == Init => GateInv
BY GateConstants DEF Init, GateInv, TypeOK, CallsSigned, SpentIsStored, Stored, SpentAlone,
  AtMostOneEffect, EffectAuthorised, CompletedIsTrue, Spent, Free, NoCall, Steps, Calls

\* Every step keeps the tables, the callers' locals and the history well formed.
LEMMA TypeStep == GateInv /\ [Next]_vars => TypeOK'
<1> SUFFICES ASSUME GateInv, [Next]_vars PROVE TypeOK'
  OBVIOUS
<1> USE DEF GateInv
<1>1. ASSUME NEW a \in Actions, NEW r \in RequestIds, Request(a, r) PROVE TypeOK'
  BY <1>1, GateConstants DEF TypeOK, Request, ObserveClock, Record, Rows, Binding, Events,
    people, world
<1>2. ASSUME NEW r \in RequestIds, Show(r) \/ HardwareRequest(r) PROVE TypeOK'
  BY <1>2 DEF TypeOK, Show, HardwareRequest, ObserveClock, db, world, history
<1>3. ASSUME NEW r \in RequestIds, Sign(r) PROVE TypeOK'
  BY <1>3 DEF TypeOK, Sign, Proofs, db, world, history
<1>4. ASSUME NEW r \in RequestIds, NEW decision \in {"approve", "deny"}, Press(r, decision)
      PROVE TypeOK'
  BY <1>4 DEF TypeOK, Press, Proofs, db, world, history
<1>5. ASSUME NEW c \in Callers, NEW a \in Actions, NEW p \in proofs, Open(c, a, p)
      PROVE TypeOK'
  BY <1>5 DEF TypeOK, Open, Goto, Calls, Steps, db, people, world, history
<1>6. ASSUME NEW c \in Callers, Read(c) \/ Recheck(c) \/ Refuse(c) PROVE TypeOK'
  BY <1>6 DEF TypeOK, Read, Recheck, Refuse, Goto, Steps, db, people, world, history
<1>7. ASSUME NEW c \in Callers, Commit(c) PROVE TypeOK'
  <2>1. call[c] \in Calls
    BY <1>7 DEF Commit, Redeemable, CallsSigned
  <2>2. requests[Id(c)] \in Rows
    BY <1>7, <2>1 DEF Commit, Redeemable, TypeOK, Calls, Proofs, Id, Free
  <2>3. requests' \in [RequestIds -> Rows \cup {Free}]
    BY <1>7, <2>1, <2>2 DEF Commit, Redeemable, TypeOK, Calls, Proofs, Id, Rows
  <2>4. QED
    BY <1>7, <2>1, <2>3 DEF Commit, Redeemable, TypeOK, ObserveClock, Goto, Steps, Calls, Proofs,
      people, world, history
<1>8. ASSUME NEW c \in Callers, Audit(c) PROVE TypeOK'
  <2>1. call[c] \in Calls
    BY <1>8 DEF Audit, CallsSigned
  <2>2. trail' \in SUBSET (Events \X RequestIds)
    BY <1>8, <2>1 DEF Audit, TypeOK, Record, Id, Calls, Proofs, Events
  <2>3. pc' \in [Callers -> Steps] /\ call' \in [Callers -> Calls \cup {NoCall}]
    BY <1>8 DEF Audit, TypeOK, Goto, Leave, Steps
  <2>4. QED
    BY <1>8, <2>2, <2>3 DEF Audit, TypeOK, db, people, world
<1>9. ASSUME NEW c \in Callers, Effect(c) PROVE TypeOK'
  <2>1. call[c] \in Calls
    BY <1>9 DEF Effect, CallsSigned
  <2>2. BindingOf(c) \in Binding
    BY <2>1 DEF BindingOf, Binding, Calls
  <2>3. performed' \in [RequestIds -> Seq(Binding)]
    BY <1>9, <2>1, <2>2 DEF Effect, TypeOK, Calls, Proofs, Id
  <2>4. call' \in [Callers -> Calls \cup {NoCall}]
    BY <1>9, <2>1 DEF Effect, TypeOK, Calls
  <2>5. QED
    BY <1>9, <2>3, <2>4 DEF Effect, TypeOK, Goto, Steps, db, people, world
<1>10. ASSUME NEW c \in Callers, AuditOutcome(c) PROVE TypeOK'
  <2>1. call[c] \in Calls
    BY <1>10 DEF AuditOutcome, CallsSigned
  <2>2. QED
    BY <1>10, <2>1 DEF AuditOutcome, TypeOK, Record, Goto, Id, Steps, Calls, Proofs, Events,
      db, people, world
<1>11. ASSUME NEW c \in Callers, Update(c) PROVE TypeOK'
  <2>1. call[c] \in Calls /\ requests[Id(c)] \in Rows \cup {Free}
    BY <1>11 DEF Update, CallsSigned, TypeOK, Calls, Proofs, Id
  <2>2. requests' \in [RequestIds -> Rows \cup {Free}]
    BY <1>11, <2>1 DEF Update, TypeOK, Calls, Rows, Free, Id
  <2>3. QED
    BY <1>11, <2>2 DEF Update, TypeOK, Goto, Leave, Steps, people, world, history
<1>12. ASSUME NEW c \in Callers, Stop(c) PROVE TypeOK'
  BY <1>12 DEF TypeOK, Stop, Leave, Goto, Steps, db, people, world, history
<1>13. ASSUME NEW r \in RequestIds, Cancel(r) PROVE TypeOK'
  <2>1. requests' \in [RequestIds -> Rows \cup {Free}]
    <3>1. CASE UNCHANGED requests
      BY <3>1 DEF TypeOK
    <3>2. CASE requests[r] # Free /\ requests' = [requests EXCEPT ![r].state = "cancelled"]
      <4>1. requests[r] \in Rows
        BY <3>2 DEF TypeOK
      <4>2. [requests[r] EXCEPT !.state = "cancelled"] \in Rows
        BY <4>1 DEF Rows
      <4>3. requests' = [requests EXCEPT ![r] = [requests[r] EXCEPT !.state = "cancelled"]]
        BY <3>2 DEF TypeOK
      <4>4. QED
        BY <4>2, <4>3 DEF TypeOK
    <3>3. QED
      BY <1>13, <3>1, <3>2 DEF Cancel
  <2>2. trail' \in SUBSET (Events \X RequestIds)
    BY <1>13 DEF TypeOK, Cancel, Record, Events
  <2>3. QED
    BY <1>13, <2>1, <2>2 DEF TypeOK, Cancel, people, world
<1>14. ASSUME NEW t \in 0..MaxTime, SetClock(t) PROVE TypeOK'
  BY <1>14, GateConstants DEF TypeOK, SetClock, db, people, history
<1>15. ASSUME NEW p \in Policies, ReplacePolicy(p) PROVE TypeOK'
  BY <1>15 DEF TypeOK, ReplacePolicy, db, people, history
<1>16. ASSUME NEW d \in Domains, Freeze(d) PROVE TypeOK'
  BY <1>16 DEF TypeOK, Freeze, db, people, history
<1>17. CASE UNCHANGED vars
  BY <1>17 DEF TypeOK, vars, db, people, world, history
<1>18. QED
  BY <1>1, <1>2, <1>3, <1>4, <1>5, <1>6, <1>7, <1>8, <1>9, <1>10, <1>11, <1>12, <1>13,
    <1>14, <1>15, <1>16, <1>17 DEF Next, CallerStep

\* What remains of GateInv beside TypeOK.
Protocol ==
  /\ CallsSigned
  /\ SpentIsStored
  /\ SpentAlone
  /\ AtMostOneEffect
  /\ EffectAuthorised
  /\ CompletedIsTrue

\* A step that touches neither the rows, the callers nor the history, and
\* forgets no proof, keeps the protocol's invariants.
LEMMA OutsideStep ==
  ASSUME Protocol, UNCHANGED <<requests, pc, call, performed, trail>>, proofs \subseteq proofs'
  PROVE  Protocol'
<1>1. CallsSigned'
  BY DEF Protocol, CallsSigned
<1>2. SpentIsStored'
  BY DEF Protocol, SpentIsStored, Stored, Spent, Id, BindingOf
<1>3. SpentAlone'
  BY DEF Protocol, SpentAlone, Spent, Id
<1>4. AtMostOneEffect' /\ EffectAuthorised' /\ CompletedIsTrue'
  BY DEF Protocol, AtMostOneEffect, EffectAuthorised, CompletedIsTrue
<1>5. QED
  BY <1>1, <1>2, <1>3, <1>4 DEF Protocol

\* Neither does an audit event that reports no completed effect.
LEMMA RecordStep ==
  ASSUME Protocol, UNCHANGED <<requests, proofs, pc, call, performed>>, trail \subseteq trail',
         \A s \in RequestIds : <<"completed", s>> \in trail' => <<"completed", s>> \in trail
  PROVE  Protocol'
<1>1. CallsSigned'
  BY DEF Protocol, CallsSigned
<1>2. SpentIsStored'
  BY DEF Protocol, SpentIsStored, Stored, Spent, Id, BindingOf
<1>3. SpentAlone'
  BY DEF Protocol, SpentAlone, Spent, Id
<1>4. AtMostOneEffect'
  BY DEF Protocol, AtMostOneEffect
<1>5. EffectAuthorised'
  BY DEF Protocol, EffectAuthorised
<1>6. CompletedIsTrue'
  BY DEF Protocol, CompletedIsTrue
<1>7. QED
  BY <1>1, <1>2, <1>3, <1>4, <1>5, <1>6 DEF Protocol

\* A caller that leaves takes nothing with it: the others keep what they hold.
LEMMA LeaveStep ==
  ASSUME NEW c \in Callers, GateInv, Leave(c),
         UNCHANGED <<requests, proofs, performed, trail>>
  PROVE  Protocol'
<1>1. /\ pc'[c] = "idle"
      /\ \A d \in Callers \ {c} : pc'[d] = pc[d] /\ call'[d] = call[d]
  BY DEF GateInv, TypeOK, Leave, Goto
<1>2. CallsSigned'
  BY <1>1 DEF GateInv, CallsSigned
<1>3. \A d \in Callers : Spent(d)' => d # c /\ Spent(d) /\ Id(d)' = Id(d)
  BY <1>1 DEF Spent, Id
<1>4. SpentAlone'
  BY <1>3 DEF GateInv, SpentAlone
<1>5. SpentIsStored'
  BY <1>1, <1>3 DEF GateInv, SpentIsStored, Stored, BindingOf
<1>6. QED
  BY <1>2, <1>4, <1>5 DEF GateInv, Protocol, AtMostOneEffect, EffectAuthorised, CompletedIsTrue

\* A caller that moves on, locals and database unchanged, to a later step
\* keeps the invariants as long as the new step asks for nothing it lacks.
LEMMA MoveStep ==
  ASSUME NEW c \in Callers, NEW step \in Steps \ {"idle"}, GateInv, Goto(c, step), pc[c] # "idle",
         UNCHANGED <<requests, proofs, call, performed, trail>>,
         \/ pc[c] = "read" /\ step = "commit"
         \/ pc[c] = "recheck" /\ step = "effect"
         \/ pc[c] \in {"recheck", "effect"} /\ step = "failed"
  PROVE  Protocol'
<1>1. pc'[c] = step /\ \A d \in Callers \ {c} : pc'[d] = pc[d]
  BY DEF GateInv, TypeOK, Goto
<1>2. \A d \in Callers : Spent(d)' <=> Spent(d)
  BY <1>1 DEF Spent
<1>3. CallsSigned'
  BY <1>1 DEF GateInv, CallsSigned
<1>4. SpentIsStored'
  BY SMTT(60), ZenonT(60), <1>1, <1>2 DEF GateInv, SpentIsStored, Stored, Spent, Id, BindingOf
<1>5. SpentAlone'
  BY <1>2 DEF GateInv, SpentAlone, Id
<1>6. QED
  BY <1>3, <1>4, <1>5 DEF GateInv, Protocol, AtMostOneEffect, EffectAuthorised, CompletedIsTrue

\* A request that appears, or is cancelled while pending, is held by no caller
\* past the commit and has performed nothing.
LEMMA RowStep ==
  ASSUME NEW r \in RequestIds, GateInv, UNCHANGED <<proofs, pc, call, performed>>,
         requests[r].state \in {"free", "pending"},
         \A s \in RequestIds \ {r} : requests'[s] = requests[s],
         requests'[r].outcome = "none" \/ (requests[r] # Free /\ requests'[r].outcome = requests[r].outcome),
         trail \subseteq trail',
         \A s \in RequestIds : <<"completed", s>> \in trail' => <<"completed", s>> \in trail
  PROVE  Protocol'
<1>1. \A c \in Callers : Spent(c) => Id(c) \in RequestIds \ {r}
  BY DEF GateInv, SpentIsStored, Stored, CallsSigned, Spent, Id, Calls, Proofs
<1>2. CallsSigned' /\ SpentAlone'
  BY DEF GateInv, CallsSigned, SpentAlone, Spent, Id
<1>3. SpentIsStored'
  BY SMTT(60), ZenonT(60), <1>1 DEF GateInv, SpentIsStored, Stored, Spent, Id, BindingOf
<1>4. performed[r] = <<>>
  BY DEF GateInv, EffectAuthorised
<1>5. AtMostOneEffect' /\ EffectAuthorised'
  BY <1>4 DEF GateInv, AtMostOneEffect, EffectAuthorised
<1>6. CompletedIsTrue'
  BY DEF GateInv, CompletedIsTrue
<1>7. QED
  BY <1>2, <1>3, <1>5, <1>6 DEF Protocol

\* The transaction of consume hands a pending request to one caller, for the
\* action, the policy and the decision its proof names.
LEMMA CommitStep == ASSUME NEW c \in Callers, GateInv, Commit(c) PROVE Protocol'
<1> DEFINE r == Id(c)
<1>1. call[c] \in Calls /\ r \in RequestIds /\ call[c].proof \in proofs
  BY DEF GateInv, Commit, Redeemable, CallsSigned, Calls, Proofs, Id
<1>2. /\ requests[r].state = "pending" /\ requests[r] \in Rows
      /\ requests[r].binding = BindingOf(c)
  BY SMTT(60), ZenonT(60), <1>1 DEF GateInv, Commit, Redeemable, TypeOK, Rows, Free, Id
<1>3. \A d \in Callers : Spent(d) => Id(d) # r
  BY <1>2 DEF GateInv, SpentIsStored, Stored
<1>4. pc'[c] = "audit" /\ \A d \in Callers \ {c} : pc'[d] = pc[d]
  BY DEF GateInv, TypeOK, Commit, Redeemable, Goto
<1>5. /\ \A s \in RequestIds \ {r} : requests'[s] = requests[s]
      /\ requests'[r].binding = requests[r].binding
      /\ requests'[r].state = IF call[c].proof.decision = "approve" THEN "consumed" ELSE "denied"
      /\ requests'[r].outcome # "completed"
  BY <1>1, <1>2 DEF GateInv, TypeOK, Commit, Redeemable, Id, Rows
<1>6. performed[r] = <<>>
  BY <1>1, <1>2 DEF GateInv, EffectAuthorised
<1>7. CallsSigned'
  BY <1>4 DEF GateInv, CallsSigned, Commit, Redeemable, people
<1>8. \A d \in Callers : Id(d)' = Id(d) /\ BindingOf(d)' = BindingOf(d)
  BY DEF Commit, Redeemable, Id, BindingOf
<1>9. SpentAlone'
  BY <1>3, <1>4, <1>8 DEF GateInv, SpentAlone, Spent
<1>10. SpentIsStored'
  <2> SUFFICES ASSUME NEW d \in Callers, Spent(d)'
               PROVE  Stored(d)'
    BY DEF SpentIsStored
  <2>1. CASE d = c
    BY <2>1, <1>1, <1>2, <1>4, <1>5, <1>6, <1>8 DEF GateInv, CallsSigned, Stored, Commit, Redeemable, history
  <2>2. CASE d # c
    <3>1. Spent(d) /\ Stored(d) /\ Id(d) \in RequestIds \ {r}
      BY <2>2, <1>3, <1>4 DEF GateInv, CallsSigned, SpentIsStored, Spent, Calls, Proofs, Id
    <3>2. QED
      BY <3>1, <2>2, <1>4, <1>5, <1>8 DEF Stored, Commit, Redeemable, history
  <2>3. QED
    BY <2>1, <2>2
<1>11. UNCHANGED <<proofs, performed, trail>>
  BY DEF Commit, Redeemable, people, history
<1>12. AtMostOneEffect' /\ EffectAuthorised'
  BY <1>5, <1>6, <1>11 DEF GateInv, AtMostOneEffect, EffectAuthorised
<1>13. CompletedIsTrue'
  BY <1>5, <1>11 DEF GateInv, CompletedIsTrue
<1>14. QED
  BY <1>7, <1>9, <1>10, <1>12, <1>13 DEF Protocol

\* consume's audit record lets an approved caller on and sends a denied one away.
LEMMA AuditStep == ASSUME NEW c \in Callers, GateInv, Audit(c) PROVE Protocol'
<1>1. Spent(c) /\ Stored(c) /\ call[c] \in Calls /\ Id(c) \in RequestIds
  BY DEF GateInv, Audit, CallsSigned, SpentIsStored, Spent, Calls, Proofs, Id
<1>2. UNCHANGED <<requests, proofs, performed>> /\ trail \subseteq trail'
  BY DEF Audit, Record, db, people
<1>3. \A r \in RequestIds : <<"completed", r>> \in trail' => <<"completed", r>> \in trail
  BY DEF Audit, Record
<1>4. AtMostOneEffect' /\ EffectAuthorised' /\ CompletedIsTrue'
  BY <1>2, <1>3 DEF GateInv, AtMostOneEffect, EffectAuthorised, CompletedIsTrue
<1>5. \A d \in Callers \ {c} : pc'[d] = pc[d] /\ call'[d] = call[d]
  BY DEF GateInv, TypeOK, Audit, Leave, Goto
<1>6. \/ pc'[c] = "idle"
      \/ /\ pc'[c] = "recheck" /\ call' = call
         /\ call[c].proof.decision = "approve" /\ <<"consumed", Id(c)>> \in trail'
  BY DEF GateInv, TypeOK, Audit, Leave, Goto, Record
<1>7. \A d \in Callers : Spent(d)' => Spent(d) /\ Id(d)' = Id(d)
  BY <1>1, <1>5, <1>6 DEF Spent, Id
<1>8. CallsSigned' /\ SpentAlone'
  BY SMTT(60), ZenonT(60), <1>2, <1>5, <1>6, <1>7 DEF GateInv, CallsSigned, SpentAlone, Audit
<1>9. SpentIsStored'
  <2> SUFFICES ASSUME NEW d \in Callers, Spent(d)' PROVE Stored(d)'
    BY DEF SpentIsStored
  <2>1. CASE d = c
    <3>1. pc'[c] = "recheck"
      BY <2>1, <1>6 DEF Spent
    <3>2. QED
      BY <3>1, <2>1, <1>1, <1>2, <1>6 DEF Stored, BindingOf, Id, Audit
  <2>2. CASE d # c
    <3>1. Spent(d) /\ Stored(d) /\ Id(d)' = Id(d)
      BY <1>7 DEF GateInv, SpentIsStored
    <3>2. pc'[d] = pc[d] /\ call'[d] = call[d] /\ BindingOf(d)' = BindingOf(d)
      BY <2>2, <1>5 DEF BindingOf
    <3>3. requests' = requests /\ performed' = performed /\ trail \subseteq trail'
      BY <1>2
    <3>4. QED
      BY <3>1, <3>2, <3>3 DEF Stored
  <2>3. QED
    BY <2>1, <2>2
<1>10. QED
  BY <1>4, <1>8, <1>9 DEF Protocol

\* The effect: its caller owns a consumed request under which nothing ran yet.
LEMMA EffectStep == ASSUME NEW c \in Callers, GateInv, Effect(c) PROVE Protocol'
<1> DEFINE r == Id(c)
<1>1. Spent(c) /\ Stored(c) /\ call[c] \in Calls /\ call[c].proof \in proofs /\ r \in RequestIds
  BY DEF GateInv, Effect, CallsSigned, SpentIsStored, Spent, Calls, Proofs, Id
<1>2. UNCHANGED <<requests, proofs, trail>>
  BY DEF Effect, db, people
<1>3. /\ performed[r] = <<>> /\ requests[r].state = "consumed"
      /\ requests[r].binding = BindingOf(c) /\ <<"consumed", r>> \in trail
      /\ call[c].proof.decision = "approve"
  BY <1>1 DEF Effect, Stored
<1>4. performed'[r] = <<BindingOf(c)>> /\ \A s \in RequestIds \ {r} : performed'[s] = performed[s]
  BY <1>1, <1>3 DEF GateInv, TypeOK, Effect
<1>5. AtMostOneEffect' /\ CompletedIsTrue'
  <2>1. Len(<<BindingOf(c)>>) = 1 /\ <<BindingOf(c)>> # <<>>
    OBVIOUS
  <2>2. AtMostOneEffect'
    <3> SUFFICES ASSUME NEW s \in RequestIds PROVE Len(performed'[s]) <= 1
      BY DEF AtMostOneEffect
    <3>1. CASE s = r
      BY <3>1, <2>1, <1>4
    <3>2. CASE s # r
      BY <3>2, <1>4 DEF GateInv, AtMostOneEffect
    <3>3. QED
      BY <3>1, <3>2
  <2>3. CompletedIsTrue'
    BY <2>1, <1>1, <1>2, <1>4 DEF GateInv, CompletedIsTrue
  <2>4. QED
    BY <2>2, <2>3
<1>6. EffectAuthorised'
  <2> SUFFICES ASSUME NEW s \in RequestIds, performed'[s] # <<>>
               PROVE  /\ requests[s].state = "consumed"
                      /\ \A i \in DOMAIN performed'[s] : performed'[s][i] = requests[s].binding
                      /\ \E p \in proofs : p.id = s /\ p.decision = "approve"
                      /\ <<"consumed", s>> \in trail
    BY <1>2 DEF EffectAuthorised
  <2>1. CASE s = r
    <3>1. performed'[r] = <<BindingOf(c)>>
      BY <1>4
    <3>2. \A i \in DOMAIN performed'[r] : performed'[r][i] = BindingOf(c)
      BY <3>1
    <3>3. \E p \in proofs : p.id = r /\ p.decision = "approve"
      BY <1>1, <1>3 DEF Id
    <3>4. QED
      BY <2>1, <1>1, <1>3, <3>2, <3>3
  <2>2. CASE s # r
    BY SMTT(60), ZenonT(60), <2>2, <1>4 DEF GateInv, EffectAuthorised
  <2>3. QED
    BY <2>1, <2>2
<1>7. /\ pc'[c] \in {"done", "failed"}
      /\ call'[c] \in Calls /\ call'[c].proof = call[c].proof
      /\ BindingOf(c)' = BindingOf(c)
      /\ \A d \in Callers \ {c} : pc'[d] = pc[d] /\ call'[d] = call[d]
  <2>1. call' = call \/ call' = [call EXCEPT ![c].outcome = "completed"]
    BY DEF Effect
  <2>2. call'[c] = call[c] \/ call'[c] = [call[c] EXCEPT !.outcome = "completed"]
    BY <2>1 DEF GateInv, TypeOK
  <2>3. /\ call'[c] \in Calls /\ call'[c].proof = call[c].proof
        /\ call'[c].action = call[c].action /\ call'[c].policy = call[c].policy
    BY <1>1, <2>2 DEF Calls
  <2>4. \A d \in Callers \ {c} : call'[d] = call[d]
    BY <2>1 DEF GateInv, TypeOK
  <2>5. pc'[c] \in {"done", "failed"} /\ \A d \in Callers \ {c} : pc'[d] = pc[d]
    BY DEF GateInv, TypeOK, Effect, Goto
  <2>6. QED
    BY <2>3, <2>4, <2>5 DEF BindingOf
<1>8. \A d \in Callers : Id(d)' = Id(d) /\ (Spent(d)' => Spent(d))
  BY <1>1, <1>7 DEF Id, Spent
<1>9. CallsSigned' /\ SpentAlone'
  BY SMTT(60), ZenonT(60), <1>1, <1>2, <1>7, <1>8 DEF GateInv, CallsSigned, SpentAlone
<1>10. SpentIsStored'
  <2> SUFFICES ASSUME NEW d \in Callers, Spent(d)' PROVE Stored(d)'
    BY DEF SpentIsStored
  <2>1. CASE d = c
    <3>1. Id(c)' = r /\ BindingOf(c)' = BindingOf(c) /\ call'[c].proof = call[c].proof
      BY <1>7, <1>8
    <3>2. pc'[c] \notin {"audit", "recheck", "effect"}
      BY <1>7
    <3>3. performed'[r] # <<>>
      BY <1>4
    <3>4. Stored(c)'
      BY <3>1, <3>2, <3>3, <1>2, <1>3 DEF Stored
    <3>5. QED
      BY <3>4, <2>1
  <2>2. CASE d # c
    <3>1. Spent(d) /\ Stored(d) /\ Id(d) \in RequestIds \ {r}
      BY <2>2, <1>1, <1>8 DEF GateInv, CallsSigned, SpentIsStored, SpentAlone, Spent, Calls,
        Proofs, Id
    <3>2. QED
      BY <3>1, <2>2, <1>2, <1>4, <1>7, <1>8 DEF Stored, BindingOf
  <2>3. QED
    BY <2>1, <2>2
<1>11. QED
  BY <1>5, <1>6, <1>9, <1>10 DEF Protocol

\* finish audits an outcome: "completed" only for an effect that happened.
LEMMA OutcomeStep == ASSUME NEW c \in Callers, GateInv, AuditOutcome(c) PROVE Protocol'
<1>1. Spent(c) /\ Stored(c) /\ call[c] \in Calls /\ Id(c) \in RequestIds
  BY DEF GateInv, AuditOutcome, CallsSigned, SpentIsStored, Spent, Calls, Proofs, Id
<1>2. UNCHANGED <<requests, proofs, call, performed>> /\ trail \subseteq trail'
  BY DEF AuditOutcome, Record, db, people
<1>3. CompletedIsTrue'
  BY <1>1, <1>2 DEF GateInv, CompletedIsTrue, AuditOutcome, Record, Stored
<1>4. AtMostOneEffect' /\ EffectAuthorised'
  BY <1>2 DEF GateInv, AtMostOneEffect, EffectAuthorised
<1>5. pc'[c] = "update" /\ \A d \in Callers \ {c} : pc'[d] = pc[d]
  BY DEF GateInv, TypeOK, AuditOutcome, Goto
<1>6. \A d \in Callers : (Spent(d)' <=> Spent(d)) /\ Id(d)' = Id(d) /\ BindingOf(d)' = BindingOf(d)
  BY <1>1, <1>2, <1>5 DEF Spent, Id, BindingOf
<1>7. CallsSigned' /\ SpentAlone'
  BY <1>1, <1>2, <1>5, <1>6 DEF GateInv, CallsSigned, SpentAlone, AuditOutcome
<1>8. SpentIsStored'
  BY SMTT(60), ZenonT(60), <1>2, <1>5, <1>6 DEF GateInv, SpentIsStored, Stored, AuditOutcome
<1>9. QED
  BY <1>3, <1>4, <1>7, <1>8 DEF Protocol

\* finish stores the outcome it audited in a row that stays consumed.
LEMMA UpdateStep == ASSUME NEW c \in Callers, GateInv, Update(c) PROVE Protocol'
<1> DEFINE r == Id(c)
<1>1. Spent(c) /\ Stored(c) /\ call[c] \in Calls /\ r \in RequestIds
  BY DEF GateInv, Update, CallsSigned, SpentIsStored, Spent, Calls, Proofs, Id
<1>2. UNCHANGED <<proofs, performed, trail>>
  BY DEF Update, people, history
<1>3. requests[r] \in Rows /\ requests[r].state = "consumed"
  BY <1>1 DEF GateInv, TypeOK, Update, Stored, Free
<1>4. /\ \A s \in RequestIds : /\ requests'[s].state = requests[s].state
                               /\ requests'[s].binding = requests[s].binding
      /\ \A s \in RequestIds \ {r} : requests'[s] = requests[s]
      /\ requests'[r].outcome = call[c].outcome
  BY <1>1, <1>3 DEF GateInv, TypeOK, Update, Rows
<1>5. CompletedIsTrue'
  BY <1>1, <1>2, <1>4 DEF GateInv, CompletedIsTrue, Stored
<1>6. AtMostOneEffect' /\ EffectAuthorised'
  BY <1>2, <1>4 DEF GateInv, AtMostOneEffect, EffectAuthorised
<1>7. pc'[c] = "idle" /\ \A d \in Callers \ {c} : pc'[d] = pc[d] /\ call'[d] = call[d]
  BY DEF GateInv, TypeOK, Update, Leave, Goto
<1>8. \A d \in Callers : Spent(d)' =>
        d # c /\ Spent(d) /\ Id(d)' = Id(d) /\ Id(d) \in RequestIds /\ BindingOf(d)' = BindingOf(d)
  BY <1>7 DEF GateInv, CallsSigned, Spent, Id, BindingOf, Calls, Proofs
<1>9. CallsSigned'
  BY <1>2, <1>7 DEF GateInv, CallsSigned
<1>10. SpentAlone'
  BY <1>8 DEF GateInv, SpentAlone
<1>11. SpentIsStored'
  <2> SUFFICES ASSUME NEW d \in Callers, Spent(d)' PROVE Stored(d)'
    BY DEF SpentIsStored
  <2>1. d # c /\ Spent(d) /\ Id(d)' = Id(d) /\ Id(d) \in RequestIds /\ BindingOf(d)' = BindingOf(d)
    BY <1>8
  <2>2. Stored(d)
    BY <2>1 DEF GateInv, SpentIsStored
  <2>3. pc'[d] = pc[d] /\ call'[d] = call[d]
    BY <2>1, <1>7
  <2>4. QED
    BY <1>2, <1>4, <2>1, <2>2, <2>3 DEF Stored
<1>12. QED
  BY <1>5, <1>6, <1>9, <1>10, <1>11 DEF Protocol

\* A caller that opens a gate holds a proof and no request yet.
LEMMA OpenStep ==
  ASSUME NEW c \in Callers, NEW a \in Actions, NEW p \in proofs, GateInv, Open(c, a, p)
  PROVE  Protocol'
<1>1. UNCHANGED <<requests, proofs, performed, trail>>
  BY DEF Open, db, people, history
<1>2. pc'[c] = "read" /\ \A d \in Callers \ {c} : pc'[d] = pc[d] /\ call'[d] = call[d]
  BY DEF GateInv, TypeOK, Open, Goto
<1>3. call'[c] \in Calls /\ call'[c].proof = p /\ call'[c].outcome = "uncertain"
  BY DEF GateInv, TypeOK, Open, Calls
<1>4. CallsSigned'
  BY <1>1, <1>2, <1>3 DEF GateInv, CallsSigned
<1>5. \A d \in Callers : Spent(d)' => d # c /\ Spent(d) /\ Id(d)' = Id(d) /\ BindingOf(d)' = BindingOf(d)
  BY <1>2 DEF Spent, Id, BindingOf
<1>6. SpentAlone'
  BY <1>5 DEF GateInv, SpentAlone
<1>7. SpentIsStored'
  <2> SUFFICES ASSUME NEW d \in Callers, Spent(d)' PROVE Stored(d)'
    BY DEF SpentIsStored
  <2>1. Stored(d)
    BY <1>5 DEF GateInv, SpentIsStored
  <2>2. pc'[d] = pc[d] /\ call'[d] = call[d] /\ Id(d)' = Id(d) /\ BindingOf(d)' = BindingOf(d)
    BY <1>2, <1>5
  <2>3. QED
    BY <1>1, <2>1, <2>2 DEF Stored
<1>8. QED
  BY <1>1, <1>4, <1>6, <1>7 DEF GateInv, Protocol, AtMostOneEffect, EffectAuthorised, CompletedIsTrue

\* cancel settles a pending row; on any other it only adds its audit record.
LEMMA CancelStep == ASSUME NEW r \in RequestIds, GateInv, Cancel(r) PROVE Protocol'
<1>1. /\ UNCHANGED <<proofs, pc, call, performed>> /\ trail \subseteq trail'
      /\ \A s \in RequestIds : <<"completed", s>> \in trail' => <<"completed", s>> \in trail
  BY DEF Cancel, Record, people
<1>2. CASE requests[r].state = "pending"
  <2>1. requests[r] \in Rows
    BY <1>2 DEF GateInv, TypeOK, Free
  <2>2. /\ \A s \in RequestIds \ {r} : requests'[s] = requests[s]
        /\ requests'[r].outcome = requests[r].outcome
    BY <1>2, <2>1 DEF GateInv, TypeOK, Cancel, Rows
  <2>3. QED
    BY <1>1, <1>2, <2>2, RowStep DEF Cancel
<1>3. CASE requests[r].state # "pending"
  <2>1. requests' = requests
    BY <1>3 DEF Cancel
  <2>2. CallsSigned'
    BY <1>1 DEF GateInv, CallsSigned
  <2>3. SpentIsStored'
    BY <1>1, <2>1 DEF GateInv, SpentIsStored, Stored, Spent, Id, BindingOf
  <2>4. SpentAlone'
    BY <1>1 DEF GateInv, SpentAlone, Spent, Id
  <2>5. QED
    BY <1>1, <2>1, <2>2, <2>3, <2>4 DEF GateInv, Protocol, AtMostOneEffect, EffectAuthorised, CompletedIsTrue
<1>4. QED
  BY <1>2, <1>3

\* Every step of every actor keeps GateInv.
LEMMA NextGate == GateInv /\ [Next]_vars => GateInv'
<1> SUFFICES ASSUME GateInv, [Next]_vars PROVE Protocol'
  BY TypeStep DEF GateInv, Protocol
<1>0. Protocol
  BY DEF GateInv, Protocol
<1>1. ASSUME NEW a \in Actions, NEW r \in RequestIds, Request(a, r) PROVE Protocol'
  <2>1. /\ UNCHANGED <<proofs, pc, call, performed>> /\ trail \subseteq trail'
        /\ \A s \in RequestIds : <<"completed", s>> \in trail' => <<"completed", s>> \in trail
    BY <1>1 DEF Request, Record, people
  <2>2. CASE UNCHANGED requests
    BY <1>0, <2>1, <2>2, RecordStep
  <2>3. CASE ~UNCHANGED requests
    <3> DEFINE row == [state |-> "pending", binding |-> <<a, policy>>, issued |-> now,
                       expires |-> now + Ttl, outcome |-> "none"]
    <3>0. requests[r].state = "free" /\ requests' = [requests EXCEPT ![r] = row]
      BY SMTT(60), ZenonT(60), <1>1, <2>3 DEF Request, Free
    <3> HIDE DEF row
    <3>1. /\ requests[r].state = "free" /\ requests'[r] = row
          /\ \A s \in RequestIds \ {r} : requests'[s] = requests[s]
      BY <3>0 DEF GateInv, TypeOK
    <3>2. QED
      BY <2>1, <3>1, RowStep DEF row
  <2>4. QED
    BY <2>2, <2>3
<1>2. ASSUME NEW r \in RequestIds, Show(r) \/ HardwareRequest(r) PROVE Protocol'
  BY <1>0, <1>2, OutsideStep DEF Show, HardwareRequest, db, history
<1>3. ASSUME NEW r \in RequestIds, Sign(r) PROVE Protocol'
  BY <1>0, <1>3, OutsideStep DEF Sign, db, history
<1>4. ASSUME NEW r \in RequestIds, NEW decision \in {"approve", "deny"}, Press(r, decision)
      PROVE Protocol'
  BY <1>0, <1>4, OutsideStep DEF Press, db, history
<1>5. ASSUME NEW c \in Callers, Read(c) \/ Recheck(c) \/ Refuse(c) PROVE Protocol'
  <2>1. UNCHANGED <<requests, proofs, call, performed, trail>>
    BY <1>5 DEF Read, Recheck, Refuse, db, people, history
  <2>2. CASE Read(c)
    BY <2>1, <2>2, MoveStep DEF Read, Steps
  <2>3. CASE Recheck(c)
    BY <2>1, <2>3, MoveStep DEF Recheck, Steps
  <2>4. CASE Refuse(c)
    BY <2>1, <2>4, MoveStep DEF Refuse, Steps
  <2>5. QED
    BY <1>5, <2>2, <2>3, <2>4
<1>6. ASSUME NEW c \in Callers, Stop(c) PROVE Protocol'
  BY <1>6, LeaveStep DEF Stop, db, people, history
<1>7. ASSUME NEW t \in 0..MaxTime, SetClock(t) PROVE Protocol'
  BY <1>0, <1>7, OutsideStep DEF SetClock, db, people, history
<1>8. ASSUME NEW p \in Policies, ReplacePolicy(p) PROVE Protocol'
  BY <1>0, <1>8, OutsideStep DEF ReplacePolicy, db, people, history
<1>9. ASSUME NEW d \in Domains, Freeze(d) PROVE Protocol'
  BY <1>0, <1>9, OutsideStep DEF Freeze, db, people, history
<1>10. CASE UNCHANGED vars
  BY <1>0, <1>10, OutsideStep DEF vars, db, people, history
<1>11. QED
  BY <1>1, <1>2, <1>3, <1>4, <1>5, <1>6, <1>7, <1>8, <1>9, <1>10, OpenStep, CommitStep,
    AuditStep, EffectStep, OutcomeStep, UpdateStep, CancelStep DEF Next, CallerStep

\* GateInv holds in every reachable state.
THEOREM GateInvariant == Spec => []GateInv
BY InitGate, NextGate, PTL DEF Spec

\* The tables, locals and history stay well formed.
THEOREM GateTypes == Spec => []TypeOK
BY GateInvariant, PTL DEF GateInv

\* consume's transaction makes an approval good for at most one effect.
THEOREM OneEffectPerApproval == Spec => []AtMostOneEffect
BY GateInvariant, PTL DEF GateInv

\* No effect without a person's approval of exactly that action under exactly
\* that policy, consumed and audited first.
THEOREM EffectsAreAuthorised == Spec => []EffectAuthorised
BY GateInvariant, PTL DEF GateInv

\* finish never reports as completed an effect that did not happen.
THEOREM CompletedIsNoGuess == Spec => []CompletedIsTrue
BY GateInvariant, PTL DEF GateInv

\* Only Request, Commit, Update and Cancel write rows.
LEMMA RowsElsewhere ==
  ASSUME GateInv, [Next]_vars
  PROVE  \/ requests' = requests
         \/ \E a \in Actions, r \in RequestIds : Request(a, r)
         \/ \E c \in Callers : Commit(c) \/ Update(c)
         \/ \E r \in RequestIds : Cancel(r)
BY DEF Next, CallerStep, Show, HardwareRequest, Sign, Press, Open, Read, Audit, Recheck, Effect,
  Refuse, AuditOutcome, Stop, SetClock, ReplacePolicy, Freeze, vars, db

\* A spent, denied or cancelled request never becomes usable again and keeps
\* its binding.
THEOREM RequestsNeverReopen == Spec => NeverReopened
<1> DEFINE Kept == \A r \in RequestIds :
       requests[r] # Free =>
         /\ requests'[r].binding = requests[r].binding
         /\ requests[r].state # "pending" => requests'[r].state = requests[r].state
<1>1. ASSUME GateInv, [Next]_vars PROVE Kept
  <2> SUFFICES ASSUME NEW r \in RequestIds, requests[r] # Free
               PROVE  /\ requests'[r].binding = requests[r].binding
                      /\ requests[r].state # "pending" => requests'[r].state = requests[r].state
    OBVIOUS
  <2>0. requests[r] \in Rows
    BY <1>1 DEF GateInv, TypeOK
  <2>1. ASSUME NEW a \in Actions, NEW s \in RequestIds, Request(a, s)
        PROVE  requests'[r] = requests[r]
    BY <1>1, <2>1 DEF Request, GateInv, TypeOK
  <2>2. ASSUME NEW c \in Callers, Commit(c)
        PROVE  /\ requests'[r].binding = requests[r].binding
               /\ requests[r].state # "pending" => requests'[r] = requests[r]
    <3>1. call[c].proof.id \in RequestIds /\ requests[call[c].proof.id].state = "pending"
      BY <1>1, <2>2 DEF GateInv, CallsSigned, Commit, Redeemable, Id, Calls, Proofs
    <3>2. CASE r = call[c].proof.id
      BY <1>1, <2>0, <2>2, <3>1, <3>2 DEF Commit, Redeemable, GateInv, TypeOK, Rows
    <3>3. CASE r # call[c].proof.id
      BY <1>1, <2>2, <3>1, <3>3 DEF Commit, Redeemable, GateInv, TypeOK
    <3>4. QED
      BY <3>2, <3>3
  <2>3. ASSUME NEW c \in Callers, Update(c)
        PROVE  requests'[r].binding = requests[r].binding /\ requests'[r].state = requests[r].state
    BY <1>1, <2>0, <2>3 DEF Update, GateInv, TypeOK, Rows
  <2>4. ASSUME NEW s \in RequestIds, Cancel(s)
        PROVE  /\ requests'[r].binding = requests[r].binding
               /\ requests[r].state # "pending" => requests'[r] = requests[r]
    BY SMTT(60), ZenonT(60), <1>1, <2>0, <2>4 DEF Cancel, GateInv, TypeOK, Rows
  <2>5. QED
    BY <1>1, <2>1, <2>2, <2>3, <2>4, RowsElsewhere
<1>2. QED
  BY <1>1, GateInvariant, PTL DEF Spec, NeverReopened

\* Once a transaction has seen the clock at or past a request's expiry, no
\* later one spends that request, wherever the clock is set.
THEOREM ExpiryHolds == Spec => ExpiryIsFinal
<1> DEFINE Before == \A r \in RequestIds :
       requests[r].state = "pending" /\ requests'[r].state \in {"consumed", "denied"}
         => highwater < requests[r].expires
<1>1. ASSUME GateInv, [Next]_vars PROVE Before
  <2> SUFFICES ASSUME NEW r \in RequestIds, requests[r].state = "pending",
                      requests'[r].state \in {"consumed", "denied"}
               PROVE  highwater < requests[r].expires
    OBVIOUS
  <2>0. requests[r] \in Rows /\ highwater \in Nat /\ now \in Nat
    BY <1>1 DEF GateInv, TypeOK, Free
  <2>1. ASSUME NEW a \in Actions, NEW s \in RequestIds, Request(a, s) PROVE FALSE
    <3>1. CASE UNCHANGED requests
      BY <3>1
    <3>2. CASE ~UNCHANGED requests
      <4>1. r # s
        BY SMTT(60), ZenonT(60), <2>1 DEF Request, Free
      <4>2. requests'[r] = requests[r]
        BY <1>1, <2>1, <4>1 DEF Request, GateInv, TypeOK
      <4>3. QED
        BY <4>2
    <3>3. QED
      BY <3>1, <3>2
  <2>2. ASSUME NEW c \in Callers, Commit(c) PROVE highwater < requests[r].expires
    <3>1. call[c].proof.id \in RequestIds
      BY <1>1, <2>2 DEF GateInv, CallsSigned, Commit, Redeemable, Id, Calls, Proofs
    <3>2. r = call[c].proof.id
      BY <1>1, <2>2, <3>1 DEF Commit, Redeemable, GateInv, TypeOK
    <3>3. highwater <= now /\ now < requests[r].expires
      BY <2>2, <3>2 DEF Commit, Redeemable, Id, ObserveClock, InWindow
    <3>4. QED
      BY <2>0, <3>3 DEF Rows
  <2>3. ASSUME NEW c \in Callers, Update(c) PROVE FALSE
    BY <1>1, <2>0, <2>3 DEF Update, GateInv, TypeOK, Rows
  <2>4. ASSUME NEW s \in RequestIds, Cancel(s) PROVE FALSE
    <3>1. CASE UNCHANGED requests
      BY <3>1
    <3>2. CASE requests' = [requests EXCEPT ![s].state = "cancelled"]
      BY <1>1, <2>0, <3>2 DEF GateInv, TypeOK, Rows
    <3>3. QED
      BY <2>4, <3>1, <3>2 DEF Cancel
  <2>5. QED
    BY <1>1, <2>0, <2>1, <2>2, <2>3, <2>4, RowsElsewhere
<1>2. QED
  BY <1>1, GateInvariant, PTL DEF Spec, ExpiryIsFinal

\* The stored counter follows the device: it never falls and never overtakes it.
THEOREM DeviceOrder == Spec => AssertionsInOrder
<1>1. Init => DeviceInv
  BY DEF Init, DeviceInv
<1>2. ASSUME GateInv, DeviceInv, [Next]_vars
      PROVE  DeviceInv' /\ counter <= counter' /\ counter' <= pressed'
  <2>0. counter \in Nat /\ pressed \in Nat /\ \A p \in proofs : p.counter \in Nat
    BY <1>2 DEF GateInv, TypeOK, Proofs
  <2>1. ASSUME NEW c \in Callers, Commit(c)
        PROVE  UNCHANGED <<proofs, pressed>> /\ counter <= counter' /\ counter' <= pressed
    <3>1. call[c].proof \in proofs
      BY <1>2, <2>1 DEF GateInv, CallsSigned, Commit, Redeemable
    <3>2. call[c].proof.counter \in Nat /\ call[c].proof.counter <= pressed
      BY <1>2, <2>0, <3>1 DEF DeviceInv
    <3>3. UNCHANGED <<proofs, pressed>>
      BY <2>1 DEF Commit, people
    <3>4. counter' = counter \/ (counter < call[c].proof.counter /\ counter' = call[c].proof.counter)
      BY <2>1 DEF Commit, Redeemable, CounterAdvances
    <3>5. QED
      BY SMTT(60), ZenonT(60), <1>2, <2>0, <3>2, <3>3, <3>4 DEF DeviceInv
  <2>2. ASSUME NEW r \in RequestIds, NEW decision \in {"approve", "deny"}, Press(r, decision)
        PROVE  /\ counter' = counter /\ pressed' = pressed + 1
               /\ \A p \in proofs' : p \in proofs \/ p.counter = pressed + 1
    BY <2>2 DEF Press, db
  <2>3. ASSUME NEW r \in RequestIds, Sign(r)
        PROVE  UNCHANGED <<counter, pressed>> /\ \A p \in proofs' : p \in proofs \/ p.counter = 0
    BY SMTT(60), ZenonT(60), <2>3 DEF Sign, db
  <2>4. \/ UNCHANGED <<counter, pressed, proofs>>
        \/ \E c \in Callers : Commit(c)
        \/ \E r \in RequestIds : Sign(r) \/ \E decision \in {"approve", "deny"} : Press(r, decision)
    BY SMTT(60), ZenonT(60), <1>2 DEF Next, CallerStep, Request, Show, HardwareRequest, Open, Read, Audit, Recheck,
      Effect, Refuse, AuditOutcome, Update, Stop, Cancel, SetClock, ReplacePolicy, Freeze, vars,
      db, people
  <2>5. QED
    BY <1>2, <2>0, <2>1, <2>2, <2>3, <2>4 DEF DeviceInv
<1>3. QED
  BY <1>1, <1>2, GateInvariant, PTL DEF Spec, AssertionsInOrder
=============================================================================
