---------------------------- MODULE ApprovalGate ----------------------------
(***************************************************************************)
(* Human approval of consequential broker operations: ApprovalGate of      *)
(* approval.py, its SQLite tables, and the production dispatcher's         *)
(* _perform_broker_effect around it.  Callers are threads or processes     *)
(* that share the database; each one reads the request outside a           *)
(* transaction, verifies the signature, consumes the request in a BEGIN    *)
(* IMMEDIATE transaction, audits, rechecks policy and domain, performs the *)
(* effect and records an outcome.  Any step may raise and any caller may   *)
(* die between two steps.  A transaction that raises is rolled back, its   *)
(* clock update included: what it has audited is all that is left of it.   *)
(*                                                                         *)
(* A binding is the pair of the canonical action and the digest of the     *)
(* signed policy it was evaluated under.  Signatures are unforgeable: the  *)
(* proofs that verify are exactly those a person produced.                 *)
(***************************************************************************)
EXTENDS Integers, Sequences, FiniteSets

CONSTANTS
  Callers,     \* threads and processes that call the broker
  RequestIds,  \* the request records the database has room for
  Actions,     \* canonical consequential actions
  Domains,     \* security domains
  DomainOf,    \* the domain an action is dispatched from
  Policies,    \* digests of signed policy bundles
  Enrolled,    \* credentials a policy enrols: subsets of {"ssh", "hw"}
  Routine,     \* actions a policy lists as routine egress
  Ttl,         \* ttl_seconds
  MaxTime,     \* bound on the host clock
  MaxCounter   \* bound on the device's signature counter

ASSUME GateConstants ==
  /\ DomainOf \in [Actions -> Domains]
  /\ Enrolled \in [Policies -> SUBSET {"ssh", "hw"}]
  /\ Routine \in [Policies -> SUBSET Actions]
  /\ Ttl \in Nat \ {0}
  /\ MaxTime \in Nat
  /\ MaxCounter \in Nat

VARIABLES
  requests,   \* table requests
  highwater,  \* table clock
  counter,    \* table hardware_counters, for the one enrolled device
  proofs,     \* what people have signed
  pressed,    \* counter inside the device
  exported,   \* requests sent to the device
  policy,     \* digest of the policy bundle now on disk
  frozen,     \* domains frozen in the registry
  now,        \* the host's clock
  pc, call,   \* each caller's position and locals
  performed,  \* effects carried out under each request
  trail       \* audit events the ledger acknowledged, and what cancel reported

db == <<requests, highwater, counter>>
people == <<proofs, pressed, exported>>
world == <<policy, frozen, now>>
history == <<performed, trail>>
vars == <<db, people, world, pc, call, history>>

Binding == Actions \X Policies
Rows == [state : {"pending", "consumed", "denied", "cancelled"}, binding : Binding,
         issued : Nat, expires : Nat,
         outcome : {"none", "uncertain", "completed", "human-denied"}]
Free == [state |-> "free"]
Proofs == [id : RequestIds, credential : {"ssh", "hw"},
           decision : {"approve", "deny"}, counter : Nat]
Calls == [proof : Proofs, action : Actions, policy : Policies,
          outcome : {"uncertain", "completed"}]
NoCall == [returned |-> TRUE]
Events == {"requested", "consumed", "denied", "cancelled", "completed", "uncertain", "reported"}
Steps == {"idle", "read", "commit", "audit", "recheck", "effect", "done", "failed", "update"}

TypeOK ==
  /\ requests \in [RequestIds -> Rows \cup {Free}]
  /\ highwater \in Nat
  /\ counter \in Nat
  /\ proofs \in SUBSET Proofs
  /\ pressed \in Nat
  /\ exported \in SUBSET ({"ssh", "hw"} \X RequestIds)
  /\ policy \in Policies
  /\ frozen \in SUBSET Domains
  /\ now \in Nat
  /\ pc \in [Callers -> Steps]
  /\ call \in [Callers -> Calls \cup {NoCall}]
  /\ performed \in [RequestIds -> Seq(Binding)]
  /\ trail \in SUBSET (Events \X RequestIds)

Init ==
  /\ requests = [r \in RequestIds |-> Free]
  /\ highwater = 0
  /\ counter = 0
  /\ proofs = {}
  /\ pressed = 0
  /\ exported = {}
  /\ policy \in Policies
  /\ frozen = {}
  /\ now = 0
  /\ pc = [c \in Callers |-> "idle"]
  /\ call = [c \in Callers |-> NoCall]
  /\ performed = [r \in RequestIds |-> <<>>]
  /\ trail = {}

Goto(c, step) == pc' = [pc EXCEPT ![c] = step]
Leave(c) == Goto(c, "idle") /\ call' = [call EXCEPT ![c] = NoCall]
Record(event, r) == trail' = trail \cup {<<event, r>>}
Id(c) == call[c].proof.id
BindingOf(c) == <<call[c].action, call[c].policy>>

\* _now refuses a clock behind the stored high-water mark and advances the
\* mark inside the caller's transaction
ObserveClock == highwater <= now /\ highwater' = now

InWindow(row) == row.issued <= now /\ now < row.expires

\* consume without a proof, then request: the audit record precedes the row,
\* both inside one transaction, and ApprovalRequired carries the request away.
\* Death between the two leaves the record and no row.
Request(a, r) ==
  /\ a \notin Routine[policy]
  /\ requests[r] = Free
  /\ highwater <= now
  /\ Record("requested", r)
  /\ \/ /\ ObserveClock
        /\ requests' = [requests EXCEPT ![r] =
             [state |-> "pending", binding |-> <<a, policy>>, issued |-> now,
              expires |-> now + Ttl, outcome |-> "none"]]
     \/ UNCHANGED <<requests, highwater>>
  /\ UNCHANGED <<counter, people, world, pc, call, performed>>

\* bull approval show --output
Show(r) ==
  /\ requests[r].state = "pending"
  /\ exported' = exported \cup {<<"ssh", r>>}
  /\ UNCHANGED <<db, proofs, pressed, world, pc, call, history>>

\* bull approval hardware-request
HardwareRequest(r) ==
  /\ "hw" \in Enrolled[policy]
  /\ requests[r].state = "pending"
  /\ requests[r].binding[2] = policy
  /\ InWindow(requests[r])
  /\ ObserveClock
  /\ exported' = exported \cup {<<"hw", r>>}
  /\ UNCHANGED <<requests, counter, proofs, pressed, world, pc, call, history>>

\* A person signs an exported request with an SSH security key, on a machine
\* whose clock, which decides whether the request looks expired, is not the host's
Sign(r) ==
  /\ <<"ssh", r>> \in exported
  /\ proofs' = proofs \cup {[id |-> r, credential |-> "ssh",
                             decision |-> "approve", counter |-> 0]}
  /\ UNCHANGED <<db, pressed, exported, world, pc, call, history>>

\* A person answers on the device, which counts every assertion it signs
Press(r, decision) ==
  /\ <<"hw", r>> \in exported
  /\ pressed < MaxCounter
  /\ pressed' = pressed + 1
  /\ proofs' = proofs \cup {[id |-> r, credential |-> "hw",
                             decision |-> decision, counter |-> pressed + 1]}
  /\ UNCHANGED <<db, exported, world, pc, call, history>>

\* _perform_broker_effect opens a gate on the policy it reads now.  Routine
\* egress does not come this way: it runs without a request.
Open(c, a, p) ==
  /\ pc[c] = "idle"
  /\ a \notin Routine[policy]
  /\ p.credential \in Enrolled[policy]
  /\ call' = [call EXCEPT ![c] = [proof |-> p, action |-> a, policy |-> policy,
                                  outcome |-> "uncertain"]]
  /\ Goto(c, "read")
  /\ UNCHANGED <<db, people, world, history>>

\* The first read of the row, outside any transaction, and the signature
Read(c) ==
  /\ pc[c] = "read"
  /\ requests[Id(c)].state = "pending"
  /\ requests[Id(c)].binding = BindingOf(c)
  /\ Goto(c, "commit")
  /\ UNCHANGED <<db, people, world, call, history>>

CounterAdvances(c) ==
  call[c].proof.credential = "hw" => counter < call[c].proof.counter

\* Mutant: the row is not read again inside the transaction.
StaleRead(c) ==
  /\ requests[Id(c)].binding = BindingOf(c)
  /\ InWindow(requests[Id(c)])
  /\ CounterAdvances(c)

\* consume's second look at the row, inside the transaction
Redeemable(c) ==
  /\ requests[Id(c)].state = "pending"
  /\ requests[Id(c)].binding = BindingOf(c)
  /\ InWindow(requests[Id(c)])
  /\ CounterAdvances(c)

StateAfter(decision) == IF decision = "approve" THEN "consumed" ELSE "denied"

\* BEGIN IMMEDIATE ... COMMIT of consume
Commit(c) ==
  LET p == call[c].proof IN
  /\ pc[c] = "commit"
  /\ ObserveClock
  /\ Redeemable(c)
  /\ counter' = IF p.credential = "hw" THEN p.counter ELSE counter
  /\ requests' = [requests EXCEPT
       ![p.id].state = StateAfter(p.decision),
       ![p.id].outcome = IF p.decision = "approve" THEN "uncertain" ELSE "human-denied"]
  /\ Goto(c, "audit")
  /\ UNCHANGED <<people, world, call, history>>

\* Mutant: the effect does not wait for the ledger.
AuditBestEffort(c) ==
  /\ pc[c] = "audit"
  /\ call[c].proof.decision = "approve"
  /\ Goto(c, "recheck")
  /\ UNCHANGED <<db, people, world, call, history>>

\* consume's audit record; a denial then raises
Audit(c) ==
  /\ pc[c] = "audit"
  /\ \/ /\ call[c].proof.decision = "approve"
        /\ Record("consumed", Id(c))
        /\ Goto(c, "recheck")
        /\ UNCHANGED call
     \/ /\ call[c].proof.decision = "deny"
        /\ Record("denied", Id(c))
        /\ Leave(c)
  /\ UNCHANGED <<db, people, world, performed>>

\* Trusted state, policy digest and domain are read again before the effect
Recheck(c) ==
  /\ pc[c] = "recheck"
  /\ policy = call[c].policy
  /\ DomainOf[call[c].action] \notin frozen
  /\ Goto(c, "effect")
  /\ UNCHANGED <<db, people, world, call, history>>

\* The effect happens; the broker may still raise afterwards
Effect(c) ==
  /\ pc[c] = "effect"
  /\ performed' = [performed EXCEPT ![Id(c)] = Append(@, BindingOf(c))]
  /\ \/ /\ Goto(c, "done")
        /\ call' = [call EXCEPT ![c].outcome = "completed"]
     \/ /\ Goto(c, "failed")
        /\ UNCHANGED call
  /\ UNCHANGED <<db, people, world, trail>>

\* A failed recheck, or an effect that raises before it happens
Refuse(c) ==
  /\ pc[c] \in {"recheck", "effect"}
  /\ Goto(c, "failed")
  /\ UNCHANGED <<db, people, world, call, history>>

\* finish: the outcome is audited, then stored
AuditOutcome(c) ==
  /\ pc[c] \in {"done", "failed"}
  /\ Record(call[c].outcome, Id(c))
  /\ Goto(c, "update")
  /\ UNCHANGED <<db, people, world, call, performed>>

Update(c) ==
  /\ pc[c] = "update"
  /\ requests' = IF requests[Id(c)].state = "consumed"
                 THEN [requests EXCEPT ![Id(c)].outcome = call[c].outcome]
                 ELSE requests
  /\ Leave(c)
  /\ UNCHANGED <<highwater, counter, people, world, history>>

\* An exception that nothing handles (a refused check, a ledger that raises,
\* a busy database) or the death of the caller: locals are gone, rows stay
Stop(c) ==
  /\ pc[c] # "idle"
  /\ Leave(c)
  /\ UNCHANGED <<db, people, world, history>>

\* bull approval cancel: audits, updates the row if it is pending, and reports.
\* Death between the two leaves the record alone.
Cancel(r) ==
  /\ requests[r] # Free
  /\ \/ /\ trail' = trail \cup {<<"cancelled", r>>, <<"reported", r>>}
        /\ requests' = IF requests[r].state = "pending"
                       THEN [requests EXCEPT ![r].state = "cancelled"]
                       ELSE requests
     \/ Record("cancelled", r) /\ UNCHANGED requests
  /\ UNCHANGED <<highwater, counter, people, world, pc, call, performed>>

\* The host's clock runs, or is set to any value
SetClock(t) == now' = t /\ UNCHANGED <<db, people, policy, frozen, pc, call, history>>

ReplacePolicy(p) == policy' = p /\ UNCHANGED <<db, people, frozen, now, pc, call, history>>

Freeze(d) ==
  /\ frozen' = frozen \cup {d}
  /\ UNCHANGED <<db, people, policy, now, pc, call, history>>

CallerStep(c) ==
  \/ Read(c) \/ Commit(c) \/ Audit(c) \/ Recheck(c) \/ Effect(c)
  \/ Refuse(c) \/ AuditOutcome(c) \/ Update(c) \/ Stop(c)

Next ==
  \/ \E c \in Callers : CallerStep(c) \/ \E a \in Actions, p \in proofs : Open(c, a, p)
  \/ \E r \in RequestIds :
       \/ \E a \in Actions : Request(a, r)
       \/ Show(r) \/ HardwareRequest(r) \/ Sign(r) \/ Cancel(r)
       \/ \E decision \in {"approve", "deny"} : Press(r, decision)
  \/ \E t \in 0..MaxTime : SetClock(t)
  \/ \E p \in Policies : ReplacePolicy(p)
  \/ \E d \in Domains : Freeze(d)

Spec == Init /\ [][Next]_vars

-----------------------------------------------------------------------------
Spent(c) == pc[c] \in {"audit", "recheck", "effect", "done", "failed", "update"}

\* An approved request authorises at most one effect, however many callers
\* hold its proof, whatever raises, and across restarts: consume re-reads the
\* row inside the transaction that spends it.
AtMostOneEffect == \A r \in RequestIds : Len(performed[r]) <= 1

\* Every effect is one a person approved: the request it ran under is
\* consumed, names exactly that action and policy, has an approving proof,
\* and its consumption was audited before the effect (SECURITY_CLAIMS.md:
\* missing required approval audit prevents effect).
EffectAuthorised ==
  \A r \in RequestIds : performed[r] # <<>> =>
    /\ requests[r].state = "consumed"
    /\ \A i \in DOMAIN performed[r] : performed[r][i] = requests[r].binding
    /\ \E p \in proofs : p.id = r /\ p.decision = "approve"
    /\ <<"consumed", r>> \in trail

\* A stored or audited "completed" is never a guess: the effect happened.
CompletedIsTrue ==
  \A r \in RequestIds :
    (\/ requests[r] # Free /\ requests[r].outcome = "completed"
     \/ <<"completed", r>> \in trail)
    => performed[r] # <<>>

\* Neither a retry nor a restart makes a request usable again
\* (HUMAN_APPROVAL.md: neither restores it to pending), and what a request
\* is bound to never changes.
NeverReopened ==
  [][\A r \in RequestIds :
       requests[r] # Free =>
         /\ requests'[r].binding = requests[r].binding
         /\ requests[r].state # "pending" => requests'[r].state = requests[r].state]_vars

\* A request is spent only before the latest time any transaction has seen
\* reaches its expiry, even when the clock is set back.
ExpiryIsFinal ==
  [][\A r \in RequestIds :
       requests[r].state = "pending" /\ requests'[r].state \in {"consumed", "denied"}
         => highwater < requests[r].expires]_vars

\* Device assertions are accepted in the order the device made them: when two
\* callers hold assertions, the older one is dead once the newer one has been
\* spent, and the stored counter never runs ahead of the device's own.
AssertionsInOrder == [][counter <= counter' /\ counter' <= pressed']_vars

\* What makes the three invariants above inductive: a caller past the commit
\* owns its request alone, the row records what that caller is doing, and
\* nothing has been performed until it performs it.
CallsSigned ==
  \A c \in Callers : pc[c] # "idle" =>
    /\ call[c] \in Calls
    /\ call[c].proof \in proofs
    /\ pc[c] \in {"read", "commit"} => call[c].outcome = "uncertain"

Stored(c) ==
  /\ requests[Id(c)].binding = BindingOf(c)
  /\ requests[Id(c)].state = StateAfter(call[c].proof.decision)
  /\ pc[c] # "audit" => /\ call[c].proof.decision = "approve"
                        /\ <<"consumed", Id(c)>> \in trail
  /\ pc[c] \in {"audit", "recheck", "effect"} => performed[Id(c)] = <<>>
  /\ call[c].outcome = "completed" => performed[Id(c)] # <<>>

SpentIsStored == \A c \in Callers : Spent(c) => Stored(c)

SpentAlone ==
  \A c, d \in Callers : Spent(c) /\ Spent(d) /\ Id(c) = Id(d) => c = d

GateInv ==
  /\ TypeOK
  /\ CallsSigned
  /\ SpentIsStored
  /\ SpentAlone
  /\ AtMostOneEffect
  /\ EffectAuthorised
  /\ CompletedIsTrue

\* No assertion counts beyond the device that made it.
DeviceInv == counter <= pressed /\ \A p \in proofs : p.counter <= pressed

\* bull approval cancel reports "Approval request cancelled; no action
\* executed." for every request it is given (approval_cli.py).
CancelledMeansNoAction ==
  \A r \in RequestIds : <<"reported", r>> \in trail => performed[r] = <<>>
=============================================================================
