---------------------------- MODULE SecretBroker ----------------------------
(***************************************************************************)
(* SecretBroker of secret_broker.py and the scoped grants of its subclass  *)
(* HardenedSecretBroker (broker_hardening.py).  Grants are tokens in a     *)
(* table under a lock; a request is checked and counted under the lock and *)
(* reported to the trace verifier, which has none, after it: several       *)
(* threads can be between the two.  A token is known to callers only once  *)
(* issue_grant has returned it.  The wall clock may be set back.           *)
(***************************************************************************)
EXTENDS TraceVerifier, Naturals, FiniteSets

CONSTANTS
  Tokens,     \* secrets.token_urlsafe: each is issued once
  Sandboxes,  \* sandbox or domain identities
  Names,      \* names put_secret has stored
  MaxUses,    \* bound on max_uses
  MaxTime,    \* bound on the clock
  MaxCount,   \* bound on the uses of a grant without a limit
  Anyone,     \* sandbox_id None: the grant is not bound
  NoLimit     \* max_uses None

ASSUME BrokerConstants ==
  /\ MaxUses \in Nat
  /\ MaxTime \in Nat
  /\ MaxCount \in Nat
  /\ Anyone \notin Sandboxes
  /\ NoLimit \notin Nat

Unused == [kind |-> "unused"]

VARIABLES
  grants,    \* _grants and _scoped; Unused before a token is drawn
  gone,      \* tokens popped from _grants
  known,     \* tokens issue_grant has returned to a caller
  now,       \* time.time()
  work,      \* what each thread is doing between two steps
  handed,    \* secrets handed over under each token
  dead       \* tokens whose revocation, or found expiry, has completed

brokerVars == <<trace, read, grants, gone, known, now, work, handed, dead>>

Idle == [step |-> "idle"]

Init ==
  /\ TraceInit
  /\ grants = [k \in Tokens |-> Unused]
  /\ gone = {}
  /\ known = {}
  /\ now = 0
  /\ work = [t \in Callers |-> Idle]
  /\ handed = [k \in Tokens |-> 0]
  /\ dead = {}

\* issue_grant, first half: the grant is stored under the lock.
Issue(t, k, g) ==
  /\ work[t] = Idle
  /\ grants[k] = Unused
  /\ g.kind = "plain" /\ g.expires > now
  /\ grants' = [grants EXCEPT ![k] = g]
  /\ work' = [work EXCEPT ![t] = [step |-> "issued", token |-> k]]
  /\ UNCHANGED <<traceVars, gone, known, now, handed, dead>>

\* emit reads the verifier's state.
ReadTrace(t) ==
  /\ work[t].step \in {"issued", "counted"}
  /\ BeginEmit(t)
  /\ UNCHANGED <<grants, gone, known, now, work, handed, dead>>

\* issue_grant, second half: the event, then the grant is returned; if the
\* verifier rejects the event the grant stays stored and nobody gets it.
IssueEmit(t) ==
  /\ work[t].step = "issued"
  /\ work' = [work EXCEPT ![t] = Idle]
  /\ \/ Emit(t, Event("GrantSecret")) /\ known' = known \cup {work[t].token}
     \/ Rejected(t, Event("GrantSecret")) /\ UNCHANGED known
  /\ UNCHANGED <<grants, gone, now, handed, dead>>

\* issue_scoped_grant: one step, no event.
IssueScoped(t, k, g) ==
  /\ work[t] = Idle
  /\ grants[k] = Unused
  /\ g.kind = "scoped" /\ g.limit # NoLimit /\ g.sandbox # Anyone
  /\ grants' = [grants EXCEPT ![k] = g]
  /\ known' = known \cup {k}
  /\ UNCHANGED <<traceVars, gone, now, work, handed, dead>>

\* revoke pops the grant, revoke_scoped marks it.
Revoke(k) ==
  /\ k \in known
  /\ IF grants[k].kind = "plain"
     THEN gone' = gone \cup {k} /\ UNCHANGED grants
     ELSE grants' = [grants EXCEPT ![k].revoked = TRUE] /\ UNCHANGED gone
  /\ dead' = dead \cup {k}
  /\ UNCHANGED <<traceVars, known, now, work, handed>>

Expired(k) == now > grants[k].expires

RightSandbox(k, sandbox) == grants[k].sandbox \in {Anyone, sandbox}

UsesLeft(k) == grants[k].limit # NoLimit => grants[k].uses < grants[k].limit

\* The checks of _authorize_and_get and get_scoped that follow the expiry.
Admits(k, sandbox, name) ==
  /\ ~Expired(k)
  /\ RightSandbox(k, sandbox)
  /\ name \in grants[k].names
  /\ UsesLeft(k)
  /\ grants[k].uses < MaxCount

\* Mutant: the use is counted after the lock is released.
AuthorizeUncounted(t, k, sandbox, name) ==
  /\ work[t] = Idle
  /\ k \in known \ gone
  /\ grants[k].kind = "plain"
  /\ Admits(k, sandbox, name)
  /\ work' = [work EXCEPT ![t] =
       [step |-> "counted", token |-> k, sandbox |-> sandbox, name |-> name]]
  /\ UNCHANGED <<traceVars, grants, gone, known, now, handed, dead>>

\* _authorize_and_get under the lock: checked and counted.
Authorize(t, k, sandbox, name) ==
  /\ work[t] = Idle
  /\ k \in known \ gone
  /\ grants[k].kind = "plain"
  /\ Admits(k, sandbox, name)
  /\ grants' = [grants EXCEPT ![k].uses = @ + 1]
  /\ work' = [work EXCEPT ![t] =
       [step |-> "counted", token |-> k, sandbox |-> sandbox, name |-> name]]
  /\ UNCHANGED <<traceVars, gone, known, now, handed, dead>>

\* Mutant: an expired grant is refused and kept.
KeepExpired(k) == UNCHANGED gone

\* An expired grant is popped as well as refused.
PopExpired(k) == gone' = gone \cup {k}

RefuseExpired(t, k) ==
  /\ work[t] = Idle
  /\ k \in known \ gone
  /\ grants[k].kind = "plain"
  /\ Expired(k)
  /\ PopExpired(k)
  /\ dead' = dead \cup {k}
  /\ UNCHANGED <<traceVars, grants, known, now, work, handed>>

\* Mutant: the value goes out although the verifier rejected the event.
ReturnAnyway(t) ==
  /\ work[t].step = "counted"
  /\ work' = [work EXCEPT ![t] = Idle]
  /\ Emit(t, Event("ReturnSecret")) \/ Rejected(t, Event("ReturnSecret"))
  /\ handed' = [handed EXCEPT ![work[t].token] = @ + 1]
  /\ UNCHANGED <<grants, gone, known, now, dead>>

\* After the lock: the event, then the value; a rejected event becomes the
\* error the client sees, with the use already counted.
ReturnSecret(t) ==
  /\ work[t].step = "counted"
  /\ work' = [work EXCEPT ![t] = Idle]
  /\ \/ /\ Emit(t, Event("ReturnSecret"))
        /\ handed' = [handed EXCEPT ![work[t].token] = @ + 1]
     \/ Rejected(t, Event("ReturnSecret")) /\ UNCHANGED handed
  /\ UNCHANGED <<grants, gone, known, now, dead>>

\* get_scoped: checked and counted under the lock, returned after it.
GetScoped(t, k, sandbox, name) ==
  /\ work[t] = Idle
  /\ k \in known
  /\ grants[k].kind = "scoped"
  /\ ~grants[k].revoked
  /\ Admits(k, sandbox, name)
  /\ grants' = [grants EXCEPT ![k].uses = @ + 1]
  /\ handed' = [handed EXCEPT ![k] = @ + 1]
  /\ UNCHANGED <<traceVars, gone, known, now, work, dead>>

SetClock ==
  /\ now' \in 0..MaxTime
  /\ UNCHANGED <<traceVars, grants, gone, known, work, handed, dead>>

\* What issue_grant and issue_scoped_grant can build.
FreshGrants ==
  [kind : {"plain", "scoped"}, names : SUBSET Names,
   sandbox : Sandboxes \cup {Anyone}, expires : 0..MaxTime,
   limit : (1..MaxUses) \cup {NoLimit}, uses : {0}, revoked : {FALSE}]

Next ==
  \/ \E t \in Callers, k \in Tokens :
       \/ \E g \in FreshGrants : Issue(t, k, g) \/ IssueScoped(t, k, g)
       \/ \E s \in Sandboxes, n \in Names : Authorize(t, k, s, n) \/ GetScoped(t, k, s, n)
       \/ RefuseExpired(t, k)
  \/ \E t \in Callers : ReadTrace(t) \/ IssueEmit(t) \/ ReturnSecret(t)
  \/ \E k \in Tokens : Revoke(k)
  \/ SetClock

Spec == Init /\ [][Next]_brokerVars

-----------------------------------------------------------------------------
Issued == {k \in Tokens : grants[k] # Unused}

\* A grant hands over no more secrets than it has counted uses, and counts no
\* more than max_uses, however many threads are between the lock and the reply.
UsesWithinLimit ==
  \A k \in Issued :
    /\ handed[k] <= grants[k].uses
    /\ grants[k].limit # NoLimit => grants[k].uses <= grants[k].limit

\* After revoke has returned, or a plain grant was found expired, no use of
\* the grant begins any more, not even when the clock is set back.
DeadStaysDead ==
  [][\A k \in dead : grants'[k].uses = grants[k].uses]_brokerVars

-----------------------------------------------------------------------------
(* Why these hold: what the table, the threads and the histories have to do *)
(* with each other at every moment.                                         *)
Grant ==
  [kind : {"plain", "scoped"}, names : SUBSET Names,
   sandbox : Sandboxes \cup {Anyone}, expires : 0..MaxTime,
   limit : (1..MaxUses) \cup {NoLimit}, uses : Nat, revoked : BOOLEAN]

Work ==
  {Idle} \cup [step : {"issued"}, token : Tokens]
         \cup [step : {"counted"}, token : Tokens, sandbox : Sandboxes, name : Names]

TypeOK ==
  /\ trace \in BullTraceState
  /\ read \in [Callers -> BullTraceState \cup {Unread}]
  /\ grants \in [Tokens -> Grant \cup {Unused}]
  /\ gone \subseteq Tokens /\ known \subseteq Issued
  /\ work \in [Callers -> Work]
  /\ handed \in [Tokens -> Nat]
  /\ dead \subseteq known

\* The threads that have been counted under a token and not yet answered.
Pending(k) == {t \in Callers : work[t].step = "counted" /\ work[t].token = k}

\* Every use that was counted is handed over, pending, or lost to the verifier;
\* a thread between the lock and the reply holds a token that was issued.
UsesAccounted ==
  /\ \A k \in Tokens : IsFiniteSet(Pending(k))
  /\ \A k \in Issued :
       /\ handed[k] + Cardinality(Pending(k)) <= grants[k].uses
       /\ grants[k].limit # NoLimit => grants[k].uses <= grants[k].limit
  /\ \A k \in Tokens \ Issued : handed[k] = 0
  /\ \A t \in Callers : work[t].step = "issued" => work[t].token \in Issued
  /\ \A t \in Callers :
       work[t].step = "counted" =>
         work[t].token \in Issued /\ grants[work[t].token].kind = "plain"

\* A dead grant can no longer be found in the table, or is marked in it.
DeadIsClosed ==
  \A k \in dead :
    /\ grants[k].kind = "plain" => k \in gone
    /\ grants[k].kind = "scoped" => grants[k].revoked

BrokerInv == TypeOK /\ UsesAccounted /\ DeadIsClosed
=============================================================================
