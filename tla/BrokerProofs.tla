---------------------------- MODULE BrokerProofs ----------------------------
(***************************************************************************)
(* The secret broker hands a secret over within the limit of its grant and *)
(* never under a dead one, for any number of callers, tokens and grants;   *)
(* while requests do not overlap its trace says what it did.  A use is     *)
(* counted under the lock and handed over after it, so that the uses that  *)
(* are counted and not yet handed over have to be accounted for.           *)
(***************************************************************************)
EXTENDS MCSecretBroker, FiniteSetTheorems, TLAPS

-----------------------------------------------------------------------------
\* GrantSecret leaves whether a secret was returned.
LEMMA GrantEvent ==
  ASSUME NEW s \in BullTraceState
  PROVE  /\ After(s, Event("GrantSecret")) \in BullTraceState
         /\ After(s, Event("GrantSecret")).secret_returned = s.secret_returned
<1>1. After(s, Event("GrantSecret")) = [s EXCEPT !.secret_granted = TRUE]
  BY DEF After, Event
<1>. QED
  BY <1>1, Zenon DEF BullTraceState

\* ReturnSecret is accepted once, and remembered.
LEMMA ReturnEvent ==
  ASSUME NEW s \in BullTraceState
  PROVE  /\ After(s, Event("ReturnSecret")) \in BullTraceState
         /\ After(s, Event("ReturnSecret")).secret_returned
         /\ Accepts(s, Event("ReturnSecret")) => ~s.secret_returned
<1>1. After(s, Event("ReturnSecret")) = [s EXCEPT !.secret_returned = TRUE]
  BY DEF After, Event
<1>2. Accepts(s, Event("ReturnSecret")) => ~s.secret_returned
  BY DEF Accepts, Legal, Event
<1>. QED
  BY <1>1, <1>2, Zenon DEF BullTraceState

\* Counting a use of one grant changes nothing else in the table.
LEMMA CountedUse ==
  ASSUME TypeOK, NEW k \in Issued, grants' = [grants EXCEPT ![k].uses = @ + 1]
  PROVE  /\ grants' \in [Tokens -> Grant \cup {Unused}]
         /\ grants'[k].uses = grants[k].uses + 1
         /\ grants'[k].kind = grants[k].kind
         /\ grants'[k].limit = grants[k].limit
         /\ grants'[k].revoked = grants[k].revoked
         /\ \A j \in Tokens \ {k} : grants'[j] = grants[j]
         /\ Issued' = Issued
<1>. DEFINE g == [grants[k] EXCEPT !.uses = @ + 1]
<1>1. k \in Tokens /\ grants[k] \in Grant
  BY DEF TypeOK, Issued
<1>2. /\ g \in Grant
      /\ g.uses = grants[k].uses + 1
      /\ g.kind = grants[k].kind
      /\ g.limit = grants[k].limit
      /\ g.revoked = grants[k].revoked
  BY <1>1 DEF Grant
<1>3. grants' = [grants EXCEPT ![k] = g]
  OBVIOUS
<1>. HIDE DEF g
<1>4. grants'[k] = g /\ \A j \in Tokens \ {k} : grants'[j] = grants[j]
  BY <1>1, <1>3 DEF TypeOK
<1>5. g # Unused
  BY <1>2 DEF Grant, Unused
<1>6. Issued' = Issued
  BY <1>1, <1>3, <1>4, <1>5 DEF TypeOK, Issued
<1>. QED
  BY <1>1, <1>2, <1>3, <1>4, <1>6 DEF TypeOK

\* Revoking one scoped grant changes nothing else in the table.
LEMMA MarkedRevoked ==
  ASSUME TypeOK, NEW k \in Issued, grants' = [grants EXCEPT ![k].revoked = TRUE]
  PROVE  /\ grants' \in [Tokens -> Grant \cup {Unused}]
         /\ grants'[k].uses = grants[k].uses
         /\ grants'[k].kind = grants[k].kind
         /\ grants'[k].limit = grants[k].limit
         /\ grants'[k].revoked
         /\ \A j \in Tokens \ {k} : grants'[j] = grants[j]
         /\ Issued' = Issued
<1>. DEFINE g == [grants[k] EXCEPT !.revoked = TRUE]
<1>1. k \in Tokens /\ grants[k] \in Grant
  BY DEF TypeOK, Issued
<1>2. /\ g \in Grant
      /\ g.uses = grants[k].uses
      /\ g.kind = grants[k].kind
      /\ g.limit = grants[k].limit
      /\ g.revoked
  BY <1>1, Zenon DEF Grant
<1>3. grants' = [grants EXCEPT ![k] = g]
  OBVIOUS
<1>. HIDE DEF g
<1>4. grants'[k] = g /\ \A j \in Tokens \ {k} : grants'[j] = grants[j]
  BY <1>1, <1>3 DEF TypeOK
<1>5. g # Unused
  BY <1>2 DEF Grant, Unused
<1>6. Issued' = Issued
  BY <1>1, <1>3, <1>4, <1>5, Zenon DEF TypeOK, Issued
<1>. QED
  BY <1>1, <1>2, <1>3, <1>4, <1>6, Zenon DEF TypeOK

\* A new grant enters the table unused and changes no other one.
LEMMA NewGrant ==
  ASSUME TypeOK, NEW k \in Tokens, grants[k] = Unused, NEW g \in FreshGrants,
         grants' = [grants EXCEPT ![k] = g]
  PROVE  /\ grants' \in [Tokens -> Grant \cup {Unused}]
         /\ grants'[k] = g /\ g.uses = 0 /\ g \in Grant /\ k \notin Issued
         /\ \A j \in Tokens \ {k} : grants'[j] = grants[j]
         /\ Issued' = Issued \cup {k}
<1>1. g.uses = 0 /\ g # Unused
  BY DEF FreshGrants, Unused
<1>2. {0} \subseteq Nat
  OBVIOUS
<1>3. {FALSE} \subseteq BOOLEAN
  BY Zenon
<1>4. g \in Grant
  BY <1>2, <1>3, Zenon DEF FreshGrants, Grant
<1>. QED
  BY <1>1, <1>4 DEF TypeOK, Issued

\* The uses counted and not yet handed over change only with the threads that
\* counted them.
LEMMA PendingKept ==
  ASSUME NEW k, \A t \in Callers : /\ work'[t].step = "counted" <=> work[t].step = "counted"
                                   /\ work[t].step = "counted" => work'[t] = work[t]
  PROVE  Pending(k)' = Pending(k)
BY Zenon DEF Pending

\* A new broker has granted nothing.
LEMMA BrokerInit == Init => BrokerInv
<1>. SUFFICES ASSUME Init PROVE BrokerInv
  OBVIOUS
<1>1. Issued = {}
  BY DEF Init, Issued
<1>2. \A k : Pending(k) = {}
  BY DEF Init, Pending, Idle
<1>3. TypeOK
  <2>1. trace \in BullTraceState
    BY DEF Init, TraceInit, Fresh, BullTraceState
  <2>. QED
    BY <1>1, <2>1, Zenon DEF Init, TraceInit, TypeOK, Work
<1>4. UsesAccounted
  BY <1>1, <1>2, FS_EmptySet DEF UsesAccounted, Init, Idle
<1>. QED
  BY <1>3, <1>4 DEF BrokerInv, DeadIsClosed, Init

\* A step that leaves the table and the histories alone keeps the invariant.
LEMMA TraceStep ==
  ASSUME BrokerInv, trace' \in BullTraceState,
         read' \in [Callers -> BullTraceState \cup {Unread}],
         UNCHANGED <<grants, gone, known, work, handed, dead>>
  PROVE  BrokerInv'
<1>1. \A k : Pending(k)' = Pending(k)
  BY DEF Pending
<1>2. Issued' = Issued
  BY DEF Issued
<1>3. TypeOK'
  BY <1>2 DEF BrokerInv, TypeOK
<1>4. UsesAccounted'
  BY <1>1, <1>2, Zenon DEF BrokerInv, UsesAccounted
<1>5. DeadIsClosed'
  BY Zenon DEF BrokerInv, DeadIsClosed
<1>. QED
  BY <1>3, <1>4, <1>5 DEF BrokerInv

\* A grant that is added keeps the invariant, whether or not its holder
\* learns of it.
LEMMA GrantAdded ==
  ASSUME BrokerInv, NEW k \in Tokens, grants[k] = Unused, NEW g \in FreshGrants,
         grants' = [grants EXCEPT ![k] = g],
         work' \in [Callers -> Work],
         \A u \in Callers : \/ work'[u] = work[u]
                            \/ work[u].step = "idle" /\ work'[u].step = "issued" /\ work'[u].token = k,
         known' \in {known, known \cup {k}},
         UNCHANGED <<traceVars, gone, handed, dead>>
  PROVE  BrokerInv'
<1>0. TypeOK /\ UsesAccounted /\ DeadIsClosed
  BY DEF BrokerInv
<1>1. /\ grants' \in [Tokens -> Grant \cup {Unused}]
      /\ grants'[k] = g /\ g.uses = 0 /\ g \in Grant /\ k \notin Issued
      /\ \A j \in Tokens \ {k} : grants'[j] = grants[j]
      /\ Issued' = Issued \cup {k}
  BY <1>0, NewGrant, Zenon
<1>3. \A j : Pending(j)' = Pending(j)
  <2>. TAKE j
  <2>. QED
    BY PendingKept
<1>4. TypeOK'
  BY <1>0, <1>1 DEF TypeOK, traceVars
<1>5. Cardinality(Pending(k)) = 0
  <2>1. Pending(k) = {}
    BY <1>0, <1>1 DEF UsesAccounted, Pending
  <2>. QED
    BY <2>1, FS_EmptySet
<1>6. UsesAccounted'
  <2>1. \A j \in Tokens : IsFiniteSet(Pending(j)')
    BY <1>0, <1>3, Zenon DEF UsesAccounted
  <2>2. ASSUME NEW j \in Issued'
        PROVE  /\ handed'[j] + Cardinality(Pending(j)') <= grants'[j].uses
               /\ grants'[j].limit # NoLimit => grants'[j].uses <= grants'[j].limit
    <3>1. CASE j = k
      <4>1. handed'[k] = 0
        BY <1>0, <1>1 DEF UsesAccounted
      <4>2. g.limit # NoLimit => 0 <= g.limit
        BY <1>1, BrokerConstants DEF Grant
      <4>. QED
        BY <1>1, <1>3, <1>5, <3>1, <4>1, <4>2
    <3>2. CASE j # k
      <4>1. j \in Issued /\ grants'[j] = grants[j] /\ handed' = handed
        BY <1>1, <3>2 DEF Issued
      <4>. QED
        BY <1>0, <1>3, <4>1 DEF UsesAccounted
    <3>. QED
      BY <3>1, <3>2
  <2>3. \A j \in Tokens \ Issued' : handed'[j] = 0
    BY <1>0, <1>1 DEF UsesAccounted
  <2>4. \A u \in Callers : work'[u].step = "issued" => work'[u].token \in Issued'
    BY <1>0, <1>1 DEF UsesAccounted
  <2>5. \A u \in Callers : work'[u].step = "counted" =>
           work'[u].token \in Issued' /\ grants'[work'[u].token].kind = "plain"
    BY <1>0, <1>1 DEF UsesAccounted, Issued
  <2>. QED
    BY <2>1, <2>2, <2>3, <2>4, <2>5 DEF UsesAccounted
<1>7. DeadIsClosed'
  BY <1>0, <1>1 DEF DeadIsClosed, TypeOK, Issued
<1>. QED
  BY <1>4, <1>6, <1>7 DEF BrokerInv

\* issue_grant keeps the invariant.
LEMMA IssueKeeps ==
  ASSUME BrokerInv, NEW t \in Callers, NEW k \in Tokens, NEW g \in FreshGrants, Issue(t, k, g)
  PROVE  BrokerInv'
<1>1. /\ work' \in [Callers -> Work]
      /\ work'[t].step = "issued" /\ work'[t].token = k /\ work[t].step = "idle"
      /\ \A u \in Callers \ {t} : work'[u] = work[u]
  BY DEF Issue, BrokerInv, TypeOK, Work, Idle
<1>. QED
  BY <1>1, GrantAdded, Zenon DEF Issue

\* issue_scoped_grant keeps the invariant.
LEMMA IssueScopedKeeps ==
  ASSUME BrokerInv, NEW t \in Callers, NEW k \in Tokens, NEW g \in FreshGrants, IssueScoped(t, k, g)
  PROVE  BrokerInv'
<1>1. work' \in [Callers -> Work] /\ \A u \in Callers : work'[u] = work[u]
  BY DEF IssueScoped, BrokerInv, TypeOK
<1>. QED
  BY <1>1, GrantAdded, Zenon DEF IssueScoped

\* Reading the trace keeps the invariant.
LEMMA ReadTraceKeeps ==
  ASSUME BrokerInv, NEW t \in Callers, ReadTrace(t)
  PROVE  BrokerInv'
<1>1. trace' \in BullTraceState /\ read' \in [Callers -> BullTraceState \cup {Unread}]
  BY DEF BrokerInv, TypeOK, ReadTrace, BeginEmit
<1>. QED
  BY <1>1, TraceStep DEF ReadTrace

\* The clock keeps the invariant: an expiry is noticed by the next request.
LEMMA ClockKeeps ==
  ASSUME BrokerInv, UNCHANGED <<traceVars, grants, gone, known, work, handed, dead>>
  PROVE  BrokerInv'
<1>1. trace' \in BullTraceState /\ read' \in [Callers -> BullTraceState \cup {Unread}]
  BY DEF BrokerInv, TypeOK, traceVars
<1>. QED
  BY <1>1, TraceStep

\* An event that is emitted or rejected leaves a trace state.
LEMMA EmitTypes ==
  ASSUME TypeOK, NEW t \in Callers, NEW name \in {"GrantSecret", "ReturnSecret"},
         Emit(t, Event(name)) \/ Rejected(t, Event(name))
  PROVE  trace' \in BullTraceState /\ read' \in [Callers -> BullTraceState \cup {Unread}]
<1>1. read[t] \in BullTraceState
  BY DEF TypeOK, Emit, Rejected
<1>2. After(read[t], Event(name)) \in BullTraceState
  BY <1>1, GrantEvent, ReturnEvent
<1>3. trace' \in {trace, After(read[t], Event(name))} /\ read' = [read EXCEPT ![t] = Unread]
  BY DEF Emit, Rejected
<1>. QED
  BY <1>2, <1>3 DEF TypeOK

\* The emit of issue_grant keeps the invariant, also when the trace rejects
\* it.
LEMMA IssueEmitKeeps ==
  ASSUME BrokerInv, NEW t \in Callers, IssueEmit(t)
  PROVE  BrokerInv'
<1>0. TypeOK /\ UsesAccounted /\ DeadIsClosed
  BY DEF BrokerInv
<1>1. trace' \in BullTraceState /\ read' \in [Callers -> BullTraceState \cup {Unread}]
  BY <1>0, EmitTypes DEF IssueEmit
<1>2. /\ work' \in [Callers -> Work]
      /\ work'[t].step = "idle" /\ work[t].step = "issued"
      /\ \A u \in Callers \ {t} : work'[u] = work[u]
  BY <1>0 DEF IssueEmit, TypeOK, Work, Idle
<1>3. \A j : Pending(j)' = Pending(j)
  <2>. TAKE j
  <2>. QED
    BY <1>2, PendingKept
<1>4. Issued' = Issued /\ work[t].token \in Issued
  BY <1>0, <1>2 DEF Issued, IssueEmit, UsesAccounted
<1>5. known' \in {known, known \cup {work[t].token}}
  BY DEF IssueEmit
<1>6. UNCHANGED <<grants, gone, handed, dead>>
  BY DEF IssueEmit
<1>7. TypeOK'
  BY <1>0, <1>1, <1>2, <1>4, <1>5, <1>6 DEF TypeOK
<1>8. UsesAccounted'
  BY <1>0, <1>2, <1>3, <1>4, <1>6, Zenon DEF UsesAccounted
<1>9. DeadIsClosed'
  BY <1>0, <1>6, Zenon DEF DeadIsClosed
<1>. QED
  BY <1>7, <1>8, <1>9 DEF BrokerInv

\* revoke keeps the invariant: the grant is taken out of the table or marked
\* in it.
LEMMA RevokeKeeps ==
  ASSUME BrokerInv, NEW k \in Tokens, Revoke(k)
  PROVE  BrokerInv'
<1>0. TypeOK /\ UsesAccounted /\ DeadIsClosed /\ k \in Issued
  BY DEF BrokerInv, TypeOK, Revoke
<1>1. \A j : Pending(j)' = Pending(j)
  BY Zenon DEF Pending, Revoke
<1>2. UNCHANGED <<trace, read, known, work, handed>> /\ dead' = dead \cup {k}
  BY DEF Revoke, traceVars
<1>3. CASE grants[k].kind = "plain"
  <2>1. gone' = gone \cup {k} /\ grants' = grants
    BY <1>3 DEF Revoke
  <2>2. Issued' = Issued
    BY <2>1 DEF Issued
  <2>3. TypeOK'
    BY <1>0, <1>2, <2>1, <2>2 DEF TypeOK, Revoke
  <2>4. UsesAccounted'
    BY <1>0, <1>1, <1>2, <2>1, <2>2, Zenon DEF UsesAccounted
  <2>5. DeadIsClosed'
    BY <1>0, <1>2, <1>3, <2>1 DEF DeadIsClosed
  <2>. QED
    BY <2>3, <2>4, <2>5 DEF BrokerInv
<1>4. CASE grants[k].kind # "plain"
  <2>0. grants' = [grants EXCEPT ![k].revoked = TRUE] /\ gone' = gone
    BY <1>4 DEF Revoke
  <2>1. /\ grants' \in [Tokens -> Grant \cup {Unused}]
        /\ grants'[k].uses = grants[k].uses
        /\ grants'[k].kind = grants[k].kind
        /\ grants'[k].limit = grants[k].limit
        /\ grants'[k].revoked
        /\ \A j \in Tokens \ {k} : grants'[j] = grants[j]
        /\ Issued' = Issued
    BY <1>0, <2>0, MarkedRevoked, Zenon
  <2>2. \A j \in Tokens : /\ grants'[j].uses = grants[j].uses
                          /\ grants'[j].kind = grants[j].kind
                          /\ grants'[j].limit = grants[j].limit
                          /\ (j = k \/ grants'[j].revoked = grants[j].revoked)
    BY <2>1
  <2>3. TypeOK'
    BY <1>0, <1>2, <2>0, <2>1 DEF TypeOK, Revoke
  <2>4. Issued \subseteq Tokens
    BY DEF Issued
  <2>5. UsesAccounted'
    <3>1. \A j \in Issued' : /\ handed'[j] + Cardinality(Pending(j)') <= grants'[j].uses
                             /\ grants'[j].limit # NoLimit => grants'[j].uses <= grants'[j].limit
      BY <1>0, <1>1, <1>2, <2>1, <2>2, <2>4 DEF UsesAccounted
    <3>. QED
      BY <1>0, <1>1, <1>2, <2>1, <2>2, <2>4, <3>1, ZenonT(30) DEF UsesAccounted
  <2>6. DeadIsClosed'
    <3>1. dead \subseteq Tokens
      BY <1>0, <2>4 DEF TypeOK
    <3>. QED
      BY <1>0, <1>2, <1>4, <2>0, <2>1, <2>2, <3>1 DEF DeadIsClosed
  <2>. QED
    BY <2>3, <2>5, <2>6 DEF BrokerInv
<1>. QED
  BY <1>3, <1>4

\* A request that finds its grant expired takes it out of the table.
LEMMA RefuseExpiredKeeps ==
  ASSUME BrokerInv, NEW t \in Callers, NEW k \in Tokens, RefuseExpired(t, k)
  PROVE  BrokerInv'
<1>0. TypeOK /\ UsesAccounted /\ DeadIsClosed /\ k \in Issued /\ k \in known
  BY DEF BrokerInv, TypeOK, RefuseExpired
<1>1. \A j : Pending(j)' = Pending(j)
  BY Zenon DEF Pending, RefuseExpired
<1>2. /\ UNCHANGED <<trace, read, grants, known, work, handed>>
      /\ dead' = dead \cup {k} /\ gone' = gone \cup {k} /\ grants[k].kind = "plain"
  BY DEF RefuseExpired, traceVars, PopExpired
<1>3. Issued' = Issued
  BY <1>2 DEF Issued
<1>4. TypeOK'
  BY <1>0, <1>2, <1>3 DEF TypeOK
<1>5. UsesAccounted'
  BY <1>0, <1>1, <1>2, <1>3, Zenon DEF UsesAccounted
<1>6. DeadIsClosed'
  BY <1>0, <1>2 DEF DeadIsClosed
<1>. QED
  BY <1>4, <1>5, <1>6 DEF BrokerInv

\* get_scoped counts a use of a scoped grant that is not revoked.
LEMMA GetScopedKeeps ==
  ASSUME BrokerInv, NEW t \in Callers, NEW k \in Tokens,
         NEW s \in Sandboxes, NEW n \in Names, GetScoped(t, k, s, n)
  PROVE  BrokerInv'
<1>0. TypeOK /\ UsesAccounted /\ DeadIsClosed /\ k \in Issued
  BY DEF BrokerInv, TypeOK, GetScoped
<1>1. \A j : Pending(j)' = Pending(j)
  BY Zenon DEF Pending, GetScoped
<1>2. /\ UNCHANGED <<trace, read, gone, known, work, dead>>
      /\ grants[k].kind = "scoped"
      /\ UsesLeft(k)
  BY DEF GetScoped, traceVars, Admits
<1>3. /\ grants' \in [Tokens -> Grant \cup {Unused}]
      /\ grants'[k].uses = grants[k].uses + 1
      /\ grants'[k].kind = grants[k].kind
      /\ grants'[k].limit = grants[k].limit
      /\ grants'[k].revoked = grants[k].revoked
      /\ \A j \in Tokens \ {k} : grants'[j] = grants[j]
      /\ Issued' = Issued
  BY <1>0, CountedUse, Zenon DEF GetScoped
<1>4. /\ handed' \in [Tokens -> Nat] /\ handed'[k] = handed[k] + 1
      /\ \A j \in Tokens \ {k} : handed'[j] = handed[j]
  BY <1>0 DEF GetScoped, TypeOK
<1>5. TypeOK'
  BY <1>0, <1>2, <1>3, <1>4 DEF TypeOK
<1>6. Issued \subseteq Tokens
  BY DEF Issued
<1>7. \A j \in Tokens : grants'[j].kind = grants[j].kind /\ grants'[j].revoked = grants[j].revoked
  BY <1>3
<1>8. UsesAccounted'
  <2>1. ASSUME NEW j \in Issued'
        PROVE  /\ handed'[j] + Cardinality(Pending(j)') <= grants'[j].uses
               /\ grants'[j].limit # NoLimit => grants'[j].uses <= grants'[j].limit
    <3>0. /\ j \in Issued /\ j \in Tokens
          /\ handed[j] + Cardinality(Pending(j)) <= grants[j].uses
          /\ grants[j].limit # NoLimit => grants[j].uses <= grants[j].limit
      BY <1>0, <1>3, <1>6 DEF UsesAccounted
    <3>1. CASE j = k
      <4>1. /\ grants[k].uses \in Nat /\ handed[k] \in Nat
            /\ grants[k].limit # NoLimit => grants[k].limit \in Nat
        BY <1>0, BrokerConstants DEF TypeOK, Issued, Grant
      <4>2. IsFiniteSet(Pending(k))
        BY <1>0, <1>6 DEF UsesAccounted
      <4>3. Cardinality(Pending(k)) \in Nat
        BY <4>2, FS_CardinalityType
      <4>. QED
        BY <1>1, <1>2, <1>3, <1>4, <3>0, <3>1, <4>1, <4>3 DEF UsesLeft
    <3>2. CASE j # k
      BY <1>1, <1>3, <1>4, <3>0, <3>2
    <3>. QED
      BY <3>1, <3>2
  <2>2. \A j \in Tokens \ Issued' : handed'[j] = 0
    BY <1>0, <1>3, <1>4 DEF UsesAccounted
  <2>. QED
    BY <1>0, <1>1, <1>2, <1>3, <1>6, <1>7, <2>1, <2>2, Zenon DEF UsesAccounted
<1>9. DeadIsClosed'
  <2>1. dead \subseteq Tokens
    BY <1>0, <1>6 DEF TypeOK
  <2>. QED
    BY <1>0, <1>2, <1>7, <2>1 DEF DeadIsClosed
<1>. QED
  BY <1>5, <1>8, <1>9 DEF BrokerInv

\* _authorize_and_get counts a use under the lock, which the thread then
\* holds.
LEMMA AuthorizeKeeps ==
  ASSUME BrokerInv, NEW t \in Callers, NEW k \in Tokens,
         NEW s \in Sandboxes, NEW n \in Names, Authorize(t, k, s, n)
  PROVE  BrokerInv'
<1>0. TypeOK /\ UsesAccounted /\ DeadIsClosed /\ k \in Issued
  BY DEF BrokerInv, TypeOK, Authorize
<1>1. /\ UNCHANGED <<trace, read, gone, known, handed, dead>>
      /\ grants[k].kind = "plain"
      /\ UsesLeft(k)
  BY DEF Authorize, traceVars, Admits
<1>2. /\ work' \in [Callers -> Work]
      /\ work'[t].step = "counted" /\ work'[t].token = k /\ work[t].step = "idle"
      /\ \A u \in Callers \ {t} : work'[u] = work[u]
  BY <1>0 DEF Authorize, TypeOK, Work, Idle
<1>3. /\ grants' \in [Tokens -> Grant \cup {Unused}]
      /\ grants'[k].uses = grants[k].uses + 1
      /\ grants'[k].kind = grants[k].kind
      /\ grants'[k].limit = grants[k].limit
      /\ grants'[k].revoked = grants[k].revoked
      /\ \A j \in Tokens \ {k} : grants'[j] = grants[j]
      /\ Issued' = Issued
  BY <1>0, CountedUse, Zenon DEF Authorize
<1>4. /\ Pending(k)' = Pending(k) \cup {t} /\ t \notin Pending(k)
      /\ \A j \in Tokens \ {k} : Pending(j)' = Pending(j)
  BY <1>2 DEF Pending
<1>5. TypeOK'
  BY <1>0, <1>1, <1>2, <1>3 DEF TypeOK
<1>6. Issued \subseteq Tokens
  BY DEF Issued
<1>7. \A j \in Tokens : grants'[j].kind = grants[j].kind /\ grants'[j].revoked = grants[j].revoked
  BY <1>3
<1>8. /\ IsFiniteSet(Pending(k)')
      /\ Cardinality(Pending(k)') = Cardinality(Pending(k)) + 1
      /\ Cardinality(Pending(k)) \in Nat
  <2>1. IsFiniteSet(Pending(k))
    BY <1>0, <1>6 DEF UsesAccounted
  <2>. QED
    BY <1>4, <2>1, FS_AddElement, FS_CardinalityType
<1>9. UsesAccounted'
  <2>1. ASSUME NEW j \in Issued'
        PROVE  /\ handed'[j] + Cardinality(Pending(j)') <= grants'[j].uses
               /\ grants'[j].limit # NoLimit => grants'[j].uses <= grants'[j].limit
    <3>0. /\ j \in Issued /\ j \in Tokens
          /\ handed[j] + Cardinality(Pending(j)) <= grants[j].uses
          /\ grants[j].limit # NoLimit => grants[j].uses <= grants[j].limit
      BY <1>0, <1>3, <1>6 DEF UsesAccounted
    <3>1. CASE j = k
      <4>1. /\ grants[k].uses \in Nat /\ handed[k] \in Nat
            /\ grants[k].limit # NoLimit => grants[k].limit \in Nat
        BY <1>0, BrokerConstants DEF TypeOK, Issued, Grant
      <4>. QED
        BY <1>1, <1>3, <1>8, <3>0, <3>1, <4>1 DEF UsesLeft
    <3>2. CASE j # k
      BY <1>1, <1>3, <1>4, <3>0, <3>2
    <3>. QED
      BY <3>1, <3>2
  <2>2. \A j \in Tokens : IsFiniteSet(Pending(j)')
    <3>1. \A j \in Tokens : IsFiniteSet(Pending(j))
      BY <1>0, Zenon DEF UsesAccounted
    <3>. QED
      BY <1>4, <1>8, <3>1, Zenon
  <2>3. \A u \in Callers : work'[u].step = "issued" => work'[u].token \in Issued'
    BY <1>0, <1>2, <1>3, SMTT(30) DEF UsesAccounted
  <2>4. \A u \in Callers : work'[u].step = "counted" =>
           work'[u].token \in Issued' /\ grants'[work'[u].token].kind = "plain"
    BY <1>0, <1>1, <1>2, <1>3, <1>6, <1>7, SMTT(30) DEF UsesAccounted
  <2>5. \A j \in Tokens \ Issued' : handed'[j] = 0
    BY <1>0, <1>1, <1>3 DEF UsesAccounted
  <2>. QED
    BY <2>1, <2>2, <2>3, <2>4, <2>5, SMTT(30) DEF UsesAccounted
<1>10. DeadIsClosed'
  <2>1. dead \subseteq Tokens
    BY <1>0, <1>6 DEF TypeOK
  <2>. QED
    BY <1>0, <1>1, <1>7, <2>1 DEF DeadIsClosed
<1>. QED
  BY <1>5, <1>9, <1>10 DEF BrokerInv

\* A secret is handed over for a use that was counted before.
LEMMA ReturnSecretKeeps ==
  ASSUME BrokerInv, NEW t \in Callers, ReturnSecret(t)
  PROVE  BrokerInv'
<1>0. TypeOK /\ UsesAccounted /\ DeadIsClosed
  BY DEF BrokerInv
<1>k. PICK k \in Issued : work[t].token = k
  BY <1>0 DEF UsesAccounted, ReturnSecret
<1>1. trace' \in BullTraceState /\ read' \in [Callers -> BullTraceState \cup {Unread}]
  BY <1>0, EmitTypes DEF ReturnSecret
<1>2. /\ work' \in [Callers -> Work]
      /\ work'[t].step = "idle" /\ work[t].step = "counted"
      /\ \A u \in Callers \ {t} : work'[u] = work[u]
  BY <1>0 DEF ReturnSecret, TypeOK, Work, Idle
<1>3. UNCHANGED <<grants, gone, known, dead>> /\ Issued' = Issued
  BY DEF ReturnSecret, Issued
<1>4. k \in Tokens
  BY <1>0 DEF Issued
<1>5. handed' \in {handed, [handed EXCEPT ![k] = @ + 1]}
  BY <1>k DEF ReturnSecret
<1>6. /\ Pending(k)' = Pending(k) \ {t} /\ t \in Pending(k)
      /\ \A j \in Tokens \ {k} : Pending(j)' = Pending(j)
  BY <1>2, <1>k DEF Pending
<1>7. /\ handed' \in [Tokens -> Nat] /\ handed'[k] <= handed[k] + 1
      /\ \A j \in Tokens \ {k} : handed'[j] = handed[j]
  BY <1>0, <1>4, <1>5 DEF TypeOK
<1>8. /\ IsFiniteSet(Pending(k)')
      /\ Cardinality(Pending(k)') = Cardinality(Pending(k)) - 1
      /\ Cardinality(Pending(k)) \in Nat
  <2>1. IsFiniteSet(Pending(k))
    BY <1>0, <1>4 DEF UsesAccounted
  <2>. QED
    BY <1>6, <2>1, FS_RemoveElement, FS_CardinalityType
<1>9. TypeOK'
  BY <1>0, <1>1, <1>2, <1>3, <1>7 DEF TypeOK
<1>10. UsesAccounted'
  <2>1. ASSUME NEW j \in Issued'
        PROVE  /\ handed'[j] + Cardinality(Pending(j)') <= grants'[j].uses
               /\ grants'[j].limit # NoLimit => grants'[j].uses <= grants'[j].limit
    <3>0. /\ j \in Tokens
          /\ handed[j] + Cardinality(Pending(j)) <= grants[j].uses
          /\ grants[j].limit # NoLimit => grants[j].uses <= grants[j].limit
      BY <1>0, <1>3 DEF UsesAccounted, Issued
    <3>1. CASE j = k
      <4>1. grants[k].uses \in Nat /\ handed[k] \in Nat /\ handed'[k] \in Nat
        BY <1>0, <1>4, <1>7 DEF TypeOK, Issued, Grant
      <4>2. handed[k] + Cardinality(Pending(k)) <= grants[k].uses
        BY <3>0, <3>1
      <4>3. handed'[k] + Cardinality(Pending(k)') <= grants[k].uses
        BY <1>7, <1>8, <4>1, <4>2, SMTT(30)
      <4>. QED
        BY <1>3, <3>0, <3>1, <4>3, Zenon
    <3>2. CASE j # k
      BY <1>3, <1>6, <1>7, <3>0, <3>2
    <3>. QED
      BY <3>1, <3>2
  <2>2. \A j \in Tokens : IsFiniteSet(Pending(j)')
    <3>1. \A j \in Tokens : IsFiniteSet(Pending(j))
      BY <1>0, Zenon DEF UsesAccounted
    <3>. QED
      BY <1>6, <1>8, <3>1, Zenon
  <2>3. \A u \in Callers : work'[u].step = "issued" => work'[u].token \in Issued'
    BY <1>0, <1>2, <1>3 DEF UsesAccounted
  <2>4. \A u \in Callers : work'[u].step = "counted" =>
           work'[u].token \in Issued' /\ grants'[work'[u].token].kind = "plain"
    BY <1>0, <1>2, <1>3, SMTT(30) DEF UsesAccounted
  <2>5. \A j \in Tokens \ Issued' : handed'[j] = 0
    BY <1>0, <1>3, <1>7 DEF UsesAccounted
  <2>. QED
    BY <2>1, <2>2, <2>3, <2>4, <2>5 DEF UsesAccounted
<1>11. DeadIsClosed'
  BY <1>0, <1>3, Zenon DEF DeadIsClosed
<1>. QED
  BY <1>9, <1>10, <1>11 DEF BrokerInv

\* Every step of every caller, and of the clock, keeps the invariant.
LEMMA BrokerStep == BrokerInv /\ [Next]_brokerVars => BrokerInv'
<1>. SUFFICES ASSUME BrokerInv, [Next]_brokerVars PROVE BrokerInv'
  OBVIOUS
<1>1. ASSUME NEW t \in Callers, NEW k \in Tokens, NEW g \in FreshGrants,
             Issue(t, k, g) \/ IssueScoped(t, k, g)
      PROVE  BrokerInv'
  BY <1>1, IssueKeeps, IssueScopedKeeps
<1>2. ASSUME NEW t \in Callers, NEW k \in Tokens, NEW s \in Sandboxes, NEW n \in Names,
             Authorize(t, k, s, n) \/ GetScoped(t, k, s, n)
      PROVE  BrokerInv'
  BY <1>2, AuthorizeKeeps, GetScopedKeeps
<1>3. ASSUME NEW t \in Callers, NEW k \in Tokens, RefuseExpired(t, k) PROVE BrokerInv'
  BY <1>3, RefuseExpiredKeeps
<1>4. ASSUME NEW t \in Callers, ReadTrace(t) \/ IssueEmit(t) \/ ReturnSecret(t) PROVE BrokerInv'
  BY <1>4, ReadTraceKeeps, IssueEmitKeeps, ReturnSecretKeeps
<1>5. ASSUME NEW k \in Tokens, Revoke(k) PROVE BrokerInv'
  BY <1>5, RevokeKeeps
<1>6. CASE SetClock
  BY <1>6, ClockKeeps DEF SetClock
<1>7. CASE UNCHANGED brokerVars
  BY <1>7, ClockKeeps DEF brokerVars, traceVars
<1>. QED
  BY <1>1, <1>2, <1>3, <1>4, <1>5, <1>6, <1>7 DEF Next

\* The inductive invariant of the secret broker: every use handed over was
\* counted, and a dead grant is closed (secret_broker.py).
THEOREM BrokerInvariant == Spec => []BrokerInv
BY BrokerInit, BrokerStep, PTL DEF Spec

\* What is counted before it is handed over stays within the limit.
LEMMA AccountedWithinLimit == BrokerInv => UsesWithinLimit
<1>. SUFFICES ASSUME BrokerInv, NEW k \in Issued
              PROVE  /\ handed[k] <= grants[k].uses
                     /\ grants[k].limit # NoLimit => grants[k].uses <= grants[k].limit
  BY DEF UsesWithinLimit
<1>1. /\ IsFiniteSet(Pending(k))
      /\ handed[k] + Cardinality(Pending(k)) <= grants[k].uses
      /\ grants[k].limit # NoLimit => grants[k].uses <= grants[k].limit
  BY DEF BrokerInv, UsesAccounted, Issued
<1>2. Cardinality(Pending(k)) \in Nat
  BY <1>1, FS_CardinalityType
<1>3. handed[k] \in Nat /\ grants[k].uses \in Nat
  BY DEF BrokerInv, TypeOK, Issued, Grant
<1>. QED
  BY <1>1, <1>2, <1>3

\* No grant is ever used more often than its limit says, however the requests
\* of its holders interleave.
THEOREM UsesWithinLimitTheorem == Spec => []UsesWithinLimit
BY BrokerInvariant, AccountedWithinLimit, PTL

\* A step counts no use of a grant that was revoked or found expired.
LEMMA DeadUnused ==
  ASSUME BrokerInv, [Next]_brokerVars, NEW j \in dead
  PROVE  grants'[j].uses = grants[j].uses
<1>0. TypeOK /\ UsesAccounted /\ DeadIsClosed /\ j \in Issued /\ j \in Tokens
  BY DEF BrokerInv, TypeOK, Issued
<1>1. grants[j].kind \in {"plain", "scoped"}
  BY <1>0 DEF TypeOK, Issued, Grant
<1>2. ASSUME NEW t \in Callers, NEW k \in Tokens, NEW g \in FreshGrants,
             Issue(t, k, g) \/ IssueScoped(t, k, g)
      PROVE  grants'[j].uses = grants[j].uses
  <2>1. k # j /\ grants' = [grants EXCEPT ![k] = g]
    BY <1>0, <1>2 DEF Issue, IssueScoped, Issued
  <2>. QED
    BY <1>0, <2>1 DEF TypeOK
<1>3. ASSUME NEW t \in Callers, NEW k \in Tokens, NEW s \in Sandboxes, NEW n \in Names,
             Authorize(t, k, s, n)
      PROVE  grants'[j].uses = grants[j].uses
  <2>1. k # j /\ k \in Issued
    BY <1>0, <1>3 DEF Authorize, DeadIsClosed, TypeOK
  <2>. QED
    BY <1>0, <1>3, <2>1, CountedUse DEF Authorize
<1>4. ASSUME NEW t \in Callers, NEW k \in Tokens, NEW s \in Sandboxes, NEW n \in Names,
             GetScoped(t, k, s, n)
      PROVE  grants'[j].uses = grants[j].uses
  <2>1. k # j /\ k \in Issued
    BY <1>0, <1>4 DEF GetScoped, DeadIsClosed, TypeOK
  <2>. QED
    BY <1>0, <1>4, <2>1, CountedUse DEF GetScoped
<1>5. ASSUME NEW t \in Callers, NEW k \in Tokens, RefuseExpired(t, k)
      PROVE  grants'[j].uses = grants[j].uses
  BY <1>5 DEF RefuseExpired
<1>6. ASSUME NEW t \in Callers, ReadTrace(t) \/ IssueEmit(t) \/ ReturnSecret(t)
      PROVE  grants'[j].uses = grants[j].uses
  BY <1>6 DEF ReadTrace, IssueEmit, ReturnSecret
<1>7. ASSUME NEW k \in Tokens, Revoke(k) PROVE grants'[j].uses = grants[j].uses
  <2>1. CASE grants[k].kind = "plain"
    BY <1>7, <2>1 DEF Revoke
  <2>2. CASE grants[k].kind # "plain"
    <3>1. grants' = [grants EXCEPT ![k].revoked = TRUE] /\ k \in Issued
      BY <1>0, <1>7, <2>2 DEF Revoke, TypeOK
    <3>. QED
      BY <1>0, <3>1, MarkedRevoked
  <2>. QED
    BY <2>1, <2>2
<1>8. CASE SetClock \/ UNCHANGED brokerVars
  BY <1>8 DEF SetClock, brokerVars
<1>. QED
  BY <1>2, <1>3, <1>4, <1>5, <1>6, <1>7, <1>8 DEF Next

\* A grant that was revoked, or a plain one that was found expired, is never
\* used again, not even when the clock is set back.
THEOREM DeadStaysDeadTheorem == Spec => DeadStaysDead
<1>1. BrokerInv /\ [Next]_brokerVars => [\A k \in dead : grants'[k].uses = grants[k].uses]_brokerVars
  BY DeadUnused
<1>. QED
  BY <1>1, BrokerInvariant, PTL DEF Spec, DeadStaysDead

-----------------------------------------------------------------------------
\* Initially no request is in progress.
LEMMA TrackedInit == MCInit => TrackedInv
<1>. SUFFICES ASSUME MCInit PROVE TrackedInv
  OBVIOUS
<1>1. BrokerInv /\ Issued = {}
  BY BrokerInit DEF MCInit, Init, Issued
<1>2. ~trace.secret_returned
  BY DEF MCInit, Init, TraceInit, Fresh
<1>3. TraceAgreesWithBroker
  BY <1>1, <1>2 DEF TraceAgreesWithBroker, HandedPlain
<1>4. OneAtATime
  BY DEF OneAtATime, MCInit, Init, TraceInit
<1>. QED
  BY <1>1, <1>3, <1>4, Zenon DEF TrackedInv, MCInit

\* Until two requests overlap, one thread at most is at work and its reading
\* of the trace is up to date.
LEMMA OneAtATimeKept ==
  ASSUME TrackedInv, [MCNext]_<<brokerVars, overlapped>>
  PROVE  OneAtATime' /\ (~overlapped' => ~overlapped)
<1>0. TypeOK /\ OneAtATime
  BY DEF TrackedInv, BrokerInv
<1>1. CASE UNCHANGED <<brokerVars, overlapped>>
  <2>1. UNCHANGED <<work, read, trace, overlapped>>
    BY <1>1, SMTT(30) DEF brokerVars
  <2>. QED
    BY <1>0, <2>1, Zenon DEF OneAtATime
<1>2. CASE MCNext
  <2>1. SUFFICES ASSUME ~overlapped'
                 PROVE  /\ ~overlapped
                        /\ \A t \in Callers : read'[t] # Unread => work'[t] # Idle /\ read'[t] = trace'
    BY <1>2, Zenon DEF OneAtATime, MCNext
  <2>2. ~overlapped
    BY <1>2, <2>1, Zenon DEF MCNext
  <2>3. \A t, u \in Callers : work[t] # Idle /\ work[u] # Idle => t = u
    BY <1>0, <2>2 DEF OneAtATime
  <2>4. \A t \in Callers : read[t] # Unread => work[t] # Idle /\ read[t] = trace
    BY <1>0, <2>2 DEF OneAtATime
  <2>5. ASSUME NEW t \in Callers, NEW k \in Tokens, NEW g \in FreshGrants, Issue(t, k, g)
        PROVE  \A u \in Callers : read'[u] # Unread => work'[u] # Idle /\ read'[u] = trace'
    BY <1>0, <2>4, <2>5 DEF Issue, TypeOK, traceVars, Idle
  <2>6. ASSUME NEW t \in Callers, NEW k \in Tokens, NEW s \in Sandboxes, NEW n \in Names,
               Authorize(t, k, s, n)
        PROVE  \A u \in Callers : read'[u] # Unread => work'[u] # Idle /\ read'[u] = trace'
    BY <1>0, <2>4, <2>6 DEF Authorize, TypeOK, traceVars, Idle
  <2>7. ASSUME NEW t \in Callers, ReadTrace(t)
        PROVE  \A u \in Callers : read'[u] # Unread => work'[u] # Idle /\ read'[u] = trace'
    BY <1>0, <2>3, <2>4, <2>7 DEF ReadTrace, BeginEmit, TypeOK, Idle
  <2>8. ASSUME NEW t \in Callers, IssueEmit(t) \/ ReturnSecret(t)
        PROVE  \A u \in Callers : read'[u] # Unread => work'[u] # Idle /\ read'[u] = trace'
    <3>1. work[t] # Idle /\ read' = [read EXCEPT ![t] = Unread]
      BY <2>8 DEF IssueEmit, ReturnSecret, Emit, Rejected, Idle
    <3>2. \A u \in Callers : read'[u] = Unread
      BY <1>0, <2>3, <2>4, <3>1 DEF TypeOK
    <3>. QED
      BY <3>2
  <2>9. ASSUME UNCHANGED <<traceVars, work>>
        PROVE  \A u \in Callers : read'[u] # Unread => work'[u] # Idle /\ read'[u] = trace'
    BY <2>4, <2>9, Zenon DEF traceVars
  <2>10. \A t \in Callers, k \in Tokens :
            /\ \A g \in FreshGrants : IssueScoped(t, k, g) => UNCHANGED <<traceVars, work>>
            /\ \A s \in Sandboxes, n \in Names : GetScoped(t, k, s, n) => UNCHANGED <<traceVars, work>>
            /\ RefuseExpired(t, k) => UNCHANGED <<traceVars, work>>
            /\ Revoke(k) => UNCHANGED <<traceVars, work>>
    BY DEF IssueScoped, GetScoped, RefuseExpired, Revoke
  <2>11. SetClock => UNCHANGED <<traceVars, work>>
    BY DEF SetClock
  <2>12. \A k \in Tokens : Revoke(k) => UNCHANGED <<traceVars, work>>
    BY DEF Revoke
  <2>. QED
    BY <1>2, <2>2, <2>5, <2>6, <2>7, <2>8, <2>9, <2>10, <2>11, <2>12, Zenon DEF MCNext, Next
<1>. QED
  BY <1>1, <1>2

\* A step that neither hands a plain secret over nor records one keeps the
\* agreement.
LEMMA StillAgrees ==
  ASSUME TraceAgreesWithBroker, ~overlapped,
         trace'.secret_returned = trace.secret_returned,
         HandedPlain' = HandedPlain,
         \A k \in HandedPlain : handed'[k] = handed[k]
  PROVE  TraceAgreesWithBroker'
<1>1. \A k \in HandedPlain' : handed'[k] = handed[k] /\ k \in HandedPlain
  OBVIOUS
<1>2. /\ trace.secret_returned <=> HandedPlain # {}
      /\ \A k, l \in HandedPlain : k = l /\ handed[k] = 1
  BY DEF TraceAgreesWithBroker
<1>. QED
  BY <1>1, <1>2, Zenon DEF TraceAgreesWithBroker

\* Every step keeps the trace in agreement with the broker while requests do
\* not overlap.
LEMMA AgreementKept ==
  ASSUME TrackedInv, [MCNext]_<<brokerVars, overlapped>>
  PROVE  TraceAgreesWithBroker'
<1>0. TypeOK /\ UsesAccounted /\ OneAtATime /\ TraceAgreesWithBroker
  BY DEF TrackedInv, BrokerInv
<1>1. CASE overlapped'
  BY <1>1 DEF TraceAgreesWithBroker
<1>2. CASE ~overlapped'
  <2>1. ~overlapped
    BY <1>2, OneAtATimeKept
  <2>2. ASSUME UNCHANGED <<grants, handed>>, trace'.secret_returned = trace.secret_returned
        PROVE  TraceAgreesWithBroker'
    <3>1. HandedPlain' = HandedPlain
      BY <2>2 DEF HandedPlain, Issued
    <3>. QED
      BY <1>0, <2>1, <2>2, <3>1, StillAgrees, SMTT(30)
  <2>3. ASSUME NEW t \in Callers, NEW k \in Tokens, NEW g \in FreshGrants,
               Issue(t, k, g) \/ IssueScoped(t, k, g)
        PROVE  TraceAgreesWithBroker'
    <3>1. /\ grants' = [grants EXCEPT ![k] = g] /\ grants[k] = Unused
          /\ UNCHANGED <<trace, handed>>
      BY <2>3 DEF Issue, IssueScoped, traceVars
    <3>2. /\ Issued' = Issued \cup {k} /\ k \notin Issued
          /\ \A j \in Tokens \ {k} : grants'[j] = grants[j]
      BY <1>0, <3>1, NewGrant, Zenon
    <3>3. handed[k] = 0
      BY <1>0, <3>2 DEF UsesAccounted
    <3>4. HandedPlain' = HandedPlain
      BY <3>1, <3>2, <3>3 DEF HandedPlain, Issued
    <3>. QED
      BY <1>0, <2>1, <3>1, <3>4, StillAgrees
  <2>4. ASSUME NEW t \in Callers, NEW k \in Tokens, NEW s \in Sandboxes, NEW n \in Names,
               Authorize(t, k, s, n)
        PROVE  TraceAgreesWithBroker'
    <3>1. /\ grants' = [grants EXCEPT ![k].uses = @ + 1] /\ k \in Issued
          /\ UNCHANGED <<trace, handed>>
      BY <1>0, <2>4 DEF Authorize, traceVars, TypeOK
    <3>2. Issued' = Issued /\ \A j \in Tokens : grants'[j].kind = grants[j].kind
      BY <1>0, <3>1, CountedUse, Zenon
    <3>3. HandedPlain' = HandedPlain
      BY <3>1, <3>2 DEF HandedPlain, Issued
    <3>. QED
      BY <1>0, <2>1, <3>1, <3>3, StillAgrees
  <2>5. ASSUME NEW t \in Callers, NEW k \in Tokens, NEW s \in Sandboxes, NEW n \in Names,
               GetScoped(t, k, s, n)
        PROVE  TraceAgreesWithBroker'
    <3>1. /\ grants' = [grants EXCEPT ![k].uses = @ + 1] /\ k \in Issued
          /\ grants[k].kind = "scoped"
          /\ handed' = [handed EXCEPT ![k] = @ + 1] /\ trace' = trace
      BY <1>0, <2>5 DEF GetScoped, traceVars, TypeOK
    <3>2. Issued' = Issued /\ \A j \in Tokens : grants'[j].kind = grants[j].kind
      BY <1>0, <3>1, CountedUse, Zenon
    <3>3. \A j \in Tokens \ {k} : handed'[j] = handed[j]
      BY <1>0, <3>1 DEF TypeOK
    <3>4. HandedPlain' = HandedPlain /\ k \notin HandedPlain /\ HandedPlain \subseteq Tokens
      BY <3>1, <3>2, <3>3 DEF HandedPlain, Issued
    <3>. QED
      BY <1>0, <2>1, <3>1, <3>3, <3>4, StillAgrees
  <2>6. ASSUME NEW k \in Tokens, Revoke(k) PROVE TraceAgreesWithBroker'
    <3>1. trace' = trace /\ handed' = handed /\ k \in Issued
      BY <1>0, <2>6 DEF Revoke, traceVars, TypeOK
    <3>2. Issued' = Issued /\ \A j \in Tokens : grants'[j].kind = grants[j].kind
      <4>1. CASE grants[k].kind = "plain"
        BY <2>6, <4>1 DEF Revoke, Issued
      <4>2. CASE grants[k].kind # "plain"
        BY <1>0, <2>6, <3>1, <4>2, MarkedRevoked DEF Revoke
      <4>. QED
        BY <4>1, <4>2
    <3>3. HandedPlain' = HandedPlain
      BY <3>1, <3>2 DEF HandedPlain, Issued
    <3>. QED
      BY <1>0, <2>1, <3>1, <3>3, StillAgrees
  <2>7. ASSUME NEW t \in Callers, IssueEmit(t) PROVE TraceAgreesWithBroker'
    <3>1. read[t] # Unread /\ trace' \in {trace, After(read[t], Event("GrantSecret"))}
      BY <2>7 DEF IssueEmit, Emit, Rejected
    <3>2. read[t] = trace
      BY <1>0, <2>1, <3>1 DEF OneAtATime
    <3>3. trace'.secret_returned = trace.secret_returned
      BY <1>0, <3>1, <3>2, GrantEvent, SMTT(30) DEF TypeOK
    <3>. QED
      BY <2>2, <2>7, <3>3 DEF IssueEmit
  <2>8. ASSUME NEW t \in Callers, ReturnSecret(t) PROVE TraceAgreesWithBroker'
    <3>1. PICK k \in Issued : work[t].token = k /\ grants[k].kind = "plain"
      BY <1>0, <2>8, Zenon DEF UsesAccounted, ReturnSecret
    <3>2. CASE trace' = trace /\ handed' = handed
      BY <2>2, <2>8, <3>2 DEF ReturnSecret
    <3>3. CASE Emit(t, Event("ReturnSecret")) /\ handed' = [handed EXCEPT ![k] = @ + 1]
      <4>1. read[t] = trace
        BY <1>0, <2>1, <3>3 DEF OneAtATime, Emit
      <4>2. trace'.secret_returned /\ ~trace.secret_returned
        BY <1>0, <3>3, <4>1, ReturnEvent DEF TypeOK, Emit
      <4>3. HandedPlain = {}
        BY <1>0, <2>1, <4>2, Zenon DEF TraceAgreesWithBroker
      <4>4. handed[k] = 0
        BY <1>0, <3>1, <4>3 DEF HandedPlain, TypeOK, Issued
      <4>5. handed'[k] = 1 /\ \A j \in Tokens \ {k} : handed'[j] = handed[j]
        BY <1>0, <3>1, <3>3, <4>4, SMTT(30) DEF TypeOK, Issued
      <4>6. HandedPlain' = {k}
        BY <2>8, <3>1, <4>3, <4>5, SMTT(30) DEF HandedPlain, Issued, ReturnSecret
      <4>. QED
        BY <4>2, <4>5, <4>6, Zenon DEF TraceAgreesWithBroker
    <3>. QED
      BY <2>8, <3>1, <3>2, <3>3, ZenonT(30) DEF ReturnSecret, Rejected
  <2>9. ASSUME NEW t \in Callers, ReadTrace(t) PROVE TraceAgreesWithBroker'
    BY <2>2, <2>9 DEF ReadTrace, BeginEmit
  <2>10. ASSUME NEW t \in Callers, NEW k \in Tokens, RefuseExpired(t, k) PROVE TraceAgreesWithBroker'
    BY <2>2, <2>10 DEF RefuseExpired, traceVars
  <2>11. CASE SetClock \/ UNCHANGED <<brokerVars, overlapped>>
    BY <2>2, <2>11 DEF SetClock, traceVars, brokerVars
  <2>. QED
    BY <2>3, <2>4, <2>5, <2>6, <2>7, <2>8, <2>9, <2>10, <2>11 DEF MCNext, Next
<1>. QED
  BY <1>1, <1>2

\* The inductive invariant of the broker with its trace.
THEOREM TrackedInvariant == MCSpec => []TrackedInv
<1>1. TrackedInv /\ [MCNext]_<<brokerVars, overlapped>> => TrackedInv'
  <2>. SUFFICES ASSUME TrackedInv, [MCNext]_<<brokerVars, overlapped>> PROVE TrackedInv'
    OBVIOUS
  <2>1. BrokerInv'
    BY BrokerStep DEF TrackedInv, MCNext
  <2>2. overlapped' \in BOOLEAN
    BY Zenon DEF TrackedInv, MCNext
  <2>. QED
    BY <2>1, <2>2, OneAtATimeKept, AgreementKept DEF TrackedInv
<1>. QED
  BY <1>1, TrackedInit, PTL DEF MCSpec

\* While requests do not overlap the trace says a secret was returned exactly
\* when one was, and under one grant, once.
THEOREM TraceAgreesTheorem == MCSpec => []TraceAgreesWithBroker
<1>1. TrackedInv => TraceAgreesWithBroker
  BY DEF TrackedInv
<1>. QED
  BY <1>1, TrackedInvariant, PTL

=============================================================================
