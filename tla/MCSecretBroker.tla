--------------------------- MODULE MCSecretBroker ---------------------------
(***************************************************************************)
(* SecretBroker for TLC, with a history of overlapping requests: the       *)
(* verifier is shared, and its state is one request's only if they do not  *)
(* overlap.                                                                *)
(***************************************************************************)
EXTENDS SecretBroker, TLC

VARIABLE overlapped  \* two requests have been in progress at once

MCInit == Init /\ overlapped = FALSE

MCNext ==
  /\ Next
  /\ overlapped' = (overlapped \/ \E t, u \in Callers : t # u /\ work'[t] # Idle /\ work'[u] # Idle)

MCSpec == MCInit /\ [][MCNext]_<<brokerVars, overlapped>>

\* The plain grants under which a secret has been handed over.
HandedPlain == {k \in Issued : grants[k].kind = "plain" /\ handed[k] > 0}

\* When requests do not overlap the trace says that a secret was returned
\* exactly when one has been: no plain secret leaves the broker on an event that
\* was rejected.
TraceAgreesWithBroker ==
  ~overlapped =>
    /\ trace.secret_returned <=> HandedPlain # {}
    /\ \A k, l \in HandedPlain : k = l /\ handed[k] = 1

\* Why it does: until requests overlap one thread at most is at work, and what
\* its emit has read is what the trace still is.
OneAtATime ==
  ~overlapped =>
    /\ \A t, u \in Callers : work[t] # Idle /\ work[u] # Idle => t = u
    /\ \A t \in Callers : read[t] # Unread => work[t] # Idle /\ read[t] = trace

TrackedInv == BrokerInv /\ OneAtATime /\ TraceAgreesWithBroker /\ overlapped \in BOOLEAN

Interchangeable == Permutations(Tokens) \cup Permutations(Callers)
=============================================================================
