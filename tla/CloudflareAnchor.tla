-------------------------- MODULE CloudflareAnchor --------------------------
(***************************************************************************)
(* The Cloudflare Worker of deploy/cloudflare-audit (src/index.ts): the    *)
(* collector as a stateless request handler over a D1 table.  A request    *)
(* awaits twice, at the conditional INSERT and at the SELECT that decides  *)
(* its answer, and any number of other requests run in between.            *)
(*                                                                         *)
(* Hashes are collision free, so a head is the chain of payloads it        *)
(* commits to and previous_hash is the chain without its last payload (the *)
(* empty chain for null).  MACs are functions of the other fields: every   *)
(* frame sent here is one the session key has authenticated, including     *)
(* frames of histories that lost (a host restored from an older image).    *)
(***************************************************************************)
EXTENDS Naturals, Sequences, SequencesExt

CONSTANTS
  Requests,  \* requests in flight or answered
  Payloads,  \* audit records
  MaxLength  \* bound on the length of a history

WorkerConstants == Payloads \subseteq Nat /\ MaxLength \in Nat

VARIABLES
  checkpoints,  \* the rows of the session, in order of sequence
  request,      \* the state of each request
  acked         \* frames that were acknowledged

workerVars == <<checkpoints, request, acked>>

Chains == SeqOf(Payloads, MaxLength)

Frame(chain) ==
  [sequence |-> Len(chain), head |-> chain, previous_hash |-> Front(chain)]

Frames == {Frame(c) : c \in Chains \ {<<>>}}

Unsent == [step |-> "unsent"]

Init ==
  /\ checkpoints = <<>>
  /\ request = [r \in Requests |-> Unsent]
  /\ acked = {}

LatestSequence == IF checkpoints = <<>> THEN 0 ELSE Last(checkpoints).sequence

LatestHead == IF checkpoints = <<>> THEN <<>> ELSE Last(checkpoints).head

\* The request parses and its MAC verifies; the handler reaches the INSERT.
Receive(r, f) ==
  /\ request[r] = Unsent
  /\ request' = [request EXCEPT ![r] = [step |-> "insert", frame |-> f]]
  /\ UNCHANGED <<checkpoints, acked>>

\* Mutant: the previous hash is not compared with the latest head.
ContinuesByNumber(f) == f.sequence = LatestSequence + 1

\* The WHERE clause: the next sequence, on top of the latest head.
Continues(f) ==
  /\ f.sequence = LatestSequence + 1
  /\ f.previous_hash = LatestHead

\* INSERT ... WHERE ... ON CONFLICT DO NOTHING, one atomic statement.
Insert(r) ==
  /\ request[r].step = "insert"
  /\ LET f == request[r].frame IN
     /\ checkpoints' = IF Continues(f) THEN Append(checkpoints, f) ELSE checkpoints
     /\ request' = [request EXCEPT ![r] = [step |-> "select", frame |-> f]]
  /\ UNCHANGED acked

\* SELECT by session and sequence; head and frame must be the stored ones.
RowIs(f) == \E i \in DOMAIN checkpoints : checkpoints[i] = f

\* The answer: an acknowledgement, or "checkpoint rejected".
Answer(r) ==
  /\ request[r].step = "select"
  /\ LET f == request[r].frame IN
     IF RowIs(f)
     THEN acked' = acked \cup {f}
     ELSE UNCHANGED acked
  /\ request' = [request EXCEPT ![r] = Unsent]
  /\ UNCHANGED checkpoints

\* The worker is evicted, or the client hangs up: no answer arrives.
Drop(r) ==
  /\ request[r] # Unsent
  /\ request' = [request EXCEPT ![r] = Unsent]
  /\ UNCHANGED <<checkpoints, acked>>

Next ==
  \E r \in Requests :
    (\E f \in Frames : Receive(r, f)) \/ Insert(r) \/ Answer(r) \/ Drop(r)

Spec == Init /\ [][Next]_workerVars

-----------------------------------------------------------------------------
Log == INSTANCE AckedLog WITH log <- LatestHead, told <- {f.head : f \in acked}

\* The worker gives callers what the reference collector gives them, however
\* its requests interleave between INSERT and SELECT: one log that grows at
\* its end, and acknowledgements of its prefixes.
ImplementsAckedLog == Log!Spec
=============================================================================
