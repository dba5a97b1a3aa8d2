----------------------------- MODULE MCApproval -----------------------------
(***************************************************************************)
(* The approval gate with what it relies on elsewhere: the input machines  *)
(* of the approval device's firmware (the BOOT button's click decoder with *)
(* the test it is armed by, and the YES/NO buttons), and the Cloudflare    *)
(* worker its audit records may be anchored at.  Their models share no     *)
(* state: each behaviour is of one of the four.                            *)
(***************************************************************************)
EXTENDS MCApprovalGate, ButtonMachine

CONSTANTS
  LongPress, Quiet, Deadline, ClickTime, ClickGap, Challenges,  \* BootClicks
  Posts, Payloads, MaxLength                                    \* CloudflareAnchor

VARIABLES
  part,  \* "gate", "clicks", "buttons" or "worker"
  clickNow, connected, gesture, arm, challenge, event, clickSamples, subject,
  checkpoints, post, acked

Clicks == INSTANCE BootClicks WITH
  now <- clickNow, samples <- clickSamples, MaxTime <- ClickTime, MaxGap <- ClickGap
Worker == INSTANCE CloudflareAnchor WITH request <- post, Requests <- Posts

ASSUME DeviceAssumption == Clicks!ClickConstants /\ Worker!WorkerConstants

clickVars == <<clickNow, connected, gesture, arm, challenge, event, clickSamples, subject>>
workerVars == <<checkpoints, post, acked>>

MCInit ==
  /\ part \in {"gate", "clicks", "buttons", "worker"}
  /\ Init /\ Clicks!Init /\ ButtonInit /\ Worker!Init
  /\ part # "gate" => policy = p1

MCNext ==
  \/ part = "gate" /\ Next /\ UNCHANGED <<part, clickVars, buttonVars, workerVars>>
  \/ part = "clicks" /\ Clicks!Next /\ UNCHANGED <<part, vars, buttonVars, workerVars>>
  \/ part = "buttons" /\ ButtonNext /\ UNCHANGED <<part, vars, clickVars, workerVars>>
  \/ part = "worker" /\ Worker!Next /\ UNCHANGED <<part, vars, clickVars, buttonVars>>

MCSpec == MCInit /\ [][MCNext]_<<part, vars, clickVars, buttonVars, workerVars>>

\* The click test answers its own challenge with a gesture that was made in time:
\* two clicks and quiet for YES, three for NO (clicks_step).
AnswersAreGestures == Clicks!AnswersAreGestures

\* The Cloudflare worker implements the log of acknowledged checkpoints:
\* overlapping POSTs, repeated or out of order, extend one chain.
ImplementsAckedLog == Worker!ImplementsAckedLog

\* Callers, challenges and posts are interchangeable; the same two values stand
\* for each, and one permutation moves them all.
Interchangeable == Permutations(Callers)
=============================================================================
