---------------------------- MODULE AnchorStore ----------------------------
(***************************************************************************)
(* The checkpoint collector of anchor_service.py: one SQLite table whose   *)
(* rows are the frames accepted for one session.  SHA-256 is collision     *)
(* free here, so the hash of a record is modelled by the chain of payloads *)
(* it commits to: a head is a sequence of payloads, the previous_hash of a *)
(* record is the chain without its last payload, and None is Genesis.  The *)
(* HMAC on a frame is a function of its other fields, so two frames are    *)
(* equal exactly when their sequence and head are.                         *)
(***************************************************************************)
EXTENDS Naturals, Sequences

CONSTANT StoreCapacity   \* rows the collector's storage budget has room for

ASSUME StoreCapacityAssumption == StoreCapacity \in Nat

Genesis == <<>>

\* checkpoint(): the frame a ledger sends for the record that extends
\* "previous" to "head".
Checkpoint(previous, head) ==
  [sequence |-> Len(head), previous |-> previous, head |-> head]

LastSequence(rows) == IF rows = <<>> THEN 0 ELSE rows[Len(rows)].sequence

LastHead(rows) == IF rows = <<>> THEN Genesis ELSE rows[Len(rows)].head

\* Mutant: a retry is not recognised.
RetryUnknown(rows, m) == FALSE

\* A lost acknowledgement: exactly the latest committed frame, sent again.
ExactLastRetry(rows, m) == rows # <<>> /\ rows[Len(rows)] = m

ExtendsHistory(rows, m) ==
  /\ m.sequence = LastSequence(rows) + 1
  /\ m.previous = LastHead(rows)
  /\ Len(rows) < StoreCapacity

\* The collector answers frame m with an acknowledgement.
Accepts(rows, m) == ExactLastRetry(rows, m) \/ ExtendsHistory(rows, m)

\* Mutant: INSERT OR REPLACE under the frame's number.
AfterReplace(rows, m) ==
  IF rows # <<>> /\ LastSequence(rows) = m.sequence
  THEN [rows EXCEPT ![Len(rows)] = m]
  ELSE IF ExtendsHistory(rows, m) THEN Append(rows, m) ELSE rows

\* The table once frame m has been handled; a refused frame rolls back.
AfterAccept(rows, m) ==
  IF ~ExactLastRetry(rows, m) /\ ExtendsHistory(rows, m)
  THEN Append(rows, m)
  ELSE rows

\* The chain of payloads h is one the collector has committed.
Anchored(rows, h) == \E i \in 1..Len(rows) : rows[i].head = h

=============================================================================
