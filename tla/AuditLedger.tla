---------------------------- MODULE AuditLedger ----------------------------
(***************************************************************************)
(* AuditLedger of audit.py with an HTTPSAnchorTransport: the ledger file,  *)
(* its head file, the optional external anchor file and the remote         *)
(* checkpoint file, written in that order by processes that take turns     *)
(* under flock(LOCK_EX), and the collector that acknowledges every record. *)
(* A process may die, or get an exception, between any two writes; a       *)
(* request may be lost, be handled after its sender gave up, or have its   *)
(* answer lost; and the host may be brought back from an older snapshot of *)
(* its disk while the collector keeps what it has.                         *)
(*                                                                         *)
(* A record carries a fresh timestamp, so no two records are equal: the    *)
(* payload of a record is its timestamp, taken from the counter "stamp".   *)
(***************************************************************************)
EXTENDS AnchorStore

CONSTANTS
  Writers,      \* processes that share the ledger files
  Absent,       \* a file that does not exist
  UseAnchor,    \* anchor_path is configured
  MaxRecords,   \* records that fit max_ledger_bytes
  MaxStamp,     \* bound on the number of appends attempted
  MaxRestores   \* bound on the number of disk rollbacks

ASSUME LedgerConstants ==
  /\ UseAnchor \in BOOLEAN
  /\ MaxRecords \in Nat /\ MaxStamp \in Nat /\ MaxRestores \in Nat
  /\ Absent \notin Seq(Nat) /\ Absent \notin Writers

VARIABLES
  files,     \* what is on the host's disk
  backup,    \* an earlier value of files, or Absent
  restores,  \* disk rollbacks so far
  lock,      \* holder of the exclusive lock, or Absent
  pc,        \* where each process is in _append_payload / reconcile_remote
  frame,     \* the checkpoint frame each process is working on
  rows,      \* the collector's table
  late,      \* requests still in the network after their sender gave up
  acked,     \* chains whose append or reconcile returned to its caller
  stamp      \* last timestamp used

ledgerVars == <<files, backup, restores, lock, pc, frame, rows, late, acked, stamp>>

Chain == Seq(Nat)
Frame == [sequence : Nat, previous : Chain, head : Chain]
NoFrame == [sequence |-> 0, previous |-> Genesis, head |-> Genesis]

\* intact: every line parses and names the hash of the line before it.
File == Chain \cup {Absent}
Files == [ledger : Chain, intact : BOOLEAN, head : File, anchor : File, remote : File]
Steps == {"idle", "line", "truncate", "head", "anchor", "submit", "sent",
          "accepted", "refused", "return"}

TypeOK ==
  /\ files \in Files
  /\ backup \in Files \cup {Absent}
  /\ restores \in Nat
  /\ lock \in Writers \cup {Absent}
  /\ pc \in [Writers -> Steps]
  /\ frame \in [Writers -> Frame]
  /\ rows \in Seq(Frame)
  /\ late \in SUBSET Frame
  /\ acked \in SUBSET Chain
  /\ stamp \in Nat

Init ==
  /\ files = [ledger |-> Genesis, intact |-> TRUE,
              head |-> Absent, anchor |-> Absent, remote |-> Absent]
  /\ backup = Absent
  /\ restores = 0
  /\ lock = Absent
  /\ pc = [w \in Writers |-> "idle"]
  /\ frame = [w \in Writers |-> NoFrame]
  /\ rows = <<>>
  /\ late = {}
  /\ acked = {}
  /\ stamp = 0

-----------------------------------------------------------------------------
(* _verify_unlocked. *)

\* verify_anchor=False: the chain of lines and the head file only.
LocalValid(f) == f.intact /\ (f.head # Absent => f.head = f.ledger)

AnchorValid(f) == UseAnchor /\ f.anchor # Absent => f.anchor = f.ledger

RemoteValid(f) ==
  \/ f.ledger = Genesis /\ f.remote = Absent
  \/ f.remote = f.ledger

Valid(f) == LocalValid(f) /\ AnchorValid(f) /\ RemoteValid(f)

-----------------------------------------------------------------------------
(* _append_payload and reconcile_remote, one action per durable effect.     *)

Goto(w, from, to) == pc[w] = from /\ pc' = [pc EXCEPT ![w] = to]

\* Take the lock, verify everything, build the record.  An append to a ledger
\* that does not verify, or that has no room left, raises and changes nothing.
AppendBegin(w) ==
  /\ lock = Absent
  /\ Valid(files)
  /\ Len(files.ledger) < MaxRecords
  /\ stamp < MaxStamp
  /\ Goto(w, "idle", "line")
  /\ lock' = w
  /\ stamp' = stamp + 1
  /\ frame' = [frame EXCEPT ![w] =
                 Checkpoint(files.ledger, Append(files.ledger, stamp + 1))]
  /\ UNCHANGED <<files, backup, restores, rows, late, acked>>

\* fh.write(encoded_record); fsync.  The line links to the record it was built
\* on, which is the last line only if nobody wrote in between.
AppendLine(w) ==
  /\ Goto(w, "line", "truncate")
  /\ files' = [files EXCEPT
                 !.ledger = Append(@, frame[w].head[Len(frame[w].head)]),
                 !.intact = @ /\ files.ledger = frame[w].previous]
  /\ UNCHANGED <<backup, restores, lock, frame, rows, late, acked, stamp>>

\* head_path.write_text opens the file with truncation ...
HeadTruncate(w) ==
  /\ Goto(w, "truncate", "head")
  /\ files' = [files EXCEPT !.head = Genesis]
  /\ UNCHANGED <<backup, restores, lock, frame, rows, late, acked, stamp>>

\* ... and then writes the hash; fsync.
HeadWrite(w) ==
  /\ Goto(w, "head", "anchor")
  /\ files' = [files EXCEPT !.head = frame[w].head]
  /\ UNCHANGED <<backup, restores, lock, frame, rows, late, acked, stamp>>

\* _write_anchor: written aside and renamed, so all or nothing.
WriteAnchor(w) ==
  /\ Goto(w, "anchor", "submit")
  /\ files' = [files EXCEPT !.anchor = IF UseAnchor THEN frame[w].head ELSE @]
  /\ UNCHANGED <<backup, restores, lock, frame, rows, late, acked, stamp>>

\* reconcile_remote: the anchors are not verified, the last record is sent again.
ReconcileBegin(w) ==
  /\ lock = Absent
  /\ LocalValid(files)
  /\ files.ledger # Genesis
  /\ Goto(w, "idle", "submit")
  /\ lock' = w
  /\ frame' = [frame EXCEPT ![w] =
                 Checkpoint(SubSeq(files.ledger, 1, Len(files.ledger) - 1), files.ledger)]
  /\ UNCHANGED <<files, backup, restores, rows, late, acked, stamp>>

Submit(w) ==
  /\ Goto(w, "submit", "sent")
  /\ UNCHANGED <<files, backup, restores, lock, frame, rows, late, acked, stamp>>

\* Mutant: the answer does not depend on the verdict.
ServeAlwaysAcks(w) ==
  /\ Goto(w, "sent", "accepted")
  /\ rows' = AfterAccept(rows, frame[w])
  /\ UNCHANGED <<files, backup, restores, lock, frame, late, acked, stamp>>

\* AnchorStore.accept commits before it answers on the same connection.
Serve(w) ==
  /\ Goto(w, "sent", IF Accepts(rows, frame[w]) THEN "accepted" ELSE "refused")
  /\ rows' = AfterAccept(rows, frame[w])
  /\ UNCHANGED <<files, backup, restores, lock, frame, late, acked, stamp>>

\* check_ack passes: the acknowledgement becomes the remote checkpoint.
WriteCheckpoint(w) ==
  /\ Goto(w, "accepted", "return")
  /\ files' = [files EXCEPT !.remote = frame[w].head]
  /\ UNCHANGED <<backup, restores, lock, frame, rows, late, acked, stamp>>

Return(w) ==
  /\ Goto(w, "return", "idle")
  /\ lock' = Absent
  /\ acked' = acked \cup {frame[w].head}
  /\ frame' = [frame EXCEPT ![w] = NoFrame]
  /\ UNCHANGED <<files, backup, restores, rows, late, stamp>>

\* The request of a process that stops waiting stays in the network.
Abandoned(w) == IF pc[w] = "sent" THEN {frame[w]} ELSE {}

\* An exception (refusal, timeout, lost answer, full disk) or the death of the
\* process: the lock is released and nothing is undone.
Fail(w) ==
  /\ pc[w] # "idle"
  /\ pc' = [pc EXCEPT ![w] = "idle"]
  /\ lock' = Absent
  /\ late' = late \cup Abandoned(w)
  /\ frame' = [frame EXCEPT ![w] = NoFrame]
  /\ UNCHANGED <<files, backup, restores, rows, acked, stamp>>

\* The process dies while the line is being written: a partial last line.
TearLine(w) ==
  /\ Goto(w, "line", "idle")
  /\ lock' = Absent
  /\ files' = [files EXCEPT !.intact = FALSE]
  /\ frame' = [frame EXCEPT ![w] = NoFrame]
  /\ UNCHANGED <<backup, restores, rows, late, acked, stamp>>

-----------------------------------------------------------------------------
(* The environment. *)

\* A request reaches the collector after its sender gave up on it.
ServeLate(m) ==
  /\ m \in late
  /\ rows' = AfterAccept(rows, m)
  /\ late' = late \ {m}
  /\ UNCHANGED <<files, backup, restores, lock, pc, frame, acked, stamp>>

\* The host's disk is imaged at some moment ...
TakeBackup ==
  /\ restores < MaxRestores
  /\ backup = Absent
  /\ backup' = files
  /\ UNCHANGED <<files, restores, lock, pc, frame, rows, late, acked, stamp>>

\* ... and the host is later brought back from that image.
Restore ==
  /\ backup # Absent
  /\ restores < MaxRestores
  /\ restores' = restores + 1
  /\ files' = backup
  /\ backup' = Absent
  /\ pc' = [w \in Writers |-> "idle"]
  /\ lock' = Absent
  /\ late' = late \cup UNION {Abandoned(w) : w \in Writers}
  /\ frame' = [w \in Writers |-> NoFrame]
  /\ UNCHANGED <<rows, acked, stamp>>

WriterStep(w) ==
  \/ AppendBegin(w)
  \/ AppendLine(w)
  \/ HeadTruncate(w)
  \/ HeadWrite(w)
  \/ WriteAnchor(w)
  \/ ReconcileBegin(w)
  \/ Submit(w)
  \/ Serve(w)
  \/ WriteCheckpoint(w)
  \/ Return(w)
  \/ Fail(w)
  \/ TearLine(w)

Next ==
  \/ \E w \in Writers : WriterStep(w)
  \/ \E m \in late : ServeLate(m)
  \/ TakeBackup
  \/ Restore

Spec == Init /\ [][Next]_ledgerVars

-----------------------------------------------------------------------------
(* Safety. *)

\* Every append or reconcile that returned has its record at the collector.
AckedAnchored == \A c \in acked : Anchored(rows, c)

IsPrefixOf(c, d) == Len(c) <= Len(d) /\ c = SubSeq(d, 1, Len(c))

\* The chains callers were told about never fork, not even when the host is
\* brought back from an older disk image and appends to that older ledger.
SingleHistory == \A c, d \in acked : IsPrefixOf(c, d) \/ IsPrefixOf(d, c)

\* A ledger that verifies while nobody holds the lock is wholly at the
\* collector: verify() cannot bless a record that was never acknowledged.
VerifiedIsAnchored ==
  lock = Absent /\ Valid(files) /\ files.ledger # Genesis
    => Anchored(rows, files.ledger)

\* Fail closed: a line is only ever written behind a ledger whose last record
\* the collector has, so an undelivered checkpoint stops every later append.
FailClosed ==
  [][restores' = restores /\ files'.ledger # files.ledger
       => files.ledger = Genesis \/ Anchored(rows, files.ledger)]_ledgerVars

-----------------------------------------------------------------------------
(* The inductive invariant behind the theorems of AuditProofs.               *)

\* A frame sends one record: its head is its previous chain and one payload.
WellFormed(m) ==
  /\ m.sequence = Len(m.head)
  /\ Len(m.head) > 0
  /\ m.previous = SubSeq(m.head, 1, Len(m.head) - 1)

FramesWellFormed ==
  /\ \A w \in Writers : pc[w] # "idle" => WellFormed(frame[w])
  /\ \A m \in late : WellFormed(m)

\* flock: whoever is inside an operation holds the lock.
LockHeld == \A w \in Writers : pc[w] # "idle" => lock = w

\* The collector's rows are numbered from 1 and each continues those before it.
RowsChained ==
  \A i \in 1..Len(rows) :
    /\ rows[i].sequence = i
    /\ Len(rows[i].head) = i
    /\ \A j \in i..Len(rows) : rows[i].head = SubSeq(rows[j].head, 1, i)

\* A remote checkpoint on disk, or in a disk image, is backed by the collector.
CheckpointBacked(f) == f.remote # Absent => Anchored(rows, f.remote)

CheckpointsBacked ==
  /\ CheckpointBacked(files)
  /\ backup # Absent => CheckpointBacked(backup)
  /\ \A w \in Writers :
       pc[w] \in {"accepted", "return"} => Anchored(rows, frame[w].head)

\* A process about to write its line still sees the ledger it verified.
LineOnValid ==
  \A w \in Writers :
    pc[w] = "line" => RemoteValid(files)

LedgerInv ==
  /\ TypeOK
  /\ FramesWellFormed
  /\ LockHeld
  /\ RowsChained
  /\ CheckpointsBacked
  /\ LineOnValid
  /\ AckedAnchored

\* The collector's table, read as one log, with the callers' answers.
Log == INSTANCE AckedLog WITH log <- LastHead(rows), told <- acked

\* The ledger with its crashes, lost messages and rollbacks implements the log.
ImplementsAckedLog == Log!Spec

-----------------------------------------------------------------------------
(* Liveness.  An operator keeps running recovery while it is refused, and a *)
(* step that is possible again and again is not stopped every single time   *)
(* by a failure of the network or the process.                             *)

FairSpec ==
  /\ Spec
  /\ \A w \in Writers :
       /\ SF_ledgerVars(ReconcileBegin(w) /\ ~RemoteValid(files))
       /\ SF_ledgerVars(Submit(w))
       /\ SF_ledgerVars(Serve(w))
       /\ SF_ledgerVars(WriteCheckpoint(w))
       /\ WF_ledgerVars(Return(w))
       /\ WF_ledgerVars(Fail(w) /\ pc[w] = "refused")

\* A delivery that failed does not block the ledger for good: as long as the
\* local files agree, recovery brings the ledger back to a state that verifies.
ReconcileRestoresAppends ==
  (lock = Absent /\ LocalValid(files) /\ AnchorValid(files) /\ restores = 0) ~> Valid(files)
=============================================================================
