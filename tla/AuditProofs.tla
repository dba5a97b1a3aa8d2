----------------------------- MODULE AuditProofs ----------------------------
(***************************************************************************)
(* What the audit ledger guarantees for any number of processes, records,  *)
(* disk rollbacks and for any collector capacity; and what the egress      *)
(* broker, which answers only for what it has recorded, guarantees for any *)
(* number of clients, serving threads, requests, hosts and addresses.      *)
(***************************************************************************)
EXTENDS AuditLedger, EgressBroker, TLAPS

\* The chain an append builds continues the ledger it was built on.
LEMMA AppendedIsWellFormed ==
  ASSUME NEW c \in Chain, NEW x \in Nat
  PROVE  /\ Checkpoint(c, Append(c, x)) \in Frame
         /\ WellFormed(Checkpoint(c, Append(c, x)))
  BY DEF Checkpoint, WellFormed, Frame, Chain

\* The frame a reconcile rebuilds from the last line is well formed.
LEMMA LastRecordIsWellFormed ==
  ASSUME NEW c \in Chain, c # Genesis
  PROVE  /\ Checkpoint(SubSeq(c, 1, Len(c) - 1), c) \in Frame
         /\ WellFormed(Checkpoint(SubSeq(c, 1, Len(c) - 1), c))
  BY DEF Checkpoint, WellFormed, Frame, Chain, Genesis

\* A new ledger, with no file written and an empty collector, satisfies LedgerInv.
LEMMA InitInv == Init => LedgerInv
  BY LedgerConstants DEF Init, LedgerInv, TypeOK, FramesWellFormed, LockHeld, RowsChained,
     CheckpointsBacked, CheckpointBacked, LineOnValid, AckedAnchored,
     Files, File, Frame, NoFrame, Chain, Genesis, Steps, Anchored

\* A frame never removes a row, and an acknowledged frame has its row.
LEMMA AcceptKeepsRows ==
  ASSUME NEW r \in Seq(Frame), NEW m \in Frame
  PROVE  /\ AfterAccept(r, m) \in Seq(Frame)
         /\ \A h \in Chain : Anchored(r, h) => Anchored(AfterAccept(r, m), h)
         /\ Accepts(r, m) => Anchored(AfterAccept(r, m), m.head)
  BY DEF AfterAccept, Accepts, ExactLastRetry, ExtendsHistory, Anchored

\* Handling a well-formed frame keeps the rows numbered and chained.
LEMMA AcceptKeepsChain ==
  ASSUME TypeOK, RowsChained, NEW m \in Frame, WellFormed(m),
         rows' = AfterAccept(rows, m)
  PROVE  RowsChained'
<1>1. CASE rows' = rows
  BY <1>1 DEF RowsChained
<1>2. CASE rows' = Append(rows, m) /\ ExtendsHistory(rows, m)
  <2> DEFINE n == Len(rows)
  <2>1. n \in Nat /\ Len(rows') = n + 1 /\ rows'[n + 1] = m
        /\ \A i \in 1..n : rows'[i] = rows[i]
    BY <1>2 DEF TypeOK
  <2>2. m.sequence = n + 1 /\ m.previous = LastHead(rows)
    BY <1>2, <2>1 DEF ExtendsHistory, LastSequence, RowsChained, TypeOK
  <2>3. m.head \in Chain /\ Len(m.head) = n + 1 /\ m.previous = SubSeq(m.head, 1, n)
    BY <2>1, <2>2 DEF WellFormed, Frame
  <2>4. ASSUME NEW i \in 1..n
        PROVE  rows[i].head = SubSeq(m.head, 1, i)
    <3>1. rows[n].head = SubSeq(m.head, 1, n) /\ rows[n].head \in Chain
      BY <2>1, <2>2, <2>3 DEF LastHead, TypeOK, Frame
    <3>2. rows[i].head = SubSeq(rows[n].head, 1, i)
      BY <2>1 DEF RowsChained
    <3> QED
      BY <3>1, <3>2, <2>1, <2>3 DEF Chain
  <2>5. m.head = SubSeq(m.head, 1, n + 1)
    BY <2>1, <2>3 DEF Chain
  <2>6. SUFFICES ASSUME NEW i \in 1..n + 1
                 PROVE  /\ rows'[i].sequence = i
                        /\ Len(rows'[i].head) = i
                        /\ \A j \in i..n + 1 : rows'[i].head = SubSeq(rows'[j].head, 1, i)
    BY <2>1 DEF RowsChained
  <2>7. CASE i = n + 1
    BY <2>1, <2>2, <2>3, <2>5, <2>7
  <2>8. CASE i \in 1..n
    <3>1. rows'[i].sequence = i /\ Len(rows'[i].head) = i
      BY <2>1, <2>8 DEF RowsChained
    <3>2. ASSUME NEW j \in i..n + 1
          PROVE  rows'[i].head = SubSeq(rows'[j].head, 1, i)
      <4>1. CASE j = n + 1
        BY <4>1, <2>1, <2>4, <2>8
      <4>2. CASE j \in i..n
        BY <4>2, <2>1, <2>8 DEF RowsChained
      <4> QED
        BY <4>1, <4>2, <2>1
    <3> QED
      BY <3>1, <3>2
  <2> QED
    BY <2>7, <2>8, <2>1
<1> QED
  BY <1>1, <1>2 DEF AfterAccept

\* Every step of every process, and of the environment, keeps the invariant.
LEMMA NextInv == LedgerInv /\ [Next]_ledgerVars => LedgerInv'
<1> SUFFICES ASSUME LedgerInv, [Next]_ledgerVars
             PROVE  LedgerInv'
  OBVIOUS
<1> USE DEF LedgerInv
<1>1. ASSUME NEW w \in Writers, AppendBegin(w)
      PROVE  LedgerInv'
  <2>1. files.ledger \in Chain /\ stamp + 1 \in Nat
    BY DEF TypeOK, Files
  <2>2. frame'[w] \in Frame /\ WellFormed(frame'[w]) /\ frame' \in [Writers -> Frame]
    BY <1>1, <2>1, AppendedIsWellFormed DEF AppendBegin, TypeOK
  <2>3. TypeOK'
    BY <1>1, <2>1, <2>2 DEF TypeOK, AppendBegin, Goto, Steps
  <2>4. FramesWellFormed' /\ LockHeld'
    BY <1>1, <2>2, LedgerConstants DEF TypeOK, AppendBegin, Goto, FramesWellFormed, LockHeld
  <2>5. CheckpointsBacked' /\ RowsChained' /\ AckedAnchored'
    BY <1>1 DEF TypeOK, AppendBegin, Goto, CheckpointsBacked, CheckpointBacked, RowsChained,
                AckedAnchored, LockHeld
  <2>6. LineOnValid'
    BY <1>1 DEF TypeOK, AppendBegin, Goto, LineOnValid, Valid, RemoteValid
  <2> QED
    BY <2>3, <2>4, <2>5, <2>6
<1>2. ASSUME NEW w \in Writers, ReconcileBegin(w)
      PROVE  LedgerInv'
  <2>1. files.ledger \in Chain
    BY DEF TypeOK, Files
  <2>2. frame'[w] \in Frame /\ WellFormed(frame'[w]) /\ frame' \in [Writers -> Frame]
    BY <1>2, <2>1, LastRecordIsWellFormed DEF ReconcileBegin, TypeOK
  <2>3. TypeOK'
    BY <1>2, <2>1, <2>2 DEF TypeOK, ReconcileBegin, Goto, Steps
  <2>4. FramesWellFormed' /\ LockHeld'
    BY <1>2, <2>2, LedgerConstants DEF TypeOK, ReconcileBegin, Goto, FramesWellFormed, LockHeld
  <2>5. CheckpointsBacked' /\ RowsChained' /\ AckedAnchored' /\ LineOnValid'
    BY <1>2 DEF TypeOK, ReconcileBegin, Goto, CheckpointsBacked, CheckpointBacked, RowsChained,
                AckedAnchored, LockHeld, LineOnValid, RemoteValid
  <2> QED
    BY <2>3, <2>4, <2>5
<1>3. ASSUME NEW w \in Writers,
             AppendLine(w) \/ HeadTruncate(w) \/ HeadWrite(w) \/ WriteAnchor(w)
      PROVE  LedgerInv'
  <2>1. files' \in Files /\ files'.remote = files.remote
    <3> DEFINE f == frame[w]
    <3>0. files \in Files /\ f \in Frame
      BY DEF TypeOK
    <3>1. CASE AppendLine(w)
      <4>1. f.head \in Chain /\ Len(f.head) > 0
        BY <3>0, <3>1 DEF AppendLine, Goto, FramesWellFormed, WellFormed, Frame
      <4>2. Append(files.ledger, f.head[Len(f.head)]) \in Chain
        BY <3>0, <4>1 DEF Files, Chain
      <4>3. (files.intact /\ files.ledger = f.previous) \in BOOLEAN
        OBVIOUS
      <4> QED
        BY <3>0, <3>1, <4>2, <4>3, Zenon DEF AppendLine, Files
    <3>2. CASE HeadTruncate(w)
      <4>1. Genesis \in File
        BY DEF Genesis, File, Chain
      <4> QED
        BY <3>0, <3>2, <4>1 DEF HeadTruncate, Files
    <3>3. CASE HeadWrite(w)
      BY <3>0, <3>3 DEF HeadWrite, Files, File, Frame
    <3>4. CASE WriteAnchor(w)
      BY <3>0, <3>4 DEF WriteAnchor, Files, File, Frame
    <3> QED
      BY <1>3, <3>1, <3>2, <3>3, <3>4
  <2>2. pc' \in [Writers -> Steps] /\ pc[w] # "idle" /\ pc'[w] # "idle"
        /\ pc'[w] \notin {"line", "accepted", "return"}
        /\ \A v \in Writers : v # w => pc'[v] = pc[v]
    BY <1>3 DEF TypeOK, AppendLine, HeadTruncate, HeadWrite, WriteAnchor, Goto, Steps
  <2>3. UNCHANGED <<backup, restores, lock, frame, rows, late, acked, stamp>>
    BY <1>3 DEF AppendLine, HeadTruncate, HeadWrite, WriteAnchor
  <2>4. \A v \in Writers : pc'[v] # "line"
    BY <2>2 DEF LockHeld
  <2>5. TypeOK'
    BY <2>1, <2>2, <2>3 DEF TypeOK
  <2>6. FramesWellFormed' /\ LockHeld' /\ RowsChained' /\ AckedAnchored' /\ LineOnValid'
    BY <2>2, <2>3, <2>4 DEF FramesWellFormed, LockHeld, RowsChained, AckedAnchored, LineOnValid
  <2>7. CheckpointsBacked'
    BY <2>1, <2>2, <2>3 DEF CheckpointsBacked, CheckpointBacked
  <2> QED
    BY <2>5, <2>6, <2>7
<1>4. ASSUME NEW w \in Writers, Submit(w)
      PROVE  LedgerInv'
  BY <1>4 DEF TypeOK, Submit, Goto, Steps, FramesWellFormed, LockHeld, RowsChained,
              CheckpointsBacked, CheckpointBacked, AckedAnchored, LineOnValid, RemoteValid
<1>5. ASSUME NEW m \in Frame, WellFormed(m), rows' = AfterAccept(rows, m)
      PROVE  /\ rows' \in Seq(Frame) /\ RowsChained'
             /\ \A h \in Chain : Anchored(rows, h) => Anchored(rows', h)
             /\ Accepts(rows, m) => Anchored(rows', m.head)
  BY <1>5, AcceptKeepsRows, AcceptKeepsChain, Zenon DEF TypeOK
<1>6. ASSUME NEW w \in Writers, Serve(w)
      PROVE  LedgerInv'
  <2>1. frame[w] \in Frame /\ WellFormed(frame[w]) /\ rows' = AfterAccept(rows, frame[w])
    BY <1>6 DEF TypeOK, Serve, Goto, FramesWellFormed
  <2>2. /\ rows' \in Seq(Frame) /\ RowsChained'
        /\ \A h \in Chain : Anchored(rows, h) => Anchored(rows', h)
        /\ Accepts(rows, frame[w]) => Anchored(rows', frame[w].head)
    BY <2>1, <1>5
  <2>3. TypeOK'
    BY <1>6, <2>2 DEF TypeOK, Serve, Goto, Steps
  <2>4. FramesWellFormed' /\ LockHeld' /\ LineOnValid'
    BY <1>6 DEF TypeOK, Serve, Goto, FramesWellFormed, LockHeld, LineOnValid, RemoteValid
  <2>5. AckedAnchored'
    BY <1>6, <2>2 DEF TypeOK, Serve, AckedAnchored
  <2>6. CheckpointsBacked'
    BY <1>6, <2>2 DEF TypeOK, Files, File, Frame, Serve, Goto, CheckpointsBacked, CheckpointBacked
  <2> QED
    BY <2>2, <2>3, <2>4, <2>5, <2>6
<1>7. ASSUME NEW w \in Writers, WriteCheckpoint(w)
      PROVE  LedgerInv'
  <2>1. TypeOK'
    BY <1>7, Zenon DEF TypeOK, Files, File, Frame, WriteCheckpoint, Goto, Steps
  <2>2. FramesWellFormed' /\ LockHeld' /\ LineOnValid' /\ RowsChained' /\ AckedAnchored'
    BY <1>7 DEF TypeOK, WriteCheckpoint, Goto, FramesWellFormed, LockHeld, LineOnValid, RowsChained,
                AckedAnchored
  <2>3. CheckpointsBacked'
    BY <1>7 DEF TypeOK, Files, WriteCheckpoint, Goto, CheckpointsBacked, CheckpointBacked
  <2> QED
    BY <2>1, <2>2, <2>3
<1>8. NoFrame \in Frame
  BY DEF NoFrame, Frame, Chain, Genesis
<1>9. ASSUME NEW w \in Writers, Return(w)
      PROVE  LedgerInv'
  <2>1. TypeOK'
    BY <1>8, <1>9 DEF TypeOK, Frame, Return, Goto, Steps
  <2>2. FramesWellFormed' /\ LockHeld' /\ LineOnValid' /\ RowsChained'
    BY <1>9 DEF TypeOK, Return, Goto, FramesWellFormed, LockHeld, LineOnValid, RowsChained,
                RemoteValid
  <2>3. AckedAnchored' /\ CheckpointsBacked'
    BY <1>9 DEF TypeOK, Return, Goto, AckedAnchored, CheckpointsBacked, CheckpointBacked
  <2> QED
    BY <2>1, <2>2, <2>3
<1>10. ASSUME NEW w \in Writers, Fail(w) \/ TearLine(w)
      PROVE  LedgerInv'
  <2>1. TypeOK'
    <3>1. files' \in Files
      BY <1>10, Zenon DEF TypeOK, Files, Fail, TearLine
    <3>2. late' \in SUBSET Frame
      BY <1>10 DEF TypeOK, Fail, TearLine, Abandoned
    <3> QED
      BY <1>8, <1>10, <3>1, <3>2 DEF TypeOK, Fail, TearLine, Goto, Steps
  <2>2. FramesWellFormed' /\ LockHeld' /\ LineOnValid' /\ RowsChained' /\ AckedAnchored'
    BY <1>10 DEF TypeOK, Files, Fail, TearLine, Goto, Abandoned, FramesWellFormed, LockHeld,
                 LineOnValid, RowsChained, AckedAnchored, RemoteValid
  <2>3. CheckpointsBacked'
    BY <1>10 DEF TypeOK, Files, Fail, TearLine, Goto, CheckpointsBacked, CheckpointBacked
  <2> QED
    BY <2>1, <2>2, <2>3
<1>11. ASSUME NEW m \in late, ServeLate(m)
      PROVE  LedgerInv'
  <2>1. m \in Frame /\ WellFormed(m) /\ rows' = AfterAccept(rows, m)
    BY <1>11 DEF TypeOK, ServeLate, FramesWellFormed
  <2>2. /\ rows' \in Seq(Frame) /\ RowsChained'
        /\ \A h \in Chain : Anchored(rows, h) => Anchored(rows', h)
    BY <2>1, <1>5
  <2>3. TypeOK' /\ FramesWellFormed' /\ LockHeld' /\ LineOnValid'
    BY <1>11, <2>2 DEF TypeOK, ServeLate, FramesWellFormed, LockHeld, LineOnValid, RemoteValid
  <2>4. AckedAnchored' /\ CheckpointsBacked'
    BY <1>11, <2>2 DEF TypeOK, Files, File, Frame, ServeLate, AckedAnchored, CheckpointsBacked,
                       CheckpointBacked
  <2> QED
    BY <2>2, <2>3, <2>4
<1>12. CASE TakeBackup
  BY <1>12 DEF TypeOK, TakeBackup, FramesWellFormed, LockHeld, RowsChained, CheckpointsBacked,
               CheckpointBacked, AckedAnchored, LineOnValid, RemoteValid
<1>13. CASE Restore
  <2>1. TypeOK'
    BY <1>8, <1>13 DEF TypeOK, Restore, Steps, Abandoned
  <2>2. FramesWellFormed' /\ LockHeld' /\ LineOnValid' /\ RowsChained' /\ AckedAnchored'
    BY <1>13 DEF TypeOK, Restore, Abandoned, FramesWellFormed, LockHeld, LineOnValid, RowsChained,
                 AckedAnchored
  <2>3. CheckpointsBacked'
    BY <1>13 DEF TypeOK, Restore, CheckpointsBacked, CheckpointBacked
  <2> QED
    BY <2>1, <2>2, <2>3
<1>14. CASE UNCHANGED ledgerVars
  BY <1>14 DEF ledgerVars, TypeOK, FramesWellFormed, LockHeld, RowsChained, CheckpointsBacked,
               CheckpointBacked, AckedAnchored, LineOnValid, RemoteValid
<1> QED
  BY <1>1, <1>2, <1>3, <1>4, <1>6, <1>7, <1>9, <1>10, <1>11, <1>12, <1>13, <1>14
     DEF Next, WriterStep

\* LedgerInv, from which the properties below follow, holds in every state the
\* processes, the network and disk rollbacks can reach.
THEOREM LedgerInvariant == Spec => []LedgerInv
  BY InitInv, NextInv, PTL DEF Spec

\* The files, the collector's table and the processes' locals keep their types.
THEOREM TypeCorrect == Spec => []TypeOK
<1>1. LedgerInv => TypeOK
  BY DEF LedgerInv
<1> QED
  BY <1>1, LedgerInvariant, PTL

\* _append_payload and reconcile_remote return only after the collector has
\* committed the record.
THEOREM AcknowledgedIsAnchored == Spec => []AckedAnchored
<1>1. LedgerInv => AckedAnchored
  BY DEF LedgerInv
<1> QED
  BY <1>1, LedgerInvariant, PTL

\* However the host crashes or is rolled back, the chains reported to callers
\* are prefixes of one another.
THEOREM NoForkedHistory == Spec => []SingleHistory
<1>1. LedgerInv => SingleHistory
  <2> SUFFICES ASSUME LedgerInv, NEW c \in acked, NEW d \in acked
               PROVE  IsPrefixOf(c, d) \/ IsPrefixOf(d, c)
    BY DEF SingleHistory
  <2>1. PICK i \in 1..Len(rows) : rows[i].head = c
    BY DEF LedgerInv, AckedAnchored, Anchored
  <2>2. PICK j \in 1..Len(rows) : rows[j].head = d
    BY DEF LedgerInv, AckedAnchored, Anchored
  <2>3. Len(rows) \in Nat
    BY DEF LedgerInv, TypeOK
  <2>4. CASE i <= j
    BY <2>1, <2>2, <2>3, <2>4 DEF LedgerInv, RowsChained, IsPrefixOf
  <2>5. CASE j <= i
    BY <2>1, <2>2, <2>3, <2>5 DEF LedgerInv, RowsChained, IsPrefixOf
  <2> QED
    BY <2>3, <2>4, <2>5
<1> QED
  BY <1>1, LedgerInvariant, PTL

\* verify() never accepts a record the collector has not acknowledged.
THEOREM VerificationIsBacked == Spec => []VerifiedIsAnchored
<1>1. LedgerInv => VerifiedIsAnchored
  BY LedgerConstants DEF LedgerInv, VerifiedIsAnchored, Valid, RemoteValid, CheckpointsBacked,
     CheckpointBacked, TypeOK, Files, Chain
<1> QED
  BY <1>1, LedgerInvariant, PTL

\* No line follows a record the collector does not have.
THEOREM AppendsFailClosed == Spec => FailClosed
<1>1. LedgerInv /\ [Next]_ledgerVars =>
        [restores' = restores /\ files'.ledger # files.ledger
           => files.ledger = Genesis \/ Anchored(rows, files.ledger)]_ledgerVars
  <2> SUFFICES ASSUME LedgerInv, Next, restores' = restores, files'.ledger # files.ledger
               PROVE  files.ledger = Genesis \/ Anchored(rows, files.ledger)
    BY DEF ledgerVars
  <2>1. ASSUME NEW w \in Writers, AppendLine(w)
        PROVE  files.ledger = Genesis \/ Anchored(rows, files.ledger)
    BY <2>1, LedgerConstants DEF LedgerInv, AppendLine, Goto, LineOnValid, RemoteValid,
       CheckpointsBacked, CheckpointBacked, TypeOK, Files, Chain
  <2>2. ASSUME NEW w \in Writers, WriterStep(w), ~AppendLine(w)
        PROVE  files'.ledger = files.ledger
    BY <2>2 DEF WriterStep, AppendBegin, HeadTruncate, HeadWrite, WriteAnchor, ReconcileBegin,
       Submit, Serve, WriteCheckpoint, Return, Fail, TearLine, LedgerInv, TypeOK, Files
  <2>3. (\E m \in late : ServeLate(m)) \/ TakeBackup => files'.ledger = files.ledger
    BY DEF ServeLate, TakeBackup
  <2>4. ~Restore
    BY DEF Restore, LedgerInv, TypeOK
  <2> QED
    BY <2>1, <2>2, <2>3, <2>4 DEF Next
<1> QED
  BY <1>1, LedgerInvariant, PTL DEF Spec, FailClosed

\* A frame the collector handles is one more log entry, or none.
LEMMA AcceptIsCommit ==
  ASSUME LedgerInv, NEW m \in Frame, WellFormed(m), rows' = AfterAccept(rows, m), acked' = acked
  PROVE  [Log!Next]_<<LastHead(rows), acked>>
<1>1. CASE rows' = rows
  BY <1>1
<1>2. CASE rows' = Append(rows, m) /\ ExtendsHistory(rows, m)
  <2>1. rows \in Seq(Frame) /\ m.head \in Chain
    BY DEF LedgerInv, TypeOK, Frame
  <2>2. LastHead(rows)' = m.head
    BY <1>2, <2>1 DEF LastHead
  <2>3. LastHead(rows) = SubSeq(m.head, 1, Len(m.head) - 1)
    BY <1>2 DEF ExtendsHistory, WellFormed
  <2>4. Len(LastHead(rows)) = Len(m.head) - 1 /\ Len(m.head) \in Nat
    BY <2>1, <2>3 DEF WellFormed, Chain
  <2>5. Log!Commit
    BY <2>1, <2>2, <2>3, <2>4 DEF Log!Commit, Chain
  <2> QED
    BY <2>5 DEF Log!Next
<1> QED
  BY <1>1, <1>2 DEF AfterAccept

\* Crashes, retries, late requests and rollbacks are invisible to the callers
\* of the ledger: what they see is a log that only grows.
THEOREM LedgerImplementsLog == Spec => ImplementsAckedLog
<1>1. Init => Log!Init
  BY DEF Init, Log!Init, LastHead, Genesis
<1>2. LedgerInv /\ [Next]_ledgerVars => [Log!Next]_<<LastHead(rows), acked>>
  <2> SUFFICES ASSUME LedgerInv, [Next]_ledgerVars
               PROVE  [Log!Next]_<<LastHead(rows), acked>>
    OBVIOUS
  <2>1. ASSUME NEW w \in Writers, Serve(w)
        PROVE  [Log!Next]_<<LastHead(rows), acked>>
    BY <2>1, AcceptIsCommit DEF Serve, Goto, LedgerInv, TypeOK, FramesWellFormed
  <2>2. ASSUME NEW m \in late, ServeLate(m)
        PROVE  [Log!Next]_<<LastHead(rows), acked>>
    BY <2>2, AcceptIsCommit DEF ServeLate, LedgerInv, TypeOK, FramesWellFormed
  <2>3. ASSUME NEW w \in Writers, Return(w)
        PROVE  [Log!Next]_<<LastHead(rows), acked>>
    <3>1. PICK i \in 1..Len(rows) : rows[i].head = frame[w].head
      BY <2>3 DEF Return, Goto, LedgerInv, CheckpointsBacked, Anchored
    <3>2. Len(rows) \in Nat /\ Len(rows) >= i /\ rows # <<>>
      BY DEF LedgerInv, TypeOK
    <3>3. rows[i].head = SubSeq(LastHead(rows), 1, i) /\ Len(LastHead(rows)) = Len(rows)
      BY <3>2 DEF LedgerInv, RowsChained, LastHead
    <3>4. Log!Tell
      BY <2>3, <3>1, <3>2, <3>3 DEF Return, Log!Tell
    <3> QED
      BY <3>4 DEF Log!Next
  <2>4. CASE UNCHANGED <<rows, acked>>
    BY <2>4 DEF LastHead
  <2>5. ASSUME NEW w \in Writers, WriterStep(w), ~Serve(w), ~Return(w)
        PROVE  UNCHANGED <<rows, acked>>
    BY <2>5 DEF WriterStep, AppendBegin, AppendLine, HeadTruncate, HeadWrite, WriteAnchor,
       ReconcileBegin, Submit, WriteCheckpoint, Fail, TearLine
  <2>6. TakeBackup \/ Restore \/ UNCHANGED ledgerVars => UNCHANGED <<rows, acked>>
    BY DEF TakeBackup, Restore, ledgerVars
  <2> QED
    BY <2>1, <2>2, <2>3, <2>4, <2>5, <2>6 DEF Next
<1> QED
  BY <1>1, <1>2, LedgerInvariant, PTL DEF Spec, ImplementsAckedLog, Log!Spec

-----------------------------------------------------------------------------
\* A broker that has not started has connected nowhere.
LEMMA EgressStarts == EgressInit => EgressInv
BY DEF EgressInit, EgressInv, Places, Fates, Busy,
   Sites, ThreadOK, OnlyGrantedPublic, OkIsAudited, Off

\* A step of one thread keeps what the other threads have checked.
LEMMA ThreadMoves ==
  ASSUME EgressInv,
         NEW t \in Sites,
         NEW next \in [at : Busy \cup {"off", "accept", "ended", "dead"},
                       client : Clients \cup {None},
                       request : Requests \cup {NoRequest},
                       ip : Addresses \cup {None}],
         thread' = [thread EXCEPT ![t] = next],
         client' \in [Clients -> Fates],
         \A c \in Clients : client[c] # "new" => client'[c] # "new",
         UNCHANGED request,
         audit \subseteq audit',
         ThreadOK(t)'
  PROVE  Places' /\ \A s \in Sites : ThreadOK(s)'
<1>1. Places'
  BY DEF EgressInv, Places
<1>2. ASSUME NEW s \in Sites PROVE ThreadOK(s)'
  <2>1. CASE s = t
    BY <2>1
  <2>2. CASE s # t
    <3>1. thread'[s] = thread[s] /\ ThreadOK(s)
      BY <2>2 DEF EgressInv, Places
    <3>. QED
      BY <3>1, ZenonT(30) DEF ThreadOK, Granted
  <2>. QED
    BY <2>1, <2>2
<1>. QED
  BY <1>1, <1>2

\* A thread that goes on keeps its client, its request and the address it
\* pinned.
LEMMA GotoFields ==
  ASSUME Places, NEW t \in Sites,
         NEW place \in Busy \cup {"off", "accept", "ended", "dead"}, GoesTo(t, place)
  PROVE  /\ thread'[t].at = place
         /\ thread'[t].client = thread[t].client
         /\ thread'[t].request = thread[t].request
         /\ thread'[t].ip = thread[t].ip
BY DEF GoesTo, Places

\* A thread that goes on with what it has checked keeps the invariant of the
\* threads.
LEMMA ThreadGoes ==
  ASSUME EgressInv,
         NEW t \in Sites,
         NEW place \in Busy \cup {"off", "accept", "ended", "dead"},
         GoesTo(t, place),
         client' \in [Clients -> Fates],
         \A c \in Clients : client[c] # "new" => client'[c] # "new",
         UNCHANGED request,
         audit \subseteq audit',
         ThreadOK(t)'
  PROVE  Places' /\ \A s \in Sites : ThreadOK(s)'
<1>. DEFINE next == [thread[t] EXCEPT !.at = place]
<1>1. thread' = [thread EXCEPT ![t] = next]
  BY DEF GoesTo, EgressInv, Places
<1>2. next \in [at : Busy \cup {"off", "accept", "ended", "dead"},
                client : Clients \cup {None},
                request : Requests \cup {NoRequest},
                ip : Addresses \cup {None}]
  BY DEF EgressInv, Places
<1>. HIDE DEF next
<1>. QED
  BY <1>1, <1>2, ThreadMoves, Zenon

\* A thread past the grant check goes on with a granted request, and answers
\* ok after the audit record.
LEMMA StaysOK ==
  ASSUME EgressInv,
         NEW t \in Sites,
         NEW place \in Busy \ {"connect"},
         GoesTo(t, place),
         thread[t].at \in Busy,
         UNCHANGED <<client, request>>,
         audit \subseteq audit',
         place \in {"resolve", "response", "fetched", "ok"} => Granted(thread[t].request),
         place = "ok" => t # Direct /\ <<thread[t].client, TRUE>> \in audit'
  PROVE  ThreadOK(t)'
<1>1. /\ thread'[t].at = place
      /\ thread'[t].client = thread[t].client
      /\ thread'[t].request = thread[t].request
  BY GotoFields DEF EgressInv
<1>2. place \in {"resolve", "response", "fetched", "ok"} => Granted(thread'[t].request)
  BY <1>1
<1>3. ThreadOK(t)
  BY DEF EgressInv
<1>. QED
  BY <1>1, <1>2, <1>3 DEF ThreadOK, Granted, Busy

\* A step of the clients keeps the invariant.
LEMMA OnlyClientsMove ==
  ASSUME EgressInv,
         UNCHANGED <<thread, outbound, audit>>,
         client' \in [Clients -> Fates],
         \A c \in Clients :
            /\ client[c] # "new" => client'[c] # "new"
            /\ client'[c] \in {"ok", "error"} => client[c] = client'[c],
         request' \in [Clients -> Requests \cup {NoRequest}],
         \A c \in Clients : client[c] # "new" => request'[c] = request[c]
  PROVE  EgressInv'
<1>1. Places' /\ OnlyGrantedPublic'
  BY DEF EgressInv, Places, OnlyGrantedPublic, Granted
<1>2. OkIsAudited'
  BY DEF EgressInv, OkIsAudited, Granted
<1>3. ASSUME NEW t \in Sites PROVE ThreadOK(t)'
  BY Zenon DEF EgressInv, Places, ThreadOK, Granted
<1>. QED
  BY <1>1, <1>2, <1>3 DEF EgressInv

\* Every step of the broker, its threads, the resolver and the clients keeps
\* the invariant.
LEMMA EgressSteps ==
  ASSUME EgressInv, [EgressNext]_egressVars
  PROVE  EgressInv'
<1>. USE DEF Places, Sites, Busy, Fates
<1>0. Places /\ OnlyGrantedPublic /\ OkIsAudited /\ (\A t \in Sites : ThreadOK(t))
  BY DEF EgressInv
<1>00. Public \subseteq Addresses /\ Direct \notin Threads
  BY EgressConstants
<1>1. ASSUME NEW t \in Threads, StartBroker(t) PROVE EgressInv'
  <2>1. UNCHANGED <<client, request, outbound, audit>> /\ GoesTo(t, "accept")
    BY <1>1, SMTT(30) DEF StartBroker
  <2>2. thread'[t].at = "accept"
    BY <1>0, <2>1, GotoFields
  <2>3. ThreadOK(t)'
    BY <2>2, Zenon DEF ThreadOK
  <2>. QED
    BY <1>0, <2>1, <2>3, ThreadGoes, Zenon DEF EgressInv,
       OnlyGrantedPublic, OkIsAudited, Granted
<1>2. ASSUME NEW t \in Threads, NEW c \in Clients, Accept(t, c) PROVE EgressInv'
  <2>1. CASE c \in Foreign
    <3>1. /\ GoesTo(t, "accept") /\ client' = [client EXCEPT ![c] = "rejected"]
          /\ UNCHANGED <<request, outbound, audit>>
      BY <1>2, <2>1 DEF Accept, AfterRejection
    <3>2. ThreadOK(t)'
      BY <1>0, GotoFields, <3>1, ZenonT(30) DEF ThreadOK
    <3>3. OkIsAudited' /\ OnlyGrantedPublic'
      BY <1>0, <3>1, Zenon DEF OkIsAudited, OnlyGrantedPublic, Granted
    <3>. QED
      BY <1>0, <3>1, <3>2, <3>3, ThreadGoes DEF EgressInv
  <2>2. CASE c \notin Foreign
    <3>. DEFINE next == [at |-> "read", client |-> c, request |-> request[c], ip |-> None]
    <3>1. thread' = [thread EXCEPT ![t] = next] /\ UNCHANGED <<client, request, outbound, audit>>
      BY <1>2, <2>2 DEF Accept
    <3>2. client[c] # "new"
      BY <1>2 DEF Accept, Waiting, Gone
    <3>3. ThreadOK(t)'
      BY <1>0, <1>00, <2>2, <3>1, <3>2 DEF ThreadOK
    <3>4. OkIsAudited' /\ OnlyGrantedPublic'
      BY <1>0, <3>1, ZenonT(30) DEF OkIsAudited, OnlyGrantedPublic, Granted
    <3>. QED
      BY <1>0, <3>1, <3>3, <3>4, ThreadMoves, Zenon DEF EgressInv
  <2>. QED
    BY <2>1, <2>2
<1>3. ASSUME NEW t \in Threads, Read(t) PROVE EgressInv'
  <2>1. UNCHANGED <<client, request, outbound, audit>>
    BY <1>3 DEF Read
  <2>2. PICK place \in {"resolve", "denied"} : GoesTo(t, place) /\ (place = "resolve" => Granted(thread[t].request))
    BY <1>3 DEF Read, Checked
  <2>3. ThreadOK(t)'
    BY <1>3, <2>1, <2>2, StaysOK, Zenon DEF Read
  <2>4. OkIsAudited' /\ OnlyGrantedPublic'
    BY <1>0, <2>1, Zenon DEF OkIsAudited, OnlyGrantedPublic, Granted
  <2>. QED
    BY <1>0, <2>1, <2>2, <2>3, <2>4, ThreadGoes, SMTT(30) DEF EgressInv
<1>4. ASSUME NEW t \in Sites, Resolve(t) PROVE EgressInv'
  <2>1. UNCHANGED <<client, request, outbound, audit>> /\ thread[t].at = "resolve"
    BY <1>4 DEF Resolve
  <2>2. OkIsAudited' /\ OnlyGrantedPublic'
    BY <1>0, <2>1, ZenonT(30) DEF OkIsAudited, OnlyGrantedPublic, Granted
  <2>3. CASE GoesTo(t, "denied")
    <3>1. ThreadOK(t)'
      BY <2>1, <2>3, StaysOK, Zenon
    <3>. QED
      BY <1>0, <2>1, <2>2, <2>3, <3>1, ThreadGoes DEF EgressInv
  <2>4. ASSUME NEW ip \in Public, thread' = [thread EXCEPT ![t].at = "connect", ![t].ip = ip]
        PROVE  EgressInv'
    <3>. DEFINE next == [thread[t] EXCEPT !.at = "connect", !.ip = ip]
    <3>1. /\ thread' = [thread EXCEPT ![t] = next] /\ thread'[t] = next
          /\ next \in [at : Busy \cup {"off", "accept", "ended", "dead"}, client : Clients \cup {None},
                       request : Requests \cup {NoRequest}, ip : Addresses \cup {None}]
          /\ next.at = "connect" /\ next.ip = ip
          /\ next.client = thread[t].client /\ next.request = thread[t].request
      <4>1. /\ thread[t] \in [at : Busy \cup {"off", "accept", "ended", "dead"}, client : Clients \cup {None},
                               request : Requests \cup {NoRequest}, ip : Addresses \cup {None}]
            /\ ip \in Addresses \cup {None}
        BY <1>0, <1>00
      <4>2. thread' = [thread EXCEPT ![t] = next] /\ thread'[t] = next
        BY <1>0, <2>4, Zenon
      <4>. QED
        BY <4>1, <4>2, Zenon
    <3>. HIDE DEF next
    <3>2. ThreadOK(t)'
      BY <1>0, <2>1, <3>1, ZenonT(30) DEF ThreadOK, Granted
    <3>. QED
      BY <1>0, <2>1, <2>2, <3>1, <3>2, ThreadMoves, Zenon DEF EgressInv
  <2>5. GoesTo(t, "denied") \/ \E ip \in Public : thread' = [thread EXCEPT ![t].at = "connect", ![t].ip = ip]
    BY <1>4 DEF Resolve, Usable
  <2>. QED
    BY <2>3, <2>4, <2>5
<1>5. ASSUME NEW t \in Sites, Dial(t) PROVE EgressInv'
  <2>1. UNCHANGED <<client, request, audit>> /\ thread[t].at = "connect"
    BY <1>5 DEF Dial
  <2>2. PICK place \in {"response", "denied"} : GoesTo(t, place)
    BY <1>5 DEF Dial
  <2>3. outbound' \in {outbound, outbound \cup {<<thread[t].request, thread[t].ip>>}}
    BY <1>5 DEF Dial, Destinations
  <2>4. Granted(thread[t].request) /\ thread[t].ip \in Public
    BY <1>0, <2>1, Zenon DEF ThreadOK
  <2>5. OnlyGrantedPublic'
    BY <1>0, <2>3, <2>4 DEF OnlyGrantedPublic, Granted
  <2>6. OkIsAudited'
    BY <1>0, <2>1 DEF OkIsAudited, Granted
  <2>7. ThreadOK(t)'
    BY <1>0, GotoFields, <2>1, <2>2, ZenonT(30) DEF ThreadOK, Granted
  <2>. QED
    BY <1>0, <2>1, <2>2, <2>5, <2>6, <2>7, ThreadGoes, Zenon DEF EgressInv
<1>6. ASSUME NEW t \in Sites, Response(t) PROVE EgressInv'
  <2>1. UNCHANGED <<client, request, outbound, audit>> /\ thread[t].at = "response"
    BY <1>6 DEF Response
  <2>2. PICK place \in {"fetched", "denied"} : GoesTo(t, place)
    BY <1>6 DEF Response
  <2>3. ThreadOK(t)'
    <3>1. Granted(thread[t].request)
      BY <1>0, <2>1, Zenon DEF ThreadOK
    <3>. QED
      BY <2>1, <2>2, <3>1, StaysOK, Zenon
  <2>4. OkIsAudited' /\ OnlyGrantedPublic'
    BY <1>0, <2>1, Zenon DEF OkIsAudited, OnlyGrantedPublic, Granted
  <2>. QED
    BY <1>0, <2>1, <2>2, <2>3, <2>4, ThreadGoes DEF EgressInv
<1>b. ASSUME NEW t \in Threads, thread[t].at \in Busy, Dies(t), UNCHANGED <<request, outbound, audit>>
      PROVE  EgressInv'
  <2>. DEFINE next == [Off EXCEPT !.at = "dead"]
  <2>1. thread' = [thread EXCEPT ![t] = next] /\ thread[t].client \in Clients
    BY <1>0, <1>00, <1>b, Zenon DEF Dies, ThreadOK
  <2>2. client' = [client EXCEPT ![thread[t].client] = Closed(thread[t].client)]
    BY <1>b DEF Dies
  <2>3. Closed(thread[t].client) \in {"left", "reset"}
    BY DEF Closed
  <2>4. /\ client' \in [Clients -> Fates]
        /\ \A c \in Clients : client'[c] \in {client[c], "left", "reset"}
    BY <1>0, <2>1, <2>2, <2>3
  <2>5. next = [at |-> "dead", client |-> None, request |-> NoRequest, ip |-> None]
    BY SMTT(30) DEF Off
  <2>. HIDE DEF next
  <2>6. ThreadOK(t)'
    BY <1>0, <2>1, <2>5 DEF ThreadOK
  <2>7. OkIsAudited' /\ OnlyGrantedPublic'
    BY <1>0, <1>b, <2>4, ZenonT(30) DEF OkIsAudited, OnlyGrantedPublic, Granted
  <2>. QED
    BY <1>0, <1>b, <2>1, <2>4, <2>5, <2>6, <2>7, ThreadMoves, Zenon DEF EgressInv
<1>7. ASSUME NEW t \in Threads, Emit(t) PROVE EgressInv'
  <2>1. /\ UNCHANGED <<request, outbound>> /\ thread[t].at \in {"fetched", "denied"}
        /\ t # Direct /\ thread[t].client \in Clients
    BY <1>0, <1>00, <1>7, Zenon DEF Emit, ThreadOK
  <2>2. CASE Dies(t) /\ UNCHANGED audit
    BY <1>b, <2>1, <2>2
  <2>3. CASE GoesTo(t, "denied") /\ UNCHANGED <<client, audit>>
    <3>1. ThreadOK(t)'
      BY <2>1, <2>3, StaysOK, Zenon
    <3>2. OkIsAudited' /\ OnlyGrantedPublic'
      BY <1>0, <2>1, <2>3, Zenon DEF OkIsAudited, OnlyGrantedPublic, Granted
    <3>. QED
      BY <1>0, <2>1, <2>3, <3>1, <3>2, ThreadGoes DEF EgressInv
  <2>4. CASE /\ audit' = audit \cup {<<thread[t].client, thread[t].at = "fetched">>}
             /\ GoesTo(t, IF thread[t].at = "fetched" THEN "ok" ELSE "error")
             /\ UNCHANGED client
    <3>1. audit \subseteq audit'
      BY <2>4
    <3>2. thread[t].at = "fetched" => <<thread[t].client, TRUE>> \in audit'
      BY <2>4, Zenon
    <3>3. OkIsAudited' /\ OnlyGrantedPublic'
      BY <1>0, <2>1, <2>4, <3>1, ZenonT(30) DEF OkIsAudited,
         OnlyGrantedPublic, Granted
    <3>4. CASE thread[t].at = "fetched"
      <4>1. GoesTo(t, "ok")
        BY <2>4, <3>4
      <4>2. ThreadOK(t)'
        <5>1. Granted(thread[t].request)
          BY <1>0, <3>4, ZenonT(30) DEF ThreadOK
        <5>. QED
          BY <2>1, <2>4, <3>1, <3>2, <3>4, <4>1, <5>1, StaysOK, Zenon
      <4>. QED
        BY <1>0, <2>1, <2>4, <3>1, <3>3, <4>1, <4>2, ThreadGoes DEF EgressInv
    <3>5. CASE thread[t].at = "denied"
      <4>1. GoesTo(t, "error")
        BY <2>4, <3>5
      <4>2. ThreadOK(t)'
        BY <2>1, <2>4, <3>1, <3>5, <4>1, StaysOK, Zenon
      <4>. QED
        BY <1>0, <2>1, <2>4, <3>1, <3>3, <4>1, <4>2, ThreadGoes DEF EgressInv
    <3>. QED
      BY <2>1, <3>4, <3>5
  <2>. QED
    BY <1>7, <2>2, <2>3, <2>4 DEF Emit, WithoutAudit
<1>8. ASSUME NEW t \in Threads, Reply(t) PROVE EgressInv'
  <2>1. /\ UNCHANGED <<request, outbound, audit>> /\ thread[t].at \in {"ok", "error"}
        /\ thread[t].client \in Clients \ Foreign
        /\ thread[t].at = "ok" => /\ <<thread[t].client, TRUE>> \in audit
                                  /\ Granted(request[thread[t].client])
    BY <1>0, <1>00, <1>8, Zenon DEF Reply, ThreadOK
  <2>2. CASE Gone(thread[t].client)
    BY <1>8, <1>b, <2>1, <2>2 DEF Reply
  <2>3. CASE ~Gone(thread[t].client)
    <3>. DEFINE next == [Off EXCEPT !.at = "accept"]
    <3>1. /\ thread' = [thread EXCEPT ![t] = next]
          /\ client' = [client EXCEPT ![thread[t].client] = thread[t].at]
      BY <1>8, <2>3 DEF Reply
    <3>2. next = [at |-> "accept", client |-> None, request |-> NoRequest, ip |-> None]
      BY DEF Off
    <3>. HIDE DEF next
    <3>3. ThreadOK(t)'
      BY <1>0, <3>1, <3>2 DEF ThreadOK
    <3>4. /\ client' \in [Clients -> Fates]
          /\ \A c \in Clients : client[c] # "new" => client'[c] # "new"
      BY <1>0, <2>1, <3>1
    <3>5. OkIsAudited' /\ OnlyGrantedPublic'
      BY <1>0, <2>1, <3>1, Zenon DEF OkIsAudited, OnlyGrantedPublic, Granted
    <3>. QED
      BY <1>0, <2>1, <3>1, <3>2, <3>3, <3>4, <3>5, ThreadMoves, Zenon DEF EgressInv
  <2>. QED
    BY <2>2, <2>3
<1>9. ASSUME NEW t \in Threads, StopsServing(t) PROVE EgressInv'
  <2>. DEFINE next == [Off EXCEPT !.at = "ended"]
  <2>1. thread' = [thread EXCEPT ![t] = next] /\ UNCHANGED <<client, request, outbound, audit>>
    BY <1>9 DEF StopsServing
  <2>2. next = [at |-> "ended", client |-> None, request |-> NoRequest, ip |-> None]
    BY DEF Off
  <2>. HIDE DEF next
  <2>3. ThreadOK(t)'
    BY <1>0, <2>1, <2>2 DEF ThreadOK
  <2>4. OkIsAudited' /\ OnlyGrantedPublic'
    BY <1>0, <2>1, Zenon DEF OkIsAudited, OnlyGrantedPublic, Granted
  <2>. QED
    BY <1>0, <2>1, <2>2, <2>3, <2>4, ThreadMoves, Zenon DEF EgressInv
<1>10. CASE StopBroker
  <2>1. /\ client' \in [Clients -> Fates]
        /\ \A c \in Clients : client'[c] \in {client[c], "left", "reset"}
    BY <1>0, <1>10 DEF StopBroker, Closed
  <2>2. UNCHANGED <<request, thread, outbound, audit>>
    BY <1>10 DEF StopBroker
  <2>. QED
    BY <1>0, <2>1, <2>2, OnlyClientsMove
<1>11. CASE Stopped \/ AuditBreaks \/ UNCHANGED egressVars
  BY <1>0, <1>11, OnlyClientsMove DEF Stopped, AuditBreaks, egressVars
<1>12. ASSUME NEW c \in Clients, NEW r \in Requests, Connect(c, r) PROVE EgressInv'
  BY <1>0, <1>12, OnlyClientsMove DEF Connect
<1>13. ASSUME NEW c \in Clients, Send(c) \/ GiveUp(c) PROVE EgressInv'
  BY <1>0, <1>13, OnlyClientsMove DEF Send, GiveUp
<1>14. ASSUME NEW r \in Requests, CallDirect(r) PROVE EgressInv'
  <2>. DEFINE next == [at |-> Checked(r), client |-> None, request |-> r, ip |-> None]
  <2>1. thread' = [thread EXCEPT ![Direct] = next] /\ UNCHANGED <<client, request, outbound, audit>>
    BY <1>14 DEF CallDirect
  <2>2. Checked(r) \in {"resolve", "denied"} /\ (Checked(r) = "resolve" => Granted(r))
    BY SMTT(30) DEF Checked
  <2>3. ThreadOK(Direct)'
    BY <1>0, <2>1, <2>2 DEF ThreadOK, Granted
  <2>4. OkIsAudited' /\ OnlyGrantedPublic'
    BY <1>0, <2>1, Zenon DEF OkIsAudited, OnlyGrantedPublic, Granted
  <2>. QED
    BY <1>0, <2>1, <2>2, <2>3, <2>4, ThreadMoves, Zenon DEF EgressInv
<1>15. CASE ReturnDirect
  <2>1. thread' = [thread EXCEPT ![Direct] = Off] /\ UNCHANGED <<client, request, outbound, audit>>
    BY <1>15 DEF ReturnDirect
  <2>2. ThreadOK(Direct)'
    BY <1>0, <2>1 DEF ThreadOK, Off
  <2>3. OkIsAudited' /\ OnlyGrantedPublic'
    BY <1>0, <2>1, Zenon DEF OkIsAudited, OnlyGrantedPublic, Granted
  <2>. QED
    BY <1>0, <2>1, <2>2, <2>3, ThreadMoves, Zenon DEF EgressInv, Off
<1>. QED
  BY <1>1, <1>2, <1>3, <1>4, <1>5, <1>6, <1>7, <1>8, <1>9, <1>10, <1>11, <1>12, <1>13, <1>14, <1>15
     DEF EgressNext, Serving, Fetching

\* The inductive invariant of the egress broker: what a thread has checked
\* stays true of the request it serves (egress_proxy.py).
THEOREM EgressInvariant ==
  EgressSpec => []EgressInv
<1>1. EgressInv /\ [EgressNext]_egressVars => EgressInv'
  BY EgressSteps
<1>. QED
  BY <1>1, EgressStarts, PTL DEF EgressSpec

\* Every connection out goes to a public address and serves a granted
\* request, however the answers to its name change.
THEOREM ConnectionsAreGranted ==
  EgressSpec => []OnlyGrantedPublic
<1>1. EgressInv => OnlyGrantedPublic
  BY DEF EgressInv
<1>. QED
  BY <1>1, EgressInvariant, PTL

\* A client that is told ok was recorded as allowed before, and one of
\* another user gets no answer.
THEOREM AnswersAreAudited ==
  EgressSpec => []OkIsAudited
<1>1. EgressInv => OkIsAudited
  BY DEF EgressInv
<1>. QED
  BY <1>1, EgressInvariant, PTL

=============================================================================
