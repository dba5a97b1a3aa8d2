------------------------------ MODULE AckedLog ------------------------------
(***************************************************************************)
(* What the audit ledger promises its callers, without files, locks,       *)
(* requests or crashes: one log that only grows at its end, and callers    *)
(* that are told "done" about a prefix of it only.                         *)
(***************************************************************************)
EXTENDS Naturals, Sequences

VARIABLES log, told

Init == log = <<>> /\ told = {}

\* One entry more, and the entries before it as they were.
Commit ==
  /\ log' \in Seq(Nat)
  /\ Len(log') = Len(log) + 1
  /\ log = SubSeq(log', 1, Len(log))
  /\ UNCHANGED told

\* A caller learns that its entry, and all before it, are in the log.
Tell ==
  /\ \E n \in 1..Len(log) : told' = told \cup {SubSeq(log, 1, n)}
  /\ UNCHANGED log

Next == Commit \/ Tell

Spec == Init /\ [][Next]_<<log, told>>
=============================================================================
