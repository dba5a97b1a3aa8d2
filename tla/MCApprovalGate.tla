--------------------------- MODULE MCApprovalGate ---------------------------
(* Instances of ApprovalGate for TLC. *)
EXTENDS ApprovalGate, TLC

CONSTANTS a1, a2, d1, d2, p1, p2

\* One action per domain; the second policy makes a2 routine and drops the
\* SSH credential
MCDomainOf == [a \in Actions |-> IF a = a1 THEN d1 ELSE d2]
MCEnrolled == [p \in Policies |-> IF p = p1 THEN {"ssh", "hw"} ELSE {"hw"}]
MCRoutine == [p \in Policies |-> IF p = p1 THEN {} ELSE Actions \ {a1}]

CallerSymmetry == Permutations(Callers) \cup Permutations(RequestIds)
=============================================================================
