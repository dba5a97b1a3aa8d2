------------------------------ MODULE MCEngine ------------------------------
(***************************************************************************)
(* Engine for TLC: four proposals that policy and rules treat differently, *)
(* and fewer evaluations once calls have overlapped, a session was cleared *)
(* or a record was lost.                                                   *)
(***************************************************************************)
EXTENDS Engine, TLC

Propose(c, brokered, facts) == [capability |-> c, brokered |-> brokered, facts |-> facts]

MCProposals ==
  {Propose("fs.read.project", FALSE, {}),
   Propose("credential.read", TRUE, {}),
   Propose("process.exec", FALSE, {"external"}),
   Propose("network.outbound", FALSE, {"canary"})}

CONSTANT MaxDisturbed  \* bound: evaluations of a disturbed behaviour

MCNext == Next /\ (disturbed' => calls' <= MaxDisturbed)

MCSpec == Init /\ [][MCNext]_engineVars

Symmetric == Permutations(Threads) \cup Permutations(Sessions)
=============================================================================
