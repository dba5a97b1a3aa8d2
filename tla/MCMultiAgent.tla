---------------------------- MODULE MCMultiAgent ----------------------------
EXTENDS MultiAgent, TLC
CONSTANTS r1, r2, echo, wipe
MCRules == <<[matches |-> {echo}, verdict |-> "allow"],
             [matches |-> {echo, wipe}, verdict |-> "deny"]>>
MCPlans == {<<echo>>, <<wipe, echo>>}
MCRuns == {r1, r2}
Symm == Permutations(MCRuns)
=============================================================================
