------------------------------- MODULE Policy -------------------------------
(***************************************************************************)
(* DeterministicPolicy.evaluate of policy.py: from a proposed action to a  *)
(* decision.  What the path, URL and provenance tests find out about an    *)
(* action is the set of its facts, each of them a ground for suspicion.    *)
(* Risks are in percent: the sums the code makes in floating point fall on *)
(* the same side of both thresholds.                                       *)
(***************************************************************************)
EXTENDS Naturals

Capability ==
  {"fs.read.project", "fs.write.project", "fs.read.home", "fs.write.home",
   "credential.read", "process.exec", "network.outbound", "network.post",
   "package.install", "agent.spawn", "agent.message", "security_control.write"}

HIGH_RISK_CAPABILITIES ==
  {"credential.read", "security_control.write", "package.install", "agent.spawn"}

ProjectCapabilities == {"fs.read.project", "fs.write.project"}

Facts ==
  {"beyondCeiling", "notGranted", "beyondParent", "traversal", "outsideProject",
   "canary", "sensitive", "persistence", "external", "secretInQuery",
   "sideEffect", "irreversible"}

\* brokered: the operation is one of BROKERED_SECRET_OPERATIONS.
ActionRequest == [capability : Capability, brokered : BOOLEAN, facts : SUBSET Facts]

Decision == {"ALLOW", "SANDBOX", "ESCALATE", "DENY"}

\* _DECISION_ORDER of engine.py and session_guard.py
Order(d) ==
  CASE d = "ALLOW" -> 0 [] d = "SANDBOX" -> 1 [] d = "ESCALATE" -> 2 [] d = "DENY" -> 3

Stricter(d, e) == IF Order(d) >= Order(e) THEN d ELSE e

-----------------------------------------------------------------------------
AtLeast(x, y) == IF x >= y THEN x ELSE y

\* The early returns with hard_block.
HardBlock(a) ==
  \/ a.facts \cap {"beyondCeiling", "notGranted", "beyondParent", "traversal", "canary"} # {}
  \/ a.capability \in ProjectCapabilities /\ "outsideProject" \in a.facts
  \/ a.capability = "credential.read" /\ "external" \in a.facts

\* Risk of the resource and the provenance, before the capability counts.
ResourceRisk(a) ==
  LET sensitive == IF "sensitive" \in a.facts THEN 70 ELSE 0
      persists  == /\ "persistence" \in a.facts
                   /\ a.capability \in {"fs.write.home", "security_control.write"}
  IN (IF persists THEN AtLeast(sensitive, 90) ELSE sensitive)
       + (IF "external" \in a.facts THEN 25 ELSE 0)

\* What calls for review by itself, whatever the sum so far.
NeedsReview(a) ==
  \/ /\ "external" \in a.facts
     /\ a.capability \in {"process.exec", "agent.spawn", "network.post"}
  \/ /\ "secretInQuery" \in a.facts
     /\ a.capability \in {"network.outbound", "network.post"}

CapabilityRisk(a) ==
  LET r == ResourceRisk(a) + (IF a.capability \in HIGH_RISK_CAPABILITIES THEN 55 ELSE 0)
  IN IF NeedsReview(a) THEN AtLeast(r, 90) ELSE r

Risk(a) ==
  CapabilityRisk(a) + (IF "sideEffect" \in a.facts THEN 25 ELSE 0)
                    + (IF "irreversible" \in a.facts THEN 35 ELSE 0)

\* Mutant: what external content asks for goes to the sandbox at once.
SandboxExternal(a) ==
  IF "external" \in a.facts THEN "SANDBOX"
  ELSE IF Risk(a) >= 85 THEN "ESCALATE" ELSE IF Risk(a) >= 55 THEN "SANDBOX" ELSE "ALLOW"

\* The two thresholds.
Threshold(a) ==
  IF Risk(a) >= 85 THEN "ESCALATE" ELSE IF Risk(a) >= 55 THEN "SANDBOX" ELSE "ALLOW"

\* Brokered credential reads are allowed before the capability is weighed.
PolicyDecision(a) ==
  IF HardBlock(a) THEN "DENY"
  ELSE IF a.capability = "credential.read" /\ a.brokered THEN "ALLOW"
  ELSE Threshold(a)

-----------------------------------------------------------------------------
\* One more ground for suspicion never leads to a more lenient decision.
Monotone ==
  \A a \in ActionRequest, f \in Facts :
    LET b == [a EXCEPT !.facts = @ \cup {f}]
    IN Order(PolicyDecision(a)) <= Order(PolicyDecision(b))
=============================================================================
