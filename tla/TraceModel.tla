----------------------------- MODULE TraceModel -----------------------------
(***************************************************************************)
(* trace_model.py: the state machine every runtime event must be a legal   *)
(* transition of, as pure operators.  Legal and After are the guards and   *)
(* the replacements of apply_transition, Sane is validate_invariants.      *)
(* review_required and direct_network follow from the other fields: the    *)
(* first is set with phase "review", the second is never set.              *)
(***************************************************************************)

EXECUTABLE_DECISIONS == {"ALLOW", "SANDBOX"}

Decisions == EXECUTABLE_DECISIONS \cup {"ESCALATE", "DENY"}

BullTraceState ==
  [phase : {"start", "evaluated", "scanned", "blocked", "review", "executed"},
   decision : Decisions \cup {"PENDING"},
   scanned : BOOLEAN, malware_clean : BOOLEAN,
   executed : BOOLEAN, sandboxed : BOOLEAN, seccomp : BOOLEAN,
   parent_has : BOOLEAN, child_has : BOOLEAN,
   secret_granted : BOOLEAN, secret_returned : BOOLEAN,
   broker_granted : BOOLEAN, egress_occurred : BOOLEAN]

\* The state after RuntimeTraceVerifier.reset.
Fresh(parentHas) ==
  [phase |-> "start", decision |-> "PENDING",
   scanned |-> FALSE, malware_clean |-> FALSE,
   executed |-> FALSE, sandboxed |-> FALSE, seccomp |-> FALSE,
   parent_has |-> parentHas, child_has |-> FALSE,
   secret_granted |-> FALSE, secret_returned |-> FALSE,
   broker_granted |-> FALSE, egress_occurred |-> FALSE]

\* The transitions, with the data of the two that carry any.
TraceEvents ==
  [transition : {"Evaluate"}, decision : Decisions]
    \cup [transition : {"Execute"}, sandboxed : BOOLEAN, seccomp : BOOLEAN]
    \cup [transition : {"ScanClean", "ScanMalware", "BlockMalware",
                        "ResolveDeny", "ResolveEscalate",
                        "GrantChildCapability", "GrantSecret", "ReturnSecret",
                        "GrantBroker", "BrokerEgress"}]

Event(name) == [transition |-> name]
Evaluated(decision) == [transition |-> "Evaluate", decision |-> decision]
Executed == [transition |-> "Execute", sandboxed |-> TRUE, seccomp |-> TRUE]

LegalEvaluate(s) == s.phase = "start"

LegalExecute(s) ==
  /\ s.phase = "scanned"
  /\ s.decision \in EXECUTABLE_DECISIONS
  /\ s.scanned /\ s.malware_clean
  /\ ~s.executed

LegalScan(s) == s.phase = "evaluated" /\ s.decision \in EXECUTABLE_DECISIONS

\* The guard apply_transition puts on event e in state s.
Legal(s, e) ==
  CASE e.transition = "Evaluate" -> LegalEvaluate(s)
    [] e.transition \in {"ScanClean", "ScanMalware"} -> LegalScan(s)
    [] e.transition = "BlockMalware" ->
         s.phase = "scanned" /\ s.scanned /\ ~s.malware_clean
    [] e.transition = "Execute" -> LegalExecute(s)
    [] e.transition = "ResolveDeny" ->
         s.phase = "evaluated" /\ s.decision = "DENY"
    [] e.transition = "ResolveEscalate" ->
         s.phase = "evaluated" /\ s.decision = "ESCALATE"
    [] e.transition = "GrantChildCapability" -> s.parent_has /\ ~s.child_has
    [] e.transition = "GrantSecret" -> ~s.secret_granted
    [] e.transition = "ReturnSecret" -> s.secret_granted /\ ~s.secret_returned
    [] e.transition = "GrantBroker" -> ~s.broker_granted
    [] e.transition = "BrokerEgress" -> s.broker_granted /\ ~s.egress_occurred

\* The state apply_transition computes for a legal event.
After(s, e) ==
  CASE e.transition = "Evaluate" ->
         [s EXCEPT !.phase = "evaluated", !.decision = e.decision]
    [] e.transition = "ScanClean" ->
         [s EXCEPT !.phase = "scanned", !.scanned = TRUE, !.malware_clean = TRUE]
    [] e.transition = "ScanMalware" ->
         [s EXCEPT !.phase = "scanned", !.scanned = TRUE, !.malware_clean = FALSE]
    [] e.transition \in {"BlockMalware", "ResolveDeny"} ->
         [s EXCEPT !.phase = "blocked"]
    [] e.transition = "Execute" ->
         [s EXCEPT !.phase = "executed", !.executed = TRUE,
                   !.sandboxed = e.sandboxed, !.seccomp = e.seccomp]
    [] e.transition = "ResolveEscalate" -> [s EXCEPT !.phase = "review"]
    [] e.transition = "GrantChildCapability" -> [s EXCEPT !.child_has = TRUE]
    [] e.transition = "GrantSecret" -> [s EXCEPT !.secret_granted = TRUE]
    [] e.transition = "ReturnSecret" -> [s EXCEPT !.secret_returned = TRUE]
    [] e.transition = "GrantBroker" -> [s EXCEPT !.broker_granted = TRUE]
    [] e.transition = "BrokerEgress" -> [s EXCEPT !.egress_occurred = TRUE]

\* validate_invariants.
Sane(s) ==
  /\ s.executed =>
       /\ s.decision \in EXECUTABLE_DECISIONS
       /\ s.scanned /\ s.malware_clean
       /\ s.sandboxed /\ s.seccomp
  /\ s.child_has => s.parent_has
  /\ s.secret_returned => s.secret_granted
  /\ s.egress_occurred => s.broker_granted
  /\ s.phase = "review" => s.decision = "ESCALATE"

\* apply_transition returns; otherwise it raises TraceViolation and the
\* verifier's state stays as it was.
Accepts(s, e) == Legal(s, e) /\ Sane(After(s, e))
=============================================================================
