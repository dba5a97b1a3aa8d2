---------------------------- MODULE MCIsolation -----------------------------
(***************************************************************************)
(* The two boundaries a workload is run behind, the microVM session and    *)
(* the namespace sandbox.  Their models share no state: each behaviour is  *)
(* of one of them.                                                         *)
(***************************************************************************)
EXTENDS MicroVM, Sandbox

VARIABLE part  \* "sandbox" or "vm"

\* The part that is not under way is in one fixed initial state.
MCInit ==
  /\ Init /\ SandboxInit
  /\ \/ part = "sandbox" /\ case = "allowed"
     \/ part = "vm" /\ job = [strict |-> TRUE, required |-> TRUE, budget |-> TRUE]

MCNext ==
  \/ part = "sandbox" /\ SandboxNext /\ UNCHANGED <<part, vars>>
  \/ part = "vm" /\ Next /\ UNCHANGED <<part, sandboxVars>>

\* The fairness of the two modules, each in its part.
MCSpec ==
  /\ MCInit /\ [][MCNext]_<<part, vars, sandboxVars>>
  /\ WF_sandboxVars(part = "sandbox" /\ Caller)
  /\ WF_sandboxVars(part = "sandbox" /\ Deadline)
  /\ WF_vars(part = "vm" /\ Host) /\ WF_vars(part = "vm" /\ Launcher)

-----------------------------------------------------------------------------
\* NamespaceSandbox.run ends whatever the workload does with its output, its
\* process group and its signals.
SandboxEnds == part = "sandbox" => RunEnds

\* A microVM session ends, with its report saved, whatever the guest and the
\* collector do (supervise in microvm.py, run in microvm/integration.py).
MicroVMEnds == part = "vm" => SessionEnds
=============================================================================
