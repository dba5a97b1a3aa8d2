----------------------------- MODULE Dispatcher -----------------------------
(***************************************************************************)
(* CapabilityDispatcher of dispatcher.py and ProductionDispatcher of       *)
(* profiles.py over the security-domain registry: command dispatch, secret *)
(* and egress brokering, domain secret grants, and the freeze of a whole   *)
(* tree when a command is a violation.  Threads check a domain without the *)
(* registry's lock and act on the answer some steps later.                 *)
(*                                                                         *)
(* Policy verdicts are inputs.  The approval a brokered effect also needs  *)
(* is in ApprovalGate; here it is a reason to fail between authorisation   *)
(* and recheck.                                                            *)
(***************************************************************************)
EXTENDS SecurityDomain

CONSTANTS
  Needs,  \* the capability each kind of operation needs
  MaxOps  \* bound on the operations of one thread

Kinds == {"command", "secret", "egress", "grant"}

ASSUME DispatchConstants ==
  /\ Needs \in [Kinds -> Capabilities]
  /\ MaxOps \in Nat

VARIABLES
  op,        \* operations each thread has begun
  logged,    \* the ledger took the event of a thread's current operation
  offRecord, \* kinds of result that went back to an agent without that event
  late       \* effects in a tree freeze_root had already sealed

opVars == <<op, logged, offRecord, late>>
vars == <<registryVars, opVars>>

Init ==
  /\ RegistryInit
  /\ op = [t \in Threads |-> 0]
  /\ logged = [t \in Threads |-> FALSE]
  /\ offRecord = {}
  /\ late = {}

Move(t, step) == at' = [at EXCEPT ![t] = step]

Raise(t) == Become(t, "idle", NoJob) /\ logged' = [logged EXCEPT ![t] = FALSE]

\* The result goes back to the agent; "log" says whether its event was written.
Answer(t, log) ==
  /\ Raise(t)
  /\ offRecord' = IF log THEN offRecord ELSE offRecord \cup {job[t].kind}

\* Mutant: the ceiling is read with get, not require_active.
AuthoriseKnown(t, d, kind) ==
  /\ at[t] = "idle"
  /\ op[t] < MaxOps
  /\ d \in issued
  /\ Needs[kind] \in domains[d].caps
  /\ kind = "egress" => domains[d].hosts # {}
  /\ op' = [op EXCEPT ![t] = @ + 1]
  /\ Become(t, IF kind = "command" THEN "dispatch"
               ELSE IF kind = "grant" THEN "effect" ELSE "recheck",
             [domain |-> d, kind |-> kind])
  /\ UNCHANGED <<domains, lock, sealed, issued, logged, offRecord, late>>

\* _authorize_domain_broker_action, canonicalize: the domain is active and its
\* ceiling has the capability; assert_egress also asks for the host of
\* the URL, so some host must be granted.
Authorise(t, d, kind) ==
  /\ at[t] = "idle"
  /\ op[t] < MaxOps
  /\ d \in issued
  /\ Active(d)
  /\ Needs[kind] \in domains[d].caps
  /\ kind = "egress" => domains[d].hosts # {}
  /\ op' = [op EXCEPT ![t] = @ + 1]
  /\ Become(t, IF kind = "command" THEN "dispatch"
               ELSE IF kind = "grant" THEN "effect" ELSE "recheck",
             [domain |-> d, kind |-> kind])
  /\ UNCHANGED <<domains, lock, sealed, issued, logged, offRecord, late>>

\* record_dispatch: active once more, then the event
RecordDispatch(t) ==
  /\ at[t] = "dispatch"
  /\ Active(job[t].domain)
  /\ logged' = [logged EXCEPT ![t] = TRUE]
  /\ Move(t, "effect")
  /\ UNCHANGED <<domains, lock, job, sealed, issued, op, offRecord, late>>

\* The approval is consumed and the domain is active immediately before use;
\* routine egress is fetched without either
Recheck(t) ==
  /\ at[t] = "recheck"
  /\ job[t].kind = "egress" \/ Active(job[t].domain)
  /\ Move(t, "effect")
  /\ UNCHANGED <<domains, lock, job, sealed, issued, opVars>>

\* The command runs, the secret or response arrives, the grant is stored
Effect(t) ==
  /\ at[t] = "effect"
  /\ late' = late \cup {<<t, op[t], r>> : r \in sealed \cap {domains[job[t].domain].root}}
  /\ IF job[t].kind = "command"
     THEN Answer(t, logged[t])
     ELSE Move(t, "record") /\ UNCHANGED <<job, logged, offRecord>>
  /\ UNCHANGED <<domains, lock, sealed, issued, op>>

\* The runtime blocks the command: nothing runs, the tree is to be frozen
Violation(t) ==
  /\ at[t] = "effect"
  /\ job[t].kind = "command"
  /\ Move(t, "violation")
  /\ UNCHANGED <<domains, lock, job, sealed, issued, opVars>>

\* Mutant: only the offending domain is frozen.
FreezeOnlyDomain(t) ==
  /\ at[t] = "violation"
  /\ lock = None
  /\ domains' = [domains EXCEPT ![job[t].domain].frozen = TRUE]
  /\ Owes(t, job[t].domain)
  /\ logged' = [logged EXCEPT ![t] = FALSE]
  /\ UNCHANGED <<lock, sealed, issued, op, offRecord, late>>

FreezeOnViolation(t) ==
  /\ at[t] = "violation"
  /\ FreezeRoot(t, domains[job[t].domain].root)
  /\ logged' = [logged EXCEPT ![t] = FALSE]
  /\ UNCHANGED <<op, offRecord, late>>

\* record_broker_event: the domain must still be active, and its answer is
\* used when the ledger is written
RecordCheck(t) ==
  /\ at[t] = "record"
  /\ Active(job[t].domain)
  /\ Move(t, "append")
  /\ UNCHANGED <<domains, lock, job, sealed, issued, opVars>>

\* Mutant: a ledger that raises is ignored.
RecordBestEffort(t) ==
  /\ at[t] = "append"
  /\ Answer(t, FALSE)
  /\ UNCHANGED <<domains, lock, sealed, issued, op, late>>

RecordBroker(t) ==
  /\ at[t] = "append"
  /\ Answer(t, TRUE)
  /\ UNCHANGED <<domains, lock, sealed, issued, op, late>>

\* A check that fails, a refusal of the gate or the broker, a ledger that
\* raises: the operation ends without a result.  (The event with allowed=False
\* that the handlers then try to write stands for no effect.)
Fail(t) ==
  /\ at[t] \in {"dispatch", "recheck", "effect", "record", "append"}
  /\ Raise(t)
  /\ UNCHANGED <<domains, lock, sealed, issued, op, offRecord, late>>

DispatchStep(t) ==
  \/ \E d \in DomainIds, kind \in Kinds : Authorise(t, d, kind)
  \/ RecordDispatch(t)
  \/ Recheck(t)
  \/ Effect(t)
  \/ Violation(t)
  \/ FreezeOnViolation(t)
  \/ RecordCheck(t)
  \/ RecordBroker(t)
  \/ Fail(t)

Next ==
  \E t \in Threads : (RegistryStep(t) /\ UNCHANGED opVars) \/ DispatchStep(t)

Spec == Init /\ [][Next]_vars

-----------------------------------------------------------------------------
\* Nothing reaches the agent off the record: a command runs only after its
\* dispatch event, and a secret, a response or a grant is handed over only
\* after its broker event, whoever freezes what in between.
ReturnedIsRecorded == offRecord = {}

\* Sealing a tree stops it: after freeze_root a thread finishes at most the
\* one operation it had already been cleared for, and clears no other there.
OneLateEffect ==
  \A o, p \in late : o[1] = p[1] /\ o[3] = p[3] => o = p

\* Why: a thread cleared for an effect was cleared before the tree was sealed,
\* a command reaches the runtime with its event written, and late effects
\* belong to sealed trees.
Cleared(t) ==
  at[t] \in {"dispatch", "recheck", "effect"} =>
    /\ job[t].domain \in Known
    /\ \A o \in late : o[1] = t => o[3] # domains[job[t].domain].root
    /\ at[t] = "effect" /\ job[t].kind = "command" => logged[t]
    /\ at[t] = "recheck" => job[t].kind # "command"

DispatchInv ==
  /\ RegistryInv
  /\ logged = [t \in Threads |-> logged[t]]
  /\ \A t \in Threads : Cleared(t)
  /\ \A o \in late : o[3] \in sealed
  /\ OneLateEffect
  /\ ReturnedIsRecorded

-----------------------------------------------------------------------------
(* Liveness: a scheduled thread makes progress and a lock that is released   *)
(* again and again is obtained in the end; no ledger failure is excluded.    *)
FairSpec ==
  /\ Spec
  /\ \A t \in Threads :
       /\ SF_vars(FreezeOnViolation(t))
       /\ WF_vars(\E d \in DomainIds : FreezeNext(t, d) /\ UNCHANGED opVars)
       /\ WF_vars(FreezeDone(t) /\ UNCHANGED opVars)
       /\ WF_vars(\E d \in DomainIds : SpawnInsert(t, d) /\ UNCHANGED opVars)

\* A violation freezes the whole tree of the domain that committed it.
ViolationSealsTree ==
  \A t \in Threads, d \in DomainIds :
    (at[t] = "violation" /\ job[t].domain = d) ~>
      (d \in Known /\ domains[d].root \in sealed)
=============================================================================
