--------------------------- MODULE SecurityDomain ---------------------------
(***************************************************************************)
(* SecurityDomainRegistry of security_domain.py: the tree of agent domains *)
(* held in memory by one process, changed by threads under an RLock and    *)
(* read without it.  A thread that changes the tree emits its audit event  *)
(* after it has released the lock, and the ledger may raise then.          *)
(*                                                                         *)
(* A domain identifier is fresh; intent, command and model hashes and the  *)
(* fingerprint are functions of the identifier here.                       *)
(***************************************************************************)
EXTENDS Naturals, FiniteSets

CONSTANTS
  Threads,
  DomainIds,     \* identifiers secrets.token_urlsafe can return
  Capabilities,
  Spawn,         \* Capability.AGENT_SPAWN
  Hosts,
  MaxSpawnDepth, \* max_spawn_depth
  MaxGoals,      \* bound on a domain's goal transitions
  None

ASSUME DomainConstants ==
  /\ Spawn \in Capabilities
  /\ MaxSpawnDepth \in Nat
  /\ MaxGoals \in Nat
  /\ None \notin DomainIds
  /\ None \notin Threads

VARIABLES
  domains,  \* _domains
  lock,     \* holder of _lock, or None
  at,       \* each thread's position
  job,      \* each thread's locals
  sealed,   \* roots whose freeze_root has left its loop
  issued    \* identifiers their creation has returned to a caller

registryVars == <<domains, lock, at, job, sealed, issued>>

Free == [known |-> FALSE]
Domain == [parent : DomainIds \cup {None}, root : DomainIds,
           caps : SUBSET Capabilities, hosts : SUBSET Hosts,
           depth : 0..MaxSpawnDepth, goals : 0..MaxGoals, frozen : BOOLEAN]
Known == {d \in DomainIds : domains[d] # Free}
TreeOf(r) == {d \in Known : domains[d].root = r}
Active(d) == d \in Known /\ ~domains[d].frozen
NoJob == [domain |-> None]

\* Where a registry operation can be; Dispatcher adds its own.
RegistrySteps == {"idle", "spawn", "freeze", "emit"}

DomainsOK ==
  /\ domains \in [DomainIds -> Domain \cup {Free}]
  /\ lock \in Threads \cup {None}
  /\ sealed \in SUBSET DomainIds
  /\ issued \in SUBSET DomainIds

RegistryInit ==
  /\ domains = [d \in DomainIds |-> Free]
  /\ lock = None
  /\ at = [t \in Threads |-> "idle"]
  /\ job = [t \in Threads |-> NoJob]
  /\ sealed = {}
  /\ issued = {}

Become(t, step, locals) ==
  /\ at' = [at EXCEPT ![t] = step]
  /\ job' = [job EXCEPT ![t] = locals]

\* The change is made and its audit event is still to be emitted.
Owes(t, d) == Become(t, "emit", [domain |-> d])

CreateRoot(t, d, caps, hosts) ==
  /\ at[t] = "idle"
  /\ lock = None
  /\ domains[d] = Free
  /\ domains' = [domains EXCEPT ![d] =
       [parent |-> None, root |-> d, caps |-> caps, hosts |-> hosts,
        depth |-> 0, goals |-> 0, frozen |-> FALSE]]
  /\ Owes(t, d)
  /\ UNCHANGED <<lock, sealed, issued>>

SpawnAllowed(p, caps, hosts) ==
  /\ Active(p)
  /\ Spawn \in domains[p].caps
  /\ caps \subseteq domains[p].caps
  /\ hosts \subseteq domains[p].hosts
  /\ domains[p].depth < MaxSpawnDepth

\* spawn_child takes the lock, looks the parent up and checks the request ...
SpawnCheck(t, p, caps, hosts) ==
  /\ at[t] = "idle"
  /\ lock = None
  /\ p \in issued
  /\ SpawnAllowed(p, caps, hosts)
  /\ Known # DomainIds
  /\ lock' = t
  /\ Become(t, "spawn", [domain |-> p, caps |-> caps, hosts |-> hosts])
  /\ UNCHANGED <<domains, sealed, issued>>

\* ... and stores the child before it releases the lock.
SpawnInsert(t, d) ==
  LET p == domains[job[t].domain] IN
  /\ at[t] = "spawn"
  /\ domains[d] = Free
  /\ domains' = [domains EXCEPT ![d] =
       [parent |-> job[t].domain, root |-> p.root, caps |-> job[t].caps,
        hosts |-> job[t].hosts, depth |-> p.depth + 1, goals |-> 0, frozen |-> FALSE]]
  /\ lock' = None
  /\ Owes(t, d)
  /\ UNCHANGED <<sealed, issued>>

TransitionGoal(t, d) ==
  /\ at[t] = "idle"
  /\ lock = None
  /\ d \in issued
  /\ Active(d)
  /\ domains[d].goals < MaxGoals
  /\ domains' = [domains EXCEPT ![d].goals = @ + 1]
  /\ Owes(t, d)
  /\ UNCHANGED <<lock, sealed, issued>>

Freeze(t, d) ==
  /\ at[t] = "idle"
  /\ lock = None
  /\ d \in issued
  /\ domains' = [domains EXCEPT ![d].frozen = TRUE]
  /\ Owes(t, d)
  /\ UNCHANGED <<lock, sealed, issued>>

\* freeze_root walks the tree under the lock; readers do not wait for it.
FreezeRoot(t, r) ==
  /\ lock = None
  /\ r \in issued
  /\ lock' = t
  /\ Become(t, "freeze", [domain |-> r, left |-> TreeOf(r)])
  /\ UNCHANGED <<domains, sealed, issued>>

FreezeNext(t, d) ==
  /\ at[t] = "freeze"
  /\ d \in job[t].left
  /\ domains' = [domains EXCEPT ![d].frozen = TRUE]
  /\ job' = [job EXCEPT ![t] = [domain |-> @.domain, left |-> @.left \ {d}]]
  /\ UNCHANGED <<lock, at, sealed, issued>>

FreezeDone(t) ==
  /\ at[t] = "freeze"
  /\ job[t].left = {}
  /\ lock' = None
  /\ sealed' = sealed \cup {job[t].domain}
  /\ Owes(t, job[t].domain)
  /\ UNCHANGED <<domains, issued>>

\* _emit after the lock is released.  If the ledger raises, the operation fails
\* with its change already made: a domain then stays in the registry although
\* nobody was told its identifier.
Emit(t) ==
  /\ at[t] = "emit"
  /\ \/ issued' = issued \cup {job[t].domain}
     \/ UNCHANGED issued
  /\ Become(t, "idle", NoJob)
  /\ UNCHANGED <<domains, lock, sealed>>

\* freeze_root is reached from an idle thread (an operator) here; Dispatcher
\* also reaches it from a violation.
RegistryStep(t) ==
  \/ \E d \in DomainIds :
       \/ \E caps \in SUBSET Capabilities, hosts \in SUBSET Hosts :
            CreateRoot(t, d, caps, hosts) \/ SpawnCheck(t, d, caps, hosts)
       \/ SpawnInsert(t, d)
       \/ TransitionGoal(t, d)
       \/ Freeze(t, d)
       \/ at[t] = "idle" /\ FreezeRoot(t, d)
       \/ FreezeNext(t, d)
  \/ FreezeDone(t)
  \/ Emit(t)

-----------------------------------------------------------------------------
\* No descendant, at any depth, has more authority than the root of its tree
\* was given, and trees are no deeper than max_spawn_depth.
AuthorityNeverGrows ==
  \A d \in Known :
    LET r == domains[d].root IN
    /\ r \in Known
    /\ domains[d].caps \subseteq domains[r].caps
    /\ domains[d].hosts \subseteq domains[r].hosts
    /\ domains[d].parent # None =>
         /\ domains[d].parent \in Known
         /\ domains[d].caps \subseteq domains[domains[d].parent].caps
         /\ Spawn \in domains[domains[d].parent].caps

\* Once freeze_root has returned, every domain of that root is frozen, a child
\* being spawned by another thread at that moment included, and stays so.
SealedTreesFrozen == \A r \in sealed : \A d \in TreeOf(r) : domains[d].frozen

\* A frozen domain is final: it is never thawed, its goal no longer moves and
\* no child appears under it.
FrozenIsFinal ==
  [][\A d \in Known :
       domains[d].frozen =>
         /\ domains'[d] = domains[d]
         /\ \A c \in DomainIds : domains[c] = Free /\ domains'[c] # Free
              => domains'[c].parent # d]_domains

-----------------------------------------------------------------------------
(* The inductive invariant: what a thread inside the lock relies on.         *)

SpawnPrepared(t) ==
  LET j == job[t] IN
  /\ lock = t
  /\ Active(j.domain)
  /\ j.caps \subseteq domains[j.domain].caps
  /\ j.hosts \subseteq domains[j.domain].hosts
  /\ Spawn \in domains[j.domain].caps
  /\ domains[j.domain].depth < MaxSpawnDepth

FreezeUnderway(t) ==
  /\ lock = t
  /\ job[t].domain \in Known
  /\ job[t].left \subseteq TreeOf(job[t].domain)
  /\ \A d \in TreeOf(job[t].domain) \ job[t].left : domains[d].frozen

LockedWork ==
  \A t \in Threads :
    /\ at[t] = "spawn" => SpawnPrepared(t)
    /\ at[t] = "freeze" => FreezeUnderway(t)

\* Every thread has a position and locals; identifiers in use are known.
Threaded ==
  /\ at = [t \in Threads |-> at[t]]
  /\ job = [t \in Threads |-> job[t]]
  /\ \A t \in Threads : at[t] = "emit" => job[t].domain \in Known
  /\ issued \subseteq Known
  /\ sealed \subseteq Known

RegistryInv ==
  /\ DomainsOK
  /\ Threaded
  /\ LockedWork
  /\ AuthorityNeverGrows
  /\ SealedTreesFrozen
=============================================================================
