-------------------------- MODULE DispatcherProofs --------------------------
(***************************************************************************)
(* Proofs about the security-domain registry and the dispatcher above it,  *)
(* for any numbers of threads, domains, capabilities, hosts and operations *)
(* and any spawn depth.  Last, the production gate that guards both: what  *)
(* it verified was installed since the call began, for any files, releases *)
(* and bundles and whatever the deployer changes meanwhile.                *)
(***************************************************************************)
EXTENDS Dispatcher, Production, TLAPS

\* An empty registry satisfies the invariant.
LEMMA InitRegistry == RegistryInit => RegistryInv
BY DEF RegistryInit, RegistryInv, DomainsOK, Threaded, LockedWork, AuthorityNeverGrows,
  SealedTreesFrozen, Known, TreeOf, Free, NoJob

\* Steps that leave the tree alone and move a thread that is not inside the
\* lock, to a position outside it, keep the registry's invariant.
LEMMA OutsideLock ==
  ASSUME NEW t \in Threads, RegistryInv, UNCHANGED <<domains, lock, sealed>>,
         at[t] \notin {"spawn", "freeze"},
         issued' \subseteq Known,
         at' = [at EXCEPT ![t] = at'[t]], at'[t] \notin {"spawn", "freeze", "emit"},
         job' = [job EXCEPT ![t] = job'[t]]
  PROVE  RegistryInv'
<1>1. \A u \in Threads \ {t} : at'[u] = at[u] /\ job'[u] = job[u]
  BY DEF RegistryInv, Threaded
<1>2. Known' = Known /\ \A r : TreeOf(r)' = TreeOf(r)
  BY DEF Known, TreeOf
<1>3. DomainsOK'
  BY DEF RegistryInv, DomainsOK, Known
<1>4. Threaded'
  BY <1>1, <1>2 DEF RegistryInv, Threaded
<1>5. LockedWork'
  BY <1>1, <1>2 DEF RegistryInv, LockedWork, SpawnPrepared, FreezeUnderway, Active
<1>6. AuthorityNeverGrows' /\ SealedTreesFrozen'
  BY <1>2 DEF RegistryInv, AuthorityNeverGrows, SealedTreesFrozen
<1>7. QED
  BY <1>3, <1>4, <1>5, <1>6 DEF RegistryInv

\* While the lock is free nobody is inside it.
LEMMA NobodyInside ==
  ASSUME RegistryInv, lock = None
  PROVE  \A t \in Threads : at[t] \notin {"spawn", "freeze"}
BY DomainConstants DEF RegistryInv, LockedWork, SpawnPrepared, FreezeUnderway

\* A thread inside the lock is alone there.
LEMMA AloneInside ==
  ASSUME RegistryInv, NEW t \in Threads, at[t] \in {"spawn", "freeze"}
  PROVE  lock = t /\ \A u \in Threads \ {t} : at[u] \notin {"spawn", "freeze"}
BY DEF RegistryInv, LockedWork, SpawnPrepared, FreezeUnderway

\* A domain is added: a root of its own, or a child within its parent's
\* authority under a parent that is active.
LEMMA AddDomain ==
  ASSUME NEW t \in Threads, NEW d \in DomainIds, NEW new \in Domain, RegistryInv,
         domains[d] = Free, domains' = [domains EXCEPT ![d] = new],
         ~new.frozen,
         \/ new.parent = None /\ new.root = d
         \/ /\ Active(new.parent) /\ new.root = domains[new.parent].root
            /\ new.caps \subseteq domains[new.parent].caps
            /\ new.hosts \subseteq domains[new.parent].hosts
            /\ Spawn \in domains[new.parent].caps,
         \A u \in Threads \ {t} : at[u] \notin {"spawn", "freeze"},
         lock' = None, at' = [at EXCEPT ![t] = "emit"],
         job' = [job EXCEPT ![t] = [domain |-> d]],
         UNCHANGED <<sealed, issued>>
  PROVE  RegistryInv'
<1>1. new # Free
  BY DEF Domain, Free
<1>2. /\ domains'[d] = new /\ \A e \in DomainIds \ {d} : domains'[e] = domains[e]
      /\ Known' = Known \cup {d} /\ d \notin Known
  BY <1>1 DEF RegistryInv, DomainsOK, Known
<1>3. at'[t] = "emit" /\ \A u \in Threads \ {t} : at'[u] = at[u] /\ job'[u] = job[u]
  BY DEF RegistryInv, Threaded
<1>4. DomainsOK'
  BY DEF RegistryInv, DomainsOK
<1>5. Threaded'
  <2>1. job'[t].domain = d
    BY DEF RegistryInv, Threaded
  <2>2. QED
    BY <1>2, <1>3, <2>1 DEF RegistryInv, Threaded
<1>6. LockedWork'
  BY <1>3 DEF LockedWork
<1>7. AuthorityNeverGrows'
  <2> SUFFICES ASSUME NEW e \in Known'
               PROVE  LET r == domains'[e].root IN
                      /\ r \in Known'
                      /\ domains'[e].caps \subseteq domains'[r].caps
                      /\ domains'[e].hosts \subseteq domains'[r].hosts
                      /\ domains'[e].parent # None =>
                           /\ domains'[e].parent \in Known'
                           /\ domains'[e].caps \subseteq domains'[domains'[e].parent].caps
                           /\ Spawn \in domains'[domains'[e].parent].caps
    BY DEF AuthorityNeverGrows
  <2>1. CASE e # d
    BY <2>1, <1>2 DEF RegistryInv, AuthorityNeverGrows, Known
  <2>2. CASE e = d /\ new.parent = None /\ new.root = d
    BY <2>2, <1>2
  <2>3. CASE e = d /\ ~(new.parent = None /\ new.root = d)
    <3>1. new.parent \in Known /\ new.parent # d /\ new.parent \in DomainIds
      BY <2>3, <1>2 DEF Active, Known
    <3>2. /\ domains[new.parent].root \in Known
          /\ domains[new.parent].caps \subseteq domains[domains[new.parent].root].caps
          /\ domains[new.parent].hosts \subseteq domains[domains[new.parent].root].hosts
      BY <3>1 DEF RegistryInv, AuthorityNeverGrows
    <3>3. QED
      BY SMTT(60), ZenonT(60), <2>3, <3>1, <3>2, <1>2 DEF Known
  <2>4. QED
    BY <2>1, <2>2, <2>3
<1>8. SealedTreesFrozen'
  <2> SUFFICES ASSUME NEW r \in sealed, NEW e \in Known', domains'[e].root = r
               PROVE  domains'[e].frozen
    BY DEF SealedTreesFrozen, TreeOf
  <2>1. CASE e # d
    BY <2>1, <1>2 DEF RegistryInv, SealedTreesFrozen, TreeOf, Known
  <2>2. CASE e = d
    <3>1. r = new.root /\ r \in Known /\ r # d
      BY <2>2, <1>2 DEF RegistryInv, Threaded
    <3>2. Active(new.parent) /\ domains[new.parent].root = r
      BY <3>1
    <3>3. QED
      BY <3>2 DEF RegistryInv, SealedTreesFrozen, TreeOf, Active
  <2>3. QED
    BY <2>1, <2>2
<1>9. QED
  BY <1>4, <1>5, <1>6, <1>7, <1>8 DEF RegistryInv

\* A known domain keeps its place and its authority and is at most frozen:
\* the tree-wide parts of the invariant survive.
LEMMA TouchDomain ==
  ASSUME NEW d \in Known, NEW new \in Domain, RegistryInv,
         domains' = [domains EXCEPT ![d] = new],
         new.parent = domains[d].parent, new.root = domains[d].root,
         new.caps = domains[d].caps, new.hosts = domains[d].hosts,
         domains[d].frozen => new.frozen,
         UNCHANGED <<sealed, issued>>, lock' \in Threads \cup {None}
  PROVE  /\ Known' = Known /\ \A r : TreeOf(r)' = TreeOf(r)
         /\ \A e \in Known : domains[e].frozen => domains'[e].frozen
         /\ DomainsOK' /\ AuthorityNeverGrows' /\ SealedTreesFrozen'
<1>1. new # Free /\ d \in DomainIds
  BY DEF Domain, Free, Known
<1>2. domains'[d] = new /\ \A e \in DomainIds \ {d} : domains'[e] = domains[e]
  BY <1>1 DEF RegistryInv, DomainsOK
<1>3. Known' = Known
  BY <1>1, <1>2 DEF Known
<1>4. \A e \in Known : /\ domains'[e].root = domains[e].root
                       /\ domains'[e].parent = domains[e].parent
                       /\ domains'[e].caps = domains[e].caps
                       /\ domains'[e].hosts = domains[e].hosts
                       /\ domains[e].frozen => domains'[e].frozen
  BY <1>2 DEF Known
<1>5. \A r : TreeOf(r)' = TreeOf(r)
  BY <1>3, <1>4 DEF TreeOf
<1>6. DomainsOK'
  BY <1>1 DEF RegistryInv, DomainsOK
<1>7. AuthorityNeverGrows'
  BY <1>3, <1>4 DEF RegistryInv, AuthorityNeverGrows
<1>8. SealedTreesFrozen'
  BY <1>3, <1>4, <1>5 DEF RegistryInv, SealedTreesFrozen, TreeOf
<1>9. QED
  BY <1>3, <1>4, <1>5, <1>6, <1>7, <1>8

\* transition_goal and freeze: one domain changes while nobody is inside.
LEMMA ChangeOutside ==
  ASSUME NEW t \in Threads, NEW d \in Known, NEW new \in Domain, RegistryInv, lock = None,
         domains' = [domains EXCEPT ![d] = new],
         new.parent = domains[d].parent, new.root = domains[d].root,
         new.caps = domains[d].caps, new.hosts = domains[d].hosts,
         domains[d].frozen => new.frozen,
         Owes(t, d), UNCHANGED <<lock, sealed, issued>>
  PROVE  RegistryInv'
<1>1. /\ Known' = Known /\ DomainsOK' /\ AuthorityNeverGrows' /\ SealedTreesFrozen'
  BY TouchDomain DEF RegistryInv, DomainsOK
<1>2. /\ at'[t] = "emit" /\ job'[t].domain = d
      /\ \A u \in Threads \ {t} : at'[u] = at[u] /\ job'[u] = job[u]
      /\ at' = [u \in Threads |-> at'[u]] /\ job' = [u \in Threads |-> job'[u]]
  BY DEF Owes, Become, RegistryInv, Threaded
<1>3. Threaded'
  BY <1>1, <1>2 DEF RegistryInv, Threaded
<1>4. LockedWork'
  BY <1>2, NobodyInside DEF LockedWork
<1>5. QED
  BY <1>1, <1>3, <1>4 DEF RegistryInv

\* freeze_root starts with the whole tree still to freeze.
LEMMA FreezeRootStep ==
  ASSUME NEW t \in Threads, NEW r \in DomainIds, RegistryInv, FreezeRoot(t, r)
  PROVE  RegistryInv'
<1>1. Known' = Known /\ \A x : TreeOf(x)' = TreeOf(x)
  BY DEF FreezeRoot, Known, TreeOf
<1>2. /\ at'[t] = "freeze" /\ job'[t].domain = r /\ job'[t].left = TreeOf(r)
      /\ \A u \in Threads \ {t} : at'[u] = at[u] /\ job'[u] = job[u]
      /\ at' = [u \in Threads |-> at'[u]] /\ job' = [u \in Threads |-> job'[u]]
  BY DEF FreezeRoot, Become, RegistryInv, Threaded
<1>3. Threaded'
  BY <1>1, <1>2 DEF FreezeRoot, RegistryInv, Threaded
<1>4. LockedWork'
  <2>1. \A u \in Threads \ {t} : at'[u] \notin {"spawn", "freeze"}
    BY <1>2, NobodyInside DEF FreezeRoot
  <2>2. FreezeUnderway(t)'
    BY <1>1, <1>2 DEF FreezeRoot, FreezeUnderway, RegistryInv, Threaded
  <2>3. QED
    BY <1>2, <2>1, <2>2 DEF LockedWork
<1>5. DomainsOK' /\ AuthorityNeverGrows' /\ SealedTreesFrozen'
  BY <1>1 DEF FreezeRoot, RegistryInv, DomainsOK, AuthorityNeverGrows, SealedTreesFrozen
<1>6. QED
  BY <1>3, <1>4, <1>5 DEF RegistryInv

\* One more domain of the tree is frozen.
LEMMA FreezeNextStep ==
  ASSUME NEW t \in Threads, NEW d \in DomainIds, RegistryInv, FreezeNext(t, d)
  PROVE  RegistryInv'
<1> DEFINE new == [domains[d] EXCEPT !.frozen = TRUE]
<1>1. FreezeUnderway(t) /\ d \in job[t].left /\ d \in Known
  BY DEF FreezeNext, RegistryInv, LockedWork, FreezeUnderway, TreeOf
<1>2. domains[d] \in Domain
  BY <1>1 DEF RegistryInv, DomainsOK, Known
<1>3. /\ new \in Domain /\ new.parent = domains[d].parent /\ new.root = domains[d].root
      /\ new.caps = domains[d].caps /\ new.hosts = domains[d].hosts /\ new.frozen
  BY <1>2 DEF Domain
<1>4. domains' = [domains EXCEPT ![d] = new]
  BY DEF FreezeNext
<1>5. lock' = lock /\ UNCHANGED <<at, sealed, issued>>
  BY DEF FreezeNext
<1>6. /\ Known' = Known /\ \A r : TreeOf(r)' = TreeOf(r)
      /\ \A e \in Known : domains[e].frozen => domains'[e].frozen
      /\ DomainsOK' /\ AuthorityNeverGrows' /\ SealedTreesFrozen'
  <2> HIDE DEF new
  <2>1. QED
    BY <1>1, <1>3, <1>4, <1>5, TouchDomain DEF RegistryInv, DomainsOK
<1>7. /\ job'[t] = [domain |-> job[t].domain, left |-> job[t].left \ {d}]
      /\ \A u \in Threads \ {t} : job'[u] = job[u]
      /\ job' = [u \in Threads |-> job'[u]]
  BY DEF FreezeNext, RegistryInv, Threaded
<1>8. at[t] = "freeze"
  BY DEF FreezeNext
<1>9. Threaded'
  BY <1>5, <1>6, <1>7, <1>8 DEF RegistryInv, Threaded
<1>10. domains'[d].frozen
  BY <1>3, <1>4 DEF RegistryInv, DomainsOK
<1>11. job'[t].domain = job[t].domain /\ job'[t].left = job[t].left \ {d}
  BY <1>7
<1>12. FreezeUnderway(t)'
  <2> DEFINE tree == TreeOf(job[t].domain)
  <2>1. tree' = tree
    BY <1>6, <1>11 DEF TreeOf
  <2>2. \A e \in tree \ (job[t].left \ {d}) : domains'[e].frozen
    BY <1>1, <1>6, <1>10 DEF FreezeUnderway, TreeOf
  <2>3. QED
    BY <1>1, <1>5, <1>6, <1>11, <2>1, <2>2 DEF FreezeUnderway
<1>13. LockedWork'
  BY <1>5, <1>8, <1>12, AloneInside DEF LockedWork
<1>14. QED
  BY <1>6, <1>9, <1>13 DEF RegistryInv

\* freeze_root leaves its loop: the whole tree is frozen and can be called sealed.
LEMMA FreezeDoneStep ==
  ASSUME NEW t \in Threads, RegistryInv, FreezeDone(t)
  PROVE  RegistryInv'
<1>1. FreezeUnderway(t) /\ \A d \in TreeOf(job[t].domain) : domains[d].frozen
  BY DEF FreezeDone, RegistryInv, LockedWork, FreezeUnderway
<1>2. Known' = Known /\ \A r : TreeOf(r)' = TreeOf(r)
  BY DEF FreezeDone, Known, TreeOf
<1>3. /\ at'[t] = "emit" /\ job'[t].domain = job[t].domain
      /\ \A u \in Threads \ {t} : at'[u] = at[u] /\ job'[u] = job[u]
      /\ at' = [u \in Threads |-> at'[u]] /\ job' = [u \in Threads |-> job'[u]]
  BY DEF FreezeDone, Owes, Become, RegistryInv, Threaded
<1>4. Threaded'
  BY <1>1, <1>2, <1>3 DEF FreezeDone, FreezeUnderway, RegistryInv, Threaded
<1>5. LockedWork'
  BY <1>3, AloneInside DEF FreezeDone, LockedWork
<1>6. SealedTreesFrozen'
  BY <1>1, <1>2 DEF FreezeDone, RegistryInv, SealedTreesFrozen
<1>7. DomainsOK' /\ AuthorityNeverGrows'
  BY <1>1, <1>2 DEF FreezeDone, FreezeUnderway, RegistryInv, DomainsOK, AuthorityNeverGrows, Known
<1>8. QED
  BY <1>4, <1>5, <1>6, <1>7 DEF RegistryInv

\* Every registry operation keeps the registry's invariant.
LEMMA RegistryStepInv ==
  ASSUME NEW t \in Threads, RegistryInv, RegistryStep(t)
  PROVE  RegistryInv'
<1>1. ASSUME NEW d \in DomainIds, NEW caps \in SUBSET Capabilities, NEW hosts \in SUBSET Hosts,
             CreateRoot(t, d, caps, hosts)
      PROVE  RegistryInv'
  <2> DEFINE new == [parent |-> None, root |-> d, caps |-> caps, hosts |-> hosts,
                     depth |-> 0, goals |-> 0, frozen |-> FALSE]
  <2>1. new \in Domain
    BY DomainConstants DEF Domain
  <2>2. \A u \in Threads \ {t} : at[u] \notin {"spawn", "freeze"}
    BY <1>1, NobodyInside DEF CreateRoot
  <2>3. QED
    BY <1>1, <2>1, <2>2, AddDomain DEF CreateRoot, Owes, Become
<1>2. ASSUME NEW p \in DomainIds, NEW caps \in SUBSET Capabilities, NEW hosts \in SUBSET Hosts,
             SpawnCheck(t, p, caps, hosts)
      PROVE  RegistryInv'
  <2>1. Known' = Known /\ \A r : TreeOf(r)' = TreeOf(r)
    BY <1>2 DEF SpawnCheck, SpawnAllowed, Known, TreeOf
  <2>2. /\ at'[t] = "spawn" /\ job'[t] = [domain |-> p, caps |-> caps, hosts |-> hosts]
        /\ \A u \in Threads \ {t} : at'[u] = at[u] /\ job'[u] = job[u]
        /\ at' = [u \in Threads |-> at'[u]] /\ job' = [u \in Threads |-> job'[u]]
    BY <1>2 DEF SpawnCheck, SpawnAllowed, Become, RegistryInv, Threaded
  <2>3. Threaded'
    BY <1>2, <2>1, <2>2 DEF SpawnCheck, SpawnAllowed, RegistryInv, Threaded
  <2>4. LockedWork'
    <3>1. \A u \in Threads \ {t} : at'[u] \notin {"spawn", "freeze"}
      BY <1>2, <2>2, NobodyInside DEF SpawnCheck, SpawnAllowed
    <3>2. SpawnPrepared(t)'
      BY <1>2, <2>1, <2>2 DEF SpawnCheck, SpawnAllowed, SpawnPrepared, Active
    <3>3. QED
      BY <2>2, <3>1, <3>2 DEF LockedWork
  <2>5. DomainsOK' /\ AuthorityNeverGrows' /\ SealedTreesFrozen'
    BY <1>2, <2>1 DEF SpawnCheck, SpawnAllowed, RegistryInv, DomainsOK, AuthorityNeverGrows, SealedTreesFrozen
  <2>6. QED
    BY <2>3, <2>4, <2>5 DEF RegistryInv
<1>3. ASSUME NEW d \in DomainIds, SpawnInsert(t, d) PROVE RegistryInv'
  <2> DEFINE p == job[t].domain
             new == [parent |-> p, root |-> domains[p].root, caps |-> job[t].caps,
                     hosts |-> job[t].hosts, depth |-> domains[p].depth + 1,
                     goals |-> 0, frozen |-> FALSE]
  <2>1. SpawnPrepared(t) /\ p \in Known /\ p \in DomainIds /\ domains[p] \in Domain
    BY <1>3 DEF SpawnInsert, RegistryInv, LockedWork, SpawnPrepared, Active, Known, DomainsOK
  <2>2. new \in Domain
    BY SMTT(60), ZenonT(60), <2>1, DomainConstants DEF SpawnPrepared, Domain
  <2>3. \A u \in Threads \ {t} : at[u] \notin {"spawn", "freeze"}
    BY <1>3, AloneInside DEF SpawnInsert
  <2>4. QED
    BY <1>3, <2>1, <2>2, <2>3, AddDomain DEF SpawnInsert, SpawnPrepared, Owes, Become
<1>4. ASSUME NEW d \in DomainIds, TransitionGoal(t, d) PROVE RegistryInv'
  <2> DEFINE new == [domains[d] EXCEPT !.goals = @ + 1]
  <2>1. d \in Known /\ domains[d] \in Domain
    BY <1>4 DEF TransitionGoal, Active, RegistryInv, DomainsOK, Known
  <2>2. /\ new \in Domain /\ new.parent = domains[d].parent /\ new.root = domains[d].root
        /\ new.caps = domains[d].caps /\ new.hosts = domains[d].hosts
        /\ new.frozen = domains[d].frozen
    BY <1>4, <2>1, DomainConstants DEF Domain, TransitionGoal
  <2>3. domains' = [domains EXCEPT ![d] = new]
    BY <1>4 DEF TransitionGoal
  <2>4. QED
    <3> HIDE DEF new
    <3>1. QED
      BY <1>4, <2>1, <2>2, <2>3, ChangeOutside DEF TransitionGoal
<1>5. ASSUME NEW d \in DomainIds, Freeze(t, d) PROVE RegistryInv'
  <2> DEFINE new == [domains[d] EXCEPT !.frozen = TRUE]
  <2>1. d \in Known /\ domains[d] \in Domain
    BY <1>5 DEF Freeze, RegistryInv, DomainsOK, Threaded, Known
  <2>2. /\ new \in Domain /\ new.parent = domains[d].parent /\ new.root = domains[d].root
        /\ new.caps = domains[d].caps /\ new.hosts = domains[d].hosts /\ new.frozen
    BY <2>1 DEF Domain
  <2>3. domains' = [domains EXCEPT ![d] = new]
    BY <1>5 DEF Freeze
  <2>4. QED
    <3> HIDE DEF new
    <3>1. QED
      BY <1>5, <2>1, <2>2, <2>3, ChangeOutside DEF Freeze
<1>6. CASE Emit(t)
  <2>1. issued' \subseteq Known
    BY <1>6 DEF Emit, RegistryInv, Threaded
  <2>2. at'[t] = "idle" /\ at' = [at EXCEPT ![t] = at'[t]] /\ job' = [job EXCEPT ![t] = job'[t]]
    BY <1>6 DEF Emit, Become, RegistryInv, Threaded
  <2>3. QED
    BY <1>6, <2>1, <2>2, OutsideLock DEF Emit
<1>7. QED
  BY <1>1, <1>2, <1>3, <1>4, <1>5, <1>6, FreezeRootStep, FreezeNextStep, FreezeDoneStep
    DEF RegistryStep

\* What a registry operation leaves of the others' view: known domains keep
\* their root, sealed trees stay sealed, other threads are where they were.
LEMMA RegistryFrame ==
  ASSUME NEW t \in Threads, RegistryInv, RegistryStep(t)
  PROVE  /\ \A d \in Known : d \in Known' /\ domains'[d].root = domains[d].root
         /\ sealed \subseteq sealed'
         /\ at'[t] \in RegistrySteps
         /\ \A u \in Threads \ {t} : at'[u] = at[u] /\ job'[u] = job[u]
<1>1. sealed \subseteq sealed'
  <2>1. ASSUME NEW e \in DomainIds, NEW caps \in SUBSET Capabilities, NEW hosts \in SUBSET Hosts,
               CreateRoot(t, e, caps, hosts) \/ SpawnCheck(t, e, caps, hosts)
        PROVE  sealed' = sealed
    BY <2>1 DEF CreateRoot, SpawnCheck
  <2>2. ASSUME NEW e \in DomainIds,
               \/ SpawnInsert(t, e) \/ TransitionGoal(t, e) \/ Freeze(t, e)
               \/ FreezeRoot(t, e) \/ FreezeNext(t, e)
        PROVE  sealed' = sealed
    BY <2>2 DEF SpawnInsert, TransitionGoal, Freeze, FreezeRoot, FreezeNext
  <2>3. CASE FreezeDone(t)
    BY <2>3 DEF FreezeDone
  <2>4. CASE Emit(t)
    BY <2>4 DEF Emit
  <2>5. QED
    BY <2>1, <2>2, <2>3, <2>4 DEF RegistryStep
<1>2. at'[t] \in RegistrySteps
  BY SMTT(60), ZenonT(60) DEF RegistryInv, Threaded, RegistryStep, CreateRoot, SpawnCheck, SpawnAllowed, SpawnInsert, TransitionGoal,
    Freeze, FreezeRoot, FreezeNext, FreezeDone, Emit, Owes, Become, RegistrySteps
<1>3. \A u \in Threads \ {t} : at'[u] = at[u] /\ job'[u] = job[u]
  BY SMTT(60), ZenonT(60) DEF RegistryInv, Threaded, RegistryStep, CreateRoot, SpawnCheck, SpawnAllowed, SpawnInsert, TransitionGoal,
    Freeze, FreezeRoot, FreezeNext, FreezeDone, Emit, Owes, Become
<1>4. ASSUME NEW d \in Known PROVE d \in Known' /\ domains'[d].root = domains[d].root
  <2>1. d \in DomainIds /\ domains[d] \in Domain /\ domains[d] # Free
    BY DEF Known, RegistryInv, DomainsOK
  <2>2. \/ domains'[d] = domains[d]
        \/ domains'[d] = [domains[d] EXCEPT !.goals = @ + 1]
        \/ domains'[d] = [domains[d] EXCEPT !.frozen = TRUE]
    <3>1. ASSUME NEW e \in DomainIds, NEW caps \in SUBSET Capabilities, NEW hosts \in SUBSET Hosts,
                 CreateRoot(t, e, caps, hosts)
          PROVE  domains'[d] = domains[d]
      BY <2>1, <3>1 DEF RegistryInv, DomainsOK, CreateRoot
    <3>2. ASSUME NEW e \in DomainIds, NEW caps \in SUBSET Capabilities, NEW hosts \in SUBSET Hosts,
                 SpawnCheck(t, e, caps, hosts)
          PROVE  domains'[d] = domains[d]
      BY <3>2 DEF SpawnCheck
    <3>3. ASSUME NEW e \in DomainIds, SpawnInsert(t, e)
          PROVE  domains'[d] = domains[d]
      BY <2>1, <3>3 DEF RegistryInv, DomainsOK, SpawnInsert
    <3>4. ASSUME NEW e \in DomainIds, TransitionGoal(t, e)
          PROVE  domains'[d] = domains[d] \/ domains'[d] = [domains[d] EXCEPT !.goals = @ + 1]
      BY <2>1, <3>4 DEF RegistryInv, DomainsOK, TransitionGoal
    <3>5. ASSUME NEW e \in DomainIds, Freeze(t, e) \/ FreezeNext(t, e)
          PROVE  domains'[d] = domains[d] \/ domains'[d] = [domains[d] EXCEPT !.frozen = TRUE]
      BY <2>1, <3>5 DEF RegistryInv, DomainsOK, Freeze, FreezeNext
    <3>6. ASSUME NEW e \in DomainIds, FreezeRoot(t, e)
          PROVE  domains'[d] = domains[d]
      BY <3>6 DEF FreezeRoot
    <3>7. CASE FreezeDone(t) \/ Emit(t)
      BY <3>7 DEF FreezeDone, Emit
    <3>8. QED
      BY <3>1, <3>2, <3>3, <3>4, <3>5, <3>6, <3>7 DEF RegistryStep
  <2>3. domains'[d].root = domains[d].root /\ domains'[d] # Free
    BY <2>1, <2>2 DEF Domain, Free
  <2>4. QED
    BY <2>1, <2>3 DEF Known
<1>5. QED
  BY <1>1, <1>2, <1>3, <1>4

\* A dispatcher step leaves the registry's invariant alone.
LEMMA DispatchKeepsRegistry ==
  ASSUME NEW t \in Threads, RegistryInv, DispatchStep(t)
  PROVE  RegistryInv'
<1>1. CASE FreezeOnViolation(t)
  <2>1. domains[job[t].domain].root \in issued
    BY <1>1 DEF FreezeOnViolation, FreezeRoot
  <2>2. QED
    BY <1>1, <2>1, FreezeRootStep DEF FreezeOnViolation, RegistryInv, DomainsOK
<1>2. CASE ~FreezeOnViolation(t)
  <2>1. at[t] \notin {"spawn", "freeze"} /\ at'[t] \notin {"spawn", "freeze", "emit"}
    BY <1>2 DEF DispatchStep, Authorise, RecordDispatch, Recheck, Effect, Violation, RecordCheck,
      RecordBroker, Fail, Move, Raise, Answer, Become, RegistryInv, Threaded
  <2>2. UNCHANGED <<domains, lock, sealed, issued>>
    BY <1>2 DEF DispatchStep, Authorise, RecordDispatch, Recheck, Effect, Violation, RecordCheck,
      RecordBroker, Fail
  <2>3. at' = [at EXCEPT ![t] = at'[t]]
    BY <1>2 DEF DispatchStep, Authorise, RecordDispatch, Recheck, Effect, Violation, RecordCheck,
      RecordBroker, Fail, Move, Raise, Answer, Become, RegistryInv, Threaded
  <2>4. job' = [job EXCEPT ![t] = job'[t]]
    BY <1>2 DEF DispatchStep, Authorise, RecordDispatch, Recheck, Effect, Violation, RecordCheck,
      RecordBroker, Fail, Move, Raise, Answer, Become, RegistryInv, Threaded
  <2>5. QED
    BY <2>1, <2>2, <2>3, <2>4, OutsideLock DEF RegistryInv, Threaded
<1>3. QED
  BY <1>1, <1>2

\* What a dispatcher step leaves to the other threads.
LEMMA DispatchFrame ==
  ASSUME NEW t \in Threads, DispatchInv, DispatchStep(t)
  PROVE  /\ UNCHANGED <<domains, sealed>>
         /\ logged' = [u \in Threads |-> logged'[u]]
         /\ \A u \in Threads \ {t} : at'[u] = at[u] /\ job'[u] = job[u] /\ logged'[u] = logged[u]
<1>1. UNCHANGED <<domains, sealed>>
  BY DEF DispatchStep, Authorise, RecordDispatch, Recheck, Effect, Violation, FreezeOnViolation,
    FreezeRoot, RecordCheck, RecordBroker, Fail
<1>2. \/ logged' = logged
      \/ logged' = [logged EXCEPT ![t] = TRUE]
      \/ logged' = [logged EXCEPT ![t] = FALSE]
  BY DEF DispatchStep, Authorise, RecordDispatch, Recheck, Effect, Violation, FreezeOnViolation,
    RecordCheck, RecordBroker, Fail, Raise, Answer, opVars
<1>3. /\ logged' = [u \in Threads |-> logged'[u]]
      /\ \A u \in Threads \ {t} : logged'[u] = logged[u]
  BY <1>2 DEF DispatchInv
<1>4. \A u \in Threads \ {t} : at'[u] = at[u] /\ job'[u] = job[u]
  BY DEF DispatchStep, Authorise, RecordDispatch, Recheck, Effect, Violation, FreezeOnViolation,
    FreezeRoot, RecordCheck, RecordBroker, Fail, Move, Raise, Answer, Become, DispatchInv,
    RegistryInv, Threaded
<1>5. QED
  BY <1>1, <1>3, <1>4

\* A step that adds no late effect and clears thread t for nothing new.
LEMMA NoLateStep ==
  ASSUME NEW t \in Threads, DispatchInv, DispatchStep(t), late' = late, offRecord' = offRecord,
         Cleared(t)'
  PROVE  DispatchInv'
<1>1. RegistryInv'
  BY DispatchKeepsRegistry DEF DispatchInv
<1>2. Known' = Known
  BY DispatchFrame DEF Known
<1>3. \A u \in Threads : Cleared(u)'
  BY <1>2, DispatchFrame DEF DispatchInv, Cleared
<1>4. QED
  BY <1>1, <1>3, DispatchFrame DEF DispatchInv, OneLateEffect, ReturnedIsRecorded

\* Every dispatcher step keeps DispatchInv.
LEMMA DispatchStepInv ==
  ASSUME NEW t \in Threads, DispatchInv, DispatchStep(t)
  PROVE  DispatchInv'
<1> USE DEF DispatchInv, RegistryInv, Threaded
<1>1. ASSUME NEW d \in DomainIds, NEW kind \in Kinds, Authorise(t, d, kind) PROVE DispatchInv'
  <2>1. at'[t] \in {"dispatch", "effect", "recheck"} /\ job'[t].domain = d /\ job'[t].kind = kind
    BY <1>1 DEF Authorise, Become
  <2>2. (at'[t] = "effect" => kind = "grant") /\ (at'[t] = "recheck" => kind # "command")
    BY <1>1 DEF Authorise, Become
  <2>3. d \in Known /\ ~domains[d].frozen
    BY <1>1 DEF Authorise, Active
  <2>4. domains[d].root \notin sealed
    BY <2>3 DEF SealedTreesFrozen, TreeOf
  <2>5. Cleared(t)'
    BY <1>1, <2>1, <2>2, <2>3, <2>4 DEF Authorise, Cleared, Known
  <2>6. QED
    BY <1>1, <2>5, NoLateStep DEF Authorise
<1>2. CASE RecordDispatch(t)
  <2>1. at'[t] = "effect" /\ logged'[t] /\ UNCHANGED <<job, domains, late, offRecord>>
    BY <1>2 DEF RecordDispatch, Move
  <2>2. Cleared(t)'
    BY <1>2, <2>1 DEF RecordDispatch, Cleared, Known
  <2>3. QED
    BY <2>1, <2>2, NoLateStep
<1>3. CASE Recheck(t)
  <2>1. at'[t] = "effect" /\ UNCHANGED <<job, domains, logged, late, offRecord>>
    BY <1>3 DEF Recheck, Move, opVars
  <2>2. job[t].kind # "command"
    BY <1>3 DEF Recheck, Cleared
  <2>3. Cleared(t)'
    BY <1>3, <2>1, <2>2 DEF Recheck, Cleared, Known
  <2>4. QED
    BY <2>1, <2>3, NoLateStep
<1>4. CASE Effect(t)
  <2> DEFINE r == domains[job[t].domain].root
  <2>1. Cleared(t) /\ at[t] = "effect"
    BY <1>4 DEF Effect
  <2>2. offRecord' = offRecord
    BY <1>4, <2>1 DEF Effect, Answer, Cleared
  <2>3. at'[t] \in {"idle", "record"}
    BY <1>4 DEF Effect, Answer, Raise, Become, Move
  <2>4. /\ late' \subseteq late \cup {<<t, op[t], r>>}
        /\ <<t, op[t], r>> \in late' => <<t, op[t], r>> \in late \/ r \in sealed
    BY <1>4 DEF Effect
  <2>5. \A o \in late : o[1] = t => o[3] # r
    BY <2>1 DEF Cleared
  <2>6. OneLateEffect'
    BY <2>4, <2>5 DEF OneLateEffect
  <2>7. \A o \in late' : o[3] \in sealed
    BY <2>4
  <2>8. \A u \in Threads : Cleared(u)'
    <3> SUFFICES ASSUME NEW u \in Threads PROVE Cleared(u)'
      OBVIOUS
    <3>1. CASE u = t
      BY <3>1, <2>3 DEF Cleared
    <3>2. CASE u # t
      <4>1. \A o \in late' : o[1] = u => o \in late
        BY <2>4, <3>2
      <4>2. Known' = Known /\ Cleared(u)
        BY DispatchFrame DEF Known
      <4>3. QED
        BY <3>2, <4>1, <4>2, DispatchFrame DEF Cleared
    <3>3. QED
      BY <3>1, <3>2
  <2>9. RegistryInv' /\ sealed' = sealed /\ logged' = [u \in Threads |-> logged'[u]]
    BY DispatchKeepsRegistry, DispatchFrame
  <2>10. QED
    BY <2>2, <2>6, <2>7, <2>8, <2>9 DEF ReturnedIsRecorded
<1>5. CASE Violation(t) \/ FreezeOnViolation(t) \/ RecordCheck(t) \/ RecordBroker(t) \/ Fail(t)
  <2>1. at'[t] \notin {"dispatch", "recheck", "effect"}
    BY <1>5 DEF Violation, FreezeOnViolation, FreezeRoot, RecordCheck, RecordBroker, Fail, Move,
      Raise, Answer, Become
  <2>2. late' = late /\ offRecord' = offRecord
    BY <1>5 DEF Violation, FreezeOnViolation, RecordCheck, RecordBroker, Fail, Answer, opVars
  <2>3. QED
    BY <2>1, <2>2, NoLateStep DEF Cleared
<1>6. QED
  BY <1>1, <1>2, <1>3, <1>4, <1>5 DEF DispatchStep

\* A registry operation keeps what the dispatcher relies on.
LEMMA RegistryKeepsDispatch ==
  ASSUME NEW t \in Threads, DispatchInv, RegistryStep(t), UNCHANGED opVars
  PROVE  DispatchInv'
<1>1. RegistryInv'
  BY RegistryStepInv DEF DispatchInv
<1>2. \A u \in Threads : Cleared(u)'
  <2> SUFFICES ASSUME NEW u \in Threads PROVE Cleared(u)'
    OBVIOUS
  <2>1. CASE u = t
    BY <2>1, RegistryFrame DEF DispatchInv, Cleared, RegistrySteps
  <2>2. CASE u # t
    <3>1. Cleared(u)
      BY DEF DispatchInv
    <3>2. QED
      BY <2>2, <3>1, RegistryFrame DEF DispatchInv, Cleared, opVars
  <2>3. QED
    BY <2>1, <2>2
<1>3. \A o \in late' : o[3] \in sealed'
  BY RegistryFrame DEF DispatchInv, opVars
<1>4. QED
  BY <1>1, <1>2, <1>3 DEF DispatchInv, opVars, OneLateEffect, ReturnedIsRecorded

\* The invariant of registry and dispatcher together holds in every reachable state.
THEOREM DispatchInvariant == Spec => []DispatchInv
<1>1. Init => DispatchInv
  BY InitRegistry DEF Init, DispatchInv, RegistryInit, Cleared, OneLateEffect, ReturnedIsRecorded
<1>2. DispatchInv /\ [Next]_vars => DispatchInv'
  <2> SUFFICES ASSUME DispatchInv, [Next]_vars PROVE DispatchInv'
    OBVIOUS
  <2>1. ASSUME NEW t \in Threads, RegistryStep(t) /\ UNCHANGED opVars PROVE DispatchInv'
    BY <2>1, RegistryKeepsDispatch
  <2>2. ASSUME NEW t \in Threads, DispatchStep(t) PROVE DispatchInv'
    BY <2>2, DispatchStepInv
  <2>3. CASE UNCHANGED vars
    <3>1. /\ domains' = domains /\ lock' = lock /\ at' = at /\ job' = job
          /\ sealed' = sealed /\ issued' = issued
          /\ logged' = logged /\ offRecord' = offRecord /\ late' = late
      BY <2>3 DEF vars, registryVars, opVars
    <3>2. Known' = Known
      BY <3>1 DEF Known
    <3>3. DomainsOK'
      BY <3>1 DEF DispatchInv, RegistryInv, DomainsOK
    <3>4. Threaded'
      BY <3>1, <3>2 DEF DispatchInv, RegistryInv, Threaded
    <3>5. \A t \in Threads : at[t] = "spawn" => SpawnPrepared(t)'
      BY <3>1, <3>2 DEF DispatchInv, RegistryInv, LockedWork, SpawnPrepared, Active
    <3>6. \A t \in Threads : at[t] = "freeze" => FreezeUnderway(t)'
      BY <3>1, <3>2 DEF DispatchInv, RegistryInv, LockedWork, FreezeUnderway, TreeOf
    <3>7. LockedWork'
      BY <3>1, <3>5, <3>6 DEF LockedWork
    <3>8. AuthorityNeverGrows'
      BY <3>1, <3>2 DEF DispatchInv, RegistryInv, AuthorityNeverGrows
    <3>9. SealedTreesFrozen'
      BY <3>1, <3>2 DEF DispatchInv, RegistryInv, SealedTreesFrozen, TreeOf
    <3>10. \A t \in Threads : Cleared(t)'
      BY <3>1, <3>2 DEF DispatchInv, Cleared
    <3>11. QED
      BY <3>1, <3>3, <3>4, <3>7, <3>8, <3>9, <3>10
      DEF DispatchInv, RegistryInv, OneLateEffect, ReturnedIsRecorded
  <2>4. QED
    BY <2>1, <2>2, <2>3 DEF Next
<1>3. QED
  BY <1>1, <1>2, PTL DEF Spec

\* spawn_child hands a child no capability and no host its root lacks.
THEOREM ChildrenNeverGainAuthority == Spec => []AuthorityNeverGrows
BY DispatchInvariant, PTL DEF DispatchInv, RegistryInv

\* freeze_root leaves no active domain in the tree, now or later.
THEOREM SealedMeansFrozen == Spec => []SealedTreesFrozen
BY DispatchInvariant, PTL DEF DispatchInv, RegistryInv

\* No result reaches the agent before its audit event.
THEOREM NothingOffTheRecord == Spec => []ReturnedIsRecorded
BY DispatchInvariant, PTL DEF DispatchInv

\* After freeze_root a thread completes at most one operation in that tree.
THEOREM AtMostOneLateEffect == Spec => []OneLateEffect
BY DispatchInvariant, PTL DEF DispatchInv

\* A frozen domain never changes again and never gets another child.
THEOREM FreezingIsFinal == Spec => FrozenIsFinal
<1> DEFINE Final == \A d \in Known :
       domains[d].frozen =>
         /\ domains'[d] = domains[d]
         /\ \A c \in DomainIds : domains[c] = Free /\ domains'[c] # Free
              => domains'[c].parent # d
<1>1. ASSUME DispatchInv, [Next]_vars PROVE [Final]_domains
  <2>1. ASSUME NEW t \in Threads, RegistryStep(t) PROVE [Final]_domains
    <3> SUFFICES ASSUME NEW d \in Known, domains[d].frozen, domains' # domains
                 PROVE  /\ domains'[d] = domains[d]
                        /\ \A c \in DomainIds : domains[c] = Free /\ domains'[c] # Free
                             => domains'[c].parent # d
      OBVIOUS
    <3>0. /\ d \in DomainIds /\ domains[d] \in Domain /\ domains[d] # Free
          /\ domains \in [DomainIds -> Domain \cup {Free}]
      BY <1>1 DEF DispatchInv, RegistryInv, DomainsOK, Known
    <3>1. [domains[d] EXCEPT !.frozen = TRUE] = domains[d]
      BY <3>0 DEF Domain
    <3>2. ASSUME NEW e \in DomainIds, NEW caps \in SUBSET Capabilities, NEW hosts \in SUBSET Hosts,
                 CreateRoot(t, e, caps, hosts)
          PROVE  domains'[d] = domains[d] /\ \A c \in DomainIds :
                   domains[c] = Free /\ domains'[c] # Free => domains'[c].parent # d
      BY <3>0, <3>2, DomainConstants DEF CreateRoot
    <3>3. ASSUME NEW e \in DomainIds, SpawnInsert(t, e)
          PROVE  domains'[d] = domains[d] /\ \A c \in DomainIds :
                   domains[c] = Free /\ domains'[c] # Free => domains'[c].parent # d
      <4>1. job[t].domain # d
        BY <1>1, <3>3 DEF SpawnInsert, DispatchInv, RegistryInv, LockedWork, SpawnPrepared, Active
      <4>2. QED
        BY <3>0, <3>3, <4>1 DEF SpawnInsert
    <3>4. ASSUME NEW e \in DomainIds, TransitionGoal(t, e) \/ Freeze(t, e) \/ FreezeNext(t, e)
          PROVE  domains'[d] = domains[d] /\ \A c \in DomainIds :
                   domains[c] = Free => domains'[c] = Free
      <4>1. e \in Known
        BY <1>1, <3>4 DEF TransitionGoal, Freeze, FreezeNext, Active, DispatchInv, RegistryInv,
          Threaded, LockedWork, FreezeUnderway, TreeOf
      <4>2. \A c \in DomainIds \ {e} : domains'[c] = domains[c]
        BY <3>0, <3>4 DEF TransitionGoal, Freeze, FreezeNext
      <4>3. e = d => domains'[d] = domains[d]
        <5>1. ASSUME e = d, TransitionGoal(t, e) PROVE FALSE
          BY <5>1 DEF TransitionGoal, Active
        <5>2. ASSUME e = d, Freeze(t, e) \/ FreezeNext(t, e)
              PROVE  domains'[d] = [domains[d] EXCEPT !.frozen = TRUE]
          BY <3>0, <5>2 DEF Freeze, FreezeNext
        <5>3. QED
          BY <3>1, <3>4, <5>1, <5>2
      <4>4. QED
        BY <3>0, <4>1, <4>2, <4>3 DEF Known
    <3>5. QED
      BY <2>1, <3>2, <3>3, <3>4 DEF RegistryStep, SpawnCheck, SpawnAllowed, FreezeRoot, FreezeDone, Emit
  <2>2. ASSUME NEW t \in Threads, DispatchStep(t) PROVE domains' = domains
    BY <1>1, <2>2, DispatchFrame
  <2>3. CASE UNCHANGED vars
    BY <2>3 DEF vars, registryVars
  <2>4. QED
    BY <1>1, <2>1, <2>2, <2>3 DEF Next
<1>2. QED
  BY <1>1, DispatchInvariant, PTL DEF Spec, FrozenIsFinal

-----------------------------------------------------------------------------
\* The eight checks of the gate, the last of them the manifest's.
LEMMA ControlsLast == Len(Controls) = 8 /\ Controls[8] = "manifest" /\ "manifest" \notin HostControls
BY Zenon DEF Controls, HostControls, Situations

\* What was verified or installed since the call began stays so when another
\* deployment is installed.
LEMMA PastGrows ==
  ASSUME past \subseteq past', policy' = policy
  PROVE  (Verified(past) => Verified(past')) /\ (Carried => Carried')
<1>1. ASSUME Verified(past) PROVE Verified(past')
  <2>1. PICK m \in past : /\ Authentic(m)
                          /\ \A f \in CriticalFiles : \E s \in past : s.files[f] = m.manifest.files[f]
    BY <1>1, Zenon DEF Verified
  <2>2. QED
    BY <2>1, Zenon DEF Verified
<1>2. ASSUME Carried PROVE Carried'
  BY <1>2, Zenon DEF Carried
<1>3. QED
  BY <1>1, <1>2, Zenon

\* A manifest that was read and whose files were hashed, each at some time since.
LEMMA MatchVerifies ==
  ASSUME Reads, stage = "hash", Hashed, Matches
  PROVE  Verified(past)
<1>1. PICK m \in past : m.manifest = readManifest
  BY Zenon DEF Reads
<1>2. Authentic(m) /\ \A f \in CriticalFiles : \E s \in past : s.files[f] = m.manifest.files[f]
  BY <1>1, Zenon DEF Reads, Hashed, Matches, Authentic
<1>3. QED
  BY <1>2, Zenon DEF Verified

\* The deployer's changes invalidate nothing the thread relies on.
LEMMA DeployerSteps == ProductionInv /\ Deployer => ProductionInv'
<1> SUFFICES ASSUME ProductionInv, Deployer PROVE ProductionInv'
  OBVIOUS
<1>1. ASSUME NEW d, Install(d) PROVE ProductionInv'
  <2>1. /\ deployed' \in past' /\ past \subseteq past' /\ since \subseteq since'
        /\ (request = "consumed" => deployed' \in since')
        /\ UNCHANGED <<env, stage, phase, dispatch, checking, found, readManifest, hashed, policy,
                       gateBundle, request>>
    BY <1>1, Zenon DEF Install, Change, reading
  <2>2. (Verified(past) => Verified(past')) /\ (Carried => Carried')
    BY <2>1, PastGrows, Zenon
  <2>3. Reads'
    BY <2>1, Zenon DEF ProductionInv, Reads
  <2>4. StartInv'
    BY <2>1, <2>2, Zenon DEF ProductionInv, StartInv
  <2>5. ServingInv'
    BY <2>1, <2>2, Zenon DEF ProductionInv, ServingInv
  <2>6. QED
    BY <2>1, <2>3, <2>4, <2>5, Zenon DEF ProductionInv
<1>2. ASSUME NEW c \in HostControls, NEW s \in Volatile[c] \cup {"good"}, ChangeHost(c, s)
      PROVE  ProductionInv'
  <2>1. /\ env[c] \in Volatile[c] \cup {"good"} /\ env' = [env EXCEPT ![c] = s]
        /\ UNCHANGED <<deployed, past, since, stage, phase, dispatch, checking, found, readManifest,
                       hashed, policy, gateBundle, request>>
    BY <1>2, Zenon DEF ChangeHost, Change, reading
  <2>2. ASSUME NEW k \in HostControls, env[k] \in Volatile[k] \cup {"good"}
        PROVE  env'[k] \in Volatile[k] \cup {"good"}
    BY <2>1, <2>2, SMTT(30)
  <2>3. Reads' /\ ServingInv' /\ (Verified(past) => Verified(past')) /\ (Carried => Carried')
    BY <2>1, Zenon DEF ProductionInv, Reads, ServingInv, Carried
  <2>4. StartInv'
    BY <2>1, <2>2, <2>3, Zenon DEF ProductionInv, StartInv
  <2>5. QED
    BY <2>1, <2>3, <2>4, Zenon DEF ProductionInv
<1>3. QED
  BY <1>1, <1>2, Zenon DEF Deployer, InstallBundle, ReplaceFile, BuildManifest

\* The steps of the construction: gate, second load, assembly.
LEMMA StartSteps ==
  ASSUME ProductionInv, CheckControl \/ CheckManifest \/ Admit \/ LoadPolicy \/ Assemble
  PROVE  ProductionInv'
<1> USE DEF ProductionInv
<1>1. UNCHANGED <<deployed, env, past, since, phase, request>>
  BY Zenon DEF CheckControl, CheckManifest, Admit, LoadPolicy, Assemble, deployment
<1>2. phase = "start"
  BY Zenon DEF CheckControl, CheckManifest, Admit, LoadPolicy, Assemble, ServingInv, CallStages
<1>3. ServingInv'
  BY <1>1, <1>2, Zenon DEF ServingInv
<1>4. CASE CheckControl
  <2> DEFINE c == Controls[checking]
  <2>1. checking \in 1..8 /\ stage = "gate" /\ UNCHANGED policy
    BY <1>4, ControlsLast, SMTT(30) DEF CheckControl
  <2>2. CASE c = "manifest"
    <3>1. /\ stage' = "hash" /\ readManifest' = deployed.manifest /\ hashed' = NoHash
          /\ UNCHANGED <<checking, found>>
      BY <1>4, <2>2, ControlsLast, Zenon DEF CheckControl, ReadManifest
    <3>2. checking = 8
      BY <2>1, <2>2, SMTT(30) DEF Controls
    <3>3. Reads'
      BY <1>1, <2>1, <3>1, Zenon DEF Reads, NoHash
    <3>4. StartInv'
      BY <1>1, <1>2, <2>1, <3>1, <3>2, ControlsLast, Zenon DEF StartInv, StartStages
    <3>5. QED
      BY <1>1, <1>3, <3>1, <3>3, <3>4, Zenon
  <2>3. CASE c # "manifest"
    <3>1. /\ UNCHANGED <<stage, readManifest, hashed>> /\ checking' = checking + 1
          /\ found \subseteq found'
          /\ c \in HostControls /\ found' = {} => env[c] = "good"
      <4>1. "policy" \notin HostControls
        BY Zenon DEF HostControls, Situations
      <4>2. /\ UNCHANGED <<stage, readManifest, hashed>>
            /\ \E status : Finds(status) /\ (c \in HostControls => status = Status(env[c]))
        BY <1>4, <2>3, <4>1, Zenon DEF CheckControl, reading
      <4>3. QED
        BY <4>2, Zenon DEF Finds, Status
    <3>2. checking < 8
      BY <2>1, <2>3, ControlsLast, SMTT(30)
    <3>3. Reads'
      BY <1>1, <2>1, <3>1, Zenon DEF Reads
    <3>4. StartInv'
      <4>1. ASSUME found' = {}, NEW i \in 1..checking, Controls[i] \in HostControls
            PROVE  env[Controls[i]] \in Volatile[Controls[i]] \cup {"good"}
        <5>1. i = checking \/ i \in 1..(checking - 1)
          BY <2>1, SMTT(30)
        <5>2. found = {} /\ (Controls[checking] \in HostControls => env[Controls[checking]] = "good")
          BY <3>1, <4>1, Zenon
        <5>3. QED
          BY <1>2, <3>1, <4>1, <5>1, <5>2, Zenon DEF StartInv
      <4>2. 1..(checking' - 1) = 1..checking /\ ~(checking' > 8)
        BY <2>1, <3>1, <3>2, SMTT(30)
      <4>3. QED
        BY <1>1, <1>2, <2>1, <3>1, <4>1, <4>2, ControlsLast, Zenon DEF StartInv, StartStages
    <3>5. checking' \in Nat \ {0}
      BY <2>1, <3>1, SMTT(30)
    <3>6. QED
      BY <1>1, <1>3, <3>3, <3>4, <3>5, Zenon
  <2>4. QED
    BY <2>2, <2>3, Zenon
<1>5. CASE CheckManifest
  <2>1. /\ stage = "hash" /\ stage' = "gate" /\ checking = 8 /\ checking' = 9
        /\ UNCHANGED policy /\ found \subseteq found' /\ (found' = {} => Matches) /\ Hashed
    <3>1. stage = "hash" /\ checking = 8
      BY <1>2, <1>5, ControlsLast, Zenon DEF CheckManifest, StartInv
    <3>2. 8 + 1 = 9
      BY SMTT(30)
    <3>3. Finds(IF Matches THEN "PASS" ELSE "FAIL")
      BY <1>5, Zenon DEF CheckManifest
    <3>4. found \subseteq found' /\ (found' = {} => Matches) /\ checking' = checking + 1
      BY <3>3, SMTT(30) DEF Finds
    <3>5. QED
      BY <1>5, <3>1, <3>2, <3>4, Zenon DEF CheckManifest
  <2>2. found' = {} => Verified(past)
    BY <2>1, MatchVerifies, Zenon
  <2>3. /\ 9 > 8 /\ 9 \in Nat \ {0}
        /\ \A i \in 1..(9 - 1) : i = 8 \/ i \in 1..(8 - 1)
    BY SMTT(30)
  <2>4. StartInv'
    BY <1>1, <1>2, <2>1, <2>2, <2>3, ControlsLast, Zenon DEF StartInv, StartStages
  <2>5. Reads'
    BY <1>1, <2>1, Zenon DEF Reads
  <2>6. QED
    BY <1>1, <1>3, <2>1, <2>3, <2>4, <2>5, Zenon
<1>6. CASE Admit
  <2>1. /\ checking > Len(Controls) /\ UNCHANGED <<checking, found, policy>>
        /\ stage' = IF found = {} THEN "load" ELSE "refused"
    BY <1>6, Zenon DEF Admit, Passed
  <2>2. Reads' /\ StartInv'
    BY <1>1, <1>2, <2>1, Zenon DEF Reads, StartInv, StartStages
  <2>3. QED
    BY <1>1, <1>3, <2>1, <2>2, Zenon
<1>7. CASE LoadPolicy
  <2>1. /\ stage = "load" /\ UNCHANGED <<checking, found>>
        /\ \/ stage' = "refused" /\ UNCHANGED policy
           \/ /\ stage' = "assemble" /\ Loads(deployed.bundle)
              /\ policy' = [root |-> deployed.bundle.root, ceiling |-> deployed.bundle.ceiling]
    BY <1>7, Zenon DEF LoadPolicy
  <2>2. stage' = "assemble" => Carried'
    BY <1>1, <2>1, Zenon DEF Carried, Reads
  <2>3. Reads' /\ StartInv'
    BY <1>1, <1>2, <2>1, <2>2, Zenon DEF Reads, StartInv, StartStages
  <2>4. QED
    BY <1>1, <1>3, <2>1, <2>3, Zenon
<1>8. CASE Assemble
  <2>1. stage = "assemble" /\ stage' \in {"up", "refused"} /\ UNCHANGED <<checking, found, policy>>
    BY <1>8, Zenon DEF Assemble
  <2>2. Carried' = Carried
    BY <1>1, <2>1, Zenon DEF Carried
  <2>3. Reads' /\ StartInv'
    BY <1>1, <1>2, <2>1, <2>2, Zenon DEF Reads, StartInv, StartStages
  <2>4. QED
    BY <1>1, <1>3, <2>1, <2>3, Zenon
<1>9. QED
  BY <1>4, <1>5, <1>6, <1>7, <1>8, Zenon

\* verify_trusted_state, in the construction and in a call.
LEMMA VerifySteps ==
  ASSUME ProductionInv, VerifyRead \/ VerifyHash \/ VerifyState
  PROVE  ProductionInv'
<1> USE DEF ProductionInv
<1>1. UNCHANGED <<deployed, env, past, since, phase, dispatch, checking, found, policy, gateBundle>>
  BY Zenon DEF VerifyRead, VerifyHash, VerifyState, deployment
<1>2. Carried' = Carried
  BY <1>1, Zenon DEF Carried
<1>3. CASE VerifyRead
  <2>1. /\ stage = "manifest" /\ stage' = "hash" /\ UNCHANGED request
        /\ readManifest' = deployed.manifest /\ hashed' = NoHash
    BY <1>3, Zenon DEF VerifyRead, ReadManifest
  <2>2. phase # "start"
    BY <2>1, Zenon DEF StartInv, StartStages
  <2>3. Reads'
    BY <1>1, <2>1, Zenon DEF Reads, NoHash
  <2>4. StartInv' /\ ServingInv'
    BY <1>1, <1>2, <2>1, <2>2, Zenon DEF StartInv, ServingInv, CallStages
  <2>5. QED
    BY <1>1, <2>3, <2>4, Zenon
<1>4. CASE VerifyHash
  <2>1. PICK f \in CriticalFiles : HashFile(f)
    BY <1>4, Zenon DEF VerifyHash
  <2>2. stage = "hash" /\ UNCHANGED <<stage, request>>
    BY <1>4, Zenon DEF VerifyHash
  <2>3. Reads'
    BY <1>1, <2>1, <2>2, Zenon DEF Reads, HashFile
  <2>4. StartInv' /\ ServingInv'
    BY <1>1, <1>2, <2>2, Zenon DEF StartInv, ServingInv
  <2>5. QED
    BY <1>1, <2>3, <2>4, Zenon
<1>5. CASE VerifyState
  <2>1. stage = "hash" /\ phase # "start" /\ Hashed
    BY <1>5, Zenon DEF VerifyState
  <2>2. CASE Matches /\ Loads(deployed.bundle) /\ SamePolicy(deployed.bundle)
    <3>1. stage' = phase /\ UNCHANGED request
      BY <1>5, <2>2, Zenon DEF VerifyState
    <3>2. Verified(past)
      BY <2>1, <2>2, MatchVerifies, Zenon
    <3>3. Carried
      BY <2>1, <2>2, Zenon DEF SamePolicy, Carried, Reads
    <3>4. Reads'
      BY <1>1, <2>1, <3>1, Zenon DEF Reads
    <3>5. StartInv' /\ ServingInv'
      BY <1>1, <1>2, <2>1, <3>1, <3>2, <3>3, Zenon DEF StartInv, ServingInv, CallStages
    <3>6. QED
      BY <1>1, <3>4, <3>5, Zenon
  <2>3. CASE ~(Matches /\ Loads(deployed.bundle) /\ SamePolicy(deployed.bundle))
    <3>1. stage' = "denied" /\ request' \in {request, "uncertain"}
      BY <1>5, <2>3, Zenon DEF VerifyState, Deny
    <3>2. Reads'
      BY <1>1, <2>1, <3>1, Zenon DEF Reads
    <3>3. StartInv' /\ ServingInv'
      BY <1>1, <1>2, <2>1, <3>1, Zenon DEF StartInv, ServingInv, CallStages
    <3>4. QED
      BY <1>1, <3>2, <3>3, Zenon
  <2>4. QED
    BY <2>2, <2>3, Zenon
<1>6. QED
  BY <1>3, <1>4, <1>5, Zenon

\* The other steps of a call.
LEMMA DispatchSteps ==
  ASSUME ProductionInv,
         \/ \E kind \in {"execute", "broker"}, c \in CapabilityNames : Dispatch(kind, c)
         \/ Decide \/ MakeGate \/ Routine \/ Reply
         \/ \E ok \in BOOLEAN : Consume(ok) \/ Perform(ok)
  PROVE  ProductionInv'
<1> USE DEF ProductionInv
<1>1. ASSUME NEW kind \in {"execute", "broker"}, NEW c \in CapabilityNames, Dispatch(kind, c)
      PROVE  ProductionInv'
  <2>1. /\ stage' = "manifest" /\ phase' = "admit" /\ request' = "none" /\ past' = {deployed}
        /\ UNCHANGED <<deployed, checking, policy>>
    BY <1>1, Zenon DEF Dispatch, deployment
  <2>2. Reads' /\ StartInv' /\ ServingInv'
    BY <2>1, Zenon DEF Reads, StartInv, ServingInv, CallStages
  <2>3. QED
    BY <2>1, <2>2, Zenon
<1>2. ASSUME stage \in {"admit", "approval", "gated", "effect"},
             UNCHANGED <<deployed, past, checking, policy, dispatch>>,
             stage' # "hash",
             phase' \in {phase, "approval", "effect"},
             request' = "consumed" => deployed \in since',
             ServingInv'
      PROVE  ProductionInv'
  <2>1. phase # "start" /\ phase' # "start"
    BY <1>2, Zenon DEF StartInv, StartStages
  <2>2. Reads' /\ StartInv'
    BY <1>2, <2>1, Zenon DEF Reads, StartInv
  <2>3. QED
    BY <1>2, <2>2, Zenon
<1>3. ASSUME stage \in {"admit", "approval", "gated", "effect"} PROVE phase # "start"
  BY <1>3, Zenon DEF StartInv, StartStages
<1>4. CASE Decide
  <2>1. stage = "admit" /\ UNCHANGED <<deployed, past, checking, policy, dispatch, since, gateBundle>>
    BY <1>4, Zenon DEF Decide, deployment
  <2>2. Carried' = Carried /\ phase # "start"
    BY <1>3, <2>1, Zenon DEF Carried
  <2>3. CASE dispatch.capability \notin policy.ceiling
    <3>1. stage' = "denied" /\ request' \in {request, "uncertain"} /\ phase' = phase
      BY <1>4, <2>3, Zenon DEF Decide, Deny
    <3>2. ServingInv'
      BY <2>1, <2>2, <3>1, Zenon DEF ServingInv, CallStages
    <3>3. QED
      BY <1>2, <2>1, <3>1, <3>2, Zenon DEF Reads
  <2>4. CASE dispatch.capability \in policy.ceiling /\ dispatch.kind = "execute"
    <3>1. stage' = "performed" /\ UNCHANGED <<phase, request>>
      BY <1>4, <2>4, Zenon DEF Decide
    <3>2. ServingInv'
      BY <2>1, <2>2, <2>4, <3>1, Zenon DEF ServingInv, CallStages
    <3>3. QED
      BY <1>2, <2>1, <3>1, <3>2, Zenon DEF Reads
  <2>5. CASE dispatch.capability \in policy.ceiling /\ dispatch.kind # "execute"
    <3>1. stage' = "manifest" /\ phase' = "approval" /\ UNCHANGED request
      BY <1>4, <2>5, Zenon DEF Decide
    <3>2. ServingInv'
      BY <2>1, <2>2, <2>5, <3>1, Zenon DEF ServingInv, CallStages
    <3>3. QED
      BY <1>2, <2>1, <3>1, <3>2, Zenon DEF Reads
  <2>6. QED
    BY <2>3, <2>4, <2>5, Zenon
<1>5. CASE MakeGate
  <2>1. /\ stage = "approval" /\ gateBundle' = deployed.bundle
        /\ UNCHANGED <<deployed, past, checking, policy, dispatch, since, phase>>
        /\ stage' = "gated" => Loads(deployed.bundle)
        /\ stage' \in {"gated", "denied"} /\ request' \in {request, "uncertain"}
    BY <1>5, Zenon DEF MakeGate, Deny, deployment
  <2>2. Carried' = Carried /\ phase # "start"
    BY <1>3, <2>1, Zenon DEF Carried
  <2>3. phase # "effect"
    BY <2>1, Zenon DEF ServingInv
  <2>4. ServingInv'
    BY <2>1, <2>2, <2>3, Zenon DEF ServingInv, CallStages, Reads
  <2>5. QED
    BY <1>2, <2>1, <2>4, Zenon DEF Reads
<1>6. CASE Routine
  <2>1. /\ stage = "gated" /\ stage' = "performed" /\ gateBundle.human = "listed"
        /\ UNCHANGED <<deployed, past, checking, policy, dispatch, since, phase, gateBundle, request>>
    BY <1>6, Zenon DEF Routine, deployment
  <2>2. Carried' = Carried /\ phase # "start"
    BY <1>3, <2>1, Zenon DEF Carried
  <2>3. ServingInv'
    BY <2>1, <2>2, Zenon DEF ServingInv, CallStages
  <2>4. QED
    BY <1>2, <2>1, <2>3, Zenon DEF Reads
<1>7. ASSUME NEW ok \in BOOLEAN, Consume(ok) PROVE ProductionInv'
  <2>1. /\ stage = "gated"
        /\ UNCHANGED <<deployed, past, checking, policy, dispatch, gateBundle>>
        /\ \/ /\ request' = "consumed" /\ since' = {deployed}
              /\ stage' = "manifest" /\ phase' = "effect"
           \/ stage' = "denied" /\ UNCHANGED <<request, phase, since>>
    BY <1>7, Zenon DEF Consume, deployment
  <2>2. Carried' = Carried /\ phase # "start"
    BY <1>3, <2>1, Zenon DEF Carried
  <2>3. ServingInv'
    BY <2>1, <2>2, Zenon DEF ServingInv, CallStages
  <2>4. QED
    BY <1>2, <2>1, <2>3, Zenon DEF Reads
<1>8. ASSUME NEW ok \in BOOLEAN, Perform(ok) PROVE ProductionInv'
  <2>1. /\ stage = "effect"
        /\ UNCHANGED <<deployed, past, checking, policy, dispatch, gateBundle, since, phase>>
        /\ \/ /\ stage' = "performed" /\ request' = "completed" /\ deployed.bundle = gateBundle
           \/ stage' = "denied" /\ request' \in {request, "uncertain"}
    BY <1>8, Zenon DEF Perform, Deny, StillApproved, deployment
  <2>2. Carried' = Carried /\ phase # "start"
    BY <1>3, <2>1, Zenon DEF Carried
  <2>3. phase = "effect" /\ request = "consumed" /\ deployed \in since
    BY <2>1, <2>2, Zenon DEF ServingInv, Reads
  <2>4. ServingInv'
    BY <2>1, <2>2, <2>3, Zenon DEF ServingInv, CallStages
  <2>5. QED
    BY <1>2, <2>1, <2>3, <2>4, Zenon DEF Reads
<1>9. CASE Reply
  <2>1. /\ stage \in {"performed", "denied"} /\ stage' = "up"
        /\ UNCHANGED <<deployed, past, since, phase, dispatch, checking, policy, gateBundle, request>>
    BY <1>9, Zenon DEF Reply, deployment
  <2>2. Carried' = Carried /\ phase # "start"
    BY <2>1, Zenon DEF Carried, StartInv, StartStages
  <2>3. Reads' /\ StartInv' /\ ServingInv'
    BY <2>1, <2>2, Zenon DEF Reads, StartInv, ServingInv, CallStages
  <2>4. QED
    BY <2>1, <2>3, Zenon
<1>10. QED
  BY <1>1, <1>4, <1>5, <1>6, <1>7, <1>8, <1>9, Zenon

\* Whatever the deployer installs between two reads of the thread, each of its
\* checks speaks of a deployment that was installed since the call began.
THEOREM ProductionInvariant == ProductionSpec => []ProductionInv
<1>1. ProductionInit => ProductionInv
  <2> SUFFICES ASSUME ProductionInit PROVE ProductionInv
    OBVIOUS
  <2>1. /\ stage = "gate" /\ phase = "start" /\ checking = 1 /\ found = {} /\ request = "none"
        /\ past = {deployed} /\ policy = [root |-> "none", ceiling |-> {}]
    BY Zenon DEF ProductionInit
  <2>2. Reads /\ StartInv /\ ServingInv
    BY <2>1, ControlsLast, SMTT(30) DEF Reads, StartInv, ServingInv, StartStages
  <2>3. QED
    BY <2>1, <2>2, SMTT(30) DEF ProductionInv
<1>2. ProductionInv /\ [ProductionNext]_productionVars => ProductionInv'
  <2> SUFFICES ASSUME ProductionInv, [ProductionNext]_productionVars PROVE ProductionInv'
    OBVIOUS
  <2>1. CASE Deployer
    BY <2>1, DeployerSteps, Zenon
  <2>2. CASE Thread
    BY <2>2, StartSteps, VerifySteps, DispatchSteps, Zenon DEF Thread
  <2>3. CASE UNCHANGED productionVars
    <3>1. UNCHANGED <<deployed, env, stage, phase, dispatch, checking, found, readManifest, hashed,
                      policy, gateBundle, request, past, since>>
      BY <2>3, Zenon DEF productionVars, deployment, reading
    <3>2. Carried' = Carried
      BY <3>1, Zenon DEF Carried
    <3>3. Reads' /\ StartInv' /\ ServingInv'
      BY <3>1, <3>2, Zenon DEF ProductionInv, Reads, StartInv, ServingInv
    <3>4. QED
      BY <3>1, <3>3, Zenon DEF ProductionInv
  <2>4. QED
    BY <2>1, <2>2, <2>3, Zenon DEF ProductionNext
<1>3. QED
  BY <1>1, <1>2, PTL DEF ProductionSpec

\* A production runtime comes up only on a deployment the gate found in order
\* since the construction began, whatever is installed and however the host
\* changes between two of its checks (ProductionRuntime.__init__).
THEOREM StartedIsCheckedTheorem == ProductionSpec => []StartedIsChecked
<1>1. ProductionInv => StartedIsChecked
  <2> SUFFICES ASSUME ProductionInv, phase = "start", stage = "up"
               PROVE  /\ Verified(past) /\ Carried
                      /\ \A c \in HostControls : env[c] \in Volatile[c] \cup {"good"}
    BY Zenon DEF StartedIsChecked, Carried
  <2>1. /\ Verified(past) /\ Carried
        /\ \A i \in 1..(checking - 1) : Controls[i] \in HostControls =>
              env[Controls[i]] \in Volatile[Controls[i]] \cup {"good"}
        /\ checking > 8
    BY ControlsLast, Zenon DEF ProductionInv, StartInv
  <2>2. \A c \in HostControls : \E i \in 1..8 : Controls[i] = c
    BY SMTT(30) DEF HostControls, Situations, Controls
  <2>3. QED
    BY <2>1, <2>2, SMTT(30) DEF ProductionInv
<1>2. QED
  BY <1>1, ProductionInvariant, PTL

\* What a production dispatcher performs is covered by the signed deployment as
\* it was since the call began, and an approved effect by the very bundle it was
\* approved under, installed after the approval was consumed.
THEOREM EffectsAreCurrentTheorem == ProductionSpec => []EffectsAreCurrent
<1>1. ProductionInv => EffectsAreCurrent
  <2> SUFFICES ASSUME ProductionInv, stage = "performed" PROVE EffectsAreCurrent
    BY Zenon DEF EffectsAreCurrent
  <2>1. /\ Verified(past) /\ Carried /\ dispatch.capability \in policy.ceiling
        /\ dispatch.kind = "broker" =>
             \/ request = "completed" /\ \E s \in since : s.bundle = gateBundle
             \/ /\ gateBundle.human = "listed" /\ Loads(gateBundle)
                /\ \E s \in past : s.bundle = gateBundle
    BY Zenon DEF ProductionInv, StartInv, StartStages, ServingInv
  <2>2. \E s \in past : /\ Loads(s.bundle)
                        /\ [root |-> s.bundle.root, ceiling |-> s.bundle.ceiling] = policy
                        /\ dispatch.capability \in s.bundle.ceiling
    <3>1. PICK s \in past : /\ Loads(s.bundle)
                            /\ [root |-> s.bundle.root, ceiling |-> s.bundle.ceiling] = policy
      BY <2>1, Zenon DEF Carried
    <3>2. [root |-> s.bundle.root, ceiling |-> s.bundle.ceiling].ceiling = s.bundle.ceiling
      BY Zenon
    <3>3. QED
      BY <2>1, <3>1, <3>2, Zenon
  <2>3. QED
    BY <2>1, <2>2, Zenon DEF EffectsAreCurrent
<1>2. QED
  BY <1>1, ProductionInvariant, PTL
=============================================================================
