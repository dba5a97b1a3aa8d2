----------------------------- MODULE HoneyToken -----------------------------
(***************************************************************************)
(* The canary register of the multi-agent system: the HoneyTokenAgent of   *)
(* multiagent/honeytoken.py.  Every run of the pipeline mints one marker;  *)
(* the register remembers the markers of the runs it tracks, in the order  *)
(* they were minted, and burns a run ("trips" its trace) when a marker     *)
(* shows up anywhere but in the one field it was handed out in.            *)
(*                                                                         *)
(* A canary is named by the run it was minted for.  A value crossing a     *)
(* boundary is abstracted to the set of canaries that some representation  *)
(* of it contains (raw, base64, hex, url-encoded, split over adjacent      *)
(* values: _collect_strings and _representations), with Big in the set     *)
(* when it is too long to be scanned.  Every operator below is what one    *)
(* critical section of the agent's lock does to the register.              *)
(***************************************************************************)
EXTENDS Naturals, Sequences, SequencesExt, FiniteSets

CONSTANTS
    Runs,          \* trace ids, one per call of MultiAgentSystem.run
    Limits,        \* the values max_tracked_runs is configured with
    Big            \* marks a value longer than max_scan_chars

ASSUME LimitsPositive == Limits \subseteq Nat \ {0}
ASSUME BigIsNoRun == Big \notin Runs

VARIABLES
    limit,         \* max_tracked_runs of this register
    tracked,       \* _states, in insertion order
    canary         \* what _states holds for each tracked run

NoState == [exposed |-> FALSE, tripped |-> FALSE, completed |-> FALSE]

Tracked(r) == r \in ToSet(tracked)

HoneyInit ==
    /\ limit \in Limits
    /\ tracked = <<>>
    /\ canary = [r \in Runs |-> NoState]

\* Mutant: a tripped trace is forgotten like any other.
PrunesTripped(r) == canary[r].completed

(* A completed run that was never tripped may be forgotten. *)
Prunable(r) == canary[r].completed /\ ~canary[r].tripped

(***************************************************************************)
(* _prune_locked: with room, nothing is dropped; otherwise the oldest      *)
(* prunable trace goes (one is enough, the register is never over its      *)
(* limit) and without one the mint is refused.                             *)
(***************************************************************************)
HasRoom == Len(tracked) < limit

CanMint == HasRoom \/ \E r \in ToSet(tracked) : Prunable(r)

Pruned ==
    IF HasRoom THEN tracked
    ELSE RemoveAt(tracked, SelectInSeq(tracked, Prunable))

Mint(r) ==
    /\ CanMint
    /\ ~Tracked(r)
    /\ tracked' = Append(Pruned, r)
    /\ canary' = [s \in Runs |->
                    IF s = r \/ ~Contains(Pruned, s) THEN NoState ELSE canary[s]]

Complete(r) ==
    /\ canary' = [canary EXCEPT ![r].completed = Tracked(r)]
    /\ UNCHANGED tracked

(* boundary_guard's first lines: a tripped trace lets nothing else through. *)
Burnt(t) == t \in Runs /\ Tracked(t) /\ canary[t].tripped

Expose(r) == canary' = [canary EXCEPT ![r].exposed = TRUE]

(* _inspect_value: the runs whose marker the value holds, of those tracked. *)
Owners(value) == value \cap ToSet(tracked)

Leaks(value) == Big \in value \/ Owners(value) # {}

(* _trip: a trace the register does not know is left alone. *)
Trip(t) ==
    /\ canary' = IF t \in Runs /\ Tracked(t)
                 THEN [canary EXCEPT ![t].tripped = TRUE] ELSE canary
    /\ UNCHANGED tracked

HoneyTypeOK ==
    /\ limit \in Limits
    /\ tracked \in Seq(Runs) /\ IsInjective(tracked)
    /\ Len(tracked) <= limit
    /\ canary \in [Runs -> [exposed : BOOLEAN, tripped : BOOLEAN, completed : BOOLEAN]]
=============================================================================
