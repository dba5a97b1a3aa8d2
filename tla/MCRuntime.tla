----------------------------- MODULE MCRuntime -----------------------------
(***************************************************************************)
(* The runtime and what it is built from, one part in each behaviour:      *)
(* execute itself ("execute"), the trace verifier driven by arbitrary      *)
(* events instead of execute ("events"), the snapshot it runs on           *)
(* ("snapshot") and the production deployment it is constructed from       *)
(* ("production").                                                         *)
(***************************************************************************)
EXTENDS QuietRuntime, EventLog, Production, TLC, FiniteSets

CONSTANTS
  Paths, Children, Depth, Ignored, Root, Sizes, Original, MaxEdits,
  MaxFiles, MaxTotal, MaxFile, MaxDepth                     \* Workspace

VARIABLES
  part,
  tree, edits, worker, todo, fd, digest, manifest, before, copied, left, caller, scratch,
  stuck, admitted, lasting

Snapshot == INSTANCE Workspace WITH pc <- worker

ASSUME SnapshotAssumption == Snapshot!BudgetValid

executeVars == <<runtimeVars, overlapped, replayed>>
snapshotVars == <<tree, edits, worker, todo, fd, digest, manifest, before, copied, left, caller,
  scratch, stuck, admitted, lasting>>

MaxDrifted == 1  \* bound: snapshots that have drifted, at any time

FirstBundle == CHOOSE b \in Bundles : Loads(b)

\* A deployment that is not under way is in one fixed initial state; one on a
\* host that is not ready has one fixed bundle.
MCInit ==
  /\ part \in {"execute", "events", "snapshot", "production"}
  /\ QuietInit /\ LogInit
  /\ Snapshot!Init
  /\ ProductionInit
  /\ part # "production" => env = Good /\ deployed.bundle = FirstBundle
  /\ env # Good => deployed.bundle = FirstBundle

\* No events are recorded for execute: its trace stands for their replay.
ExecuteNext ==
  /\ part = "execute"
  /\ QuietNext
  /\ Cardinality({t \in Callers : drift'[t] # "no"}) <= MaxDrifted
  /\ replayed' = trace'
  /\ UNCHANGED <<part, snapshotVars, productionVars>>

EventsNext ==
  /\ part = "events"
  /\ LogNext
  /\ UNCHANGED <<part, local, report, overlapped, snapshotVars, productionVars>>

SnapshotNext ==
  part = "snapshot" /\ Snapshot!Next /\ UNCHANGED <<part, executeVars, productionVars>>

DeploymentNext ==
  part = "production" /\ ProductionNext /\ UNCHANGED <<part, executeVars, snapshotVars>>

MCNext == ExecuteNext \/ EventsNext \/ SnapshotNext \/ DeploymentNext

MCSpec == MCInit /\ [][MCNext]_<<part, executeVars, snapshotVars, productionVars>>

CallerSymmetry == Permutations(Callers)

-----------------------------------------------------------------------------
(* A project with a file, a directory a file can be put in, and a .git      *)
(* entry.                                                                   *)
MCChildren == [root |-> <<"a", "d", "g">>, d |-> <<"b">>]
MCDepth == [a |-> 1, b |-> 2, d |-> 1, g |-> 1]
Node(k, i, s) == [kind |-> k, ino |-> i, size |-> s, nlink |-> IF k = "none" THEN 0 ELSE 1, ver |-> 0]
MCOriginal == [a |-> Node("file", 1, 1), b |-> Node("none", 0, 0), d |-> Node("dir", 2, 0),
               g |-> Node("file", 3, 1)]

(* Bundles that differ in ceiling, approval section, root and signature.    *)
Bundle(ceiling, human, signed) ==
  [root |-> "/workspace", ceiling |-> ceiling, human |-> human, signed |-> signed]
MCBundles ==
  {Bundle({"net"}, "plain", TRUE), Bundle({"net"}, "listed", TRUE), Bundle({"net"}, "none", TRUE),
   Bundle({"net", "run"}, "plain", TRUE), Bundle({}, "plain", TRUE),
   Bundle({"net", "run"}, "plain", FALSE),
   [Bundle({"net"}, "plain", TRUE) EXCEPT !.root = "/srv"]}

-----------------------------------------------------------------------------
\* A snapshot that is handed out is the project tree at one instant, whoever
\* edits the tree meanwhile (snapshot.py).
SnapshotIsInstant == Snapshot!SnapshotIsInstant

\* A snapshot never holds more than its budget, and one that fails, is killed or
\* times out leaves nothing behind unless a removal failed (snapshot.py).
ScratchIsBounded == Snapshot!ScratchIsBounded
=============================================================================
