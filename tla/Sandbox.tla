------------------------------- MODULE Sandbox ------------------------------
(***************************************************************************)
(* NamespaceSandbox.run (namespace_sandbox.py): the calling thread, the    *)
(* thread that reads the attestation, and what they start: unshare (the    *)
(* launcher) and, as first process of the new namespace, the shell script  *)
(* and Python bootstrap of _namespace_launcher.sh, which becomes the       *)
(* workload.  The workload may leave the process group, flood its output,  *)
(* close it, or never end.                                                 *)
(*                                                                         *)
(* A protection is in force once its system call succeeded in the          *)
(* bootstrap (landlock_policy.py, seccomp_policy.py, resource_limits.py);  *)
(* an attestation is the set of those it reports.  Descriptors that were   *)
(* closed are not reused by other threads.                                 *)
(***************************************************************************)
VARIABLES
    job,         \* [strict, required, budget]: profile, require_attestation, resource_budget
    pc,          \* where run stands
    ending,      \* "none", "raised", "returned"
    rootfs,      \* the temporary directory exists
    scope,       \* cgroup scope: "none", "live", "gone"
    exceeded,    \* a stream went over max_output_bytes
    reader,      \* where the attestation reader stands
    finding,     \* what it found: "none", "valid", "error"
    pipe,        \* on the attestation pipe: a set of at most one attestation
    attOpen,     \* the host holds the pipe's write end
    go,          \* the release byte was written
    goOpen,      \* the host holds the release pipe's write end
    unshare,     \* the launcher process: "none", "alive", "dead"
    workload,    \* the namespace's first process: where it stands, or "dead"
    inForce,     \* protections in force in it
    detached,    \* it left the process group
    holds        \* it holds stdout or stderr open

caller == <<pc, ending, rootfs, scope, exceeded>>
gate == <<reader, finding, pipe, attOpen, go, goOpen>>
child == <<unshare, workload, inForce, detached, holds>>
sandboxVars == <<job, caller, gate, child>>

SandboxInit ==
    /\ job \in [strict : BOOLEAN, required : BOOLEAN, budget : BOOLEAN]
    /\ pc = "new" /\ ending = "none" /\ rootfs = FALSE /\ scope = "none"
    /\ exceeded = FALSE
    /\ reader = "off" /\ finding = "none" /\ pipe = {}
    /\ attOpen = FALSE /\ go = FALSE /\ goOpen = FALSE
    /\ unshare = "none" /\ workload = "none" /\ inForce = {}
    /\ detached = FALSE /\ holds = FALSE

-----------------------------------------------------------------------------
(* The constructor: a known profile, the tools, an interpreter and the      *)
(* trusted runtime, or SandboxUnavailable.                                  *)
Construct(available) ==
    /\ pc = "new"
    /\ pc' = IF available THEN "ready" ELSE "unavailable"
    /\ UNCHANGED <<job, ending, rootfs, scope, exceeded, gate, child>>

(* The start of run: the directory is made, then the environment's keys are *)
(* looked at, the pipes made and the reader started.  An exception here     *)
(* leaves run before its try.                                               *)
Prepare(approved) ==
    /\ pc = "ready"
    /\ rootfs' = TRUE
    /\ IF approved
       THEN /\ pc' = "scope"
            /\ reader' = "reading" /\ attOpen' = TRUE /\ goOpen' = TRUE
            /\ UNCHANGED ending
       ELSE /\ pc' = "abandoned" /\ ending' = "raised"
            /\ UNCHANGED <<reader, attOpen, goOpen>>
    /\ UNCHANGED <<job, scope, exceeded, finding, pipe, go, child>>

(* CgroupV2Scope.from_environment: no parent configured, a usable one, or   *)
(* an exception, which also leaves run before its try.                      *)
MakeScope(parent) ==
    /\ pc = "scope"
    /\ parent # "none" => job.budget
    /\ pc' = [none |-> "spawn", usable |-> "enter", unusable |-> "abandoned"][parent]
    /\ ending' = IF parent = "unusable" THEN "raised" ELSE ending
    /\ UNCHANGED <<job, rootfs, scope, exceeded, gate, child>>

(* CgroupV2Scope.__enter__: the directory and its limits; when a limit      *)
(* cannot be written the scope is taken down again.                         *)
EnterScope(limited) ==
    /\ pc = "enter"
    /\ scope' = IF limited THEN "live" ELSE "gone"
    /\ pc' = IF limited THEN "spawn" ELSE "finally"
    /\ ending' = IF limited THEN ending ELSE "raised"
    /\ UNCHANGED <<job, rootfs, exceeded, gate, child>>

(* _apply_limits in the child before exec: into the cgroup, then the        *)
(* resource limits; an exception there reaches the caller of Popen.         *)
Limits ==
    (IF scope = "live" THEN {"cgroup"} ELSE {}) \cup (IF job.budget THEN {"limits"} ELSE {})

Spawn(started) ==
    /\ pc = "spawn"
    /\ IF started
       THEN /\ unshare' = "alive" /\ workload' = "mount" /\ inForce' = Limits /\ holds' = TRUE
            /\ pc' = "loop"
            /\ UNCHANGED ending
       ELSE /\ pc' = "close" /\ ending' = "raised"
            /\ UNCHANGED <<unshare, workload, inForce, holds>>
    /\ UNCHANGED <<job, rootfs, scope, exceeded, gate, detached>>

-----------------------------------------------------------------------------
(***************************************************************************)
(* The bootstrap.  Each step may raise, which ends it.                     *)
(***************************************************************************)
Boot(at, next, protections) ==
    /\ workload = at
    /\ workload' = next
    /\ inForce' = inForce \cup protections
    /\ UNCHANGED <<job, caller, gate, unshare, detached, holds>>

Mount == Boot("mount", "nnp", {})
NoNewPrivs == Boot("nnp", "landlock", {"nnp"})

(* Without Landlock in the kernel the strict profile raises.                *)
Landlock(supported) ==
    /\ supported \/ ~job.strict
    /\ Boot("landlock", "network", IF supported THEN {"landlock"} ELSE {})

(* Every interface of the namespace is the loopback. *)
Interfaces(isolated) == Boot("network", "seccomp", IF isolated THEN {"network"} ELSE {})

(* install_bull_seccomp loads a filter; names the kernel does not know are  *)
(* left out, which may leave no rule at all.                                *)
Seccomp(rules) == Boot("seccomp", "attest", IF rules THEN {"seccomp"} ELSE {})

Attest ==
    /\ workload = "attest"
    /\ pipe' = {inForce}
    /\ workload' = "gate"
    /\ UNCHANGED <<job, caller, reader, finding, attOpen, go, goOpen, unshare, inForce,
                   detached, holds>>

\* Mutant: the end of the release pipe is taken for its byte.
OpensAtEnd == go \/ ~goOpen
Opens == go

(* One byte from the host, then the command. *)
Exec ==
    /\ workload = "gate" /\ Opens
    /\ workload' = "running"
    /\ UNCHANGED <<job, caller, gate, unshare, inForce, detached, holds>>

(* A step raised, the gate was closed, or the workload ended.               *)
Die ==
    /\ workload \notin {"none", "dead"}
    /\ workload = "gate" => go \/ ~goOpen
    /\ workload' = "dead" /\ holds' = FALSE
    /\ UNCHANGED <<job, caller, gate, unshare, inForce, detached>>

Detach ==
    /\ workload = "running" /\ ~detached
    /\ detached' = TRUE
    /\ UNCHANGED <<job, caller, gate, unshare, workload, inForce, holds>>

CloseStreams ==
    /\ workload = "running" /\ holds
    /\ holds' = FALSE
    /\ UNCHANGED <<job, caller, gate, unshare, workload, inForce, detached>>

(* unshare waits for its child. *)
LauncherExits ==
    /\ unshare = "alive" /\ workload = "dead"
    /\ unshare' = "dead"
    /\ UNCHANGED <<job, caller, gate, workload, inForce, detached, holds>>

-----------------------------------------------------------------------------
(***************************************************************************)
(* The reader.  The pipe ends when neither the host nor the bootstrap      *)
(* holds its write end.                                                    *)
(***************************************************************************)
BeforeAttest == {"mount", "nnp", "landlock", "network", "seccomp", "attest"}

ReaderReads ==
    /\ reader = "reading"
    /\ pipe # {} \/ (~attOpen /\ workload \notin BeforeAttest)
    /\ reader' = "judging"
    /\ UNCHANGED <<job, caller, finding, pipe, attOpen, go, goOpen, child>>

(* _parse_attestation *)
Valid(says) ==
    /\ {"nnp", "seccomp", "network"} \subseteq says
    /\ job.strict => "landlock" \in says

Admits == \E says \in pipe : Valid(says)

ReaderJudges ==
    /\ reader = "judging"
    /\ IF ~job.required
       THEN reader' = "releasing" /\ UNCHANGED <<finding, goOpen>>
       ELSE IF Admits
            THEN reader' = "releasing" /\ finding' = "valid" /\ UNCHANGED goOpen
            ELSE reader' = "ended" /\ finding' = "error" /\ goOpen' = FALSE
    /\ UNCHANGED <<job, caller, pipe, attOpen, go, child>>

(* A write after run has closed the descriptor is an error. *)
ReaderReleases ==
    /\ reader = "releasing"
    /\ IF goOpen THEN go' = TRUE /\ UNCHANGED finding ELSE finding' = "error" /\ UNCHANGED go
    /\ goOpen' = FALSE
    /\ reader' = "ended"
    /\ UNCHANGED <<job, caller, pipe, attOpen, child>>

-----------------------------------------------------------------------------
(***************************************************************************)
(* _run_bounded.  The streams end when the launcher is gone and nothing    *)
(* else holds them.                                                        *)
(***************************************************************************)
StreamsEnd ==
    /\ pc = "loop" /\ unshare = "dead" /\ ~holds
    /\ pc' = "close"
    /\ UNCHANGED <<job, ending, rootfs, scope, exceeded, gate, child>>

(* _terminate_process_group: SIGTERM to the group, which the launcher and   *)
(* the workload may each ignore, and after a second SIGKILL if the launcher *)
(* is still there.                                                          *)
Terminate(next) ==
    IF unshare = "dead"
    THEN pc' = next[2] /\ UNCHANGED child
    ELSE /\ pc' = next[1]
         /\ unshare' \in {"alive", "dead"}
         /\ workload' \in {workload} \cup (IF detached THEN {} ELSE {"dead"})
         /\ holds' = (holds /\ workload' # "dead")
         /\ UNCHANGED <<inForce, detached>>

Exceed ==
    /\ pc = "loop" /\ workload = "running" /\ holds
    /\ exceeded' = TRUE
    /\ Terminate(<<"kill", "loop">>)
    /\ UNCHANGED <<job, ending, rootfs, scope, gate>>

\* Mutant: the deadline is not looked at once the output is being drained.
OnlyUndrained == ~exceeded
Watched == TRUE

Deadline ==
    /\ pc = "loop" /\ Watched
    /\ ending' = "raised"
    /\ Terminate(<<"kill", "close">>)
    /\ UNCHANGED <<job, rootfs, scope, exceeded, gate>>

Kill ==
    /\ pc = "kill"
    /\ pc' = IF ending = "raised" THEN "close" ELSE "loop"
    /\ unshare' = "dead"
    /\ workload' = IF unshare = "alive" /\ ~detached THEN "dead" ELSE workload
    /\ holds' = (holds /\ workload' # "dead")
    /\ UNCHANGED <<job, ending, rootfs, scope, exceeded, gate, inForce, detached>>

-----------------------------------------------------------------------------
CloseWriteEnd ==
    /\ pc = "close"
    /\ attOpen' = FALSE
    /\ pc' = "leave"
    /\ UNCHANGED <<job, ending, rootfs, scope, exceeded, reader, finding, pipe, go, goOpen, child>>

\* Mutant: the scope is removed without cgroup.kill.
RemovesOnly == workload
Killed == "dead"

(* CgroupV2Scope.__exit__: everything in the cgroup is killed. *)
LeaveScope ==
    /\ pc = "leave"
    /\ pc' = IF ending = "raised" THEN "finally" ELSE "join"
    /\ IF scope = "live" /\ workload # "none"
       THEN /\ workload' = Killed /\ unshare' = "dead"
            /\ holds' = (holds /\ workload' # "dead")
       ELSE UNCHANGED <<workload, unshare, holds>>
    /\ scope' = IF scope = "live" THEN "gone" ELSE scope
    /\ UNCHANGED <<job, ending, rootfs, exceeded, gate, inForce, detached>>

(* The reader is joined for two seconds; its error is raised.               *)
Join ==
    /\ pc = "join"
    /\ pc' = "finally"
    /\ ending' = IF reader = "ended" /\ finding # "error" THEN "returned" ELSE "raised"
    /\ UNCHANGED <<job, rootfs, scope, exceeded, gate, child>>

Finally ==
    /\ pc = "finally"
    /\ pc' = "ended"
    /\ attOpen' = FALSE /\ goOpen' = FALSE
    /\ rootfs' = FALSE
    /\ UNCHANGED <<job, ending, scope, exceeded, reader, finding, pipe, go, child>>

-----------------------------------------------------------------------------
Parents == {"none", "usable", "unusable"}

Caller ==
    \/ \E ok \in BOOLEAN : Construct(ok) \/ Prepare(ok) \/ EnterScope(ok) \/ Spawn(ok)
    \/ \E parent \in Parents : MakeScope(parent)
    \/ StreamsEnd \/ Deadline \/ Kill
    \/ CloseWriteEnd \/ LeaveScope \/ Join \/ Finally

Reader == ReaderReads \/ ReaderJudges \/ ReaderReleases

Child ==
    \/ Mount \/ NoNewPrivs \/ Attest \/ Exec \/ Die \/ Detach \/ CloseStreams \/ LauncherExits
    \/ \E ok \in BOOLEAN : Landlock(ok) \/ Interfaces(ok) \/ Seccomp(ok)

SandboxNext == Caller \/ Exceed \/ Reader \/ Child

(***************************************************************************)
(* Fairness: the calling thread runs, and a deadline passes: every call of *)
(* the production path gives run a timeout.  Nothing is asked of the       *)
(* workload or of the reader.                                              *)
(***************************************************************************)
SandboxSpec ==
    /\ SandboxInit /\ [][SandboxNext]_sandboxVars
    /\ WF_sandboxVars(Caller) /\ WF_sandboxVars(Deadline)

-----------------------------------------------------------------------------
(* A workload runs only under the protections that the host has seen        *)
(* attested and accepted: no new privileges, seccomp with rules, a network  *)
(* namespace of its own and, if strict, Landlock; and within the limits and *)
(* the cgroup it was given (the pre-exec gate).                             *)
OnlyAttestedRuns ==
    workload = "running" =>
        /\ job.required => finding = "valid" /\ Valid(inForce)
        /\ Limits \ {"cgroup"} \subseteq inForce
        /\ scope = "live" => "cgroup" \in inForce

(* When a run with a cgroup scope is over, returned or raised, nothing of   *)
(* it is left: no process, whether or not it left its process group or      *)
(* ignored the signals, no scope and no directory.                          *)
NothingOutlives ==
    pc = "ended" =>
        /\ ~rootfs
        /\ "cgroup" \in inForce => unshare = "dead" /\ workload = "dead" /\ scope = "gone"

(* run ends, whatever the workload does with its output, its group and its  *)
(* signals, and whether or not an attestation ever comes.                   *)
RunEnds == <>(pc \in {"ended", "abandoned", "unavailable"})

-----------------------------------------------------------------------------
(* Why the two safety properties hold: the pipe carries what is in force    *)
(* from the attestation on, the release byte is written only after it was   *)
(* accepted, and a scope is gone only with everything in it.                *)
Started == {"loop", "kill", "close", "leave", "join", "finally", "ended"}
Boots == BeforeAttest \cup {"gate"}

Places ==
    /\ job \in [strict : BOOLEAN, required : BOOLEAN, budget : BOOLEAN]
    /\ pc \in {"new", "unavailable", "ready", "abandoned", "scope", "enter", "spawn"} \cup Started
    /\ ending \in {"none", "raised", "returned"}
    /\ scope \in {"none", "live", "gone"}
    /\ reader \in {"off", "reading", "judging", "releasing", "ended"}
    /\ finding \in {"none", "valid", "error"}
    /\ unshare \in {"none", "alive", "dead"}
    /\ workload \in Boots \cup {"none", "running", "dead"}

Flags ==
    /\ rootfs \in BOOLEAN /\ go \in BOOLEAN /\ goOpen \in BOOLEAN
    /\ detached \in BOOLEAN /\ holds \in BOOLEAN

SandboxTypeOK == Places /\ Flags

ReleaseInv ==
    /\ pc \in {"new", "ready"} => reader = "off"
    /\ pipe # {} => pipe = {inForce} /\ workload \notin BeforeAttest \cup {"none"}
    /\ reader \in {"off", "reading", "judging"} => finding = "none" /\ ~go
    /\ reader = "releasing" => ~go /\ (job.required => finding = "valid")
    /\ job.required /\ finding = "valid" => pipe # {} /\ Valid(inForce)
    /\ go => reader = "ended" /\ (job.required => finding = "valid")
    /\ workload = "running" => go

ScopeInv ==
    /\ workload = "none" => unshare = "none" /\ inForce = {}
    /\ workload # "none" => pc \in Started
    /\ pc \in {"loop", "kill"} => workload # "none"
    /\ workload # "none" /\ job.budget => "limits" \in inForce
    /\ workload # "none" /\ scope = "live" => "cgroup" \in inForce
    /\ "cgroup" \in inForce /\ scope # "live" =>
         scope = "gone" /\ workload = "dead" /\ unshare = "dead"
    /\ pc \in {"join", "finally", "ended"} => scope # "live"
    /\ pc = "ended" => ~rootfs

SandboxInv == SandboxTypeOK /\ ReleaseInv /\ ScopeInv
=============================================================================
