----------------------------- MODULE Production -----------------------------
(***************************************************************************)
(* ProductionRuntime and ProductionDispatcher (profiles.py) on a           *)
(* deployment that changes under them: the startup gate                    *)
(* (production_gate.py, host_certify.py), the signed policy bundle         *)
(* (policy_bundle.py) and the signed manifest of the installed files       *)
(* (integrity.py), each read in steps of its own, and re-read at each use. *)
(*                                                                         *)
(* A bundle is [root, ceiling, human, signed]; signed means that its HMAC  *)
(* is the deployment key's over these very fields.  human is "none" (no    *)
(* human_approval section), "listed" (the call's URL is a routine one) or  *)
(* "plain".  A manifest is [files, signed].  One thread makes calls; the   *)
(* approval state machine itself is ApprovalGate.                          *)
(***************************************************************************)
EXTENDS Naturals, Sequences

CONSTANTS
    Bundles,        \* bundles the deployer may install
    CriticalFiles,  \* CRITICAL_FILES
    Releases,       \* contents of a file
    CapabilityNames,
    MaxChanges      \* changes to the deployment

Controls == <<"anchor", "policy", "scratch", "ledger", "cgroup", "seccomp", "backend", "manifest">>

(***************************************************************************)
(* What each check of the gate can meet, besides "good".  "unset" and      *)
(* "nokey" are BLOCKED; the others FAIL.  Volatile is what can change      *)
(* while the process lives: its environment variables cannot.              *)
(***************************************************************************)
RemoteAnchor == {"unset", "nokey", "badurl", "badtransport"}
SnapshotScratch == {"unset", "missing", "unwritable", "full"}
AuditLedgerPath == {"unset", "relative", "missing", "unwritable"}
CgroupParent == {"unset", "missing", "unwritable", "noprocs"}
SeccompProfile == {"unset", "compat"}
CertifyHost == {"static", "probe"}

Situations ==
    [anchor |-> RemoteAnchor, scratch |-> SnapshotScratch, ledger |-> AuditLedgerPath,
     cgroup |-> CgroupParent, seccomp |-> SeccompProfile, backend |-> CertifyHost]

Volatile ==
    [anchor  |-> {"badtransport"}, scratch |-> {"missing", "full"}, ledger |-> {"missing"},
     cgroup  |-> {"missing"}, seccomp |-> {}, backend |-> {"probe"}]

HostControls == DOMAIN Situations

ASSUME ProductionConstants ==
    /\ \A b \in Bundles : b.ceiling \subseteq CapabilityNames
    /\ MaxChanges \in Nat

VARIABLES
    deployed,     \* [bundle, files, manifest]: the installed deployment
    env,          \* what each host control would find
    changes,      \* number of changes made
    stage,        \* where the thread stands
    phase,        \* what verify_trusted_state is run for
    dispatch,     \* the dispatch under way: [kind, capability]
    checking,      \* index of the gate's next check
    found,        \* statuses other than PASS that the gate met
    readManifest, \* the manifest as it was read
    hashed,       \* contents hashed so far
    policy,       \* [root, ceiling] enforced by the engine
    gateBundle,   \* the bundle the approval gate was made from
    request,      \* the approval: "none", "consumed", "completed", "uncertain"
    past,         \* deployments installed since the call began
    since         \* ... since the approval was consumed

deployment == <<deployed, env, changes>>
reading == <<readManifest, hashed>>
productionVars == <<deployment, stage, phase, dispatch, checking, found, reading, policy,
                    gateBundle, request, past, since>>

(* verify_policy_bundle: what a loaded bundle satisfies. *)
Loads(b) == b.signed /\ b.ceiling # {}

Good == [c \in HostControls |-> "good"]
NoHash == [f \in {} |-> "none"]
Shipped == LET v == CHOOSE v \in Releases : TRUE IN [f \in CriticalFiles |-> v]
NoDispatch == [kind |-> "none", capability |-> "none"]

ProductionInit ==
    /\ deployed \in {[bundle |-> b, files |-> Shipped,
                      manifest |-> [files |-> Shipped, signed |-> TRUE]] : b \in Bundles}
    /\ env \in {Good} \cup {[Good EXCEPT ![c] = s] : c \in HostControls,
                                                      s \in UNION {Situations[d] : d \in HostControls}}
    /\ \A c \in HostControls : env[c] \in Situations[c] \cup {"good"}
    /\ changes = 0
    /\ stage = "gate" /\ phase = "start" /\ dispatch = NoDispatch /\ checking = 1 /\ found = {}
    /\ readManifest = deployed.manifest /\ hashed = NoHash
    /\ policy = [root |-> "none", ceiling |-> {}]
    /\ gateBundle = deployed.bundle /\ request = "none"
    /\ past = {deployed} /\ since = {}

-----------------------------------------------------------------------------
(***************************************************************************)
(* The deployment changes: a bundle is installed (sign_policy_bundle, or   *)
(* edited by hand), a file replaced, a manifest built and, with the key,   *)
(* signed, a directory or the host's capabilities lost or regained.        *)
(***************************************************************************)
Change ==
    /\ changes < MaxChanges
    /\ changes' = changes + 1
    /\ UNCHANGED <<stage, phase, dispatch, checking, found, reading, policy, gateBundle, request>>

Install(d) ==
    /\ Change
    /\ deployed' = d
    /\ past' = past \cup {d}
    /\ since' = IF request = "consumed" THEN since \cup {d} ELSE since
    /\ UNCHANGED env

InstallBundle(b) == b # deployed.bundle /\ Install([deployed EXCEPT !.bundle = b])

ReplaceFile(f, v) == v # deployed.files[f] /\ Install([deployed EXCEPT !.files[f] = v])

BuildManifest(signed) ==
    /\ deployed.manifest # [files |-> deployed.files, signed |-> signed]
    /\ Install([deployed EXCEPT !.manifest = [files |-> deployed.files, signed |-> signed]])

ChangeHost(c, s) ==
    /\ env[c] # s
    /\ env[c] \in Volatile[c] \cup {"good"}
    /\ Change
    /\ env' = [env EXCEPT ![c] = s]
    /\ UNCHANGED <<deployed, past, since>>

-----------------------------------------------------------------------------
(***************************************************************************)
(* verify_integrity_manifest: the manifest is read and its signature       *)
(* checked, then the files are hashed one by one (in any order) and        *)
(* compared.                                                               *)
(***************************************************************************)
Status(s) ==
    IF s = "good" THEN "PASS" ELSE IF s \in {"unset", "nokey"} THEN "BLOCKED" ELSE "FAIL"

ReadManifest ==
    /\ readManifest' = deployed.manifest
    /\ hashed' = NoHash

HashFile(f) ==
    /\ f \notin DOMAIN hashed
    /\ hashed' = [g \in DOMAIN hashed \cup {f} |-> IF g = f THEN deployed.files[f] ELSE hashed[g]]
    /\ UNCHANGED readManifest

Hashed == DOMAIN hashed = CriticalFiles
Matches == readManifest.signed /\ hashed = readManifest.files

(* evaluate_production_environment: every check is made, whatever the ones  *)
(* before it found.                                                         *)
Finds(status) ==
    /\ found' = found \cup ({status} \ {"PASS"})
    /\ checking' = checking + 1

CheckControl ==
    /\ stage = "gate" /\ checking <= Len(Controls)
    /\ LET c == Controls[checking] IN
       \/ /\ c \in HostControls
          /\ Finds(Status(env[c]))
          /\ UNCHANGED <<stage, reading>>
       \/ /\ c = "policy"
          /\ Finds(IF Loads(deployed.bundle) THEN "PASS" ELSE "FAIL")
          /\ UNCHANGED <<stage, reading>>
       \/ /\ c = "manifest"
          /\ ReadManifest
          /\ stage' = "hash"
          /\ UNCHANGED <<checking, found>>
    /\ UNCHANGED <<deployment, phase, dispatch, policy, gateBundle, request, past, since>>

CheckManifest ==
    /\ stage = "hash" /\ phase = "start" /\ Hashed
    /\ Finds(IF Matches THEN "PASS" ELSE "FAIL")
    /\ stage' = "gate"
    /\ UNCHANGED <<deployment, phase, dispatch, reading, policy, gateBundle, request, past,
                   since>>

\* Mutant: a control that is not configured does not count as a failure.
OnlyFailures == "FAIL" \notin found
Passed == found = {}

Admit ==
    /\ stage = "gate" /\ checking > Len(Controls)
    /\ stage' = IF Passed THEN "load" ELSE "refused"
    /\ UNCHANGED <<deployment, phase, dispatch, checking, found, reading, policy, gateBundle,
                   request, past, since>>

(* The constructor after the gate: the bundle is loaded again, and the      *)
(* engine, ledger, sandbox and scratch root are made.                       *)
LoadPolicy ==
    /\ stage = "load"
    /\ IF Loads(deployed.bundle)
       THEN /\ policy' = [root |-> deployed.bundle.root, ceiling |-> deployed.bundle.ceiling]
            /\ stage' = "assemble"
       ELSE stage' = "refused" /\ UNCHANGED policy
    /\ UNCHANGED <<deployment, phase, dispatch, checking, found, reading, gateBundle, request,
                   past, since>>

Assemble ==
    /\ stage = "assemble"
    /\ stage' = IF env["anchor"] = "good" /\ env["scratch"] \in {"good", "full"}
             THEN "up" ELSE "refused"
    /\ UNCHANGED <<deployment, phase, dispatch, checking, found, reading, policy, gateBundle,
                   request, past, since>>

-----------------------------------------------------------------------------
(***************************************************************************)
(* A dispatch: execute verifies the trusted state once; a broker operation *)
(* does so before the policy decides, when the approval gate is made, and  *)
(* again between the approval's consumption and the effect.                *)
(***************************************************************************)
Dispatch(kind, capability) ==
    /\ stage = "up"
    /\ dispatch' = [kind |-> kind, capability |-> capability]
    /\ stage' = "manifest" /\ phase' = "admit"
    /\ request' = "none" /\ past' = {deployed} /\ since' = {}
    /\ UNCHANGED <<deployment, checking, found, reading, policy, gateBundle>>

(* verify_trusted_state *)
VerifyRead ==
    /\ stage = "manifest"
    /\ ReadManifest
    /\ stage' = "hash"
    /\ UNCHANGED <<deployment, phase, dispatch, checking, found, policy, gateBundle, request,
                   past, since>>

VerifyHash ==
    /\ stage = "hash"
    /\ \E f \in CriticalFiles : HashFile(f)
    /\ UNCHANGED <<deployment, stage, phase, dispatch, checking, found, policy, gateBundle,
                   request, past, since>>

(* An exception: after the approval was consumed it is left "uncertain".    *)
Deny ==
    /\ stage' = "denied"
    /\ request' = IF request = "consumed" THEN "uncertain" ELSE request

\* Mutant: only the project root is compared with the running policy's.
SameRoot(b) == b.root = policy.root
SamePolicy(b) == b.root = policy.root /\ b.ceiling = policy.ceiling

VerifyState ==
    /\ stage = "hash" /\ phase # "start" /\ Hashed
    /\ IF Matches /\ Loads(deployed.bundle) /\ SamePolicy(deployed.bundle)
       THEN stage' = phase /\ UNCHANGED request
       ELSE Deny
    /\ UNCHANGED <<deployment, phase, dispatch, checking, found, reading, policy, gateBundle,
                   past, since>>

(* The engine decides under its own policy; execute then runs with a permit *)
(* minted for this action and command, a broker operation asks for the      *)
(* approval gate.                                                           *)
Decide ==
    /\ stage = "admit"
    /\ IF dispatch.capability \notin policy.ceiling
       THEN Deny /\ UNCHANGED phase
       ELSE /\ IF dispatch.kind = "execute"
               THEN stage' = "performed" /\ UNCHANGED phase
               ELSE stage' = "manifest" /\ phase' = "approval"
            /\ UNCHANGED request
    /\ UNCHANGED <<deployment, dispatch, checking, found, reading, policy, gateBundle, past,
                   since>>

(* approval_gate: a further load, whose human_approval section is used. *)
MakeGate ==
    /\ stage = "approval"
    /\ gateBundle' = deployed.bundle
    /\ IF Loads(deployed.bundle) /\ deployed.bundle.human # "none"
       THEN stage' = "gated" /\ UNCHANGED request
       ELSE Deny
    /\ UNCHANGED <<deployment, phase, dispatch, checking, found, reading, policy, past, since>>

(* A routine URL needs no approval. *)
Routine ==
    /\ stage = "gated" /\ gateBundle.human = "listed"
    /\ stage' = "performed"
    /\ UNCHANGED <<deployment, phase, dispatch, checking, found, reading, policy, gateBundle,
                   request, past, since>>

Consume(granted) ==
    /\ stage = "gated" /\ gateBundle.human = "plain"
    /\ IF granted
       THEN /\ request' = "consumed" /\ since' = {deployed}
            /\ stage' = "manifest" /\ phase' = "effect"
       ELSE stage' = "denied" /\ UNCHANGED <<request, phase, since>>
    /\ UNCHANGED <<deployment, dispatch, checking, found, reading, policy, gateBundle, past>>

StillApproved == deployed.bundle = gateBundle

(* The last load, the comparison with the approved policy, the effect.      *)
Perform(succeeds) ==
    /\ stage = "effect"
    /\ IF Loads(deployed.bundle) /\ StillApproved /\ succeeds
       THEN stage' = "performed" /\ request' = "completed"
       ELSE Deny
    /\ UNCHANGED <<deployment, phase, dispatch, checking, found, reading, policy, gateBundle,
                   past, since>>

Reply ==
    /\ stage \in {"performed", "denied"}
    /\ stage' = "up"
    /\ UNCHANGED <<deployment, phase, dispatch, checking, found, reading, policy, gateBundle,
                   request, past, since>>

-----------------------------------------------------------------------------
Deployer ==
    \/ \E b \in Bundles : InstallBundle(b)
    \/ \E f \in CriticalFiles, v \in Releases : ReplaceFile(f, v)
    \/ \E signed \in BOOLEAN : BuildManifest(signed)
    \/ \E c \in HostControls : \E s \in Volatile[c] \cup {"good"} : ChangeHost(c, s)

Thread ==
    \/ CheckControl \/ CheckManifest \/ Admit \/ LoadPolicy \/ Assemble
    \/ \E kind \in {"execute", "broker"}, capability \in CapabilityNames : Dispatch(kind, capability)
    \/ VerifyRead \/ VerifyHash \/ VerifyState \/ Decide \/ MakeGate \/ Routine
    \/ \E ok \in BOOLEAN : Consume(ok) \/ Perform(ok)
    \/ Reply

ProductionNext == Deployer \/ Thread
ProductionSpec == ProductionInit /\ [][ProductionNext]_productionVars

-----------------------------------------------------------------------------
Authentic(s) == s.manifest.signed
Verified(history) ==
    \E m \in history :
        /\ Authentic(m)
        /\ \A f \in CriticalFiles : \E s \in history : s.files[f] = m.manifest.files[f]

(* A runtime comes up only if, since its construction began, a signed       *)
(* manifest described every critical file, a signed bundle carried exactly  *)
(* the policy it enforces, and every host control that  cannot change under *)
(* the process is as production requires (verify_production_environment     *)
(* and the constructor's second load).                                      *)
StartedIsChecked ==
    (phase = "start" /\ stage = "up") =>
        /\ Verified(past)
        /\ \E s \in past : /\ Loads(s.bundle)
                           /\ [root |-> s.bundle.root, ceiling |-> s.bundle.ceiling] = policy
        /\ \A c \in HostControls : env[c] \in Volatile[c] \cup {"good"}

(* What is performed is performed under the deployment as it was since the  *)
(* call began: its files as a signed manifest lists them and the enforced   *)
(* policy as in a signed bundle that allows the capability; and, if a human *)
(* approved it, under the very bundle they approved it for, installed after *)
(* the approval was consumed; without an approval only what that bundle     *)
(* lists as routine.                                                        *)
EffectsAreCurrent ==
    stage = "performed" =>
        /\ Verified(past)
        /\ \E s \in past : /\ Loads(s.bundle)
                           /\ [root |-> s.bundle.root, ceiling |-> s.bundle.ceiling] = policy
                           /\ dispatch.capability \in s.bundle.ceiling
        /\ dispatch.kind = "broker" =>
             \/ request = "completed" /\ \E s \in since : s.bundle = gateBundle
             \/ /\ gateBundle.human = "listed" /\ Loads(gateBundle)
                /\ \E s \in past : s.bundle = gateBundle

-----------------------------------------------------------------------------
(* A signed bundle that was installed since carries the enforced policy. *)
Carried ==
    \E s \in past : /\ Loads(s.bundle)
                    /\ [root |-> s.bundle.root, ceiling |-> s.bundle.ceiling] = policy

StartStages == {"gate", "hash", "load", "assemble", "up", "refused"}
CallStages ==
    {"up", "manifest", "hash", "admit", "approval", "gated", "effect", "performed", "denied"}

(* What the thread knows at each stage, whatever the deployer does between  *)
(* two of its reads: a check speaks of some deployment installed since the  *)
(* construction or the call began, not of the one installed now.            *)
Reads ==
    /\ policy = [root |-> policy.root, ceiling |-> policy.ceiling]
    /\ deployed \in past
    /\ request = "consumed" => deployed \in since
    /\ stage = "hash" =>
         /\ \E s \in past : s.manifest = readManifest
         /\ \A f \in DOMAIN hashed : \E s \in past : s.files[f] = hashed[f]

StartInv ==
    phase = "start" =>
        /\ stage \in StartStages
        /\ stage = "hash" => checking = Len(Controls)
        /\ found = {} =>
             /\ \A i \in 1..(checking - 1) :
                  Controls[i] \in HostControls =>
                      env[Controls[i]] \in Volatile[Controls[i]] \cup {"good"}
             /\ checking > Len(Controls) => Verified(past)
        /\ stage \in {"load", "assemble", "up"} => found = {} /\ checking > Len(Controls)
        /\ stage \in {"assemble", "up"} => Carried

ServingInv ==
    phase # "start" =>
        /\ stage \in CallStages
        /\ stage \in {"admit", "approval", "effect"} => phase = stage
        /\ stage = "gated" => phase = "approval"
        /\ stage \in {"admit", "performed"} \/ phase \in {"approval", "effect"} =>
             Verified(past) /\ Carried
        /\ stage = "performed" \/ phase \in {"approval", "effect"} =>
             dispatch.capability \in policy.ceiling
        /\ stage = "gated" \/ phase = "effect" =>
             Loads(gateBundle) /\ \E s \in past : s.bundle = gateBundle
        /\ phase = "effect" /\ stage \in {"manifest", "hash", "effect"} => request = "consumed"
        /\ stage = "performed" /\ dispatch.kind = "broker" =>
             \/ request = "completed" /\ \E s \in since : s.bundle = gateBundle
             \/ /\ gateBundle.human = "listed" /\ Loads(gateBundle)
                /\ \E s \in past : s.bundle = gateBundle

ProductionInv ==
    /\ phase \in {"start", "admit", "approval", "effect"}
    /\ checking \in Nat \ {0}
    /\ Reads /\ StartInv /\ ServingInv
=============================================================================
