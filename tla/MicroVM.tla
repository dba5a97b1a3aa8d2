------------------------------- MODULE MicroVM ------------------------------
(***************************************************************************)
(* A one-shot session in a microVM, from all sides at once: the host's run *)
(* (microvm/integration.py), the launcher and its supervise (microvm.py),  *)
(* the guest supervisor run_session (guest_engine.py), the control channel *)
(* between host and guest, and the audit relay (audit_transport.py)        *)
(* through which every audit record of the guest must reach the host's     *)
(* evidence store and the remote collector before the guest goes on.       *)
(*                                                                         *)
(* A store of audit records is the number of the last record it holds: the *)
(* records go one by one and AnchorStore takes them in order.  The records *)
(* that one dispatch writes count as one.  A deadline may pass whenever    *)
(* the code waits.                                                         *)
(***************************************************************************)
EXTENDS ControlChannel

CONSTANT Cases      \* the requests the host may make

KnownCases == {"allowed", "denied", "timeout", "cancel", "missing-protection"}

ASSUME CasesAreKnown == Cases \subseteq KnownCases

VARIABLES
    case,          \* the request of this session
    host,          \* where the host's run stands
    hostCh,        \* its end of the control channel
    verdict,       \* report['status'] as it stands
    report,        \* the status saved
    guest,         \* where run_session stands
    guestCh,       \* its end
    toGuest,       \* control frames on the line
    toHost,
    vm,            \* the QEMU process: "off", "up", "halted", "crashed", "killed"
    launcher,      \* "off", "starting", "spawned", "waiting", "killing", "gone"
    signalled,     \* SIGTERM was sent to the launcher
    ledger,        \* audit records in the guest's ledger
    acked,         \* those acknowledged to it
    line,          \* audit record on the line to the relay, 0 for none
    ack,           \* acknowledgement on the line to the guest, 0 for none
    relay,         \* HostAnchorRelay.handle: "idle", "upstream", "dead"
    evidence,      \* last record in the host's evidence store
    upstream,      \* last record at the remote collector
    outcome,       \* what the guest's dispatch came to
    effects        \* history: workloads started

control == <<hostCh, guestCh, toGuest, toHost>>
process == <<vm, launcher, signalled>>
audit == <<ledger, acked, line, ack, relay, evidence, upstream>>
work == <<outcome, effects>>
told == <<verdict, report>>
vars == <<case, host, guest, control, process, audit, work, told>>

Running == vm = "up"

Nothing == [what |-> "none", head |-> 0]
Body(what) == [what |-> what, head |-> ledger]

Init ==
    /\ case \in Cases
    /\ host = "start" /\ verdict = "fail" /\ report = "none"
    /\ guest = "off"
    /\ hostCh = NewChannel /\ guestCh = NewChannel
    /\ toGuest = <<>> /\ toHost = <<>>
    /\ vm = "off" /\ launcher = "off" /\ signalled = FALSE
    /\ ledger = 0 /\ acked = 0 /\ line = 0 /\ ack = 0
    /\ relay = "idle" /\ evidence = 0 /\ upstream = 0
    /\ outcome = "none" /\ effects = 0

-----------------------------------------------------------------------------
(***************************************************************************)
(* The guest.  On any exception it tries to send the error as an operation *)
(* of its own, over the channel as the exception left it, and halts.       *)
(***************************************************************************)
Listening == host \in {"ready", "execute", "result", "cancel", "cancelling"}

GuestFails(ch, why) ==
    /\ guest' = "halt"
    /\ IF MaySend("guest", ch, "error") /\ Listening
       THEN /\ toHost' = Append(toHost, Frame(ch, "error", Body(why)))
            /\ guestCh' = Sent(ch, "error")
       ELSE /\ guestCh' = Broken(ch)
            /\ UNCHANGED toHost

GuestSends(kind, next) ==
    IF Listening
    THEN /\ toHost' = Append(toHost, Frame(guestCh, kind, Body(outcome)))
         /\ guestCh' = Sent(guestCh, kind)
         /\ guest' = next
    ELSE GuestFails(Broken(guestCh), "channel")

(* append_event over RelayAnchorTransport.submit: write the record and wait. *)
Submit(next) ==
    /\ ledger' = ledger + 1
    /\ line' = ledger + 1
    /\ guest' = next
    /\ UNCHANGED <<acked, ack, relay, evidence, upstream>>

(* bootstrap_guest_relay: the ledger is empty; the first record proves the   *)
(* path to the collector.                                                    *)
GuestBoots ==
    /\ Running /\ guest = "boot"
    /\ Submit("bootstrapped")
    /\ UNCHANGED <<case, host, control, process, work, told>>

Waits == {"bootstrapped", "evaluated", "completed"}

AfterAck == [bootstrapped |-> "gate", evaluated |-> "run", completed |-> "tell"]

(* check_ack: exactly the record submitted, and then the guest goes on. *)
GuestAcked ==
    /\ Running /\ guest \in Waits
    /\ ack = ledger
    /\ acked' = ack /\ ack' = 0
    /\ guest' = AfterAck[guest]
    /\ UNCHANGED <<case, host, control, process, ledger, line, relay, evidence, upstream,
                   work, told>>

GuestAckTimeout ==
    /\ Running /\ guest \in Waits
    /\ GuestFails(guestCh, "anchor")
    /\ UNCHANGED <<case, host, hostCh, toGuest, process, audit, work, told>>

(* ProductionRuntime: the production gate admits this machine or raises, as *)
(* it must where the strict protection is missing.                          *)
GuestGate(admits) ==
    /\ Running /\ guest = "gate"
    /\ admits => case # "missing-protection"
    /\ IF admits THEN GuestSends("ready", "request") ELSE GuestFails(guestCh, "gate")
    /\ UNCHANGED <<case, host, hostCh, toGuest, process, audit, work, told>>

(* receive('execute'); the request must be the deployment authority's, and  *)
(* the authority live.                                                      *)
GuestRequest(live) ==
    /\ Running /\ guest = "request" /\ toGuest # <<>>
    /\ toGuest' = Tail(toGuest)
    /\ LET frame == Head(toGuest) IN
       IF ~Accepts("guest", guestCh, "execute", frame)
       THEN GuestFails(Broken(guestCh), "channel")
       ELSE IF ~live
            THEN GuestFails(Received(guestCh, frame), "authority")
            ELSE /\ guestCh' = Received(guestCh, frame)
                 /\ guest' = "dispatch"
                 /\ UNCHANGED toHost
    /\ UNCHANGED <<case, host, hostCh, process, audit, work, told>>

GuestRequestTimeout ==
    /\ Running /\ guest = "request"
    /\ GuestFails(Broken(guestCh), "channel")
    /\ UNCHANGED <<case, host, hostCh, toGuest, process, audit, work, told>>

(* ProductionDispatcher.execute: the decision is recorded before anything   *)
(* runs; a request it refuses outright leaves no record.                    *)
GuestDispatches ==
    /\ Running /\ guest = "dispatch"
    /\ \/ Submit("evaluated") /\ UNCHANGED work
       \/ /\ guest' = "clean" /\ outcome' = "deny"
          /\ UNCHANGED <<effects, audit>>
    /\ UNCHANGED <<case, host, control, process, told>>

(* The workload is denied, ends well or badly, or outlives its deadline.    *)
GuestRuns ==
    /\ Running /\ guest = "run"
    /\ \/ outcome' = "deny" /\ UNCHANGED effects
       \/ /\ case # "denied"
          /\ outcome' \in {"done", "error", "timeout"}
          /\ effects' = effects + 1
    /\ guest' = "clean"
    /\ UNCHANGED <<case, host, control, process, audit, told>>

(* No cgroup and no snapshot may be left; then the completion is recorded   *)
(* before it is told.                                                       *)
GuestCompletes(tidy) ==
    /\ Running /\ guest = "clean"
    /\ IF tidy THEN Submit("completed") /\ UNCHANGED <<toHost, guestCh>>
       ELSE GuestFails(guestCh, "cleanup") /\ UNCHANGED audit
    /\ UNCHANGED <<case, host, hostCh, toGuest, process, work, told>>

GuestTells ==
    /\ Running /\ guest = "tell"
    /\ GuestSends("result", "halt")
    /\ UNCHANGED <<case, host, hostCh, toGuest, process, audit, work, told>>

(* main's finally: sync and reboot, which ends the VM. *)
GuestHalts ==
    /\ Running /\ guest = "halt"
    /\ vm' = "halted" /\ guest' = "off"
    /\ UNCHANGED <<case, host, control, launcher, signalled, audit, work, told>>

VMCrash ==
    /\ Running
    /\ vm' = "crashed" /\ guest' = "off"
    /\ UNCHANGED <<case, host, control, launcher, signalled, audit, work, told>>

-----------------------------------------------------------------------------
(* audit_loop and HostAnchorRelay.handle: the record goes to the local      *)
(* evidence first, which AnchorStore takes in order or as a repetition.     *)
RelayTakes ==
    /\ relay = "idle" /\ line # 0
    /\ IF line \in {evidence, evidence + 1}
       THEN evidence' = line /\ relay' = "upstream"
       ELSE relay' = "dead" /\ UNCHANGED evidence
    /\ UNCHANGED <<case, host, guest, control, process, ledger, acked, line, ack, upstream,
                   work, told>>

(* The collector refuses, accepts, or accepts and its answer is lost.       *)
Collected == {"refused", "accepted", "lost"}

\* Mutant: the relay answers for its local evidence.
AnswersAnyway(answer) == answer # "refused" \/ evidence > upstream
Answers(answer) == answer = "accepted"

(* Without the collector's answer submit raises: the loop ends, and the     *)
(* local evidence stays.                                                    *)
RelayForwards(answer) ==
    /\ relay = "upstream"
    /\ upstream' = IF answer = "refused" THEN upstream ELSE line
    /\ line' = 0
    /\ IF Answers(answer)
       THEN relay' = "idle" /\ ack' = line
       ELSE relay' = "dead" /\ UNCHANGED ack
    /\ UNCHANGED <<case, host, guest, control, process, ledger, acked, evidence, work, told>>

-----------------------------------------------------------------------------
(* The launcher.  Its main reads the configuration and builds the images;   *)
(* a signal, or anything it refuses, ends it before there is a VM.          *)
LauncherRefuses ==
    /\ launcher = "starting"
    /\ launcher' = "gone"
    /\ UNCHANGED <<case, host, guest, control, vm, signalled, audit, work, told>>

(* supervise: signals are blocked across the spawn and the installation of  *)
(* the handlers that forward them.                                          *)
LauncherSpawns ==
    /\ launcher = "starting" /\ ~signalled
    /\ launcher' = "spawned"
    /\ vm' = "up" /\ guest' = "boot"
    /\ UNCHANGED <<case, host, control, signalled, audit, work, told>>

\* Mutant: the signal is not blocked, and its default action ends the launcher.
UnblockedAtSpawn == IF signalled THEN "gone" ELSE "waiting"
SignalAtSpawn == IF signalled THEN "killing" ELSE "waiting"

LauncherHandles ==
    /\ launcher = "spawned"
    /\ launcher' = SignalAtSpawn
    /\ UNCHANGED <<case, host, guest, control, vm, signalled, audit, work, told>>

(* The VM ends by itself. *)
LauncherReaps ==
    /\ launcher = "waiting" /\ ~Running
    /\ launcher' = "gone"
    /\ UNCHANGED <<case, host, guest, control, vm, signalled, audit, work, told>>

(* A signal, or the end of the VM's lifetime. *)
LauncherInterrupted ==
    /\ launcher = "waiting"
    /\ signalled \/ Running
    /\ launcher' = "killing"
    /\ UNCHANGED <<case, host, guest, control, vm, signalled, audit, work, told>>

(* The finally clause: terminate, then kill, exactly that child.            *)
LauncherKills ==
    /\ launcher = "killing"
    /\ launcher' = "gone"
    /\ vm' = IF Running THEN "killed" ELSE vm
    /\ guest' = "off"
    /\ UNCHANGED <<case, host, control, signalled, audit, work, told>>

-----------------------------------------------------------------------------
HostLaunches ==
    /\ host = "start"
    /\ host' = "ready"
    /\ launcher' = "starting"
    /\ UNCHANGED <<case, guest, control, vm, signalled, audit, work, told>>

(* receive: what does not fit raises, and so does an error of the guest,    *)
(* which is what the case of a missing protection expects of its gate.      *)
HostReceives(at, expected, next) ==
    /\ host = at /\ toHost # <<>>
    /\ toHost' = Tail(toHost)
    /\ LET frame == Head(toHost) IN
       IF Accepts("host", hostCh, expected, frame)
       THEN /\ hostCh' = Received(hostCh, frame)
            /\ host' = IF frame.kind = "error" THEN "finally" ELSE next
            /\ verdict' = IF frame.kind = "error" /\ frame.body.what = "gate"
                                                  /\ case = "missing-protection"
                          THEN "pass" ELSE verdict
       ELSE /\ hostCh' = Broken(hostCh)
            /\ host' = "finally"
            /\ UNCHANGED verdict
    /\ UNCHANGED <<case, guest, guestCh, toGuest, process, audit, work, report>>

HostReady ==
    HostReceives("ready", "ready",
                 IF case = "missing-protection" THEN "finally" ELSE "execute")

HostExecutes ==
    /\ host = "execute"
    /\ IF Running /\ guest # "halt"
       THEN /\ toGuest' = Append(toGuest, Frame(hostCh, "execute", Nothing))
            /\ hostCh' = Sent(hostCh, "execute")
            /\ host' = IF case = "cancel" THEN "cancel" ELSE "result"
       ELSE /\ hostCh' = Broken(hostCh)
            /\ host' = "finally"
            /\ UNCHANGED toGuest
    /\ UNCHANGED <<case, guest, guestCh, toHost, process, audit, work, told>>

(* The result must carry the outcome the case asks for and an audit head    *)
(* the collector has.                                                       *)
Wanted == [allowed |-> "done", denied |-> "deny", timeout |-> "timeout"]

Complete(body) == body.what = Wanted[case] /\ upstream >= body.head

HostResult ==
    HostReceives("result", "result",
                 IF toHost # <<>> /\ Head(toHost).kind = "result" /\ Complete(Head(toHost).body)
                 THEN "wait" ELSE "finally")

\* Mutant: no deadline for the guest to come up.
OnlyResult == {"result"}
Deadlines == {"ready", "result"}

(* The line ends or its deadline passes while the host waits. *)
HostTimeout ==
    /\ host \in Deadlines
    /\ host' = "finally"
    /\ hostCh' = Broken(hostCh)
    /\ UNCHANGED <<case, guest, guestCh, toGuest, toHost, process, audit, work, told>>

(* child.wait: the launcher must end well, in time, and the relay with it.  *)
HostWaits ==
    /\ host = "wait" /\ launcher = "gone"
    /\ host' = "finally"
    /\ verdict' = IF vm = "halted" /\ relay # "dead" THEN "pass" ELSE verdict
    /\ UNCHANGED <<case, guest, control, process, audit, work, report>>

HostWaitTimeout ==
    /\ host \in {"wait", "cancelling"}
    /\ host' = "finally"
    /\ UNCHANGED <<case, guest, control, process, audit, work, told>>

(* The case of a cancellation: terminate the launcher and wait for it; then *)
(* no result may be there.                                                  *)
HostCancels ==
    /\ host = "cancel"
    /\ host' = "cancelling"
    /\ signalled' = TRUE
    /\ UNCHANGED <<case, guest, control, vm, launcher, audit, work, told>>

HostCancelled ==
    /\ host = "cancelling" /\ launcher = "gone"
    /\ host' = "finally"
    /\ verdict' = IF toHost # <<>> /\ Accepts("host", hostCh, "result", Head(toHost))
                                   /\ Head(toHost).kind = "result"
                  THEN verdict ELSE "pass"
    /\ UNCHANGED <<case, guest, control, process, audit, work, report>>

(* The finally clause: wait for the launcher, else terminate it and wait.   *)
HostTerminates ==
    /\ host = "finally" /\ launcher # "gone" /\ ~signalled
    /\ signalled' = TRUE
    /\ UNCHANGED <<case, host, guest, control, vm, launcher, audit, work, told>>

HostReports ==
    /\ host = "finally" /\ launcher = "gone"
    /\ host' = "closed" /\ report' = verdict
    /\ UNCHANGED <<case, guest, control, process, audit, work, verdict>>

\* Mutant: an unfinished cleanup does not count.
KeepsVerdict == verdict
CleanupFailed == "fail"

HostGivesUp ==
    /\ host = "finally" /\ launcher # "gone" /\ signalled
    /\ host' = "closed" /\ report' = CleanupFailed
    /\ UNCHANGED <<case, guest, control, process, audit, work, verdict>>

(* A line may deliver a frame twice. *)
LineRepeats ==
    /\ \/ Len(toGuest) = 1 /\ toGuest' = toGuest \o toGuest /\ UNCHANGED toHost
       \/ Len(toHost) = 1 /\ toHost' = toHost \o toHost /\ UNCHANGED toGuest
    /\ UNCHANGED <<case, host, guest, hostCh, guestCh, process, audit, work, told>>

-----------------------------------------------------------------------------
Guest ==
    \/ GuestBoots \/ GuestAcked \/ GuestAckTimeout
    \/ \E admits \in BOOLEAN : GuestGate(admits)
    \/ \E live \in BOOLEAN : GuestRequest(live)
    \/ GuestRequestTimeout \/ GuestDispatches \/ GuestRuns
    \/ \E tidy \in BOOLEAN : GuestCompletes(tidy)
    \/ GuestTells \/ GuestHalts

Relay == RelayTakes \/ \E answer \in Collected : RelayForwards(answer)

Launcher ==
    LauncherRefuses \/ LauncherSpawns \/ LauncherHandles \/ LauncherReaps
    \/ LauncherInterrupted \/ LauncherKills

Host ==
    \/ HostLaunches \/ HostReady \/ HostExecutes \/ HostResult \/ HostTimeout
    \/ HostWaits \/ HostWaitTimeout \/ HostCancels \/ HostCancelled
    \/ HostTerminates \/ HostReports \/ HostGivesUp

Next == Guest \/ Relay \/ Launcher \/ Host \/ VMCrash \/ LineRepeats

(***************************************************************************)
(* Fairness: the host and the launcher are running programs, and every     *)
(* wait of theirs has a deadline (SessionChannel._transfer, accept,        *)
(* child.wait, supervise), which their actions include.  Nothing is asked  *)
(* of the guest or of the collector.                                       *)
(***************************************************************************)
Spec == Init /\ [][Next]_vars /\ WF_vars(Host) /\ WF_vars(Launcher)

-----------------------------------------------------------------------------
(* What the guest holds to be acknowledged is at the remote collector, and  *)
(* what is there is in the host's evidence store (HostAnchorRelay.handle):  *)
(* no answer covers a record that only one of them has.                     *)
AckMeansBoth == acked <= upstream /\ upstream <= evidence /\ evidence <= ledger

(* A session the host reports as passed ended with its VM gone; the allowed *)
(* and the timed-out one ran their workload exactly once, the denied one    *)
(* and the one with a missing protection never, and each told result is     *)
(* recorded at the collector and in the local evidence.                     *)
PassIsTrue ==
    report = "pass" =>
        /\ ~Running
        /\ case \in {"allowed", "timeout"} => effects = 1
        /\ case \in {"denied", "missing-protection"} => effects = 0
        /\ case \in DOMAIN Wanted => upstream = ledger /\ evidence = ledger

(* The launcher never ends before its VM, whenever a signal reaches it, the *)
(* moment between spawning QEMU and installing the handlers included.       *)
NoOrphanVM == launcher = "gone" => ~Running

(* Every session ends with a saved report and without its VM, whatever      *)
(* crashes, stalls or repeats, because every wait of the host and of the    *)
(* launcher has a deadline.                                                 *)
SessionEnds == <>[](report # "none" /\ ~Running)

-----------------------------------------------------------------------------
(* Why the three safety properties hold.  A guest that is not waiting for   *)
(* an acknowledgement has none on the line; a result is sent once nothing   *)
(* more is recorded or run; and the host's way to a pass goes through it.   *)
Outcomes == {"none", "deny", "done", "error", "timeout"}
Active == {"boot", "gate", "request", "dispatch", "run", "clean", "tell"}
Stopped == {"halt", "off"}

Whats == Outcomes \cup {"channel", "anchor", "gate", "authority", "cleanup"}
Frames == [seq : Nat, kind : Kinds, body : [what : Whats, head : Nat]]

TypeOK ==
    /\ case \in Cases
    /\ guest \in Active \cup Waits \cup Stopped
    /\ toHost \in Seq(Frames)
    /\ guestCh \in Channels
    /\ vm \in {"off", "up", "halted", "crashed", "killed"}
    /\ launcher \in {"off", "starting", "spawned", "waiting", "killing", "gone"}
    /\ ledger \in Nat /\ acked \in Nat /\ line \in Nat /\ ack \in Nat
    /\ evidence \in Nat /\ upstream \in Nat
    /\ relay \in {"idle", "upstream", "dead"}
    /\ outcome \in Outcomes

LauncherInv ==
    /\ host = "start" => launcher = "off"
    /\ launcher \in {"off", "starting"} =>
         /\ guest = "off" /\ toHost = <<>>
         /\ ledger = 0 /\ line = 0 /\ ack = 0 /\ relay = "idle" /\ effects = 0 /\ outcome = "none"
    /\ Running => launcher \in {"spawned", "waiting", "killing"}

AuditInv ==
    /\ AckMeansBoth
    /\ line \in {0, ledger}
    /\ guest \in Active => line = 0 /\ ack = 0 /\ relay # "upstream"
    /\ guest \in Waits => ledger > 0
    /\ ack # 0 => ack <= upstream /\ line = 0 /\ relay # "upstream"
    /\ relay = "upstream" => line # 0 /\ line = evidence

WorkInv ==
    /\ guest \in {"boot", "bootstrapped", "gate", "request", "dispatch", "evaluated", "run"} =>
         outcome = "none"
    /\ effects = IF outcome \in {"none", "deny"} THEN 0 ELSE 1
    /\ guest \in {"request", "dispatch", "evaluated", "run", "clean", "completed", "tell"} =>
         case # "missing-protection"
    /\ case \in {"denied", "missing-protection"} => effects = 0

ResultInv ==
    \A i \in DOMAIN toHost :
        toHost[i].kind = "result" =>
            toHost[i].body = [what |-> outcome, head |-> ledger] /\ guest \in Stopped

HostInv ==
    /\ host = "execute" => case # "missing-protection"
    /\ host = "result" => case \in DOMAIN Wanted
    /\ host \in {"cancel", "cancelling"} => case = "cancel"
    /\ host = "wait" => case \in DOMAIN Wanted
    /\ (host = "wait" \/ verdict = "pass") /\ case \in DOMAIN Wanted =>
         guest \in Stopped /\ outcome = Wanted[case] /\ upstream = ledger
    /\ report # "none" => host = "closed"
    /\ report = "pass" => verdict = "pass" /\ launcher = "gone"

SessionInv == TypeOK /\ LauncherInv /\ AuditInv /\ WorkInv /\ ResultInv /\ HostInv
=============================================================================
