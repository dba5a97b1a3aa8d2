--------------------------- MODULE MicroVMProofs ----------------------------
(***************************************************************************)
(* The microVM session, for every order of the steps of host, launcher,    *)
(* guest and relay, with crashes, timeouts and a line that repeats frames: *)
(* what is acknowledged is in both stores, no VM outlives its launcher,    *)
(* and a session that is reported as passed did what its case says.        *)
(***************************************************************************)
EXTENDS MicroVM, TLAPS

\* A session that has not started has told and recorded nothing.
LEMMA SessionInit == Init => SessionInv
BY DEF Init, NewChannel, Channels, SessionInv, TypeOK, LauncherInv, AuditInv,
   AckMeansBoth, WorkInv, ResultInv, HostInv, Wanted, Outcomes,
      Active, Stopped, Waits,
   Running

\* Sending on, receiving from and breaking a control channel leaves a
\* channel.
LEMMA ChannelTyped ==
  ASSUME NEW ch \in Channels, NEW kind \in Kinds, NEW frame
  PROVE  /\ Sent(ch, kind) \in Channels
         /\ Broken(ch) \in Channels
         /\ Received(ch, frame) \in Channels
         /\ \A body \in [what : Whats, head : Nat] : Frame(ch, kind, body) \in Frames
<1>1. Broken(ch) \in Channels
  BY Zenon DEF Channels, Broken
<1>2. Sent(ch, kind) \in Channels
  <2>. DEFINE executed == ch.executed \/ kind = "execute"
  <2>1. executed \in BOOLEAN
    OBVIOUS
  <2>2. Sent(ch, kind) = [ch EXCEPT !.sent = @ + 1, !.executed = executed]
    BY DEF Sent
  <2>. HIDE DEF executed
  <2>3. Sent(ch, kind) = [sent |-> ch.sent + 1, received |-> ch.received, failed |-> ch.failed,
                              executed |-> executed]
    BY <2>2, Zenon DEF Channels
  <2>. QED
    BY <2>1, <2>3 DEF Channels
<1>3. Received(ch, frame) \in Channels
  <2>. DEFINE executed == ch.executed \/ frame.kind = "execute"
              failed == frame.kind = "error"
  <2>1. executed \in BOOLEAN /\ failed \in BOOLEAN
    OBVIOUS
  <2>2. Received(ch, frame) =
          [ch EXCEPT !.received = @ + 1, !.executed = executed, !.failed = failed]
    BY DEF Received
  <2>. HIDE DEF executed, failed
  <2>3. Received(ch, frame) =
          [sent |-> ch.sent, received |-> ch.received + 1, failed |-> failed,
           executed |-> executed]
    BY <2>2, Zenon DEF Channels
  <2>. QED
    BY <2>1, <2>3 DEF Channels
<1>4. \A body \in [what : Whats, head : Nat] : Frame(ch, kind, body) \in Frames
  BY DEF Channels, Frame, Frames
<1>. QED
  BY <1>1, <1>2, <1>3, <1>4

\* A guest that fails halts and adds no result to what the host reads.
LEMMA FailsTold ==
  ASSUME SessionInv, NEW ch \in Channels, NEW why \in Whats, GuestFails(ch, why)
  PROVE  /\ guest' = "halt"
         /\ guestCh' \in Channels
         /\ toHost' \in Seq(Frames)
         /\ \A i \in DOMAIN toHost' :
              toHost'[i].kind = "result" => i \in DOMAIN toHost /\ toHost'[i] = toHost[i]
<1>. DEFINE frame == Frame(ch, "error", Body(why))
<1>1. frame \in Frames /\ frame.kind = "error"
  BY ChannelTyped DEF Body, Frame, Frames, Kinds, SessionInv, TypeOK, Channels
<1>2. Sent(ch, "error") \in Channels /\ Broken(ch) \in Channels
  BY ChannelTyped DEF Kinds
<1>3. toHost \in Seq(Frames)
  BY DEF SessionInv, TypeOK
<1>4. guest' = "halt" /\ guestCh' \in Channels /\ toHost' \in {toHost, Append(toHost, frame)}
  BY <1>2 DEF GuestFails
<1>. HIDE DEF frame
<1>. QED
  BY <1>1, <1>3, <1>4

\* A guest that sends a frame either halts on a broken channel or goes on,
\* and a result it adds says what it did and where its ledger ends.
LEMMA SendsTold ==
  ASSUME SessionInv, NEW kind \in {"ready", "result"}, NEW next, GuestSends(kind, next)
  PROVE  /\ guest' \in {"halt", next}
         /\ guestCh' \in Channels
         /\ toHost' \in Seq(Frames)
         /\ \A i \in DOMAIN toHost' :
              toHost'[i].kind = "result" =>
                \/ i \in DOMAIN toHost /\ toHost'[i] = toHost[i]
                \/ kind = "result" /\ guest' = next
                   /\ toHost'[i].body = [what |-> outcome, head |-> ledger]
<1>. DEFINE frame == Frame(guestCh, kind, Body(outcome))
<1>1. guestCh \in Channels /\ toHost \in Seq(Frames) /\ outcome \in Whats
  BY DEF SessionInv, TypeOK, Whats
<1>2. /\ frame \in Frames /\ frame.kind = kind
      /\ frame.body = [what |-> outcome, head |-> ledger]
  BY <1>1, ChannelTyped DEF Body, Frame, Frames, Kinds, SessionInv,
     TypeOK, Channels
<1>3. Sent(guestCh, kind) \in Channels /\ Broken(guestCh) \in Channels
  BY <1>1, ChannelTyped, Zenon DEF Kinds
<1>4. CASE Listening
  <2>1. guest' = next /\ guestCh' \in Channels /\ toHost' = Append(toHost, frame)
    BY <1>3, <1>4 DEF GuestSends
  <2>. HIDE DEF frame
  <2>. QED
    BY <1>1, <1>2, <2>1
<1>5. CASE ~Listening
  <2>1. GuestFails(Broken(guestCh), "channel")
    BY <1>5 DEF GuestSends
  <2>. QED
    BY <1>3, <2>1, FailsTold DEF Whats
<1>. QED
  BY <1>4, <1>5

\* What a step of the host leaves alone.
LEMMA HostFrame ==
  Host => UNCHANGED <<case, guest, guestCh, vm, audit, work>>
BY DEF Host, HostLaunches, HostReady, HostExecutes, HostResult, HostTimeout,
   HostWaits, HostWaitTimeout, HostCancels, HostCancelled, HostTerminates,
   HostReports, HostGivesUp, HostReceives, process, control, audit, work

\* What a step of the launcher leaves alone.
LEMMA LauncherFrame ==
  Launcher => UNCHANGED <<case, host, control, signalled, audit, work, told>>
BY DEF Launcher, LauncherRefuses, LauncherSpawns, LauncherHandles, LauncherReaps,
   LauncherInterrupted, LauncherKills, audit, work, control, told

\* What a step of the evidence relay leaves alone.
LEMMA RelayFrame ==
  Relay =>
    UNCHANGED <<case, host, guest, control, process, ledger, acked, work, told>>
BY DEF Relay, RelayTakes, RelayForwards

\* What a step of the guest leaves alone.
LEMMA GuestFrame ==
  Guest =>
    UNCHANGED <<case, host, hostCh, launcher, signalled, relay, evidence, upstream, told>>
BY DEF Guest, GuestBoots, GuestAcked, GuestAckTimeout, GuestGate, GuestRequest,
   GuestRequestTimeout, GuestDispatches, GuestRuns, GuestCompletes, GuestTells,
   GuestHalts, Submit, control, process, audit

\* Every step of a session keeps the types.
LEMMA SessionTypes ==
  ASSUME SessionInv, [Next]_vars PROVE TypeOK'
<1>. USE DEF SessionInv, TypeOK, Active, Waits, Stopped, audit, work,
   process, control
<1>1. CASE GuestBoots
  BY <1>1 DEF GuestBoots, Submit
<1>2. CASE GuestAcked
  BY <1>2 DEF GuestAcked, AfterAck
<1>3. CASE GuestAckTimeout
  <2>1. GuestFails(guestCh, "anchor")
    BY <1>3 DEF GuestAckTimeout
  <2>. QED
    BY <1>3, <2>1, FailsTold DEF GuestAckTimeout, Whats
<1>4. ASSUME NEW ok \in BOOLEAN, GuestGate(ok) PROVE TypeOK'
  <2>1. GuestSends("ready", "request") \/ GuestFails(guestCh, "gate")
    BY <1>4 DEF GuestGate
  <2>. QED
    BY <1>4, <2>1, FailsTold, SendsTold DEF GuestGate, Whats
<1>5. ASSUME NEW ok \in BOOLEAN, GuestRequest(ok) PROVE TypeOK'
  <2>. DEFINE got == Received(guestCh, Head(toGuest))
  <2>1. Broken(guestCh) \in Channels /\ got \in Channels
    BY ChannelTyped, Zenon DEF Kinds
  <2>2. \/ GuestFails(Broken(guestCh), "channel")
        \/ GuestFails(got, "authority")
        \/ guestCh' = got /\ guest' = "dispatch" /\ UNCHANGED toHost
    BY <1>5 DEF GuestRequest
  <2>. HIDE DEF got
  <2>3. guestCh' \in Channels /\ guest' \in {"halt", "dispatch"} /\ toHost' \in Seq(Frames)
    BY <2>1, <2>2, FailsTold DEF Whats
  <2>. QED
    BY <1>5, <2>3 DEF GuestRequest
<1>6. CASE GuestRequestTimeout
  <2>1. GuestFails(Broken(guestCh), "channel") /\ Broken(guestCh) \in Channels
    BY <1>6, Zenon DEF GuestRequestTimeout, Broken, Channels
  <2>. QED
    BY <1>6, <2>1, FailsTold DEF GuestRequestTimeout, Whats
<1>7. CASE GuestDispatches
  BY <1>7, SMTT(30) DEF GuestDispatches, Submit, Outcomes
<1>8. CASE GuestRuns
  BY <1>8 DEF GuestRuns, Outcomes
<1>9. ASSUME NEW ok \in BOOLEAN, GuestCompletes(ok) PROVE TypeOK'
  <2>1. CASE Submit("completed") /\ UNCHANGED <<toHost, guestCh>>
    BY <1>9, <2>1 DEF GuestCompletes, Submit
  <2>2. CASE GuestFails(guestCh, "cleanup") /\ UNCHANGED audit
    <3>1. guestCh' \in Channels /\ guest' = "halt" /\ toHost' \in Seq(Frames)
      BY <2>2, FailsTold DEF Whats
    <3>. QED
      BY <1>9, <2>2, <3>1 DEF GuestCompletes
  <2>. QED
    BY <1>9, <2>1, <2>2 DEF GuestCompletes
<1>10. CASE GuestTells
  <2>1. GuestSends("result", "halt")
    BY <1>10 DEF GuestTells
  <2>. QED
    BY <1>10, <2>1, SendsTold DEF GuestTells
<1>11. CASE GuestHalts
  BY <1>11 DEF GuestHalts
<1>12. CASE RelayTakes
  BY <1>12 DEF RelayTakes
<1>13. ASSUME NEW answer \in Collected, RelayForwards(answer) PROVE TypeOK'
  BY <1>13 DEF RelayForwards
<1>14. CASE Launcher
  BY <1>14, LauncherFrame, SMTT(30) DEF Launcher, LauncherRefuses, LauncherSpawns,
     LauncherHandles, LauncherReaps, LauncherInterrupted, LauncherKills,
        SignalAtSpawn
<1>15. CASE Host
  <2>1. /\ launcher' \in {launcher, "starting"} 
        /\ toHost' = toHost \/ (toHost # <<>> /\ toHost' = Tail(toHost))
    BY <1>15 DEF Host, HostLaunches, HostReady, HostExecutes, HostResult,
       HostTimeout, HostWaits, HostWaitTimeout, HostCancels, HostCancelled,
       HostTerminates, HostReports, HostGivesUp, HostReceives
  <2>2. toHost' \in Seq(Frames)
    BY <2>1
  <2>. QED
    BY <1>15, <2>1, <2>2, HostFrame
<1>16. CASE VMCrash
  BY <1>16 DEF VMCrash
<1>17. CASE LineRepeats
  BY <1>17 DEF LineRepeats
<1>18. CASE UNCHANGED vars
  BY <1>18, SMTT(30) DEF vars
<1>. QED
  BY <1>1, <1>2, <1>3, <1>4, <1>5, <1>6, <1>7, <1>8, <1>9, <1>10, <1>11, <1>12, <1>13, <1>14,
     <1>15, <1>16, <1>17, <1>18 DEF Next, Guest, Relay

\* Every step keeps the order of anchoring: a record goes to the evidence
\* store, then upstream, then is acknowledged.
LEMMA SessionAudit ==
  ASSUME SessionInv, [Next]_vars PROVE AuditInv'
<1>. USE DEF SessionInv, TypeOK, LauncherInv, AuditInv, AckMeansBoth,
   Active, Waits, Stopped, audit, Running
<1>1. CASE GuestBoots
  BY <1>1 DEF GuestBoots, Submit
<1>2. CASE GuestAcked
  BY <1>2 DEF GuestAcked, AfterAck
<1>3. CASE GuestAckTimeout
  BY <1>3 DEF GuestAckTimeout, GuestFails
<1>4. ASSUME NEW ok \in BOOLEAN, GuestGate(ok) PROVE AuditInv'
  BY <1>4 DEF GuestGate, GuestSends, GuestFails
<1>5. ASSUME NEW ok \in BOOLEAN, GuestRequest(ok) PROVE AuditInv'
  BY <1>5 DEF GuestRequest, GuestFails
<1>6. CASE GuestRequestTimeout
  BY <1>6 DEF GuestRequestTimeout, GuestFails
<1>7. CASE GuestDispatches
  BY <1>7 DEF GuestDispatches, Submit
<1>8. CASE GuestRuns
  BY <1>8 DEF GuestRuns
<1>9. ASSUME NEW ok \in BOOLEAN, GuestCompletes(ok) PROVE AuditInv'
  BY <1>9 DEF GuestCompletes, Submit, GuestFails
<1>10. CASE GuestTells
  BY <1>10 DEF GuestTells, GuestSends, GuestFails
<1>11. CASE GuestHalts
  BY <1>11 DEF GuestHalts
<1>12. CASE RelayTakes
  BY <1>12 DEF RelayTakes
<1>13. CASE \E answer \in Collected : RelayForwards(answer)
  BY <1>13 DEF RelayForwards, Answers, Collected
<1>14. CASE Launcher
  BY <1>14, LauncherFrame DEF Launcher, LauncherRefuses, LauncherSpawns,
     LauncherHandles, LauncherReaps, LauncherInterrupted, LauncherKills
<1>15. CASE Host
  BY <1>15, HostFrame
<1>16. CASE VMCrash
  BY <1>16 DEF VMCrash
<1>17. CASE LineRepeats
  BY <1>17 DEF LineRepeats
<1>18. CASE UNCHANGED vars
  BY <1>18 DEF vars, audit, work, control, process, told
<1>. QED
  BY <1>1, <1>2, <1>3, <1>4, <1>5, <1>6, <1>7, <1>8, <1>9, <1>10, <1>11, <1>12, <1>13,
     <1>14, <1>15, <1>16, <1>17, <1>18, Zenon DEF Next, Guest, Relay, Launcher,
     Host

\* Every step keeps the count of effects in line with the outcome.
LEMMA SessionWork ==
  ASSUME SessionInv, [Next]_vars PROVE WorkInv'
<1>. USE DEF SessionInv, TypeOK, LauncherInv, WorkInv, Active, Waits,
   Stopped, work, Outcomes
<1>1. CASE GuestBoots
  BY <1>1 DEF GuestBoots, Submit
<1>2. CASE GuestAcked
  BY <1>2 DEF GuestAcked, AfterAck
<1>3. CASE GuestAckTimeout
  BY <1>3 DEF GuestAckTimeout, GuestFails
<1>4. ASSUME NEW ok \in BOOLEAN, GuestGate(ok) PROVE WorkInv'
  BY <1>4 DEF GuestGate, GuestSends, GuestFails
<1>5. ASSUME NEW ok \in BOOLEAN, GuestRequest(ok) PROVE WorkInv'
  BY <1>5 DEF GuestRequest, GuestFails
<1>6. CASE GuestRequestTimeout
  BY <1>6 DEF GuestRequestTimeout, GuestFails
<1>7. CASE GuestDispatches
  BY <1>7 DEF GuestDispatches, Submit
<1>8. CASE GuestRuns
  BY <1>8 DEF GuestRuns
<1>9. ASSUME NEW ok \in BOOLEAN, GuestCompletes(ok) PROVE WorkInv'
  BY <1>9 DEF GuestCompletes, Submit, GuestFails
<1>10. CASE GuestTells
  BY <1>10 DEF GuestTells, GuestSends, GuestFails
<1>11. CASE GuestHalts
  BY <1>11 DEF GuestHalts
<1>12. CASE Relay
  BY <1>12, RelayFrame
<1>13. CASE Launcher
  BY <1>13, LauncherFrame DEF Launcher, LauncherRefuses, LauncherSpawns,
     LauncherHandles, LauncherReaps, LauncherInterrupted, LauncherKills
<1>14. CASE Host
  BY <1>14, HostFrame
<1>15. CASE VMCrash
  BY <1>15 DEF VMCrash
<1>16. CASE LineRepeats
  BY <1>16 DEF LineRepeats
<1>17. CASE UNCHANGED vars
  BY <1>17, SMTT(30) DEF vars, audit, work, control, process, told
<1>. QED
  BY <1>1, <1>2, <1>3, <1>4, <1>5, <1>6, <1>7, <1>8, <1>9, <1>10, <1>11, <1>12, <1>13,
     <1>14, <1>15, <1>16, <1>17 DEF Next, Guest, Relay, Launcher, Host

\* Every step keeps a VM that runs in the hands of its launcher.
LEMMA SessionLauncher ==
  ASSUME SessionInv, [Next]_vars PROVE LauncherInv'
<1>. USE DEF SessionInv, TypeOK, LauncherInv, Active, Waits, Stopped,
   Running, control, process, audit, work
<1>1. CASE LauncherRefuses
  BY <1>1 DEF LauncherRefuses
<1>2. CASE LauncherSpawns
  BY <1>2 DEF LauncherSpawns
<1>3. CASE LauncherHandles
  BY <1>3 DEF LauncherHandles, SignalAtSpawn
<1>4. CASE LauncherReaps
  BY <1>4 DEF LauncherReaps
<1>5. CASE LauncherInterrupted
  BY <1>5 DEF LauncherInterrupted
<1>6. CASE LauncherKills
  BY <1>6 DEF LauncherKills
<1>7. CASE HostLaunches
  BY <1>7 DEF HostLaunches
<1>8. CASE HostReady
  BY <1>8 DEF HostReady, HostReceives
<1>9. CASE HostExecutes
  BY <1>9 DEF HostExecutes
<1>10. CASE HostResult
  BY <1>10 DEF HostResult, HostReceives
<1>11. CASE HostTimeout
  BY <1>11 DEF HostTimeout
<1>12. CASE HostWaits
  BY <1>12 DEF HostWaits
<1>13. CASE HostWaitTimeout
  BY <1>13 DEF HostWaitTimeout
<1>14. CASE HostCancels
  BY <1>14 DEF HostCancels
<1>15. CASE HostCancelled
  BY <1>15 DEF HostCancelled
<1>16. CASE HostTerminates
  BY <1>16 DEF HostTerminates
<1>17. CASE HostReports
  BY <1>17 DEF HostReports
<1>18. CASE HostGivesUp
  BY <1>18, SMTT(30) DEF HostGivesUp
<1>19. CASE Guest
  BY <1>19, GuestFrame, Zenon DEF Guest, GuestBoots, GuestAcked, GuestAckTimeout,
     GuestGate, GuestRequest, GuestRequestTimeout, GuestDispatches,
     GuestRuns, GuestCompletes, GuestTells, GuestHalts
<1>20. CASE Relay
  BY <1>20, RelayFrame DEF Relay, RelayTakes, RelayForwards
<1>21. CASE VMCrash
  BY <1>21 DEF VMCrash
<1>22. CASE LineRepeats
  BY <1>22 DEF LineRepeats
<1>23. CASE UNCHANGED vars
  BY <1>23 DEF vars, audit, work, control, process, told
<1>. QED
  BY <1>1, <1>2, <1>3, <1>4, <1>5, <1>6, <1>7, <1>8, <1>9, <1>10, <1>11, <1>12, <1>13,
     <1>14, <1>15, <1>16, <1>17, <1>18, <1>19, <1>20, <1>21, <1>22, <1>23, ZenonT(30) DEF Next,
     Guest, Relay, Launcher, Host

\* Every step keeps the results on their way equal to what the guest did.
LEMMA SessionResult ==
  ASSUME SessionInv, [Next]_vars PROVE ResultInv'
<1>. USE DEF ResultInv, Stopped
<1>1. ResultInv /\ LauncherInv /\ toHost \in Seq(Frames) /\ guestCh \in Channels
  BY DEF SessionInv, TypeOK
<1>2. ASSUME guest \notin Stopped, toHost' \in Seq(Frames),
             \A i \in DOMAIN toHost' :
               toHost'[i].kind = "result" => i \in DOMAIN toHost /\ toHost'[i] = toHost[i]
      PROVE  ResultInv'
  BY <1>1, <1>2
<1>3. CASE GuestBoots \/ GuestAcked \/ GuestDispatches \/ GuestRuns
  <2>1. guest \notin Stopped /\ UNCHANGED toHost
    BY <1>3 DEF GuestBoots, GuestAcked, GuestDispatches, GuestRuns, control, Waits
  <2>. QED
    BY <1>1, <1>2, <2>1
<1>4. CASE GuestAckTimeout \/ GuestRequestTimeout
  <2>1. \E ch \in Channels, why \in Whats : GuestFails(ch, why)
    BY <1>1, <1>4, ChannelTyped, Zenon DEF GuestAckTimeout, GuestRequestTimeout, Whats, Kinds
  <2>2. guest \notin Stopped
    BY <1>4 DEF GuestAckTimeout, GuestRequestTimeout, Waits
  <2>. QED
    BY <1>2, <2>1, <2>2, FailsTold
<1>5. ASSUME NEW ok \in BOOLEAN, GuestGate(ok) PROVE ResultInv'
  <2>1. GuestSends("ready", "request") \/ GuestFails(guestCh, "gate")
    BY <1>5 DEF GuestGate
  <2>2. guest \notin Stopped
    BY <1>5 DEF GuestGate
  <2>. QED
    BY <1>1, <1>2, <2>1, <2>2, FailsTold, SendsTold DEF Whats
<1>6. ASSUME NEW ok \in BOOLEAN, GuestRequest(ok) PROVE ResultInv'
  <2>. DEFINE got == Received(guestCh, Head(toGuest))
  <2>1. Broken(guestCh) \in Channels /\ got \in Channels
    BY <1>1, ChannelTyped DEF Kinds
  <2>2. \/ GuestFails(Broken(guestCh), "channel")
        \/ GuestFails(got, "authority")
        \/ UNCHANGED toHost
    BY <1>6 DEF GuestRequest
  <2>3. guest \notin Stopped
    BY <1>6 DEF GuestRequest
  <2>. HIDE DEF got
  <2>. QED
    BY <1>1, <1>2, <2>1, <2>2, <2>3, FailsTold DEF Whats
<1>7. ASSUME NEW ok \in BOOLEAN, GuestCompletes(ok) PROVE ResultInv'
  <2>1. guest \notin Stopped /\ (UNCHANGED toHost \/ GuestFails(guestCh, "cleanup"))
    BY <1>7, SMTT(30) DEF GuestCompletes
  <2>. QED
    BY <1>1, <1>2, <2>1, FailsTold DEF Whats
<1>8. CASE GuestTells
  <2>1. guest \notin Stopped /\ GuestSends("result", "halt") /\ UNCHANGED <<outcome, ledger>>
    BY <1>8 DEF GuestTells, work, audit
  <2>2. guest' \in Stopped
    BY <2>1, SendsTold
  <2>. QED
    BY <1>1, <2>1, <2>2, SendsTold
<1>9. CASE GuestHalts \/ VMCrash
  BY <1>1, <1>9 DEF GuestHalts, VMCrash, control, audit, work
<1>10. CASE Relay
  BY <1>1, <1>10, RelayFrame, SMTT(30) DEF control, work
<1>11. CASE Launcher
  <2>1. UNCHANGED <<toHost, ledger, outcome>>
    BY <1>11, LauncherFrame DEF control, audit, work
  <2>2. guest' \in {guest, "off"} \/ toHost = <<>>
    BY <1>1, <1>11 DEF LauncherInv, Launcher, LauncherRefuses, LauncherSpawns,
       LauncherHandles, LauncherReaps, LauncherInterrupted, LauncherKills
  <2>. QED
    BY <1>1, <2>1, <2>2
<1>12. CASE Host
  <2>1. UNCHANGED <<guest, ledger, outcome>>
    BY <1>12, HostFrame DEF audit, work
  <2>2. toHost' = toHost \/ (toHost # <<>> /\ toHost' = Tail(toHost))
    BY <1>12, ZenonT(30) DEF Host, HostLaunches, HostReady, HostExecutes, HostResult,
       HostTimeout, HostWaits, HostWaitTimeout, HostCancels, HostCancelled,
       HostTerminates, HostReports, HostGivesUp, HostReceives, control
  <2>. QED
    BY <1>1, <2>1, <2>2, SMTT(30)
<1>13. CASE LineRepeats
  <2>1. UNCHANGED <<guest, ledger, outcome>>
    BY <1>13 DEF LineRepeats, audit, work
  <2>2. toHost' = toHost \/ (Len(toHost) = 1 /\ toHost' = toHost \o toHost)
    BY <1>13, SMTT(30) DEF LineRepeats
  <2>. QED
    BY <1>1, <2>1, <2>2
<1>14. CASE UNCHANGED vars
  BY <1>1, <1>14, SMTT(30) DEF vars, control, audit, work
<1>. QED
  BY <1>3, <1>4, <1>5, <1>6, <1>7, <1>8, <1>9, <1>10, <1>11, <1>12, <1>13, <1>14, ZenonT(30)
     DEF Next, Guest

\* Every step keeps the way of the host to a pass: through a result that says
\* what the case wants.
LEMMA SessionHost ==
  ASSUME SessionInv, [Next]_vars PROVE HostInv'
<1>. USE DEF HostInv, Stopped, Wanted
<1>1. HostInv /\ LauncherInv /\ AuditInv /\ ResultInv /\ TypeOK
  BY ZenonT(30) DEF SessionInv
<1>2. CASE Guest
  <2>1. guest \in Stopped => guest' \in Stopped /\ UNCHANGED <<outcome, ledger>>
    BY <1>2, ZenonT(30) DEF Guest, GuestBoots, GuestAcked, GuestAckTimeout, GuestGate,
       GuestRequest, GuestRequestTimeout, GuestDispatches, GuestRuns,
       GuestCompletes, GuestTells, GuestHalts, audit, work, Waits
  <2>. QED
    BY <1>1, <1>2, <2>1, GuestFrame, ZenonT(30) DEF told
<1>3. CASE Relay
  <2>1. upstream = ledger => upstream' = ledger
    BY <1>1, <1>3, ZenonT(30) DEF Relay, RelayTakes, RelayForwards, AuditInv, AckMeansBoth,
       TypeOK
  <2>. QED
    BY <1>1, <1>3, <2>1, RelayFrame, ZenonT(30) DEF told, work, process
<1>4. CASE Launcher
  <2>1. UNCHANGED <<case, host, ledger, upstream, outcome, verdict, report>>
    BY <1>4, LauncherFrame, SMTT(30) DEF audit, work, told
  <2>2. /\ guest' \in {guest, "off"} \/ outcome = "none"
        /\ launcher # "gone"
    BY <1>1, <1>4, SMTT(30) DEF LauncherInv, Launcher, LauncherRefuses, LauncherSpawns,
       LauncherHandles, LauncherReaps, LauncherInterrupted, LauncherKills
  <2>. QED
    BY <1>1, <2>1, <2>2, SMTT(30)
<1>5. CASE HostLaunches
  BY <1>1, <1>5, SMTT(30) DEF HostLaunches, LauncherInv, audit, work, told
<1>6. CASE HostReady
  BY <1>1, <1>6 DEF HostReady, HostReceives, audit, work, process
<1>7. CASE HostExecutes
  BY <1>1, <1>7, CasesAreKnown
  DEF HostExecutes, audit, work, told, process, TypeOK, KnownCases
<1>8. CASE HostResult
  <2>1. /\ host = "result" /\ toHost # <<>> /\ toHost \in Seq(Frames)
        /\ UNCHANGED <<case, guest, launcher, ledger, upstream, outcome, report>>
    BY <1>1, <1>8 DEF HostResult, HostReceives, TypeOK, audit, work, process
  <2>2. host' \in {"wait", "finally"}
    BY <1>8 DEF HostResult, HostReceives
  <2>3. case \in DOMAIN Wanted /\ case # "missing-protection"
    BY <1>1, <2>1, SMTT(30)
  <2>4. UNCHANGED verdict
    BY <1>8, <2>3, Zenon DEF HostResult, HostReceives
  <2>5. host' = "wait" => Head(toHost).kind = "result" /\ Complete(Head(toHost).body)
    BY <1>8, <2>1 DEF HostResult, HostReceives
  <2>6. Head(toHost) = toHost[1] /\ 1 \in DOMAIN toHost
    BY <2>1
  <2>7. host' = "wait" => guest \in Stopped /\ outcome = Wanted[case] /\ upstream = ledger
    <3>1. host' = "wait" => Head(toHost).body = [what |-> outcome, head |-> ledger] /\ guest \in Stopped
      BY <1>1, <2>5, <2>6 DEF ResultInv
    <3>2. upstream \in Nat /\ ledger \in Nat /\ upstream <= ledger
      BY <1>1, SMTT(30) DEF AuditInv, AckMeansBoth, TypeOK
    <3>3. upstream >= ledger => upstream = ledger
      BY <3>2, SMTT(30)
    <3>4. host' = "wait" => outcome = Wanted[case] /\ upstream >= ledger
      BY <2>5, <3>1, SMTT(30) DEF Complete
    <3>. QED
      BY <3>1, <3>3, <3>4, Zenon
  <2>. QED
    BY <1>1, <2>1, <2>2, <2>3, <2>4, <2>7, SMTT(30)
<1>9. CASE HostTimeout \/ HostWaitTimeout
  BY <1>1, <1>9 DEF HostTimeout, HostWaitTimeout, audit, work, told,
     process, Deadlines
<1>10. CASE HostWaits
  BY <1>1, <1>10 DEF HostWaits, audit, work, process
<1>11. CASE HostCancels
  BY <1>1, <1>11 DEF HostCancels, audit, work, told
<1>12. CASE HostCancelled
  BY <1>1, <1>12 DEF HostCancelled, audit, work, process
<1>13. CASE HostTerminates
  BY <1>1, <1>13 DEF HostTerminates, audit, work, told
<1>14. CASE HostReports
  BY <1>1, <1>14 DEF HostReports, audit, work, process
<1>15. CASE HostGivesUp
  BY <1>1, <1>15 DEF HostGivesUp, CleanupFailed, audit, work, process
<1>16. CASE VMCrash
  BY <1>1, <1>16 DEF VMCrash, audit, work, told
<1>17. CASE LineRepeats
  BY <1>1, <1>17 DEF LineRepeats, audit, work, told, process
<1>18. CASE UNCHANGED vars
  BY <1>1, <1>18 DEF vars, audit, work, told, process
<1>. QED
  BY <1>2, <1>3, <1>4, <1>5, <1>6, <1>7, <1>8, <1>9, <1>10, <1>11, <1>12, <1>13, <1>14, <1>15,
     <1>16, <1>17, <1>18, ZenonT(30) DEF Next, Host

\* The inductive invariant of a session: of run in microvm/integration.py
\* with the guest, the relay and the launcher.
THEOREM SessionInvariant == Spec => []SessionInv
<1>1. SessionInv /\ [Next]_vars => SessionInv'
  <2>. SUFFICES ASSUME SessionInv, [Next]_vars PROVE SessionInv'
    OBVIOUS
  <2>. QED
    BY SessionTypes, SessionLauncher, SessionAudit, SessionWork, SessionResult, SessionHost
       DEF SessionInv
<1>. QED
  BY <1>1, SessionInit, PTL DEF Spec

\* A record the guest takes for acknowledged is in the evidence store of the
\* host and at the remote collector (HostAnchorRelay.handle).
THEOREM AcknowledgedEverywhere == Spec => []AckMeansBoth
<1>1. SessionInv => AckMeansBoth
  BY DEF SessionInv, AuditInv, AckMeansBoth
<1>. QED
  BY <1>1, SessionInvariant, PTL

\* The launcher never ends before its VM, whenever a signal reaches it
\* (supervise in microvm.py).
THEOREM NoVMOutlivesItsLauncher == Spec => []NoOrphanVM
<1>1. SessionInv => NoOrphanVM
  BY SMTT(30) DEF SessionInv, LauncherInv, NoOrphanVM
<1>. QED
  BY <1>1, SessionInvariant, PTL

\* A session reported as passed is over, ran its workload as often as its
\* case says, and has its records in both stores.
THEOREM PassedSessionsAreTrue == Spec => []PassIsTrue
<1>1. SessionInv => PassIsTrue
  BY DEF SessionInv, LauncherInv, AuditInv, AckMeansBoth, WorkInv, HostInv,
     TypeOK, PassIsTrue, Wanted
<1>. QED
  BY <1>1, SessionInvariant, PTL
=============================================================================
