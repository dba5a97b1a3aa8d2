---------------------------- MODULE EgressBroker ----------------------------
(***************************************************************************)
(* The host-side egress gateway of egress_proxy.py: a private socket, one  *)
(* serving thread per start, and for each request the grants, one          *)
(* resolution, and a connection pinned to an address of that resolution.   *)
(* The direct call pinned_https_fetch (pinned_egress.py) runs beside it.   *)
(* Clients may be of another user, may give up, and the broker may be      *)
(* stopped and started; what a name resolves to changes at any time.       *)
(* The loop of SecretBroker is the same code around another request.       *)
(***************************************************************************)
EXTENDS Naturals, FiniteSets, Sequences

CONSTANTS
    Clients,       \* connections made with broker_fetch
    Foreign,       \* those of another user
    Threads,       \* serving threads: one per start
    Direct,        \* the thread that calls pinned_https_fetch
    Requests,      \* records [method, scheme, credentials, host]
    Hosts,         \* allowed_hosts
    Addresses,
    Public         \* the addresses none of the ipaddress tests objects to

ASSUME EgressConstants ==
    /\ Foreign \subseteq Clients /\ Public \subseteq Addresses
    /\ Direct \notin Threads

None == "none"
NoRequest == [method |-> None, scheme |-> None, credentials |-> FALSE, host |-> None]

VARIABLES
    broker,        \* "stopped", "running" or "stopping"
    stop,          \* the _stop event
    client,        \* per client: "new", "queued", "sent", "gone", "quit", "rejected", ...
    request,       \* per client: what it asks for
    thread,        \* per thread: where it is, whose request, what it resolved
    outbound,      \* history: <<request, address>> connected to
    audit,         \* history: <<client, allowed>> emitted
    auditFails     \* the audit callback raises from now on

egressVars == <<broker, stop, client, request, thread, outbound, audit, auditFails>>

Off == [at |-> "off", client |-> None, request |-> NoRequest, ip |-> None]

EgressInit ==
    /\ broker = "stopped" /\ stop = FALSE
    /\ client = [c \in Clients |-> "new"]
    /\ request = [c \in Clients |-> NoRequest]
    /\ thread = [t \in Threads \cup {Direct} |-> Off]
    /\ outbound = {} /\ audit = {}
    /\ auditFails = FALSE

Taken(c) == \E t \in Threads : thread[t].client = c
(* A client that closed its end, after it had sent its request or before.   *)
Gone(c) == client[c] \in {"gone", "quit"}
Waiting(c) == client[c] \in {"queued", "sent"} \/ Gone(c)

(* The connection is closed without an answer. *)
Closed(c) == IF Gone(c) THEN "left" ELSE "reset"

GoesTo(t, at) == thread' = [thread EXCEPT ![t].at = at]

-----------------------------------------------------------------------------
(* start: the path is unlinked and bound privately, the event cleared, and  *)
(* a new thread serves.                                                     *)
StartBroker(t) ==
    /\ broker = "stopped" /\ thread[t].at = "off" /\ thread[Direct] = Off
    /\ broker' = "running"
    /\ stop' = FALSE
    /\ GoesTo(t, "accept")
    /\ UNCHANGED <<client, request, outbound, audit, auditFails>>

(* stop: the server socket goes with whoever is queued on it; the thread is *)
(* joined for two seconds, and may outlive that.                            *)
StopBroker ==
    /\ broker = "running"
    /\ broker' = "stopping"
    /\ stop' = TRUE
    /\ client' = [c \in Clients |-> IF Waiting(c) /\ ~Taken(c) THEN Closed(c) ELSE client[c]]
    /\ UNCHANGED <<request, thread, outbound, audit, auditFails>>

Stopped ==
    /\ broker = "stopping"
    /\ broker' = "stopped"
    /\ UNCHANGED <<stop, client, request, thread, outbound, audit, auditFails>>

-----------------------------------------------------------------------------
(* broker_fetch: connect, send, wait, with a timeout at any point.          *)
Connect(c, r) ==
    /\ client[c] = "new" /\ broker = "running"
    /\ client' = [client EXCEPT ![c] = "queued"]
    /\ request' = [request EXCEPT ![c] = r]
    /\ UNCHANGED <<broker, stop, thread, outbound, audit, auditFails>>

Send(c) ==
    /\ client[c] = "queued"
    /\ client' = [client EXCEPT ![c] = "sent"]
    /\ UNCHANGED <<broker, stop, request, thread, outbound, audit, auditFails>>

GiveUp(c) ==
    /\ client[c] \in {"queued", "sent"}
    /\ client' = [client EXCEPT ![c] = IF @ = "sent" THEN "gone" ELSE "quit"]
    /\ UNCHANGED <<broker, stop, request, thread, outbound, audit, auditFails>>

-----------------------------------------------------------------------------
(* _serve.  A socket that is closed ends the loop, as the event does; a     *)
(* peer of another user is closed (HardeningError) and the loop goes on.    *)
StopsServing(t) ==
    /\ thread[t].at = "accept"
    /\ stop \/ broker = "stopped"
    /\ thread' = [thread EXCEPT ![t] = [Off EXCEPT !.at = "ended"]]
    /\ UNCHANGED <<broker, stop, client, request, outbound, audit, auditFails>>

\* Mutant: a rejected peer ends the loop, like a closed socket.
EndsLoop == "ended"
AfterRejection == "accept"

Accept(t, c) ==
    /\ thread[t].at = "accept" /\ ~stop /\ broker = "running"
    /\ Waiting(c) /\ ~Taken(c)
    /\ IF c \in Foreign
       THEN /\ GoesTo(t, AfterRejection)
            /\ client' = [client EXCEPT ![c] = "rejected"]
       ELSE /\ thread' = [thread EXCEPT ![t] = [at |-> "read", client |-> c,
                                                request |-> request[c], ip |-> None]]
            /\ UNCHANGED client
    /\ UNCHANGED <<broker, stop, request, outbound, audit, auditFails>>

(***************************************************************************)
(* fetch: method, scheme, https, no credentials in the URL, a granted host.*)
(***************************************************************************)
Granted(r) ==
    /\ r.method \in {"GET", "HEAD"}
    /\ r.scheme = "https"
    /\ ~r.credentials
    /\ r.host \in Hosts

Checked(r) == IF Granted(r) THEN "resolve" ELSE "denied"

(* _read_line blocks until the request is there, which outlives the client  *)
(* that sent it, or the end of the stream.                                  *)
Read(t) ==
    /\ thread[t].at = "read"
    /\ \/ /\ client[thread[t].client] \in {"sent", "gone"}
          /\ GoesTo(t, Checked(thread[t].request))
       \/ client[thread[t].client] = "quit" /\ GoesTo(t, "denied")
    /\ UNCHANGED <<broker, stop, client, request, outbound, audit, auditFails>>

(* getaddrinfo may answer anything, and anything else the next time.        *)
(* _resolve_public_addresses refuses the whole answer for one address that  *)
(* is not public; resolve_public_once leaves such addresses out.            *)
Usable(t, answer) ==
    IF t = Direct THEN answer \cap Public
    ELSE IF answer \subseteq Public THEN answer ELSE {}

Resolve(t) ==
    /\ thread[t].at = "resolve"
    /\ \E answer \in SUBSET Addresses :
          IF Usable(t, answer) = {} THEN GoesTo(t, "denied")
          ELSE \E ip \in Usable(t, answer) :
                  thread' = [thread EXCEPT ![t].at = "connect", ![t].ip = ip]
    /\ UNCHANGED <<broker, stop, client, request, outbound, audit, auditFails>>

\* Mutant: the connection resolves the name for itself.
ConnectsByName(t) == Addresses

(* _PinnedHTTPSConnection.connect: the address resolved, not the name.      *)
Destinations(t) == {thread[t].ip}

Dial(t) ==
    /\ thread[t].at = "connect"
    /\ \/ \E ip \in Destinations(t) :
             /\ outbound' = outbound \cup {<<thread[t].request, ip>>}
             /\ GoesTo(t, "response")
       \/ GoesTo(t, "denied") /\ UNCHANGED outbound
    /\ UNCHANGED <<broker, stop, client, request, audit, auditFails>>

(* A redirect is refused, and so is a body one byte over the limit.         *)
Response(t) ==
    /\ thread[t].at = "response"
    /\ \E verdict \in {"fetched", "denied"} : GoesTo(t, verdict)
    /\ UNCHANGED <<broker, stop, client, request, outbound, audit, auditFails>>

(***************************************************************************)
(* The rest of _handle: the event first, then the reply; when the callback *)
(* raises, the event of the refusal is tried instead, and if that raises   *)
(* too the exception leaves _handle and the loop, closing the connection.  *)
(***************************************************************************)
Dies(t) ==
    /\ thread' = [thread EXCEPT ![t] = [Off EXCEPT !.at = "dead"]]
    /\ client' = [client EXCEPT ![thread[t].client] = Closed(thread[t].client)]

\* Mutant: a failing audit callback is ignored.
GoesUnaudited(t) == GoesTo(t, "ok") /\ UNCHANGED client
WithoutAudit(t) ==
    IF thread[t].at = "fetched" THEN GoesTo(t, "denied") /\ UNCHANGED client ELSE Dies(t)

Emit(t) ==
    /\ t # Direct
    /\ thread[t].at \in {"fetched", "denied"}
    /\ IF auditFails
       THEN WithoutAudit(t) /\ UNCHANGED audit
       ELSE /\ audit' = audit \cup {<<thread[t].client, thread[t].at = "fetched">>}
            /\ GoesTo(t, IF thread[t].at = "fetched" THEN "ok" ELSE "error")
            /\ UNCHANGED client
    /\ UNCHANGED <<broker, stop, request, outbound, auditFails>>

(* sendall to a client that is gone raises out of the loop. *)
Reply(t) ==
    LET c == thread[t].client IN
    /\ thread[t].at \in {"ok", "error"}
    /\ IF Gone(c)
       THEN Dies(t)
       ELSE /\ client' = [client EXCEPT ![c] = thread[t].at]
            /\ thread' = [thread EXCEPT ![t] = [Off EXCEPT !.at = "accept"]]
    /\ UNCHANGED <<broker, stop, request, outbound, audit, auditFails>>

(* pinned_https_fetch, called by somebody else: check, resolve, dial, read. *)
(* It shares nothing with a broker, so it is run before there is one.       *)
CallDirect(r) ==
    /\ \A t \in DOMAIN thread : thread[t] = Off
    /\ thread' = [thread EXCEPT ![Direct] = [at |-> Checked(r), client |-> None,
                                             request |-> r, ip |-> None]]
    /\ UNCHANGED <<broker, stop, client, request, outbound, audit, auditFails>>

ReturnDirect ==
    /\ thread[Direct].at \in {"fetched", "denied"}
    /\ thread' = [thread EXCEPT ![Direct] = Off]
    /\ UNCHANGED <<broker, stop, client, request, outbound, audit, auditFails>>

AuditBreaks ==
    /\ ~auditFails /\ auditFails' = TRUE
    /\ UNCHANGED <<broker, stop, client, request, thread, outbound, audit>>

Fetching(t) == Resolve(t) \/ Dial(t) \/ Response(t)

Serving(t) ==
    \/ (\E c \in Clients : Accept(t, c)) \/ Read(t) \/ Fetching(t) \/ Emit(t) \/ Reply(t)
    \/ StopsServing(t)

EgressNext ==
    \/ \E t \in Threads : StartBroker(t) \/ Serving(t)
    \/ StopBroker \/ Stopped
    \/ \E c \in Clients : (\E r \in Requests : Connect(c, r)) \/ Send(c) \/ GiveUp(c)
    \/ \E r \in Requests : CallDirect(r)
    \/ Fetching(Direct) \/ ReturnDirect
    \/ AuditBreaks

(***************************************************************************)
(* Fairness: the serving threads run, every network call has a timeout, so *)
(* a fetch ends, and broker_fetch sends its request once connected.        *)
(***************************************************************************)
EgressSpec ==
    /\ EgressInit /\ [][EgressNext]_egressVars
    /\ \A t \in Threads : WF_egressVars(Serving(t))
    /\ \A c \in Clients : WF_egressVars(Send(c))

-----------------------------------------------------------------------------
(* Every connection out goes to a public address and serves a granted       *)
(* request, however the answers to its name change between the check and    *)
(* the connection (_PinnedHTTPSConnection).                                 *)
OnlyGrantedPublic == \A o \in outbound : Granted(o[1]) /\ o[2] \in Public

(* A client that is told ok was recorded as allowed before it was told, and *)
(* one of another user gets no answer at all (_handle, accept_authenticated).*)
OkIsAudited ==
    \A c \in Clients :
        /\ client[c] = "ok" => <<c, TRUE>> \in audit /\ Granted(request[c])
        /\ c \in Foreign => client[c] \notin {"ok", "error"}

(* While the broker runs, a client that waits is answered, whoever else     *)
(* connects, unless a client gave up on it, or the audit callback fails:    *)
(* those two end the loop (sendall and _emit are outside its handlers).     *)
Served ==
    LET disturbed == broker # "running" \/ auditFails \/ \E c \in Clients : Gone(c) \/ client[c] = "left"
    IN \A c \in Clients :
          client[c] \in {"queued", "sent"} ~> (client[c] \notin {"queued", "sent"} \/ disturbed)

-----------------------------------------------------------------------------
(* Why the two invariants hold: what a thread knows of the request it is    *)
(* working on, at each place it can be.                                     *)
Sites == Threads \cup {Direct}
Busy == {"read", "resolve", "connect", "response", "fetched", "denied", "ok", "error"}
Fates == {"new", "queued", "sent", "gone", "quit", "rejected", "left", "reset", "ok", "error"}

Places ==
    /\ client \in [Clients -> Fates]
    /\ request \in [Clients -> Requests \cup {NoRequest}]
    /\ thread \in [Sites -> [at : Busy \cup {"off", "accept", "ended", "dead"},
                             client : Clients \cup {None},
                             request : Requests \cup {NoRequest},
                             ip : Addresses \cup {None}]]

(* One thread: past the check its request is granted, and past resolution   *)
(* its address is public; what it serves is what its client asked for.      *)
ThreadOK(t) ==
    /\ thread[t].at \in {"resolve", "connect", "response", "fetched", "ok"} => Granted(thread[t].request)
    /\ thread[t].at = "connect" => thread[t].ip \in Public
    /\ thread[t].at = "ok" => t # Direct /\ <<thread[t].client, TRUE>> \in audit
    /\ t # Direct /\ thread[t].at \in Busy =>
          /\ thread[t].client \in Clients \ Foreign
          /\ thread[t].request = request[thread[t].client]
          /\ client[thread[t].client] # "new"

EgressInv == Places /\ (\A t \in Sites : ThreadOK(t)) /\ OnlyGrantedPublic /\ OkIsAudited
=============================================================================
