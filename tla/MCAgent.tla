------------------------------ MODULE MCAgent -------------------------------
(***************************************************************************)
(* The governed agent, which is killed and started again, and the egress   *)
(* broker, whose serving loop must outlive its clients.  Their models      *)
(* share no state: each behaviour is of one of them.                       *)
(***************************************************************************)
EXTENDS GovernedAgent, EgressBroker

VARIABLE part  \* "egress" or "agent"

MCInit == part \in {"egress", "agent"} /\ Init /\ EgressInit

MCNext ==
  \/ part = "egress" /\ EgressNext /\ UNCHANGED <<part, vars>>
  \/ part = "agent" /\ Next /\ UNCHANGED <<part, egressVars>>

\* The fairness of the two modules, each in its part.
MCSpec ==
  /\ MCInit /\ [][MCNext]_<<part, vars, egressVars>>
  /\ \A t \in Threads : WF_egressVars(part = "egress" /\ Serving(t))
  /\ \A c \in Clients : WF_egressVars(part = "egress" /\ Send(c))
  /\ \A w \in Workers : WF_vars(part = "agent" /\ Running(w))
  /\ \A reconcile \in BOOLEAN :
       SF_vars(/\ part = "agent" /\ ~Finished
               /\ \E w \in Workers : Start(w, reconcile))

Req(m, s, h) == [method |-> m, scheme |-> s, credentials |-> FALSE, host |-> h]
MCRequests == {Req("GET", "https", "granted"), Req("GET", "http", "granted")}

-----------------------------------------------------------------------------
\* While the broker runs, a client that waits is answered, whoever else connects,
\* unless a client gave up on it or the audit callback fails (_serve in
\* egress_proxy.py).
ClientsServed == part = "egress" => Served

\* A governed agent that is started again and again gets all its steps done.
WorkGetsDone == part = "agent" => WorkFinishes
=============================================================================
