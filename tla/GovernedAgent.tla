---------------------------- MODULE GovernedAgent ---------------------------
(***************************************************************************)
(* The supervised agent loop of tools/governed_agent.py: a command line    *)
(* program that keeps all it knows in the audit ledger, may die or raise   *)
(* at any step, and is started again, perhaps twice at once and perhaps    *)
(* after its model was replaced.                                           *)
(*                                                                         *)
(* The ledger is the sequence of rows and the number of them the remote    *)
(* collector acknowledged: append_event writes the row, then waits for the *)
(* acknowledgement, and refuses to start while one is missing (AuditLedger *)
(* models how).  Rows that recover does not look at are "note".            *)
(***************************************************************************)
EXTENDS Naturals, Sequences, FiniteSets

CONSTANTS
    Workers,      \* processes started with this deployment
    Steps,        \* args.steps
    Attempts,     \* model requests per step
    MaxFaults     \* bound on crashes, failed calls and expired budgets

Free == "free"

ASSUME AgentAssumption ==
    /\ Steps \in Nat /\ Attempts \in Nat \ {0} /\ MaxFaults \in Nat
    /\ Free \notin Workers

Tools == {"inspect", "checksum"}
NoTool == "none"

VARIABLES
    journal,      \* rows of the ledger
    anchored,     \* how many of them are acknowledged
    lock,         \* holder of agent.lock
    model,        \* identity of the deployed model
    pc,           \* where each process is
    mem,          \* what it holds in memory
    effects,      \* history: <<step, tool>> of every tool run
    faults

vars == <<journal, anchored, lock, model, pc, mem, effects, faults>>

Note == [type |-> "note"]
Identity(id) == [type |-> "identity", id |-> id]
Plan(step, tool) == [type |-> "plan", step |-> step, tool |-> tool]
Result(step, tool) == [type |-> "result", step |-> step, tool |-> tool]

Blank == [model |-> 0, plans |-> <<>>, completed |-> 0, tool |-> NoTool, attempt |-> 0]

Init ==
    /\ journal = <<>> /\ anchored = 0
    /\ lock = Free
    /\ model = 1
    /\ pc = [w \in Workers |-> "off"]
    /\ mem = [w \in Workers |-> Blank]
    /\ effects = <<>>
    /\ faults = 0

-----------------------------------------------------------------------------
Rows(type) == {n \in DOMAIN journal : journal[n].type = type}
Before(type, n) == Cardinality({m \in Rows(type) : m < n})
Count(type) == Cardinality(Rows(type))

(* recover: one identity; plans and results numbered from 0 without a gap,  *)
(* no result without its plan, and at most one plan without its result.     *)
Numbered(type) == \A n \in Rows(type) : journal[n].step = Before(type, n)

WellFormed ==
    /\ Count("identity") <= 1
    /\ Numbered("plan") /\ Numbered("result")
    /\ \A n \in Rows("result") : journal[n].step < Before("plan", n)
    /\ Count("plan") - Count("result") \in {0, 1}

SameIdentity(id) == \A n \in Rows("identity") : journal[n].id = id

(* The plans by their step: plans[step] of the code is Plans[step + 1].     *)
PlanRow(step) == CHOOSE n \in Rows("plan") : journal[n].step = step
Plans == [i \in 1 .. Count("plan") |-> journal[PlanRow(i - 1)].tool]

-----------------------------------------------------------------------------
Goto(w, next) == pc' = [pc EXCEPT ![w] = next]

(* flock with LOCK_NB: a second process gives up at once. *)
Lockable == lock = Free

Start(w, reconcile) ==
    /\ pc[w] = "off" /\ Lockable
    /\ lock' = w
    /\ mem' = [mem EXCEPT ![w] = [Blank EXCEPT !.model = model]]
    /\ Goto(w, IF reconcile THEN "reconcile" ELSE "verify")
    /\ UNCHANGED <<journal, anchored, model, effects, faults>>

\* Mutant: a lock file that survives its process.
KeepsLock == lock
(* The process ends: its lock goes with it. *)
Released == Free

Exit(w) ==
    /\ Goto(w, "off")
    /\ lock' = Released
    /\ mem' = [mem EXCEPT ![w] = Blank]
    /\ UNCHANGED <<journal, anchored, model, effects>>

(* --reconcile: the last row is submitted again; an empty ledger has none.  *)
Reconcile(w) ==
    /\ pc[w] = "reconcile"
    /\ IF journal = <<>>
       THEN Exit(w)
       ELSE /\ anchored' = Len(journal)
            /\ Goto(w, "verify")
            /\ UNCHANGED <<journal, lock, model, mem, effects>>
    /\ UNCHANGED faults

Anchored == anchored = Len(journal)

Refused(w) ==
    /\ pc[w] = "verify"
    /\ ~Anchored \/ ~WellFormed \/ ~SameIdentity(mem[w].model)
    /\ Exit(w)
    /\ UNCHANGED faults

\* Mutant: a planned step counts as done.
CountsPlans == Count("plan")
Completed == Count("result")

Recover(w) ==
    /\ pc[w] = "verify"
    /\ Anchored /\ WellFormed /\ SameIdentity(mem[w].model)
    /\ mem' = [mem EXCEPT ![w].plans = Plans, ![w].completed = Completed]
    /\ Goto(w, IF Rows("identity") = {} THEN "identity" ELSE "start")
    /\ UNCHANGED <<journal, anchored, lock, model, effects, faults>>

(* append_event: the row is written, and waits for its acknowledgement.     *)
Write(w, at, row, next) ==
    /\ pc[w] = at
    /\ Anchored
    /\ journal' = Append(journal, row)
    /\ Goto(w, next)

WriteIdentity(w) ==
    /\ Write(w, "identity", Identity(mem[w].model), "identity+")
    /\ UNCHANGED <<anchored, lock, model, mem, effects, faults>>

WriteStart(w) ==
    /\ Write(w, "start", Note, "start+")
    /\ UNCHANGED <<anchored, lock, model, mem, effects, faults>>

AfterAnchor ==
    [x \in {"identity+", "start+", "recovery+", "retry+", "plan+", "evaluate+",
            "result+", "stop+", "last retry+"} |->
       CASE x = "identity+" -> "start"
         [] x \in {"start+", "result+"} -> "loop"
         [] x \in {"recovery+", "plan+"} -> "dispatch"
         [] x = "retry+" -> "ask"
         [] x = "evaluate+" -> "run"
         [] x = "last retry+" -> "raise"
         [] x = "stop+" -> "done"]

Anchor(w) ==
    /\ pc[w] \in DOMAIN AfterAnchor
    /\ anchored' = Len(journal)
    /\ Goto(w, AfterAnchor[pc[w]])
    /\ mem' = [mem EXCEPT ![w].completed = @ + (IF pc[w] = "result+" THEN 1 ELSE 0)]
    /\ UNCHANGED <<journal, lock, model, effects, faults>>

(***************************************************************************)
(* One turn of the loop: repeat the tool of a plan without a result, or    *)
(* make sure the model is still the same and ask it.                       *)
(***************************************************************************)
Planned(w) == Len(mem[w].plans) > mem[w].completed

Repeats(w) == Planned(w)

TakeUp(w) ==
    /\ mem[w].completed < Steps /\ Repeats(w)
    /\ Write(w, "loop", Note, "recovery+")
    /\ mem' = [mem EXCEPT ![w].tool = mem[w].plans[mem[w].completed + 1]]
    /\ UNCHANGED <<anchored, lock, model, effects, faults>>

CheckModel(w) ==
    /\ pc[w] = "loop" /\ mem[w].completed < Steps /\ ~Repeats(w)
    /\ IF model = mem[w].model
       THEN /\ Goto(w, "ask")
            /\ mem' = [mem EXCEPT ![w].attempt = 0]
            /\ UNCHANGED <<journal, anchored, lock, model, effects>>
       ELSE Exit(w)
    /\ UNCHANGED faults

(* The model's choice is untrusted: any registered tool. *)
Ask(w, tool) ==
    /\ Write(w, "ask", Plan(mem[w].completed, tool), "plan+")
    /\ mem' = [mem EXCEPT ![w].tool = tool, ![w].plans = Append(@, tool)]
    /\ UNCHANGED <<anchored, lock, model, effects, faults>>

(* A failed request or an unusable answer is recorded; the last one raises. *)
Retry(w) ==
    /\ faults < MaxFaults
    /\ faults' = faults + 1
    /\ Write(w, "ask", Note, IF mem[w].attempt + 1 = Attempts THEN "last retry+" ELSE "retry+")
    /\ mem' = [mem EXCEPT ![w].attempt = @ + 1]
    /\ UNCHANGED <<anchored, lock, model, effects>>

Raise(w) ==
    /\ pc[w] = "raise"
    /\ Exit(w)
    /\ UNCHANGED faults

(* dispatcher.execute: the evaluation is recorded, then the tool runs.      *)
Evaluate(w) ==
    /\ Write(w, "dispatch", Note, "evaluate+")
    /\ UNCHANGED <<anchored, lock, model, mem, effects, faults>>

RunTool(w) ==
    /\ pc[w] = "run"
    /\ effects' = Append(effects, <<mem[w].completed, mem[w].tool>>)
    /\ Goto(w, "ran")
    /\ UNCHANGED <<journal, anchored, lock, model, mem, faults>>

WriteResult(w) ==
    /\ Write(w, "ran", Result(mem[w].completed, mem[w].tool), "result+")
    /\ UNCHANGED <<anchored, lock, model, mem, effects, faults>>

(* The steps are done, or the budget of seconds is spent. *)
Stop(w, spent) ==
    /\ IF spent THEN faults < MaxFaults /\ faults' = faults + 1
       ELSE mem[w].completed >= Steps /\ UNCHANGED faults
    /\ Write(w, "loop", Note, "stop+")
    /\ UNCHANGED <<anchored, lock, model, mem, effects>>

Done(w) ==
    /\ pc[w] = "done"
    /\ Exit(w)
    /\ UNCHANGED faults

(* The process dies, or a call raises: a refused or lost acknowledgement,   *)
(* a denied or failed dispatch, the two fault modes of the command line.    *)
Fault(w) ==
    /\ pc[w] # "off" /\ faults < MaxFaults
    /\ faults' = faults + 1
    /\ Exit(w)

(* The model, the tools or the input are replaced. *)
Redeploy ==
    /\ model = 1 /\ faults < MaxFaults
    /\ model' = 2
    /\ faults' = faults + 1
    /\ UNCHANGED <<journal, anchored, lock, pc, mem, effects>>

-----------------------------------------------------------------------------
Running(w) ==
    \/ Reconcile(w) \/ Refused(w) \/ Recover(w) \/ WriteIdentity(w) \/ WriteStart(w) \/ Anchor(w)
    \/ TakeUp(w) \/ CheckModel(w) \/ (\E tool \in Tools : Ask(w, tool))
    \/ Evaluate(w) \/ RunTool(w) \/ WriteResult(w) \/ Stop(w, FALSE) \/ Done(w) \/ Raise(w)

Finished == Count("result") >= Steps /\ \A w \in Workers : pc[w] = "off"

Next ==
    \/ \E w \in Workers :
          \/ \E reconcile \in BOOLEAN : ~Finished /\ Start(w, reconcile)
          \/ Running(w) \/ Retry(w) \/ Stop(w, TRUE) \/ Fault(w)
    \/ Redeploy

(***************************************************************************)
(* Fairness: a running process goes on, and whoever operates the agent     *)
(* starts it again, with and without --reconcile, until its work is done.  *)
(***************************************************************************)
Spec ==
    /\ Init /\ [][Next]_vars
    /\ \A w \in Workers : WF_vars(Running(w))
    /\ \A reconcile \in BOOLEAN :
          SF_vars(\E w \in Workers : ~Finished /\ Start(w, reconcile))

-----------------------------------------------------------------------------
(* A tool runs only for the first step without a durable result, and always *)
(* the tool that the acknowledged plan of that step names: a repetition     *)
(* after a crash never becomes another action and nothing durable is redone.*)
RunsFollowJournal ==
    [][effects' # effects =>
          LET run == effects'[Len(effects')] IN
          /\ run[1] = Count("result")
          /\ \E n \in 1 .. anchored : journal[n] = Plan(run[1], run[2])]_vars

(* If the deployment is not replaced, all steps get their results, however  *)
(* the finitely many faults fall.                                           *)
WorkFinishes == <>(Count("result") >= Steps \/ model # 1)

-----------------------------------------------------------------------------
(* Why RunsFollowJournal holds.  The process that holds the lock knows the  *)
(* journal: how many results it has and which tool each plan names; and     *)
(* whenever it waits for no acknowledgement, every row is acknowledged.     *)
Acked == {"identity", "start", "loop", "ask", "dispatch", "run", "ran", "raise", "done"}
Recovered == Acked \cup DOMAIN AfterAnchor
Asking == {"ask", "retry+"}
Dispatching == {"recovery+", "plan+", "dispatch", "evaluate+", "run", "ran", "result+"}

Entries ==
    [type : {"note"}] \cup [type : {"identity"}, id : Nat]
    \cup [type : {"plan"}, step : Nat, tool : Tools]
    \cup [type : {"result"}, step : Nat, tool : Tools]

Memory == [model : Nat, plans : Seq(Tools), completed : Nat, tool : Tools \cup {NoTool}, attempt : Nat]

TypeOK ==
    /\ journal \in Seq(Entries)
    /\ anchored \in 0 .. Len(journal)
    /\ model \in Nat
    /\ pc \in [Workers -> Recovered \cup {"off", "reconcile", "verify"}]
    /\ mem \in [Workers -> Memory]
    /\ effects \in Seq(Nat \X (Tools \cup {NoTool}))

PlansNumbered == \A step \in 0 .. Count("plan") - 1 : \E n \in Rows("plan") : journal[n].step = step

KnowsJournal(w) ==
    /\ Len(mem[w].plans) = Count("plan")
    /\ \A i \in 1 .. Len(mem[w].plans) :
          \E n \in DOMAIN journal : journal[n] = Plan(i - 1, mem[w].plans[i])
    /\ Count("result") = mem[w].completed + (IF pc[w] = "result+" THEN 1 ELSE 0)
    /\ Count("result") <= Count("plan")

WorkerOK(w) ==
    /\ pc[w] # "off" => lock = w
    /\ pc[w] \in Recovered => KnowsJournal(w)
    /\ pc[w] \in Acked => anchored = Len(journal)
    /\ pc[w] \in Asking => mem[w].completed = Len(mem[w].plans)
    /\ pc[w] \in Dispatching => /\ mem[w].completed < Len(mem[w].plans)
                                /\ mem[w].tool = mem[w].plans[mem[w].completed + 1]

AgentInv == TypeOK /\ PlansNumbered /\ \A w \in Workers : WorkerOK(w)
=============================================================================
