---------------------------- MODULE AgentProofs -----------------------------
(***************************************************************************)
(* The governed agent runs tools in the order its journal says, for any    *)
(* number of workers, steps, attempts and faults.  What a worker knows is  *)
(* a function of the journal while it holds the lock, and the plans in the *)
(* journal are numbered by the plans before them.  Last, the two-button    *)
(* machine of the approval device: its marks tell the truth about the      *)
(* samples, for any debounce, hold and time limits.                        *)
(***************************************************************************)
EXTENDS GovernedAgent, FiniteSetTheorems, ButtonMachine, TLAPS

\* An agent that was never started has an empty journal and no worker.
LEMMA AgentInit == Init => AgentInv
<1>. SUFFICES ASSUME Init PROVE AgentInv
  OBVIOUS
<1>1. TypeOK
  BY DEF Init, TypeOK, Blank, Memory, NoTool
<1>2. Rows("plan") = {}
  BY DEF Init, Rows
<1>3. Count("plan") = 0
  BY <1>2, FS_EmptySet DEF Count
<1>4. PlansNumbered
  BY <1>3 DEF PlansNumbered
<1>5. ASSUME NEW w \in Workers PROVE WorkerOK(w)
  BY <1>5 DEF Init, WorkerOK, Recovered, Acked, Dispatching, Asking, AfterAnchor
<1>. QED
  BY <1>1, <1>4, <1>5 DEF AgentInv

\* The rows of a type are finitely many rows of the journal.
LEMMA CountTyped ==
  ASSUME journal \in Seq(Entries), NEW type
  PROVE  /\ IsFiniteSet(Rows(type)) /\ Count(type) \in Nat
         /\ Rows(type) \subseteq 1 .. Len(journal)
<1>1. Rows(type) \subseteq 1 .. Len(journal)
  BY DEF Rows
<1>2. IsFiniteSet(1 .. Len(journal))
  BY FS_Interval
<1>. QED
  BY <1>1, <1>2, FS_Subset, FS_CardinalityType DEF Count

\* A row that is written is one more of its type and of no other.
LEMMA CountAppend ==
  ASSUME journal \in Seq(Entries), NEW row \in Entries,
         journal' = Append(journal, row), NEW type
  PROVE  /\ Rows(type)' = IF row.type = type THEN Rows(type) \cup {Len(journal) + 1}
                                                   ELSE Rows(type)
         /\ Count(type)' = IF row.type = type THEN Count(type) + 1 ELSE Count(type)
<1>1. /\ DOMAIN journal' = (DOMAIN journal) \cup {Len(journal) + 1}
      /\ \A n \in DOMAIN journal : journal'[n] = journal[n]
      /\ journal'[Len(journal) + 1] = row
  OBVIOUS
<1>2. Rows(type)' = IF row.type = type THEN Rows(type) \cup {Len(journal) + 1}
                                              ELSE Rows(type)
  BY <1>1 DEF Rows
<1>3. Len(journal) + 1 \notin Rows(type)
  BY DEF Rows
<1>4. IsFiniteSet(Rows(type))
  BY CountTyped
<1>5. Cardinality(Rows(type) \cup {Len(journal) + 1}) = Cardinality(Rows(type)) + 1
  BY <1>3, <1>4, FS_AddElement, Zenon
<1>6. /\ Count(type) = Cardinality(Rows(type))
      /\ Count(type)' = Cardinality(Rows(type)')
  BY DEF Count
<1>. QED
  BY <1>2, <1>5, <1>6

\* A step of the worker that holds the lock changes nothing another worker is
\* trusted with.
LEMMA Alone ==
  ASSUME AgentInv, NEW w \in Workers, pc[w] # "off",
         NEW next \in Recovered \cup {"off", "reconcile", "verify"},
         Goto(w, next),
         NEW mine \in Memory, mem' = [mem EXCEPT ![w] = mine],
         WorkerOK(w)'
  PROVE  /\ \A v \in Workers : WorkerOK(v)'
         /\ pc' \in [Workers -> Recovered \cup {"off", "reconcile", "verify"}]
         /\ mem' \in [Workers -> Memory]
<1>1. ASSUME NEW v \in Workers, v # w PROVE WorkerOK(v)'
  <2>1. pc[v] = "off"
    BY <1>1 DEF AgentInv, WorkerOK
  <2>2. pc'[v] = "off"
    BY <1>1, <2>1 DEF Goto, AgentInv, TypeOK
  <2>. QED
    BY <2>2 DEF WorkerOK, Recovered, Acked, Dispatching, Asking, AfterAnchor
<1>. QED
  BY <1>1 DEF Goto, AgentInv, TypeOK

\* A worker that leaves, or dies, lets go of the lock and of what it knew.
LEMMA Exits ==
  ASSUME AgentInv, NEW w \in Workers, pc[w] # "off", Exit(w)
  PROVE  AgentInv'
<1>1. /\ UNCHANGED <<journal, anchored, model, effects>> /\ Goto(w, "off")
      /\ mem' = [mem EXCEPT ![w] = Blank] /\ Blank \in Memory
  BY DEF Exit, Blank, Memory
<1>2. pc'[w] = "off"
  BY <1>1 DEF Goto, AgentInv, TypeOK
<1>3. WorkerOK(w)'
  BY <1>2 DEF WorkerOK, Recovered, Acked, Dispatching, Asking, AfterAnchor
<1>4. PlansNumbered'
  BY <1>1 DEF AgentInv, PlansNumbered, Count, Rows
<1>. QED
  BY <1>1, <1>3, <1>4, Alone, Zenon DEF AgentInv, TypeOK

\* A plan numbered by the plans before it keeps the plans numbered.
LEMMA NumberedAppend ==
  ASSUME TypeOK, PlansNumbered, NEW row \in Entries,
         journal' = Append(journal, row),
         row.type = "plan" => row.step = Count("plan")
  PROVE  PlansNumbered' /\ journal' \in Seq(Entries) /\ Len(journal') = Len(journal) + 1
<1>. DEFINE plans == Rows("plan")
<1>1. /\ journal \in Seq(Entries) /\ Count("plan") \in Nat
      /\ plans \subseteq 1 .. Len(journal)
  BY CountTyped DEF TypeOK
<1>2. \A n \in 1 .. Len(journal) : journal'[n] = journal[n]
  BY <1>1
<1>3. journal'[Len(journal) + 1] = row
  BY <1>1
<1>4. ASSUME NEW step \in 0 .. Count("plan")' - 1
      PROVE  \E n \in Rows("plan")' : journal'[n].step = step
  <2>1. CASE row.type = "plan" /\ step = Count("plan")
    BY <1>1, <1>3, <2>1, CountAppend
  <2>2. CASE ~(row.type = "plan" /\ step = Count("plan"))
    <3>1. step \in 0 .. Count("plan") - 1
      BY <1>1, <1>4, <2>2, CountAppend
    <3>2. PICK n \in plans : journal[n].step = step
      BY <3>1 DEF PlansNumbered
    <3>3. plans \subseteq Rows("plan")'
      BY <1>1, CountAppend
    <3>. QED
      BY <1>1, <1>2, <3>2, <3>3
  <2>. QED
    BY <2>1, <2>2, Zenon
<1>5. PlansNumbered'
  BY <1>4, Zenon DEF PlansNumbered
<1>. QED
  BY <1>1, <1>5

\* A row that is neither a plan nor a result leaves what a worker knows true.
LEMMA KnowsMore ==
  ASSUME TypeOK, NEW w \in Workers, KnowsJournal(w),
         NEW row \in Entries, row.type \notin {"plan", "result"},
         journal' = Append(journal, row),
         mem'[w].plans = mem[w].plans, mem'[w].completed = mem[w].completed,
         pc[w] # "result+", pc'[w] # "result+"
  PROVE  KnowsJournal(w)'
<1>1. journal \in Seq(Entries)
  BY DEF TypeOK
<1>2. Count("plan")' = Count("plan") /\ Count("result")' = Count("result")
  BY <1>1, CountAppend
<1>3. ASSUME NEW i \in 1 .. Len(mem[w].plans)
      PROVE  \E n \in DOMAIN journal' : journal'[n] = Plan(i - 1, mem[w].plans[i])
  <2>1. PICK n \in DOMAIN journal : journal[n] = Plan(i - 1, mem[w].plans[i])
    BY <1>3 DEF KnowsJournal
  <2>2. n \in DOMAIN journal' /\ journal'[n] = journal[n]
    BY <1>1
  <2>. QED
    BY <2>1, <2>2
<1>. QED
  BY <1>2, <1>3 DEF KnowsJournal, Plan

\* A worker that notes something other than a plan or a result keeps the
\* invariant.
LEMMA Notes ==
  ASSUME AgentInv, NEW w \in Workers,
         NEW at \in Acked, NEW next \in (DOMAIN AfterAnchor) \ {"result+"},
         NEW row \in Entries, row.type \notin {"plan", "result"},
         Write(w, at, row, next),
         NEW mine \in Memory, mem' = [mem EXCEPT ![w] = mine],
         mine.plans = mem[w].plans, mine.completed = mem[w].completed,
         next = "retry+" => mine.completed = Len(mine.plans),
         next \in Dispatching => /\ mine.completed < Len(mine.plans)
                                       /\ mine.tool = mine.plans[mine.completed + 1],
         UNCHANGED <<anchored, lock, model, effects>>
  PROVE  AgentInv'
<1>1. pc[w] = at /\ journal' = Append(journal, row) /\ Goto(w, next)
  BY DEF Write
<1>2. TypeOK /\ WorkerOK(w) /\ PlansNumbered
  BY DEF AgentInv
<1>3. pc'[w] = next /\ mem'[w] = mine
  BY <1>1, <1>2 DEF Goto, TypeOK
<1>4. /\ at \in Recovered /\ at # "off" /\ at # "result+"
      /\ next \in Recovered /\ next \notin Acked /\ next # "result+"
      /\ next \in Asking => next = "retry+"
  BY DEF Recovered, Acked, Asking, AfterAnchor
<1>5. KnowsJournal(w)
  BY <1>1, <1>2, <1>4, Zenon DEF WorkerOK
<1>6. KnowsJournal(w)'
  BY <1>1, <1>2, <1>3, <1>4, <1>5, KnowsMore, Zenon
<1>7. WorkerOK(w)'
  BY <1>1, <1>2, <1>3, <1>4, <1>6, Zenon DEF WorkerOK
<1>8. PlansNumbered' /\ journal' \in Seq(Entries) /\ Len(journal') = Len(journal) + 1
  BY <1>1, <1>2, NumberedAppend, Zenon
<1>9. /\ \A v \in Workers : WorkerOK(v)'
      /\ pc' \in [Workers -> Recovered \cup {"off", "reconcile", "verify"}]
      /\ mem' \in [Workers -> Memory]
  BY <1>1, <1>4, <1>7, Alone, Zenon
<1>. QED
  BY <1>2, <1>8, <1>9 DEF AgentInv, TypeOK

\* Anchoring the journal makes its last row durable and moves the worker on,
\* past a result with one more step completed.
LEMMA Anchors ==
  ASSUME AgentInv, NEW w \in Workers, Anchor(w)
  PROVE  AgentInv'
<1>. DEFINE next == AfterAnchor[pc[w]]
            more == IF pc[w] = "result+" THEN 1 ELSE 0
            mine == [mem[w] EXCEPT !.completed = mem[w].completed + more]
<1>1. TypeOK /\ WorkerOK(w) /\ PlansNumbered
  BY DEF AgentInv
<1>2. mem[w] \in Memory /\ more \in {0, 1} /\ (more = 1 <=> pc[w] = "result+")
  BY <1>1 DEF TypeOK
<1>3. /\ mem' = [mem EXCEPT ![w] = mine]
      /\ anchored' = Len(journal) /\ Goto(w, next)
      /\ UNCHANGED <<journal, lock, model, effects>>
  BY <1>1 DEF Anchor, TypeOK
<1>4. /\ mine \in Memory
      /\ mine.plans = mem[w].plans /\ mine.tool = mem[w].tool
      /\ mine.completed = mem[w].completed + more
  BY <1>2 DEF Memory
<1>5. pc[w] \in DOMAIN AfterAnchor
  BY DEF Anchor
<1>6. /\ next \in Acked /\ next \in Recovered /\ next # "result+"
      /\ next \in Dispatching => pc[w] \in Dispatching /\ pc[w] # "result+"
      /\ next \in Asking => pc[w] \in Asking /\ pc[w] # "result+"
  BY <1>5 DEF Asking, Acked, Recovered, Dispatching, AfterAnchor
<1>7. /\ pc[w] \in Recovered /\ pc[w] # "off"
  BY <1>5 DEF Recovered, AfterAnchor
<1>. HIDE DEF next, mine, more
<1>8. pc'[w] = next /\ mem'[w] = mine
  BY <1>1, <1>3 DEF Goto, TypeOK
<1>9. Count("plan")' = Count("plan") /\ Count("result")' = Count("result")
  BY <1>3, Zenon DEF Count, Rows
<1>10. KnowsJournal(w)
  BY <1>1, <1>7 DEF WorkerOK
<1>11. KnowsJournal(w)'
  <2>1. Count("result") = mine.completed
    BY <1>2, <1>4, <1>10 DEF KnowsJournal
  <2>2. mine.completed \in Nat /\ pc'[w] # "result+"
    BY <1>4, <1>6, <1>8 DEF Memory
  <2>3. ASSUME NEW i \in 1 .. Len(mine.plans)
        PROVE  \E n \in DOMAIN journal' : journal'[n] = Plan(i - 1, mine.plans[i])
    BY <1>3, <1>4, <1>10, Zenon DEF KnowsJournal
  <2>4. Len(mine.plans) = Count("plan")' /\ Count("result") <= Count("plan")
    BY <1>4, <1>9, <1>10 DEF KnowsJournal
  <2>. QED
    BY <1>8, <1>9, <2>1, <2>2, <2>3, <2>4 DEF KnowsJournal, Plan
<1>12. WorkerOK(w)'
  <2>1. next \in Dispatching \cup Asking => mine.completed = mem[w].completed
    BY <1>2, <1>4, <1>6 DEF Memory
  <2>. QED
    BY <1>1, <1>3, <1>4, <1>6, <1>7, <1>8, <1>11, <2>1, Zenon DEF WorkerOK
<1>13. PlansNumbered'
  BY <1>1, <1>3, Zenon DEF PlansNumbered, Count, Rows
<1>14. /\ \A v \in Workers : WorkerOK(v)'
       /\ pc' \in [Workers -> Recovered \cup {"off", "reconcile", "verify"}]
       /\ mem' \in [Workers -> Memory]
  BY <1>3, <1>4, <1>6, <1>7, <1>12, Alone, Zenon
<1>. QED
  BY <1>1, <1>3, <1>13, <1>14 DEF AgentInv, TypeOK

\* recover rebuilds from the journal the plans and the number of completed
\* steps.
LEMMA Recovers ==
  ASSUME AgentInv, NEW w \in Workers, Recover(w)
  PROVE  AgentInv'
<1>. DEFINE mine == [mem[w] EXCEPT !.plans = Plans, !.completed = Completed]
            next == IF Rows("identity") = {} THEN "identity" ELSE "start"
<1>1. TypeOK /\ WorkerOK(w) /\ PlansNumbered /\ mem[w] \in Memory
  BY DEF AgentInv, TypeOK
<1>2. Count("plan") \in Nat /\ Count("result") \in Nat
  BY <1>1, CountTyped DEF TypeOK
<1>3. ASSUME NEW i \in 1 .. Count("plan")
      PROVE  /\ PlanRow(i - 1) \in DOMAIN journal
             /\ journal[PlanRow(i - 1)] = Plan(i - 1, Plans[i])
             /\ Plans[i] \in Tools
  <2>. DEFINE n == PlanRow(i - 1)
  <2>1. i - 1 \in 0 .. Count("plan") - 1
    BY <1>2
  <2>2. \E row \in Rows("plan") : journal[row].step = i - 1
    BY <1>1, <2>1 DEF PlansNumbered
  <2>3. n \in Rows("plan") /\ journal[n].step = i - 1
    BY <2>2 DEF PlanRow
  <2>4. Plans[i] = journal[n].tool
    BY DEF Plans
  <2>. HIDE DEF n
  <2>5. n \in DOMAIN journal /\ journal[n].type = "plan" /\ journal[n] \in Entries
    BY <1>1, <2>3 DEF Rows, TypeOK
  <2>6. journal[n] \in [type : {"plan"}, step : Nat, tool : Tools]
    BY <2>5 DEF Entries
  <2>7. journal[n] = Plan(i - 1, journal[n].tool)
    BY <2>3, <2>6 DEF Plan
  <2>. QED
    BY <2>4, <2>5, <2>6, <2>7 DEF n
<1>4. /\ Plans \in Seq(Tools) /\ Len(Plans) = Count("plan")
  BY <1>2, <1>3 DEF Plans
<1>5. /\ mem' = [mem EXCEPT ![w] = mine] /\ Goto(w, next)
      /\ pc[w] = "verify" /\ anchored = Len(journal) /\ WellFormed
      /\ UNCHANGED <<journal, anchored, lock, model, effects>>
  BY <1>1, Zenon DEF Recover, TypeOK, Anchored
<1>6. /\ mine \in Memory
      /\ mine.plans = Plans /\ mine.completed = Count("result")
  BY <1>1, <1>2, <1>4, Zenon DEF Memory, Completed
<1>7. next \in {"identity", "start"}
  OBVIOUS
<1>. HIDE DEF mine, next
<1>8. pc'[w] = next /\ mem'[w] = mine
  BY <1>1, <1>5 DEF Goto, TypeOK
<1>9. Count("plan")' = Count("plan") /\ Count("result")' = Count("result")
  BY <1>5 DEF Count, Rows
<1>10. Count("result") <= Count("plan")
  BY <1>2, <1>5 DEF WellFormed
<1>11. KnowsJournal(w)'
  <2>1. ASSUME NEW i \in 1 .. Len(mine.plans)
        PROVE  \E n \in DOMAIN journal' : journal'[n] = Plan(i - 1, mine.plans[i])
    BY <1>3, <1>4, <1>5, <1>6
  <2>. QED
    BY <1>2, <1>4, <1>6, <1>7, <1>8, <1>9, <1>10, <2>1 DEF KnowsJournal, Plan
<1>12. WorkerOK(w)'
  BY <1>1, <1>5, <1>7, <1>8, <1>11, Zenon DEF WorkerOK, Dispatching, Asking
<1>13. PlansNumbered'
  BY <1>1, <1>5, Zenon DEF PlansNumbered, Count, Rows
<1>14. next \in Recovered
  BY <1>7 DEF Recovered, Acked
<1>15. /\ \A v \in Workers : WorkerOK(v)'
       /\ pc' \in [Workers -> Recovered \cup {"off", "reconcile", "verify"}]
       /\ mem' \in [Workers -> Memory]
  BY <1>5, <1>6, <1>12, <1>14, Alone, Zenon
<1>. QED
  BY <1>1, <1>5, <1>13, <1>15 DEF AgentInv, TypeOK

\* A plan the model returns is written with the number of plans before it.
LEMMA Asks ==
  ASSUME AgentInv, NEW w \in Workers, NEW tool \in Tools, Ask(w, tool)
  PROVE  AgentInv'
<1>. DEFINE mine == [mem[w] EXCEPT !.tool = tool, !.plans = Append(mem[w].plans, tool)]
            done == mem[w].completed
            row == Plan(done, tool)
<1>1. TypeOK /\ WorkerOK(w) /\ PlansNumbered /\ mem[w] \in Memory
  BY DEF AgentInv, TypeOK
<1>2. /\ pc[w] = "ask" /\ journal' = Append(journal, row) /\ Goto(w, "plan+")
      /\ mem' = [mem EXCEPT ![w] = mine]
      /\ UNCHANGED <<anchored, lock, model, effects>>
  BY <1>1, Zenon DEF Ask, Write, TypeOK
<1>3. /\ mem[w].plans \in Seq(Tools) /\ done \in Nat
      /\ journal \in Seq(Entries)
  BY <1>1 DEF Memory, TypeOK
<1>4. /\ mine \in Memory /\ mine.tool = tool /\ mine.completed = done
      /\ mine.plans = Append(mem[w].plans, tool)
  <2>1. Append(mem[w].plans, tool) \in Seq(Tools)
    BY <1>3
  <2>. DEFINE longer == Append(mem[w].plans, tool)
  <2>2. mine = [mem[w] EXCEPT !.tool = tool, !.plans = longer]
    OBVIOUS
  <2>. HIDE DEF longer, mine
  <2>3. longer \in Seq(Tools)
    BY <2>1 DEF longer
  <2>4. /\ mine \in Memory /\ mine.tool = tool /\ mine.completed = done
        /\ mine.plans = longer
    BY <1>1, <2>2, <2>3, Zenon DEF Memory
  <2>. QED
    BY <2>4 DEF longer
<1>5. row \in Entries /\ row.type = "plan" /\ row.step = done
  BY <1>3 DEF Entries, Plan
<1>6. KnowsJournal(w)
  BY <1>1, <1>2 DEF WorkerOK, Recovered, Acked
<1>. HIDE DEF mine
<1>7. pc'[w] = "plan+" /\ mem'[w] = mine
  BY <1>1, <1>2 DEF Goto, TypeOK
<1>8. Count("plan")' = Count("plan") + 1 /\ Count("result")' = Count("result")
  BY <1>2, <1>3, <1>5, CountAppend
<1>9. Count("plan") \in Nat /\ Count("result") \in Nat
  BY <1>3, CountTyped
<1>10. done = Len(mem[w].plans)
  BY <1>1, <1>2, Zenon DEF WorkerOK, Asking
<1>11. done = Count("plan") /\ Count("result") = done
  BY <1>2, <1>3, <1>6, <1>10 DEF KnowsJournal
<1>. HIDE DEF done
<1>12. KnowsJournal(w)'
  <2>1. Len(mine.plans) = done + 1
    BY <1>3, <1>4, <1>10
  <2>2. ASSUME NEW i \in 1 .. Len(mine.plans)
        PROVE  \E n \in DOMAIN journal' : journal'[n] = Plan(i - 1, mine.plans[i])
    <3>1. CASE i = done + 1
      <4>1. mine.plans[i] = tool /\ i - 1 = done
        BY <1>3, <1>4, <1>10, <3>1
      <4>2. Len(journal) + 1 \in DOMAIN journal' /\ journal'[Len(journal) + 1] = row
        BY <1>2, <1>3, <1>5
      <4>. QED
        BY <4>1, <4>2
    <3>2. CASE i # done + 1
      <4>1. i \in 1 .. Len(mem[w].plans) /\ mine.plans[i] = mem[w].plans[i]
        BY <1>3, <1>4, <1>10, <2>1, <3>2
      <4>2. PICK n \in DOMAIN journal : journal[n] = Plan(i - 1, mem[w].plans[i])
        BY <1>6, <4>1 DEF KnowsJournal
      <4>3. n \in DOMAIN journal' /\ journal'[n] = journal[n]
        BY <1>2, <1>3, <1>5
      <4>. QED
        BY <4>1, <4>2, <4>3
    <3>. QED
      BY <3>1, <3>2
  <2>3. Len(mine.plans) = Count("plan")' /\ Count("result")' = mine.completed
    BY <1>4, <1>8, <1>11, <2>1
  <2>4. Count("result")' <= Count("plan")'
    BY <1>8, <1>9, <1>11
  <2>5. mine.completed \in Nat
    BY <1>4 DEF Memory
  <2>. QED
    BY <1>7, <2>2, <2>3, <2>4, <2>5 DEF KnowsJournal, Plan
<1>13. WorkerOK(w)'
  <2>1. mine.completed < Len(mine.plans) /\ mine.plans[mine.completed + 1] = tool
    BY <1>3, <1>4, <1>10
  <2>2. lock' = w
    BY <1>1, <1>2 DEF WorkerOK
  <2>. QED
    BY <1>4, <1>7, <1>12, <2>1, <2>2, Zenon DEF WorkerOK, Asking, Acked
<1>14. PlansNumbered' /\ journal' \in Seq(Entries) /\ Len(journal') = Len(journal) + 1
  BY <1>1, <1>2, <1>5, <1>11, NumberedAppend
<1>15. "plan+" \in Recovered
  BY DEF Recovered, AfterAnchor
<1>16. /\ \A v \in Workers : WorkerOK(v)'
       /\ pc' \in [Workers -> Recovered \cup {"off", "reconcile", "verify"}]
       /\ mem' \in [Workers -> Memory]
  BY <1>2, <1>4, <1>13, <1>15, Alone, Zenon
<1>. QED
  BY <1>1, <1>2, <1>14, <1>16 DEF AgentInv, TypeOK

\* A result is written by the worker that ran the step, for the step it ran.
LEMMA Reports ==
  ASSUME AgentInv, NEW w \in Workers, WriteResult(w)
  PROVE  AgentInv'
<1>. DEFINE row == Result(mem[w].completed, mem[w].tool)
<1>1. TypeOK /\ WorkerOK(w) /\ PlansNumbered /\ mem[w] \in Memory
  BY DEF AgentInv, TypeOK
<1>2. /\ pc[w] = "ran" /\ journal' = Append(journal, row) /\ Goto(w, "result+")
      /\ UNCHANGED <<anchored, lock, model, mem, effects>>
  BY <1>1 DEF WriteResult, Write
<1>3. KnowsJournal(w) /\ lock = w
  BY <1>1, <1>2 DEF WorkerOK, Recovered, Acked
<1>4. /\ mem[w].completed < Len(mem[w].plans)
      /\ mem[w].tool = mem[w].plans[mem[w].completed + 1]
  BY <1>1, <1>2 DEF WorkerOK, Dispatching
<1>5. mem[w].plans \in Seq(Tools) /\ mem[w].completed \in Nat /\ journal \in Seq(Entries)
  BY <1>1 DEF Memory, TypeOK
<1>6. row \in Entries /\ row.type = "result"
  <2>1. mem[w].tool \in Tools
    BY <1>4, <1>5
  <2>. QED
    BY <1>5, <2>1 DEF Entries, Result
<1>. HIDE DEF row
<1>7. pc'[w] = "result+" /\ mem' = [mem EXCEPT ![w] = mem[w]] /\ mem'[w] = mem[w]
  BY <1>1, <1>2 DEF Goto, TypeOK
<1>8. Count("plan")' = Count("plan") /\ Count("result")' = Count("result") + 1
  BY <1>2, <1>5, <1>6, CountAppend
<1>9. Count("plan") \in Nat /\ Count("result") \in Nat
  BY <1>5, CountTyped
<1>10. KnowsJournal(w)'
  <2>1. ASSUME NEW i \in 1 .. Len(mem[w].plans)
        PROVE  \E n \in DOMAIN journal' : journal'[n] = Plan(i - 1, mem[w].plans[i])
    <3>1. PICK n \in DOMAIN journal : journal[n] = Plan(i - 1, mem[w].plans[i])
      BY <1>3 DEF KnowsJournal
    <3>2. n \in DOMAIN journal' /\ journal'[n] = journal[n]
      BY <1>2, <1>5, <1>6
    <3>. QED
      BY <3>1, <3>2
  <2>2. Count("result") = mem[w].completed /\ Len(mem[w].plans) = Count("plan")
    BY <1>2, <1>3, <1>5 DEF KnowsJournal
  <2>. QED
    BY <1>4, <1>5, <1>7, <1>8, <1>9, <2>1, <2>2 DEF KnowsJournal, Plan
<1>11. WorkerOK(w)'
  BY <1>2, <1>3, <1>4, <1>7, <1>10 DEF WorkerOK, Asking, Acked
<1>12. PlansNumbered' /\ journal' \in Seq(Entries) /\ Len(journal') = Len(journal) + 1
  BY <1>1, <1>2, <1>6, NumberedAppend
<1>13. "result+" \in Recovered
  BY DEF Recovered, AfterAnchor
<1>14. /\ \A v \in Workers : WorkerOK(v)'
       /\ pc' \in [Workers -> Recovered \cup {"off", "reconcile", "verify"}]
       /\ mem' \in [Workers -> Memory]
  BY <1>1, <1>2, <1>7, <1>11, <1>13, Alone, Zenon
<1>. QED
  BY <1>1, <1>2, <1>12, <1>14 DEF AgentInv, TypeOK

\* A worker that notes something and remembers nothing new keeps the
\* invariant.
LEMMA PlainNotes ==
  ASSUME AgentInv, NEW w \in Workers,
         NEW at \in Acked, NEW next \in (DOMAIN AfterAnchor) \ {"result+", "retry+"},
         NEW row \in Entries, row.type \notin {"plan", "result"},
         Write(w, at, row, next),
         next \in Dispatching => /\ mem[w].completed < Len(mem[w].plans)
                                       /\ mem[w].tool = mem[w].plans[mem[w].completed + 1],
         UNCHANGED <<anchored, lock, model, mem, effects>>
  PROVE  AgentInv'
<1>. DEFINE mine == mem[w]
<1>1. mine \in Memory /\ mem' = [mem EXCEPT ![w] = mine]
  BY DEF AgentInv, TypeOK
<1>2. /\ mine.plans = mem[w].plans /\ mine.completed = mem[w].completed
      /\ next \in Dispatching => /\ mine.completed < Len(mine.plans)
                                       /\ mine.tool = mine.plans[mine.completed + 1]
  OBVIOUS
<1>3. /\ next \in (DOMAIN AfterAnchor) \ {"result+"}
      /\ next = "retry+" => mine.completed = Len(mine.plans)
      /\ UNCHANGED <<anchored, lock, model, effects>>
  OBVIOUS
<1>. HIDE DEF mine
<1>. QED
  BY <1>1, <1>2, <1>3, Notes, Zenon

\* Every step of every worker, with faults at any of them, keeps the
\* invariant.
LEMMA AgentNext == AgentInv /\ [Next]_vars => AgentInv'
<1>. SUFFICES ASSUME AgentInv, [Next]_vars PROVE AgentInv'
  OBVIOUS
<1>1. TypeOK /\ PlansNumbered /\ (\A w \in Workers : WorkerOK(w))
  BY DEF AgentInv
<1>2. Note \in Entries /\ Note.type = "note"
  BY DEF Entries, Note
<1>3. ASSUME NEW w \in Workers
      PROVE  mem[w] \in Memory /\ mem = [mem EXCEPT ![w] = mem[w]]
  BY <1>1 DEF TypeOK
<1>4. ASSUME NEW w \in Workers, NEW reconcile \in BOOLEAN, Start(w, reconcile)
      PROVE  AgentInv'
  <2>. DEFINE mine == [Blank EXCEPT !.model = model]
  <2>1. PICK next \in {"reconcile", "verify"} : Goto(w, next)
    BY <1>4 DEF Start
  <2>2. /\ mem' = [mem EXCEPT ![w] = mine] /\ lock = "free" /\ lock' = w /\ pc[w] = "off"
        /\ UNCHANGED <<journal, anchored, model, effects>>
    BY <1>4 DEF Start, Lockable, Free
  <2>3. mine \in Memory
    <3>1. mine = [model |-> model, plans |-> <<>>, completed |-> 0, tool |-> "none", attempt |-> 0]
      BY DEF Blank, NoTool
    <3>2. model \in Nat /\ <<>> \in Seq(Tools)
      BY <1>1 DEF TypeOK
    <3>. HIDE DEF mine
    <3>. QED
      BY <3>1, <3>2 DEF Memory, NoTool
  <2>. HIDE DEF mine
  <2>4. ASSUME NEW v \in Workers PROVE WorkerOK(v)'
    <3>1. pc[v] = "off"
      BY <1>1, <2>2, AgentAssumption DEF WorkerOK, Free
    <3>2. pc'[v] = "off" \/ (v = w /\ pc'[v] \in {"reconcile", "verify"})
      BY <1>1, <2>1, <3>1 DEF Goto, TypeOK
    <3>. QED
      BY <2>2, <3>2
         DEF WorkerOK, Recovered, Acked, Dispatching, Asking, AfterAnchor
  <2>5. PlansNumbered'
    BY <1>1, <2>2, Zenon DEF PlansNumbered, Count, Rows
  <2>6. TypeOK'
    BY <1>1, <2>1, <2>2, <2>3 DEF TypeOK, Goto
  <2>. QED
    BY <2>4, <2>5, <2>6 DEF AgentInv
<1>5. ASSUME NEW w \in Workers, Reconcile(w) PROVE AgentInv'
  <2>1. CASE Exit(w)
    BY <1>5, <2>1, Exits DEF Reconcile
  <2>2. CASE ~Exit(w)
    <3>1. /\ pc[w] = "reconcile" /\ anchored' = Len(journal) /\ Goto(w, "verify")
          /\ UNCHANGED <<journal, lock, model, mem, effects>>
      BY <1>5, <2>2 DEF Reconcile
    <3>2. pc'[w] = "verify" /\ lock = w /\ mem' = [mem EXCEPT ![w] = mem[w]]
      BY <1>1, <1>3, <3>1 DEF Goto, TypeOK, WorkerOK
    <3>3. WorkerOK(w)'
      BY <3>1, <3>2 DEF WorkerOK, Recovered, Acked, Dispatching, Asking, AfterAnchor
    <3>4. PlansNumbered'
      BY <1>1, <3>1 DEF PlansNumbered, Count, Rows
    <3>5. \A v \in Workers : WorkerOK(v)'
      BY <1>3, <3>1, <3>2, <3>3, Alone, Zenon
    <3>6. TypeOK'
      BY <1>1, <3>1 DEF TypeOK, Goto
    <3>. QED
      BY <3>4, <3>5, <3>6 DEF AgentInv
  <2>. QED
    BY <2>1, <2>2
<1>6. ASSUME NEW w \in Workers, Refused(w) \/ Raise(w) \/ Done(w) \/ Fault(w)
      PROVE  AgentInv'
  <2>1. pc[w] # "off" /\ Exit(w)
    BY <1>6 DEF Refused, Raise, Done, Fault
  <2>. QED
    BY <2>1, Exits
<1>7. ASSUME NEW w \in Workers, WriteIdentity(w) PROVE AgentInv'
  <2>. DEFINE row == Identity(mem[w].model)
  <2>1. /\ Write(w, "identity", row, "identity+")
        /\ UNCHANGED <<anchored, lock, model, mem, effects>>
    BY <1>7 DEF WriteIdentity
  <2>2. row \in Entries /\ row.type = "identity"
    BY <1>3 DEF Entries, Identity, Memory
  <2>3. "identity" \in Acked /\ "identity+" \in (DOMAIN AfterAnchor) \ {"result+", "retry+"}
        /\ "identity+" \notin Dispatching
    BY DEF Acked, AfterAnchor, Dispatching
  <2>. HIDE DEF row
  <2>. QED
    BY <2>1, <2>2, <2>3, PlainNotes
<1>8. ASSUME NEW w \in Workers, WriteStart(w) PROVE AgentInv'
  <2>1. /\ Write(w, "start", Note, "start+")
        /\ UNCHANGED <<anchored, lock, model, mem, effects>>
    BY <1>8 DEF WriteStart
  <2>2. "start" \in Acked /\ "start+" \in (DOMAIN AfterAnchor) \ {"result+", "retry+"}
        /\ "start+" \notin Dispatching
    BY DEF Acked, AfterAnchor, Dispatching
  <2>. QED
    BY <1>2, <2>1, <2>2, PlainNotes
<1>9. ASSUME NEW w \in Workers, NEW spent \in BOOLEAN, Stop(w, spent) PROVE AgentInv'
  <2>1. /\ Write(w, "loop", Note, "stop+")
        /\ UNCHANGED <<anchored, lock, model, mem, effects>>
    BY <1>9 DEF Stop
  <2>2. "loop" \in Acked /\ "stop+" \in (DOMAIN AfterAnchor) \ {"result+", "retry+"}
        /\ "stop+" \notin Dispatching
    BY DEF Acked, AfterAnchor, Dispatching
  <2>. QED
    BY <1>2, <2>1, <2>2, PlainNotes
<1>10. ASSUME NEW w \in Workers, Evaluate(w) PROVE AgentInv'
  <2>1. /\ Write(w, "dispatch", Note, "evaluate+") /\ pc[w] = "dispatch"
        /\ UNCHANGED <<anchored, lock, model, mem, effects>>
    BY <1>10 DEF Evaluate, Write
  <2>2. "dispatch" \in Acked /\ "evaluate+" \in (DOMAIN AfterAnchor) \ {"result+", "retry+"}
    BY DEF Acked, AfterAnchor
  <2>3. /\ mem[w].completed < Len(mem[w].plans)
        /\ mem[w].tool = mem[w].plans[mem[w].completed + 1]
    BY <1>1, <2>1 DEF WorkerOK, Dispatching
  <2>. QED
    BY <1>2, <2>1, <2>2, <2>3, PlainNotes
<1>11. ASSUME NEW w \in Workers, Retry(w) PROVE AgentInv'
  <2>. DEFINE mine == [mem[w] EXCEPT !.attempt = mem[w].attempt + 1]
              next == IF mem[w].attempt + 1 = Attempts THEN "last retry+" ELSE "retry+"
  <2>1. /\ Write(w, "ask", Note, next) /\ pc[w] = "ask"
        /\ UNCHANGED <<anchored, lock, model, effects>> /\ mem' = [mem EXCEPT ![w] = mine]
    BY <1>1, <1>11 DEF Retry, Write, TypeOK
  <2>2. mine \in Memory /\ mine.plans = mem[w].plans /\ mine.completed = mem[w].completed
    BY <1>3 DEF Memory
  <2>3. "ask" \in Acked /\ next \in (DOMAIN AfterAnchor) \ {"result+"}
        /\ next \notin Dispatching
    BY DEF Acked, AfterAnchor, Dispatching
  <2>4. mem[w].completed = Len(mem[w].plans)
    BY <1>1, <2>1 DEF WorkerOK, Asking
  <2>. HIDE DEF mine, next
  <2>. QED
    BY <1>2, <2>1, <2>2, <2>3, <2>4, Notes, Zenon
<1>12. ASSUME NEW w \in Workers, TakeUp(w) PROVE AgentInv'
  <2>. DEFINE mine == [mem[w] EXCEPT !.tool = mem[w].plans[mem[w].completed + 1]]
  <2>1. /\ Write(w, "loop", Note, "recovery+") /\ mem[w].completed < Len(mem[w].plans)
        /\ UNCHANGED <<anchored, lock, model, effects>> /\ mem' = [mem EXCEPT ![w] = mine]
    BY <1>1, <1>3, <1>12 DEF TakeUp, Repeats, Planned, TypeOK, Memory
  <2>2. mem[w].plans[mem[w].completed + 1] \in Tools
    BY <1>3, <2>1 DEF Memory
  <2>3. /\ mine \in Memory /\ mine.plans = mem[w].plans /\ mine.completed = mem[w].completed
        /\ mine.tool = mem[w].plans[mem[w].completed + 1]
    BY <1>3, <2>2 DEF Memory
  <2>4. "loop" \in Acked /\ "recovery+" \in (DOMAIN AfterAnchor) \ {"result+"}
    BY DEF Acked, AfterAnchor
  <2>. HIDE DEF mine
  <2>. QED
    BY <1>2, <2>1, <2>3, <2>4, Notes, Zenon
<1>13. ASSUME NEW w \in Workers, CheckModel(w) PROVE AgentInv'
  <2>1. CASE model # mem[w].model
    BY <1>13, <2>1, Exits DEF CheckModel
  <2>2. CASE model = mem[w].model
    <3>. DEFINE mine == [mem[w] EXCEPT !.attempt = 0]
    <3>1. /\ pc[w] = "loop" /\ Goto(w, "ask") /\ mem' = [mem EXCEPT ![w] = mine]
          /\ UNCHANGED <<journal, anchored, lock, model, effects>>
          /\ ~(Len(mem[w].plans) > mem[w].completed)
      BY <1>1, <1>13, <2>2 DEF CheckModel, Repeats, Planned, TypeOK
    <3>2. mine \in Memory /\ mine.plans = mem[w].plans /\ mine.completed = mem[w].completed
      BY <1>3 DEF Memory
    <3>. HIDE DEF mine
    <3>3. pc'[w] = "ask" /\ mem'[w] = mine
      BY <1>1, <3>1 DEF Goto, TypeOK
    <3>4. KnowsJournal(w) /\ lock = w /\ anchored = Len(journal)
      BY <1>1, <3>1, Zenon DEF WorkerOK, Recovered, Acked
    <3>5. Count("plan")' = Count("plan") /\ Count("result")' = Count("result")
      BY <3>1 DEF Count, Rows
    <3>6. mem[w].completed \in Nat /\ Len(mem[w].plans) \in Nat
      BY <1>3 DEF Memory
    <3>7. mine.completed = Len(mine.plans) /\ Count("result") = mine.completed
      BY <3>1, <3>2, <3>4, <3>6 DEF KnowsJournal
    <3>8. KnowsJournal(w)'
      BY <3>1, <3>2, <3>3, <3>4, <3>5, <3>6, <3>7, Zenon DEF KnowsJournal, Plan
    <3>9. WorkerOK(w)'
      BY <3>1, <3>3, <3>4, <3>7, <3>8 DEF WorkerOK, Dispatching
    <3>10. "ask" \in Recovered
      BY DEF Recovered, Acked
    <3>11. /\ \A v \in Workers : WorkerOK(v)'
           /\ pc' \in [Workers -> Recovered \cup {"off", "reconcile", "verify"}]
           /\ mem' \in [Workers -> Memory]
      BY <3>1, <3>2, <3>9, <3>10, Alone, Zenon
    <3>12. PlansNumbered'
      BY <1>1, <3>1, Zenon DEF PlansNumbered, Count, Rows
    <3>. QED
      BY <1>1, <3>1, <3>11, <3>12 DEF AgentInv, TypeOK
  <2>. QED
    BY <2>1, <2>2
<1>14. ASSUME NEW w \in Workers, RunTool(w) PROVE AgentInv'
  <2>1. /\ pc[w] = "run" /\ Goto(w, "ran") /\ mem' = [mem EXCEPT ![w] = mem[w]]
        /\ UNCHANGED <<journal, anchored, lock, model, mem>>
        /\ effects' = Append(effects, <<mem[w].completed, mem[w].tool>>)
    BY <1>3, <1>14 DEF RunTool
  <2>2. pc'[w] = "ran"
    BY <1>1, <2>1 DEF Goto, TypeOK
  <2>3. WorkerOK(w) /\ KnowsJournal(w)
    BY <1>1, <2>1 DEF WorkerOK, Recovered, Acked
  <2>4. KnowsJournal(w)'
    BY <2>1, <2>2, <2>3, Zenon DEF KnowsJournal, Plan, Count, Rows
  <2>5. WorkerOK(w)'
    BY <2>1, <2>2, <2>3, <2>4 DEF WorkerOK, Dispatching, Asking, Acked
  <2>6. "ran" \in Recovered
    BY DEF Recovered, Acked
  <2>7. /\ \A v \in Workers : WorkerOK(v)'
        /\ pc' \in [Workers -> Recovered \cup {"off", "reconcile", "verify"}]
    BY <1>3, <2>1, <2>5, <2>6, Alone
  <2>8. effects' \in Seq(Nat \X (Tools \cup {NoTool}))
    BY <1>1, <1>3, <2>1 DEF TypeOK, Memory
  <2>9. PlansNumbered'
    BY <1>1, <2>1 DEF PlansNumbered, Count, Rows
  <2>. QED
    BY <1>1, <2>1, <2>7, <2>8, <2>9, Zenon DEF AgentInv, TypeOK
<1>15. CASE Redeploy \/ UNCHANGED vars
  <2>1. UNCHANGED <<journal, anchored, lock, pc, mem, effects>> /\ model' \in {model, 2}
    BY <1>15 DEF Redeploy, vars
  <2>2. PlansNumbered'
    BY <1>1, <2>1 DEF PlansNumbered, Count, Rows
  <2>3. Count("plan")' = Count("plan") /\ Count("result")' = Count("result")
    BY <2>1 DEF Count, Rows
  <2>4. ASSUME NEW w \in Workers PROVE WorkerOK(w)'
    <3>1. KnowsJournal(w)' <=> KnowsJournal(w)
      BY <2>1, <2>3 DEF KnowsJournal, Plan
    <3>. QED
      BY <1>1, <2>1, <3>1 DEF WorkerOK
  <2>. QED
    BY <1>1, <2>1, <2>2, <2>4 DEF AgentInv, TypeOK
<1>. QED
  BY <1>4, <1>5, <1>6, <1>7, <1>8, <1>9, <1>10, <1>11, <1>12, <1>13, <1>14, <1>15,
     Anchors, Recovers, Asks, Reports, Zenon
     DEF Next, Running

\* The inductive invariant: the worker that holds the lock knows the journal,
\* and nobody else acts (governed_agent.py).
THEOREM AgentInvariant == Spec => []AgentInv
BY AgentInit, AgentNext, PTL DEF Spec

\* No step but the dispatch of a tool has an effect.
LEMMA OnlyRunToolActs ==
  ASSUME [Next]_vars, effects' # effects
  PROVE  \E w \in Workers : RunTool(w)
BY DEF Next, Running, Start, Reconcile, Refused, Recover,
   WriteIdentity, WriteStart, Anchor, TakeUp, CheckModel, Ask,
   Evaluate, WriteResult, Stop, Done, Raise, Retry, Fault,
   Redeploy, Exit, vars

\* A tool runs only for the first step without a durable result, and it is
\* the tool the acknowledged plan of that step names.
THEOREM RunsFollowTheJournal == Spec => RunsFollowJournal
<1>. DEFINE Follows ==
       effects' # effects =>
         LET run == effects'[Len(effects')] IN
         /\ run[1] = Count("result")
         /\ \E n \in 1 .. anchored : journal[n] = Plan(run[1], run[2])
<1>1. AgentInv /\ [Next]_vars => [Follows]_(vars)
  <2>. SUFFICES ASSUME AgentInv, [Next]_vars, effects' # effects
                PROVE  LET run == effects'[Len(effects')] IN
                       /\ run[1] = Count("result")
                       /\ \E n \in 1 .. anchored : journal[n] = Plan(run[1], run[2])
    BY Zenon DEF vars
  <2>1. PICK w \in Workers : RunTool(w)
    BY OnlyRunToolActs
  <2>2. TypeOK /\ WorkerOK(w) /\ pc[w] = "run"
    BY <2>1 DEF AgentInv, RunTool
  <2>3. effects'[Len(effects')] = <<mem[w].completed, mem[w].tool>>
    BY <2>1, <2>2 DEF RunTool, TypeOK
  <2>4. /\ KnowsJournal(w) /\ anchored = Len(journal)
        /\ mem[w].completed < Len(mem[w].plans)
        /\ mem[w].tool = mem[w].plans[mem[w].completed + 1]
        /\ mem[w] \in Memory /\ journal \in Seq(Entries)
    BY <2>2, Zenon DEF WorkerOK, Recovered, Acked, Dispatching, TypeOK
  <2>5. mem[w].completed = Count("result")
    BY <2>2, <2>4 DEF KnowsJournal, Memory
  <2>6. mem[w].completed + 1 \in 1 .. Len(mem[w].plans) /\ (mem[w].completed + 1) - 1 = mem[w].completed
    BY <2>4 DEF Memory
  <2>7. \E n \in DOMAIN journal : journal[n] = Plan(mem[w].completed, mem[w].tool)
    <3>. DEFINE i == mem[w].completed + 1
    <3>1. i \in 1 .. Len(mem[w].plans) /\ i - 1 = mem[w].completed
      BY <2>6, Zenon
    <3>2. mem[w].plans[i] = mem[w].tool
      BY <2>4, Zenon
    <3>. HIDE DEF i
    <3>3. \E n \in DOMAIN journal : journal[n] = Plan(i - 1, mem[w].plans[i])
      BY <2>4, <3>1 DEF KnowsJournal
    <3>. QED
      BY <3>1, <3>2, <3>3, Zenon
  <2>8. DOMAIN journal = 1 .. anchored
    BY <2>4
  <2>. QED
    BY <2>3, <2>5, <2>7, <2>8
<1>. QED
  BY <1>1, AgentInvariant, PTL DEF Spec, RunsFollowJournal

-----------------------------------------------------------------------------
\* One more sample.
LEMMA SampleAppended ==
  ASSUME NEW s \in Seq(Sampled), NEW x \in Sampled
  PROVE  /\ Append(s, x) \in Seq(Sampled) /\ Len(s) \in Nat
         /\ Len(Append(s, x)) = Len(s) + 1
         /\ \A j \in 1..Len(s) : Append(s, x)[j] = s[j]
         /\ Append(s, x)[Len(s) + 1] = x
OBVIOUS

\* What a further sample adds to the history of a pending request.
Noted(n, yes, no, t) ==
  /\ n = Len(buttonSamples) /\ n \in Nat /\ Len(buttonSamples') = n + 1
  /\ DOMAIN buttonSamples = 1..n /\ DOMAIN buttonSamples' = 1..(n + 1)
  /\ \A j \in 1..n :
       buttonSamples'[j] = buttonSamples[j] /\ buttonSamples[j].at \in Nat /\ j \in 1..(n + 1)
  /\ n + 1 \in 1..(n + 1) /\ \A j \in 1..(n + 1) : j \in 1..n \/ j = n + 1
  /\ buttonSamples'[n + 1].yes = yes /\ buttonSamples'[n + 1].no = no
  /\ buttonSamples'[n + 1].at = t

\* Stretches within the old samples are as they were.
LEMMA HeldBefore ==
  ASSUME NEW n, NEW yes \in BOOLEAN, NEW no \in BOOLEAN, NEW t \in Nat, Noted(n, yes, no, t),
         NEW k \in 1..n, NEW i \in 1..k, NEW y \in BOOLEAN, NEW o \in BOOLEAN, NEW d \in Nat
  PROVE  Held(i, k, y, o, d)' <=> Held(i, k, y, o, d)
<1>1. n \in Nat /\ \A j \in 1..n : buttonSamples'[j] = buttonSamples[j]
  BY Zenon DEF Noted
<1>2. \A j \in i..k : buttonSamples'[j] = buttonSamples[j]
  BY <1>1, SMTT(30)
<1>3. i \in i..k /\ k \in i..k
  BY <1>1, SMTT(30)
<1>4. QED
  BY <1>2, <1>3, Zenon DEF Held

\* A stretch that shows what the new sample shows goes on, or it begins now.
LEMMA ShowingOn ==
  ASSUME NEW n, NEW yes \in BOOLEAN, NEW no \in BOOLEAN, NEW t \in Nat, Noted(n, yes, no, t)
  PROVE  \A i \in 1..(n + 1) : (i \in 1..n => Showing(i, yes, no)) => Showing(i, yes, no)'
<1>1. n \in Nat
  BY Zenon DEF Noted
<1>2. \A i \in 1..(n + 1) : \A j \in i..(n + 1) : j = n + 1 \/ (i \in 1..n /\ j \in i..n /\ j \in 1..n)
  BY <1>1, SMTT(30)
<1>3. ASSUME NEW i \in 1..(n + 1), i \in 1..n => Showing(i, yes, no), NEW j \in i..(n + 1)
      PROVE  buttonSamples'[j].yes = yes /\ buttonSamples'[j].no = no
  <2>1. CASE j = n + 1
    BY <2>1, Zenon DEF Noted
  <2>2. CASE i \in 1..n /\ j \in i..n /\ j \in 1..n
    BY <1>3, <2>2, Zenon DEF Showing, Noted
  <2>3. QED
    BY <1>2, <2>1, <2>2, Zenon
<1>4. Len(buttonSamples') = n + 1
  BY ZenonT(30) DEF Noted
<1>5. QED
  BY <1>3, <1>4, Zenon DEF Showing

\* The mark of a stretch that shows what the new sample shows, kept or set now,
\* is the time of the sample the stretch began with.
LEMMA StretchGoesOn ==
  ASSUME NEW n, NEW yes \in BOOLEAN, NEW no \in BOOLEAN, NEW t \in Nat, Noted(n, yes, no, t),
         NEW low \in 1..(n + 1), NEW mark,
         mark # None => \E i \in low..n : Marked(mark, i, yes, no)
  PROVE  \E i \in low..(n + 1) : Marked(Since(mark, t), i, yes, no)'
<1>1. n \in Nat /\ n + 1 \in low..(n + 1) /\ n + 1 \in 1..(n + 1) /\ n + 1 \notin 1..n
  BY SMTT(30) DEF Noted
<1>2. CASE mark = None
  <2>1. buttonSamples'[n + 1].at = Since(mark, t).at
    BY <1>2, SMTT(30) DEF Noted, Since
  <2>2. Showing(n + 1, yes, no)'
    BY <1>1, ShowingOn, Zenon
  <2>3. QED
    BY <1>1, <2>1, <2>2, Zenon DEF Marked
<1>3. CASE mark # None
  <2>1. PICK i \in low..n : Marked(mark, i, yes, no)
    BY <1>3, Zenon
  <2>2. i \in 1..n /\ i \in low..(n + 1) /\ i \in 1..(n + 1)
    BY <1>1, SMTT(30)
  <2>3. Showing(i, yes, no)'
    BY <2>1, <2>2, ShowingOn, Zenon DEF Marked
  <2>4. buttonSamples'[i].at = mark.at
    BY <2>1, <2>2, Zenon DEF Marked, Noted
  <2>5. QED
    BY <1>3, <2>2, <2>3, <2>4, Zenon DEF Marked, Since
<1>4. QED
  BY <1>2, <1>3, Zenon

\* A stretch up to the new sample whose mark is old enough was held.
LEMMA StretchHeld ==
  ASSUME NEW n, NEW yes \in BOOLEAN, NEW no \in BOOLEAN, NEW t \in Nat, Noted(n, yes, no, t),
         NEW i \in 1..(n + 1), NEW y \in BOOLEAN, NEW o \in BOOLEAN, Showing(i, y, o)',
         NEW d \in Nat, t - buttonSamples'[i].at >= d
  PROVE  Held(i, n + 1, y, o, d)'
BY Zenon DEF Noted, Held, Showing

\* What the machine marks of NO at a sample that does not end the request: NO was
\* not held, and its mark is not younger than its stretch.
LEMMA NoIsMarked ==
  ASSUME PendingInv, buttonNow \in Nat, m.no \in Marks,
         NEW n, NEW yes \in BOOLEAN, NEW no \in BOOLEAN, NEW t \in Nat, Noted(n, yes, no, t),
         t > buttonNow, ~(yes /\ no),
         NEW since, since = IF no THEN Since(m.no, t) ELSE None, ~Lasts(since, Debounce, t)
  PROVE  /\ ~HeldNo'
         /\ since # None => since.at <= t
         /\ \A i \in 1..(n + 1) : Showing(i, FALSE, TRUE)' =>
              since # None /\ since.at <= buttonSamples'[i].at
<1>1. /\ Debounce \in Nat /\ n \in Nat /\ [at |-> t] # None /\ n = Len(buttonSamples)
      /\ ~HeldNo /\ (m.no # None => m.no.at <= buttonNow /\ m.no.at \in Nat)
  BY ButtonConstants, SMTT(30) DEF Noted, PendingInv, Marks
<1>2. (no => since # None) /\ (since # None => since.at \in Nat /\ since.at <= t)
  BY <1>1, SMTT(30) DEF Since
<1>3. ASSUME NEW i \in 1..(n + 1), Showing(i, FALSE, TRUE)'
      PROVE  since # None /\ since.at <= buttonSamples'[i].at
  <2>1. no /\ (i \in 1..n => Showing(i, FALSE, TRUE))
    <3>1. n + 1 \in i..(n + 1) /\ (i \in 1..n => \A j \in i..n : j \in i..(n + 1) /\ j \in 1..n)
      BY <1>1, SMTT(30)
    <3>2. QED
      BY <1>3, <3>1, Zenon DEF Showing, Noted
  <2>2. CASE i \in 1..n
    <3>1. m.no # None /\ m.no.at <= buttonSamples[i].at /\ buttonSamples'[i] = buttonSamples[i]
      BY <1>1, <2>1, <2>2, Zenon DEF PendingInv, Noted
    <3>2. QED
      BY <2>1, <3>1, Zenon DEF Since
  <2>3. CASE i = n + 1
    BY <1>2, <2>1, <2>3, Zenon DEF Noted
  <2>4. QED
    BY <2>2, <2>3, Zenon DEF Noted
<1>4. ASSUME NEW i \in 1..(n + 1), NEW k \in 1..(n + 1), i <= k, Held(i, k, FALSE, TRUE, Debounce)'
      PROVE  FALSE
  <2>1. i \in 1..k
    BY <1>1, <1>4, SMTT(30)
  <2>2. CASE k \in 1..n
    <3>1. Held(i, k, FALSE, TRUE, Debounce)
      BY <1>1, <1>4, <2>1, <2>2, HeldBefore, Zenon
    <3>2. i \in 1..n
      BY <1>1, <2>1, <2>2, SMTT(30)
    <3>3. QED
      BY <1>1, <1>4, <2>2, <3>1, <3>2, Zenon DEF HeldNo, Noted
  <2>3. CASE k = n + 1
    <3>1. Showing(i, FALSE, TRUE)' /\ t - buttonSamples'[i].at >= Debounce
      BY <1>4, <2>3, Zenon DEF Held, Showing, Noted
    <3>2. since # None /\ since.at <= buttonSamples'[i].at
      BY <1>3, <3>1, Zenon
    <3>3. buttonSamples'[i].at \in Nat
      BY Zenon DEF Noted
    <3>4. t - since.at >= Debounce
      BY <1>1, <1>2, <3>1, <3>2, <3>3, SMTT(30)
    <3>5. QED
      BY <3>2, <3>4, Zenon DEF Lasts
  <2>4. QED
    BY <2>2, <2>3, Zenon DEF Noted
<1>5. ASSUME NEW k \in 1..(n + 1), buttonSamples'[k].yes, buttonSamples'[k].no PROVE FALSE
  <2>1. CASE k \in 1..n
    BY <1>1, <1>5, <2>1, Zenon DEF HeldNo, Noted
  <2>2. CASE k = n + 1
    BY <1>5, <2>2, Zenon DEF Noted
  <2>3. QED
    BY <2>1, <2>2, Zenon DEF Noted
<1>6. ~HeldNo'
  BY <1>4, <1>5, Zenon DEF HeldNo, Noted
<1>7. QED
  BY <1>2, <1>3, <1>6, Zenon

\* A sample of a pending request: its outcomes keep the invariant.
LEMMA PendingSample ==
  ASSUME ButtonInv, m.state = "PENDING", NEW yes \in BOOLEAN, NEW no \in BOOLEAN,
         NEW t \in Nat, ButtonSample(yes, no, t)
  PROVE  ButtonInv'
<1>1. /\ PendingInv /\ buttonNow \in Nat /\ m.armed \in BOOLEAN
      /\ m.yes \in Marks /\ m.no \in Marks /\ m.release \in Marks /\ m.deadline \in Nat
      /\ m \in Machines /\ buttonSamples \in Seq(Sampled)
  BY SMTT(30) DEF ButtonInv, ButtonTyped, Machines
<1>2. /\ buttonNow' = t /\ t \in (buttonNow + 1)..(buttonNow + ButtonGap)
      /\ m' = Buttons(yes, no, t).machine /\ decision' = Buttons(yes, no, t).decision
      /\ buttonSamples' = Append(buttonSamples, [yes |-> yes, no |-> no, at |-> t])
  BY Zenon DEF ButtonSample, Later
<1>3. t > buttonNow /\ Debounce \in Nat /\ Hold \in Nat
  BY <1>1, <1>2, ButtonConstants, SMTT(30)
<1>4. buttonSamples' \in Seq(Sampled) /\ Noted(Len(buttonSamples), yes, no, t)
  <2>1. [yes |-> yes, no |-> no, at |-> t] \in Sampled
    BY DEF Sampled
  <2>2. /\ buttonSamples' \in Seq(Sampled) /\ Len(buttonSamples) \in Nat
        /\ Len(buttonSamples') = Len(buttonSamples) + 1
        /\ \A j \in 1..Len(buttonSamples) : buttonSamples'[j] = buttonSamples[j]
        /\ buttonSamples'[Len(buttonSamples) + 1] = [yes |-> yes, no |-> no, at |-> t]
    BY <1>1, <1>2, <2>1, SampleAppended, SMTT(30)
  <2>3. /\ \A j \in 1..Len(buttonSamples) : buttonSamples[j] \in Sampled
        /\ \A sample \in Sampled : sample.at \in Nat
    <3>1. \A j \in 1..Len(buttonSamples) : buttonSamples[j] \in Sampled
      BY <1>1, SMTT(30)
    <3>2. QED
      BY <3>1, SMTT(30) DEF Sampled
  <2>4. DOMAIN buttonSamples = 1..Len(buttonSamples) /\ DOMAIN buttonSamples' = 1..Len(buttonSamples')
    BY <1>1, <2>2, SMTT(30)
  <2>5. /\ \A j \in 1..Len(buttonSamples) : j \in 1..(Len(buttonSamples) + 1)
        /\ Len(buttonSamples) + 1 \in 1..(Len(buttonSamples) + 1)
        /\ \A j \in 1..(Len(buttonSamples) + 1) :
             j \in 1..Len(buttonSamples) \/ j = Len(buttonSamples) + 1
    BY <2>2, SMTT(30)
  <2>6. LET new == buttonSamples'[Len(buttonSamples) + 1] IN new.yes = yes /\ new.no = no /\ new.at = t
    BY <2>2, SMTT(30)
  <2>7. QED
    BY <2>2, <2>3, <2>4, <2>5, <2>6, Zenon DEF Noted
<1>5. PICK n : n = Len(buttonSamples) /\ Noted(n, yes, no, t)
  BY <1>4, Zenon
<1>6. PICK noSince : noSince = IF no THEN Since(m.no, t) ELSE None
  BY Zenon
<1>7. PICK yesSince : yesSince = IF no THEN None ELSE IF yes THEN Since(m.yes, t) ELSE None
  BY Zenon
<1>8. PICK release : release = IF yes \/ no THEN None ELSE Since(m.release, t)
  BY Zenon
<1>9. noSince \in Marks /\ yesSince \in Marks /\ release \in Marks
  BY <1>1, <1>6, <1>7, <1>8, SMTT(30) DEF Since, Marks
<1>. DEFINE noted == [m EXCEPT !.no = noSince, !.yes = IF no THEN None ELSE @]
<1>10. \/ /\ GivesUp(yes, no, t)
          /\ m' = Cleared(TRUE) /\ decision' = "DENY"
       \/ /\ ~GivesUp(yes, no, t) /\ Lasts(noSince, Debounce, t)
          /\ m' = [noted EXCEPT !.state = "DECIDED"] /\ decision' = "DENY"
       \/ /\ ~GivesUp(yes, no, t) /\ ~Lasts(noSince, Debounce, t) /\ ~m.armed
          /\ m' = [noted EXCEPT !.release = release, !.armed = Lasts(release, Debounce, t)]
          /\ decision' = "NONE"
       \/ /\ ~GivesUp(yes, no, t) /\ ~Lasts(noSince, Debounce, t) /\ m.armed
          /\ Lasts(yesSince, Hold, t)
          /\ m' = [noted EXCEPT !.yes = yesSince, !.state = "DECIDED"] /\ decision' = "APPROVE"
       \/ /\ ~GivesUp(yes, no, t) /\ ~Lasts(noSince, Debounce, t) /\ m.armed
          /\ ~Lasts(yesSince, Hold, t)
          /\ m' = [noted EXCEPT !.yes = yesSince] /\ decision' = "NONE"
  BY <1>2, <1>6, <1>7, <1>8, Zenon DEF Buttons, YesSince
<1>11. /\ noted \in Machines /\ noted.state = "PENDING" /\ noted.armed = m.armed
       /\ noted.request = m.request /\ noted.deadline = m.deadline /\ noted.no = noSince
       /\ noted.yes = IF no THEN None ELSE m.yes
  BY <1>1, <1>9, Zenon DEF Machines, Marks
<1>. HIDE DEF noted
<1>12. ButtonTyped'
  <2>1. Cleared(TRUE) \in Machines
    BY SMTT(30) DEF Cleared, Machines, Marks
  <2>2. [noted EXCEPT !.state = "DECIDED"] \in Machines
    BY <1>11, SMTT(30) DEF Machines
  <2>3. [noted EXCEPT !.release = release, !.armed = Lasts(release, Debounce, t)] \in Machines
    BY <1>9, <1>11, Zenon DEF Machines, Lasts
  <2>4. [noted EXCEPT !.yes = yesSince] \in Machines
    BY <1>9, <1>11, SMTT(30) DEF Machines
  <2>5. [noted EXCEPT !.yes = yesSince, !.state = "DECIDED"] \in Machines
    BY <1>9, <1>11, Zenon DEF Machines
  <2>6. m' \in Machines
    BY <1>10, <2>1, <2>2, <2>3, <2>4, <2>5, Zenon
  <2>7. QED
    BY <1>2, <1>4, <2>6, Zenon DEF ButtonTyped
<1>13. CASE GivesUp(yes, no, t)
  BY <1>10, <1>12, <1>13, SMTT(30) DEF ButtonInv, Cleared
<1>14. CASE ~GivesUp(yes, no, t) /\ Lasts(noSince, Debounce, t)
  <2>1. m'.state = "DECIDED" /\ decision' = "DENY"
    BY <1>10, <1>11, <1>14, Zenon DEF Machines
  <2>2. QED
    BY <1>12, <2>1, SMTT(30) DEF ButtonInv
<1>15. CASE ~GivesUp(yes, no, t) /\ ~Lasts(noSince, Debounce, t)
  <2>1. ~(yes /\ no) /\ t < m.deadline
    BY <1>1, <1>15, SMTT(30) DEF GivesUp
  <2>2. /\ ~HeldNo'
        /\ noSince # None => noSince.at <= t
        /\ \A i \in 1..(n + 1) : Showing(i, FALSE, TRUE)' =>
             noSince # None /\ noSince.at <= buttonSamples'[i].at
    BY <1>1, <1>3, <1>5, <1>6, <1>15, <2>1, NoIsMarked, Zenon
  <2>3. CASE ~m.armed
    <3>1. /\ m'.state = "PENDING" /\ decision' = "NONE" /\ m'.request = m.request
          /\ m'.no = noSince /\ m'.yes = None /\ m'.release = release
          /\ m'.armed = Lasts(release, Debounce, t)
      <4>1. m.yes = None
        BY <1>1, <2>3, Zenon DEF PendingInv
      <4>2. /\ m' = [noted EXCEPT !.release = release, !.armed = Lasts(release, Debounce, t)]
            /\ decision' = "NONE"
        BY <1>10, <1>15, <2>3, Zenon
      <4>3. QED
        BY <1>11, <4>1, <4>2, SMTT(30) DEF Machines
    <3>2. ASSUME release # None PROVE \E i \in 1..(n + 1) : Marked(release, i, FALSE, FALSE)'
      <4>1. yes = FALSE /\ no = FALSE /\ release = Since(m.release, t)
        BY <1>8, <3>2, Zenon
      <4>2. m.release # None => \E i \in 1..n : Marked(m.release, i, FALSE, FALSE)
        BY <1>1, <1>5, <2>3, Zenon DEF PendingInv
      <4>3. 1 \in 1..(n + 1)
        BY <1>5, SMTT(30) DEF Noted
      <4>4. QED
        BY <1>5, <4>1, <4>2, <4>3, StretchGoesOn, Zenon
    <3>3. ASSUME Lasts(release, Debounce, t)
          PROVE  \E i \in 1..(n + 1) : Held(i, n + 1, FALSE, FALSE, Debounce)'
      BY <1>3, <1>5, <3>2, <3>3, StretchHeld, Zenon DEF Lasts, Marked
    <3>4. PendingInv'
      BY <1>1, <1>2, <1>5, <2>2, <3>1, <3>2, <3>3, Zenon DEF PendingInv, Noted, Marked
    <3>5. QED
      BY <1>12, <3>1, <3>4, SMTT(30) DEF ButtonInv
  <2>4. CASE m.armed
    <3>1. PICK k \in 1..n :
                 /\ \E i \in 1..k : Held(i, k, FALSE, FALSE, Debounce)
                 /\ m.yes # None => \E y \in (k + 1)..n : Marked(m.yes, y, TRUE, FALSE)
      BY <1>1, <1>5, <2>4, Zenon DEF PendingInv
    <3>2. k \in 1..(n + 1) /\ \E i \in 1..k : Held(i, k, FALSE, FALSE, Debounce)'
      BY <1>3, <1>5, <3>1, HeldBefore, Zenon DEF Noted
    <3>3. /\ k + 1 \in 1..(n + 1)
          /\ \A y \in (k + 1)..(n + 1) : y \in 1..(n + 1) /\ k < y
      BY <1>5, SMTT(30) DEF Noted
    <3>4. ASSUME yesSince # None
          PROVE  \E y \in (k + 1)..(n + 1) : Marked(yesSince, y, TRUE, FALSE)'
      <4>1. yes = TRUE /\ no = FALSE /\ yesSince = Since(m.yes, t)
        BY <1>7, <3>4, Zenon
      <4>2. QED
        BY <1>5, <3>1, <3>3, <4>1, StretchGoesOn, Zenon
    <3>5. CASE Lasts(yesSince, Hold, t)
      <4>1. m' = [noted EXCEPT !.yes = yesSince, !.state = "DECIDED"] /\ decision' = "APPROVE"
        BY <1>10, <1>15, <2>4, <3>5, Zenon
      <4>2. m'.state = "DECIDED" /\ m'.request = m.request /\ m'.deadline = m.deadline
        BY <1>11, <4>1, SMTT(30) DEF Machines
      <4>3. \E y \in (k + 1)..(n + 1) : Held(y, n + 1, TRUE, FALSE, Hold)'
        BY <1>3, <1>5, <3>3, <3>4, <3>5, StretchHeld, Zenon DEF Lasts, Marked
      <4>4. HeldYes'
        BY <1>5, <2>1, <3>2, <3>3, <4>2, <4>3, Zenon DEF HeldYes, Noted
      <4>5. m.request # None
        BY <1>1, Zenon DEF PendingInv
      <4>6. QED
        BY <1>12, <2>2, <4>1, <4>2, <4>4, <4>5, SMTT(30) DEF ButtonInv
    <3>6. CASE ~Lasts(yesSince, Hold, t)
      <4>1. m' = [noted EXCEPT !.yes = yesSince] /\ decision' = "NONE"
        BY <1>10, <1>15, <2>4, <3>6, Zenon
      <4>2. /\ m'.state = "PENDING" /\ m'.request = m.request
            /\ m'.no = noSince /\ m'.yes = yesSince /\ m'.armed
        BY <1>11, <2>4, <4>1, Zenon DEF Machines
      <4>3. PendingInv'
        BY <1>1, <1>2, <1>5, <2>2, <3>2, <3>4, <4>1, <4>2, Zenon DEF PendingInv, Noted, Marked
      <4>4. QED
        BY <1>12, <4>2, <4>3, SMTT(30) DEF ButtonInv
    <3>7. QED
      BY <3>5, <3>6, Zenon
  <2>5. QED
    BY <2>3, <2>4, Zenon
<1>16. QED
  BY <1>13, <1>14, <1>15, Zenon

\* Every step of the machine and of its owner keeps the invariant.
LEMMA ButtonSteps ==
  ASSUME ButtonInv, [ButtonNext]_buttonVars
  PROVE  ButtonInv'
<1>1. buttonNow \in Nat /\ m \in Machines /\ buttonSamples \in Seq(Sampled)
  BY DEF ButtonInv, ButtonTyped
<1>2. \A healthy \in BOOLEAN : /\ Cleared(healthy) \in Machines
                               /\ Cleared(healthy).state \in {"IDLE", "ERROR"}
  BY DEF Cleared, Machines, Marks
<1>3. <<>> \in Seq(Sampled)
  OBVIOUS
<1>4. ASSUME NEW t \in 0..ButtonTime, NEW r \in Contents, NEW ttl \in 1..MaxTtl,
             ButtonRequest(r, t, ttl)
      PROVE  ButtonInv'
  <2>1. t \in Nat /\ t + ttl \in Nat
    BY ButtonConstants
  <2>2. /\ m' = Pending(r, t + ttl) /\ decision' = "NONE" /\ buttonSamples' = <<>>
        /\ buttonNow' = t
    BY <1>4, Zenon DEF ButtonRequest
  <2>3. /\ Pending(r, t + ttl) \in Machines /\ m'.state = "PENDING" /\ m'.request = r
        /\ m'.no = None /\ m'.armed = FALSE /\ m'.release = None /\ m'.yes = None
    BY <2>1, <2>2, Zenon DEF Pending, Cleared, Machines, Marks
  <2>4. Len(buttonSamples') = 0 /\ DOMAIN buttonSamples' = {}
    BY <2>2
  <2>5. ~HeldNo'
    BY <2>4, Zenon DEF HeldNo
  <2>6. PendingInv'
    <3>1. \A i \in 1..Len(buttonSamples') : FALSE
      BY <2>4
    <3>2. r # None
      BY ButtonConstants
    <3>3. QED
      BY <2>2, <2>3, <2>5, <3>1, <3>2, Zenon DEF PendingInv
  <2>7. QED
    BY <1>3, <2>1, <2>2, <2>3, <2>6 DEF ButtonInv, ButtonTyped
<1>5. ASSUME NEW t \in 0..ButtonTime, NEW yes \in BOOLEAN, NEW no \in BOOLEAN,
             ButtonSample(yes, no, t)
      PROVE  ButtonInv'
  <2>1. t \in Nat
    BY ButtonConstants
  <2>2. CASE m.state = "PENDING"
    BY <1>5, <2>1, <2>2, PendingSample, Zenon
  <2>3. CASE m.state # "PENDING"
    <3>1. buttonNow' = t /\ UNCHANGED <<m, decision, buttonSamples>>
      BY <1>5, <2>3, Zenon DEF ButtonSample
    <3>2. (HeldYes' <=> HeldYes) /\ (HeldNo' <=> HeldNo)
      <4>1. HeldYes' <=> HeldYes
        BY <3>1, SMTT(30) DEF HeldYes, Held
      <4>2. HeldNo' <=> HeldNo
        BY <3>1, SMTT(30) DEF HeldNo, Held
      <4>3. QED
        BY <4>1, <4>2, Zenon
    <3>3. QED
      BY <2>1, <2>3, <3>1, <3>2, Zenon DEF ButtonInv, ButtonTyped
  <2>4. QED
    BY <2>2, <2>3
<1>6. ASSUME NEW healthy \in BOOLEAN, m' = Cleared(healthy), decision' = "NONE",
             buttonSamples' = <<>>, buttonNow' \in Nat
      PROVE  ButtonInv'
  BY <1>2, <1>3, <1>6 DEF ButtonInv, ButtonTyped
<1>7. ASSUME NEW t \in 0..ButtonTime, Unplugged(t) PROVE ButtonInv'
  <2>1. t \in Nat
    BY ButtonConstants
  <2>2. PICK healthy \in BOOLEAN : healthy = (m.state # "ERROR")
    BY Zenon
  <2>3. m' = Cleared(healthy) /\ decision' = "NONE" /\ buttonSamples' = <<>> /\ buttonNow' = t
    BY <1>7, <2>2, Zenon DEF Unplugged
  <2>4. QED
    BY <1>6, <2>1, <2>3, Zenon
<1>8. ASSUME NEW healthy \in BOOLEAN, Clear(healthy) PROVE ButtonInv'
  BY <1>1, <1>6, <1>8, Zenon DEF Clear
<1>9. CASE UNCHANGED buttonVars
  <2>1. UNCHANGED <<buttonNow, m, decision, buttonSamples>>
    BY <1>9, Zenon DEF buttonVars
  <2>2. HeldYes' <=> HeldYes
    BY <2>1, SMTT(30) DEF HeldYes, Held
  <2>3. HeldNo' <=> HeldNo
    BY <2>1, SMTT(30) DEF HeldNo, Held
  <2>4. PendingInv => PendingInv'
    BY <2>1, <2>3, Zenon DEF PendingInv, Held, Marked, Showing
  <2>5. QED
    BY <2>1, <2>2, <2>3, <2>4, Zenon DEF ButtonInv, ButtonTyped
<1>10. QED
  BY <1>4, <1>5, <1>7, <1>8, <1>9, Zenon DEF ButtonNext

\* The marks of the two-button machine tell the truth about the samples it was
\* shown since the request (bull_buttons).
THEOREM ButtonInvariant == ButtonSpec => []ButtonInv
<1>1. ButtonInit => ButtonInv
  <2>1. Cleared(TRUE) \in Machines /\ Cleared(TRUE).state = "IDLE"
    BY DEF Cleared, Machines, Marks
  <2>2. ASSUME ButtonInit PROVE ButtonTyped /\ m.state = "IDLE"
    <3>1. <<>> \in Seq(Sampled) /\ 0 \in Nat
      OBVIOUS
    <3>2. QED
      BY <2>1, <2>2, <3>1, Zenon DEF ButtonInit, ButtonTyped
  <2>3. QED
    BY <2>2, Zenon DEF ButtonInit, ButtonInv
<1>2. ButtonInv /\ [ButtonNext]_buttonVars => ButtonInv'
  BY ButtonSteps
<1>3. QED
  BY <1>1, <1>2, PTL DEF ButtonSpec

\* For all debounce and hold times and every request: the buttons approve only the
\* stored request, after a fresh release and a full hold of YES before the deadline,
\* and once NO was held or both were pressed the request is denied (bull_buttons).
THEOREM DecisionsAreDeliberateTheorem == ButtonSpec => []DecisionsAreDeliberate
<1>1. ButtonInv => DecisionsAreDeliberate
  <2>. SUFFICES ASSUME ButtonInv PROVE DecisionsAreDeliberate
    OBVIOUS
  <2>1. m.state \in {"IDLE", "ERROR", "PENDING", "DECIDED"}
    BY DEF ButtonInv, ButtonTyped, Machines
  <2>2. CASE m.state = "PENDING"
    BY <2>2, Zenon DEF ButtonInv, PendingInv, DecisionsAreDeliberate
  <2>3. CASE m.state = "DECIDED"
    <3>1. /\ decision \in {"APPROVE", "DENY"}
          /\ decision = "APPROVE" => m.request # None /\ HeldYes /\ ~HeldNo
      BY <2>3, Zenon DEF ButtonInv
    <3>2. decision = "APPROVE" \/ decision = "DENY"
      BY <3>1
    <3>3. m.state # "PENDING" /\ "DENY" # "APPROVE"
      BY <2>3
    <3>4. QED
      BY <2>3, <3>1, <3>2, <3>3, Zenon DEF DecisionsAreDeliberate
  <2>4. CASE m.state \in {"IDLE", "ERROR"}
    <3>1. buttonSamples = <<>> => ~HeldNo
      BY DEF HeldNo
    <3>2. QED
      BY <2>4, <3>1 DEF ButtonInv, DecisionsAreDeliberate
  <2>5. QED
    BY <2>1, <2>2, <2>3, <2>4
<1>2. QED
  BY <1>1, ButtonInvariant, PTL
=============================================================================
