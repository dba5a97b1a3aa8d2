--------------------------- MODULE ButtonMachine ---------------------------
(***************************************************************************)
(* state_machine.c: the two-button approval machine, driven by requests    *)
(* and by samples of the YES and NO buttons.  The code's 30 and 780 ms are *)
(* constants; ButtonTime stands for UINT64_MAX.                            *)
(***************************************************************************)
EXTENDS Naturals, Sequences

CONSTANTS
  Debounce, Hold,
  MaxTtl,      \* 30000 ms
  ButtonTime,  \* the largest time
  ButtonGap,   \* bound on the time between two samples
  Contents,    \* request contents
  None

ASSUME ButtonConstants ==
  /\ {Debounce, Hold, MaxTtl, ButtonGap} \subseteq Nat \ {0}
  /\ ButtonTime \in Nat
  /\ None \notin Contents /\ None \notin [at : Nat]

VARIABLES
  buttonNow,     \* time of the last call; calls are at least one unit apart
  m,             \* bull_machine
  decision,      \* history: what bull_buttons last returned that was not NONE
  buttonSamples  \* history: the samples since the request

buttonVars == <<buttonNow, m, decision, buttonSamples>>

\* bull_clear.
Cleared(healthy) ==
  [state |-> IF healthy THEN "IDLE" ELSE "ERROR", request |-> None, deadline |-> 0,
   armed |-> FALSE, release |-> None, yes |-> None, no |-> None]

\* Start of a tracked interval: kept while tracking, else now.
Since(old, t) == IF old = None THEN [at |-> t] ELSE old

Lasts(since, d, t) == since # None /\ t - since.at >= d

ButtonInit ==
  /\ buttonNow = 0
  /\ m = Cleared(TRUE)
  /\ decision = "NONE"
  /\ buttonSamples = <<>>

Later(t) == t \in (buttonNow + 1)..(buttonNow + ButtonGap) /\ t <= ButtonTime

AcceptsRequest == m.state = "IDLE"

\* Every request needs a fresh stable release followed by a new press.
Pending(r, deadline) ==
  [Cleared(TRUE) EXCEPT !.state = "PENDING", !.request = r, !.deadline = deadline]

\* bull_request.
ButtonRequest(r, t, ttl) ==
  /\ Later(t)
  /\ AcceptsRequest
  /\ t + ttl <= ButtonTime
  /\ buttonNow' = t
  /\ m' = Pending(r, t + ttl)
  /\ decision' = "NONE"
  /\ buttonSamples' = <<>>

\* bull_clear, by the owner of the machine once it has used the decision.
Clear(healthy) ==
  /\ m' = Cleared(healthy)
  /\ decision' = "NONE"
  /\ buttonSamples' = <<>>
  /\ UNCHANGED buttonNow

\* bull_buttons while disconnected: the request is gone.
Unplugged(t) ==
  /\ Later(t)
  /\ buttonNow' = t
  /\ m' = Cleared(m.state # "ERROR")
  /\ decision' = "NONE"
  /\ buttonSamples' = <<>>

GivesUp(yes, no, t) == t >= m.deadline \/ (yes /\ no)

\* Mutant: a press that is interrupted goes on where it was.
YesKeeps(yes, t) == IF yes THEN Since(m.yes, t) ELSE m.yes

YesSince(yes, t) == IF yes THEN Since(m.yes, t) ELSE None

\* bull_buttons on a pending request: the machine and its decision.
Buttons(yes, no, t) ==
  LET noSince == IF no THEN Since(m.no, t) ELSE None
      noted == [m EXCEPT !.no = noSince, !.yes = IF no THEN None ELSE @]
      release == IF yes \/ no THEN None ELSE Since(m.release, t)
      yesSince == IF no THEN None ELSE YesSince(yes, t)
  IN IF GivesUp(yes, no, t)
     THEN [machine |-> Cleared(TRUE), decision |-> "DENY"]
     ELSE IF Lasts(noSince, Debounce, t)
     THEN [machine |-> [noted EXCEPT !.state = "DECIDED"], decision |-> "DENY"]
     ELSE IF ~m.armed
     THEN [machine |-> [noted EXCEPT !.release = release, !.armed = Lasts(release, Debounce, t)],
           decision |-> "NONE"]
     ELSE IF Lasts(yesSince, Hold, t)
     THEN [machine |-> [noted EXCEPT !.yes = yesSince, !.state = "DECIDED"],
           decision |-> "APPROVE"]
     ELSE [machine |-> [noted EXCEPT !.yes = yesSince], decision |-> "NONE"]

ButtonSample(yes, no, t) ==
  /\ Later(t)
  /\ buttonNow' = t
  /\ IF m.state = "PENDING"
     THEN LET b == Buttons(yes, no, t) IN
          /\ m' = b.machine
          /\ decision' = b.decision
          /\ buttonSamples' = Append(buttonSamples, [yes |-> yes, no |-> no, at |-> t])
     ELSE UNCHANGED <<m, decision, buttonSamples>>

ButtonNext ==
  \/ \E t \in 0..ButtonTime :
       \/ \E r \in Contents, ttl \in 1..MaxTtl : ButtonRequest(r, t, ttl)
       \/ \E yes, no \in BOOLEAN : ButtonSample(yes, no, t)
       \/ Unplugged(t)
  \/ \E healthy \in BOOLEAN : Clear(healthy)

ButtonSpec == ButtonInit /\ [][ButtonNext]_buttonVars

-----------------------------------------------------------------------------
\* Every sample from i to k shows exactly these buttons, for at least d.
Held(i, k, yes, no, d) ==
  /\ \A j \in i..k : buttonSamples[j].yes = yes /\ buttonSamples[j].no = no
  /\ buttonSamples[k].at - buttonSamples[i].at >= d

\* After the request both buttons were seen released for Debounce, then YES
\* alone in every sample for Hold, the last one now and before the deadline.
HeldYes ==
  LET n == Len(buttonSamples) IN
  /\ buttonSamples[n].at < m.deadline
  /\ \E k, y \in 1..n :
       /\ k < y
       /\ Held(y, n, TRUE, FALSE, Hold)
       /\ \E i \in 1..k : Held(i, k, FALSE, FALSE, Debounce)

\* NO alone was held for Debounce, or both buttons were pressed.
HeldNo ==
  \E i, k \in DOMAIN buttonSamples :
    \/ i <= k /\ Held(i, k, FALSE, TRUE, Debounce)
    \/ buttonSamples[k].yes /\ buttonSamples[k].no

\* A decision is deliberate (bull_buttons): APPROVE approves the request that is
\* stored after a fresh release and a full hold of YES in time; and NO wins: once
\* it was held, or both were pressed, the request is denied and no later sample
\* approves it.
DecisionsAreDeliberate ==
  /\ decision = "APPROVE" => m.state = "DECIDED" /\ m.request # None /\ HeldYes
  /\ HeldNo => decision = "DENY" /\ m.state # "PENDING"

-----------------------------------------------------------------------------
Marks == [at : Nat] \cup {None}

Machines ==
  [state : {"IDLE", "ERROR", "PENDING", "DECIDED"}, request : Contents \cup {None},
   deadline : Nat, armed : BOOLEAN, release : Marks, yes : Marks, no : Marks]

Sampled == [yes : BOOLEAN, no : BOOLEAN, at : Nat]

ButtonTyped == buttonNow \in Nat /\ m \in Machines /\ buttonSamples \in Seq(Sampled)

\* Every sample from i on shows exactly these buttons.
Showing(i, yes, no) ==
  \A j \in i..Len(buttonSamples) : buttonSamples[j].yes = yes /\ buttonSamples[j].no = no

\* A mark of the machine is the time of the sample some stretch began with.
Marked(mark, i, yes, no) == buttonSamples[i].at = mark.at /\ Showing(i, yes, no)

\* What the marks of a pending request say of the samples since it came: NO is
\* marked where its stretch began, at the latest; an armed machine has seen the
\* release, and its YES began after that.
PendingInv ==
  LET n == Len(buttonSamples) IN
  /\ decision = "NONE"
  /\ m.request # None
  /\ ~HeldNo
  /\ m.no # None => m.no.at <= buttonNow
  /\ \A i \in 1..n : Showing(i, FALSE, TRUE) => m.no # None /\ m.no.at <= buttonSamples[i].at
  /\ ~m.armed => m.yes = None
  /\ ~m.armed /\ m.release # None => \E i \in 1..n : Marked(m.release, i, FALSE, FALSE)
  /\ m.armed => \E k \in 1..n :
       /\ \E i \in 1..k : Held(i, k, FALSE, FALSE, Debounce)
       /\ m.yes # None => \E y \in (k + 1)..n : Marked(m.yes, y, TRUE, FALSE)

ButtonInv ==
  /\ ButtonTyped
  /\ m.state = "PENDING" => PendingInv
  /\ m.state = "DECIDED" =>
       /\ decision \in {"APPROVE", "DENY"}
       /\ decision = "APPROVE" => m.request # None /\ HeldYes /\ ~HeldNo
  /\ m.state \in {"IDLE", "ERROR"} =>
       decision = "DENY" \/ (decision = "NONE" /\ buttonSamples = <<>>)
=============================================================================
