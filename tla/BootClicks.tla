----------------------------- MODULE BootClicks -----------------------------
(***************************************************************************)
(* The diagnostic firmware of the approval device: the click decoder of    *)
(* boot_clicks.c inside the main loop and the USB callbacks of main.c.     *)
(* The callbacks run in tud_task, between two samples of the button.       *)
(*                                                                         *)
(* Times are in units of the model; the code's 30, 1500, 600 and 30000 ms  *)
(* are constants.  MaxTime stands for UINT64_MAX: subtractions of earlier  *)
(* times never wrap, and clicks_begin refuses a deadline that would.       *)
(***************************************************************************)
EXTENDS Naturals, Sequences, SequencesExt, FiniteSets

CONSTANTS
  Debounce, LongPress, Quiet, Deadline,
  MaxTime,     \* the largest time
  MaxGap,      \* bound on the time between two samples
  Challenges,  \* challenges a host may send
  None

ClickConstants ==
  /\ {Debounce, LongPress, Quiet, Deadline, MaxGap} \subseteq Nat \ {0}
  /\ MaxTime \in Nat

VARIABLES
  now,        \* ms since boot at the last sample
  connected,  \* mounted and not suspended
  gesture,    \* the decoder's state
  arm,        \* arm_test
  challenge,  \* status[32..63]
  event,      \* status[24]
  samples,    \* history: what the decoder was given since clicks_begin
  subject     \* history: the challenge clicks_begin was called for

deviceVars == <<now, connected, gesture, arm, challenge, event, samples, subject>>

Cleared ==
  [pending |-> FALSE, armed |-> FALSE, raw |-> FALSE, stable |-> FALSE,
   pressing |-> FALSE, clicks |-> 0, changed |-> 0, pressed_at |-> 0,
   deadline |-> 0]

\* clicks_begin; unchanged when it returns false.
Begin(c, pressed, t) ==
  IF c.pending \/ t + Deadline > MaxTime THEN c
  ELSE [Cleared EXCEPT !.pending = TRUE, !.raw = pressed, !.stable = pressed,
                       !.changed = t, !.deadline = t + Deadline]

\* The raw level and the time it was taken on.
Sampled(c, pressed, t) ==
  IF pressed # c.raw THEN [c EXCEPT !.raw = pressed, !.changed = t] ELSE c

\* The raw level has lasted long enough to become the stable one.
Settles(c, t) == c.stable # c.raw /\ t - c.changed >= Debounce

Settled(c, t) ==
  IF ~Settles(c, t) THEN c
  ELSE IF c.raw THEN [c EXCEPT !.stable = TRUE, !.pressing = TRUE, !.pressed_at = t]
  ELSE [c EXCEPT !.stable = FALSE, !.pressing = FALSE,
                 !.clicks = IF c.pressing THEN @ + 1 ELSE @]

\* A held button at request arrival cannot contribute a click.
Arms(c, pressed, t) == ~pressed /\ t - c.changed >= Debounce

\* Mutant: YES on the second release itself.
NoQuiet(c, t) == c.clicks > 1 /\ ~c.raw /\ ~c.stable

\* A third press, or a bounce, postpones the answer.
IsQuiet(c, t) == c.clicks > 0 /\ ~c.raw /\ ~c.stable /\ t - c.changed >= Quiet

\* clicks_tick: the result and the next state, Cleared when it finishes.
Tick(c, pressed, conn, t) ==
  LET s == Sampled(c, pressed, t)
      d == Settled(s, t)
      Finish(r) == [result |-> r, state |-> Cleared]
      Wait(x) == [result |-> "WAIT", state |-> x]
  IN CASE ~conn -> Finish("CANCEL")
       [] conn /\ ~c.pending -> Wait(c)
       [] conn /\ c.pending ->
            IF t >= c.deadline \/ t < c.changed THEN Finish("CANCEL")
            ELSE IF ~c.armed
            THEN Wait(IF Arms(s, pressed, t)
                      THEN [s EXCEPT !.armed = TRUE, !.stable = FALSE] ELSE s)
            ELSE IF d.clicks >= 3 THEN Finish("NO")
            ELSE IF d.pressing /\ t - d.pressed_at >= LongPress THEN Finish("CANCEL")
            ELSE IF IsQuiet(d, t)
            THEN Finish(IF d.clicks = 2 THEN "YES" ELSE "CANCEL")
            ELSE Wait(d)

-----------------------------------------------------------------------------
Init ==
  /\ now = 0
  /\ connected = TRUE
  /\ gesture = Cleared
  /\ arm = FALSE
  /\ challenge = None
  /\ event = "WAIT"
  /\ samples = <<>>
  /\ subject = None

\* cancel_test.
CancelTest ==
  /\ gesture' = Cleared
  /\ arm' = FALSE
  /\ challenge' = None
  /\ event' = "WAIT"
  /\ samples' = <<>>
  /\ subject' = None

\* What cancel_test leaves as the result before the challenge is stored.
NoResult == "WAIT"

\* ARM_DIAGNOSTIC, refused while a test runs: cancel_test, then the challenge.
Arm(ch) ==
  /\ connected
  /\ ~gesture.pending /\ ~arm
  /\ gesture' = Cleared
  /\ arm' = TRUE
  /\ challenge' = ch
  /\ event' = NoResult
  /\ samples' = <<>>
  /\ subject' = None
  /\ UNCHANGED <<now, connected>>

\* CANCEL, or a report that is not one of the three commands.
Cancel == connected /\ CancelTest /\ UNCHANGED <<now, connected>>

\* Unmount or suspend: the callbacks, and the loop while it lasts.
Disconnect == connected /\ connected' = FALSE /\ CancelTest /\ UNCHANGED now

Connect ==
  /\ ~connected
  /\ connected' = TRUE
  /\ UNCHANGED <<now, gesture, arm, challenge, event, samples, subject>>

\* One pass of the main loop that samples the button.
Sample(t, pressed) ==
  /\ t \in (now + 1)..(now + MaxGap) /\ t <= MaxTime
  /\ now' = t
  /\ LET g == IF arm /\ connected THEN Begin(gesture, pressed, t) ELSE gesture
         began == g # gesture
         tick == Tick(g, pressed, connected, t)
     IN /\ gesture' = tick.state
        /\ arm' = (arm /\ ~connected)
        /\ event' = IF tick.result # "WAIT" /\ connected THEN tick.result ELSE event
        /\ subject' = IF began THEN challenge ELSE subject
        /\ samples' =
             IF g.pending
             THEN Append(IF began THEN <<>> ELSE samples, [pressed |-> pressed, at |-> t])
             ELSE <<>>
  /\ UNCHANGED <<connected, challenge>>

Next ==
  \/ \E t \in 1..MaxTime, pressed \in BOOLEAN : Sample(t, pressed)
  \/ \E ch \in Challenges : Arm(ch)
  \/ Cancel \/ Disconnect \/ Connect

Spec == Init /\ [][Next]_deviceVars

-----------------------------------------------------------------------------
\* The reference definition of a click, from the samples alone: a level is
\* stable at a sample when it has been the level of every sample for Debounce;
\* a click is a stable release that follows a stable press that follows a
\* stable release.
Stable(k) ==
  \E i \in 1..k :
    /\ \A m \in i..k : samples[m].pressed = samples[k].pressed
    /\ samples[k].at - samples[i].at >= Debounce

StableAt == {k \in DOMAIN samples : Stable(k)}

Follows(k, j) == j < k /\ j \in StableAt /\ \A m \in StableAt : ~(j < m /\ m < k)

Released == \E i \in StableAt : ~samples[i].pressed

Clicks ==
  Cardinality({k \in StableAt :
    /\ ~samples[k].pressed
    /\ \E j \in StableAt :
         /\ samples[j].pressed /\ Follows(k, j)
         /\ \E i \in StableAt : i < j /\ ~samples[i].pressed})

\* YES is two clicks and a quiet release, NO is three clicks, made in time; and
\* the result a host reads next to a challenge is the answer to that challenge:
\* no command replaces the challenge under a gesture, or leaves an old result
\* next to a new one (clicks_step and the test commands of main.c).
AnswersAreGestures ==
  LET n == Len(samples) IN
  /\ event # "WAIT" => challenge = subject /\ challenge # None
  /\ samples # <<>> /\ event \in {"YES", "NO"} =>
       /\ samples[n].at - samples[1].at < Deadline
       /\ event = "NO" => Clicks = 3
       /\ event = "YES" =>
            /\ Clicks = 2
            /\ \E i \in 1..n : /\ \A m \in i..n : ~samples[m].pressed
                               /\ samples[n].at - samples[i].at >= Quiet
=============================================================================
