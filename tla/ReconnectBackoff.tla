-------------------------- MODULE ReconnectBackoff --------------------------
(***************************************************************************)
(* How long reconnLoop of pkg/websocket/websocket.go waits before it dials *)
(* again: the delay, its escalation by nextBackoff and the decision of     *)
(* nextDelayAfterDrop whether a dropped connection had been a success.     *)
(* Time advances in ticks, only while the loop waits; a dial takes as long *)
(* as it takes and its length is nobody's concern here.  Timers are never  *)
(* late.                                                                   *)
(*                                                                         *)
(* BaseWebSocket has the rest of the loop, and leaves every delay open.    *)
(***************************************************************************)
EXTENDS Integers

CONSTANTS Base,       \* opts.ReconnectInterval, after Connect's defaults
          MaxDelay,   \* opts.ReconnectMaxInterval
          MinStable,  \* opts.MinStableConnectionMs; zero and below disables it
          MaxStreak   \* bound of the history variable streak: enough to reach MaxDelay

\* Connect makes the intervals positive.  It does not compare them: with a cap
\* below the base, which no caller in the repository sets, a failure would shorten
\* the wait.
ASSUME BackoffAssumption ==
  /\ Base \in Nat \ {0} /\ MaxDelay \in Nat /\ MaxDelay >= Base /\ MinStable \in Int
  /\ MaxStreak \in Nat /\ Base * 2 ^ MaxStreak >= MaxDelay

VARIABLES
  pc,          \* reconnLoop: at the top of its loop, waiting, or in dialSync
  delay,       \* delay
  timer,       \* what is left of the time.After it waits for
  connected,   \* Status() == StatusConnected
  established, \* b.connEstablishedAt is not the zero time
  age,         \* time.Since(b.connEstablishedAt), up to MinStable
  lived,       \* history: how long that connection was up, up to MinStable
  idle,        \* history: time since a dial ended or a flap was seen, up to MaxDelay
  streak       \* history: failed dials and flaps since the backoff restarted, up to MaxStreak

backoffVars == <<pc, delay, timer, connected, established, age, lived, idle, streak>>

\* Bounds of the clocks and of the history; no comparison tells larger values apart.
Window == IF MinStable > 0 THEN MinStable ELSE 0
Upto(n, bound) == IF n > bound THEN bound ELSE n

\* Every variable has its type; the delay never leaves Base .. MaxDelay.
BackoffTypeOK ==
  /\ pc \in {"top", "waiting", "dialing"}
  /\ delay \in Base .. MaxDelay
  /\ timer \in 0 .. MaxDelay
  /\ connected \in BOOLEAN /\ established \in BOOLEAN
  /\ age \in 0 .. Window /\ lived \in 0 .. Window
  /\ idle \in 0 .. MaxDelay
  /\ streak \in 0 .. MaxStreak

\* Connect dialled and then started the loop.
BackoffInit ==
  /\ pc = "top" /\ delay = Base /\ timer = 0
  /\ connected = TRUE /\ established = TRUE
  /\ age = 0 /\ lived = 0 /\ idle = 0 /\ streak = 0

-----------------------------------------------------------------------------
\* Mutant: the cap is applied before the delay is doubled.
nextBackoffUncapped(d) == 2 * Upto(d, MaxDelay)

nextBackoff(d) == Upto(2 * d, MaxDelay)

\* Mutant: the window itself is not long enough.
FlappedAtWindow(t) == MinStable > 0 /\ t <= MinStable

\* nextDelayAfterDrop: whether a drop is a flap, and the delay to use after it.
Flapped(t) == MinStable > 0 /\ t < MinStable
nextDelayAfterDrop(d, t) == IF Flapped(t) THEN nextBackoff(d) ELSE Base

\* Mutant: a connected loop waits out the last backoff.
LoopTopAlwaysDelay ==
  /\ pc = "top"
  /\ pc' = "waiting"
  /\ timer' = delay
  /\ UNCHANGED <<delay, connected, established, age, lived, idle, streak>>

\* The top of the loop: how long to wait depends on the status of this moment.
LoopTop ==
  /\ pc = "top"
  /\ pc' = "waiting"
  /\ timer' = IF connected THEN Base ELSE delay
  /\ UNCHANGED <<delay, connected, established, age, lived, idle, streak>>

Elapsed == pc = "waiting" /\ timer = 0

\* Connected, or ShouldConnect wants no connection: continue.
PollNothing ==
  /\ Elapsed
  /\ pc' = "top"
  /\ UNCHANGED <<delay, timer, connected, established, age, lived, idle, streak>>

\* Mutant: the escalated delay is computed, and the dial follows at once.
PollFlapDials ==
  /\ Elapsed /\ ~connected /\ established /\ Flapped(age)
  /\ established' = FALSE
  /\ delay' = nextDelayAfterDrop(delay, age)
  /\ pc' = "dialing"
  /\ idle' = 0 /\ streak' = Upto(streak + 1, MaxStreak)
  /\ UNCHANGED <<timer, connected, age, lived>>

\* The connection that dropped was a flap: back to the top to wait longer.
PollFlap ==
  /\ Elapsed /\ ~connected /\ established /\ Flapped(age)
  /\ established' = FALSE
  /\ delay' = nextDelayAfterDrop(delay, age)
  /\ pc' = "top"
  /\ idle' = 0 /\ streak' = Upto(streak + 1, MaxStreak)
  /\ UNCHANGED <<timer, connected, age, lived>>

\* It had been stable: restart the backoff and dial.
PollStable ==
  /\ Elapsed /\ ~connected /\ established /\ ~Flapped(age)
  /\ established' = FALSE
  /\ delay' = nextDelayAfterDrop(delay, age)
  /\ pc' = "dialing"
  /\ streak' = 0
  /\ UNCHANGED <<timer, connected, age, lived, idle>>

\* No connection since the last round: dial.
PollRetry ==
  /\ Elapsed /\ ~connected /\ ~established
  /\ pc' = "dialing"
  /\ UNCHANGED <<delay, timer, connected, established, age, lived, idle, streak>>

\* Mutant: only flaps escalate.
DialFailsKeepsDelay ==
  /\ pc = "dialing"
  /\ pc' = "top"
  /\ idle' = 0 /\ streak' = Upto(streak + 1, MaxStreak)
  /\ UNCHANGED <<delay, timer, connected, established, age, lived>>

\* dialSync failed.
DialFails ==
  /\ pc = "dialing"
  /\ delay' = nextBackoff(delay)
  /\ pc' = "top"
  /\ idle' = 0 /\ streak' = Upto(streak + 1, MaxStreak)
  /\ UNCHANGED <<timer, connected, established, age, lived>>

\* Mutant: a successful dial restarts the backoff.
DialSucceedsResets ==
  /\ pc = "dialing"
  /\ connected' = TRUE /\ established' = TRUE
  /\ age' = 0 /\ lived' = 0 /\ idle' = 0
  /\ pc' = "top"
  /\ delay' = Base
  /\ UNCHANGED <<timer, streak>>

\* dialSync succeeded, OnConnect returned: setConnEstablishedAt(now).  The delay stays.
DialSucceeds ==
  /\ pc = "dialing"
  /\ connected' = TRUE /\ established' = TRUE
  /\ age' = 0 /\ lived' = 0 /\ idle' = 0
  /\ pc' = "top"
  /\ UNCHANGED <<delay, timer, streak>>

\* The connection is lost; the loop finds out when it next looks.
Drop ==
  /\ connected
  /\ connected' = FALSE
  /\ UNCHANGED <<pc, delay, timer, established, age, lived, idle, streak>>

Tick ==
  /\ pc = "waiting" /\ timer > 0
  /\ timer' = timer - 1
  /\ age' = Upto(age + 1, Window)
  /\ lived' = IF connected THEN Upto(lived + 1, Window) ELSE lived
  /\ idle' = Upto(idle + 1, MaxDelay)
  /\ UNCHANGED <<pc, delay, connected, established, streak>>

Poll == PollNothing \/ PollFlap \/ PollStable \/ PollRetry

BackoffNext == LoopTop \/ Poll \/ DialFails \/ DialSucceeds \/ Drop \/ Tick

BackoffSpec == BackoffInit /\ [][BackoffNext]_backoffVars
-----------------------------------------------------------------------------
(* Properties                                                              *)

\* No storm: whatever the venue does, refuse the dial or accept it and close, a
\* dial comes no sooner after the previous one than the backoff that is due.
DialsSpaced == [][pc # "dialing" /\ pc' = "dialing" => idle >= delay']_backoffVars

\* The mere fact that a dial succeeded never shortens the delay: that takes a
\* connection that the loop measured as stable (the comment in reconnLoop).
ResetOnlyAfterStable == [][delay' < delay => established /\ age >= MinStable]_backoffVars

\* A connection that really was up for MinStable is never taken for a flap.
StableNeverPunished == [][streak' > streak /\ established => lived < MinStable]_backoffVars

\* A loss is noticed within Base, however long the delay has grown meanwhile,
\* if it happens while the loop waits.
LossNoticedWithinBase == pc = "waiting" /\ connected => timer <= Base

\* What the doc of MinStableConnectionMs promises: a connection that was up for
\* less than MinStable escalates the backoff, when its loss is accounted for.
ShortConnectionEscalates ==
  [][established /\ ~established' /\ lived < MinStable => delay' = nextBackoff(delay)]_backoffVars
=============================================================================
