----------------------- MODULE ReconnectBackoffProofs -----------------------
(***************************************************************************)
(* The reconnect loop never storms, for any base, cap and stability        *)
(* window.                                                                 *)
(***************************************************************************)
EXTENDS ReconnectBackoff, TLAPS

\* What the loop still has to wait, with what it has waited, is what is due.
Due == IF established THEN Base ELSE delay
Paced == pc = "waiting" => timer + idle >= Due

\* A connection is accounted for when its loss is noticed, before the next dial,
\* and the loop's measure of its lifetime is never too short.
Accounted ==
  /\ connected => established
  /\ pc = "dialing" => ~established
  /\ lived <= age

BackoffInv == BackoffTypeOK /\ Paced /\ Accounted /\ LossNoticedWithinBase
-----------------------------------------------------------------------------
\* The backoff stays between the base and the cap, and never shortens.
LEMMA NextBackoffRange ==
  ASSUME NEW d \in Base .. MaxDelay
  PROVE  nextBackoff(d) \in Base .. MaxDelay /\ nextBackoff(d) >= d
<1>1. Base \in Nat /\ MaxDelay \in Nat
  BY BackoffAssumption
<1> QED
  BY <1>1 DEF nextBackoff, Upto

\* The facts about the constants that the steps below use; the exponent of
\* BackoffAssumption is of no concern to them.
LEMMA ConstantTypes ==
  /\ Base \in Nat /\ Base > 0 /\ MaxDelay \in Nat /\ MaxDelay >= Base
  /\ MinStable \in Int /\ MaxStreak \in Nat
  /\ Window \in Nat /\ (MinStable > 0 => Window = MinStable)
<1>1. Base \in Nat /\ Base > 0 /\ MaxDelay \in Nat /\ MaxDelay >= Base
        /\ MinStable \in Int /\ MaxStreak \in Nat
  BY BackoffAssumption
<1> QED
  BY <1>1 DEF Window

\* The initial state satisfies the invariant.
LEMMA BackoffInitInv == BackoffInit => BackoffInv
  BY ConstantTypes DEF BackoffInit, BackoffInv, BackoffTypeOK, Paced, Accounted, LossNoticedWithinBase

\* Every step keeps it.
LEMMA BackoffStep == BackoffInv /\ [BackoffNext]_backoffVars => BackoffInv'
<1> USE ConstantTypes DEF BackoffInv, BackoffTypeOK, Paced, Due, Accounted, LossNoticedWithinBase
<1>1. ASSUME BackoffInv, LoopTop PROVE BackoffInv'
  BY <1>1 DEF LoopTop
<1>2. ASSUME BackoffInv, PollNothing PROVE BackoffInv'
  BY <1>2 DEF PollNothing, Elapsed
<1>3. ASSUME BackoffInv, PollFlap PROVE BackoffInv'
  <2>1. delay' \in Base .. MaxDelay
    BY <1>3, NextBackoffRange DEF PollFlap, nextDelayAfterDrop
  <2>2. streak' \in 0 .. MaxStreak
    BY <1>3 DEF PollFlap, Upto
  <2> QED
    BY <1>3, <2>1, <2>2 DEF PollFlap, Elapsed
<1>4. ASSUME BackoffInv, PollStable PROVE BackoffInv'
  <2>1. delay' = Base /\ streak' = 0
    BY <1>4 DEF PollStable, nextDelayAfterDrop, Flapped
  <2>2. pc' = "dialing" /\ established' = FALSE /\ connected = FALSE
           /\ UNCHANGED <<timer, connected, age, lived, idle>>
    BY <1>4 DEF PollStable, Flapped
  <2>3. BackoffTypeOK'
    <3>1. delay' \in Base .. MaxDelay /\ streak' \in 0 .. MaxStreak
      BY <2>1
    <3> QED
      BY <1>4, <2>2, <3>1, Zenon
  <2>4. Paced' /\ LossNoticedWithinBase'
    BY <2>2
  <2>5. Accounted'
    BY <2>2, <1>4
  <2> QED
    BY <2>3, <2>4, <2>5
<1>5. ASSUME BackoffInv, PollRetry PROVE BackoffInv'
  BY <1>5 DEF PollRetry, Elapsed
<1>6. ASSUME BackoffInv, DialFails PROVE BackoffInv'
  <2>1. delay' \in Base .. MaxDelay
    BY <1>6, NextBackoffRange DEF DialFails
  <2>2. streak' \in 0 .. MaxStreak
    BY <1>6 DEF DialFails, Upto
  <2> QED
    BY <1>6, <2>1, <2>2 DEF DialFails
<1>7. ASSUME BackoffInv, DialSucceeds PROVE BackoffInv'
  BY <1>7 DEF DialSucceeds
<1>8. ASSUME BackoffInv, Drop PROVE BackoffInv'
  BY <1>8 DEF Drop
<1>9. ASSUME BackoffInv, Tick PROVE BackoffInv'
  BY <1>9 DEF Tick, Upto
<1>10. ASSUME BackoffInv, UNCHANGED backoffVars PROVE BackoffInv'
  BY <1>10 DEF backoffVars
<1> QED
  BY <1>1, <1>2, <1>3, <1>4, <1>5, <1>6, <1>7, <1>8, <1>9, <1>10 DEF BackoffNext, Poll

\* The invariant holds in every reachable state.
LEMMA BackoffInvariant == BackoffSpec => []BackoffInv
  BY BackoffInitInv, BackoffStep, PTL DEF BackoffSpec

\* Every variable of the loop keeps its type: the delay stays between the base and the cap.
THEOREM BackoffTypeCorrect == BackoffSpec => []BackoffTypeOK
<1>1. BackoffInv => BackoffTypeOK
  BY DEF BackoffInv
<1> QED
  BY <1>1, BackoffInvariant, PTL

\* However long the backoff of earlier losses has grown, the loop looks at a connection
\* it has within Base.
THEOREM BackoffBounded == BackoffSpec => []LossNoticedWithinBase
<1>1. BackoffInv => LossNoticedWithinBase
  BY DEF BackoffInv
<1> QED
  BY <1>1, BackoffInvariant, PTL

\* Two dials are at least the due backoff apart, whatever the venue does.
THEOREM NoReconnectStorm == BackoffSpec => DialsSpaced
<1>1. BackoffInv /\ [BackoffNext]_backoffVars => [pc # "dialing" /\ pc' = "dialing" => idle >= delay']_backoffVars
  <2> SUFFICES ASSUME BackoffInv, BackoffNext, pc # "dialing", pc' = "dialing"
               PROVE  idle >= delay'
    BY DEF backoffVars
  <2> USE ConstantTypes DEF BackoffInv, BackoffTypeOK, Paced, Due, Accounted
  <2>1. PollStable \/ PollRetry
    BY DEF BackoffNext, Poll, LoopTop, PollNothing, PollFlap, DialFails, DialSucceeds, Drop, Tick
  <2>2. CASE PollStable
    BY <2>2 DEF PollStable, Elapsed, nextDelayAfterDrop
  <2>3. CASE PollRetry
    BY <2>3 DEF PollRetry, Elapsed
  <2> QED
    BY <2>1, <2>2, <2>3
<1> QED
  BY <1>1, BackoffInvariant, PTL DEF BackoffSpec, DialsSpaced

\* A shorter delay takes a connection that lasted: a dial that merely succeeds
\* does not restart the backoff.
THEOREM BackoffRestartsOnlyAfterStable == BackoffSpec => ResetOnlyAfterStable
<1>1. BackoffInv /\ [BackoffNext]_backoffVars => [delay' < delay => established /\ age >= MinStable]_backoffVars
  <2> SUFFICES ASSUME BackoffInv, BackoffNext, delay' < delay
               PROVE  established /\ age >= MinStable
    BY DEF backoffVars
  <2> USE ConstantTypes DEF BackoffInv, BackoffTypeOK
  <2>1. CASE PollStable
    BY <2>1 DEF PollStable, Flapped
  <2>2. CASE PollFlap
    BY <2>2, NextBackoffRange DEF PollFlap, nextDelayAfterDrop
  <2>3. CASE DialFails
    BY <2>3, NextBackoffRange DEF DialFails
  <2> QED
    BY <2>1, <2>2, <2>3 DEF BackoffNext, Poll, LoopTop, PollNothing, PollRetry, DialSucceeds, Drop, Tick
<1> QED
  BY <1>1, BackoffInvariant, PTL DEF BackoffSpec, ResetOnlyAfterStable

\* A connection that was up for MinStable does not escalate the backoff.
THEOREM StableConnectionsNeverPunished == BackoffSpec => StableNeverPunished
<1>1. BackoffInv /\ [BackoffNext]_backoffVars => [streak' > streak /\ established => lived < MinStable]_backoffVars
  <2> SUFFICES ASSUME BackoffInv, BackoffNext, streak' > streak, established
               PROVE  lived < MinStable
    BY DEF backoffVars
  <2> USE ConstantTypes DEF BackoffInv, BackoffTypeOK, Accounted
  <2>1. CASE PollFlap
    BY <2>1 DEF PollFlap, Flapped
  <2>2. CASE PollStable
    BY <2>2 DEF PollStable, Flapped
  <2>3. CASE DialFails
    BY <2>3 DEF DialFails
  <2>4. CASE LoopTop \/ PollNothing \/ PollRetry \/ DialSucceeds \/ Drop \/ Tick
    <3>1. streak' = streak
      BY <2>4, Zenon DEF LoopTop, PollNothing, PollRetry, DialSucceeds, Drop, Tick
    <3>2. streak \in Nat
      OBVIOUS
    <3> QED
      BY <3>1, <3>2
  <2> HIDE DEF BackoffInv
  <2> QED
    BY <2>1, <2>2, <2>3, <2>4, Zenon DEF BackoffNext, Poll
<1> QED
  BY <1>1, BackoffInvariant, PTL DEF BackoffSpec, StableNeverPunished

=============================================================================
