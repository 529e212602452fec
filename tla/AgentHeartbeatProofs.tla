------------------------ MODULE AgentHeartbeatProofs ------------------------
(***************************************************************************)
(* Proofs about AgentHeartbeat, for every number of upstreams, every set   *)
(* of intervals, every cap and every width of the durations that has room  *)
(* for the doubled cap.                                                    *)
(***************************************************************************)
EXTENDS AgentHeartbeat, TLAPS

(* Doubling a duration below the cap, or at it, does not wrap, and the     *)
(* wrapped value of any doubled duration is a duration again.              *)
LEMMA Doubling ==
    ASSUME NEW b \in Durations
    PROVE  /\ Wrap(2 * b) \in Durations
           /\ 0 <= b /\ b <= MaxBackoff => Wrap(2 * b) = 2 * b
  BY DurationsFit DEF Durations, Wrap

(* What the next pause is, whatever the last one was.                      *)
LEMMA NextPause ==
    ASSUME NEW b \in Durations, NEW i \in Intervals
    PROVE  /\ NextBackoff(b, i) \in Durations
           /\ NextBackoff(b, i) <= MaxBackoff \/ NextBackoff(b, i) <= i
           /\ 0 < b /\ b <= MaxBackoff
                 => b <= NextBackoff(b, i) /\ NextBackoff(b, i) <= MaxBackoff
  <1>1. i \in Durations
    BY IntervalsArePositive, DurationsFit DEF Durations
  <1>2. MaxBackoff \in Durations
    BY DurationsFit DEF Durations
  <1>3. Wrap(2 * b) \in Durations
    BY Doubling
  <1>4. \A d \in Durations : d \in Int
    BY DurationsFit DEF Durations
  <1>5. CASE b = 0
    BY <1>1, <1>4, <1>5, DurationsFit DEF NextBackoff
  <1>6. CASE b # 0
    <2>1. NextBackoff(b, i) = IF Wrap(2 * b) > MaxBackoff
                              THEN MaxBackoff ELSE Wrap(2 * b)
      BY <1>6 DEF NextBackoff
    <2>2. 0 < b /\ b <= MaxBackoff => Wrap(2 * b) = 2 * b
      BY <1>4, Doubling
    <2>3. /\ b \in Int /\ Wrap(2 * b) \in Int /\ MaxBackoff \in Int
      BY <1>2, <1>3, <1>4
    <2>4. CASE Wrap(2 * b) > MaxBackoff
      BY <2>1, <2>3, <2>4, <1>2
    <2>5. CASE ~(Wrap(2 * b) > MaxBackoff)
      BY <2>1, <2>2, <2>3, <2>5, <1>3
    <2> QED
      BY <2>4, <2>5
  <1> QED
    BY <1>5, <1>6

(* A pause that the timer is set to, from a bounded back-off.              *)
LEMMA PauseIsDuration ==
    ASSUME NEW b \in Durations, NEW i \in Intervals
    PROVE  /\ Pause(b, i) \in Durations
           /\ 0 < Pause(b, i)
           /\ b <= MaxBackoff \/ b <= i
                 => Pause(b, i) <= i \/ Pause(b, i) <= MaxBackoff
  BY IntervalsArePositive, DurationsFit DEF Pause, Durations

(* The server's answer, usable or not, leaves an interval.                 *)
LEMMA AdoptedIsInterval ==
    ASSUME NEW g \in Intervals \cup {Unusable}, NEW i \in Intervals
    PROVE  Adopted(g, i) \in Intervals
  BY DEF Adopted

(* The initial state of the loop satisfies the invariant.                  *)
THEOREM InitialInvariant == Init => IInv
  <1> SUFFICES ASSUME Init PROVE IInv
    OBVIOUS
  <1>1. interval \in Durations /\ 0 < interval /\ interval \in Int
    BY IntervalsArePositive, DurationsFit DEF Init, Durations
  <1>2. 0 \in Durations /\ 1 \in Upstreams
    BY DurationsFit, SomeUpstream DEF Durations, Upstreams
  <1>3. TypeOK
    BY <1>1, <1>2 DEF Init, TypeOK
  <1>4. wait = Pause(backoff, interval)
    BY DEF Init, Pause
  <1> QED
    BY <1>1, <1>3, <1>4 DEF IInv, Init

(* Every step of the loop and of its environment keeps the invariant.      *)
THEOREM StepInvariant == IInv /\ [Next]_vars => IInv'
  <1> SUFFICES ASSUME IInv, [Next]_vars PROVE IInv'
    OBVIOUS
  <1> USE DEF IInv
  <1>1. CASE Wake
    <2>1. 1 \in Upstreams
      BY SomeUpstream DEF Upstreams
    <2> QED
      BY <1>1, <2>1 DEF Wake, TypeOK, environment, Pause
  <1>2. CASE AskNext
    <2>1. target' \in Upstreams
      BY <1>2, SomeUpstream DEF AskNext, TypeOK, Upstreams
    <2> QED
      BY <1>2, <2>1 DEF AskNext, TypeOK, environment, Pause
  <1>3. CASE BeatFails
    <2>1. backoff' = NextBackoff(backoff, interval)
      BY <1>3 DEF BeatFails
    <2>2. backoff \in Durations /\ interval \in Intervals /\ interval' = interval
      BY <1>3 DEF TypeOK, BeatFails
    <2>3. /\ backoff' \in Durations
          /\ backoff' <= MaxBackoff \/ backoff' <= interval'
      BY <2>1, <2>2, NextPause
    <2>4. wait' = Pause(backoff', interval')
      BY <1>3, <2>2 DEF BeatFails
    <2>5. wait' \in Durations
      BY <2>2, <2>3, <2>4, PauseIsDuration
    <2>6. TypeOK'
      BY <1>3, <2>2, <2>3, <2>5 DEF TypeOK, BeatFails, environment
    <2>7. backoff' < 0 => interval' > MaxBackoff
      <3> SUFFICES ASSUME backoff' < 0, ~(interval > MaxBackoff) PROVE FALSE
        BY <2>2
      <3>1. /\ backoff \in Int /\ interval \in Int /\ MaxBackoff \in Int
            /\ 0 < interval /\ 0 < MaxBackoff
        BY <2>2, IntervalsArePositive, DurationsFit DEF Durations
      <3>2. 0 <= backoff /\ backoff <= MaxBackoff
        BY <3>1
      <3>3. CASE backoff = 0
        BY <2>1, <3>1, <3>3 DEF NextBackoff
      <3>4. CASE 0 < backoff
        <4>1. backoff <= backoff'
          BY <2>1, <2>2, <3>2, <3>4, NextPause
        <4> QED
          BY <4>1, <3>1, <3>4, <2>3, DurationsFit DEF Durations
      <3> QED
        BY <3>1, <3>2, <3>3, <3>4
    <2> QED
      BY <2>3, <2>4, <2>6, <2>7
  <1>4. CASE BeatTaken
    <2>1. given[target] \in Intervals \cup {Unusable} /\ interval \in Intervals
      BY DEF TypeOK
    <2>2. interval' \in Intervals
      BY <1>4, <2>1, AdoptedIsInterval DEF BeatTaken
    <2>3. backoff' = 0 /\ wait' = Pause(backoff', interval')
      BY <1>4 DEF BeatTaken
    <2>4. 0 \in Durations
      BY DurationsFit DEF Durations
    <2>5. wait' \in Durations
      BY <2>2, <2>3, <2>4, PauseIsDuration
    <2>6. TypeOK'
      BY <1>4, <2>2, <2>3, <2>4, <2>5 DEF TypeOK, BeatTaken, environment
    <2> QED
      BY <2>3, <2>6, DurationsFit
  <1>5. CASE Return
    BY <1>5 DEF Return, TypeOK, environment, Pause
  <1>6. CASE Cancel
    BY <1>6 DEF Cancel, TypeOK, environment, Pause
  <1>7. CASE ChangeReach
    <2>1. up' \in SUBSET Upstreams
      BY <1>7 DEF ChangeReach
    <2> QED
      BY <1>7, <2>1 DEF ChangeReach, TypeOK, Pause
  <1>8. CASE ChangeGiven
    <2>1. given' \in [Upstreams -> Intervals \cup {Unusable}]
      BY <1>8 DEF ChangeGiven, TypeOK
    <2> QED
      BY <1>8, <2>1 DEF ChangeGiven, TypeOK, Pause
  <1>9. CASE UNCHANGED vars
    BY <1>9 DEF vars, environment, TypeOK, Pause
  <1> QED
    BY <1>1, <1>2, <1>3, <1>4, <1>5, <1>6, <1>7, <1>8, <1>9 DEF Next, Beat

(* The invariant holds throughout.                                         *)
THEOREM Invariance == Spec => []IInv
  BY InitialInvariant, StepInvariant, PTL DEF Spec

(* Every variable keeps its type.                                          *)
THEOREM TypeCorrectness == Spec => []TypeOK
  <1>1. IInv => TypeOK
    BY DEF IInv
  <1> QED
    BY <1>1, Invariance, PTL

(* Pauses are positive and bounded, however the doubling wraps.            *)
THEOREM PausesAreBounded == Spec => []PauseBounded
  <1>1. IInv => PauseBounded
    BY PauseIsDuration DEF IInv, TypeOK, PauseBounded
  <1> QED
    BY <1>1, Invariance, PTL

(* Pauses do not get shorter while beats go on failing.                    *)
THEOREM PausesDoNotShrink == Spec => PausesGrow
  <1>1. ASSUME IInv, [Next]_vars, beat' = "failed", interval <= MaxBackoff
        PROVE  wait' >= wait
    <2>1. backoff \in Durations /\ interval \in Intervals /\ wait \in Durations
      BY <1>1 DEF IInv, TypeOK
    <2>2. /\ backoff \in Int /\ interval \in Int /\ wait \in Int
          /\ 0 < interval /\ MaxBackoff \in Int
      BY <2>1, IntervalsArePositive, DurationsFit DEF Durations
    <2>3. CASE wait' = wait
      BY <2>2, <2>3
    <2>4. CASE BeatFails
      <3>1. /\ backoff' = NextBackoff(backoff, interval)
            /\ wait' = Pause(backoff', interval)
            /\ wait = Pause(backoff, interval)
        BY <1>1, <2>4 DEF BeatFails, IInv
      <3>2. 0 <= backoff /\ backoff <= MaxBackoff
        BY <1>1, <2>2 DEF IInv
      <3>3. CASE backoff = 0
        BY <2>2, <3>1, <3>3 DEF NextBackoff, Pause
      <3>4. CASE 0 < backoff
        <4>1. backoff' \in Durations /\ backoff <= backoff'
          BY <2>1, <3>1, <3>2, <3>4, NextPause
        <4>2. backoff' \in Int
          BY <4>1, DurationsFit DEF Durations
        <4> QED
          BY <2>2, <3>1, <3>4, <4>1, <4>2 DEF Pause
      <3> QED
        BY <2>2, <3>2, <3>3, <3>4
    <2>5. CASE BeatTaken
      BY <1>1, <2>5 DEF BeatTaken
    <2> QED
      BY <1>1, <2>3, <2>4, <2>5 DEF Next, Beat, Wake, AskNext, Return, Cancel,
         ChangeReach, ChangeGiven, vars, environment
  <1>2. IInv /\ [Next]_vars
           => [beat' = "failed" /\ interval <= MaxBackoff => wait' >= wait]_vars
    BY <1>1
  <1> QED
    BY <1>2, Invariance, PTL DEF Spec, PausesGrow

(* What Recovers and FollowsServer rest on, fairness apart: as long as an  *)
(* upstream can be reached, no beat that starts passes it by or fails, and *)
(* the first one that can be reached says what the interval is             *)
(* (agent.go:118-175).                                                     *)
THEOREM ReachableIsReached == Spec => NoneIsPassed
<1>1. ASSUME TypeOK, [Next]_vars, NEW u \in Upstreams,
             u \in up, ~cancelled, Before(u)
      PROVE  /\ Before(u)'
             /\ Ends => beat' = "taken"
             /\ Ends /\ First(u) /\ given[u] # Unusable => interval' = given[u]
  <2>1. target \in Nat /\ u \in Nat /\ Count \in Nat /\ 1 <= u /\ 1 <= target
        /\ u <= Count
    BY <1>1, SomeUpstream DEF TypeOK, Upstreams
  <2>2. CASE Wake
    BY <2>1, <2>2 DEF Wake, Before, Ends
  <2>3. CASE AskNext
    <3>1. pc = "asking" /\ target # u /\ target' = target + 1 /\ pc' = pc
      BY <1>1, <2>3 DEF AskNext, Reachable
    <3>2. target <= u
      BY <1>1, <3>1 DEF Before
    <3>3. target + 1 <= u
      BY <2>1, <3>1, <3>2
    <3>4. QED
      BY <3>1, <3>3 DEF Before, Ends
  <2>4. ~BeatFails
    BY <1>1, <2>1 DEF BeatFails, Reachable, Before
  <2>5. CASE BeatTaken
    <3>1. /\ target <= u /\ target \in up
          /\ pc' = "waiting" /\ beat' = "taken"
          /\ interval' = Adopted(given[target], interval)
      BY <1>1, <2>5 DEF BeatTaken, Reachable, Before
    <3>2. First(u) => target = u
      BY <2>1, <3>1 DEF First
    <3>3. QED
      BY <3>1, <3>2 DEF Before, Adopted
  <2>6. CASE Return \/ Cancel \/ ChangeReach \/ ChangeGiven
    BY <1>1, <2>6
    DEF Return, Cancel, ChangeReach, ChangeGiven, Before, Ends
  <2>7. CASE UNCHANGED vars
    BY <1>1, <2>7 DEF vars, Before, Ends
  <2>8. QED
    BY <1>1, <2>2, <2>3, <2>4, <2>5, <2>6, <2>7 DEF Next, Beat
<1>2. TypeOK /\ [Next]_vars =>
        [\A u \in Upstreams :
            u \in up /\ ~cancelled /\ Before(u) =>
               /\ Before(u)'
               /\ Ends => beat' = "taken"
               /\ Ends /\ First(u) /\ given[u] # Unusable
                     => interval' = given[u]]_vars
  BY <1>1
<1>3. QED
  BY <1>2, TypeCorrectness, PTL DEF Spec, NoneIsPassed
=============================================================================
