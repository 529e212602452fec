--------------------------- MODULE AgentHeartbeat ---------------------------
(***************************************************************************)
(* The agent's loop (internal/agent/agent.go): wait, then offer the        *)
(* heartbeat to one upstream server after the other until one takes it.    *)
(* The server that takes it sets the interval; a beat that nobody takes    *)
(* is followed by a pause that starts at the interval and doubles up to    *)
(* MaxBackoff.  Durations are signed integers of a fixed width.            *)
(*                                                                         *)
(* The servers are the environment: each may come and go, and may change   *)
(* the interval it hands out, at any moment.                               *)
(***************************************************************************)
EXTENDS Integers

CONSTANTS
    Count,       \* number of upstreams, tried in the order 1 .. Count
    Intervals,   \* heartbeat intervals that servers and operators configure
    Unusable,    \* an answer without a positive interval in it
    MaxBackoff,
    Half         \* durations are in -Half .. Half - 1

Upstreams == 1 .. Count
Durations == -Half .. Half - 1

ASSUME SomeUpstream == Count \in Nat \ {0}
ASSUME DurationsFit ==
    /\ Half \in Nat
    /\ MaxBackoff \in Nat \ {0}
    /\ 2 * MaxBackoff < Half
ASSUME IntervalsArePositive == Intervals \subseteq 1 .. Half - 1
ASSUME UnusableIsNoInterval == Unusable \notin Intervals

VARIABLES
    interval,   \* App.interval
    backoff,    \* 0: the last beat was taken
    wait,       \* what the timer was set to
    pc,         \* the loop waits, asks an upstream, or has returned
    target,     \* the upstream being asked
    beat,       \* the fate of the last beat
    cancelled,  \* the program's context is cancelled
    up,         \* upstreams the agent can reach (its own name and address
                \* included) and that answer in time and with 2xx
    given       \* the interval each of them hands out

vars == <<interval, backoff, wait, pc, target, beat, cancelled, up, given>>
environment == <<up, given>>

TypeOK ==
    /\ interval \in Intervals
    /\ backoff \in Durations
    /\ wait \in Durations
    /\ pc \in {"waiting", "asking", "returned"}
    /\ target \in Upstreams
    /\ beat \in {"none", "pending", "taken", "failed"}
    /\ cancelled \in BOOLEAN
    /\ up \in SUBSET Upstreams
    /\ given \in [Upstreams -> Intervals \cup {Unusable}]

(* New replaces an initial heartbeat that is not positive. *)
Init ==
    /\ interval \in Intervals
    /\ backoff = 0
    /\ wait = interval
    /\ pc = "waiting"
    /\ target = 1
    /\ beat = "none"
    /\ cancelled = FALSE
    /\ up \in SUBSET Upstreams
    /\ given \in [Upstreams -> Intervals \cup {Unusable}]

-----------------------------------------------------------------------------
(* The value a computed duration has in its register. *)
Wrap(d) == IF d >= Half THEN d - 2 * Half
           ELSE IF d < -Half THEN d + 2 * Half ELSE d

(* Mutant: the cap is forgotten. *)
DoubleForEver(b, i) == IF b = 0 THEN i ELSE Wrap(2 * b)

(* The pause after one more failure.  Only the doubled pause is capped. *)
NextBackoff(b, i) ==
    IF b = 0 THEN i
    ELSE IF Wrap(2 * b) > MaxBackoff THEN MaxBackoff ELSE Wrap(2 * b)

(* The next timer.  A pause that has wrapped counts as none. *)
Pause(b, i) == IF b > 0 THEN b ELSE i

(* The timer fires and a beat begins. *)
Wake ==
    /\ pc = "waiting"
    /\ pc' = "asking"
    /\ target' = 1
    /\ beat' = "pending"
    /\ UNCHANGED <<interval, backoff, wait, cancelled, environment>>

(* A cancelled context fails every request. *)
Reachable(u) == u \in up /\ ~cancelled

(* Mutant: the upstream that has not answered is asked again. *)
AskAgain ==
    /\ pc = "asking"
    /\ ~Reachable(target)
    /\ target < Count
    /\ UNCHANGED vars

(* Mutant: once all have failed the round begins anew. *)
AskRound ==
    /\ pc = "asking"
    /\ ~Reachable(target)
    /\ target' = IF target < Count THEN target + 1 ELSE 1
    /\ UNCHANGED <<interval, backoff, wait, pc, beat, cancelled, environment>>

(* No answer, an answer that is not 2xx, or no usable local address: the   *)
(* next upstream is asked.                                                 *)
AskNext ==
    /\ pc = "asking"
    /\ ~Reachable(target)
    /\ target < Count
    /\ target' = target + 1
    /\ UNCHANGED <<interval, backoff, wait, pc, beat, cancelled, environment>>

(* All have failed. *)
BeatFails ==
    /\ pc = "asking"
    /\ ~Reachable(target)
    /\ target = Count
    /\ backoff' = NextBackoff(backoff, interval)
    /\ wait' = Pause(backoff', interval)
    /\ pc' = "waiting"
    /\ beat' = "failed"
    /\ UNCHANGED <<interval, target, cancelled, environment>>

(* Mutant: the agent never changes its interval. *)
KeepInterval(g, i) == i

(* An answer that cannot be read still acknowledges the beat. *)
Adopted(g, i) == IF g = Unusable THEN i ELSE g

(* The upstream has registered the host and answered. *)
BeatTaken ==
    /\ pc = "asking"
    /\ Reachable(target)
    /\ interval' = Adopted(given[target], interval)
    /\ backoff' = 0
    /\ wait' = Pause(0, interval')
    /\ pc' = "waiting"
    /\ beat' = "taken"
    /\ UNCHANGED <<target, cancelled, environment>>

(* Program.Stop; the loop sees it when it next waits. *)
Cancel ==
    /\ ~cancelled
    /\ cancelled' = TRUE
    /\ UNCHANGED <<interval, backoff, wait, pc, target, beat, environment>>

Return ==
    /\ pc = "waiting"
    /\ cancelled
    /\ pc' = "returned"
    /\ UNCHANGED <<interval, backoff, wait, target, beat, cancelled,
                   environment>>

(* Servers and the network come and go. *)
ChangeReach ==
    /\ \E s \in SUBSET Upstreams \ {up} : up' = s
    /\ UNCHANGED <<interval, backoff, wait, pc, target, beat, cancelled, given>>

(* The configuration of a server changes. *)
ChangeGiven ==
    /\ \E u \in Upstreams, g \in Intervals \cup {Unusable} :
          given' = [given EXCEPT ![u] = g]
    /\ UNCHANGED <<interval, backoff, wait, pc, target, beat, cancelled, up>>

Beat == Wake \/ AskNext \/ BeatFails \/ BeatTaken

Next == Beat \/ Return \/ Cancel \/ ChangeReach \/ ChangeGiven

Spec == Init /\ [][Next]_vars

(* Timers fire and requests time out, so a beat goes on.  A context that   *)
(* is cancelled and a timer that has fired may compete in the select, but  *)
(* it chooses among them at random, and a new timer has not fired yet.     *)
Fairness == WF_vars(Beat) /\ SF_vars(Return)

FairSpec == Spec /\ Fairness

-----------------------------------------------------------------------------
(* The pause before a beat is positive and never longer than the interval  *)
(* or MaxBackoff, whichever is longer, though the doubling may wrap: an    *)
(* agent neither hammers its servers nor falls silent (agent.go:119-148).  *)
PauseBounded ==
    /\ 0 < wait
    /\ wait <= interval \/ wait <= MaxBackoff

(* While beats go on failing the pauses do not get shorter, provided the   *)
(* interval is not above the cap already: a server that is in trouble is   *)
(* not asked more and more often.                                          *)
PausesGrow ==
    [][beat' = "failed" /\ interval <= MaxBackoff => wait' >= wait]_vars

(* Why these two hold: a pause is a result of the doubling below the cap,  *)
(* which cannot wrap, or the interval itself, or wrapped because the       *)
(* interval was above the cap; and the timer always shows the latest one.  *)
IInv ==
    /\ TypeOK
    /\ wait = Pause(backoff, interval)
    /\ backoff <= MaxBackoff \/ backoff <= interval
    /\ backoff < 0 => interval > MaxBackoff

(* A beat does not go past an upstream it can reach, wherever in the list  *)
(* that is and whatever happens to the others: it is taken there, if not   *)
(* before, and the first one that can be reached sets the interval.        *)
Before(u) == pc = "asking" => target <= u
First(u)  == \A v \in 1 .. u - 1 : v \notin up
Ends      == pc = "asking" /\ pc' # "asking"

NoneIsPassed ==
    [][\A u \in Upstreams :
          u \in up /\ ~cancelled /\ Before(u) =>
             /\ Before(u)'
             /\ Ends => beat' = "taken"
             /\ Ends /\ First(u) /\ given[u] # Unusable => interval' = given[u]]_vars

(* As soon as some upstream stays reachable, beats are taken again and     *)
(* again, wherever in the list it is and whatever the others do.           *)
Recovers ==
    \A u \in Upstreams :
        <>[](u \in up /\ ~cancelled)
            => []<>(beat = "pending") /\ []<>(beat = "taken")

(* The agent's cadence becomes what the first upstream it reaches says     *)
(* (README.md:32), once that stays reachable, those before it do not come  *)
(* back and its configuration no longer changes.                           *)
FollowsServer ==
    \A u \in Upstreams, i \in Intervals :
        <>[](/\ u \in up /\ \A v \in 1 .. u - 1 : v \notin up
             /\ given[u] = i /\ ~cancelled)
            => <>[](interval = i)

(* Program.Stop is obeyed: the loop returns, even in the midst of a beat,  *)
(* whatever the servers do.                                                *)
StopsWhenCancelled == cancelled ~> pc = "returned"
=============================================================================
