---------------------------- MODULE RateLimiter ----------------------------
(***************************************************************************)
(* internal/server/ratelimit.go: the limiter in front of /register and     *)
(* /wake.  Each client address has a bucket; Allow resets it when it is    *)
(* asked for one that is Window old, and a goroutine sweeps the map from   *)
(* time to time.  Both hold the limiter's lock for their whole body and    *)
(* read the clock inside it, so each is one step.                          *)
(***************************************************************************)
EXTENDS Integers, Sequences

CONSTANTS
    Clients,    \* the addresses requests come from
    Rate,       \* RateLimiter.rate
    Window,     \* RateLimiter.window, in units of the clock
    NoBucket,   \* the map has no entry for this client
    MaxTime     \* bound of the clock

Bucket == [tokens : 0 .. Rate - 1, lastReset : Nat]

(* An open window of FixedWindow. *)
Grant == [since : Nat, left : 0 .. Rate - 1]

(* NewRateLimiter is called with 60 and 30 requests per minute. *)
ASSUME RateAssumption == Rate \in Nat \ {0}
ASSUME WindowAssumption == Window \in Nat \ {0}
ASSUME NoBucketAssumption == NoBucket \notin Bucket \cup Grant \cup Clients

VARIABLES
    now,        \* the monotonic clock
    buckets,    \* RateLimiter.buckets
    answer,     \* Allow's latest result
    log         \* history: per client, its admitted requests in order

vars == <<now, buckets, answer, log>>

(* An admitted request: when, in the window begun when, as the how-manieth. *)
Admission == [at : Nat, since : Nat, nth : 1 .. Rate]

NoAnswer == [client |-> NoBucket, ok |-> FALSE]

TypeOK ==
    /\ now \in Nat
    /\ buckets \in [Clients -> Bucket \cup {NoBucket}]
    /\ answer \in [client : Clients, ok : BOOLEAN] \cup {NoAnswer}
    /\ log \in [Clients -> Seq(Admission)]

Init ==
    /\ now = 0
    /\ buckets = [c \in Clients |-> NoBucket]
    /\ answer = NoAnswer
    /\ log = [c \in Clients |-> <<>>]

-----------------------------------------------------------------------------
(* Mutant: a window is one unit too short. *)
AgedEarly(b) == now - b.lastReset >= Window - 1

Aged(b) == now - b.lastReset >= Window

(* The bucket is stored, the request let through and noted. *)
Admit(c, b) ==
    /\ buckets' = [buckets EXCEPT ![c] = b]
    /\ log' = [log EXCEPT ![c] = Append(@,
          [at |-> now, since |-> b.lastReset, nth |-> Rate - b.tokens])]
    /\ answer' = [client |-> c, ok |-> TRUE]
    /\ UNCHANGED now

(* Mutant: the first request of a window is not counted. *)
FreshFull == [tokens |-> Rate, lastReset |-> now]

Fresh == [tokens |-> Rate - 1, lastReset |-> now]

AllowFirst(c) ==
    /\ buckets[c] = NoBucket
    /\ Admit(c, Fresh)

AllowReset(c) ==
    /\ buckets[c] # NoBucket
    /\ Aged(buckets[c])
    /\ Admit(c, Fresh)

AllowToken(c) ==
    /\ buckets[c] # NoBucket
    /\ ~Aged(buckets[c])
    /\ buckets[c].tokens > 0
    /\ Admit(c, [buckets[c] EXCEPT !.tokens = @ - 1])

(* Mutant: an aged bucket is not reset. *)
RefuseAged(c) ==
    /\ buckets[c] # NoBucket
    /\ buckets[c].tokens = 0
    /\ answer' = [client |-> c, ok |-> FALSE]
    /\ UNCHANGED <<now, buckets, log>>

Refuse(c) ==
    /\ buckets[c] # NoBucket
    /\ ~Aged(buckets[c])
    /\ buckets[c].tokens = 0
    /\ answer' = [client |-> c, ok |-> FALSE]
    /\ UNCHANGED <<now, buckets, log>>

(* Mutant: a bucket of any age is swept. *)
CleanupAll ==
    /\ buckets' = [c \in Clients |-> NoBucket]
    /\ UNCHANGED <<now, answer, log>>

(* cleanupRoutine, at a tick of its ticker; when that is does not matter. *)
Cleanup ==
    /\ buckets' = [c \in Clients |->
          IF buckets[c] # NoBucket /\ now - buckets[c].lastReset > Window
          THEN NoBucket ELSE buckets[c]]
    /\ UNCHANGED <<now, answer, log>>

Clock ==
    /\ now < MaxTime
    /\ now' = now + 1
    /\ UNCHANGED <<buckets, answer, log>>

Allow(c) ==
    \/ AllowFirst(c)
    \/ AllowReset(c)
    \/ AllowToken(c)
    \/ Refuse(c)

Next == (\E c \in Clients : Allow(c)) \/ Cleanup \/ Clock

Spec == Init /\ [][Next]_vars

-----------------------------------------------------------------------------
(* No n + 1 successive admissions of a client fall within less than Window. *)
AtMost(n) ==
    \A c \in Clients : \A i \in 1 .. Len(log[c]) - n :
        log[c][i + n].at - log[c][i].at >= Window

(***************************************************************************)
(* A minute of any kind, wherever it begins, sees fewer than two quotas of *)
(* one client: a full window may follow the rest of the one before, but    *)
(* the request that opened that one is then a minute old.                  *)
(***************************************************************************)
BurstBound == AtMost(2 * Rate - 1)

(***************************************************************************)
(* A client is refused only when it has had its whole quota within the     *)
(* last minute: neither the lazy reset nor the sweep costs it a request.   *)
(***************************************************************************)
RefusedWhenSpent ==
    \A c \in Clients :
        Refuse(c) =>
            LET n == Len(log[c]) IN
            n >= Rate /\ now - log[c][n - Rate + 1].at < Window
RefusedOnlyWhenSpent == [][RefusedWhenSpent]_vars

(***************************************************************************)
(* The lazily reset and swept buckets grant exactly the quota of           *)
(* FixedWindow: a missing and an aged bucket are both a closed window.     *)
(***************************************************************************)
OpenWindow ==
    [c \in Clients |->
        IF buckets[c] = NoBucket \/ Aged(buckets[c]) THEN NoBucket
        ELSE [since |-> buckets[c].lastReset, left |-> buckets[c].tokens]]

Fixed == INSTANCE FixedWindow WITH open <- OpenWindow, Closed <- NoBucket
ImplementsFixedWindow == Fixed!Spec

-----------------------------------------------------------------------------
(***************************************************************************)
(* The inductive invariant.  What the log remembers of the windows: within *)
(* one, admissions are numbered without gaps and less than Window after    *)
(* its begin; the next one begins at least Window later.                   *)
(***************************************************************************)
Numbered ==
    \A c \in Clients : \A k \in 1 .. Len(log[c]) :
        /\ log[c][k].since <= log[c][k].at
        /\ log[c][k].at < log[c][k].since + Window
        /\ log[c][k].nth = 1 => log[c][k].at = log[c][k].since
        /\ log[c][k].nth <= k
        /\ log[c][k - log[c][k].nth + 1].since = log[c][k].since
        /\ log[c][k].at <= now

Ordered ==
    \A c \in Clients : \A k \in 1 .. Len(log[c]) : \A i \in 1 .. k :
        \/ /\ log[c][i].since = log[c][k].since
           /\ log[c][k].nth - log[c][i].nth = k - i
        \/ log[c][i].since + Window <= log[c][k].since

(* The bucket is the last window the log knows, or that one is over. *)
BucketIsLast ==
    \A c \in Clients :
        LET n == Len(log[c]) IN
        IF buckets[c] = NoBucket
        THEN n > 0 => log[c][n].since + Window <= now
        ELSE /\ n > 0
             /\ buckets[c].lastReset = log[c][n].since
             /\ buckets[c].tokens = Rate - log[c][n].nth

IInv == TypeOK /\ Numbered /\ Ordered /\ BucketIsLast
=============================================================================
