------------------------- MODULE RateLimiterProofs -------------------------
(***************************************************************************)
(* Theorems about RateLimiter, for every number of clients, every rate and *)
(* every window.                                                           *)
(***************************************************************************)
EXTENDS RateLimiter, TLAPS

USE RateAssumption, WindowAssumption, NoBucketAssumption

(* No client has a bucket or a past at first: the invariant holds. *)
THEOREM InitialInvariant == Init => IInv
BY DEF Init, IInv, TypeOK, Numbered, Ordered, BucketIsLast

(* The fields of an entry of the log. *)
LEMMA LogEntry ==
    ASSUME TypeOK, NEW c \in Clients, NEW k \in 1 .. Len(log[c])
    PROVE  /\ log[c][k].at \in Nat
           /\ log[c][k].since \in Nat
           /\ log[c][k].nth \in 1 .. Rate
<1>1. log[c] \in Seq(Admission)
  BY DEF TypeOK
<1>2. log[c][k] \in Admission
  BY <1>1
<1> QED BY <1>2 DEF Admission

(* The arithmetic of one more entry, numbered one higher. *)
LEMMA Arithmetic ==
    /\ \A n, x \in Int : (n + 1) - (x + 1) + 1 = n - x + 1
    /\ \A n, i, x, y \in Int : x - y = n - i => (x + 1) - y = (n + 1) - i
OBVIOUS

(* What Admit makes of the log: one more entry for c, the rest as it was. *)
LEMMA AdmitLog ==
    ASSUME TypeOK, NEW c \in Clients, NEW b \in Bucket, Admit(c, b)
    PROVE  LET e == [at |-> now, since |-> b.lastReset, nth |-> Rate - b.tokens]
               n == Len(log[c])
           IN  /\ e \in Admission
               /\ n \in Nat
               /\ log[c] \in Seq(Admission)
               /\ log' \in [Clients -> Seq(Admission)]
               /\ Len(log'[c]) = n + 1
               /\ \A k \in 1 .. n : log'[c][k] = log[c][k] /\ log[c][k] \in Admission
               /\ log'[c][n + 1] = e
               /\ \A d \in Clients \ {c} : log'[d] = log[d]
<1> DEFINE e == [at |-> now, since |-> b.lastReset, nth |-> Rate - b.tokens]
           n == Len(log[c])
<1>1. e \in Admission
  BY DEF TypeOK, Bucket, Admission
<1>2. log[c] \in Seq(Admission) /\ n \in Nat
  BY DEF TypeOK
<1>3. log' = [log EXCEPT ![c] = Append(@, e)]
  BY DEF Admit
<1>4. log'[c] = Append(log[c], e) /\ \A d \in Clients \ {c} : log'[d] = log[d]
  BY <1>3 DEF TypeOK
<1> HIDE DEF e
<1>5. /\ Append(log[c], e) \in Seq(Admission)
      /\ Len(Append(log[c], e)) = n + 1
      /\ \A k \in 1 .. n : Append(log[c], e)[k] = log[c][k]
      /\ Append(log[c], e)[n + 1] = e
      /\ \A k \in 1 .. n : log[c][k] \in Admission
  BY <1>1, <1>2
<1>6. log' \in [Clients -> Seq(Admission)]
  BY <1>1, <1>2, <1>3, <1>5 DEF TypeOK
<1> QED BY <1>1, <1>2, <1>4, <1>5, <1>6 DEF e

(***************************************************************************)
(* A request is admitted at the begin of a window, or as the next one of   *)
(* the last window while that lasts.                                       *)
(***************************************************************************)
StartsWindow(c, b) ==
    /\ b = Fresh
    /\ Len(log[c]) > 0 => log[c][Len(log[c])].since + Window <= now

ContinuesWindow(c, b) ==
    /\ Len(log[c]) > 0
    /\ b.lastReset = log[c][Len(log[c])].since
    /\ b.tokens = Rate - log[c][Len(log[c])].nth - 1
    /\ now < b.lastReset + Window

(* Admitting a request in one of these two ways preserves the invariant. *)
LEMMA AdmitInvariance ==
    ASSUME IInv, NEW c \in Clients, NEW b \in Bucket, Admit(c, b),
           StartsWindow(c, b) \/ ContinuesWindow(c, b)
    PROVE  IInv'
<1> DEFINE e == [at |-> now, since |-> b.lastReset, nth |-> Rate - b.tokens]
           n == Len(log[c])
<1> USE DEF IInv
<1>1. /\ e \in Admission
      /\ n \in Nat
      /\ log' \in [Clients -> Seq(Admission)]
      /\ Len(log'[c]) = n + 1
      /\ \A k \in 1 .. n : log'[c][k] = log[c][k] /\ log[c][k] \in Admission
      /\ log'[c][n + 1] = e
      /\ \A d \in Clients \ {c} : log'[d] = log[d]
  BY AdmitLog
<1>2. /\ now' = now
      /\ buckets' = [buckets EXCEPT ![c] = b]
      /\ answer' = [client |-> c, ok |-> TRUE]
  BY DEF Admit
<1>3. TypeOK'
  BY <1>1, <1>2 DEF TypeOK
<1>4. \A k \in 1 .. n + 1 : k \in 1 .. n \/ k = n + 1
  BY <1>1
<1>5. e.at = now /\ e.since = b.lastReset /\ e.nth = Rate - b.tokens
  OBVIOUS
<1>6. now \in Nat /\ b.tokens \in 0 .. Rate - 1 /\ b.lastReset \in Nat
  BY DEF TypeOK, Bucket
<1>7. \A k \in 1 .. n : /\ log[c][k].at \in Nat
                        /\ log[c][k].since \in Nat
                        /\ log[c][k].nth \in 1 .. Rate
  BY <1>1 DEF Admission
<1> HIDE DEF e
<1>b. n \in Int /\ e.nth \in Int /\ e.since \in Int
     /\ Window \in Int /\ Window > 0
  BY <1>1 DEF Admission
<1>a. ASSUME ContinuesWindow(c, b)
      PROVE  /\ n \in 1 .. n
             /\ e.since = log[c][n].since
             /\ e.nth = log[c][n].nth + 1
             /\ now < e.since + Window
  <2>1. n > 0 /\ b.lastReset = log[c][n].since
        /\ b.tokens = Rate - log[c][n].nth - 1 /\ now < b.lastReset + Window
    BY <1>a DEF ContinuesWindow
  <2>2. n \in 1 .. n
    BY <1>1, <2>1
  <2>3. log[c][n].nth \in Int /\ Rate \in Int
    BY <1>7, <2>2
  <2>4. Rate - b.tokens = log[c][n].nth + 1
    BY <2>1, <2>3
  <2> QED BY <1>5, <2>1, <2>2, <2>4
<1>8. Numbered'
  <2> SUFFICES ASSUME NEW d \in Clients, NEW k \in 1 .. Len(log'[d])
               PROVE  /\ log'[d][k].since <= log'[d][k].at
                      /\ log'[d][k].at < log'[d][k].since + Window
                      /\ log'[d][k].nth = 1 => log'[d][k].at = log'[d][k].since
                      /\ log'[d][k].nth <= k
                      /\ log'[d][k - log'[d][k].nth + 1].since = log'[d][k].since
                      /\ log'[d][k].at <= now'
    BY DEF Numbered
  <2>1. CASE d # c
    BY <1>1, <1>2, <2>1 DEF Numbered
  <2>2. CASE d = c /\ k \in 1 .. n
    <3>1. /\ log[c][k].since <= log[c][k].at
          /\ log[c][k].at < log[c][k].since + Window
          /\ log[c][k].nth = 1 => log[c][k].at = log[c][k].since
          /\ log[c][k].nth <= k
          /\ log[c][k - log[c][k].nth + 1].since = log[c][k].since
          /\ log[c][k].at <= now
      BY <2>2 DEF Numbered
    <3>2. k - log[c][k].nth + 1 \in 1 .. n
      BY <1>1, <1>7, <2>2, <3>1
    <3> QED BY <1>1, <1>2, <2>2, <3>1, <3>2
  <2>3. CASE d = c /\ k = n + 1 /\ StartsWindow(c, b)
    <3>1. e.since = now /\ e.nth = 1
      BY <1>5, <2>3 DEF StartsWindow, Fresh
    <3> QED BY <1>1, <1>2, <1>5, <1>6, <2>3, <3>1
  <2>4. CASE d = c /\ k = n + 1 /\ ContinuesWindow(c, b)
    <3>1. /\ n \in 1 .. n
          /\ e.since = log[c][n].since
          /\ e.nth = log[c][n].nth + 1
          /\ now < e.since + Window
      BY <1>a, <2>4
    <3>2. /\ log[c][n].since <= log[c][n].at
          /\ log[c][n].nth <= n
          /\ log[c][n - log[c][n].nth + 1].since = log[c][n].since
          /\ log[c][n].at <= now
      BY <3>1 DEF Numbered
    <3>3. /\ log[c][n].at \in Nat
          /\ log[c][n].since \in Nat
          /\ log[c][n].nth \in 1 .. Rate
      BY <1>7, <3>1
    <3>4. n - log[c][n].nth + 1 \in 1 .. n
      BY <1>1, <3>2, <3>3
    <3>5. (n + 1) - e.nth + 1 = n - log[c][n].nth + 1
      <4> DEFINE x == log[c][n].nth
      <4>1. x \in Int /\ e.nth = x + 1
        BY <3>1, <3>3
      <4> HIDE DEF x
      <4>2. (n + 1) - (x + 1) + 1 = n - x + 1
        BY <1>b, <4>1, Arithmetic
      <4>3. (n + 1) - e.nth + 1 = n - x + 1
        BY <4>1, <4>2
      <4> QED BY <4>3 DEF x
    <3>6. e.since <= e.at /\ e.at < e.since + Window
      BY <1>5, <1>6, <3>1, <3>2, <3>3
    <3>7. e.nth <= n + 1 /\ e.nth # 1
      BY <1>1, <3>1, <3>2, <3>3
    <3>8. log'[c][n - log[c][n].nth + 1] = log[c][n - log[c][n].nth + 1]
      BY <1>1, <3>4
    <3>9. log'[d][k] = e
      BY <1>1, <2>4
    <3>10. log'[d][k - e.nth + 1].since = e.since
      BY <2>4, <3>1, <3>2, <3>5, <3>8
    <3>11. e.nth <= k /\ e.at <= now'
      BY <1>2, <1>5, <1>6, <2>4, <3>7
    <3> QED BY <3>6, <3>7, <3>9, <3>10, <3>11
  <2> QED BY <1>1, <1>4, <2>1, <2>2, <2>3, <2>4
<1>9. Ordered'
  <2> SUFFICES ASSUME NEW d \in Clients, NEW k \in 1 .. Len(log'[d]), NEW i \in 1 .. k
               PROVE  \/ /\ log'[d][i].since = log'[d][k].since
                         /\ log'[d][k].nth - log'[d][i].nth = k - i
                      \/ log'[d][i].since + Window <= log'[d][k].since
    BY DEF Ordered
  <2>1. CASE d # c
    BY <1>1, <2>1 DEF Ordered
  <2>2. CASE d = c /\ k \in 1 .. n
    <3>1. i \in 1 .. n
      BY <1>1, <2>2
    <3> QED BY <1>1, <2>2, <3>1 DEF Ordered
  <2>3. CASE d = c /\ k = n + 1 /\ i = n + 1
    BY <1>1, <1>5, <1>6, <2>3
  <2>4. CASE d = c /\ k = n + 1 /\ i \in 1 .. n
    <3>1. /\ n \in 1 .. n
          /\ \/ /\ log[c][i].since = log[c][n].since
                /\ log[c][n].nth - log[c][i].nth = n - i
             \/ log[c][i].since + Window <= log[c][n].since
      BY <1>1, <2>4 DEF Ordered
    <3>2. log'[c][i] = log[c][i] /\ log'[c][k] = e
      BY <1>1, <2>4
    <3>. /\ log[c][i].since \in Nat /\ log[c][n].since \in Nat
         /\ log[c][i].nth \in Nat /\ log[c][n].nth \in Nat
      BY <1>7, <2>4, <3>1
    <3>3. CASE StartsWindow(c, b)
      <4>1. e.since = now /\ log[c][n].since + Window <= now
        BY <1>1, <1>5, <2>4, <3>1, <3>3 DEF StartsWindow, Fresh
      <4>2. log[c][i].since <= log[c][n].since
        BY <1>b, <3>1
      <4>3. log[c][i].since + Window <= e.since
        BY <1>b, <1>6, <4>1, <4>2
      <4> QED BY <2>4, <3>2, <4>3
    <3>4. CASE ContinuesWindow(c, b)
      <4>1. e.since = log[c][n].since /\ e.nth = log[c][n].nth + 1
        BY <1>a, <3>4
      <4>2. CASE log[c][i].since + Window <= log[c][n].since
        BY <2>4, <3>2, <4>1, <4>2
      <4>3. CASE /\ log[c][i].since = log[c][n].since
                 /\ log[c][n].nth - log[c][i].nth = n - i
        <5>1. e.nth - log[c][i].nth = (n + 1) - i
          BY <1>b, <2>4, <4>1, <4>3, Arithmetic
        <5>2. e.nth - log[c][i].nth = k - i
          BY <2>4, <5>1
        <5>3. log'[d][k].nth - log'[d][i].nth = k - i
          BY <2>4, <3>2, <5>2
        <5> QED BY <2>4, <3>2, <4>1, <4>3, <5>3
      <4> QED BY <3>1, <4>2, <4>3
    <3> QED BY <3>3, <3>4
  <2> QED BY <1>1, <1>4, <2>1, <2>2, <2>3, <2>4
<1>10. BucketIsLast'
  <2>1. buckets'[c] = b /\ \A d \in Clients \ {c} : buckets'[d] = buckets[d]
    BY <1>2 DEF TypeOK
  <2>2. b # NoBucket
    OBVIOUS
  <2>3. b.tokens = Rate - e.nth
    BY <1>5, <1>6
  <2> SUFFICES ASSUME NEW d \in Clients
               PROVE  LET m == Len(log'[d]) IN
                      IF buckets'[d] = NoBucket
                      THEN m > 0 => log'[d][m].since + Window <= now'
                      ELSE /\ m > 0
                           /\ buckets'[d].lastReset = log'[d][m].since
                           /\ buckets'[d].tokens = Rate - log'[d][m].nth
    BY DEF BucketIsLast
  <2>4. CASE d = c
    <3>1. Len(log'[d]) = n + 1 /\ n + 1 > 0 /\ log'[d][n + 1] = e
      BY <1>1, <2>4
    <3>2. buckets'[d] = b
      BY <2>1, <2>4
    <3> QED BY <1>5, <2>2, <2>3, <3>1, <3>2
  <2>5. CASE d # c
    <3>1. log'[d] = log[d] /\ buckets'[d] = buckets[d]
      BY <1>1, <2>1, <2>5
    <3> QED BY <1>2, <3>1 DEF BucketIsLast
  <2> QED BY <2>4, <2>5
<1> QED BY <1>3, <1>8, <1>9, <1>10

(***************************************************************************)
(* The invariant is inductive.  Allow begins a window when there is no     *)
(* bucket or an aged one, and continues it otherwise; a bucket is swept    *)
(* only when its window is over, which is all the invariant asks of a      *)
(* client without one; and time only ends windows.                         *)
(***************************************************************************)
THEOREM Invariance == Spec => []IInv
<1>1. ASSUME IInv, [Next]_vars PROVE IInv'
  <2> USE <1>1 DEF IInv
  <2>1. ASSUME NEW c \in Clients, Allow(c) PROVE IInv'
    <3> DEFINE n == Len(log[c])
    <3>1. /\ buckets[c] \in Bucket \cup {NoBucket}
          /\ n \in Nat
          /\ \A k \in 1 .. n : log[c][k] \in Admission
      BY DEF TypeOK
    <3>2. now \in Nat /\ Fresh \in Bucket
      BY DEF TypeOK, Fresh, Bucket
    <3>3. IF buckets[c] = NoBucket
          THEN n > 0 => log[c][n].since + Window <= now
          ELSE /\ n > 0
               /\ buckets[c].lastReset = log[c][n].since
               /\ buckets[c].tokens = Rate - log[c][n].nth
      BY DEF BucketIsLast
    <3>4. CASE AllowFirst(c)
      <4>1. StartsWindow(c, Fresh)
        BY <3>3, <3>4 DEF StartsWindow, AllowFirst
      <4> QED BY <3>2, <3>4, <4>1, AdmitInvariance DEF AllowFirst
    <3>5. CASE AllowReset(c)
      <4>1. buckets[c] \in Bucket /\ now - buckets[c].lastReset >= Window
        BY <3>1, <3>5 DEF AllowReset, Aged
      <4>2. buckets[c].lastReset + Window <= now
        BY <3>2, <4>1 DEF Bucket
      <4>3. StartsWindow(c, Fresh)
        BY <3>3, <3>5, <4>2 DEF StartsWindow, AllowReset
      <4> QED BY <3>2, <3>5, <4>3, AdmitInvariance DEF AllowReset
    <3>6. CASE AllowToken(c)
      <4> DEFINE b == [buckets[c] EXCEPT !.tokens = @ - 1]
      <4>1. /\ buckets[c] \in Bucket
            /\ ~(now - buckets[c].lastReset >= Window)
            /\ buckets[c].tokens > 0
            /\ Admit(c, b)
        BY <3>1, <3>6 DEF AllowToken, Aged
      <4>2. /\ b \in Bucket
            /\ b.lastReset = buckets[c].lastReset
            /\ b.tokens = buckets[c].tokens - 1
        BY <4>1 DEF Bucket
      <4>3. now < b.lastReset + Window
        BY <3>2, <4>1, <4>2 DEF Bucket
      <4>4. n > 0 /\ b.lastReset = log[c][n].since
            /\ b.tokens = Rate - log[c][n].nth - 1
        BY <3>3, <3>6, <4>2 DEF AllowToken
      <4> HIDE DEF b
      <4>5. ContinuesWindow(c, b)
        BY <4>3, <4>4 DEF ContinuesWindow
      <4> QED BY <4>1, <4>2, <4>5, AdmitInvariance
    <3>7. CASE Refuse(c)
      BY <3>7 DEF Refuse, TypeOK, Numbered, Ordered, BucketIsLast
    <3> QED BY <2>1, <3>4, <3>5, <3>6, <3>7 DEF Allow
  <2>2. CASE Cleanup
    <3>1. UNCHANGED <<now, answer, log>>
      BY <2>2 DEF Cleanup
    <3>2. TypeOK'
      BY <2>2 DEF Cleanup, TypeOK
    <3>3. Numbered' /\ Ordered'
      BY <3>1 DEF Numbered, Ordered
    <3>4. BucketIsLast'
      <4> SUFFICES ASSUME NEW c \in Clients
                   PROVE  LET n == Len(log'[c]) IN
                          IF buckets'[c] = NoBucket
                          THEN n > 0 => log'[c][n].since + Window <= now'
                          ELSE /\ n > 0
                               /\ buckets'[c].lastReset = log'[c][n].since
                               /\ buckets'[c].tokens = Rate - log'[c][n].nth
        BY DEF BucketIsLast
      <4>1. CASE buckets'[c] = buckets[c]
        BY <3>1, <4>1 DEF BucketIsLast
      <4>2. CASE buckets'[c] # buckets[c]
        <5>1. /\ buckets'[c] = NoBucket
              /\ buckets[c] # NoBucket
              /\ now - buckets[c].lastReset > Window
          BY <2>2, <4>2 DEF Cleanup
        <5>2. buckets[c].lastReset \in Nat /\ now \in Nat
          BY <5>1 DEF TypeOK, Bucket
        <5>3. buckets[c].lastReset + Window <= now
          BY <5>1, <5>2
        <5>4. buckets[c].lastReset = log[c][Len(log[c])].since
          BY <5>1 DEF BucketIsLast
        <5> QED BY <3>1, <5>1, <5>3, <5>4
      <4> QED BY <4>1, <4>2
    <3> QED BY <3>2, <3>3, <3>4
  <2>3. CASE Clock
    <3>1. UNCHANGED <<buckets, answer, log>> /\ now' = now + 1 /\ now \in Nat
      BY <2>3 DEF Clock, TypeOK
    <3>2. TypeOK'
      BY <3>1 DEF TypeOK
    <3>3. \A c \in Clients : \A k \in 1 .. Len(log[c]) :
             log[c][k].at \in Nat /\ log[c][k].since \in Nat
      BY LogEntry
    <3>4. Numbered'
      <4>1. \A c \in Clients : \A k \in 1 .. Len(log[c]) :
               log[c][k].at <= now => log[c][k].at <= now + 1
        BY <3>1, <3>3
      <4>2. log' = log /\ now' = now + 1
        BY <3>1
      <4> QED BY <4>1, <4>2 DEF Numbered
    <3>5. Ordered'
      BY <3>1 DEF Ordered
    <3>6. BucketIsLast'
      <4>1. ASSUME NEW c \in Clients, Len(log[c]) > 0
            PROVE  Len(log[c]) \in 1 .. Len(log[c])
        BY <4>1 DEF TypeOK
      <4>2. \A c \in Clients :
               (Len(log[c]) > 0 /\ log[c][Len(log[c])].since + Window <= now)
                  => log[c][Len(log[c])].since + Window <= now + 1
        BY <3>1, <3>3, <4>1
      <4> QED BY <3>1, <4>2 DEF BucketIsLast
    <3> QED BY <3>2, <3>4, <3>5, <3>6
  <2>4. CASE UNCHANGED vars
    BY <2>4 DEF vars, TypeOK, Numbered, Ordered, BucketIsLast
  <2> QED BY <2>1, <2>2, <2>3, <2>4 DEF Next
<1> QED BY <1>1, InitialInvariant, PTL DEF Spec

(* The same in numbers: entries a, m and z, Rate - a.nth + 1 and Rate +    *)
(* a.nth - 2 apart.                                                        *)
LEMMA BurstArithmetic ==
    ASSUME NEW aAt \in Nat, NEW aSince \in Nat, NEW aNth \in 1 .. Rate,
           NEW mSince \in Nat, NEW mNth \in 1 .. Rate,
           NEW zAt \in Nat, NEW zSince \in Nat, NEW zNth \in 1 .. Rate,
           aAt < aSince + Window, aNth = 1 => aAt = aSince, zSince <= zAt,
           mNth - aNth = Rate - aNth + 1 \/ aSince + Window <= mSince,
           \/ mSince = zSince /\ zNth - mNth = Rate + aNth - 2
           \/ mSince + Window <= zSince
    PROVE  zAt - aAt >= Window
<1>1. aSince + Window <= mSince
  OBVIOUS
<1>2. CASE aNth = 1
  BY <1>1, <1>2
<1>3. CASE aNth # 1
  <2>1. mSince + Window <= zSince
    BY <1>3
  <2> QED BY <1>1, <2>1
<1> QED BY <1>2, <1>3

(***************************************************************************)
(* Fewer than two quotas of one client in any stretch shorter than Window. *)
(* 2 * Rate admissions span at least two windows, one of them whole, or    *)
(* one if the first admission opened it.                                   *)
(***************************************************************************)
LEMMA InvariantBoundsBursts == IInv => BurstBound
<1> SUFFICES ASSUME IInv, NEW c \in Clients,
                    NEW i \in 1 .. Len(log[c]) - (2 * Rate - 1)
             PROVE  log[c][i + (2 * Rate - 1)].at - log[c][i].at >= Window
  BY DEF BurstBound, AtMost
<1> USE DEF IInv
<1> DEFINE k == i + (2 * Rate - 1)
           a == log[c][i]
           z == log[c][k]
           j == i + (Rate - a.nth) + 1
           m == log[c][j]
<1>1. Len(log[c]) \in Nat /\ i \in Nat
  BY DEF TypeOK
<1>2. i \in 1 .. Len(log[c]) /\ k \in 1 .. Len(log[c]) /\ i \in 1 .. k
  BY <1>1
<1>3. /\ a.at \in Nat /\ a.since \in Nat /\ a.nth \in 1 .. Rate
      /\ z.at \in Nat /\ z.since \in Nat /\ z.nth \in 1 .. Rate
  BY <1>2, LogEntry
<1>4. /\ j \in 1 .. k /\ i \in 1 .. j
      /\ j - i = Rate - a.nth + 1
      /\ k - j = Rate + a.nth - 2
  <2> DEFINE x == a.nth
  <2>1. x \in 1 .. Rate
    BY <1>3
  <2> HIDE DEF x
  <2>2. j = i + (Rate - x) + 1
    BY DEF x
  <2> HIDE DEF j, a
  <2>3. /\ j \in 1 .. k /\ i \in 1 .. j
        /\ j - i = Rate - x + 1
        /\ k - j = Rate + x - 2
    BY <1>1, <2>1, <2>2
  <2> QED BY <2>3 DEF x
<1>5. j \in 1 .. Len(log[c])
  BY <1>1, <1>2, <1>4
<1>6. m.since \in Nat /\ m.nth \in 1 .. Rate
  BY <1>5, LogEntry
<1>7. a.at < a.since + Window /\ (a.nth = 1 => a.at = a.since) /\ z.since <= z.at
  BY <1>2 DEF Numbered
<1>8. \/ m.nth - a.nth = j - i
      \/ a.since + Window <= m.since
  BY <1>4, <1>5 DEF Ordered
<1>9. \/ m.since = z.since /\ z.nth - m.nth = k - j
      \/ m.since + Window <= z.since
  BY <1>2, <1>4 DEF Ordered
<1>10. k - i = 2 * Rate - 1
  BY <1>1
<1>11. z.at - a.at >= Window
  BY <1>3, <1>4, <1>6, <1>7, <1>8, <1>9, <1>10, BurstArithmetic
<1> QED BY <1>11

(* Fewer than two quotas of one client in any stretch shorter than Window, *)
(* in every reachable state.                                               *)
THEOREM BurstsAreBounded == Spec => []BurstBound
BY Invariance, InvariantBoundsBursts, PTL

(* Each variable keeps its type. *)
THEOREM TypeCorrectness == Spec => []TypeOK
<1>1. IInv => TypeOK
  BY DEF IInv
<1> QED BY <1>1, Invariance, PTL

(***************************************************************************)
(* A client is refused only when it has had Rate requests admitted within  *)
(* less than Window: an empty bucket that is not aged is the last window   *)
(* of the log, whose admissions number 1 to Rate.                          *)
(***************************************************************************)
THEOREM RefusalsAreDeserved == Spec => RefusedOnlyWhenSpent
<1>1. ASSUME IInv PROVE RefusedWhenSpent
  <2> SUFFICES ASSUME NEW c \in Clients, Refuse(c)
               PROVE  /\ Len(log[c]) >= Rate
                      /\ now - log[c][Len(log[c]) - Rate + 1].at < Window
    BY DEF RefusedWhenSpent
  <2> USE <1>1 DEF IInv
  <2> DEFINE n == Len(log[c])
             l == log[c][n]
             f == log[c][n - Rate + 1]
  <2>1. /\ buckets[c] # NoBucket /\ buckets[c] \in Bucket
        /\ ~(now - buckets[c].lastReset >= Window)
        /\ buckets[c].tokens = 0
    BY DEF Refuse, Aged, TypeOK
  <2>2. n > 0 /\ buckets[c].lastReset = l.since /\ buckets[c].tokens = Rate - l.nth
    BY <2>1 DEF BucketIsLast
  <2>3. n \in 1 .. n /\ now \in Nat
    BY <2>2 DEF TypeOK
  <2>4. l.nth \in 1 .. Rate /\ l.since \in Nat
    BY <2>3, LogEntry
  <2>5. l.nth = Rate
    BY <2>1, <2>2, <2>4
  <2>6. l.nth <= n /\ log[c][n - l.nth + 1].since = l.since
    BY <2>3 DEF Numbered
  <2>7. n >= Rate /\ n - Rate + 1 \in 1 .. n
    BY <2>3, <2>5, <2>6
  <2>8. f.since = l.since
    BY <2>5, <2>6
  <2>9. f.since <= f.at /\ f.at \in Nat /\ f.since \in Nat
    BY <2>7, LogEntry DEF Numbered
  <2> HIDE DEF f, l
  <2>10. now < f.since + Window
    BY <2>1, <2>2, <2>3, <2>8, <2>9
  <2>11. now - f.at < Window
    BY <2>3, <2>9, <2>10
  <2> QED BY <2>7, <2>11 DEF f
<1> QED BY <1>1, Invariance, PTL DEF RefusedOnlyWhenSpent

(* The entry of OpenWindow for a client, and when two of them are equal. *)
LEMMA OpenWindowEntry ==
    ASSUME TypeOK, NEW c \in Clients
    PROVE  /\ buckets[c] = NoBucket => OpenWindow[c] = NoBucket
           /\ (buckets[c] # NoBucket /\ now - buckets[c].lastReset >= Window)
                 => OpenWindow[c] = NoBucket
           /\ (buckets[c] # NoBucket /\ ~(now - buckets[c].lastReset >= Window))
                 => /\ OpenWindow[c] = [since |-> buckets[c].lastReset,
                                        left |-> buckets[c].tokens]
                    /\ OpenWindow[c] # NoBucket
<1>1. buckets[c] # NoBucket =>
         [since |-> buckets[c].lastReset, left |-> buckets[c].tokens] \in Grant
  BY DEF TypeOK, Bucket, Grant
<1> QED BY <1>1 DEF OpenWindow, Aged

(***************************************************************************)
(* The lazily reset and swept buckets implement FixedWindow.  A request    *)
(* that finds no bucket or an aged one opens a window; the sweep removes   *)
(* only what is a closed window already, so it is a stutter; and a tick of *)
(* the clock closes the windows that Aged says are over.                   *)
(***************************************************************************)
THEOREM LimiterImplementsFixedWindow == Spec => ImplementsFixedWindow
<1>1. Init => Fixed!Init
  BY DEF Init, Fixed!Init, OpenWindow, NoAnswer, Fixed!NoAnswer
<1>2. ASSUME TypeOK, TypeOK', [Next]_vars PROVE [Fixed!Next]_(Fixed!vars)
  <2> USE <1>2
  <2>t. now \in Nat /\ DOMAIN OpenWindow = Clients /\ OpenWindow = [c \in Clients |-> OpenWindow[c]]
        /\ OpenWindow' = [c \in Clients |-> OpenWindow'[c]]
    BY DEF TypeOK, OpenWindow
  <2>1. ASSUME NEW c \in Clients, NEW b \in Bucket, Admit(c, b),
               ~(now - b.lastReset >= Window)
        PROVE  /\ OpenWindow' = [OpenWindow EXCEPT ![c] =
                                    [since |-> b.lastReset, left |-> b.tokens]]
               /\ answer' = [client |-> c, ok |-> TRUE] /\ now' = now
    <3>1. /\ buckets'[c] = b /\ \A d \in Clients \ {c} : buckets'[d] = buckets[d]
          /\ answer' = [client |-> c, ok |-> TRUE] /\ now' = now
      BY <2>1 DEF Admit, TypeOK
    <3>2. OpenWindow'[c] = [since |-> b.lastReset, left |-> b.tokens]
      BY <2>1, <3>1 DEF OpenWindow, Aged
    <3>3. \A d \in Clients \ {c} : OpenWindow'[d] = OpenWindow[d]
      BY <3>1 DEF OpenWindow, Aged
    <3> QED BY <2>t, <3>1, <3>2, <3>3
  <2>2. Fresh \in Bucket /\ ~(now - Fresh.lastReset >= Window)
    BY <2>t DEF Fresh, Bucket
  <2>3. ASSUME NEW c \in Clients, Allow(c) PROVE Fixed!Next
    <3>1. CASE AllowFirst(c) \/ AllowReset(c)
      <4>1. OpenWindow[c] = NoBucket /\ Admit(c, Fresh)
        BY <3>1, OpenWindowEntry DEF AllowFirst, AllowReset, Aged
      <4>2. Fixed!Open(c)
        BY <2>1, <2>2, <4>1 DEF Fixed!Open, Fixed!Answer, Fresh
      <4> QED BY <4>2 DEF Fixed!Next
    <3>2. CASE AllowToken(c)
      <4> DEFINE b == [buckets[c] EXCEPT !.tokens = @ - 1]
      <4>1. /\ buckets[c] \in Bucket /\ buckets[c] # NoBucket
            /\ ~(now - buckets[c].lastReset >= Window)
            /\ buckets[c].tokens > 0
            /\ Admit(c, b)
        BY <3>2 DEF AllowToken, Aged, TypeOK
      <4>2. /\ b \in Bucket
            /\ b.lastReset = buckets[c].lastReset
            /\ b.tokens = buckets[c].tokens - 1
        BY <4>1 DEF Bucket
      <4>3. /\ OpenWindow[c] # NoBucket
            /\ OpenWindow[c] = [since |-> buckets[c].lastReset,
                                left |-> buckets[c].tokens]
        BY <4>1, OpenWindowEntry
      <4> HIDE DEF b
      <4>4. /\ OpenWindow' = [OpenWindow EXCEPT ![c] =
                                 [since |-> b.lastReset, left |-> b.tokens]]
            /\ answer' = [client |-> c, ok |-> TRUE] /\ now' = now
        BY <2>1, <4>1, <4>2
      <4>5. [since |-> b.lastReset, left |-> b.tokens]
              = [OpenWindow[c] EXCEPT !.left = @ - 1]
        BY <4>2, <4>3
      <4>6. OpenWindow' = [OpenWindow EXCEPT ![c].left = @ - 1]
        BY <2>t, <4>4, <4>5
      <4>7. OpenWindow[c].left = buckets[c].tokens
        BY <4>3
      <4>8. OpenWindow[c].left > 0
        BY <4>1, <4>7
      <4>9. Fixed!Answer(c, TRUE)
        BY <4>4 DEF Fixed!Answer
      <4>10. Fixed!Spend(c)
        BY <4>3, <4>6, <4>8, <4>9 DEF Fixed!Spend
      <4> QED BY <4>10 DEF Fixed!Next
    <3>3. CASE Refuse(c)
      <4>1. OpenWindow[c] # NoBucket /\ OpenWindow[c].left = 0
        <5>1. /\ buckets[c] # NoBucket
              /\ ~(now - buckets[c].lastReset >= Window)
              /\ buckets[c].tokens = 0
          BY <3>3 DEF Refuse, Aged
        <5>2. /\ OpenWindow[c] # NoBucket
              /\ OpenWindow[c] = [since |-> buckets[c].lastReset,
                                  left |-> buckets[c].tokens]
          BY <5>1, OpenWindowEntry
        <5> QED BY <5>1, <5>2
      <4>2. OpenWindow' = OpenWindow
        BY <3>3 DEF Refuse, OpenWindow, Aged
      <4>3. Fixed!Refuse(c)
        BY <3>3, <4>1, <4>2 DEF Fixed!Refuse, Fixed!Answer, Refuse
      <4> QED BY <4>3 DEF Fixed!Next
    <3> QED BY <2>3, <3>1, <3>2, <3>3 DEF Allow
  <2>4. CASE Cleanup
    <3>1. now' = now /\ answer' = answer
      BY <2>4 DEF Cleanup
    <3>2. ASSUME NEW c \in Clients PROVE OpenWindow'[c] = OpenWindow[c]
      <4>1. CASE buckets'[c] = buckets[c]
        BY <3>1, <4>1 DEF OpenWindow, Aged
      <4>2. CASE buckets'[c] # buckets[c]
        <5>1. /\ buckets'[c] = NoBucket
              /\ buckets[c] # NoBucket
              /\ now - buckets[c].lastReset > Window
          BY <2>4, <4>2 DEF Cleanup
        <5>2. now - buckets[c].lastReset >= Window
          BY <2>t, <5>1 DEF TypeOK, Bucket
        <5>3. OpenWindow[c] = NoBucket
          BY <5>1, <5>2, OpenWindowEntry
        <5>4. OpenWindow'[c] = NoBucket
          BY <5>1 DEF OpenWindow
        <5> QED BY <5>3, <5>4
      <4> QED BY <4>1, <4>2
    <3>3. OpenWindow' = OpenWindow
      BY <2>t, <3>2
    <3> QED BY <3>1, <3>3 DEF Fixed!vars
  <2>5. CASE Clock
    <3>1. now < MaxTime /\ now' = now + 1 /\ UNCHANGED <<buckets, answer>>
      BY <2>5 DEF Clock
    <3>2. ASSUME NEW c \in Clients
          PROVE  OpenWindow'[c] =
                   IF OpenWindow[c] # NoBucket /\ now' - OpenWindow[c].since >= Window
                   THEN NoBucket ELSE OpenWindow[c]
      <4>1. CASE buckets[c] = NoBucket
        BY <3>1, <4>1, OpenWindowEntry DEF OpenWindow
      <4>2. CASE buckets[c] # NoBucket /\ now - buckets[c].lastReset >= Window
        <5>1. now' - buckets[c].lastReset >= Window
          BY <2>t, <3>1, <4>2 DEF TypeOK, Bucket
        <5>2. OpenWindow'[c] = NoBucket
          BY <3>1, <5>1 DEF OpenWindow, Aged
        <5> QED BY <4>2, <5>2, OpenWindowEntry
      <4>3. CASE buckets[c] # NoBucket /\ ~(now - buckets[c].lastReset >= Window)
        <5>1. /\ OpenWindow[c] # NoBucket
              /\ OpenWindow[c] = [since |-> buckets[c].lastReset,
                                  left |-> buckets[c].tokens]
          BY <4>3, OpenWindowEntry
        <5>2. OpenWindow'[c] =
                IF now' - buckets[c].lastReset >= Window THEN NoBucket
                ELSE [since |-> buckets[c].lastReset, left |-> buckets[c].tokens]
          BY <3>1, <4>3 DEF OpenWindow, Aged
        <5> QED BY <5>1, <5>2
      <4> QED BY <4>1, <4>2, <4>3
    <3>3. Fixed!Tick
      BY <2>t, <3>1, <3>2 DEF Fixed!Tick
    <3> QED BY <3>3 DEF Fixed!Next
  <2>6. CASE UNCHANGED vars
    <3>1. UNCHANGED <<now, answer, buckets>>
      BY <2>6 DEF vars
    <3> QED BY <3>1 DEF Fixed!vars, OpenWindow, Aged
  <2> QED BY <2>3, <2>4, <2>5, <2>6 DEF Next
<1> QED BY <1>1, <1>2, TypeCorrectness, PTL DEF Spec, ImplementsFixedWindow, Fixed!Spec
=============================================================================
