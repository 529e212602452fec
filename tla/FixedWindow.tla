---------------------------- MODULE FixedWindow ----------------------------
(***************************************************************************)
(* The quota wollee's rate limiter grants a client: a window opens with    *)
(* the first request, lasts Window units of time, and admits Rate requests *)
(* in all.  Windows close by themselves; nothing here is swept or reset.   *)
(* RateLimiter, which keeps old buckets until it happens to look at them,  *)
(* is compared to this.                                                    *)
(***************************************************************************)
EXTENDS Naturals

CONSTANTS
    Clients,    \* the addresses requests come from
    Rate,       \* requests admitted per window
    Window,     \* length of a window
    Closed,     \* no window is open
    MaxTime     \* bound of the clock

VARIABLES
    now,
    open,       \* per client, its open window and what is left of it
    answer      \* the latest decision

vars == <<now, open, answer>>

NoAnswer == [client |-> Closed, ok |-> FALSE]

Init ==
    /\ now = 0
    /\ open = [c \in Clients |-> Closed]
    /\ answer = NoAnswer

Answer(c, ok) == answer' = [client |-> c, ok |-> ok] /\ UNCHANGED now

Open(c) ==
    /\ open[c] = Closed
    /\ open' = [open EXCEPT ![c] = [since |-> now, left |-> Rate - 1]]
    /\ Answer(c, TRUE)

Spend(c) ==
    /\ open[c] # Closed
    /\ open[c].left > 0
    /\ open' = [open EXCEPT ![c].left = @ - 1]
    /\ Answer(c, TRUE)

Refuse(c) ==
    /\ open[c] # Closed
    /\ open[c].left = 0
    /\ Answer(c, FALSE)
    /\ UNCHANGED open

(* A window is closed the moment it is Window old. *)
Tick ==
    /\ now < MaxTime
    /\ now' = now + 1
    /\ open' = [c \in Clients |->
          IF open[c] # Closed /\ now' - open[c].since >= Window
          THEN Closed ELSE open[c]]
    /\ UNCHANGED answer

Next == (\E c \in Clients : Open(c) \/ Spend(c) \/ Refuse(c)) \/ Tick

Spec == Init /\ [][Next]_vars
=============================================================================
