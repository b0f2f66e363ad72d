---------------------------- MODULE RateLimiter ----------------------------
(***************************************************************************)
(* The rate limiter of pkg/middleware/ratelimit.go, in one process and for *)
(* one client.  It is mounted before any session is read, so a client is   *)
(* an address.  A request works on its bucket under a mutex, and takes the *)
(* time after it has got it.                                               *)
(***************************************************************************)
EXTENDS Naturals, FiniteSets

CONSTANTS MaxRequests, \* tokens of a full bucket
          Window,      \* after how long it is filled again
          MaxTicks     \* bound: how long the process is watched

ASSUME RateAssumption ==
    MaxRequests \in Nat \ {0} /\ Window \in Nat \ {0} /\ MaxTicks \in Nat

VARIABLES tick,    \* the time
          bucket,  \* the client's bucket: whether there is one, what is left, when it was filled
          passed,  \* history: the requests let through, each with its time and number
          refused  \* history: when requests were refused

rateVars == <<tick, bucket, passed, refused>>

NoBucket == [at |-> "none", tokens |-> 0, lastRefill |-> 0]

RateInit == tick = 0 /\ bucket = NoBucket /\ passed = {} /\ refused = {}

\* MUTANT of Refilled: the time of the last refill is left as it was.
RefilledInPlace(b) ==
    IF tick - b.lastRefill >= Window THEN [b EXCEPT !.tokens = MaxRequests] ELSE b

Refilled(b) ==
    IF tick - b.lastRefill >= Window
    THEN [b EXCEPT !.tokens = MaxRequests, !.lastRefill = tick] ELSE b

\* A new client gets a full bucket.
Found ==
    IF bucket.at = "kept" THEN Refilled(bucket)
    ELSE [at |-> "kept", tokens |-> MaxRequests, lastRefill |-> tick]

LetThrough ==
    /\ Found.tokens > 0
    /\ bucket' = [Found EXCEPT !.tokens = @ - 1]
    /\ passed' = passed \cup {<<tick, Cardinality(passed)>>}
    /\ UNCHANGED <<tick, refused>>
TurnAway ==
    /\ Found.tokens = 0
    /\ bucket' = Found
    /\ refused' = refused \cup {tick}
    /\ UNCHANGED <<tick, passed>>

\* Every five minutes: whenever it comes, only a bucket that is due goes.
CleanUp ==
    /\ bucket.at = "kept" /\ tick - bucket.lastRefill > 2 * Window
    /\ bucket' = NoBucket
    /\ UNCHANGED <<tick, passed, refused>>

Tick ==
    /\ tick < MaxTicks
    /\ tick' = tick + 1
    /\ UNCHANGED <<bucket, passed, refused>>

RateNext == LetThrough \/ TurnAway \/ CleanUp \/ Tick
RateSpec == RateInit /\ [][RateNext]_rateVars

(***************************************************************************)
(* Properties                                                              *)
(***************************************************************************)
PassedBy(t) == {p \in passed : p[1] <= t /\ t < p[1] + Window}

\* A bucket is filled as a whole, so a client can spend two of them within one
\* window, but never more, cleaned up or not; and who is turned away has spent one
\* within the last window.
RateBounded ==
    /\ \A t \in 0 .. tick : Cardinality(PassedBy(t)) <= 2 * MaxRequests
    /\ \A t \in refused : Cardinality(PassedBy(t)) >= MaxRequests
=============================================================================
