---------------------------- MODULE RateLimiter ----------------------------
(***************************************************************************)
(* The keyed token buckets that throttle the tracking endpoints and the    *)
(* unauthenticated API requests (ratelimit.rs), called from the server's   *)
(* worker threads, and the periodic cleanup (main.rs).  A caller reads the *)
(* clock BEFORE it takes the mutex, so by the time it holds the lock its   *)
(* reading may be older than the one the bucket carries.                   *)
(*                                                                         *)
(* Tokens are counted in the time it takes to earn them: a bucket earns    *)
(* one unit per tick, a request costs Cost of them, Burst requests fill    *)
(* it.  Rounding of the f64 arithmetic is left out.                        *)
(***************************************************************************)
EXTENDS Integers

CONSTANTS
  Keys,          \* client addresses
  Workers,       \* threads that may be inside check at once
  Cost,          \* ticks that earn one token: 60 s / per_minute
  Burst,         \* capacity in tokens, at least 1 (new)
  MaxTime,       \* bound: the clock stops here
  MaxRequests    \* bound: requests in a behaviour

ASSUME LimiterAssumption ==
  /\ Cost \in Nat \ {0}
  /\ Burst \in Nat \ {0}
  /\ MaxTime \in Nat
  /\ MaxRequests \in Nat

VARIABLES
  now,        \* Instant::now(), monotonic
  buckets,    \* the map behind the mutex: its keys and their buckets
  calls,      \* the checks in progress: worker, key and clock reading
  sweep,      \* the clock reading of the cleanup in progress, or None
  requests,   \* requests so far
  credit,     \* history: what an ideal bucket, charged for each admission, holds
  late        \* history: ticks callers of this key spent waiting for the lock

vars == <<now, buckets, calls, sweep, requests, credit, late>>
history == <<credit, late>>

Cap == Burst * Cost
None == -1
EmptyMap == [x \in {} |-> x]
Least(a, b) == IF a <= b THEN a ELSE b

Bucket == [tokens : 0..Cap, last : Nat]
Call == [key : Keys, at : Nat]
Tracked == DOMAIN buckets
Busy == DOMAIN calls

Init ==
  /\ now = 0
  /\ buckets = EmptyMap
  /\ calls = EmptyMap
  /\ sweep = None
  /\ requests = 0
  /\ credit = [k \in Keys |-> Cap]
  /\ late = [k \in Keys |-> 0]

Tick ==
  /\ now < MaxTime
  /\ now' = now + 1
  /\ credit' = [k \in Keys |-> Least(Cap, credit[k] + 1)]
  /\ UNCHANGED <<buckets, calls, sweep, requests, late>>

-----------------------------------------------------------------------------
With(f, x, y) == [z \in DOMAIN f \cup {x} |-> IF z = x THEN y ELSE f[z]]
Without(f, S) == [z \in DOMAIN f \ S |-> f[z]]

\* A bucket's tokens at time t.  duration_since saturates at zero when t is
\* before the bucket's own time.
Elapsed(b, t) == IF b.last <= t THEN t - b.last ELSE 0
Refilled(b, t) == Least(Cap, b.tokens + Elapsed(b, t))

\* A request arrives: check reads the clock ...
Arrive(w, k) ==
  /\ w \notin Busy
  /\ requests < MaxRequests
  /\ requests' = requests + 1
  /\ calls' = With(calls, w, [key |-> k, at |-> now])
  /\ UNCHANGED <<now, buckets, sweep, history>>

\* The bucket check finds under the lock, refilled; a missing one is full.
Found(c) ==
  IF c.key \in Tracked THEN Refilled(buckets[c.key], c.at) ELSE Cap

\* Mutant: the time that was refilled for is not used up.
SettleUndated(w, granted) ==
  LET c == calls[w] IN
  /\ w \in Busy
  /\ granted = (Found(c) >= Cost)
  /\ buckets' = With(buckets, c.key,
       [tokens |-> IF granted THEN Found(c) - Cost ELSE Found(c),
        last |-> IF c.key \in Tracked THEN buckets[c.key].last ELSE c.at])
  /\ calls' = Without(calls, {w})
  /\ credit' = [credit EXCEPT ![c.key] = IF granted THEN @ - Cost ELSE @]
  /\ late' = [late EXCEPT ![c.key] = @ + (now - c.at)]
  /\ UNCHANGED <<now, sweep, requests>>

\* ... and, when it gets the lock, refills the bucket up to that reading and
\* takes a token if there is one.  Either way the bucket is dated back to it.
Settle(w, granted) ==
  LET c == calls[w] IN
  /\ w \in Busy
  /\ granted = (Found(c) >= Cost)
  /\ buckets' = With(buckets, c.key,
       [tokens |-> IF granted THEN Found(c) - Cost ELSE Found(c), last |-> c.at])
  /\ calls' = Without(calls, {w})
  /\ credit' = [credit EXCEPT ![c.key] = IF granted THEN @ - Cost ELSE @]
  /\ late' = [late EXCEPT ![c.key] = @ + (now - c.at)]
  /\ UNCHANGED <<now, sweep, requests>>

Admit(w) == Settle(w, TRUE)

\* Mutant: a denied call spends what is left of a token.
DenySpending(w) ==
  LET c == calls[w] IN
  /\ w \in Busy
  /\ Found(c) < Cost
  /\ buckets' = With(buckets, c.key, [tokens |-> 0, last |-> c.at])
  /\ calls' = Without(calls, {w})
  /\ late' = [late EXCEPT ![c.key] = @ + (now - c.at)]
  /\ UNCHANGED <<now, sweep, requests, credit>>

Deny(w) == Settle(w, FALSE)

\* cleanup, called every few minutes: it too reads the clock before it locks.
StartSweep ==
  /\ sweep = None
  /\ sweep' = now
  /\ UNCHANGED <<now, buckets, calls, requests, history>>

\* Mutant: a bucket that can pay for a request is dropped as idle.
SweepSolvent ==
  /\ sweep # None
  /\ buckets' = Without(buckets, {k \in Tracked : Refilled(buckets[k], sweep) >= Cost})
  /\ sweep' = None
  /\ UNCHANGED <<now, calls, requests, history>>

\* Mutant: a bucket is dropped only when more than full.
SweepNone ==
  /\ sweep # None
  /\ buckets' = Without(buckets, {k \in Tracked : Refilled(buckets[k], sweep) > Cap})
  /\ sweep' = None
  /\ UNCHANGED <<now, calls, requests, history>>

\* Buckets that are full again are dropped.
Sweep ==
  /\ sweep # None
  /\ buckets' = Without(buckets, {k \in Tracked : Refilled(buckets[k], sweep) >= Cap})
  /\ sweep' = None
  /\ UNCHANGED <<now, calls, requests, history>>

-----------------------------------------------------------------------------
Next ==
  \/ Tick
  \/ StartSweep \/ Sweep
  \/ \E w \in Workers, k \in Keys : Arrive(w, k)
  \/ \E w \in Workers : Admit(w) \/ Deny(w)

Spec == Init /\ [][Next]_vars

\* Time passes, the cleanup task's interval fires, and the mutex is fair
\* enough that whoever waits for it gets it.
FairSpec ==
  /\ Spec
  /\ WF_vars(Tick) /\ WF_vars(StartSweep) /\ WF_vars(Sweep)
  /\ \A w \in Workers : WF_vars(Admit(w) \/ Deny(w))

-----------------------------------------------------------------------------
(* Properties.                                                             *)

TypeOK ==
  /\ now \in Nat /\ requests \in Nat
  /\ Tracked \subseteq Keys /\ buckets \in [Tracked -> Bucket]
  /\ Busy \subseteq Workers /\ calls \in [Busy -> Call]
  /\ sweep \in Nat \cup {None}
  /\ credit \in [Keys -> Int]
  /\ late \in [Keys -> Nat]

\* What a key may spend now: its bucket, refilled up to the present; a key
\* without a bucket gets a full one.
Level(k) == IF k \in Tracked THEN Refilled(buckets[k], now) ELSE Cap

\* Clock readings are never ahead of the clock.
ReadingsPast ==
  /\ \A k \in Tracked : buckets[k].last <= now
  /\ \A w \in Busy : calls[w].at <= now
  /\ sweep <= now

\* The map of buckets is the ideal bucket, however calls interleave and
\* whatever cleanup drops, except that time spent waiting for the lock may be
\* counted twice (ratelimit.rs:37-65).
Tracks == \A k \in Keys : credit[k] <= Level(k) /\ Level(k) <= credit[k] + late[k]

Inv == TypeOK /\ ReadingsPast /\ Tracks

\* In any window a key is admitted at most its burst and what it earns in that
\* window (config.rs:180-184), and at most the time its callers waited beyond.
AdmittedWithinBound == \A k \in Keys : credit[k] + late[k] >= 0

\* Nobody who stays within burst and rate is turned away: a denial means the
\* ideal bucket could not pay at the moment the request read the clock.
DeniedOnlyWhenSpent ==
  [][\A w \in Workers : Deny(w) =>
       credit[calls[w].key] < Cost + (now - calls[w].at)]_vars

\* Cleanup bounds the map: every bucket that has time to fill up again is
\* dropped in the end (ratelimit.rs:56).
IdleForgotten ==
  <>[](\A k \in Tracked : buckets[k].tokens + (MaxTime - buckets[k].last) < Cap)
=============================================================================
