--------------------------- MODULE TrackingProofs ---------------------------
(***************************************************************************)
(* Theorems about the two ends of the tracking endpoints.                  *)
(*                                                                         *)
(* The rate limiter, for any keys, workers, cost and burst: between two    *)
(* looks at a bucket its level grows as the ideal one does, a charge takes *)
(* the same from both, a bucket that cleanup drops was full; and a clock   *)
(* reading that waited for the lock brings the level forward by no more    *)
(* than the time it waited.  Over windows: what was admitted in each of    *)
(* them was paid for by a full bucket and by what the window earned.       *)
(*                                                                         *)
(* The tracker, for any tabs, paths, views and days: a load beacon still   *)
(* names the view it was asked for unless both were hurried; each view     *)
(* waits for its document, for the oracle or not at all; and once somebody *)
(* was told to be first, the browser's cache says so to all who ask later. *)
(***************************************************************************)
EXTENDS RateWindow, Tracker, FiniteSetTheorems, TLAPS


LEMMA CapType == Cap \in Nat /\ Cost <= Cap
<1>1. Burst \in Nat /\ Cost \in Nat /\ 1 <= Burst /\ 1 <= Cost
  BY LimiterAssumption
<1>2. Burst * Cost \in Nat
  BY <1>1
<1>3. Cost <= Burst * Cost
  BY <1>1
<1>4. QED
  BY <1>2, <1>3 DEF Cap

\* What a refill returns is a content the bucket can have.
LEMMA RefilledType ==
  ASSUME NEW b \in Bucket, NEW t \in Nat
  PROVE  Refilled(b, t) \in 0..Cap
<1>1. /\ b.tokens \in Nat /\ b.tokens <= Cap /\ b.last \in Nat /\ Cap \in Nat
  BY CapType DEF Bucket
<1>2. Elapsed(b, t) \in Nat
  BY <1>1 DEF Elapsed
<1>3. QED
  BY <1>1, <1>2 DEF Refilled, Least

LEMMA FoundType ==
  ASSUME TypeOK, NEW w \in Busy
  PROVE  /\ calls[w].key \in Keys /\ calls[w].at \in Nat
         /\ Found(calls[w]) \in 0..Cap
<1>1. calls[w].key \in Keys /\ calls[w].at \in Nat
  BY DEF TypeOK, Call
<1>2. CASE calls[w].key \in Tracked
  <2>1. buckets[calls[w].key] \in Bucket
    BY <1>2 DEF TypeOK
  <2>2. QED
    BY <1>1, <1>2, <2>1, RefilledType DEF Found
<1>3. CASE calls[w].key \notin Tracked
  BY <1>1, <1>3, CapType DEF Found
<1>4. QED
  BY <1>1, <1>2, <1>3

LEMMA TypeInit == Init => TypeOK
  BY CapType DEF Init, TypeOK, EmptyMap, Tracked, Busy, None

LEMMA SettleType ==
  ASSUME TypeOK, ReadingsPast, NEW w \in Workers, NEW granted \in BOOLEAN, Settle(w, granted)
  PROVE  TypeOK'
<1> DEFINE c == calls[w]
           after == [tokens |-> IF granted THEN Found(c) - Cost ELSE Found(c), last |-> c.at]
<1>1. w \in Busy /\ (granted <=> Found(c) >= Cost)
  BY Zenon DEF Settle
<1>2. c.key \in Keys /\ c.at \in Nat /\ Found(c) \in 0..Cap
  BY <1>1, FoundType
<1>3. after \in Bucket
  BY <1>1, <1>2, CapType, LimiterAssumption DEF Bucket
<1>4. buckets' = With(buckets, c.key, after) /\ calls' = Without(calls, {w})
  BY DEF Settle
<1>5. Tracked' \subseteq Keys /\ buckets' \in [Tracked' -> Bucket]
  BY <1>2, <1>3, <1>4 DEF TypeOK, With, Tracked
<1>6. Busy' \subseteq Workers /\ calls' \in [Busy' -> Call]
  BY <1>4 DEF TypeOK, Without, Busy
<1>7. credit' \in [Keys -> Int] /\ late' \in [Keys -> Nat]
  <2>1. now - c.at \in Nat
    BY <1>1, <1>2 DEF ReadingsPast, TypeOK
  <2>2. QED
    BY <1>2, <2>1, LimiterAssumption DEF Settle, TypeOK
<1>8. QED
  BY <1>5, <1>6, <1>7 DEF TypeOK, Settle

\* Dropping buckets leaves the others as they are.
LEMMA WithoutType ==
  ASSUME TypeOK, NEW S, buckets' = Without(buckets, S)
  PROVE  /\ Tracked' = Tracked \ S /\ Tracked' \subseteq Keys
         /\ buckets' \in [Tracked' -> Bucket]
         /\ \A k \in Tracked' : buckets'[k] = buckets[k]
  BY DEF TypeOK, Without, Tracked

LEMMA TypeStep == TypeOK /\ ReadingsPast /\ [Next]_vars => TypeOK'
<1> SUFFICES ASSUME TypeOK, ReadingsPast, [Next]_vars
             PROVE  TypeOK'
  OBVIOUS
<1>1. CASE Tick
  BY <1>1, CapType DEF Tick, TypeOK, Tracked, Busy, Least
<1>2. CASE StartSweep
  BY <1>2 DEF StartSweep, TypeOK, Tracked, Busy, history
<1>3. CASE Sweep
  <2>1. /\ Tracked' \subseteq Keys /\ buckets' \in [Tracked' -> Bucket]
    BY <1>3, WithoutType DEF Sweep
  <2>2. QED
    BY <1>3, <2>1 DEF Sweep, TypeOK, Busy, history
<1>4. ASSUME NEW w \in Workers, NEW k \in Keys, Arrive(w, k)
      PROVE  TypeOK'
  <2>1. [key |-> k, at |-> now] \in Call
    BY DEF Call, TypeOK
  <2>2. Busy' \subseteq Workers /\ calls' \in [Busy' -> Call]
    BY <1>4, <2>1 DEF Arrive, With, TypeOK, Busy
  <2>3. QED
    BY <1>4, <2>2 DEF Arrive, TypeOK, Tracked, history
<1>5. ASSUME NEW w \in Workers, Admit(w)
      PROVE  TypeOK'
  BY <1>5, SettleType DEF Admit
<1>6. ASSUME NEW w \in Workers, Deny(w)
      PROVE  TypeOK'
  BY <1>6, SettleType DEF Deny
<1>7. CASE UNCHANGED vars
  BY <1>7 DEF vars, TypeOK, Tracked, Busy, history
<1>8. QED
  BY <1>1, <1>2, <1>3, <1>4, <1>5, <1>6, <1>7 DEF Next

-----------------------------------------------------------------------------
LEMMA ReadingsStep == TypeOK /\ ReadingsPast /\ [Next]_vars => ReadingsPast'
<1> SUFFICES ASSUME TypeOK, ReadingsPast, [Next]_vars
             PROVE  ReadingsPast'
  OBVIOUS
<1>1. CASE Tick
  BY <1>1 DEF Tick, ReadingsPast, TypeOK, Tracked, Busy, Bucket, Call, None
<1>2. CASE StartSweep
  BY <1>2 DEF StartSweep, ReadingsPast, TypeOK, Tracked, Busy, history
<1>3. CASE Sweep
  <2>1. \A k \in Tracked' : k \in Tracked /\ buckets'[k] = buckets[k]
    BY <1>3, WithoutType DEF Sweep
  <2>2. QED
    BY <1>3, <2>1 DEF Sweep, ReadingsPast, TypeOK, Busy, None, history
<1>4. ASSUME NEW w \in Workers, NEW k \in Keys, Arrive(w, k)
      PROVE  ReadingsPast'
  <2>1. \A x \in Busy' : calls'[x].at <= now
    BY <1>4 DEF Arrive, With, Busy, ReadingsPast, TypeOK
  <2>2. QED
    BY <1>4, <2>1 DEF Arrive, ReadingsPast, Tracked, history
<1>5. ASSUME NEW w \in Workers, NEW granted \in BOOLEAN, Settle(w, granted)
      PROVE  ReadingsPast'
  <2>1. w \in Busy /\ calls[w].at <= now
    BY <1>5 DEF Settle, ReadingsPast
  <2>2. \A k \in Tracked' : buckets'[k].last <= now
    BY <1>5, <2>1 DEF Settle, With, Tracked, ReadingsPast
  <2>3. \A x \in Busy' : calls'[x].at <= now
    BY <1>5 DEF Settle, Without, Busy, ReadingsPast
  <2>4. QED
    BY <1>5, <2>2, <2>3 DEF Settle, ReadingsPast
<1>6. CASE UNCHANGED vars
  BY <1>6 DEF vars, ReadingsPast, Tracked, Busy
<1>7. QED
  BY <1>1, <1>2, <1>3, <1>4, <1>5, <1>6 DEF Next, Admit, Deny

-----------------------------------------------------------------------------
(* The level of a bucket against the ideal bucket's.                       *)

LEMMA LevelType ==
  ASSUME TypeOK, NEW k \in Keys
  PROVE  Level(k) \in 0..Cap
<1>1. CASE k \in Tracked
  <2>1. buckets[k] \in Bucket /\ now \in Nat
    BY <1>1 DEF TypeOK
  <2>2. QED
    BY <1>1, <2>1, RefilledType DEF Level
<1>2. CASE k \notin Tracked
  BY <1>2, CapType DEF Level
<1>3. QED
  BY <1>1, <1>2

\* One tick earns every bucket one unit, up to its capacity.
LEMMA TickLevel ==
  ASSUME TypeOK, ReadingsPast, Tick, NEW k \in Keys
  PROVE  Level(k)' = Least(Cap, Level(k) + 1)
<1>1. Cap \in Nat /\ Tracked' = Tracked
  BY CapType DEF Tick, Tracked
<1>2. CASE k \in Tracked
  <2>1. buckets[k].tokens \in Nat /\ buckets[k].last \in Nat /\ now \in Nat
    BY <1>2 DEF TypeOK, Bucket
  <2>2. buckets[k].last <= now /\ now' = now + 1 /\ buckets' = buckets
    BY <1>2 DEF ReadingsPast, Tick
  <2>3. /\ Level(k) = Least(Cap, buckets[k].tokens + (now - buckets[k].last))
        /\ Level(k)' = Least(Cap, buckets[k].tokens + (now + 1 - buckets[k].last))
    BY <1>1, <1>2, <2>1, <2>2 DEF Level, Refilled, Elapsed
  <2>4. QED
    BY <1>1, <2>1, <2>2, <2>3 DEF Least
<1>3. CASE k \notin Tracked
  BY <1>1, <1>3 DEF Level, Least
<1>4. QED
  BY <1>2, <1>3

\* A check takes from the level what it charges, and brings it forward by at
\* most the time it waited; what it finds is behind by at most that.
LEMMA SettleLevel ==
  ASSUME TypeOK, ReadingsPast, NEW w \in Workers, NEW granted \in BOOLEAN, Settle(w, granted),
         NEW k \in Keys, k = calls[w].key,
         NEW charge \in Nat, charge = IF granted THEN Cost ELSE 0
  PROVE  LET wait == now - calls[w].at
         IN  /\ Level(k) - charge <= Level(k)'
             /\ Level(k)' <= Level(k) - charge + wait
             /\ Level(k) - wait <= Found(calls[w])
<1> DEFINE at == calls[w].at
           found == Found(calls[w])
           wait == now - at
<1>1. w \in Busy /\ (granted <=> found >= Cost)
  BY Zenon DEF Settle
<1>2. k \in Keys /\ at \in Nat /\ found \in 0..Cap /\ now \in Nat /\ at <= now
  BY <1>1, FoundType DEF TypeOK, ReadingsPast
<1>3. Cap \in Nat /\ Cost \in Nat /\ Cost <= Cap
  BY CapType, LimiterAssumption
<1>4. charge <= found
  BY <1>1, <1>2, <1>3
<1>5. Level(k)' = Least(Cap, found - charge + wait)
  <2>1. /\ k \in Tracked'
        /\ buckets'[k].tokens = found - charge
        /\ buckets'[k].last = at
        /\ now' = now
    BY <1>2, <1>3 DEF Settle, With, Tracked
  <2>2. QED
    BY <1>2, <2>1 DEF Level, Refilled, Elapsed
<1>6. found <= Level(k) /\ Level(k) <= Least(Cap, found + wait)
  <2>1. CASE k \in Tracked
    <3>1. /\ buckets[k].tokens \in Nat /\ buckets[k].tokens <= Cap
          /\ buckets[k].last \in Nat /\ buckets[k].last <= now
      BY <1>3, <2>1 DEF TypeOK, Bucket, ReadingsPast
    <3>2. /\ found = Refilled(buckets[k], at)
          /\ Level(k) = Refilled(buckets[k], now)
      BY <2>1 DEF Found, Level
    <3>3. QED
      BY <1>2, <1>3, <3>1, <3>2 DEF Refilled, Elapsed, Least
  <2>2. CASE k \notin Tracked
    BY <1>2, <1>3, <2>2 DEF Found, Level, Least
  <2>3. QED
    BY <2>1, <2>2
<1>7. Level(k) \in 0..Cap
  BY <1>2, LevelType
<1>8. QED
  BY <1>2, <1>3, <1>4, <1>5, <1>6, <1>7 DEF Least

\* Nobody else's level moves.
LEMMA SettleOthers ==
  ASSUME NEW w \in Workers, NEW granted \in BOOLEAN, Settle(w, granted),
         NEW k \in Keys, k # calls[w].key
  PROVE  Level(k)' = Level(k)
  BY DEF Settle, With, Tracked, Level, Refilled, Elapsed

\* Cleanup drops full buckets, which are as good as none.
LEMMA SweepLevel ==
  ASSUME TypeOK, ReadingsPast, Sweep, NEW k \in Keys
  PROVE  Level(k)' = Level(k)
<1> DEFINE full == {x \in Tracked : Refilled(buckets[x], sweep) >= Cap}
<1>1. /\ Tracked' = Tracked \ full
      /\ \A x \in Tracked' : buckets'[x] = buckets[x]
      /\ now' = now
  BY WithoutType DEF Sweep
<1>2. CASE k \in full
  <2>1. /\ buckets[k].tokens \in Nat /\ buckets[k].tokens <= Cap
        /\ buckets[k].last \in Nat /\ buckets[k].last <= now
        /\ now \in Nat /\ sweep \in Nat /\ sweep <= now /\ Cap \in Nat
    BY <1>2, CapType DEF TypeOK, Bucket, ReadingsPast, Sweep, None
  <2>2. Level(k) = Cap
    BY <1>2, <2>1 DEF Level, Refilled, Elapsed, Least
  <2>3. Level(k)' = Cap
    BY <1>1, <1>2 DEF Level
  <2>4. QED
    BY <2>2, <2>3
<1>3. CASE k \notin full
  BY <1>1, <1>3 DEF Level, Refilled, Elapsed
<1>4. QED
  BY <1>2, <1>3

LEMMA TracksInit == Init => Tracks
<1> SUFFICES ASSUME Init, NEW k \in Keys
             PROVE  credit[k] <= Level(k) /\ Level(k) <= credit[k] + late[k]
  BY DEF Tracks
<1>1. Level(k) = Cap
  BY DEF Init, Level, Tracked, EmptyMap
<1>2. QED
  BY <1>1, CapType DEF Init

LEMMA TracksStep == Inv /\ [Next]_vars => Tracks'
<1> SUFFICES ASSUME Inv, [Next]_vars, NEW k \in Keys
             PROVE  credit'[k] <= Level(k)' /\ Level(k)' <= credit'[k] + late'[k]
  BY DEF Tracks
<1> USE DEF Inv
<1>1. /\ credit[k] \in Int /\ late[k] \in Nat /\ Level(k) \in Nat /\ Level(k) <= Cap
      /\ Cap \in Nat /\ credit[k] <= Level(k) /\ Level(k) <= credit[k] + late[k]
  BY LevelType, CapType DEF TypeOK, Tracks
<1>2. CASE Tick
  <2>1. Level(k)' = Least(Cap, Level(k) + 1)
    BY <1>2, TickLevel
  <2>2. credit'[k] = Least(Cap, credit[k] + 1) /\ late'[k] = late[k]
    BY <1>2 DEF Tick
  <2>3. QED
    BY <1>1, <2>1, <2>2 DEF Least
<1>3. CASE StartSweep
  BY <1>1, <1>3 DEF StartSweep, Level, Tracked, history
<1>4. CASE Sweep
  <2>1. Level(k)' = Level(k)
    BY <1>4, SweepLevel
  <2>2. QED
    BY <1>1, <1>4, <2>1 DEF Sweep, history
<1>5. ASSUME NEW w \in Workers, NEW x \in Keys, Arrive(w, x)
      PROVE  credit'[k] <= Level(k)' /\ Level(k)' <= credit'[k] + late'[k]
  BY <1>1, <1>5 DEF Arrive, Level, Tracked, history
<1>6. ASSUME NEW w \in Workers, NEW granted \in BOOLEAN, Settle(w, granted)
      PROVE  credit'[k] <= Level(k)' /\ Level(k)' <= credit'[k] + late'[k]
  <2>1. CASE k = calls[w].key
    <3> DEFINE wait == now - calls[w].at
    <3>0. PICK charge : charge = IF granted THEN Cost ELSE 0
      OBVIOUS
    <3>1. w \in Busy
      BY <1>6 DEF Settle
    <3>2. charge \in Nat /\ now \in Nat /\ calls[w].at \in Nat /\ calls[w].at <= now
      BY <3>0, <3>1, FoundType, LimiterAssumption DEF TypeOK, ReadingsPast
    <3>3. Level(k) - charge <= Level(k)' /\ Level(k)' <= Level(k) - charge + wait
      BY <1>6, <2>1, <3>0, <3>2, SettleLevel
    <3>4. credit'[k] = credit[k] - charge /\ late'[k] = late[k] + wait
      BY <1>1, <1>6, <2>1, <3>0 DEF Settle, TypeOK
    <3>5. Level(k)' \in Nat
      <4>1. TypeOK'
        BY <1>6, SettleType
      <4>2. QED
        BY <1>1, <4>1, LevelType, CapType DEF Level, Refilled, Elapsed, Least, TypeOK, Bucket
    <3>6. QED
      BY <1>1, <3>2, <3>3, <3>4, <3>5
  <2>2. CASE k # calls[w].key
    <3>1. Level(k)' = Level(k)
      BY <1>6, <2>2, SettleOthers
    <3>2. credit'[k] = credit[k] /\ late'[k] = late[k]
      BY <1>6, <2>2 DEF Settle, TypeOK
    <3>3. QED
      BY <1>1, <3>1, <3>2
  <2>3. QED
    BY <2>1, <2>2
<1>7. CASE UNCHANGED vars
  BY <1>1, <1>7 DEF vars, Level, Tracked, history
<1>8. QED
  BY <1>2, <1>3, <1>4, <1>5, <1>6, <1>7 DEF Next, Admit, Deny

LEMMA InvInit == Init => Inv
<1> SUFFICES ASSUME Init PROVE Inv
  OBVIOUS
<1>1. ReadingsPast
  BY DEF Init, ReadingsPast, Tracked, Busy, EmptyMap, None
<1>2. QED
  BY <1>1, TypeInit, TracksInit DEF Inv

LEMMA InvStep == Inv /\ [Next]_vars => Inv'
  BY TypeStep, ReadingsStep, TracksStep DEF Inv

LEMMA AlwaysInv == Spec => []Inv
  BY InvInit, InvStep, PTL DEF Spec

-----------------------------------------------------------------------------
\* The map of buckets follows the ideal bucket of every key, within the time
\* its callers waited for the lock (ratelimit.rs:37-65).
THEOREM Tracking == Spec => []Tracks
  BY AlwaysInv, PTL DEF Inv

\* No key is admitted more than burst and rate allow, beyond that same time.
THEOREM Admissions == Spec => []AdmittedWithinBound
<1>1. Inv => AdmittedWithinBound
  <2> SUFFICES ASSUME Inv, NEW k \in Keys
               PROVE  credit[k] + late[k] >= 0
    BY DEF AdmittedWithinBound
  <2>1. Level(k) \in Nat /\ credit[k] \in Int /\ late[k] \in Nat
    BY LevelType, CapType DEF Inv, TypeOK
  <2>2. QED
    BY <2>1 DEF Inv, Tracks
<1>2. QED
  BY <1>1, AlwaysInv, PTL

\* A denied request found less than a token in an ideal bucket, too.
THEOREM Denials == Spec => DeniedOnlyWhenSpent
<1> DEFINE Step == \A w \in Workers : Deny(w) =>
                     credit[calls[w].key] < Cost + (now - calls[w].at)
<1>1. Inv /\ [Next]_vars => [Step]_vars
  <2> SUFFICES ASSUME Inv, NEW w \in Workers, Deny(w)
               PROVE  credit[calls[w].key] < Cost + (now - calls[w].at)
    OBVIOUS
  <2> DEFINE k == calls[w].key
  <2> USE DEF Inv
  <2>1. w \in Busy /\ Settle(w, FALSE)
    BY DEF Deny, Settle
  <2>2. Found(calls[w]) < Cost /\ Found(calls[w]) \in Nat /\ Cost \in Nat
    BY <2>1, FoundType, CapType, LimiterAssumption DEF Settle
  <2>3. k \in Keys /\ calls[w].at \in Nat /\ now \in Nat
    BY <2>1, FoundType DEF TypeOK
  <2>4. Level(k) - (now - calls[w].at) <= Found(calls[w])
    BY <2>1, <2>3, SettleLevel
  <2>5. credit[k] \in Int /\ Level(k) \in Nat /\ credit[k] <= Level(k)
    BY <2>3, LevelType, CapType DEF TypeOK, Tracks
  <2>6. QED
    BY <2>2, <2>3, <2>4, <2>5
<1>2. QED
  BY <1>1, AlwaysInv, PTL DEF Spec, DeniedOnlyWhenSpent

-----------------------------------------------------------------------------
(* The rule as the configuration states it, of the observed limiter.  Let  *)
(* n be the newest reading used on a key's bucket.  As long as nobody is   *)
(* overtaken the bucket is dated n, nothing was admitted after n, and      *)
(* whatever any window up to n has used of its allowance, the bucket's     *)
(* content still fits into what is left of it.                             *)

Flat(f, n) == \A t \in n..MaxTime : f[t] = f[n]

Paid(f, n, content) ==
  \A a \in 0..n : Cost * Made(f, a, n) + content <= Cap + (n - a)

Within(f) ==
  \A a, b \in 0..MaxTime : a <= b => Cost * Made(f, a, b) <= Cap + (b - a)

Content(k) == IF k \in Tracked THEN buckets[k].tokens ELSE Cap

Accounted(k) ==
  /\ k \in Tracked => buckets[k].last = newest[k]
  /\ Flat(admitted[k], newest[k])
  /\ Paid(admitted[k], newest[k], Content(k))
  /\ Within(admitted[k])

WShapes ==
  /\ now <= MaxTime
  /\ admitted \in [Keys -> [0..MaxTime -> Nat]]
  /\ newest \in [Keys -> 0..MaxTime]
  /\ overtaken \in BOOLEAN

WInv ==
  /\ Inv /\ WShapes
  /\ ~overtaken => \A k \in Keys : Accounted(k)

\* What windows have used when time passes, and nothing was admitted since n.
LEMMA MadeLater ==
  ASSUME NEW f \in [0..MaxTime -> Nat], NEW n \in 0..MaxTime, NEW t \in n..MaxTime, Flat(f, n),
         NEW a \in 0..t
  PROVE  /\ Made(f, a, t) \in Int
         /\ a <= n => Made(f, a, t) = Made(f, a, n)
         /\ n < a => Made(f, a, t) = 0
<1>1. MaxTime \in Nat
  BY LimiterAssumption
<1>2. f[t] = f[n] /\ f[t] \in Nat /\ f[n] \in Nat
  BY <1>1 DEF Flat
<1>3. a # 0 => a - 1 \in 0..MaxTime /\ f[a - 1] \in Nat
  BY <1>1
<1>4. n < a => f[a - 1] = f[n]
  BY <1>1 DEF Flat
<1>5. QED
  BY <1>1, <1>2, <1>3, <1>4 DEF Made

\* A later reading finds no more than was earned meanwhile: it still fits.
LEMMA RefillFits ==
  ASSUME NEW f \in [0..MaxTime -> Nat], NEW n \in 0..MaxTime, NEW t \in n..MaxTime,
         NEW content \in 0..Cap, NEW found \in 0..Cap,
         Flat(f, n), Paid(f, n, content), found <= content + (t - n)
  PROVE  Flat(f, t) /\ Paid(f, t, found)
<1>1. MaxTime \in Nat /\ Cap \in Nat /\ Cost \in Nat
  BY LimiterAssumption, CapType
<1>2. Flat(f, t)
  BY <1>1 DEF Flat
<1>3. ASSUME NEW a \in 0..t
      PROVE  Cost * Made(f, a, t) + found <= Cap + (t - a)
  <2>1. CASE a <= n
    <3>1. Made(f, a, t) = Made(f, a, n)
      BY <2>1, MadeLater
    <3>2. Cost * Made(f, a, n) + content <= Cap + (n - a)
      BY <1>1, <2>1 DEF Paid
    <3>3. Made(f, a, t) \in Int /\ Cost * Made(f, a, t) \in Int
      BY <1>1, MadeLater
    <3>4. QED
      BY <1>1, <3>1, <3>2, <3>3
  <2>2. CASE n < a
    <3>1. Made(f, a, t) = 0
      BY <2>2, MadeLater
    <3>2. QED
      BY <1>1, <2>2, <3>1
  <2>3. QED
    BY <1>1, <2>1, <2>2
<1>4. QED
  BY <1>2, <1>3 DEF Paid

\* One more request costs Cost more.
LEMMA CostOfOneMore ==
  ASSUME NEW n \in Int
  PROVE  Cost * n \in Int /\ Cost * (n + 1) = Cost * n + Cost
<1>1. Cost \in Int
  BY LimiterAssumption
<1>2. QED
  BY <1>1

\* One more request admitted at t, the newest reading, and paid from the bucket.
LEMMA ChargeFits ==
  ASSUME NEW f \in [0..MaxTime -> Nat], NEW t \in 0..MaxTime, NEW found \in Cost..Cap,
         Flat(f, t), Paid(f, t, found), Within(f),
         NEW g, g = [x \in 0..MaxTime |-> IF t <= x THEN f[x] + 1 ELSE f[x]]
  PROVE  Flat(g, t) /\ Paid(g, t, found - Cost) /\ Within(g)
<1>1. MaxTime \in Nat /\ Cap \in Nat /\ Cost \in Nat
  BY LimiterAssumption, CapType
<1>2. Flat(g, t)
  BY <1>1 DEF Flat
<1>3. ASSUME NEW a \in 0..t
      PROVE  Cost * Made(g, a, t) + (found - Cost) <= Cap + (t - a)
  <2>1. Made(f, a, t) \in Int /\ Made(g, a, t) = Made(f, a, t) + 1
    BY <1>1 DEF Made
  <2>2. Cost * (Made(f, a, t) + 1) = Cost * Made(f, a, t) + Cost /\ Cost * Made(f, a, t) \in Int
    BY <2>1, CostOfOneMore
  <2>3. Cost * Made(f, a, t) + found <= Cap + (t - a)
    BY DEF Paid
  <2>4. QED
    BY <1>1, <2>1, <2>2, <2>3
<1>4. Paid(g, t, found - Cost)
  BY <1>3 DEF Paid
<1>5. ASSUME NEW a \in 0..MaxTime, NEW b \in 0..MaxTime, a <= b
      PROVE  Cost * Made(g, a, b) <= Cap + (b - a)
  <2>1. CASE b < t
    <3>1. Made(g, a, b) = Made(f, a, b)
      BY <1>1, <1>5, <2>1 DEF Made
    <3>2. QED
      BY <1>5, <3>1 DEF Within
  <2>2. CASE t <= b /\ a <= t
    <3>1. Made(g, a, b) = Made(g, a, t) /\ Made(g, a, t) \in Int
      BY <1>1, <1>2, <2>2 DEF Made, Flat
    <3>2. Cost * Made(g, a, t) + (found - Cost) <= Cap + (t - a) /\ Cost * Made(g, a, t) \in Int
      <4>1. a \in 0..t
        BY <1>1, <2>2
      <4>2. QED
        BY <1>3, <3>1, <4>1, CostOfOneMore
    <3>3. QED
      BY <1>1, <2>2, <3>1, <3>2
  <2>3. CASE t < a
    <3>1. g[b] = g[t] /\ g[a - 1] = g[t] /\ g[t] \in Nat /\ a # 0
      BY <1>1, <1>2, <1>5, <2>3 DEF Flat
    <3>2. Made(g, a, b) = 0
      BY <3>1 DEF Made
    <3>3. QED
      BY <1>1, <1>5, <3>2
  <2>4. QED
    BY <1>1, <2>1, <2>2, <2>3
<1>6. QED
  BY <1>2, <1>4, <1>5 DEF Within

\* An observed step is a step of the limiter.
LEMMA WStep == [WNext]_wvars => [Next]_vars
  BY DEF WNext, WSweep, WAdmit, WDeny, wvars, Next

\* What Spec promises, the observed limiter keeps.
LEMMA Observed == WSpec => Spec
<1>1. WInit => Init
  BY DEF WInit
<1>2. QED
  BY <1>1, WStep, PTL DEF WSpec, Spec

LEMMA WInvInit == WInit => WInv
<1> SUFFICES ASSUME WInit PROVE WInv
  OBVIOUS
<1>1. Inv
  BY InvInit DEF WInit
<1>2. MaxTime \in Nat /\ Cap \in Nat /\ Cost \in Nat
  BY LimiterAssumption, CapType
<1>3. WShapes
  <2>1. admitted \in [Keys -> [0..MaxTime -> Nat]]
    BY Zenon, <1>2 DEF WInit
  <2>2. newest \in [Keys -> 0..MaxTime]
    BY <1>2 DEF WInit
  <2>3. QED
    <3>1. now <= MaxTime
      BY <1>2 DEF WInit, Init
    <3>2. overtaken \in BOOLEAN
      BY DEF WInit
    <3>3. QED
      BY <2>1, <2>2, <3>1, <3>2 DEF WShapes
<1>4. ASSUME NEW k \in Keys
      PROVE  Accounted(k)
  <2>1. k \notin Tracked /\ newest[k] = 0 /\ \A t \in 0..MaxTime : admitted[k][t] = 0
    BY DEF WInit, Init, Tracked, EmptyMap
  <2>2. \A a, b \in 0..MaxTime : Made(admitted[k], a, b) = 0
    BY <1>2, <2>1 DEF Made
  <2>3. Flat(admitted[k], newest[k])
    BY <1>2, <2>1 DEF Flat
  <2>4. Paid(admitted[k], newest[k], Content(k)) /\ Within(admitted[k])
    BY <1>2, <2>1, <2>2 DEF Paid, Within, Content
  <2>5. QED
    BY <2>1, <2>3, <2>4 DEF Accounted
<1>5. QED
  BY <1>1, <1>3, <1>4 DEF WInv

\* A bucket that a step leaves alone stays accounted for.
LEMMA AccountedStays ==
  ASSUME NEW k \in Keys, Accounted(k), admitted'[k] = admitted[k], newest'[k] = newest[k],
         (k \in Tracked') <=> (k \in Tracked), k \in Tracked => buckets'[k] = buckets[k]
  PROVE  Accounted(k)'
<1>1. Content(k)' = Content(k)
  BY DEF Content
<1>2. Flat(admitted'[k], newest'[k]) /\ Paid(admitted'[k], newest'[k], Content(k)')
  BY <1>1 DEF Accounted
<1>3. QED
  BY <1>2 DEF Accounted

\* What a reading no older than the newest finds in a bucket.
LEMMA FoundFits ==
  ASSUME WInv, NEW w \in Busy, NEW k \in Keys, k = calls[w].key, Accounted(k), newest[k] <= calls[w].at
  PROVE  /\ calls[w].at \in newest[k]..MaxTime
         /\ Content(k) \in 0..Cap
         /\ Found(calls[w]) \in 0..Cap
         /\ Found(calls[w]) <= Content(k) + (calls[w].at - newest[k])
<1>1. /\ calls[w].at \in Nat /\ calls[w].at <= now /\ now \in Nat /\ now <= MaxTime
      /\ MaxTime \in Nat /\ newest[k] \in 0..MaxTime /\ Cap \in Nat
      /\ Found(calls[w]) \in 0..Cap
  BY FoundType, CapType, LimiterAssumption DEF WInv, WShapes, Inv, ReadingsPast, TypeOK
<1>2. CASE k \in Tracked
  <2>1. buckets[k].tokens \in 0..Cap /\ buckets[k].last = newest[k]
    BY <1>2 DEF WInv, Inv, TypeOK, Bucket, Accounted
  <2>2. Found(calls[w]) = Least(Cap, buckets[k].tokens + (calls[w].at - newest[k]))
    BY <1>1, <1>2, <2>1 DEF Found, Refilled, Elapsed
  <2>3. QED
    BY <1>1, <1>2, <2>1, <2>2 DEF Least, Content
<1>3. CASE k \notin Tracked
  BY <1>1, <1>3 DEF Content, Found
<1>4. QED
  BY <1>2, <1>3

LEMMA ObserveShapes ==
  ASSUME WInv, NEW w \in Workers, NEW granted \in BOOLEAN, Settle(w, granted), Observe(w)
  PROVE  /\ w \in Busy /\ calls[w].key \in Keys /\ calls[w].at \in 0..MaxTime
         /\ newest' \in [Keys -> 0..MaxTime] /\ overtaken' \in BOOLEAN /\ now' = now
<1>1. w \in Busy /\ now' = now
  BY Zenon DEF Settle
<1>2. calls[w].key \in Keys /\ calls[w].at \in 0..MaxTime
  BY <1>1, FoundType, LimiterAssumption DEF WInv, WShapes, Inv, ReadingsPast, TypeOK
<1>3. newest' \in [Keys -> 0..MaxTime]
  BY <1>2, LimiterAssumption DEF Observe, Later, WInv, WShapes
<1>4. overtaken' \in BOOLEAN
  BY Zenon DEF Observe, WInv, WShapes
<1>5. QED
  BY <1>1, <1>2, <1>3, <1>4

\* A check, admitted or denied, that overtakes nobody and is not overtaken.
LEMMA SettleAccounted ==
  ASSUME WInv, NEW w \in Workers, NEW granted \in BOOLEAN, Settle(w, granted), Observe(w),
         granted => admitted' = [admitted EXCEPT ![calls[w].key] =
           [t \in 0..MaxTime |-> IF calls[w].at <= t THEN @[t] + 1 ELSE @[t]]],
         ~granted => admitted' = admitted,
         ~overtaken', NEW k \in Keys
  PROVE  Accounted(k)'
<1> DEFINE at == calls[w].at
           found == Found(calls[w])
<1>1. w \in Busy /\ calls[w].key \in Keys /\ at \in 0..MaxTime
  BY ObserveShapes
<1>2. ~overtaken /\ newest[calls[w].key] <= at
  <2>1. ~overtaken /\ ~(at < newest[calls[w].key])
    BY Zenon DEF Observe
  <2>2. newest[calls[w].key] \in 0..MaxTime
    BY <1>1 DEF WInv, WShapes
  <2>3. QED
    BY <1>1, <2>1, <2>2, LimiterAssumption
<1>3. Accounted(k)
  BY <1>2 DEF WInv
<1>4. CASE k # calls[w].key
  <2>1. admitted'[k] = admitted[k]
    BY <1>4 DEF WInv, WShapes
  <2>2. newest'[k] = newest[k]
    BY <1>4 DEF Observe, WInv, WShapes
  <2>3. ((k \in Tracked') <=> (k \in Tracked)) /\ (k \in Tracked => buckets'[k] = buckets[k])
    BY <1>4 DEF Settle, With, Tracked
  <2>4. QED
    BY <1>3, <2>1, <2>2, <2>3, AccountedStays
<1>5. CASE k = calls[w].key
  <2>1. /\ at \in newest[k]..MaxTime /\ Content(k) \in 0..Cap /\ found \in 0..Cap
        /\ found <= Content(k) + (at - newest[k])
    BY <1>1, <1>2, <1>3, <1>5, FoundFits
  <2>2. admitted[k] \in [0..MaxTime -> Nat] /\ newest[k] \in 0..MaxTime
    BY DEF WInv, WShapes
  <2>3. Flat(admitted[k], at) /\ Paid(admitted[k], at, found)
    BY <1>3, <2>1, <2>2, RefillFits DEF Accounted
  <2>4. newest'[k] = at
    BY <1>1, <1>2, <1>5, <2>2, LimiterAssumption DEF Observe, Later, WInv, WShapes
  <2>5. /\ k \in Tracked' /\ buckets'[k].last = at
        /\ buckets'[k].tokens = IF granted THEN found - Cost ELSE found
    BY <1>5 DEF Settle, With, Tracked
  <2>6. CASE granted
    <3>1. found \in Cost..Cap
      <4>1. found >= Cost
        BY <2>6, Zenon DEF Settle
      <4>2. QED
        BY <2>1, <4>1, CapType, LimiterAssumption
    <3>2. admitted'[k] = [t \in 0..MaxTime |-> IF at <= t THEN admitted[k][t] + 1 ELSE admitted[k][t]]
      BY <1>5, <2>6 DEF WInv, WShapes
    <3>3. Flat(admitted'[k], at) /\ Paid(admitted'[k], at, found - Cost) /\ Within(admitted'[k])
      <4>1. Within(admitted[k])
        BY <1>3 DEF Accounted
      <4>2. QED
        BY <1>1, <2>2, <2>3, <3>1, <3>2, <4>1, ChargeFits
    <3>4. Content(k)' = found - Cost
      BY <2>5, <2>6 DEF Content
    <3>5. QED
      BY <2>4, <2>5, <3>3, <3>4 DEF Accounted
  <2>7. CASE ~granted
    <3>1. Content(k)' = found /\ admitted'[k] = admitted[k]
      BY <2>5, <2>7 DEF Content
    <3>2. QED
      BY <1>3, <2>3, <2>4, <2>5, <3>1 DEF Accounted
  <2>8. QED
    BY <2>6, <2>7
<1>6. QED
  BY <1>4, <1>5

\* Cleanup drops a bucket that is full at its reading: none is as good.
LEMMA SweepAccounted ==
  ASSUME WInv, WSweep, ~overtaken, NEW k \in Keys
  PROVE  Accounted(k)'
<1>1. Accounted(k)
  BY DEF WInv
<1>2. /\ Tracked' = Tracked \ {x \in Tracked : Refilled(buckets[x], sweep) >= Cap}
      /\ \A x \in Tracked' : buckets'[x] = buckets[x]
      /\ admitted' = admitted
  BY WithoutType DEF WSweep, Sweep, WInv, Inv
<1>3. CASE k \notin Tracked \ Tracked'
  <2>1. newest'[k] = newest[k]
    BY <1>3 DEF WSweep
  <2>2. QED
    BY <1>1, <1>2, <1>3, <2>1, AccountedStays
<1>4. CASE k \in Tracked \ Tracked'
  <2> DEFINE b == buckets[k]
             t == Later(newest[k], sweep)
  <2>1. /\ b.tokens \in 0..Cap /\ b.last = newest[k] /\ newest[k] \in 0..MaxTime
        /\ sweep \in Nat /\ sweep <= MaxTime /\ MaxTime \in Nat /\ Cap \in Nat
    BY <1>1, <1>4, CapType, LimiterAssumption
    DEF WInv, WShapes, Inv, TypeOK, Bucket, Accounted, WSweep, Sweep, ReadingsPast, None
  <2>2. Refilled(b, sweep) >= Cap
    BY <1>2, <1>4
  <2>3. t \in newest[k]..MaxTime /\ Cap <= b.tokens + (t - newest[k])
    BY <2>1, <2>2 DEF Refilled, Elapsed, Least, Later
  <2>4. newest'[k] = t
    BY <1>4 DEF WSweep
  <2>5. admitted[k] \in [0..MaxTime -> Nat] /\ Content(k) = b.tokens
    BY <1>4 DEF WInv, WShapes, Content
  <2>6. Flat(admitted[k], t) /\ Paid(admitted[k], t, Cap)
    <3>1. Cap \in 0..Cap
      BY <2>1
    <3>2. Flat(admitted[k], newest[k]) /\ Paid(admitted[k], newest[k], b.tokens)
      BY <1>1, <2>5 DEF Accounted
    <3>3. QED
      BY <2>1, <2>3, <2>5, <3>1, <3>2, RefillFits
  <2>7. Content(k)' = Cap /\ k \notin Tracked'
    BY <1>4 DEF Content, Cap
  <2>8. QED
    BY <1>1, <1>2, <2>4, <2>6, <2>7 DEF Accounted
<1>5. QED
  BY <1>3, <1>4

LEMMA WInvStep == WInv /\ [WNext]_wvars => WInv'
<1> SUFFICES ASSUME WInv, [WNext]_wvars
             PROVE  WInv'
  OBVIOUS
<1>1. Inv'
  BY WStep, InvStep DEF WInv
<1>2. ASSUME UNCHANGED <<buckets, admitted, newest, overtaken>>, now' <= MaxTime
      PROVE  WInv'
  <2>1. WShapes'
    BY <1>2 DEF WInv, WShapes
  <2>2. ASSUME ~overtaken', NEW k \in Keys
        PROVE  Accounted(k)'
    BY <1>2, <2>2, AccountedStays DEF WInv, Tracked
  <2>3. QED
    BY <1>1, <2>1, <2>2 DEF WInv
<1>3. CASE (Tick \/ StartSweep \/ \E w \in Workers, k \in Keys : Arrive(w, k)) /\ UNCHANGED observer
  <2>1. UNCHANGED <<buckets, admitted, newest, overtaken>>
    BY <1>3 DEF Tick, StartSweep, Arrive, observer, history
  <2>2. now' <= MaxTime
    <3>1. now \in Nat /\ MaxTime \in Nat /\ now <= MaxTime
      BY LimiterAssumption DEF WInv, WShapes, Inv, TypeOK
    <3>2. QED
      <4>1. CASE Tick
        BY <3>1, <4>1 DEF Tick
      <4>2. CASE now' = now
        BY <3>1, <4>2
      <4>3. QED
        BY <1>3, <4>1, <4>2 DEF StartSweep, Arrive
  <2>3. QED
    BY <1>2, <2>1, <2>2
<1>4. CASE WSweep
  <2>1. WShapes'
    <3>1. sweep \in 0..MaxTime
      BY <1>4, LimiterAssumption DEF WSweep, Sweep, WInv, WShapes, Inv, TypeOK, ReadingsPast, None
    <3>2. newest' \in [Keys -> 0..MaxTime]
      BY <1>4, <3>1, LimiterAssumption DEF WSweep, Later, WInv, WShapes
    <3>3. QED
      BY <1>4, <3>2 DEF WSweep, Sweep, WInv, WShapes
  <2>2. overtaken' = overtaken
    BY <1>4 DEF WSweep
  <2>3. QED
    BY <1>1, <1>4, <2>1, <2>2, SweepAccounted DEF WInv
<1>5. ASSUME NEW w \in Workers, WAdmit(w)
      PROVE  WInv'
  <2>1. Settle(w, TRUE) /\ Observe(w)
    BY <1>5 DEF WAdmit, Admit
  <2>2. WShapes'
    <3>1. admitted' \in [Keys -> [0..MaxTime -> Nat]]
      <4>1. w \in Busy /\ calls[w].key \in Keys /\ calls[w].at \in 0..MaxTime
        BY <2>1, ObserveShapes
      <4>2. \A k \in Keys : \A t \in 0..MaxTime : admitted[k][t] \in Nat /\ admitted[k][t] + 1 \in Nat
        <5>1. \A k \in Keys : admitted[k] \in [0..MaxTime -> Nat]
          BY DEF WInv, WShapes
        <5>2. \A k \in Keys : \A t \in 0..MaxTime : admitted[k][t] \in Nat
          BY <5>1
        <5>3. QED
          BY <5>2
      <4>3. [t \in 0..MaxTime |-> IF calls[w].at <= t THEN admitted[calls[w].key][t] + 1
                                  ELSE admitted[calls[w].key][t]] \in [0..MaxTime -> Nat]
        BY <4>1, <4>2, Zenon
      <4>4. QED
        BY <1>5, <4>1, <4>3 DEF WAdmit, WInv, WShapes
    <3>2. QED
      BY <2>1, <3>1, ObserveShapes DEF WInv, WShapes
  <2>3. ASSUME ~overtaken', NEW k \in Keys
        PROVE  Accounted(k)'
    BY <1>5, <2>1, <2>3, SettleAccounted DEF WAdmit
  <2>4. QED
    BY <1>1, <2>2, <2>3 DEF WInv
<1>6. ASSUME NEW w \in Workers, WDeny(w)
      PROVE  WInv'
  <2>1. Settle(w, FALSE) /\ Observe(w) /\ admitted' = admitted
    BY <1>6 DEF WDeny, Deny
  <2>2. WShapes'
    BY <2>1, ObserveShapes DEF WInv, WShapes
  <2>3. ASSUME ~overtaken', NEW k \in Keys
        PROVE  Accounted(k)'
    BY <2>1, <2>3, SettleAccounted
  <2>4. QED
    BY <1>1, <2>2, <2>3 DEF WInv
<1>7. CASE UNCHANGED wvars
  BY <1>2, <1>7 DEF wvars, vars, observer, WInv, WShapes
<1>8. QED
  BY <1>3, <1>4, <1>5, <1>6, <1>7 DEF WNext

\* While nobody is overtaken on the way to the lock, no key is admitted more,
\* over any window of time, than its burst and what the window earns
\* (config.rs:181-184, ratelimit.rs:37-65).
THEOREM RuleHolds == WSpec => []RuleUnlessOvertaken
<1>1. WInv => RuleUnlessOvertaken
  BY DEF WInv, RuleUnlessOvertaken, WithinRule, Accounted, Within
<1>2. QED
  BY <1>1, WInvInit, WInvStep, PTL DEF WSpec

-----------------------------------------------------------------------------
\* The tracker.
Typed == TTypeOK /\ IsFiniteSet(hits)

\* What the beacons and pages refer to; no two tabs show the same view.
Placed ==
  /\ \A t \in Tabs : page[t].open =>
       /\ page[t].beacon \in 1..views
       /\ page[t].path \in Paths
       /\ page[t].viewPath \in Paths /\ page[t].viewPath = started[page[t].beacon]
       /\ ~hashMode => page[t].path = page[t].viewPath
  /\ \A t, u \in Tabs :
       page[t].open /\ page[u].open /\ page[t].beacon = page[u].beacon => t = u
  /\ \A h \in hits : h.view \in 1..views /\ h.by \in 1..views
  /\ \A l \in loads : l.by \in 1..views /\ page[l.tab].open
  /\ hurried \subseteq 1..views

\* A view whose unload was posted is marked so for as long as a tab shows it.
Ended ==
  /\ \A h \in hits, t \in Tabs :
       h.kind = "unload" /\ page[t].open /\ h.view = page[t].beacon => page[t].unloaded
  /\ \A g, h \in hits : g.kind = "unload" /\ h.kind = "unload" /\ g.view = h.view => g = h
  /\ \A h \in hits : h.kind = "unload" \/ ~hashMode => h.path = started[h.view]

\* The view a load beacon was asked for is the one it names, or both were
\* hurried.
Own ==
  /\ \A l \in loads :
       l.by = page[l.tab].beacon \/ (l.by \in hurried /\ page[l.tab].beacon \in hurried)
  /\ \A h \in hits :
       h.kind = "load" => (h.view = h.by \/ (h.view \in hurried /\ h.by \in hurried))

\* Where the load beacon of a view is.
Sent(v) == \E h \in hits : h.kind = "load" /\ h.view = v
Asked(v) == \E l \in loads : l.by = v
Waits(v) == \E t \in Tabs : page[t].open /\ page[t].beacon = v /\ ~page[t].ready

Once ==
  \A v \in (1..views) \ hurried :
    /\ \A g, h \in hits :
         g.kind = "load" /\ h.kind = "load" /\ g.view = v /\ h.view = v => g = h
    /\ \A l, m \in loads : l.by = v /\ m.by = v => l = m
    /\ Sent(v) \/ Asked(v) \/ Waits(v)
    /\ ~(Sent(v) /\ Asked(v)) /\ ~(Sent(v) /\ Waits(v)) /\ ~(Asked(v) /\ Waits(v))

\* An ask carries what the cache held then, or earlier; and nothing is dated ahead.
Answered ==
  /\ \A l \in loads : ~l.answered => ~l.unique /\ l.since <= cache
  /\ \A h \in hits : h.day <= day

First(h, d) == h.kind = "load" /\ h.unique /\ h.day = d

\* Once a page was told it is the first today, the cache says today, and so does
\* every ask that waits.
AtMost ==
  blurred \cap {"overlap", "midnight"} = {} =>
    /\ \A l \in loads : ~l.answered /\ cache = day => l.since = day
    /\ \A l \in loads : l.unique => cache = day
    /\ \A h \in hits : First(h, day) => cache = day
    /\ \A l, m \in loads : l.unique /\ m.unique => l = m
    /\ \A l \in loads, h \in hits : First(h, day) => ~l.unique
    /\ \A g, h \in hits : First(g, g.day) /\ First(h, g.day) => g = h

\* The cache says today only if the first was told, and will say or said so.
AtLeast ==
  blurred \subseteq {"overlap"} =>
    /\ cache = day => (\E h \in hits : First(h, day)) \/ \E l \in loads : l.unique
    /\ \A l \in loads : l.answered => cache = day
    /\ \A h \in hits : h.kind = "load" /\ h.day = day => cache = day
    /\ \A h \in hits : h.kind = "load" /\ h.day # day => \E g \in hits : First(g, h.day)

TInv == Typed /\ Placed /\ Ended /\ Own /\ Once /\ Answered /\ AtMost /\ AtLeast

-----------------------------------------------------------------------------
Tab ==
  [open : BOOLEAN, ready : BOOLEAN, path : Paths \cup {NoPath}, beacon : 0..views,
   viewPath : Paths \cup {NoPath}, unloaded : BOOLEAN]

\* A page's unload is posted unless it has been.
Ends(t) ==
  /\ hits \subseteq hits' /\ hits' \subseteq Records /\ IsFiniteSet(hits')
  /\ \A h \in hits' \ hits :
       /\ h.kind = "unload" /\ h.view = page[t].beacon /\ h.by = page[t].beacon
       /\ h.path = page[t].viewPath /\ h.day = 0 /\ ~page[t].unloaded
  /\ \A g, h \in hits' \ hits : g = h

\* A load beacon is posted.
Sends(l) ==
  /\ hits \subseteq hits' /\ hits' \subseteq Records /\ IsFiniteSet(hits')
  /\ \E n \in hits' :
       /\ hits' = hits \cup {n}
       /\ n.kind = "load" /\ n.view = page[l.tab].beacon /\ n.by = l.by
       /\ n.path = page[l.tab].path /\ n.unique = l.unique /\ n.day = day

\* How often a beacon was posted before is a number.
LEMMA CopiesType == ASSUME Typed, NEW h PROVE Copies(h) \in Nat
<1>1. IsFiniteSet({g \in hits : [g EXCEPT !.copy = 0] = h})
  BY FS_Subset DEF Typed
<1>2. QED
  BY <1>1, FS_CardinalityType DEF Copies

\* What is posted of a page that is open.
Adds(kind, t, path, by, unique, d) ==
  \E n \in Records :
    /\ hits' = hits \cup {n}
    /\ n.kind = kind /\ n.view = page[t].beacon /\ n.by = by /\ n.path = path
    /\ n.unique = unique /\ n.day = d

LEMMA Posted ==
  ASSUME Typed, Placed, NEW t \in Tabs, page[t].open, NEW h, Post({h}),
         NEW kind \in {"load", "unload"}, NEW path \in Paths, NEW by \in 1..views,
         NEW unique \in BOOLEAN, NEW d \in 0..MaxDays,
         h = [kind |-> kind, tab |-> t, view |-> page[t].beacon, path |-> path, by |-> by,
              unique |-> unique, day |-> d, copy |-> 0]
  PROVE  Adds(kind, t, path, by, unique, d)
<1> DEFINE n == [h EXCEPT !.copy = Copies(h)]
<1>1. hits' = hits \cup {n}
  BY DEF Post
<1>2. Copies(h) \in Nat
  BY CopiesType
<1>3. page[t].beacon \in Views /\ by \in Views
  <2>1. views \in 0..MaxViews /\ page[t].beacon \in 1..views /\ MaxViews \in Nat
    BY TrackerAssumption DEF Typed, TTypeOK, Placed
  <2>2. QED
    BY <2>1 DEF Views
<1>4. n = [kind |-> kind, tab |-> t, view |-> page[t].beacon, path |-> path, by |-> by,
           unique |-> unique, day |-> d, copy |-> Copies(h)]
  OBVIOUS
<1>5. n \in Records
  BY <1>2, <1>3, <1>4 DEF Records
<1>6. QED
  BY <1>1, <1>4, <1>5 DEF Adds

LEMMA Added ==
  ASSUME Typed, NEW n \in Records, hits' = hits \cup {n}
  PROVE  hits \subseteq hits' /\ hits' \subseteq Records /\ IsFiniteSet(hits')
<1>1. hits \subseteq Records /\ IsFiniteSet(hits)
  BY DEF Typed, TTypeOK
<1>2. IsFiniteSet(hits')
  BY <1>1, FS_AddElement
<1>3. QED
  BY <1>1, <1>2

LEMMA UnloadEnds ==
  ASSUME Typed, Placed, NEW t \in Tabs, page[t].open, NEW pg, Post(UnloadHits(t, pg)),
         pg.beacon = page[t].beacon, pg.viewPath = page[t].viewPath,
         pg.unloaded = page[t].unloaded
  PROVE  Ends(t)
<1>1. CASE pg.unloaded
  <2>1. hits' = hits
    BY <1>1 DEF Post, UnloadHits
  <2>2. QED
    BY <2>1 DEF Ends, Typed, TTypeOK
<1>2. CASE ~pg.unloaded
  <2> DEFINE h == Hit("unload", t, pg, pg.viewPath)
  <2>1. Post({h})
    BY <1>2 DEF UnloadHits
  <2>2. h = [kind |-> "unload", tab |-> t, view |-> page[t].beacon, path |-> page[t].viewPath,
             by |-> page[t].beacon, unique |-> FALSE, day |-> 0, copy |-> 0]
    BY DEF Hit
  <2>3. page[t].viewPath \in Paths /\ page[t].beacon \in 1..views
    BY DEF Placed
  <2>4. 0 \in 0..MaxDays
    BY TrackerAssumption
  <2> HIDE DEF h
  <2>a. "unload" \in {"load", "unload"} /\ FALSE \in BOOLEAN
    OBVIOUS
  <2>b. Adds("unload", t, page[t].viewPath, page[t].beacon, FALSE, 0)
    BY <2>1, <2>2, <2>3, <2>4, <2>a, Posted, Zenon
  <2>5. PICK n \in Records :
           /\ hits' = hits \cup {n}
           /\ n.kind = "unload" /\ n.view = page[t].beacon /\ n.by = page[t].beacon
           /\ n.path = page[t].viewPath /\ n.unique = FALSE /\ n.day = 0
    BY <2>b DEF Adds
  <2>6. hits \subseteq hits' /\ hits' \subseteq Records /\ IsFiniteSet(hits')
    BY <2>5, Added
  <2>7. \A g \in hits' \ hits : g = n
    BY <2>5
  <2>8. ~page[t].unloaded
    BY <1>2
  <2>9. QED
    BY <2>5, <2>6, <2>7, <2>8, Zenon DEF Ends
<1>3. QED
  BY <1>1, <1>2

LEMMA LoadSends ==
  ASSUME Typed, Placed, NEW l \in loads, SendLoad(l)
  PROVE  Sends(l)
<1>1. /\ l.tab \in Tabs /\ l.by \in 1..views /\ l.unique \in BOOLEAN /\ page[l.tab].open
      /\ page[l.tab].path \in Paths /\ day \in 0..MaxDays
  BY DEF Typed, TTypeOK, Placed, Asks
<1> DEFINE h == [Hit("load", l.tab, page[l.tab], page[l.tab].path)
                   EXCEPT !.by = l.by, !.unique = l.unique, !.day = day]
<1>2. Post({h})
  BY DEF SendLoad
<1>3. h = [kind |-> "load", tab |-> l.tab, view |-> page[l.tab].beacon,
           path |-> page[l.tab].path, by |-> l.by, unique |-> l.unique, day |-> day, copy |-> 0]
  <2> DEFINE x == Hit("load", l.tab, page[l.tab], page[l.tab].path)
  <2>1. x = [kind |-> "load", tab |-> l.tab, view |-> page[l.tab].beacon,
             path |-> page[l.tab].path, by |-> page[l.tab].beacon, unique |-> FALSE,
             day |-> 0, copy |-> 0]
    BY DEF Hit
  <2>2. h = [x EXCEPT !.by = l.by, !.unique = l.unique, !.day = day]
    OBVIOUS
  <2> HIDE DEF x, h
  <2>3. QED
    BY <2>1, <2>2
<1> HIDE DEF h
<1>a. Adds("load", l.tab, page[l.tab].path, l.by, l.unique, day)
  BY <1>1, <1>2, <1>3, Posted, Zenon
<1>4. PICK n \in Records :
        /\ hits' = hits \cup {n}
        /\ n.kind = "load" /\ n.view = page[l.tab].beacon /\ n.by = l.by
        /\ n.path = page[l.tab].path /\ n.unique = l.unique /\ n.day = day
  BY <1>a DEF Adds
<1>5. hits \subseteq hits' /\ hits' \subseteq Records /\ IsFiniteSet(hits')
  BY <1>4, Added
<1>6. QED
  BY <1>4, <1>5 DEF Sends

-----------------------------------------------------------------------------
\* The oracle answers l's ping, or does not; l becomes m.
Hears(l, m) ==
  /\ ~l.answered /\ m \in Asks /\ m.answered /\ m.tab = l.tab /\ m.by = l.by
  /\ loads' = (loads \ {l}) \cup {m}
  /\ UNCHANGED <<hashMode, day, page, hits, views, started, hurried>>

LEMMA AskFields ==
  ASSUME Typed, NEW t \in Tabs, NEW v \in Views, NEW r \in BOOLEAN
  PROVE  LET m == Ask(t, v, r)
         IN  m \in Asks /\ m.tab = t /\ m.by = v /\ m.since = cache /\ ~m.answered /\ ~m.unique
<1>1. cache \in 0..MaxDays
  BY TrackerAssumption DEF Typed, TTypeOK
<1>2. QED
  BY <1>1 DEF Ask, Asks

LEMMA NextDayKeeps == TInv /\ NextDay => TInv'
<1> SUFFICES ASSUME TInv, NextDay PROVE TInv'
  OBVIOUS
<1> USE DEF TInv, NextDay
<1>1. Typed'
  <2>1. /\ day \in 1..MaxDays /\ cache \in 0..day /\ MaxDays \in Nat
        /\ blurred \subseteq {"overlap", "midnight", "unsaid"}
    BY TrackerAssumption DEF Typed, TTypeOK
  <2>2. day' \in 1..MaxDays /\ cache' \in 0..day'
    BY <2>1
  <2>3. blurred' \subseteq {"overlap", "midnight", "unsaid"}
    BY <2>1
  <2>4. QED
    BY <2>2, <2>3 DEF Typed, TTypeOK
<1>2. Placed' /\ Ended' /\ Own'
  BY DEF Placed, Ended, Own
<1>3. Once'
  BY DEF Once, Sent, Asked, Waits
<1>4. /\ day \in 1..MaxDays /\ cache \in 0..day /\ MaxDays \in Nat
      /\ \A h \in hits : h.day \in 0..MaxDays
  BY TrackerAssumption DEF Typed, TTypeOK, Records
<1>5. Answered'
  BY <1>4 DEF Answered
<1>6. cache' # day' /\ \A h \in hits : h.day # day'
  BY <1>4 DEF Answered
<1>7. ASSUME blurred' \cap {"overlap", "midnight"} = {} \/ blurred' \subseteq {"overlap"}
      PROVE  loads = {} /\ blurred' = blurred
  BY <1>7
<1>8. AtMost'
  BY <1>6, <1>7 DEF AtMost, First
<1>9. AtLeast'
  <2> SUFFICES ASSUME blurred' \subseteq {"overlap"}
               PROVE  \A h \in hits : h.kind = "load" => \E g \in hits : First(g, h.day)
    BY <1>6, <1>7 DEF AtLeast, First
  <2>1. QED
    BY <1>7 DEF AtLeast
<1>10. QED
  BY <1>1, <1>2, <1>3, <1>5, <1>8, <1>9

\* Whatever the oracle says: the beacon waits on, of the same tab and view.
LEMMA HearKeeps ==
  ASSUME TInv, NEW l \in loads, NEW m, Hears(l, m)
  PROVE  Placed' /\ Ended' /\ Own' /\ Once'
<1> USE DEF TInv, Hears
<1>1. Placed' /\ Ended' /\ Own'
  BY DEF Placed, Ended, Own
<1>2. \A v : (Asked(v) <=> Asked(v)') /\ (Sent(v) <=> Sent(v)') /\ (Waits(v) <=> Waits(v)')
  BY DEF Asked, Sent, Waits
<1>3. ASSUME NEW v \in (1..views) \ hurried, NEW a \in loads', NEW b \in loads', a.by = v, b.by = v
      PROVE  a = b
  BY <1>3 DEF Once
<1>4. Once'
  <2>1. hits' = hits /\ views' = views /\ hurried' = hurried
    OBVIOUS
  <2>2. SUFFICES ASSUME NEW v \in (1..views) \ hurried
                 PROVE  /\ \A g, h \in hits :
                             g.kind = "load" /\ h.kind = "load" /\ g.view = v /\ h.view = v => g = h
                        /\ Sent(v)' \/ Asked(v)' \/ Waits(v)'
                        /\ ~(Sent(v)' /\ Asked(v)') /\ ~(Sent(v)' /\ Waits(v)')
                        /\ ~(Asked(v)' /\ Waits(v)')
    BY <1>3, <2>1 DEF Once
  <2>3. QED
    BY <1>2 DEF Once
<1>5. QED
  BY <1>1, <1>4

LEMMA PingAnsweredKeeps == ASSUME TInv, NEW l \in loads, PingAnswered(l) PROVE TInv'
<1> DEFINE m == [l EXCEPT !.answered = TRUE, !.unique = Unique(l.since), !.since = 0]
<1>1. /\ l \in Asks /\ ~l.answered /\ l.since \in 0..MaxDays /\ day \in 1..MaxDays
      /\ cache \in 0..day /\ MaxDays \in Nat
  BY TrackerAssumption DEF TInv, Typed, TTypeOK, Asks, PingAnswered
<1>2. Unique(l.since) \in BOOLEAN
  BY DEF Unique
<1>3. m \in Asks /\ m.answered /\ m.tab = l.tab /\ m.by = l.by /\ m.unique = Unique(l.since)
  <2>1. 0 \in 0..MaxDays
    BY <1>1
  <2>2. QED
    BY <1>1, <1>2, <2>1 DEF Asks
<1>4. loads' = (loads \ {l}) \cup {m}
  BY DEF PingAnswered
<1> HIDE DEF m
<1>5. Hears(l, m)
  BY <1>1, <1>3, <1>4 DEF Hears, PingAnswered
<1>6. Placed' /\ Ended' /\ Own' /\ Once'
  BY <1>5, HearKeeps
<1>7. cache' = day /\ day' = day /\ hits' = hits
  BY DEF PingAnswered, LastModified
<1>8. Typed'
  <2>1. loads' \subseteq Asks
    BY <1>3, <1>4 DEF TInv, Typed, TTypeOK
  <2>2. blurred' \subseteq {"overlap", "midnight", "unsaid"}
    BY DEF TInv, Typed, TTypeOK, PingAnswered
  <2>3. cache' \in 0..day'
    BY <1>1, <1>7
  <2>4. QED
    BY <2>1, <2>2, <2>3 DEF TInv, Typed, TTypeOK, PingAnswered
<1>9. Answered'
  <2>1. ASSUME NEW a \in loads', ~a.answered PROVE ~a.unique /\ a.since <= day
    <3>1. a \in loads /\ a \in Asks
      BY <2>1, <1>3, <1>4 DEF TInv, Typed, TTypeOK
    <3>2. ~a.unique /\ a.since <= cache /\ a.since \in 0..MaxDays
      BY <2>1, <3>1 DEF TInv, Answered, Asks
    <3>3. QED
      BY <3>2, <1>1
  <2>2. QED
    BY <2>1, <1>7 DEF TInv, Answered
<1>10. AtMost'
  <2> SUFFICES ASSUME blurred' \cap {"overlap", "midnight"} = {} PROVE AtMost'
    BY DEF AtMost
  <2>1. /\ blurred' = blurred
        /\ \A a \in loads \ {l} : a.answered
    BY DEF PingAnswered
  <2>2. CASE Unique(l.since)
    <3>1. cache # day
      BY <1>1, <2>1, <2>2 DEF TInv, AtMost, Unique
    <3>2. \A a \in loads : ~a.unique
      BY <2>1, <3>1 DEF TInv, AtMost
    <3>3. \A h \in hits : ~First(h, day)
      BY <2>1, <3>1 DEF TInv, AtMost
    <3>4. \A a \in loads' : a.unique => a = m
      BY <3>2, <1>4
    <3>5. \A a \in loads' : a.answered
      BY <2>1, <1>3, <1>4
    <3>6. \A g, h \in hits : First(g, g.day) /\ First(h, g.day) => g = h
      BY <2>1 DEF TInv, AtMost
    <3>7. QED
      BY <3>3, <3>4, <3>5, <3>6, <1>7 DEF AtMost, First
  <2>3. CASE ~Unique(l.since)
    <3>1. \A a \in loads' : a.answered /\ (a.unique => a \in loads)
      BY <2>1, <2>3, <1>3, <1>4
    <3>2. QED
      BY <2>1, <3>1, <1>7 DEF TInv, AtMost, First
  <2>4. QED
    BY <2>2, <2>3
<1>11. AtLeast'
  <2> SUFFICES ASSUME blurred' \subseteq {"overlap"} PROVE AtLeast'
    BY DEF AtLeast
  <2>1. blurred \subseteq {"overlap"}
    BY DEF PingAnswered
  <2>2. (\E h \in hits : First(h, day)) \/ \E a \in loads' : a.unique
    <3>1. CASE Unique(l.since)
      BY <3>1, <1>3, <1>4
    <3>2. CASE ~Unique(l.since)
      <4>1. cache = day /\ ~l.unique
        BY <1>1, <3>2 DEF TInv, Answered, Unique
      <4>2. QED
        BY <2>1, <4>1, <1>4 DEF TInv, AtLeast
    <3>3. QED
      BY <3>1, <3>2
  <2>3. \A h \in hits : h.kind = "load" /\ h.day # day => \E g \in hits : First(g, h.day)
    BY <2>1 DEF TInv, AtLeast
  <2>4. QED
    BY <2>2, <2>3, <1>7 DEF AtLeast, First
<1>12. QED
  BY <1>6, <1>8, <1>9, <1>10, <1>11 DEF TInv

LEMMA PingFailsKeeps == ASSUME TInv, NEW l \in loads, PingFails(l) PROVE TInv'
<1> DEFINE m == [l EXCEPT !.answered = TRUE, !.since = 0]
<1>1. /\ l \in Asks /\ ~l.answered /\ ~l.unique /\ extras \in 0..MaxExtras
      /\ MaxExtras \in Nat /\ MaxDays \in Nat
  BY TrackerAssumption DEF TInv, Typed, TTypeOK, Answered, PingFails
<1>2. m \in Asks /\ m.answered /\ m.tab = l.tab /\ m.by = l.by /\ ~m.unique
  <2>1. 0 \in 0..MaxDays
    BY <1>1
  <2>2. QED
    BY <1>1, <2>1 DEF Asks
<1>3. loads' = (loads \ {l}) \cup {m}
  BY DEF PingFails
<1> HIDE DEF m
<1>4. Hears(l, m)
  BY <1>1, <1>2, <1>3 DEF Hears, PingFails, browser
<1>5. Placed' /\ Ended' /\ Own' /\ Once'
  BY <1>4, HearKeeps
<1>6. cache' = cache /\ day' = day /\ hits' = hits /\ "unsaid" \in blurred' /\ blurred \subseteq blurred'
  BY DEF PingFails, browser
<1>7. Typed'
  <2>1. loads' \subseteq Asks /\ extras' \in 0..MaxExtras
    BY <1>1, <1>2, <1>3 DEF TInv, Typed, TTypeOK, PingFails, Extra
  <2>2. blurred' \subseteq {"overlap", "midnight", "unsaid"}
    BY DEF TInv, Typed, TTypeOK, PingFails
  <2>3. QED
    BY <2>1, <2>2 DEF TInv, Typed, TTypeOK, PingFails, browser
<1>8. Answered'
  BY <1>2, <1>3, <1>6 DEF TInv, Answered
<1>9. AtMost'
  BY <1>2, <1>3, <1>6 DEF TInv, AtMost, First
<1>10. AtLeast'
  BY <1>6 DEF AtLeast
<1>11. QED
  BY <1>5, <1>7, <1>8, <1>9, <1>10 DEF TInv

LEMMA SendLoadKeeps == ASSUME TInv, NEW l \in loads, SendLoad(l) PROVE TInv'
<1>1. Sends(l)
  BY LoadSends DEF TInv
<1>2. PICK n \in hits' :
        /\ hits' = hits \cup {n}
        /\ n.kind = "load" /\ n.view = page[l.tab].beacon /\ n.by = l.by
        /\ n.path = page[l.tab].path /\ n.unique = l.unique /\ n.day = day
  BY <1>1 DEF Sends
<1>3. /\ l.answered /\ loads' = loads \ {l}
      /\ hashMode' = hashMode /\ day' = day /\ cache' = cache /\ page' = page /\ views' = views
      /\ extras' = extras /\ started' = started /\ hurried' = hurried /\ blurred' = blurred
  BY DEF SendLoad, browser, memory
<1>4. Typed'
  BY <1>1, <1>3 DEF TInv, Typed, TTypeOK, Sends
<1>5. /\ l.tab \in Tabs /\ page[l.tab].open /\ l.by \in 1..views /\ n.view \in 1..views
      /\ n.path = page[l.tab].path /\ day \in 1..MaxDays
  BY <1>2 DEF TInv, Typed, TTypeOK, Placed, Asks
<1>6. Placed'
  BY <1>2, <1>3, <1>5 DEF TInv, Placed
<1>7. Ended'
  <2>1. ~hashMode => n.path = started[n.view]
    BY <1>2, <1>5 DEF TInv, Placed
  <2>2. QED
    BY <1>2, <1>3, <2>1 DEF TInv, Ended
<1>8. Own'
  BY <1>2, <1>3 DEF TInv, Own
<1>9. Once'
  <2> SUFFICES ASSUME NEW v \in (1..views) \ hurried
               PROVE  /\ \A g, h \in hits' :
                           g.kind = "load" /\ h.kind = "load" /\ g.view = v /\ h.view = v => g = h
                      /\ \A a, b \in loads' : a.by = v /\ b.by = v => a = b
                      /\ Sent(v)' \/ Asked(v)' \/ Waits(v)'
                      /\ ~(Sent(v)' /\ Asked(v)') /\ ~(Sent(v)' /\ Waits(v)')
                      /\ ~(Asked(v)' /\ Waits(v)')
    BY <1>3, Zenon DEF Once
  <2>1. Waits(v)' <=> Waits(v)
    BY <1>3 DEF Waits
  <2>2. CASE l.by = v
    <3>1. n.view = v
      BY <2>2, <1>2 DEF TInv, Own
    <3>2. Asked(v) /\ ~Sent(v) /\ ~Waits(v)
      BY <2>2 DEF TInv, Once, Asked
    <3>3. Sent(v)' /\ ~Asked(v)'
      BY <3>1, <1>2, <1>3, <2>2 DEF TInv, Once, Sent, Asked
    <3>4. QED
      BY <3>1, <3>2, <3>3, <2>1, <1>2, <1>3 DEF TInv, Once, Sent
  <2>3. CASE l.by # v
    <3>1. n.view # v
      BY <2>3, <1>2 DEF TInv, Own
    <3>2. (Sent(v)' <=> Sent(v)) /\ (Asked(v)' <=> Asked(v))
      BY <3>1, <2>3, <1>2, <1>3 DEF Sent, Asked
    <3>3. QED
      BY <3>1, <3>2, <2>1, <1>2, <1>3 DEF TInv, Once
  <2>4. QED
    BY <2>2, <2>3
<1>10. Answered'
  BY <1>2, <1>3, <1>5 DEF TInv, Answered
<1>11. AtMost'
  <2> SUFFICES ASSUME blurred \cap {"overlap", "midnight"} = {}
               PROVE  /\ \A a \in loads' : ~a.answered /\ cache = day => a.since = day
                      /\ \A a \in loads' : a.unique => cache = day
                      /\ \A h \in hits' : First(h, day) => cache = day
                      /\ \A a, b \in loads' : a.unique /\ b.unique => a = b
                      /\ \A a \in loads', h \in hits' : First(h, day) => ~a.unique
                      /\ \A g, h \in hits' : First(g, g.day) /\ First(h, g.day) => g = h
    BY <1>3 DEF AtMost, First
  <2>1. First(n, day) => l.unique
    BY <1>2 DEF First
  <2>2. \A h \in hits : l.unique => ~First(h, day)
    BY DEF TInv, AtMost
  <2>3. \A h \in hits : First(n, n.day) => ~First(h, n.day)
    BY <1>2, <2>1, <2>2 DEF First
  <2>4. \A g, h \in hits' : First(g, g.day) /\ First(h, g.day) => g = h
    BY <1>2, <2>3 DEF TInv, AtMost, First
  <2>5. QED
    BY <2>1, <2>4, <1>2, <1>3 DEF TInv, AtMost
<1>12. AtLeast'
  <2> SUFFICES ASSUME blurred \subseteq {"overlap"}
               PROVE  /\ cache = day => (\E h \in hits' : First(h, day)) \/ \E a \in loads' : a.unique
                      /\ \A a \in loads' : a.answered => cache = day
                      /\ \A h \in hits' : h.kind = "load" /\ h.day = day => cache = day
                      /\ \A h \in hits' :
                           h.kind = "load" /\ h.day # day => \E g \in hits' : First(g, h.day)
    BY <1>3 DEF AtLeast, First
  <2>1. l.unique => First(n, day)
    BY <1>2 DEF First
  <2>2. QED
    BY <2>1, <1>2, <1>3 DEF TInv, AtLeast
<1>13. QED
  BY <1>4, <1>6, <1>7, <1>8, <1>9, <1>10, <1>11, <1>12 DEF TInv

\* The unload beacons of an open page disturb nothing said of load beacons.
LEMMA EndsAside ==
  ASSUME TInv, NEW t \in Tabs, page[t].open, Ends(t)
  PROVE  /\ \A h \in hits' : h.kind = "load" => h \in hits
         /\ \A h \in hits' : h.view \in 1..views /\ h.by \in 1..views
         /\ \A h \in hits' : h.day <= day
         /\ \A h \in hits' : h.kind = "unload" \/ ~hashMode => h.path = started[h.view]
         /\ \A g, h \in hits' :
              g.kind = "unload" /\ h.kind = "unload" /\ g.view = h.view => g = h
         /\ \A h \in hits', u \in Tabs :
              (h.kind = "unload" /\ page[u].open /\ h.view = page[u].beacon)
                => u = t \/ page[u].unloaded
<1>1. /\ page[t].beacon \in 1..views /\ page[t].viewPath = started[page[t].beacon]
      /\ day \in 1..MaxDays
  BY DEF TInv, Placed, Typed, TTypeOK
<1>2. /\ hits \subseteq hits'
      /\ \A h \in hits' \ hits :
           /\ h.kind = "unload" /\ h.view = page[t].beacon /\ h.by = page[t].beacon
           /\ h.path = page[t].viewPath /\ h.day = 0 /\ ~page[t].unloaded
      /\ \A g, h \in hits' \ hits : g = h
  BY DEF Ends
<1>3. \A h \in hits' : h.kind = "load" => h \in hits
  BY <1>2
<1>4. \A h \in hits' : h.view \in 1..views /\ h.by \in 1..views
  BY <1>1, <1>2 DEF TInv, Placed
<1>5. \A h \in hits' : h.day <= day
  BY <1>1, <1>2 DEF TInv, Answered
<1>6. \A h \in hits' : h.kind = "unload" \/ ~hashMode => h.path = started[h.view]
  BY <1>1, <1>2 DEF TInv, Ended
<1>7. \A g \in hits, h \in hits' \ hits : g.kind = "unload" => g.view # h.view
  BY <1>2 DEF TInv, Ended
<1>8. \A g, h \in hits' : g.kind = "unload" /\ h.kind = "unload" /\ g.view = h.view => g = h
  BY <1>2, <1>7 DEF TInv, Ended
<1>9. \A h \in hits', u \in Tabs :
        (h.kind = "unload" /\ page[u].open /\ h.view = page[u].beacon)
          => u = t \/ page[u].unloaded
  BY <1>2 DEF TInv, Ended, Placed
<1>10. QED
  BY <1>3, <1>4, <1>5, <1>6, <1>8, <1>9

\* Nor does a step that posts no load beacon, asks with what the cache holds, and
\* forgets a first visit only by saying so, disturb the count.
LEMMA CountStays ==
  ASSUME TInv, hits \subseteq hits', \A h \in hits' : h.kind = "load" => h \in hits,
         \A h \in hits' : h.day <= day,
         \A a \in loads' : a \in loads \/ (~a.answered /\ ~a.unique /\ a.since = cache),
         cache' = cache, day' = day, blurred \subseteq blurred',
         blurred' \subseteq {"overlap"} => \A a \in loads : a.unique => a \in loads'
  PROVE  Answered' /\ AtMost' /\ AtLeast'
<1>1. cache \in Nat
  BY DEF TInv, Typed, TTypeOK
<1>2. \A d : \A h \in hits' : First(h, d) => h \in hits
  BY DEF First
<1>3. Answered'
  BY <1>1 DEF TInv, Answered
<1>4. AtMost'
  BY <1>2 DEF TInv, AtMost, First
<1>5. AtLeast'
  BY DEF TInv, AtLeast, First
<1>6. QED
  BY <1>3, <1>4, <1>5

LEMMA PushUnseenKeeps ==
  ASSUME TInv, NEW t \in Tabs, NEW p \in Paths, PushUnseen(t, p)
  PROVE  TInv'
<1>1. /\ hashMode /\ page[t].open /\ page' = [page EXCEPT ![t].path = p]
      /\ hashMode' = hashMode /\ day' = day /\ cache' = cache /\ loads' = loads
      /\ hits' = hits /\ views' = views /\ started' = started /\ hurried' = hurried
      /\ blurred' = blurred
  BY DEF PushUnseen, browser, memory
<1>2. page \in [Tabs -> Tab]
  BY DEF TInv, Typed, TTypeOK, Tab
<1>3. page' \in [Tabs -> Tab]
  <2>1. [page[t] EXCEPT !.path = p] \in Tab
    BY <1>2 DEF Tab
  <2>2. page' = [page EXCEPT ![t] = [page[t] EXCEPT !.path = p]]
    BY <1>1
  <2>3. QED
    BY <1>2, <2>1, <2>2
<1>4. \A u \in Tabs :
        /\ page'[u].open = page[u].open /\ page'[u].ready = page[u].ready
        /\ page'[u].beacon = page[u].beacon /\ page'[u].viewPath = page[u].viewPath
        /\ page'[u].unloaded = page[u].unloaded
        /\ page'[u].path = IF u = t THEN p ELSE page[u].path
  BY <1>1, <1>2 DEF Tab
<1>5. Typed'
  <2>1. extras' \in 0..MaxExtras
    BY TrackerAssumption DEF TInv, Typed, TTypeOK, PushUnseen, Extra
  <2>2. QED
    BY <1>1, <1>3, <2>1 DEF TInv, Typed, TTypeOK, Tab
<1>6. \A l \in loads : l.tab \in Tabs
  BY DEF TInv, Typed, TTypeOK, Asks
<1>7. Placed'
  BY <1>1, <1>4, <1>6 DEF TInv, Placed
<1>8. Ended' /\ Own'
  BY <1>1, <1>4, <1>6 DEF TInv, Ended, Own
<1>9. Once'
  BY <1>1, <1>4 DEF TInv, Once, Sent, Asked, Waits
<1>10. Answered' /\ AtMost' /\ AtLeast'
  BY <1>1 DEF TInv, Answered, AtMost, AtLeast, First
<1>11. QED
  BY <1>5, <1>7, <1>8, <1>9, <1>10 DEF TInv

LEMMA HideKeeps == ASSUME TInv, NEW t \in Tabs, Hide(t) PROVE TInv'
<1>1. /\ page[t].open /\ page' = [page EXCEPT ![t].unloaded = TRUE]
      /\ hashMode' = hashMode /\ day' = day /\ cache' = cache /\ loads' = loads
      /\ views' = views /\ extras' = extras /\ started' = started /\ hurried' = hurried
      /\ blurred' = blurred
  BY DEF Hide, browser, memory
<1>2. Ends(t)
  BY UnloadEnds DEF Hide, TInv
<1>3. page \in [Tabs -> Tab]
  BY DEF TInv, Typed, TTypeOK, Tab
<1>4. page' \in [Tabs -> Tab]
  <2>1. [page[t] EXCEPT !.unloaded = TRUE] \in Tab
    BY <1>3 DEF Tab
  <2>2. page' = [page EXCEPT ![t] = [page[t] EXCEPT !.unloaded = TRUE]]
    BY <1>1
  <2>3. QED
    BY <1>3, <2>1, <2>2
<1>5. \A u \in Tabs :
        /\ page'[u].open = page[u].open /\ page'[u].ready = page[u].ready
        /\ page'[u].beacon = page[u].beacon /\ page'[u].viewPath = page[u].viewPath
        /\ page'[u].path = page[u].path
        /\ (u = t \/ page[u].unloaded) => page'[u].unloaded
  BY <1>1, <1>3 DEF Tab
<1>6. Typed'
  BY <1>1, <1>2, <1>4 DEF TInv, Typed, TTypeOK, Tab, Ends
<1>7. /\ \A h \in hits' : h.kind = "load" => h \in hits
      /\ \A h \in hits' : h.view \in 1..views /\ h.by \in 1..views
      /\ \A h \in hits' : h.day <= day
      /\ \A h \in hits' : h.kind = "unload" \/ ~hashMode => h.path = started[h.view]
      /\ \A g, h \in hits' :
           g.kind = "unload" /\ h.kind = "unload" /\ g.view = h.view => g = h
      /\ \A h \in hits', u \in Tabs :
           (h.kind = "unload" /\ page[u].open /\ h.view = page[u].beacon)
             => u = t \/ page[u].unloaded
  BY <1>1, <1>2, EndsAside
<1>8. \A l \in loads : l.tab \in Tabs
  BY DEF TInv, Typed, TTypeOK, Asks
<1>9. Placed'
  BY <1>1, <1>5, <1>7, <1>8 DEF TInv, Placed
<1>10. Ended'
  BY <1>1, <1>5, <1>7 DEF Ended
<1>11. Own'
  BY <1>1, <1>5, <1>7, <1>8 DEF TInv, Own
<1>12. hits \subseteq hits'
  BY <1>2 DEF Ends
<1>13. Once'
  BY <1>1, <1>5, <1>7, <1>12 DEF TInv, Once, Sent, Asked, Waits
<1>14. Answered' /\ AtMost' /\ AtLeast'
  BY <1>1, <1>7, <1>12, CountStays
<1>15. QED
  BY <1>6, <1>9, <1>10, <1>11, <1>13, <1>14 DEF TInv

LEMMA DomReadyKeeps == ASSUME TInv, NEW t \in Tabs, DomReady(t) PROVE TInv'
<1> DEFINE m == Ask(t, page[t].beacon, TRUE)
<1>1. /\ page[t].open /\ ~page[t].ready /\ page' = [page EXCEPT ![t].ready = TRUE]
      /\ loads' = loads \cup {m}
      /\ hashMode' = hashMode /\ day' = day /\ cache' = cache /\ hits' = hits
      /\ views' = views /\ extras' = extras /\ started' = started /\ hurried' = hurried
      /\ blurred' = blurred
  BY DEF DomReady, browser, memory
<1>2. page[t].beacon \in 1..views /\ page[t].beacon \in Views
  <2>1. views \in 0..MaxViews /\ page[t].beacon \in 1..views /\ MaxViews \in Nat
    BY <1>1, TrackerAssumption DEF TInv, Typed, TTypeOK, Placed
  <2>2. QED
    BY <2>1 DEF Views
<1>3. /\ m \in Asks /\ m.tab = t /\ m.by = page[t].beacon /\ m.since = cache
      /\ ~m.answered /\ ~m.unique
  BY <1>2, AskFields DEF TInv
<1> HIDE DEF m
<1>4. page \in [Tabs -> Tab]
  BY DEF TInv, Typed, TTypeOK, Tab
<1>5. page' \in [Tabs -> Tab]
  <2>1. [page[t] EXCEPT !.ready = TRUE] \in Tab
    BY <1>4 DEF Tab
  <2>2. page' = [page EXCEPT ![t] = [page[t] EXCEPT !.ready = TRUE]]
    BY <1>1
  <2>3. QED
    BY <1>4, <2>1, <2>2
<1>6. \A u \in Tabs :
        /\ page'[u].open = page[u].open /\ page'[u].unloaded = page[u].unloaded
        /\ page'[u].beacon = page[u].beacon /\ page'[u].viewPath = page[u].viewPath
        /\ page'[u].path = page[u].path
        /\ u = t => page'[u].ready
        /\ u # t => page'[u].ready = page[u].ready
  BY <1>1, <1>4 DEF Tab
<1>7. Typed'
  BY <1>1, <1>3, <1>5 DEF TInv, Typed, TTypeOK, Tab
<1>8. \A l \in loads : l.tab \in Tabs
  BY DEF TInv, Typed, TTypeOK, Asks
<1>9. Placed'
  BY <1>1, <1>2, <1>3, <1>6, <1>8 DEF TInv, Placed
<1>10. Ended' /\ Own'
  BY <1>1, <1>3, <1>6, <1>8 DEF TInv, Ended, Own
<1>11. Once'
  <2> PICK w : w = page[t].beacon
    OBVIOUS
  <2>1. \A v : Sent(v)' <=> Sent(v)
    BY <1>1 DEF Sent
  <2>2. \A v : v # w => (Asked(v)' <=> Asked(v)) /\ (Waits(v)' <=> Waits(v))
    BY <1>1, <1>3, <1>6 DEF Asked, Waits
  <2>3. Waits(w)
    BY <1>1 DEF Waits
  <2>4. Asked(w)' /\ ~Waits(w)'
    <3>1. Asked(w)'
      BY <1>1, <1>3 DEF Asked
    <3>2. \A u \in Tabs : page[u].open /\ page[u].beacon = w => u = t
      BY <1>1 DEF TInv, Placed
    <3>3. ~Waits(w)'
      BY <3>2, <1>6 DEF Waits
    <3>4. QED
      BY <3>1, <3>3
  <2>5. w \in (1..views) \ hurried => ~Asked(w) /\ ~Sent(w)
    BY <2>3 DEF TInv, Once
  <2>6. \A v \in (1..views) \ hurried : \A a, b \in loads' : a.by = v /\ b.by = v => a = b
    BY <2>5, <1>1, <1>3 DEF TInv, Once, Asked
  <2>7. QED
    BY <2>1, <2>2, <2>4, <2>5, <2>6, <1>1 DEF TInv, Once
<1>12. Answered' /\ AtMost' /\ AtLeast'
  <2>1. \A h \in hits : h.day <= day
    BY DEF TInv, Answered
  <2>2. QED
    BY <2>1, <1>1, <1>3, CountStays
<1>13. QED
  BY <1>7, <1>9, <1>10, <1>11, <1>12 DEF TInv

LEMMA LeaveKeeps == ASSUME TInv, NEW t \in Tabs, Leave(t) PROVE TInv'
<1>1. /\ page[t].open /\ page' = [page EXCEPT ![t] = Closed]
      /\ loads' = {l \in loads : l.tab # t}
      /\ hurried' = IF Due(t) THEN hurried \cup {page[t].beacon} ELSE hurried
      /\ hashMode' = hashMode /\ day' = day /\ cache' = cache
      /\ views' = views /\ extras' = extras /\ started' = started
  BY DEF Leave, browser
<1>2. Ends(t)
  BY UnloadEnds DEF Leave, TInv
<1>3. page \in [Tabs -> Tab] /\ views \in 0..MaxViews /\ MaxViews \in Nat
  BY TrackerAssumption DEF TInv, Typed, TTypeOK, Tab
<1>4. Closed \in Tab
  BY <1>3 DEF Closed, Tab
<1>5. page' \in [Tabs -> Tab]
  BY <1>1, <1>3, <1>4
<1>6. /\ ~page'[t].open
      /\ \A u \in Tabs : u # t => page'[u] = page[u]
  BY <1>1, <1>3 DEF Closed
<1>7. page[t].beacon \in 1..views /\ page[t].beacon \in Views
  <2>1. page[t].beacon \in 1..views
    BY <1>1 DEF TInv, Placed
  <2>2. QED
    BY <2>1, <1>3 DEF Views
<1>8. blurred' \subseteq {"overlap", "midnight", "unsaid"}
  BY DEF TInv, Typed, TTypeOK, Leave
<1>9. Typed'
  BY <1>1, <1>2, <1>5, <1>7, <1>8 DEF TInv, Typed, TTypeOK, Tab, Ends
<1>10. /\ \A h \in hits' : h.kind = "load" => h \in hits
       /\ \A h \in hits' : h.view \in 1..views /\ h.by \in 1..views
       /\ \A h \in hits' : h.day <= day
       /\ \A h \in hits' : h.kind = "unload" \/ ~hashMode => h.path = started[h.view]
       /\ \A g, h \in hits' :
            g.kind = "unload" /\ h.kind = "unload" /\ g.view = h.view => g = h
       /\ \A h \in hits', u \in Tabs :
            (h.kind = "unload" /\ page[u].open /\ h.view = page[u].beacon)
              => u = t \/ page[u].unloaded
  BY <1>1, <1>2, EndsAside
<1>11. \A l \in loads' : l \in loads /\ l.tab \in Tabs /\ l.tab # t
  BY <1>1 DEF TInv, Typed, TTypeOK, Asks
<1>12. hurried \subseteq hurried' /\ hurried' \subseteq 1..views
  BY <1>1, <1>7 DEF TInv, Placed
<1>13. Placed'
  BY <1>1, <1>6, <1>10, <1>11, <1>12 DEF TInv, Placed
<1>14. Ended'
  BY <1>1, <1>6, <1>10 DEF Ended
<1>15. Own'
  BY <1>6, <1>10, <1>11, <1>12 DEF TInv, Own
<1>16. hits \subseteq hits'
  BY <1>2 DEF Ends
<1>17. Once'
  <2> SUFFICES ASSUME NEW v \in (1..views) \ hurried'
               PROVE  /\ \A g, h \in hits' :
                           g.kind = "load" /\ h.kind = "load" /\ g.view = v /\ h.view = v => g = h
                      /\ \A a, b \in loads' : a.by = v /\ b.by = v => a = b
                      /\ Sent(v)' \/ Asked(v)' \/ Waits(v)'
                      /\ ~(Sent(v)' /\ Asked(v)') /\ ~(Sent(v)' /\ Waits(v)')
                      /\ ~(Asked(v)' /\ Waits(v)')
    BY <1>1, Zenon DEF Once
  <2>1. v \in (1..views) \ hurried
    BY <1>12
  <2>2. Sent(v)' <=> Sent(v)
    BY <1>10, <1>16 DEF Sent
  <2>3. \A l \in loads : l.by = v => l.tab # t
    BY <2>1, <1>1 DEF TInv, Own, Due
  <2>4. Asked(v)' <=> Asked(v)
    BY <2>3, <1>1 DEF Asked
  <2>5. page[t].beacon = v => page[t].ready
    BY <1>1 DEF Due
  <2>6. Waits(v)' <=> Waits(v)
    BY <2>5, <1>6 DEF Waits
  <2>7. QED
    BY <2>1, <2>2, <2>4, <2>6, <1>10, <1>11 DEF TInv, Once
<1>18. blurred \subseteq blurred'
  BY DEF Leave
<1>19. blurred' \subseteq {"overlap"} => \A l \in loads : l.unique => l \in loads'
  BY <1>1 DEF Leave
<1>20. Answered' /\ AtMost' /\ AtLeast'
  BY <1>1, <1>10, <1>11, <1>16, <1>18, <1>19, CountStays
<1>21. QED
  BY <1>9, <1>13, <1>14, <1>15, <1>17, <1>20 DEF TInv

LEMMA OpenKeeps ==
  ASSUME TInv, NEW t \in Tabs, NEW p \in Paths, NEW r \in BOOLEAN, Open(t, p, r)
  PROVE  TInv'
<1> PICK v : v = views + 1
  OBVIOUS
<1>1. /\ ~page[t].open /\ v \in Views
      /\ page' = [page EXCEPT ![t] =
           [open |-> TRUE, ready |-> r, path |-> p, beacon |-> v,
            viewPath |-> p, unloaded |-> FALSE]]
      /\ views' = v
      /\ loads' = loads \cup AskedAtOnce(t, v, r)
      /\ started' = [started EXCEPT ![v] = p]
      /\ hashMode' = hashMode /\ day' = day /\ cache' = cache /\ hits' = hits
      /\ extras' = extras /\ hurried' = hurried /\ blurred' = blurred
  BY DEF Open, browser
<1>2. /\ page \in [Tabs -> Tab] /\ views \in 0..MaxViews /\ MaxViews \in Nat
      /\ started \in [Views -> Paths \cup {NoPath}]
  BY TrackerAssumption DEF TInv, Typed, TTypeOK, Tab
<1>3. /\ page'[t].open /\ page'[t].ready = r /\ page'[t].path = p /\ page'[t].beacon = v
      /\ page'[t].viewPath = p /\ page'[t].unloaded = FALSE
      /\ \A u \in Tabs : u # t => page'[u] = page[u]
  BY <1>1, <1>2
<1>4. v = views + 1 /\ v \in 1..v /\ v \in Nat /\ v \in 0..MaxViews
  BY <1>1, <1>2 DEF Views
<1>5. \A x \in 1..views : x \in 1..v /\ x # v /\ x \in Views
  BY <1>2 DEF Views
<1>6. \A x \in 1..v : x = v \/ x \in 1..views
  BY <1>2
<1>7. /\ started'[v] = p
      /\ \A x \in 1..views : started'[x] = started[x]
  BY <1>1, <1>2, <1>5
<1>8. /\ loads \subseteq loads' /\ loads' \subseteq Asks
      /\ \A a \in loads' : a \in loads \/ (a = Ask(t, v, TRUE) /\ r)
      /\ r => Ask(t, v, TRUE) \in loads'
  <2>1. Ask(t, v, TRUE) \in Asks
    BY <1>1, AskFields DEF TInv
  <2>2. QED
    BY <2>1, <1>1 DEF TInv, Typed, TTypeOK, AskedAtOnce
<1>9. /\ \A a \in loads' :
           a \in loads \/ (a.tab = t /\ a.by = v /\ a.since = cache /\ ~a.answered /\ ~a.unique)
      /\ \A a, b \in loads' : a \notin loads /\ b \notin loads => a = b
      /\ r => \E a \in loads' : a.by = v
  <2>1. LET m == Ask(t, v, TRUE)
        IN  m.tab = t /\ m.by = v /\ m.since = cache /\ ~m.answered /\ ~m.unique
    BY <1>1, AskFields DEF TInv
  <2>2. QED
    BY <2>1, <1>8
<1>10. Typed'
  <2>1. page' \in [Tabs -> Tab']
    <3>1. [open |-> TRUE, ready |-> r, path |-> p, beacon |-> v,
           viewPath |-> p, unloaded |-> FALSE] \in Tab'
      BY <1>1, <1>4 DEF Tab
    <3>2. Tab \subseteq Tab'
      BY <1>1, <1>2, <1>4 DEF Tab
    <3>3. QED
      BY <3>1, <3>2, <1>1, <1>2
  <2>2. started' \in [Views -> Paths \cup {NoPath}]
    BY <1>1, <1>2
  <2>3. QED
    BY <2>1, <2>2, <1>1, <1>4, <1>8 DEF TInv, Typed, TTypeOK, Tab
<1>11. \A l \in loads : l.tab \in Tabs /\ l.tab # t /\ l.by \in 1..views
  BY <1>1 DEF TInv, Typed, TTypeOK, Asks, Placed
<1>12. \A h \in hits : h.view \in 1..views /\ h.by \in 1..views
  BY DEF TInv, Placed
<1>13. \A u \in Tabs : u # t /\ page[u].open => page[u].beacon \in 1..views
  BY DEF TInv, Placed
<1>14. Placed'
  <2>1. \A u \in Tabs : page'[u].open =>
          /\ page'[u].beacon \in 1..v
          /\ page'[u].path \in Paths
          /\ page'[u].viewPath \in Paths /\ page'[u].viewPath = started'[page'[u].beacon]
          /\ ~hashMode => page'[u].path = page'[u].viewPath
    BY <1>3, <1>4, <1>5, <1>7, <1>13 DEF TInv, Placed
  <2>2. \A u, w \in Tabs :
          page'[u].open /\ page'[w].open /\ page'[u].beacon = page'[w].beacon => u = w
    BY <1>3, <1>5, <1>13 DEF TInv, Placed
  <2>3. \A l \in loads' : l.by \in 1..v /\ page'[l.tab].open
    BY <1>3, <1>4, <1>5, <1>9, <1>11 DEF TInv, Placed
  <2>4. hurried \subseteq 1..v
    BY <1>5 DEF TInv, Placed
  <2>5. QED
    BY <2>1, <2>2, <2>3, <2>4, <1>1, <1>5, <1>12 DEF Placed
<1>15. Ended'
  BY <1>1, <1>3, <1>5, <1>7, <1>12 DEF TInv, Ended
<1>16. Own'
  BY <1>1, <1>3, <1>9, <1>11 DEF TInv, Own
<1>17. Once'
  <2> SUFFICES ASSUME NEW x \in (1..v) \ hurried
               PROVE  /\ \A g, h \in hits :
                           g.kind = "load" /\ h.kind = "load" /\ g.view = x /\ h.view = x => g = h
                      /\ \A a, b \in loads' : a.by = x /\ b.by = x => a = b
                      /\ Sent(x)' \/ Asked(x)' \/ Waits(x)'
                      /\ ~(Sent(x)' /\ Asked(x)') /\ ~(Sent(x)' /\ Waits(x)')
                      /\ ~(Asked(x)' /\ Waits(x)')
    BY <1>1, Zenon DEF Once
  <2>1. Sent(x)' <=> Sent(x)
    BY <1>1 DEF Sent
  <2>2. CASE x = v
    <3>1. ~Sent(x)
      BY <2>2, <1>5, <1>12 DEF Sent
    <3>2. \A a \in loads : a.by # x
      BY <2>2, <1>5, <1>11
    <3>3. Asked(x)' <=> r
      BY <2>2, <3>2, <1>8, <1>9 DEF Asked
    <3>4. Waits(x)' <=> ~r
      BY <2>2, <1>3, <1>5, <1>13 DEF Waits
    <3>5. \A a, b \in loads' : a.by = x /\ b.by = x => a = b
      BY <3>2, <1>9
    <3>6. QED
      BY <2>1, <3>1, <3>3, <3>4, <3>5 DEF Sent
  <2>3. CASE x # v
    <3>1. x \in (1..views) \ hurried
      BY <2>3, <1>6
    <3>2. Asked(x)' <=> Asked(x)
      BY <2>3, <1>8, <1>9 DEF Asked
    <3>3. Waits(x)' <=> Waits(x)
      BY <2>3, <1>1, <1>3 DEF Waits
    <3>4. \A a, b \in loads' : a.by = x /\ b.by = x => a = b
      BY <2>3, <3>1, <1>9 DEF TInv, Once
    <3>5. QED
      BY <2>1, <3>1, <3>2, <3>3, <3>4 DEF TInv, Once
  <2>4. QED
    BY <2>2, <2>3
<1>18. Answered' /\ AtMost' /\ AtLeast'
  <2>1. \A h \in hits : h.day <= day
    BY DEF TInv, Answered
  <2>2. QED
    BY <2>1, <1>1, <1>8, <1>9, CountStays
<1>19. QED
  BY <1>10, <1>14, <1>15, <1>16, <1>17, <1>18 DEF TInv

LEMMA NavigateKeeps ==
  ASSUME TInv, NEW t \in Tabs, NEW p \in Paths, NEW pg, Navigate(t, pg, p),
         pg.beacon = page[t].beacon, pg.viewPath = page[t].viewPath,
         pg.unloaded = page[t].unloaded
  PROVE  TInv'
<1> PICK v : v = views + 1
  OBVIOUS
<1> PICK w : w = page[t].beacon
  OBVIOUS
<1>1. /\ page[t].open /\ v \in Views
      /\ page' = [page EXCEPT ![t].path = p, ![t].beacon = v, ![t].viewPath = p,
                              ![t].unloaded = FALSE]
      /\ views' = v
      /\ loads' = loads \cup {Ask(t, v, FALSE)}
      /\ started' = [started EXCEPT ![v] = p]
      /\ hurried' = IF Due(t) THEN hurried \cup {w, v} ELSE hurried
      /\ hashMode' = hashMode /\ day' = day /\ cache' = cache
      /\ extras' = extras /\ blurred' = blurred
  BY DEF Navigate, browser
<1>2. Ends(t)
  <2>1. Post(UnloadHits(t, pg))
    BY DEF Navigate
  <2>2. QED
    BY <2>1, <1>1, UnloadEnds DEF TInv
<1>3. /\ page \in [Tabs -> Tab] /\ views \in 0..MaxViews /\ MaxViews \in Nat
      /\ started \in [Views -> Paths \cup {NoPath}]
  BY TrackerAssumption DEF TInv, Typed, TTypeOK, Tab
<1> DEFINE new == [page[t] EXCEPT !.path = p, !.beacon = v, !.viewPath = p, !.unloaded = FALSE]
<1>4. page' = [page EXCEPT ![t] = new]
  BY <1>1
<1>5. page[t] \in Tab
  BY <1>3
<1>6. v = views + 1 /\ v \in 1..v /\ v \in Nat /\ v \in 0..MaxViews
  BY <1>1, <1>3 DEF Views
<1>7. /\ new.open /\ new.ready = page[t].ready /\ new.path = p /\ new.beacon = v
      /\ new.viewPath = p /\ new.unloaded = FALSE
  BY <1>1, <1>5 DEF Tab
<1>8. new \in Tab'
  <2> PICK old : old = page[t]
    OBVIOUS
  <2>a. old = [open |-> old.open, ready |-> old.ready, path |-> old.path, beacon |-> old.beacon,
               viewPath |-> old.viewPath, unloaded |-> old.unloaded]
    BY <1>5 DEF Tab
  <2>b. new = [old EXCEPT !.path = p, !.beacon = v, !.viewPath = p, !.unloaded = FALSE]
    OBVIOUS
  <2>1. new = [open |-> page[t].open, ready |-> page[t].ready, path |-> p, beacon |-> v,
               viewPath |-> p, unloaded |-> FALSE]
    <3> HIDE DEF new
    <3>1. QED
      BY <2>a, <2>b
  <2>2. page[t].open \in BOOLEAN /\ page[t].ready \in BOOLEAN
    BY <1>5 DEF Tab
  <2> HIDE DEF new
  <2>3. QED
    BY <2>1, <2>2, <1>1, <1>6 DEF Tab
<1>9. Tab \subseteq Tab'
  BY <1>1, <1>3, <1>6 DEF Tab
<1> HIDE DEF new
<1>10. /\ page'[t].open /\ page'[t].ready = page[t].ready /\ page'[t].path = p
       /\ page'[t].beacon = v /\ page'[t].viewPath = p /\ page'[t].unloaded = FALSE
       /\ \A u \in Tabs : u # t => page'[u] = page[u]
  BY <1>3, <1>4, <1>7
<1>11. \A x \in 1..views : x \in 1..v /\ x # v /\ x \in Views
  BY <1>3, <1>6 DEF Views
<1>12. \A x \in 1..v : x = v \/ x \in 1..views
  BY <1>3, <1>6
<1>13. /\ started'[v] = p
       /\ \A x \in 1..views : started'[x] = started[x]
  BY <1>1, <1>3, <1>11
<1>14. w \in 1..views
  BY <1>1 DEF TInv, Placed
<1>15. /\ loads \subseteq loads' /\ loads' \subseteq Asks
       /\ \A a \in loads' :
            a \in loads \/ (a.tab = t /\ a.by = v /\ a.since = cache /\ ~a.answered /\ ~a.unique)
       /\ \A a, b \in loads' : a \notin loads /\ b \notin loads => a = b
       /\ \E a \in loads' : a.by = v
  <2>1. LET m == Ask(t, v, FALSE)
        IN  m \in Asks /\ m.tab = t /\ m.by = v /\ m.since = cache /\ ~m.answered /\ ~m.unique
    BY <1>1, AskFields DEF TInv
  <2>2. QED
    BY <2>1, <1>1 DEF TInv, Typed, TTypeOK
<1>16. hurried' \subseteq Views /\ hurried' \subseteq 1..v /\ hurried \subseteq hurried'
  BY <1>1, <1>6, <1>11, <1>14 DEF TInv, Placed
<1>17. Typed'
  <2>1. page' \in [Tabs -> Tab']
    BY <1>3, <1>4, <1>8, <1>9
  <2>2. started' \in [Views -> Paths \cup {NoPath}]
    BY <1>1, <1>3
  <2>3. hits' \subseteq Records /\ IsFiniteSet(hits')
    BY <1>2 DEF Ends
  <2>4. QED
    BY <2>1, <2>2, <2>3, <1>1, <1>6, <1>15, <1>16 DEF TInv, Typed, TTypeOK, Tab
<1>18. /\ \A h \in hits' : h.kind = "load" => h \in hits
       /\ \A h \in hits' : h.view \in 1..views /\ h.by \in 1..views
       /\ \A h \in hits' : h.day <= day
       /\ \A h \in hits' : h.kind = "unload" \/ ~hashMode => h.path = started[h.view]
       /\ \A g, h \in hits' :
            g.kind = "unload" /\ h.kind = "unload" /\ g.view = h.view => g = h
       /\ \A h \in hits', u \in Tabs :
            (h.kind = "unload" /\ page[u].open /\ h.view = page[u].beacon)
              => u = t \/ page[u].unloaded
  BY <1>1, <1>2, EndsAside
<1>19. hits \subseteq hits'
  BY <1>2 DEF Ends
<1>20. \A l \in loads : l.tab \in Tabs /\ l.by \in 1..views /\ page[l.tab].open
  BY DEF TInv, Typed, TTypeOK, Asks, Placed
<1>21. \A u \in Tabs : page[u].open => page[u].beacon \in 1..views
  BY DEF TInv, Placed
<1>22. Placed'
  <2>1. \A u \in Tabs : page'[u].open =>
          /\ page'[u].beacon \in 1..v
          /\ page'[u].path \in Paths
          /\ page'[u].viewPath \in Paths /\ page'[u].viewPath = started'[page'[u].beacon]
          /\ ~hashMode => page'[u].path = page'[u].viewPath
    BY <1>6, <1>10, <1>11, <1>13, <1>21 DEF TInv, Placed
  <2>2. \A u, x \in Tabs :
          page'[u].open /\ page'[x].open /\ page'[u].beacon = page'[x].beacon => u = x
    BY <1>10, <1>11, <1>21 DEF TInv, Placed
  <2>3. \A l \in loads' : l.by \in 1..v /\ page'[l.tab].open
    BY <1>6, <1>10, <1>11, <1>15, <1>20
  <2>4. \A h \in hits' : h.view \in 1..v /\ h.by \in 1..v
    BY <1>11, <1>18
  <2>5. QED
    BY <2>1, <2>2, <2>3, <2>4, <1>1, <1>16 DEF Placed
<1>23. Ended'
  <2>1. \A h \in hits' : h.kind = "unload" \/ ~hashMode => h.path = started'[h.view]
    BY <1>13, <1>18
  <2>2. \A h \in hits', u \in Tabs :
          h.kind = "unload" /\ page'[u].open /\ h.view = page'[u].beacon => page'[u].unloaded
    BY <1>10, <1>11, <1>18
  <2>3. QED
    BY <2>1, <2>2, <1>1, <1>18 DEF Ended
<1>24. \A l \in loads : l.tab = t => Due(t)
  BY <1>1 DEF Due
<1>25. Own'
  <2>1. ASSUME NEW l \in loads'
        PROVE  \/ l.by = page'[l.tab].beacon
               \/ l.by \in hurried' /\ page'[l.tab].beacon \in hurried'
    <3>1. CASE l \in loads /\ l.tab = t
      <4>1. hurried' = hurried \cup {w, v}
        BY <3>1, <1>1, <1>24
      <4>2. l.by = w \/ l.by \in hurried
        BY <3>1 DEF TInv, Own
      <4>3. QED
        BY <3>1, <4>1, <4>2, <1>10
    <3>2. CASE l \in loads /\ l.tab # t
      BY <3>2, <1>10, <1>16, <1>20 DEF TInv, Own
    <3>3. CASE l \notin loads
      BY <3>3, <1>10, <1>15
    <3>4. QED
      BY <3>1, <3>2, <3>3
  <2>2. QED
    BY <2>1, <1>16, <1>18 DEF TInv, Own
<1>26. Once'
  <2> SUFFICES ASSUME NEW x \in (1..v) \ hurried'
               PROVE  /\ \A g, h \in hits' :
                           g.kind = "load" /\ h.kind = "load" /\ g.view = x /\ h.view = x => g = h
                      /\ \A a, b \in loads' : a.by = x /\ b.by = x => a = b
                      /\ Sent(x)' \/ Asked(x)' \/ Waits(x)'
                      /\ ~(Sent(x)' /\ Asked(x)') /\ ~(Sent(x)' /\ Waits(x)')
                      /\ ~(Asked(x)' /\ Waits(x)')
    BY <1>1, Zenon DEF Once
  <2>1. Sent(x)' <=> Sent(x)
    BY <1>18, <1>19 DEF Sent
  <2>2. CASE x = v
    <3>1. ~Sent(x)
      BY <2>2, <1>11, <1>18, <1>19 DEF Sent
    <3>2. \A a \in loads : a.by # x
      BY <2>2, <1>11, <1>20
    <3>3. Asked(x)'
      BY <2>2, <1>15 DEF Asked
    <3>4. ~Due(t)
      BY <2>2, <1>1
    <3>5. ~Waits(x)'
      <4>1. page'[t].ready
        BY <3>4, <1>1, <1>10 DEF Due
      <4>2. QED
        BY <2>2, <4>1, <1>10, <1>11, <1>21 DEF Waits
    <3>6. \A a, b \in loads' : a.by = x /\ b.by = x => a = b
      BY <3>2, <1>15
    <3>7. \A h \in hits' : h.kind = "load" => h.view # x
      BY <2>2, <1>11, <1>18
    <3>8. QED
      BY <2>1, <3>1, <3>3, <3>5, <3>6, <3>7
  <2>3. CASE x # v
    <3>1. x \in (1..views) \ hurried
      BY <2>3, <1>12, <1>16
    <3>2. Asked(x)' <=> Asked(x)
      BY <2>3, <1>15 DEF Asked
    <3>3. x = w => page[t].ready
      BY <1>1 DEF Due
    <3>4. Waits(x)' <=> Waits(x)
      BY <2>3, <3>3, <1>1, <1>10 DEF Waits
    <3>5. \A a, b \in loads' : a.by = x /\ b.by = x => a = b
      BY <2>3, <3>1, <1>15 DEF TInv, Once
    <3>6. QED
      BY <2>1, <3>1, <3>2, <3>4, <3>5, <1>18 DEF TInv, Once
  <2>4. QED
    BY <2>2, <2>3
<1>27. Answered' /\ AtMost' /\ AtLeast'
  BY <1>1, <1>15, <1>18, <1>19, CountStays
<1>28. QED
  BY <1>17, <1>22, <1>23, <1>25, <1>26, <1>27 DEF TInv

LEMMA TInvInit == TInit => TInv
<1> SUFFICES ASSUME TInit PROVE TInv
  OBVIOUS
<1>1. /\ MaxViews \in Nat /\ MaxDays \in Nat /\ MaxExtras \in Nat
  BY TrackerAssumption
<1>2. page \in [Tabs -> Tab] /\ \A t \in Tabs : ~page[t].open
  BY <1>1 DEF TInit, Tab, Closed
<1>3. Typed
  <2>1. day \in 1..MaxDays
    BY TrackerAssumption DEF TInit
  <2>2. hits = {} /\ IsFiniteSet(hits)
    BY FS_EmptySet DEF TInit
  <2>3. QED
    BY <1>1, <1>2, <2>1, <2>2 DEF TInit, Typed, TTypeOK, Tab
<1>4. Placed /\ Ended /\ Own /\ Once /\ Answered
  BY <1>2 DEF TInit, Placed, Ended, Own, Once, Answered
<1>5. AtMost /\ AtLeast
  BY DEF TInit, AtMost, AtLeast
<1>6. QED
  BY <1>3, <1>4, <1>5 DEF TInv

LEMMA TInvStep == TInv /\ [TNext]_tvars => TInv'
<1> SUFFICES ASSUME TInv, [TNext]_tvars PROVE TInv'
  OBVIOUS
<1>1. CASE NextDay
  BY <1>1, NextDayKeeps
<1>2. ASSUME NEW l \in loads, PingAnswered(l) \/ PingFails(l) \/ SendLoad(l) PROVE TInv'
  BY <1>2, PingAnsweredKeeps, PingFailsKeeps, SendLoadKeeps
<1>3. ASSUME NEW t \in Tabs, DomReady(t) \/ Hide(t) \/ Leave(t) PROVE TInv'
  BY <1>3, DomReadyKeeps, HideKeeps, LeaveKeeps
<1>4. ASSUME NEW t \in Tabs, NEW p \in Paths, PushUnseen(t, p) PROVE TInv'
  BY <1>4, PushUnseenKeeps
<1>5. ASSUME NEW t \in Tabs, NEW p \in Paths, Push(t, p) PROVE TInv'
  <2>1. Navigate(t, page[t], p)
    BY <1>5 DEF Push
  <2>2. QED
    BY <2>1, NavigateKeeps
<1>6. ASSUME NEW t \in Tabs, NEW p \in Paths, Traverse(t, p) PROVE TInv'
  <2> PICK pg : pg = [page[t] EXCEPT !.path = p]
    OBVIOUS
  <2>1. Navigate(t, pg, p)
    BY <1>6 DEF Traverse
  <2>2. page[t] \in Tab
    BY DEF TInv, Typed, TTypeOK, Tab
  <2>3. pg.beacon = page[t].beacon /\ pg.viewPath = page[t].viewPath /\ pg.unloaded = page[t].unloaded
    BY <2>2 DEF Tab
  <2>4. QED
    BY <2>1, <2>3, NavigateKeeps
<1>7. ASSUME NEW t \in Tabs, NEW p \in Paths, NEW r \in BOOLEAN, Open(t, p, r) PROVE TInv'
  BY <1>7, OpenKeeps
<1>8. CASE UNCHANGED tvars
  BY <1>8 DEF tvars, browser, memory, TInv, Typed, TTypeOK, Placed, Ended, Own, Once, Sent, Asked,
              Waits, Answered, AtMost, AtLeast, First
<1>9. QED
  BY <1>1, <1>2, <1>3, <1>4, <1>5, <1>6, <1>7, <1>8 DEF TNext

\* The invariant the three theorems rest on (tracker.js:108-250, ping.rs:20-41).
THEOREM TrackerInductive == TSpec => []TInv
  BY TInvInit, TInvStep, PTL DEF TSpec

-----------------------------------------------------------------------------
\* A set of at most one element has that cardinality.
LEMMA AtMostOne ==
  ASSUME NEW S, \A x, y \in S : x = y
  PROVE  IsFiniteSet(S) /\ Cardinality(S) \in 0..1 /\ (Cardinality(S) = 1 <=> S # {})
<1>1. CASE S = {}
  BY <1>1, FS_EmptySet
<1>2. CASE S # {}
  <2>1. PICK x : S = {x}
    BY <1>2
  <2>2. IsFiniteSet({x}) /\ Cardinality({x}) = 1
    BY FS_Singleton
  <2>3. QED
    BY <2>1, <2>2
<1>3. QED
  BY <1>1, <1>2

LEMMA TInvAttributed == TInv => Attributed
<1> SUFFICES ASSUME TInv PROVE Attributed
  OBVIOUS
<1>1. ASSUME NEW v \in Views
      PROVE  Cardinality({h \in hits : h.kind = "unload" /\ h.view = v}) <= 1
  <2> DEFINE S == {h \in hits : h.kind = "unload" /\ h.view = v}
  <2>1. \A g, h \in S : g = h
    BY DEF TInv, Ended
  <2> HIDE DEF S
  <2>2. Cardinality(S) \in 0..1
    BY <2>1, AtMostOne
  <2>3. QED
    BY <2>2 DEF S
<1>2. QED
  BY <1>1 DEF TInv, Ended, Attributed

LEMMA TInvOneLoad == TInv => OneLoadPerView
<1> SUFFICES ASSUME TInv, NEW v \in (1..views) \ hurried
             PROVE  /\ \A h \in hits : h.kind = "load" => (h.view = v <=> h.by = v)
                    /\ Cardinality(LoadsOf(v)) + Cardinality(AsksOf(v))
                         + Cardinality(Parsing(v)) = 1
  BY DEF OneLoadPerView
<1>1. \A h \in hits : h.kind = "load" => (h.view = v <=> h.by = v)
  BY DEF TInv, Own
<1>2. \A g, h \in LoadsOf(v) : g = h
  BY DEF TInv, Once, LoadsOf
<1>3. \A a, b \in AsksOf(v) : a = b
  BY DEF TInv, Once, AsksOf
<1>4. \A t, u \in Parsing(v) : t = u
  BY DEF TInv, Placed, Parsing
<1>5. /\ Sent(v) <=> LoadsOf(v) # {}
      /\ Asked(v) <=> AsksOf(v) # {}
      /\ Waits(v) <=> Parsing(v) # {}
  BY DEF Sent, Asked, Waits, LoadsOf, AsksOf, Parsing
<1>6. /\ Cardinality(LoadsOf(v)) \in 0..1 /\ (Cardinality(LoadsOf(v)) = 1 <=> Sent(v))
      /\ Cardinality(AsksOf(v)) \in 0..1 /\ (Cardinality(AsksOf(v)) = 1 <=> Asked(v))
      /\ Cardinality(Parsing(v)) \in 0..1 /\ (Cardinality(Parsing(v)) = 1 <=> Waits(v))
  BY <1>2, <1>3, <1>4, <1>5, AtMostOne
<1>7. /\ Sent(v) \/ Asked(v) \/ Waits(v)
      /\ ~(Sent(v) /\ Asked(v)) /\ ~(Sent(v) /\ Waits(v)) /\ ~(Asked(v) /\ Waits(v))
  BY DEF TInv, Once
<1>8. QED
  BY <1>1, <1>6, <1>7

LEMMA TInvCounted == TInv => CountedOnceADay
<1> SUFFICES ASSUME TInv PROVE CountedOnceADay
  OBVIOUS
<1>1. CountedAtMostOnce
  <2> SUFFICES ASSUME blurred \cap {"overlap", "midnight"} = {}, NEW d \in 1..MaxDays
               PROVE  Cardinality(FirstToday(d)) <= 1
    BY DEF CountedAtMostOnce
  <2>1. \A g, h \in FirstToday(d) : g = h
    BY DEF TInv, AtMost, First, FirstToday
  <2>2. QED
    BY <2>1, AtMostOne
<1>2. CountedAtLeastOnce
  <2> SUFFICES ASSUME blurred \subseteq {"overlap"}, NEW d \in 1..MaxDays,
                      NEW h \in hits, h.kind = "load", h.day = d
               PROVE  FirstToday(d) # {} \/ (d = day /\ \E l \in loads : l.unique)
    BY DEF CountedAtLeastOnce
  <2>1. CASE d = day
    BY <2>1 DEF TInv, AtLeast, First, FirstToday
  <2>2. CASE d # day
    BY <2>2 DEF TInv, AtLeast, First, FirstToday
  <2>3. QED
    BY <2>1, <2>2
<1>3. QED
  BY <1>1, <1>2 DEF CountedOnceADay

\* A view ends once, and its beacons name the path it began on
\* (tracker.js:174-250).
THEOREM Attribution == TSpec => []Attributed
  BY TrackerInductive, TInvAttributed, PTL

\* A view has one load beacon, posted or on its way, unless it was hurried
\* (tracker.js:163-200).
THEOREM OneLoad == TSpec => []OneLoadPerView
  BY TrackerInductive, TInvOneLoad, PTL

\* A visitor counts once a day, but for the races that CountedOnceADay names
\* (ping.rs:20-41).
THEOREM VisitorsCountOnce == TSpec => []CountedOnceADay
  BY TrackerInductive, TInvCounted, PTL
=============================================================================
