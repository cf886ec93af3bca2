----------------------------- MODULE RateWindow -----------------------------
(***************************************************************************)
(* The rate limiter's rule as its configuration states it: in any window   *)
(* of time, a key is admitted no more requests than its burst and what it  *)
(* earns within the window.  RateLimiter is observed here by the times its *)
(* admitted requests were made.                                            *)
(***************************************************************************)
EXTENDS RateLimiter

VARIABLES
  admitted,   \* per key and time, how many admitted requests were made by then
  newest,     \* per key, the newest clock reading used on its bucket
  overtaken   \* some request was charged after one with a newer reading

observer == <<admitted, newest, overtaken>>

Later(a, b) == IF a <= b THEN b ELSE a

WInit ==
  /\ Init
  /\ admitted = [k \in Keys |-> [t \in 0..MaxTime |-> 0]]
  /\ newest = [k \in Keys |-> 0]
  /\ overtaken = FALSE

Observe(w) ==
  LET c == calls[w] IN
  /\ newest' = [newest EXCEPT ![c.key] = Later(@, c.at)]
  /\ overtaken' = (overtaken \/ c.at < newest[c.key])

WAdmit(w) ==
  /\ Admit(w)
  /\ admitted' = [admitted EXCEPT ![calls[w].key] =
       [t \in 0..MaxTime |-> IF calls[w].at <= t THEN @[t] + 1 ELSE @[t]]]
  /\ Observe(w)

WDeny(w) ==
  /\ Deny(w)
  /\ UNCHANGED admitted
  /\ Observe(w)

\* A bucket that is dropped was full at the cleanup's reading.
WSweep ==
  /\ Sweep
  /\ newest' = [k \in Keys |->
       IF k \in Tracked \ Tracked' THEN Later(newest[k], sweep) ELSE newest[k]]
  /\ UNCHANGED <<admitted, overtaken>>

WNext ==
  \/ (Tick \/ StartSweep \/ \E w \in Workers, k \in Keys : Arrive(w, k)) /\ UNCHANGED observer
  \/ WSweep
  \/ \E w \in Workers : WAdmit(w) \/ WDeny(w)

wvars == <<vars, observer>>

WSpec == WInit /\ [][WNext]_wvars

\* The fairness of RateLimiter's FairSpec, for the observed actions.
WFairSpec ==
  /\ WSpec
  /\ WF_wvars(Tick /\ UNCHANGED observer) /\ WF_wvars(StartSweep /\ UNCHANGED observer)
  /\ WF_wvars(WSweep)
  /\ \A w \in Workers : WF_wvars(WAdmit(w) \/ WDeny(w))

-----------------------------------------------------------------------------
\* Of the requests that f counts, those made from a to b.
Made(f, a, b) == f[b] - (IF a = 0 THEN 0 ELSE f[a - 1])

\* "Sustained requests per minute (token refill rate)" and "Maximum burst
\* (token bucket capacity)" (config.rs:181-184), over every window.
WithinRule ==
  \A k \in Keys : \A a, b \in 0..MaxTime : a <= b => Cost * Made(admitted[k], a, b) <= Cap + (b - a)

\* The rule holds as long as requests of a key are charged in the order they
\* read the clock: it is overtaking on the way to the lock that breaks it.
RuleUnlessOvertaken == overtaken \/ WithinRule
=============================================================================
