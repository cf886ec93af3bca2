------------------------------ MODULE Session ------------------------------
(***************************************************************************)
(* The administrator's session: the dashboard's API client (ui/src/api.rs, *)
(* ui/src/auth.rs) in the tabs of one browser, which share its cookies;    *)
(* the agent's authentication (web/api/mod.rs, web/api/auth.rs); and the   *)
(* identity provider, which may rotate refresh tokens.  A request carries  *)
(* the cookies of the moment it is sent; the agent's answer to an API call *)
(* and its receipt are one step, as nothing either depends on can change   *)
(* in between.  A renewal is three: sent, redeemed, received.              *)
(***************************************************************************)
EXTENDS Integers, FiniteSets

CONSTANTS
  Tabs,        \* pages open on the dashboard
  PerTab,      \* API calls a tab may have at once
  MaxCalls,    \* bound: API calls made
  MaxLapses,   \* bound: ID tokens that lapse
  MaxFaults,   \* bound: lost answers, provider failures, throttled requests
  None         \* no cookie, no token, no call

ASSUME SessionAssumption ==
  /\ {PerTab, MaxCalls, MaxLapses, MaxFaults} \subseteq Nat
  /\ None \notin Nat \cup Tabs \cup (Tabs \X (1..PerTab)) \cup ((Tabs \X (1..PerTab)) \X BOOLEAN)

Calls == Tabs \X (1..PerTab)
Tab(c) == c[1]
Kinds == {"read", "mutation", "logout"}
Ends == {"ok", "unauthorized", "forbidden", "network", "server"}

VARIABLES
  issued,     \* ID tokens issued so far, numbered
  valid,      \* those that have not lapsed
  grant,      \* the refresh token the provider accepts now
  rotates,    \* the provider replaces it at each redemption
  jar,        \* the browser's cookies: session, refresh, csrf
  cached,     \* per tab: CSRF_TOKEN
  calls,      \* API calls
  renewals,   \* renewals in the air, by the call that started them
  current,    \* per tab: the renewal its single flight holds
  faults,
  applied,    \* history: how often the agent carried out each call
  mishaps     \* history: what a session is not guarded against

provider == <<issued, valid, grant, rotates>>
browser == <<jar, cached, calls, renewals, current>>
history == <<applied, mishaps>>
vars == <<provider, browser, faults, history>>

NoCall ==
  [pc |-> "idle", kind |-> "read", what |-> "main", session |-> None, header |-> None,
   matches |-> FALSE, again |-> FALSE, refreshed |-> FALSE, on |-> None, rekeyed |-> FALSE]
NoRenewal == [stage |-> "none", carried |-> None, result |-> "", session |-> None, refresh |-> None]

\* Signed in.  The tabs were just loaded, or each has fetched a CSRF token and
\* the cookie is the last one's.
Init ==
  /\ issued = 1 /\ valid = {1} /\ grant = 1 /\ rotates \in BOOLEAN
  /\ \/ jar = [session |-> 1, refresh |-> 1, csrf |-> None] /\ cached = [t \in Tabs |-> None]
     \/ \E last \in Tabs :
          /\ jar = [session |-> 1, refresh |-> 1, csrf |-> last]
          /\ cached = [t \in Tabs |-> t]
  /\ calls = [c \in Calls |-> NoCall]
  /\ renewals = [c \in Calls |-> NoRenewal]
  /\ current = [t \in Tabs |-> None]
  /\ faults = 0
  /\ applied = [c \in Calls |-> 0]
  /\ mishaps = {}

Active(c) == calls[c].pc \in {"out", "renew"}
Fault == faults < MaxFaults /\ faults' = faults + 1
Over(call, how) == [NoCall EXCEPT !.pc = how, !.kind = call.kind, !.rekeyed = call.rekeyed]
Ended(c, how) == calls' = [calls EXCEPT ![c] = Over(@, how)]

-----------------------------------------------------------------------------
(* A call in the browser.                                                  *)

\* A request leaves with the cookies of the moment, and its CSRF header, if it
\* has one, matches the cookie or does not (csrf_ok).
Sent(call, what, cookies, header, again) ==
  [call EXCEPT !.pc = "out", !.what = what, !.header = header, !.again = again,
               !.session = cookies.session, !.on = None,
               !.matches = header # None /\ header = cookies.csrf]

\* get_json sends at once; mutate fetches a CSRF token first if none is cached.
Begin(c, kind) ==
  LET token == cached[Tab(c)] IN
  /\ calls[c].pc = "idle"
  /\ \A i \in 1..(c[2] - 1) : calls[<<c[1], i>>].pc # "idle"
  /\ Cardinality({d \in Calls : calls[d].pc # "idle"}) < MaxCalls
  /\ calls' = [calls EXCEPT ![c] =
       Sent([NoCall EXCEPT !.kind = kind],
            IF kind # "read" /\ token = None THEN "csrf" ELSE "main", jar,
            IF kind = "read" THEN None ELSE token, FALSE)]
  /\ UNCHANGED <<provider, jar, cached, renewals, current, faults, history>>

\* The agent rejects a mutation whose header is not its CSRF cookie before it
\* looks at the session (api_auth); logout looks at nothing else (auth_logout).
Forged(call) ==
  call.what = "main" /\ call.kind # "read" /\ ~ call.matches

Guarded(call) == ~ (call.what = "main" /\ call.kind = "logout")
Unauthenticated(call) == ~ Forged(call) /\ Guarded(call) /\ call.session \notin valid
Accepted(call) == ~ Forged(call) /\ ~ Unauthenticated(call)
Awaited(c) == calls[c].pc = "out"

\* A CSRF token is answered: a new one each time, cookie and body.  The
\* mutation that wanted it goes out with it.
CsrfAnswered(c) ==
  LET token == <<c, calls[c].refreshed>>
      cookies == [jar EXCEPT !.csrf = token]
  IN
  /\ Awaited(c) /\ calls[c].what = "csrf" /\ Accepted(calls[c])
  /\ jar' = cookies
  /\ cached' = [cached EXCEPT ![Tab(c)] = token]
  /\ calls' = [d \in Calls |->
       IF d = c THEN Sent(calls[c], "main", cookies, token, FALSE)
       ELSE [calls[d] EXCEPT !.rekeyed = @ \/ Active(d)]]
  /\ UNCHANGED <<provider, renewals, current, faults, history>>

\* Mutant: logging out leaves the refresh token.
AnsweredSessionOnly(c) ==
  /\ Awaited(c) /\ calls[c].what = "main" /\ Accepted(calls[c])
  /\ Ended(c, "ok")
  /\ applied' = [applied EXCEPT ![c] = @ + 1]
  /\ IF calls[c].kind = "logout"
     THEN jar' = [jar EXCEPT !.session = None] /\ mishaps' = mishaps \cup {"logout"}
     ELSE UNCHANGED <<jar, mishaps>>
  /\ UNCHANGED <<provider, cached, renewals, current, faults>>

\* A call is carried out, and its answer arrives.
Answered(c) ==
  /\ Awaited(c) /\ calls[c].what = "main" /\ Accepted(calls[c])
  /\ Ended(c, "ok")
  /\ applied' = [applied EXCEPT ![c] = @ + 1]
  /\ IF calls[c].kind = "logout"
     THEN /\ jar' = [jar EXCEPT !.session = None, !.refresh = None]
          /\ mishaps' = mishaps \cup {"logout"} \cup
               (IF \E d \in Calls : renewals[d].stage # "none" THEN {"revived"} ELSE {})
     ELSE UNCHANGED <<jar, mishaps>>
  /\ UNCHANGED <<provider, cached, renewals, current, faults>>

\* 403: fetch a new CSRF token, once (mutate).
Forbidden(c) ==
  /\ Awaited(c) /\ Forged(calls[c])
  /\ IF calls[c].refreshed
     THEN Ended(c, "forbidden") /\ UNCHANGED cached
     ELSE /\ cached' = [cached EXCEPT ![Tab(c)] = None]
          /\ calls' = [calls EXCEPT ![c] =
               Sent([calls[c] EXCEPT !.refreshed = TRUE], "csrf", jar, None, FALSE)]
  /\ UNCHANGED <<provider, jar, renewals, current, faults, history>>

\* Mutant: every caller redeems the refresh token for itself.
JoinNone(c) ==
  /\ renewals' = [renewals EXCEPT ![c] = [NoRenewal EXCEPT !.stage = "sent", !.carried = jar.refresh]]
  /\ current' = [current EXCEPT ![Tab(c)] = c]
  /\ calls' = [calls EXCEPT ![c].pc = "renew", ![c].on = c]
  /\ UNCHANGED mishaps

\* Single flight: join the tab's renewal, or start one.
Join(c) ==
  LET t == Tab(c) IN
  IF current[t] # None
  THEN calls' = [calls EXCEPT ![c].pc = "renew", ![c].on = current[t]]
       /\ UNCHANGED <<renewals, current, mishaps>>
  ELSE /\ renewals' = [renewals EXCEPT ![c] =
            [NoRenewal EXCEPT !.stage = "sent", !.carried = jar.refresh]]
       /\ current' = [current EXCEPT ![t] = c]
       /\ calls' = [calls EXCEPT ![c].pc = "renew", ![c].on = c]
       /\ mishaps' = mishaps \cup
            (IF \E d \in Calls : renewals[d].stage # "none" THEN {"crossed"} ELSE {})

\* 401: renew the session and send again, once (send_with_session).
Unauthorized(c) ==
  /\ Awaited(c) /\ Unauthenticated(calls[c])
  /\ IF calls[c].again
     THEN Ended(c, "unauthorized") /\ UNCHANGED <<renewals, current, mishaps>>
     ELSE Join(c)
  /\ UNCHANGED <<provider, jar, cached, faults, applied>>

\* The agent throttles unauthenticated requests: 429, which nobody renews on.
Throttled(c) ==
  /\ Awaited(c) /\ Unauthenticated(calls[c])
  /\ Fault
  /\ Ended(c, "server")
  /\ UNCHANGED <<provider, jar, cached, renewals, current, history>>

\* Mutant: a request without an answer is sent again.
LostResent(c) ==
  /\ Awaited(c)
  /\ Fault
  /\ calls' = [calls EXCEPT ![c] = Sent(calls[c], calls[c].what, jar, calls[c].header, TRUE)]
  /\ IF calls[c].what = "main" /\ Accepted(calls[c])
     THEN applied' = [applied EXCEPT ![c] = @ + 1] ELSE UNCHANGED applied
  /\ UNCHANGED <<provider, jar, cached, renewals, current, mishaps>>

\* The connection fails, before or after the agent has acted.
Lost(c) ==
  /\ Awaited(c)
  /\ Fault
  /\ Ended(c, "network")
  /\ \/ UNCHANGED applied
     \/ /\ calls[c].what = "main" /\ Accepted(calls[c])
        /\ applied' = [applied EXCEPT ![c] = @ + 1]
  /\ UNCHANGED <<provider, jar, cached, renewals, current, mishaps>>

\* A page is unloaded: its calls, its cache and its single flight are gone.
Unload(t) ==
  /\ calls' = [d \in Calls |->
       IF Tab(d) = t /\ calls[d].pc # "idle" THEN [NoCall EXCEPT !.pc = "gone"] ELSE calls[d]]
  /\ cached' = [cached EXCEPT ![t] = None]
  /\ current' = [current EXCEPT ![t] = None]
  /\ renewals' = [d \in Calls |-> IF Tab(d) = t THEN NoRenewal ELSE renewals[d]]
  /\ mishaps' = IF current[t] # None THEN mishaps \cup {"abandoned"} ELSE mishaps
  /\ UNCHANGED <<provider, jar, applied>>

\* After a logout, whatever came of it, the page is loaded anew.
Leave(c) ==
  /\ calls[c].kind = "logout" /\ calls[c].pc \in Ends
  /\ Unload(Tab(c))
  /\ UNCHANGED faults

Reload(t) ==
  /\ Fault
  /\ \E c \in Calls : Tab(c) = t /\ Active(c)
  /\ Unload(t)

-----------------------------------------------------------------------------
(* Renewal: POST /auth/refresh (auth_refresh), and the provider.           *)

\* An ID token lapses; its cookie does with it.
Lapse(s) ==
  /\ issued - Cardinality(valid) < MaxLapses
  /\ s \in valid
  /\ valid' = valid \ {s}
  /\ mishaps' = IF \E c \in Calls : calls[c].pc = "renew" \/ (Awaited(c) /\ calls[c].again)
                THEN mishaps \cup {"hasty"} ELSE mishaps
  /\ UNCHANGED <<issued, grant, rotates, browser, faults, applied>>

Spend == grant' = IF rotates THEN grant + 1 ELSE grant

Result(c, result) ==
  renewals' = [renewals EXCEPT ![c].stage = "done", ![c].result = result]

Arriving(c) == renewals[c].stage = "sent"

\* The refresh token that was carried is the one the provider accepts.
Redeem(c) ==
  /\ Arriving(c) /\ renewals[c].carried = grant
  /\ Spend
  /\ issued' = issued + 1 /\ valid' = valid \cup {issued + 1}
  /\ renewals' = [renewals EXCEPT ![c] =
       [@ EXCEPT !.stage = "done", !.result = "renewed", !.session = issued + 1, !.refresh = grant']]
  /\ UNCHANGED <<rotates, jar, cached, calls, current, faults, history>>

\* There is none, or the provider rejects it: the session is over.
Reject(c) ==
  /\ Arriving(c) /\ renewals[c].carried # grant
  /\ Result(c, "expired")
  /\ UNCHANGED <<provider, jar, cached, calls, current, faults, history>>

\* The provider cannot be reached, or it answers with an error status; it
\* redeems the token and its answer or its keys do not arrive; or the agent's
\* own answer does not.  An error status and keys that do not arrive count as
\* the end of the session, the others do not.
RenewalFails(c, over, spent) ==
  /\ Arriving(c)
  /\ Fault
  /\ IF spent THEN renewals[c].carried = grant /\ Spend ELSE UNCHANGED grant
  /\ Result(c, IF over THEN "expired" ELSE "later")
  /\ mishaps' = mishaps \cup {IF over \/ spent THEN "provider" ELSE "unreachable"}
  /\ UNCHANGED <<issued, valid, rotates, jar, cached, calls, current, applied>>

\* The cookies the answer sets or removes.
Cookies(r) ==
  CASE r.result = "renewed" -> [jar EXCEPT !.session = r.session, !.refresh = r.refresh]
    [] r.result = "expired" -> [jar EXCEPT !.session = None, !.refresh = None]
    [] r.result = "later" -> jar

\* Mutant: the flight is not retired.
SettleKeeps(c) ==
  LET r == renewals[c] IN
  /\ r.stage = "done"
  /\ jar' = Cookies(r)
  /\ calls' = [d \in Calls |->
       IF calls[d].pc # "renew" \/ calls[d].on # c THEN calls[d]
       ELSE IF r.result = "renewed"
            THEN Sent(calls[d], calls[d].what, Cookies(r), calls[d].header, TRUE)
            ELSE Over(calls[d], "unauthorized")]
  /\ renewals' = [renewals EXCEPT ![c] = NoRenewal]
  /\ UNCHANGED <<provider, cached, current, faults, history>>

\* The answer arrives: the flight is retired, and everyone who waited goes on.
Settle(c) ==
  LET r == renewals[c] IN
  /\ r.stage = "done"
  /\ jar' = Cookies(r)
  /\ calls' = [d \in Calls |->
       IF calls[d].pc # "renew" \/ calls[d].on # c THEN calls[d]
       ELSE IF r.result = "renewed"
            THEN Sent(calls[d], calls[d].what, Cookies(r), calls[d].header, TRUE)
            ELSE Over(calls[d], "unauthorized")]
  /\ renewals' = [renewals EXCEPT ![c] = NoRenewal]
  /\ current' = [t \in Tabs |-> IF current[t] = c THEN None ELSE current[t]]
  /\ UNCHANGED <<provider, cached, faults, history>>

-----------------------------------------------------------------------------
\* What the agent, the provider and the network do about a call.
Progress(c) ==
  \/ CsrfAnswered(c) \/ Answered(c) \/ Forbidden(c) \/ Unauthorized(c)
  \/ Redeem(c) \/ Reject(c) \/ Settle(c)

Next ==
  \/ \E c \in Calls :
       \/ \E kind \in Kinds : Begin(c, kind)
       \/ Progress(c)
       \/ Throttled(c) \/ Lost(c) \/ Leave(c)
       \/ \E over, spent \in BOOLEAN : RenewalFails(c, over, spent)
  \/ \E t \in Tabs : Reload(t)
  \/ \E s \in valid : Lapse(s)

Spec == Init /\ [][Next]_vars

\* As long as requests are open, some are answered or time out.
FairSpec == Spec /\ WF_vars(\E c \in Calls : Progress(c))

-----------------------------------------------------------------------------
(* Properties.                                                             *)

Token == (Calls \X BOOLEAN) \cup Tabs
CallType ==
  [pc : {"idle", "out", "renew", "gone"} \cup Ends, kind : Kinds, what : {"main", "csrf"},
   session : Nat \cup {None}, header : Token \cup {None}, matches : BOOLEAN,
   again : BOOLEAN, refreshed : BOOLEAN, on : Calls \cup {None}, rekeyed : BOOLEAN]

\* A call that waits for a renewal has one in the air to wait for.
TypeOK ==
  /\ issued \in Nat /\ valid \subseteq 1..issued /\ grant \in Nat /\ rotates \in BOOLEAN
  /\ jar \in [session : Nat \cup {None}, refresh : Nat \cup {None}, csrf : Token \cup {None}]
  /\ cached \in [Tabs -> Token \cup {None}]
  /\ calls \in [Calls -> CallType]
  /\ applied \in [Calls -> Nat]
  /\ mishaps \subseteq {"logout", "revived", "crossed", "hasty", "provider", "unreachable", "abandoned"}
  /\ \A c \in Calls : calls[c].pc = "renew" => renewals[calls[c].on].stage # "none"

\* "the first starts the refresh and the rest await its result"
\* (ui/src/auth.rs:92-98): when the ID token lapses under the calls of a page,
\* or of tabs one after the other, none of them fails for it and the session
\* goes on, also when the agent does not get to the provider
\* (web/api/auth.rs:270-271).  What can end it: renewals of two tabs at once,
\* an error of the provider or an answer that is lost, a page that is left
\* during its renewal, a logout.
SurvivesLapse ==
  /\ mishaps \subseteq {"hasty", "unreachable"} => jar.refresh # None
  /\ mishaps = {} => \A c \in Calls : calls[c].pc # "unauthorized"

\* The outcome a caller is told is true: a mutation that succeeded was carried
\* out once, a refused one never, and whatever is retried, none is carried out
\* twice (api.rs:92-140).  A CSRF token that went stale is replaced and the
\* mutation goes through (api.rs:118-119): it is refused only if another call's
\* token replaced it meanwhile.
OutcomeTrue ==
  \A c \in Calls : calls[c].kind # "read" =>
    /\ applied[c] <= 1
    /\ calls[c].pc = "ok" => applied[c] = 1
    /\ calls[c].pc \in {"unauthorized", "forbidden", "server"} => applied[c] = 0
    /\ calls[c].pc = "forbidden" => calls[c].rekeyed

\* "clear the session and refresh cookies" (auth.rs:355-357): after a logout the browser
\* has no session, unless a renewal was in the air.
LogoutSticks ==
  "logout" \in mishaps => "revived" \in mishaps \/ jar.refresh = None

\* Every call ends: neither retry is repeated, and nobody waits for a renewal
\* that is over.  (Callers make MaxCalls calls: in the end none is under way.)
EveryCallEnds == <>[](\A c \in Calls : ~ Active(c))
=============================================================================
