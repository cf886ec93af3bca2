--------------------------- MODULE SessionProofs ---------------------------
(***************************************************************************)
(* What Session.tla checks on small instances, proved for any number of    *)
(* tabs, calls, lapses and failures.                                       *)
(***************************************************************************)
EXTENDS Session, TLAPS

USE SessionAssumption

-----------------------------------------------------------------------------
(* The inductive invariant.                                                *)

Jar == [session : Nat \cup {None}, refresh : Nat \cup {None}, csrf : Token \cup {None}]
Renewal ==
  [stage : {"none", "sent", "done"}, carried : Nat \cup {None},
   result : {"", "renewed", "expired", "later"},
   session : Nat \cup {None}, refresh : Nat \cup {None}]

Shapes ==
  /\ issued \in Nat /\ valid \subseteq 1..issued /\ grant \in Nat /\ rotates \in BOOLEAN
  /\ jar \in Jar
  /\ cached \in [Tabs -> Token \cup {None}]
  /\ calls \in [Calls -> CallType]
  /\ renewals \in [Calls -> Renewal]
  /\ current \in [Tabs -> Calls \cup {None}]
  /\ applied \in [Calls -> Nat]
  /\ mishaps \subseteq {"logout", "revived", "crossed", "hasty", "provider", "unreachable", "abandoned"}

InAir(c) == renewals[c].stage # "none"
Renewed(c) == renewals[c].stage = "done" /\ renewals[c].result = "renewed"

\* The single flight of a tab: the renewal in the air is the one the tab holds, the
\* call that started it waits for it, and so does every other call that waits.
FlightInv ==
  /\ \A c \in Calls : InAir(c) => current[Tab(c)] = c /\ calls[c].pc = "renew"
  /\ \A c \in Calls : calls[c].pc = "renew" =>
       current[Tab(c)] # None /\ calls[c].on = current[Tab(c)]
  /\ \A t \in Tabs : current[t] # None => Tab(current[t]) = t /\ InAir(current[t])
  /\ \A c \in Calls : renewals[c].stage = "done" => renewals[c].result # ""

\* How often the agent carried a call out, by how far it has got; and what became
\* of a mutation that fetched a new CSRF token: it has the browser's, unless that was
\* replaced since.
CountInv(c) ==
  /\ applied[c] <= 1
  /\ calls[c].pc \in {"idle", "out", "renew", "unauthorized", "forbidden", "server"} => applied[c] = 0
  /\ calls[c].pc = "ok" => applied[c] = 1
KeyInv(c) ==
  calls[c].kind # "read" /\ ~ calls[c].rekeyed =>
    /\ calls[c].pc # "forbidden"
    /\ Active(c) /\ calls[c].refreshed /\ calls[c].what = "main" =>
         /\ calls[c].header # None /\ calls[c].header = jar.csrf
         /\ calls[c].pc = "out" => calls[c].matches

\* As long as only the agent's way to the provider failed, or tokens lapsed fast:
\* the browser has the refresh token the provider accepts, or one renewal is about
\* to bring it.
Sound == mishaps \subseteq {"hasty", "unreachable"}
GrantInv ==
  Sound =>
    /\ jar.refresh # None
    /\ \A c, d \in Calls : InAir(c) /\ InAir(d) => c = d
    /\ \/ jar.refresh = grant
       \/ \E c \in Calls : Renewed(c)
    /\ \A c \in Calls :
         /\ renewals[c].stage = "sent" => renewals[c].carried = grant
         /\ renewals[c].stage = "done" => renewals[c].result \in {"renewed", "later"}
         /\ Renewed(c) => renewals[c].refresh = grant

\* As long as nothing happened at all, what a renewal brought is valid until those
\* who waited for it have been answered.
ValidInv ==
  mishaps = {} =>
    \A c \in Calls :
      /\ renewals[c].stage = "done" => renewals[c].result = "renewed" /\ renewals[c].session \in valid
      /\ calls[c].pc = "out" /\ calls[c].again => calls[c].session \in valid
      /\ calls[c].pc # "unauthorized"

\* After a logout with no renewal in the air, whoever renews has nothing to redeem.
LogoutInv ==
  "logout" \in mishaps /\ "revived" \notin mishaps =>
    /\ jar.refresh = None
    /\ \A c \in Calls : InAir(c) => renewals[c].carried = None /\ ~ Renewed(c)

SInv ==
  /\ Shapes /\ FlightInv
  /\ \A c \in Calls : CountInv(c) /\ KeyInv(c)
  /\ GrantInv /\ ValidInv /\ LogoutInv

-----------------------------------------------------------------------------
(* What the operators of Session.tla make of a call.                       *)

LEMMA NoneIsNothing ==
  /\ None \notin Nat /\ None \notin Calls
  /\ \A c \in Calls, b \in BOOLEAN : <<c, b>> \in Token /\ <<c, b>> # None
BY DEF Calls, Token

LEMMA NoCallType == NoCall \in CallType /\ NoCall.pc = "idle" /\ ~ NoCall.again /\ ~ NoCall.refreshed
BY DEF NoCall, CallType, Kinds

\* k is call, sent with these cookies and header.
Left(k, call, what, cookies, header, again) ==
  /\ k \in CallType
  /\ k.pc = "out" /\ k.what = what /\ k.header = header
  /\ k.session = cookies.session /\ k.kind = call.kind
  /\ k.again <=> again
  /\ k.refreshed => call.refreshed
  /\ call.rekeyed => k.rekeyed
  /\ header # None /\ header = cookies.csrf => k.matches

LEMMA SentIs ==
  ASSUME NEW call \in CallType, NEW what \in {"main", "csrf"}, NEW cookies \in Jar,
         NEW header \in Token \cup {None}, NEW again \in BOOLEAN
  PROVE  Left(Sent(call, what, cookies, header, again), call, what, cookies, header, again)
<1> DEFINE k == Sent(call, what, cookies, header, again)
           m == header # None /\ header = cookies.csrf
<1>1. cookies.session \in Nat \cup {None}
  BY DEF Jar
<1>2. m \in BOOLEAN /\ (header # None /\ header = cookies.csrf => m)
  OBVIOUS
<1>3. k = [call EXCEPT !.pc = "out", !.what = what, !.header = header, !.again = again,
            !.session = cookies.session, !.on = None, !.matches = m]
  BY Zenon DEF Sent
<1> HIDE DEF m, k
<1>4. /\ k \in CallType
      /\ k.pc = "out" /\ k.what = what /\ k.header = header
      /\ k.session = cookies.session /\ k.kind = call.kind
      /\ k.again <=> again
      /\ k.refreshed => call.refreshed
      /\ call.rekeyed => k.rekeyed
      /\ m => k.matches
  BY <1>1, <1>2, <1>3 DEF CallType
<1>5. Left(k, call, what, cookies, header, again)
  BY <1>2, <1>4 DEF Left
<1> QED  BY <1>5 DEF k

LEMMA OverIs ==
  ASSUME NEW call \in CallType, NEW how \in Ends
  PROVE  /\ Over(call, how) \in CallType
         /\ Over(call, how).pc = how /\ Over(call, how).kind = call.kind
         /\ call.rekeyed => Over(call, how).rekeyed
BY DEF Over, NoCall, CallType, Kinds

\* One call becomes another.
LEMMA OneCall ==
  ASSUME calls \in [Calls -> CallType], NEW c \in Calls, NEW k \in CallType,
         calls' = [calls EXCEPT ![c] = k]
  PROVE  /\ calls' \in [Calls -> CallType] /\ calls'[c] = k
         /\ \A d \in Calls : d # c => calls'[d] = calls[d]
OBVIOUS

LEMMA EndedDoes ==
  ASSUME calls \in [Calls -> CallType], NEW c \in Calls, NEW how \in Ends, Ended(c, how)
  PROVE  /\ calls' \in [Calls -> CallType]
         /\ calls'[c].pc = how /\ calls'[c].kind = calls[c].kind
         /\ calls[c].rekeyed => calls'[c].rekeyed
         /\ \A d \in Calls : d # c => calls'[d] = calls[d]
<1> DEFINE k == Over(calls[c], how)
<1>1. calls[c] \in CallType
  OBVIOUS
<1>2. /\ k \in CallType /\ k.pc = how /\ k.kind = calls[c].kind
      /\ calls[c].rekeyed => k.rekeyed
  BY <1>1, OverIs
<1>3. calls' = [calls EXCEPT ![c] = k]
  BY DEF Ended
<1> HIDE DEF k
<1> QED  BY <1>2, <1>3, OneCall

LEMMA BeginDoes ==
  ASSUME Shapes, NEW c \in Calls, NEW kind \in Kinds, Begin(c, kind)
  PROVE  /\ calls' \in [Calls -> CallType]
         /\ calls[c].pc = "idle" /\ calls'[c].pc = "out"
         /\ ~ calls'[c].refreshed /\ ~ calls'[c].again
         /\ \A d \in Calls : d # c => calls'[d] = calls[d]
<1> DEFINE new == [NoCall EXCEPT !.kind = kind]
           what == IF kind # "read" /\ cached[Tab(c)] = None THEN "csrf" ELSE "main"
           header == IF kind = "read" THEN None ELSE cached[Tab(c)]
           k == Sent(new, what, jar, header, FALSE)
<1>1. Tab(c) \in Tabs
  BY DEF Tab, Calls
<1>2. new \in CallType /\ ~ new.refreshed
  BY DEF NoCall, CallType, Kinds
<1>3. what \in {"main", "csrf"} /\ header \in Token \cup {None} /\ jar \in Jar
  BY <1>1 DEF Shapes
<1>4. calls' = [calls EXCEPT ![c] = k] /\ calls[c].pc = "idle"
  BY DEF Begin
<1> HIDE DEF new, what, header
<1>5. Left(k, new, what, jar, header, FALSE)
  BY <1>2, <1>3, SentIs, Zenon
<1>6. k \in CallType /\ k.pc = "out" /\ ~ k.again /\ ~ k.refreshed
  BY <1>2, <1>5 DEF Left
<1> HIDE DEF k
<1> QED  BY <1>4, <1>6, OneCall DEF Shapes

LEMMA CsrfDoes ==
  ASSUME Shapes, NEW c \in Calls, CsrfAnswered(c)
  PROVE  /\ calls' \in [Calls -> CallType] /\ jar' \in Jar
         /\ jar'.refresh = jar.refresh /\ jar'.session = jar.session
         /\ cached' \in [Tabs -> Token \cup {None}]
         /\ calls[c].pc = "out" /\ calls'[c].pc = "out" /\ calls'[c].kind = calls[c].kind
         /\ ~ calls'[c].again
         /\ calls'[c].header # None /\ calls'[c].header = jar'.csrf /\ calls'[c].matches
         /\ \A d \in Calls : d # c =>
              /\ calls'[d].pc = calls[d].pc /\ calls'[d].kind = calls[d].kind
              /\ calls'[d].on = calls[d].on /\ calls'[d].session = calls[d].session
              /\ calls'[d].again => calls[d].again
              /\ calls[d].rekeyed => calls'[d].rekeyed
              /\ Active(d) => calls'[d].rekeyed
<1> DEFINE token == <<c, calls[c].refreshed>>
           cookies == [jar EXCEPT !.csrf = token]
           k == Sent(calls[c], "main", cookies, token, FALSE)
           other(d) == [calls[d] EXCEPT !.rekeyed = @ \/ Active(d)]
<1>1. calls[c] \in CallType /\ calls[c].refreshed \in BOOLEAN /\ Tab(c) \in Tabs
  BY DEF Shapes, CallType, Tab, Calls
<1>2. token \in Token /\ token # None
  BY <1>1, NoneIsNothing
<1>3. /\ jar' = cookies /\ cached' = [cached EXCEPT ![Tab(c)] = token]
      /\ calls[c].pc = "out"
      /\ calls' = [d \in Calls |-> IF d = c THEN k ELSE other(d)]
  BY DEF CsrfAnswered, Awaited
<1> HIDE DEF token
<1>4. /\ cookies \in Jar /\ cookies.csrf = token
      /\ cookies.refresh = jar.refresh /\ cookies.session = jar.session
  BY <1>2 DEF Shapes, Jar
<1> HIDE DEF cookies
<1>5. /\ k \in CallType /\ k.pc = "out" /\ k.kind = calls[c].kind /\ ~ k.again
      /\ k.header = token /\ k.matches
  <2>1. "main" \in {"main", "csrf"} /\ token \in Token \cup {None}
    BY <1>2
  <2>2. Left(k, calls[c], "main", cookies, token, FALSE)
    BY <1>1, <1>4, <2>1, SentIs, Zenon
  <2> QED  BY <1>2, <1>4, <2>2 DEF Left
<1>6. ASSUME NEW d \in Calls
      PROVE  /\ other(d) \in CallType
             /\ other(d).pc = calls[d].pc /\ other(d).kind = calls[d].kind
             /\ other(d).on = calls[d].on /\ other(d).session = calls[d].session
             /\ other(d).again => calls[d].again
             /\ calls[d].rekeyed => other(d).rekeyed
             /\ Active(d) => other(d).rekeyed
  <2> DEFINE b == calls[d].rekeyed \/ Active(d)
  <2>1. calls[d] \in CallType
    BY DEF Shapes
  <2>2. b \in BOOLEAN /\ (calls[d].rekeyed => b) /\ (Active(d) => b)
    OBVIOUS
  <2>3. other(d) = [calls[d] EXCEPT !.rekeyed = b]
    OBVIOUS
  <2> HIDE DEF b, other
  <2> QED  BY <2>1, <2>2, <2>3 DEF CallType
<1> HIDE DEF k, other
<1>7. calls' \in [Calls -> CallType] /\ calls'[c] = k /\ \A d \in Calls : d # c => calls'[d] = other(d)
  BY <1>3, <1>5, <1>6
<1>8. cached' \in [Tabs -> Token \cup {None}]
  BY <1>1, <1>2, <1>3 DEF Shapes
<1> QED  BY <1>2, <1>3, <1>4, <1>5, <1>6, <1>7, <1>8

LEMMA ForbiddenDoes ==
  ASSUME Shapes, NEW c \in Calls, Forbidden(c)
  PROVE  /\ calls' \in [Calls -> CallType] /\ cached' \in [Tabs -> Token \cup {None}]
         /\ calls[c].pc = "out" /\ calls'[c].kind = calls[c].kind
         /\ calls[c].rekeyed => calls'[c].rekeyed
         /\ \A d \in Calls : d # c => calls'[d] = calls[d]
         /\ \/ calls'[c].pc = "forbidden" /\ calls[c].refreshed
            \/ calls'[c].pc = "out" /\ calls'[c].what = "csrf" /\ ~ calls'[c].again
<1> DEFINE call == [calls[c] EXCEPT !.refreshed = TRUE]
           k == Sent(call, "csrf", jar, None, FALSE)
<1>1. /\ call \in CallType /\ call.kind = calls[c].kind
      /\ calls[c].rekeyed => call.rekeyed
  <2>1. calls[c] \in CallType
    BY DEF Shapes
  <2> QED  BY <2>1 DEF CallType
<1>2. calls[c].pc = "out" /\ calls \in [Calls -> CallType] /\ jar \in Jar /\ Tab(c) \in Tabs
  BY DEF Forbidden, Awaited, Shapes, Tab, Calls
<1>3. CASE calls[c].refreshed
  <2>1. Ended(c, "forbidden") /\ cached' = cached
    BY <1>3 DEF Forbidden
  <2>2. "forbidden" \in Ends
    BY DEF Ends
  <2> QED  BY <1>2, <1>3, <2>1, <2>2, EndedDoes DEF Shapes
<1>4. CASE ~ calls[c].refreshed
  <2>1. calls' = [calls EXCEPT ![c] = k] /\ cached' = [cached EXCEPT ![Tab(c)] = None]
    BY <1>4 DEF Forbidden
  <2> HIDE DEF call
  <2>2. /\ k \in CallType /\ k.pc = "out" /\ k.what = "csrf" /\ k.kind = call.kind /\ ~ k.again
        /\ call.rekeyed => k.rekeyed
    <3>1. "csrf" \in {"main", "csrf"} /\ None \in Token \cup {None}
      OBVIOUS
    <3>2. Left(k, call, "csrf", jar, None, FALSE)
      BY <1>1, <1>2, <3>1, SentIs, Zenon
    <3> QED  BY <3>2 DEF Left
  <2> HIDE DEF k
  <2>3. cached' \in [Tabs -> Token \cup {None}]
    BY <2>1, <1>2 DEF Shapes
  <2> QED  BY <1>1, <1>2, <2>1, <2>2, <2>3, OneCall
<1> QED  BY <1>3, <1>4

\* A call begins to wait for a renewal.
LEMMA WaitsDoes ==
  ASSUME calls \in [Calls -> CallType], NEW c \in Calls, NEW x \in Calls,
         calls' = [calls EXCEPT ![c].pc = "renew", ![c].on = x]
  PROVE  /\ calls' \in [Calls -> CallType]
         /\ calls'[c].pc = "renew" /\ calls'[c].on = x
         /\ calls'[c].kind = calls[c].kind /\ calls'[c].what = calls[c].what
         /\ calls'[c].header = calls[c].header
         /\ calls'[c].refreshed => calls[c].refreshed
         /\ calls[c].rekeyed => calls'[c].rekeyed
         /\ \A d \in Calls : d # c => calls'[d] = calls[d]
<1> DEFINE k == [calls[c] EXCEPT !.pc = "renew", !.on = x]
<1>1. /\ k \in CallType /\ k.pc = "renew" /\ k.on = x /\ k.kind = calls[c].kind
      /\ k.what = calls[c].what /\ k.header = calls[c].header
      /\ k.refreshed => calls[c].refreshed
      /\ calls[c].rekeyed => k.rekeyed
  BY DEF CallType
<1>2. calls' = [calls EXCEPT ![c] = k]
  BY Zenon
<1> HIDE DEF k
<1> QED  BY <1>1, <1>2, OneCall

LEMMA UnloadDoes ==
  ASSUME Shapes, NEW t \in Tabs, Unload(t)
  PROVE  /\ calls' \in [Calls -> CallType] /\ cached' \in [Tabs -> Token \cup {None}]
         /\ \A d \in Calls : calls'[d] = calls[d] \/ calls'[d].pc = "gone"
         /\ \A d \in Calls : Tab(d) # t => calls'[d] = calls[d]
         /\ \A d \in Calls : Tab(d) = t => calls'[d].pc \in {"idle", "gone"}
<1>1. [NoCall EXCEPT !.pc = "gone"] \in CallType /\ [NoCall EXCEPT !.pc = "gone"].pc = "gone"
  BY DEF NoCall, CallType, Kinds
<1> DEFINE k == [NoCall EXCEPT !.pc = "gone"]
<1>2. calls' = [d \in Calls |-> IF Tab(d) = t /\ calls[d].pc # "idle" THEN k ELSE calls[d]]
  BY DEF Unload
<1> HIDE DEF k
<1>3. cached' \in [Tabs -> Token \cup {None}]
  BY DEF Unload, Shapes
<1>4. k \in CallType /\ k.pc = "gone"
  BY <1>1 DEF k
<1> QED  BY <1>2, <1>3, <1>4 DEF Shapes

\* What the answer to a renewal makes of the cookies.
LEMMA CookiesAre ==
  ASSUME jar \in Jar, NEW r \in Renewal, r.stage = "done", r.result # ""
  PROVE  /\ Cookies(r) \in Jar /\ Cookies(r).csrf = jar.csrf
         /\ r.result = "renewed" => Cookies(r).session = r.session /\ Cookies(r).refresh = r.refresh
         /\ r.result = "expired" => Cookies(r).refresh = None
         /\ r.result = "later" => Cookies(r).refresh = jar.refresh
<1>1. CASE r.result = "renewed"
  BY <1>1 DEF Cookies, Jar, Renewal
<1>2. CASE r.result = "expired"
  BY <1>2 DEF Cookies, Jar, Renewal
<1>3. CASE r.result = "later"
  BY <1>3 DEF Cookies, Jar, Renewal
<1> QED  BY <1>1, <1>2, <1>3 DEF Renewal

LEMMA SettleDoes ==
  ASSUME Shapes, NEW c \in Calls, renewals[c].result # "", Settle(c)
  PROVE  /\ jar' = Cookies(renewals[c]) /\ jar' \in Jar /\ jar'.csrf = jar.csrf
         /\ calls' \in [Calls -> CallType]
         /\ \A d \in Calls :
              IF calls[d].pc # "renew" \/ calls[d].on # c THEN calls'[d] = calls[d]
              ELSE IF renewals[c].result = "renewed"
              THEN Left(calls'[d], calls[d], calls[d].what, jar', calls[d].header, TRUE)
              ELSE /\ calls'[d].pc = "unauthorized" /\ calls'[d].kind = calls[d].kind
                   /\ calls[d].rekeyed => calls'[d].rekeyed
<1> DEFINE r == renewals[c]
           sent(d) == Sent(calls[d], calls[d].what, Cookies(r), calls[d].header, TRUE)
           over(d) == Over(calls[d], "unauthorized")
<1>1. r \in Renewal /\ r.stage = "done" /\ jar \in Jar /\ calls \in [Calls -> CallType]
  BY DEF Settle, Shapes
<1>2. jar' = Cookies(r) /\ Cookies(r) \in Jar /\ Cookies(r).csrf = jar.csrf
  BY <1>1, CookiesAre DEF Settle
<1>3. ASSUME NEW d \in Calls
      PROVE  Left(sent(d), calls[d], calls[d].what, Cookies(r), calls[d].header, TRUE)
  <2>1. /\ calls[d] \in CallType /\ calls[d].what \in {"main", "csrf"}
        /\ calls[d].header \in Token \cup {None}
    BY <1>1 DEF CallType
  <2> HIDE DEF r
  <2> QED  BY <1>2, <2>1, SentIs, Zenon
<1>4. ASSUME NEW d \in Calls
      PROVE  /\ over(d) \in CallType /\ over(d).pc = "unauthorized"
             /\ over(d).kind = calls[d].kind
             /\ calls[d].rekeyed => over(d).rekeyed
  <2>1. calls[d] \in CallType /\ "unauthorized" \in Ends
    BY <1>1 DEF Ends
  <2> QED  BY <2>1, OverIs
<1>5. calls' = [d \in Calls |->
        IF calls[d].pc # "renew" \/ calls[d].on # c THEN calls[d]
        ELSE IF r.result = "renewed" THEN sent(d) ELSE over(d)]
  BY Zenon DEF Settle
<1> HIDE DEF r, sent, over
<1>6. \A d \in Calls : sent(d) \in CallType /\ over(d) \in CallType
  BY <1>3, <1>4 DEF Left
<1>7. calls' \in [Calls -> CallType]
  BY <1>1, <1>5, <1>6
<1>8. ASSUME NEW d \in Calls
      PROVE  IF calls[d].pc # "renew" \/ calls[d].on # c THEN calls'[d] = calls[d]
             ELSE IF r.result = "renewed"
             THEN Left(calls'[d], calls[d], calls[d].what, jar', calls[d].header, TRUE)
             ELSE /\ calls'[d].pc = "unauthorized" /\ calls'[d].kind = calls[d].kind
                  /\ calls[d].rekeyed => calls'[d].rekeyed
  <2>1. CASE calls[d].pc # "renew" \/ calls[d].on # c
    BY <1>5, <2>1
  <2>2. CASE ~ (calls[d].pc # "renew" \/ calls[d].on # c) /\ r.result = "renewed"
    <3>1. calls'[d] = sent(d)
      BY <1>5, <2>2
    <3> QED  BY <1>2, <1>3, <2>2, <3>1
  <2>3. CASE ~ (calls[d].pc # "renew" \/ calls[d].on # c) /\ r.result # "renewed"
    BY <1>4, <1>5, <2>3
  <2> QED  BY <2>1, <2>2, <2>3
<1> QED  BY <1>2, <1>7, <1>8 DEF r

-----------------------------------------------------------------------------
(* Types.                                                                  *)

LEMMA NewRenewal ==
  ASSUME jar \in Jar
  PROVE  /\ NoRenewal \in Renewal /\ NoRenewal.stage = "none"
         /\ [NoRenewal EXCEPT !.stage = "sent", !.carried = jar.refresh] \in Renewal
BY DEF Jar, NoRenewal, Renewal

\* What comes of a renewal that arrives.
LEMMA ResultDoes ==
  ASSUME Shapes, NEW c \in Calls, NEW result \in {"expired", "later"}, Result(c, result)
  PROVE  /\ renewals' \in [Calls -> Renewal]
         /\ renewals'[c].stage = "done" /\ renewals'[c].result = result
         /\ renewals'[c].carried = renewals[c].carried
         /\ \A d \in Calls : d # c => renewals'[d] = renewals[d]
<1> DEFINE r == [renewals[c] EXCEPT !.stage = "done", !.result = result]
<1>1. r \in Renewal /\ r.stage = "done" /\ r.result = result /\ r.carried = renewals[c].carried
  <2>1. renewals[c] \in Renewal
    BY DEF Shapes
  <2> QED  BY <2>1 DEF Renewal
<1>2. renewals' = [renewals EXCEPT ![c] = r]
  BY Zenon DEF Result
<1> HIDE DEF r
<1> QED  BY <1>1, <1>2 DEF Shapes

LEMMA RedeemDoes ==
  ASSUME Shapes, NEW c \in Calls, Redeem(c)
  PROVE  /\ grant' \in Nat /\ issued' \in Nat /\ valid' \subseteq 1..issued'
         /\ valid \subseteq valid'
         /\ renewals' \in [Calls -> Renewal]
         /\ renewals'[c].stage = "done" /\ renewals'[c].result = "renewed"
         /\ renewals'[c].carried = grant
         /\ renewals'[c].session \in valid' /\ renewals'[c].refresh = grant'
         /\ \A d \in Calls : d # c => renewals'[d] = renewals[d]
<1> DEFINE r == [renewals[c] EXCEPT !.stage = "done", !.result = "renewed",
                                    !.session = issued + 1, !.refresh = grant']
<1>1. grant' \in Nat /\ issued' = issued + 1 /\ valid' = valid \cup {issued + 1}
  BY DEF Redeem, Spend, Shapes
<1>2. /\ r \in Renewal /\ r.stage = "done" /\ r.result = "renewed"
      /\ r.carried = renewals[c].carried /\ r.session = issued + 1 /\ r.refresh = grant'
  <2>1. renewals[c] \in Renewal /\ grant' \in Nat /\ issued + 1 \in Nat
    BY <1>1 DEF Shapes
  <2> QED  BY <2>1 DEF Renewal
<1>3. renewals' = [renewals EXCEPT ![c] = r] /\ renewals[c].carried = grant
  BY Zenon DEF Redeem
<1> HIDE DEF r
<1> QED  BY <1>1, <1>2, <1>3 DEF Shapes

LEMMA InitHolds == Init => SInv
<1> SUFFICES ASSUME Init PROVE SInv
  OBVIOUS
<1>1. 1 \in Nat /\ 1 # None
  BY NoneIsNothing
<1>2. /\ jar \in Jar /\ jar.refresh = 1 /\ cached \in [Tabs -> Token \cup {None}]
  BY <1>1 DEF Init, Jar, Token
<1>3. Shapes
  <2>1. NoRenewal \in Renewal
    BY <1>2, NewRenewal
  <2>2. /\ renewals \in [Calls -> Renewal] /\ calls \in [Calls -> CallType]
        /\ applied \in [Calls -> Nat] /\ current \in [Tabs -> Calls \cup {None}]
    BY <2>1, NoCallType DEF Init
  <2>3. /\ issued \in Nat /\ valid \subseteq 1..issued /\ grant \in Nat /\ rotates \in BOOLEAN
        /\ mishaps = {}
    BY DEF Init
  <2> QED  BY <1>2, <2>2, <2>3 DEF Shapes
<1>4. /\ \A c \in Calls : calls[c].pc = "idle" /\ ~ InAir(c) /\ ~ Renewed(c) /\ applied[c] = 0
      /\ \A t \in Tabs : current[t] = None
  BY <1>2, NoCallType, NewRenewal DEF Init, InAir, Renewed
<1>5. FlightInv /\ LogoutInv
  BY <1>4 DEF Init, FlightInv, LogoutInv, InAir
<1>6. \A c \in Calls : CountInv(c) /\ KeyInv(c)
  BY <1>4 DEF CountInv, KeyInv, Active
<1>7. GrantInv /\ ValidInv
  BY <1>1, <1>2, <1>4 DEF Init, GrantInv, ValidInv, InAir, Renewed
<1> QED  BY <1>3, <1>5, <1>6, <1>7 DEF SInv

-----------------------------------------------------------------------------
(* What a step leaves alone.                                               *)

LEMMA FlightKept ==
  ASSUME Shapes, FlightInv, current' = current,
         \A d \in Calls : renewals'[d].stage # "none" <=> InAir(d),
         \A d \in Calls : renewals'[d] # renewals[d] => renewals'[d].result # "",
         \A d \in Calls : calls'[d].pc = "renew" <=> calls[d].pc = "renew",
         \A d \in Calls : calls[d].pc = "renew" => calls'[d].on = calls[d].on
  PROVE  FlightInv'
<1>1. \A d \in Calls : InAir(d)' <=> InAir(d)
  BY DEF InAir
<1>2. \A t \in Tabs : current[t] # None => Tab(current[t]) = t /\ InAir(current[t]) /\ InAir(current[t])'
  <2>1. \A t \in Tabs : current[t] # None => current[t] \in Calls
    BY DEF Shapes
  <2> QED  BY <1>1, <2>1 DEF FlightInv
<1> QED  BY <1>1, <1>2 DEF FlightInv

LEMMA CallKept ==
  ASSUME NEW d \in Calls, CountInv(d), KeyInv(d),
         calls'[d] = calls[d], applied'[d] = applied[d], jar'.csrf = jar.csrf
  PROVE  CountInv(d)' /\ KeyInv(d)'
BY DEF CountInv, KeyInv, Active

LEMMA GrantKept ==
  ASSUME GrantInv, mishaps \subseteq mishaps', jar'.refresh = jar.refresh,
         grant' = grant, renewals' = renewals
  PROVE  GrantInv'
BY DEF GrantInv, Sound, InAir, Renewed

LEMMA LogoutKept ==
  ASSUME LogoutInv, jar'.refresh = jar.refresh, renewals' = renewals,
         "logout" \in mishaps' /\ "revived" \notin mishaps' =>
           "logout" \in mishaps /\ "revived" \notin mishaps
  PROVE  LogoutInv'
BY DEF LogoutInv, InAir, Renewed

LEMMA ValidKept ==
  ASSUME ValidInv, mishaps \subseteq mishaps', valid' = valid, renewals' = renewals,
         \A d \in Calls :
           /\ calls'[d].pc = "out" /\ calls'[d].again =>
                calls[d].pc = "out" /\ calls[d].again /\ calls'[d].session = calls[d].session
           /\ mishaps = {} /\ calls'[d].pc = "unauthorized" => calls[d].pc = "unauthorized"
  PROVE  ValidInv'
BY DEF ValidInv

\* One call goes on or ends, and no renewal is concerned.
LEMMA CallStep ==
  ASSUME SInv, NEW c \in Calls,
         UNCHANGED <<provider, renewals, current, mishaps, jar>>,
         cached' \in [Tabs -> Token \cup {None}],
         calls' \in [Calls -> CallType], \A d \in Calls : d # c => calls'[d] = calls[d],
         calls[c].pc # "renew", calls'[c].pc # "renew",
         ~ (calls'[c].pc = "out" /\ calls'[c].again),
         mishaps = {} => calls'[c].pc # "unauthorized",
         applied' \in [Calls -> Nat], \A d \in Calls : d # c => applied'[d] = applied[d],
         CountInv(c)', KeyInv(c)'
  PROVE  SInv'
<1>1. Shapes'
  BY DEF SInv, Shapes, provider
<1>2. FlightInv'
  BY FlightKept DEF SInv, InAir
<1>3. \A d \in Calls : CountInv(d)' /\ KeyInv(d)'
  BY CallKept DEF SInv
<1>4. GrantInv' /\ LogoutInv'
  BY GrantKept, LogoutKept DEF SInv, provider
<1>5. ValidInv'
  BY ValidKept DEF SInv, provider
<1> QED  BY <1>1, <1>2, <1>3, <1>4, <1>5 DEF SInv

-----------------------------------------------------------------------------
(* Every step keeps the invariant.                                         *)

LEMMA BeginKeeps ==
  ASSUME SInv, NEW c \in Calls, NEW kind \in Kinds, Begin(c, kind)
  PROVE  SInv'
<1>1. /\ UNCHANGED <<provider, renewals, current, mishaps, jar>> /\ cached' = cached
      /\ applied' = applied
  BY DEF Begin, history
<1>2. /\ calls' \in [Calls -> CallType]
      /\ calls[c].pc = "idle" /\ calls'[c].pc = "out"
      /\ ~ calls'[c].refreshed /\ ~ calls'[c].again
      /\ \A d \in Calls : d # c => calls'[d] = calls[d]
  BY BeginDoes DEF SInv
<1>3. CountInv(c)' /\ KeyInv(c)'
  BY <1>1, <1>2 DEF SInv, CountInv, KeyInv
<1>4. cached' \in [Tabs -> Token \cup {None}] /\ applied' \in [Calls -> Nat]
  BY <1>1 DEF SInv, Shapes
<1> QED  BY <1>1, <1>2, <1>3, <1>4, CallStep

LEMMA CsrfKeeps ==
  ASSUME SInv, NEW c \in Calls, CsrfAnswered(c)
  PROVE  SInv'
<1>1. UNCHANGED <<provider, renewals, current, mishaps, applied>>
  BY DEF CsrfAnswered, history
<1>2. /\ calls' \in [Calls -> CallType] /\ jar' \in Jar
      /\ jar'.refresh = jar.refresh
      /\ cached' \in [Tabs -> Token \cup {None}]
      /\ calls[c].pc = "out" /\ calls'[c].pc = "out" /\ calls'[c].kind = calls[c].kind
      /\ ~ calls'[c].again
      /\ calls'[c].header # None /\ calls'[c].header = jar'.csrf /\ calls'[c].matches
  BY CsrfDoes DEF SInv
<1>3. \A d \in Calls : d # c =>
        /\ calls'[d].pc = calls[d].pc /\ calls'[d].kind = calls[d].kind
        /\ calls'[d].on = calls[d].on /\ calls'[d].session = calls[d].session
        /\ calls'[d].again => calls[d].again
        /\ calls[d].rekeyed => calls'[d].rekeyed
        /\ Active(d) => calls'[d].rekeyed
  BY CsrfDoes DEF SInv
<1>4. Shapes'
  BY <1>1, <1>2 DEF SInv, Shapes, provider
<1>5. FlightInv'
  BY <1>1, <1>2, <1>3, FlightKept DEF SInv, InAir
<1>6. ASSUME NEW d \in Calls PROVE CountInv(d)' /\ KeyInv(d)'
  <2>1. CASE d = c
    BY <1>1, <1>2, <2>1 DEF SInv, CountInv, KeyInv, Active
  <2>2. CASE d # c
    BY <1>1, <1>3, <2>2 DEF SInv, CountInv, KeyInv, Active
  <2> QED  BY <2>1, <2>2
<1>7. GrantInv' /\ LogoutInv'
  BY <1>1, <1>2, GrantKept, LogoutKept DEF SInv, provider
<1>8. ValidInv'
  BY <1>1, <1>2, <1>3, ValidKept DEF SInv, provider
<1> QED  BY <1>4, <1>5, <1>6, <1>7, <1>8 DEF SInv

LEMMA ForbiddenKeeps ==
  ASSUME SInv, NEW c \in Calls, Forbidden(c)
  PROVE  SInv'
<1>1. UNCHANGED <<provider, renewals, current, mishaps, jar, applied>>
  BY DEF Forbidden, Ended, history
<1>2. /\ calls' \in [Calls -> CallType] /\ cached' \in [Tabs -> Token \cup {None}]
      /\ calls[c].pc = "out" /\ calls'[c].kind = calls[c].kind
      /\ calls[c].rekeyed => calls'[c].rekeyed
      /\ \A d \in Calls : d # c => calls'[d] = calls[d]
      /\ \/ calls'[c].pc = "forbidden" /\ calls[c].refreshed
         \/ calls'[c].pc = "out" /\ calls'[c].what = "csrf" /\ ~ calls'[c].again
  BY ForbiddenDoes DEF SInv
<1>3. calls[c].what = "main" /\ calls[c].kind # "read" /\ ~ calls[c].matches
  BY DEF Forbidden, Forged
<1>4. CountInv(c)' /\ KeyInv(c)'
  BY <1>1, <1>2, <1>3 DEF SInv, CountInv, KeyInv, Active
<1>5. applied' \in [Calls -> Nat]
  BY <1>1 DEF SInv, Shapes
<1> QED  BY <1>1, <1>2, <1>4, <1>5, CallStep

\* A call ends without an answer, or with a refusal.
LEMMA EndsKeeps ==
  ASSUME SInv, NEW c \in Calls, NEW how \in {"unauthorized", "server", "network"},
         calls[c].pc = "out", Ended(c, how),
         UNCHANGED <<provider, renewals, current, mishaps, jar, cached>>,
         \/ applied' = applied
         \/ how = "network" /\ applied' = [applied EXCEPT ![c] = @ + 1],
         mishaps = {} => how # "unauthorized"
  PROVE  SInv'
<1>1. /\ calls' \in [Calls -> CallType]
      /\ calls'[c].pc = how /\ calls'[c].kind = calls[c].kind
      /\ calls[c].rekeyed => calls'[c].rekeyed
      /\ \A d \in Calls : d # c => calls'[d] = calls[d]
  BY EndedDoes DEF SInv, Shapes, Ends
<1>2. applied \in [Calls -> Nat] /\ applied[c] = 0
  BY DEF SInv, Shapes, CountInv
<1>3. /\ applied' \in [Calls -> Nat] /\ \A d \in Calls : d # c => applied'[d] = applied[d]
      /\ applied'[c] <= 1 /\ (how # "network" => applied'[c] = 0)
  BY <1>2
<1>4. CountInv(c)' /\ KeyInv(c)'
  BY <1>1, <1>3 DEF CountInv, KeyInv, Active
<1>5. cached' \in [Tabs -> Token \cup {None}]
  BY DEF SInv, Shapes
<1> QED  BY <1>1, <1>3, <1>4, <1>5, CallStep

LEMMA ThrottledKeeps ==
  ASSUME SInv, NEW c \in Calls, Throttled(c)
  PROVE  SInv'
BY EndsKeeps DEF Throttled, Awaited, history

LEMMA LostKeeps ==
  ASSUME SInv, NEW c \in Calls, Lost(c)
  PROVE  SInv'
BY EndsKeeps DEF Lost, Awaited

LEMMA AnsweredKeeps ==
  ASSUME SInv, NEW c \in Calls, Answered(c)
  PROVE  SInv'
<1>1. /\ UNCHANGED <<provider, cached, renewals, current>> /\ calls[c].pc = "out"
      /\ Ended(c, "ok") /\ applied' = [applied EXCEPT ![c] = @ + 1] /\ "ok" \in Ends
  BY DEF Answered, Awaited, Ends
<1>2. /\ calls' \in [Calls -> CallType]
      /\ calls'[c].pc = "ok" /\ calls'[c].kind = calls[c].kind
      /\ calls[c].rekeyed => calls'[c].rekeyed
      /\ \A d \in Calls : d # c => calls'[d] = calls[d]
  BY <1>1, EndedDoes DEF SInv, Shapes
<1>3. applied \in [Calls -> Nat] /\ applied[c] = 0
  BY <1>1 DEF SInv, Shapes, CountInv
<1>4. /\ applied' \in [Calls -> Nat] /\ \A d \in Calls : d # c => applied'[d] = applied[d]
      /\ applied'[c] = 1
  BY <1>1, <1>3
<1>5. CountInv(c)' /\ KeyInv(c)'
  BY <1>1, <1>2, <1>4 DEF SInv, CountInv, KeyInv, Active
<1>6. cached' \in [Tabs -> Token \cup {None}]
  BY <1>1 DEF SInv, Shapes
<1>7. CASE calls[c].kind # "logout"
  <2>1. UNCHANGED <<jar, mishaps>>
    BY <1>7 DEF Answered
  <2> QED  BY <1>1, <1>2, <1>4, <1>5, <1>6, <2>1, CallStep
<1>8. CASE calls[c].kind = "logout"
  <2>1. /\ jar' = [jar EXCEPT !.session = None, !.refresh = None]
        /\ mishaps' = mishaps \cup {"logout"} \cup
             (IF \E d \in Calls : renewals[d].stage # "none" THEN {"revived"} ELSE {})
    BY <1>8 DEF Answered
  <2>2. jar' \in Jar /\ jar'.refresh = None /\ jar'.csrf = jar.csrf
    BY <2>1 DEF SInv, Shapes, Jar
  <2>3. Shapes'
    BY <1>1, <1>2, <1>4, <1>6, <2>1, <2>2 DEF SInv, Shapes, provider
  <2>4. FlightInv'
    BY <1>1, <1>2, FlightKept DEF SInv, InAir
  <2>5. \A d \in Calls : CountInv(d)' /\ KeyInv(d)'
    BY <1>2, <1>4, <1>5, <2>2, CallKept DEF SInv
  <2>6. GrantInv' /\ ValidInv'
    BY <2>1 DEF GrantInv, ValidInv, Sound
  <2>7. LogoutInv'
    BY <1>1, <2>1, <2>2 DEF SInv, LogoutInv, InAir, Renewed
  <2> QED  BY <2>3, <2>4, <2>5, <2>6, <2>7 DEF SInv
<1> QED  BY <1>7, <1>8

\* A call joins the renewal in the air, or starts one.
LEMMA UnauthorizedKeeps ==
  ASSUME SInv, NEW c \in Calls, Unauthorized(c)
  PROVE  SInv'
<1> DEFINE t == Tab(c)
<1>1. /\ UNCHANGED <<provider, jar, cached, applied>>
      /\ calls[c].pc = "out" /\ calls[c].session \notin valid
  BY DEF Unauthorized, Awaited, Unauthenticated
<1>2. t \in Tabs /\ Shapes /\ calls \in [Calls -> CallType] /\ ~ InAir(c)
  BY <1>1 DEF SInv, Shapes, FlightInv, Tab, Calls
<1>3. ASSUME NEW x \in Calls, calls' = [calls EXCEPT ![c].pc = "renew", ![c].on = x],
             mishaps \subseteq mishaps',
             mishaps' \subseteq mishaps \cup {"crossed"}
      PROVE  /\ calls' \in [Calls -> CallType]
             /\ calls'[c].pc = "renew" /\ calls'[c].on = x
             /\ \A d \in Calls : d # c => calls'[d] = calls[d]
             /\ \A d \in Calls : CountInv(d)' /\ KeyInv(d)'
  <2>1. /\ calls' \in [Calls -> CallType]
        /\ calls'[c].pc = "renew" /\ calls'[c].on = x
        /\ calls'[c].kind = calls[c].kind /\ calls'[c].what = calls[c].what
        /\ calls'[c].header = calls[c].header
        /\ calls'[c].refreshed => calls[c].refreshed
        /\ calls[c].rekeyed => calls'[c].rekeyed
        /\ \A d \in Calls : d # c => calls'[d] = calls[d]
    BY <1>2, <1>3, WaitsDoes
  <2>2. CountInv(c)' /\ KeyInv(c)'
    BY <1>1, <2>1 DEF SInv, CountInv, KeyInv, Active
  <2> QED  BY <1>1, <2>1, <2>2, CallKept DEF SInv
<1>4. CASE calls[c].again
  <2>1. Ended(c, "unauthorized") /\ UNCHANGED <<renewals, current, mishaps>>
    BY <1>4 DEF Unauthorized
  <2>2. mishaps # {}
    BY <1>1, <1>4 DEF SInv, ValidInv
  <2> QED  BY <1>1, <2>1, <2>2, EndsKeeps
<1>5. CASE ~ calls[c].again /\ current[t] # None
  <2>1. /\ calls' = [calls EXCEPT ![c].pc = "renew", ![c].on = current[t]]
        /\ UNCHANGED <<renewals, current, mishaps>> /\ current[t] \in Calls
    BY <1>2, <1>5 DEF Unauthorized, Join, Shapes
  <2>2. /\ calls' \in [Calls -> CallType]
        /\ calls'[c].pc = "renew" /\ calls'[c].on = current[t]
        /\ \A d \in Calls : d # c => calls'[d] = calls[d]
        /\ \A d \in Calls : CountInv(d)' /\ KeyInv(d)'
    BY <1>3, <2>1
  <2>3. Shapes'
    BY <1>1, <2>1, <2>2 DEF SInv, Shapes, provider
  <2>4. FlightInv'
    <3>1. \A u \in Tabs : current[u] # None => Tab(current[u]) = u /\ InAir(current[u])
      BY DEF SInv, FlightInv
    <3> QED  BY <1>5, <2>1, <2>2, <3>1 DEF SInv, FlightInv, InAir
  <2>5. GrantInv' /\ LogoutInv' /\ ValidInv'
    BY <1>1, <2>1, <2>2, GrantKept, LogoutKept, ValidKept DEF SInv, provider
  <2> QED  BY <2>2, <2>3, <2>4, <2>5 DEF SInv
<1>6. CASE ~ calls[c].again /\ current[t] = None
  <2> DEFINE r == [NoRenewal EXCEPT !.stage = "sent", !.carried = jar.refresh]
  <2>1. /\ calls' = [calls EXCEPT ![c].pc = "renew", ![c].on = c]
        /\ renewals' = [renewals EXCEPT ![c] = r]
        /\ current' = [current EXCEPT ![t] = c]
        /\ mishaps' = mishaps \cup
             (IF \E d \in Calls : renewals[d].stage # "none" THEN {"crossed"} ELSE {})
    BY <1>6, Zenon DEF Unauthorized, Join
  <2>2. /\ r \in Renewal /\ r.stage = "sent" /\ r.carried = jar.refresh
    <3>1. jar \in Jar
      BY <1>2 DEF Shapes
    <3> QED  BY <3>1, NewRenewal DEF NoRenewal
  <2> HIDE DEF r
  <2>3. /\ calls' \in [Calls -> CallType]
        /\ calls'[c].pc = "renew" /\ calls'[c].on = c
        /\ \A d \in Calls : d # c => calls'[d] = calls[d]
        /\ \A d \in Calls : CountInv(d)' /\ KeyInv(d)'
    BY <1>3, <2>1
  <2>4. /\ renewals' \in [Calls -> Renewal] /\ renewals'[c] = r
        /\ \A d \in Calls : d # c => renewals'[d] = renewals[d]
        /\ current' \in [Tabs -> Calls \cup {None}] /\ current'[t] = c
        /\ \A u \in Tabs : u # t => current'[u] = current[u]
    BY <1>2, <2>1, <2>2 DEF Shapes
  <2>5. Shapes'
    BY <1>1, <2>1, <2>2, <2>3, <2>4 DEF SInv, Shapes, provider
  <2>6. FlightInv'
    <3>1. \A d \in Calls : Tab(d) \in Tabs
      BY DEF Tab, Calls
    <3>2. \A d \in Calls : InAir(d) => Tab(d) # t
      BY <1>6, NoneIsNothing DEF SInv, FlightInv
    <3>3. \A d \in Calls : calls[d].pc = "renew" => Tab(d) # t
      BY <1>6 DEF SInv, FlightInv
    <3>4. \A u \in Tabs : u # t /\ current[u] # None => current[u] # c /\ current[u] \in Calls
      <4>1. \A u \in Tabs : current[u] # None => current[u] \in Calls /\ Tab(current[u]) = u
        <5>1. \A u \in Tabs : current[u] # None => current[u] \in Calls
          BY <1>2 DEF Shapes
        <5> QED  BY <5>1 DEF SInv, FlightInv
      <4> QED  BY <4>1
    <3>5. \A d \in Calls : InAir(d)' => current'[Tab(d)] = d /\ calls'[d].pc = "renew"
      BY <1>2, <2>3, <2>4, <3>1, <3>2 DEF SInv, FlightInv, InAir
    <3>6. \A d \in Calls : calls'[d].pc = "renew" =>
            current'[Tab(d)] # None /\ calls'[d].on = current'[Tab(d)]
      BY <1>2, <2>3, <2>4, <3>1, <3>3, NoneIsNothing DEF SInv, FlightInv
    <3>7. \A u \in Tabs : current'[u] # None =>
            Tab(current'[u]) = u /\ renewals'[current'[u]].stage # "none"
      <4>1. \A u \in Tabs : u # t /\ current[u] # None =>
              Tab(current[u]) = u /\ renewals[current[u]].stage # "none"
        BY DEF SInv, FlightInv, InAir
      <4> QED  BY <2>2, <2>4, <3>4, <4>1
    <3>8. \A d \in Calls : renewals'[d].stage = "done" => renewals'[d].result # ""
      BY <2>2, <2>4 DEF SInv, FlightInv
    <3> QED  BY <3>5, <3>6, <3>7, <3>8 DEF FlightInv, InAir
  <2>7. GrantInv'
    <3> SUFFICES ASSUME Sound' PROVE GrantInv'
      BY DEF GrantInv
    <3>1. Sound /\ \A d \in Calls : ~ InAir(d)
      BY <2>1 DEF Sound, InAir
    <3>2. jar.refresh = grant /\ jar.refresh # None
      BY <3>1 DEF SInv, GrantInv, InAir, Renewed
    <3> QED  BY <1>1, <2>2, <2>4, <3>1, <3>2 DEF GrantInv, InAir, Renewed, provider
  <2>8. LogoutInv'
    BY <1>1, <2>1, <2>2, <2>4 DEF SInv, LogoutInv, InAir, Renewed
  <2>9. ValidInv'
    BY <1>1, <2>1, <2>2, <2>3, <2>4 DEF SInv, ValidInv, provider
  <2> QED  BY <2>3, <2>5, <2>6, <2>7, <2>8, <2>9 DEF SInv
<1> QED  BY <1>4, <1>5, <1>6

LEMMA UnloadKeeps ==
  ASSUME SInv, NEW t \in Tabs, Unload(t)
  PROVE  SInv'
<1>1. /\ UNCHANGED <<provider, jar, applied>>
      /\ mishaps' = IF current[t] # None THEN mishaps \cup {"abandoned"} ELSE mishaps
      /\ current' = [current EXCEPT ![t] = None]
      /\ renewals' = [d \in Calls |-> IF Tab(d) = t THEN NoRenewal ELSE renewals[d]]
  BY DEF Unload
<1>2. /\ calls' \in [Calls -> CallType] /\ cached' \in [Tabs -> Token \cup {None}]
      /\ \A d \in Calls : calls'[d] = calls[d] \/ calls'[d].pc = "gone"
      /\ \A d \in Calls : Tab(d) # t => calls'[d] = calls[d]
      /\ \A d \in Calls : Tab(d) = t => calls'[d].pc \in {"idle", "gone"}
  BY UnloadDoes DEF SInv
<1>3. /\ renewals' \in [Calls -> Renewal] /\ current' \in [Tabs -> Calls \cup {None}]
      /\ current'[t] = None /\ \A u \in Tabs : u # t => current'[u] = current[u]
      /\ \A d \in Calls : IF Tab(d) = t THEN renewals'[d].stage = "none"
                         ELSE renewals'[d] = renewals[d]
  BY <1>1, NewRenewal DEF SInv, Shapes
<1>4. Shapes'
  BY <1>1, <1>2, <1>3 DEF SInv, Shapes, provider
<1>5. FlightInv'
  <2>1. \A d \in Calls : Tab(d) \in Tabs
    BY DEF Tab, Calls
  <2>2. \A u \in Tabs : current[u] # None => current[u] \in Calls
    BY DEF SInv, Shapes
  <2>3. \A d \in Calls : InAir(d)' => current'[Tab(d)] = d /\ calls'[d].pc = "renew"
    BY <1>2, <1>3, <2>1 DEF SInv, FlightInv, InAir
  <2>4. \A d \in Calls : calls'[d].pc = "renew" =>
          current'[Tab(d)] # None /\ calls'[d].on = current'[Tab(d)]
    <3> SUFFICES ASSUME NEW d \in Calls, calls'[d].pc = "renew"
                 PROVE  current'[Tab(d)] # None /\ calls'[d].on = current'[Tab(d)]
      OBVIOUS
    <3>1. Tab(d) # t
      BY <1>2
    <3>2. calls'[d] = calls[d] /\ current'[Tab(d)] = current[Tab(d)]
      BY <1>2, <1>3, <2>1, <3>1
    <3> QED  BY <3>2 DEF SInv, FlightInv
  <2>5. \A u \in Tabs : current'[u] # None =>
          Tab(current'[u]) = u /\ renewals'[current'[u]].stage # "none"
    <3>1. \A u \in Tabs : current[u] # None =>
            Tab(current[u]) = u /\ renewals[current[u]].stage # "none"
      BY DEF SInv, FlightInv, InAir
    <3> QED  BY <1>3, <2>2, <3>1
  <2>6. \A d \in Calls : renewals'[d].stage = "done" => renewals'[d].result # ""
    BY <1>3 DEF SInv, FlightInv
  <2> QED  BY <2>3, <2>4, <2>5, <2>6 DEF FlightInv, InAir
<1>6. ASSUME NEW d \in Calls PROVE CountInv(d)' /\ KeyInv(d)'
  <2>1. CASE calls'[d] = calls[d]
    BY <1>1, <2>1, CallKept DEF SInv
  <2>2. CASE calls'[d].pc = "gone"
    BY <1>1, <2>2 DEF SInv, CountInv, KeyInv, Active
  <2> QED  BY <1>2, <2>1, <2>2
<1>7. GrantInv'
  <2> SUFFICES ASSUME Sound' PROVE GrantInv'
    BY DEF GrantInv
  <2>1. Sound /\ current[t] = None
    BY <1>1 DEF Sound
  <2>2. \A d \in Calls : InAir(d) => Tab(d) # t
    BY <2>1, NoneIsNothing DEF SInv, FlightInv
  <2>3. \A d \in Calls : InAir(d)' => InAir(d) /\ renewals'[d] = renewals[d]
    BY <1>3 DEF InAir
  <2>4. \A d \in Calls : Renewed(d) => Renewed(d)'
    BY <1>3, <2>2 DEF InAir, Renewed
  <2>5. \A d \in Calls : renewals'[d].stage \in {"sent", "done"} => InAir(d)'
    BY DEF InAir
  <2> QED  BY <1>1, <2>1, <2>3, <2>4, <2>5 DEF SInv, GrantInv, Renewed, provider
<1>8. LogoutInv'
  BY <1>1, <1>3 DEF SInv, LogoutInv, InAir, Renewed
<1>9. ValidInv'
  BY <1>1, <1>2, <1>3 DEF SInv, ValidInv, provider
<1> QED  BY <1>4, <1>5, <1>6, <1>7, <1>8, <1>9 DEF SInv

LEMMA LapseKeeps ==
  ASSUME SInv, NEW s \in valid, Lapse(s)
  PROVE  SInv'
<1>1. /\ UNCHANGED <<issued, grant, rotates, browser, applied>>
      /\ valid' = valid \ {s}
      /\ mishaps' = IF \E c \in Calls : calls[c].pc = "renew" \/ (Awaited(c) /\ calls[c].again)
                    THEN mishaps \cup {"hasty"} ELSE mishaps
  BY DEF Lapse
<1>2. Shapes'
  BY <1>1 DEF SInv, Shapes, browser
<1>3. FlightInv'
  BY <1>1, FlightKept DEF SInv, browser, InAir
<1>4. \A d \in Calls : CountInv(d)' /\ KeyInv(d)'
  BY <1>1, CallKept DEF SInv, browser
<1>5. GrantInv' /\ LogoutInv'
  BY <1>1, GrantKept, LogoutKept DEF SInv, browser
<1>6. ValidInv'
  <2> SUFFICES ASSUME mishaps' = {} PROVE ValidInv'
    BY DEF ValidInv
  <2>1. /\ mishaps = {}
        /\ \A c \in Calls : calls[c].pc # "renew" /\ ~ (calls[c].pc = "out" /\ calls[c].again)
    BY <1>1 DEF Awaited
  <2>2. \A c \in Calls : ~ InAir(c)
    BY <2>1 DEF SInv, FlightInv
  <2> QED  BY <1>1, <2>1, <2>2 DEF SInv, ValidInv, InAir, browser
<1> QED  BY <1>2, <1>3, <1>4, <1>5, <1>6 DEF SInv

LEMMA RedeemKeeps ==
  ASSUME SInv, NEW c \in Calls, Redeem(c)
  PROVE  SInv'
<1>1. /\ UNCHANGED <<rotates, jar, cached, calls, current, applied, mishaps>>
      /\ renewals[c].stage = "sent" /\ renewals[c].carried = grant
  BY DEF Redeem, Arriving, history
<1>2. /\ grant' \in Nat /\ issued' \in Nat /\ valid' \subseteq 1..issued'
      /\ valid \subseteq valid'
      /\ renewals' \in [Calls -> Renewal]
      /\ renewals'[c].stage = "done" /\ renewals'[c].result = "renewed"
      /\ renewals'[c].carried = grant
      /\ renewals'[c].session \in valid' /\ renewals'[c].refresh = grant'
      /\ \A d \in Calls : d # c => renewals'[d] = renewals[d]
  BY RedeemDoes DEF SInv
<1>3. Shapes'
  BY <1>1, <1>2 DEF SInv, Shapes
<1>4. FlightInv'
  BY <1>1, <1>2, FlightKept DEF SInv, InAir
<1>5. \A d \in Calls : CountInv(d)' /\ KeyInv(d)'
  BY <1>1, CallKept DEF SInv
<1>6. GrantInv'
  <2> SUFFICES ASSUME Sound PROVE GrantInv'
    BY <1>1 DEF GrantInv, Sound
  <2>1. InAir(c)
    BY <1>1 DEF InAir
  <2>2. \A d \in Calls : d # c => ~ InAir(d)
    BY <2>1 DEF SInv, GrantInv
  <2>3. \A d \in Calls : d # c => renewals'[d].stage = "none"
    BY <1>2, <2>2 DEF InAir
  <2> QED  BY <1>1, <1>2, <2>3 DEF SInv, GrantInv, InAir, Renewed
<1>7. LogoutInv'
  <2>1. grant # None
    BY NoneIsNothing DEF SInv, Shapes
  <2> QED  BY <1>1, <2>1 DEF SInv, LogoutInv, InAir
<1>8. ValidInv'
  BY <1>1, <1>2 DEF SInv, ValidInv
<1> QED  BY <1>3, <1>4, <1>5, <1>6, <1>7, <1>8 DEF SInv

\* A renewal comes to nothing: it was rejected, or something failed.
LEMMA FailsKeeps ==
  ASSUME SInv, NEW c \in Calls, renewals[c].stage = "sent",
         NEW result \in {"expired", "later"}, Result(c, result),
         UNCHANGED <<issued, valid, rotates, jar, cached, calls, current, applied>>,
         grant' \in Nat,
         mishaps \subseteq mishaps', mishaps' \subseteq mishaps \cup {"provider", "unreachable"},
         Sound' => grant' = grant /\ result = "later" /\ mishaps' # {}
  PROVE  SInv'
<1>1. /\ renewals' \in [Calls -> Renewal]
      /\ renewals'[c].stage = "done" /\ renewals'[c].result = result
      /\ renewals'[c].carried = renewals[c].carried
      /\ \A d \in Calls : d # c => renewals'[d] = renewals[d]
  BY ResultDoes DEF SInv
<1>2. Shapes'
  BY <1>1 DEF SInv, Shapes
<1>3. FlightInv'
  BY <1>1, FlightKept DEF SInv, InAir
<1>4. \A d \in Calls : CountInv(d)' /\ KeyInv(d)'
  BY CallKept DEF SInv
<1>5. GrantInv'
  <2> SUFFICES ASSUME Sound' PROVE GrantInv'
    BY DEF GrantInv
  <2>1. Sound /\ InAir(c) /\ grant' = grant /\ result = "later"
    BY DEF Sound, InAir
  <2>2. \A d \in Calls : d # c => ~ InAir(d)
    BY <2>1 DEF SInv, GrantInv
  <2>3. \A d \in Calls : ~ Renewed(d)
    BY <2>2 DEF Renewed, InAir
  <2>4. \A d \in Calls : d # c => renewals'[d].stage = "none"
    BY <1>1, <2>2 DEF InAir
  <2> QED  BY <1>1, <2>1, <2>3, <2>4 DEF SInv, GrantInv, InAir, Renewed
<1>6. LogoutInv'
  BY <1>1 DEF SInv, LogoutInv, InAir, Renewed
<1>7. ValidInv'
  BY DEF ValidInv, Sound
<1> QED  BY <1>2, <1>3, <1>4, <1>5, <1>6, <1>7 DEF SInv

LEMMA RejectKeeps ==
  ASSUME SInv, NEW c \in Calls, Reject(c)
  PROVE  SInv'
<1>1. /\ UNCHANGED <<issued, valid, rotates, grant, jar, cached, calls, current, applied, mishaps>>
      /\ renewals[c].stage = "sent" /\ Result(c, "expired") /\ renewals[c].carried # grant
  BY DEF Reject, Arriving, provider, history
<1>2. ~ Sound' /\ grant' \in Nat
  BY <1>1 DEF SInv, GrantInv, Sound, Shapes
<1> QED  BY <1>1, <1>2, FailsKeeps

LEMMA RenewalFailsKeeps ==
  ASSUME SInv, NEW c \in Calls, NEW over \in BOOLEAN, NEW spent \in BOOLEAN,
         RenewalFails(c, over, spent)
  PROVE  SInv'
<1>1. /\ UNCHANGED <<issued, valid, rotates, jar, cached, calls, current, applied>>
      /\ renewals[c].stage = "sent" /\ Result(c, IF over THEN "expired" ELSE "later")
      /\ mishaps' = mishaps \cup {IF over \/ spent THEN "provider" ELSE "unreachable"}
  BY DEF RenewalFails, Arriving
<1>2. grant' \in Nat /\ (~ spent => grant' = grant)
  <2>1. grant \in Nat
    BY DEF SInv, Shapes
  <2>2. IF spent THEN Spend ELSE grant' = grant
    BY DEF RenewalFails
  <2> QED  BY <2>1, <2>2 DEF Spend
<1>3. Sound' => ~ over /\ ~ spent
  BY <1>1 DEF Sound
<1>4. CASE over
  BY <1>1, <1>2, <1>3, <1>4, FailsKeeps
<1>5. CASE ~ over
  BY <1>1, <1>2, <1>3, <1>5, FailsKeeps
<1> QED  BY <1>4, <1>5

LEMMA SettlingKeeps ==
  ASSUME SInv, NEW c \in Calls, Settle(c)
  PROVE  SInv'
<1> DEFINE r == renewals[c]
<1>1. /\ UNCHANGED <<provider, cached, applied, mishaps>> /\ r.stage = "done"
      /\ renewals' = [renewals EXCEPT ![c] = NoRenewal]
      /\ current' = [t \in Tabs |-> IF current[t] = c THEN None ELSE current[t]]
  BY DEF Settle, history
<1>2. r \in Renewal /\ r.result # "" /\ jar \in Jar /\ InAir(c)
  <2>1. r \in Renewal /\ jar \in Jar
    BY DEF SInv, Shapes
  <2>2. r.result # ""
    BY <1>1 DEF SInv, FlightInv
  <2> QED  BY <1>1, <2>1, <2>2 DEF InAir
<1>3. /\ jar' = Cookies(r) /\ jar' \in Jar /\ jar'.csrf = jar.csrf
      /\ calls' \in [Calls -> CallType]
  BY <1>2, SettleDoes DEF SInv
<1>4. /\ r.result = "renewed" => jar'.session = r.session /\ jar'.refresh = r.refresh
      /\ r.result = "expired" => jar'.refresh = None
      /\ r.result = "later" => jar'.refresh = jar.refresh
      /\ r.result \in {"renewed", "expired", "later"}
  BY <1>1, <1>2, <1>3, CookiesAre DEF Renewal
<1>5. \A d \in Calls :
        IF calls[d].pc # "renew" \/ calls[d].on # c THEN calls'[d] = calls[d]
        ELSE IF r.result = "renewed"
        THEN Left(calls'[d], calls[d], calls[d].what, jar', calls[d].header, TRUE)
        ELSE /\ calls'[d].pc = "unauthorized" /\ calls'[d].kind = calls[d].kind
             /\ calls[d].rekeyed => calls'[d].rekeyed
  BY <1>2, SettleDoes DEF SInv
<1>6. /\ renewals' \in [Calls -> Renewal] /\ renewals'[c].stage = "none"
      /\ \A d \in Calls : d # c => renewals'[d] = renewals[d]
      /\ current' \in [Tabs -> Calls \cup {None}]
      /\ \A u \in Tabs : current'[u] = IF current[u] = c THEN None ELSE current[u]
  BY <1>1, <1>2, NewRenewal DEF SInv, Shapes
<1>7. Shapes'
  BY <1>1, <1>3, <1>6 DEF SInv, Shapes, provider
<1> HIDE DEF r
<1>8. \A d \in Calls : calls'[d].pc = "renew" => calls'[d] = calls[d] /\ calls[d].on # c
  BY <1>5 DEF Left
<1>9. FlightInv'
  <2>1. \A d \in Calls : Tab(d) \in Tabs
    BY DEF Tab, Calls
  <2>2. \A u \in Tabs : current[u] # None => current[u] \in Calls
    BY DEF SInv, Shapes
  <2>3. \A d \in Calls : InAir(d)' => d # c /\ InAir(d)
    BY <1>6 DEF InAir
  <2>4. ASSUME NEW d \in Calls, InAir(d)'
        PROVE  current'[Tab(d)] = d /\ calls'[d].pc = "renew"
    <3>1. current[Tab(d)] = d /\ calls[d].pc = "renew" /\ calls[d].on = d /\ d # c
      BY <2>3, <2>4 DEF SInv, FlightInv
    <3> QED  BY <1>5, <1>6, <2>1, <3>1
  <2>5. ASSUME NEW d \in Calls, calls'[d].pc = "renew"
        PROVE  current'[Tab(d)] # None /\ calls'[d].on = current'[Tab(d)]
    BY <1>6, <1>8, <2>1, <2>5 DEF SInv, FlightInv
  <2>6. \A u \in Tabs : current'[u] # None =>
          Tab(current'[u]) = u /\ renewals'[current'[u]].stage # "none"
    <3>1. \A u \in Tabs : current[u] # None =>
            Tab(current[u]) = u /\ renewals[current[u]].stage # "none"
      BY DEF SInv, FlightInv, InAir
    <3>2. \A u \in Tabs : current'[u] # None => current'[u] = current[u] /\ current[u] # c
      BY <1>6
    <3> QED  BY <1>6, <2>2, <3>1, <3>2
  <2>7. \A d \in Calls : renewals'[d].stage = "done" => renewals'[d].result # ""
    BY <1>6 DEF SInv, FlightInv
  <2> QED  BY <2>4, <2>5, <2>6, <2>7 DEF FlightInv, InAir
<1>10. ASSUME NEW d \in Calls PROVE CountInv(d)' /\ KeyInv(d)'
  <2>1. CASE calls[d].pc # "renew" \/ calls[d].on # c
    BY <1>1, <1>3, <1>5, <2>1, CallKept DEF SInv
  <2>2. CASE calls[d].pc = "renew" /\ r.result = "renewed" /\ calls[d].on = c
    <3>1. Left(calls'[d], calls[d], calls[d].what, jar', calls[d].header, TRUE)
      BY <1>5, <2>2
    <3> QED  BY <1>1, <1>3, <2>2, <3>1 DEF SInv, Left, CountInv, KeyInv, Active
  <2>3. CASE calls[d].pc = "renew" /\ r.result # "renewed" /\ calls[d].on = c
    <3>1. /\ calls'[d].pc = "unauthorized" /\ calls'[d].kind = calls[d].kind
          /\ calls[d].rekeyed => calls'[d].rekeyed
      BY <1>5, <2>3
    <3> QED  BY <1>1, <2>3, <3>1 DEF SInv, CountInv, KeyInv, Active
  <2> QED  BY <2>1, <2>2, <2>3
<1>11. GrantInv'
  <2> SUFFICES ASSUME Sound PROVE GrantInv'
    BY <1>1 DEF GrantInv, Sound
  <2>1. \A d \in Calls : d # c => ~ InAir(d)
    BY <1>2 DEF SInv, GrantInv
  <2>2. \A d \in Calls : renewals'[d].stage = "none"
    BY <1>6, <2>1 DEF InAir
  <2>3. r.result = "renewed" => r.refresh = grant
    BY <1>1 DEF SInv, GrantInv, Renewed, r
  <2>4. r.result = "later" => jar.refresh = grant
    BY <2>1 DEF SInv, GrantInv, Renewed, InAir, r
  <2>5. r.result # "expired" /\ grant # None
    BY <1>1, NoneIsNothing DEF SInv, GrantInv, Shapes, r
  <2> QED  BY <1>1, <1>4, <2>2, <2>3, <2>4, <2>5 DEF GrantInv, InAir, Renewed, provider
<1>12. LogoutInv'
  <2> SUFFICES ASSUME "logout" \in mishaps /\ "revived" \notin mishaps PROVE LogoutInv'
    BY <1>1 DEF LogoutInv
  <2>1. jar.refresh = None /\ r.result # "renewed"
    BY <1>1, <1>2 DEF SInv, LogoutInv, Renewed, r
  <2>2. jar'.refresh = None
    BY <1>4, <2>1
  <2> QED  BY <1>6, <2>2 DEF SInv, LogoutInv, InAir, Renewed
<1>13. ValidInv'
  <2> SUFFICES ASSUME mishaps = {} PROVE ValidInv'
    BY <1>1 DEF ValidInv
  <2>1. r.result = "renewed" /\ r.session \in valid
    BY <1>1 DEF SInv, ValidInv, r
  <2>2. \A d \in Calls : calls'[d] = calls[d] \/ (calls'[d].pc = "out" /\ calls'[d].session = r.session)
    BY <1>4, <1>5, <2>1 DEF Left
  <2> QED  BY <1>1, <1>6, <2>1, <2>2 DEF SInv, ValidInv, provider
<1> QED  BY <1>7, <1>9, <1>10, <1>11, <1>12, <1>13 DEF SInv

-----------------------------------------------------------------------------

\* The invariant holds of every behaviour of the API client (ui/src/api.rs, auth.rs)
\* in any number of tabs, and of the agent and provider it talks to.
THEOREM SessionInductive == Spec => []SInv
<1>1. ASSUME SInv, [Next]_vars
      PROVE  SInv'
  <2>1. CASE UNCHANGED vars
    <3>1. UNCHANGED <<provider, jar, cached, calls, renewals, current, applied, mishaps>>
      BY <2>1 DEF vars, browser, history
    <3>2. Shapes' /\ FlightInv' /\ \A d \in Calls : CountInv(d)' /\ KeyInv(d)'
      BY <1>1, <3>1, FlightKept, CallKept DEF SInv, Shapes, provider, InAir
    <3>3. GrantInv' /\ LogoutInv' /\ ValidInv'
      BY <1>1, <3>1, GrantKept, LogoutKept, ValidKept DEF SInv, provider
    <3> QED  BY <3>2, <3>3 DEF SInv
  <2>2. ASSUME NEW c \in Calls, Progress(c)
        PROVE  SInv'
    BY <1>1, <2>2, CsrfKeeps, AnsweredKeeps, ForbiddenKeeps, UnauthorizedKeeps, RedeemKeeps,
         RejectKeeps, SettlingKeeps DEF Progress
  <2>3. ASSUME NEW c \in Calls, Leave(c)
        PROVE  SInv'
    <3>1. Tab(c) \in Tabs
      BY DEF Tab, Calls
    <3> QED  BY <1>1, <2>3, <3>1, UnloadKeeps DEF Leave
  <2>4. ASSUME NEW t \in Tabs, Reload(t)
        PROVE  SInv'
    BY <1>1, <2>4, UnloadKeeps DEF Reload
  <2> QED  BY <1>1, <2>1, <2>2, <2>3, <2>4, BeginKeeps, ThrottledKeeps, LostKeeps,
                RenewalFailsKeeps, LapseKeeps DEF Next
<1> QED  BY InitHolds, <1>1, PTL DEF Spec

\* A session survives the lapse of its ID token under any number of calls and tabs
\* (send_with_session, auth_refresh), unless one of the mishaps happened that
\* SurvivesLapse names.
THEOREM SessionsSurvive == Spec => []SurvivesLapse
<1>1. SInv => SurvivesLapse
  BY DEF SInv, GrantInv, Sound, ValidInv, SurvivesLapse
<1> QED  BY SessionInductive, <1>1, PTL

\* What a caller is told of a mutation is true, and none is carried out twice
\* (mutate, csrf_ok), whatever is retried in whichever tab.
THEOREM OutcomesAreTrue == Spec => []OutcomeTrue
<1>1. SInv => OutcomeTrue
  BY DEF SInv, CountInv, KeyInv, OutcomeTrue
<1> QED  BY SessionInductive, <1>1, PTL

\* After a logout with no renewal in the air no session comes back (auth_logout).
THEOREM LogoutsStick == Spec => []LogoutSticks
<1>1. SInv => LogoutSticks
  BY DEF SInv, LogoutInv, LogoutSticks
<1> QED  BY SessionInductive, <1>1, PTL

\* The types, and that a call that waits for a renewal has one in the air.
THEOREM SessionTypes == Spec => []TypeOK
<1>1. SInv => TypeOK
  <2> SUFFICES ASSUME SInv PROVE TypeOK
    OBVIOUS
  <2>1. ASSUME NEW c \in Calls, calls[c].pc = "renew"
        PROVE  renewals[calls[c].on].stage # "none"
    <3>1. Tab(c) \in Tabs
      BY DEF Tab, Calls
    <3>2. current[Tab(c)] # None /\ calls[c].on = current[Tab(c)]
      BY <2>1 DEF SInv, FlightInv
    <3> QED  BY <3>1, <3>2 DEF SInv, FlightInv, InAir
  <2> QED  BY <2>1 DEF SInv, Shapes, Jar, TypeOK
<1> QED  BY SessionInductive, <1>1, PTL
=============================================================================
