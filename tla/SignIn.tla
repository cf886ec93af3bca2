------------------------------- MODULE SignIn -------------------------------
(***************************************************************************)
(* Signing in (web/api/auth.rs, web/helpers/oidc.rs, ui/src/auth.rs): the  *)
(* tabs of one browser go to the identity provider and come back, sharing  *)
(* one cookie for the sign-in under way; the agent checks every ID token   *)
(* against the provider's signing keys, of which it keeps a copy while the *)
(* provider rotates them.  Session models what happens to a session then.  *)
(*                                                                         *)
(* Discovery is fetched or cached; it does not change, so it can only fail.*)
(***************************************************************************)
EXTENDS Integers, Sequences, FiniteSets

CONSTANTS
  Tabs,       \* pages of the dashboard, each with a path of its own
  CacheTTL,   \* CACHE_TTL
  StateTTL,   \* OAUTH_STATE_SECONDS
  MaxTime, MaxKeys, MaxSignIns, MaxFaults,   \* bounds of the model
  None        \* no cookie, no token, the root of the dashboard

Keys == 1..MaxKeys
SignIns == 1..MaxSignIns

\* OAuthState: which sign-in is under way, where it began, how long it may take.
Cookie == [id : SignIns, page : Tabs \cup {None}, until : Nat]

ASSUME SignInAssumption ==
  /\ {CacheTTL, StateTTL, MaxTime, MaxSignIns, MaxFaults} \subseteq Nat
  /\ MaxKeys \in Nat \ {0}
  /\ None \notin Nat \cup Tabs \cup Cookie

VARIABLES
  now,
  newest,     \* the key the provider signs with, the last it published
  gone,       \* when it withdrew each key, or None
  spent,      \* codes the provider has redeemed
  cached,     \* the agent's copy of the keys (OidcCache::jwks), or None
  jar,        \* the browser's cookies: the sign-in under way, the session
  tabs,       \* what each tab is at
  begun,      \* sign-ins begun, by the pages they were begun from; each has a
              \* state, a verifier and a code of its own
  faults,
  ended,      \* history: how each sign-in ended, and where it led
  excused,    \* history: sign-ins something befell
  slow        \* history: keys withdrawn while a set of keys was in the air

provider == <<newest, gone, spent>>
history == <<ended, excused, slow>>
vars == <<now, provider, cached, jar, tabs, begun, faults, history>>

Published == {k \in 1..newest : gone[k] = None}

\* A tab: its place, its sign-in, the cookie its callback carried, the token
\* being validated, and the keys that are on their way to the agent.
Tab(pc, page) ==
  [pc |-> pc, page |-> page, id |-> None, carried |-> None, token |-> None,
   step |-> "none", got |-> {}]
Steps == {"none", "keys", "fetch", "refetch"}

Init ==
  /\ now = 0
  /\ newest = 1 /\ gone = [k \in Keys |-> None] /\ spent = {}
  /\ cached = None
  /\ jar = [oauth |-> None, session |-> None]
  /\ tabs = [t \in Tabs |-> Tab("login", t)]
  /\ begun = << >> /\ faults = 0
  /\ ended = [i \in SignIns |-> None] /\ excused = {} /\ slow = {}

Fault == faults < MaxFaults /\ faults' = faults + 1
OrFault(ok) == IF ok THEN UNCHANGED faults ELSE Fault

\* The cookie of the sign-in under way, unless it has outlived its age.
StateCookie == IF jar.oauth # None /\ now < jar.oauth.until THEN jar.oauth ELSE None
\* The other sign-in whose cookie is there, too old or not.
Others(id) == IF jar.oauth = None \/ jar.oauth.id = id THEN {} ELSE {jar.oauth.id}

-----------------------------------------------------------------------------
(* The provider.                                                           *)

Tick == now < MaxTime /\ now' = now + 1
        /\ UNCHANGED <<provider, cached, jar, tabs, begun, faults, history>>

\* A new key is published and signs from then on.
Rotate ==
  /\ newest < MaxKeys
  /\ newest' = newest + 1
  /\ UNCHANGED <<now, gone, spent, cached, jar, tabs, begun, faults, history>>

\* An older one is withdrawn.
Withdraw(k) ==
  /\ k \in Published \ {newest}
  /\ gone' = [gone EXCEPT ![k] = now]
  /\ slow' = IF \E t \in Tabs : tabs[t].got # {} THEN slow \cup {k} ELSE slow
  /\ excused' = excused \cup
       {tabs[t].id : t \in {u \in Tabs : tabs[u].pc = "checking" /\ tabs[u].token = k}}
  /\ UNCHANGED <<now, newest, spent, cached, jar, tabs, begun, faults, ended>>

-----------------------------------------------------------------------------
(* The browser.                                                            *)

\* A page loads and asks who is signed in, with the session cookie there is.
Loading(page, session) ==
  IF session = None THEN Tab("login", page)
  ELSE [Tab("loading", page) EXCEPT !.token = session, !.step = "keys"]

NewCookie(t) ==
  [id |-> Len(begun) + 1, page |-> tabs[t].page, until |-> now + StateTTL]

\* Mutant: a sign-in under way is resumed.
BeginSignInKeeps(t) ==
  /\ tabs[t].pc = "login" /\ Len(begun) < MaxSignIns
  /\ begun' = Append(begun, tabs[t].page)
  /\ jar' = IF StateCookie # None THEN jar
            ELSE [jar EXCEPT !.oauth = NewCookie(t)]
  /\ tabs' = [tabs EXCEPT ![t] = [Tab("provider", tabs[t].page) EXCEPT !.id = Len(begun')]]
  /\ excused' = excused \cup Others(Len(begun'))
  /\ UNCHANGED <<now, provider, cached, faults, ended, slow>>

\* GET /auth/login: the cookie is this sign-in's from now on, and the tab goes
\* to the provider.
BeginSignIn(t) ==
  /\ tabs[t].pc = "login" /\ Len(begun) < MaxSignIns
  /\ begun' = Append(begun, tabs[t].page)
  /\ jar' = [jar EXCEPT !.oauth = NewCookie(t)]
  /\ tabs' = [tabs EXCEPT ![t] = [Tab("provider", tabs[t].page) EXCEPT !.id = Len(begun')]]
  /\ excused' = excused \cup Others(Len(begun'))
  /\ UNCHANGED <<now, provider, cached, faults, ended, slow>>

\* The user comes back without an answer, or loads a page.
GoBack(t) ==
  /\ tabs[t].pc = "provider"
  /\ tabs' = [tabs EXCEPT ![t] = Tab("login", tabs[t].page)]
  /\ UNCHANGED <<now, provider, cached, jar, begun, faults, history>>

Load(t) ==
  /\ tabs[t].pc \in {"login", "in"} /\ jar.session # None
  /\ tabs' = [tabs EXCEPT ![t] = Loading(tabs[t].page, jar.session)]
  /\ UNCHANGED <<now, provider, cached, jar, begun, faults, history>>

-----------------------------------------------------------------------------
(* GET /auth/callback (auth_callback).                                     *)

\* Whatever comes of it, the cookie is removed, and the tab is sent on.
Ends(t, how, page, session) ==
  /\ jar' = [oauth |-> None, session |-> session]
  /\ tabs' = [tabs EXCEPT ![t] = Loading(page, session)]
  /\ ended' = [ended EXCEPT ![tabs[t].id] = [how |-> how, page |-> page]]

Fails(t, how) == Ends(t, how, None, jar.session)

\* The user refused, or the provider did.
Denied(t) ==
  /\ tabs[t].pc = "provider"
  /\ Fails(t, "denied")
  /\ excused' = excused \cup {tabs[t].id} \cup Others(tabs[t].id)
  /\ UNCHANGED <<now, provider, cached, begun, faults, slow>>

Late(id) == jar.oauth # None /\ jar.oauth.id = id /\ StateCookie = None

\* The provider sent the tab back with a code.  The state has to be the cookie's.
CheckState(t) ==
  LET id == tabs[t].id cookie == StateCookie IN
    IF cookie = None THEN Fails(t, "expired")
    ELSE IF cookie.id # id THEN Fails(t, "invalid")
    ELSE /\ tabs' = [tabs EXCEPT ![t] =
              [Tab("callback", tabs[t].page) EXCEPT !.id = id, !.carried = cookie]]
         /\ UNCHANGED <<jar, ended>>

Callback(t) ==
  LET id == tabs[t].id IN
  /\ tabs[t].pc = "provider"
  /\ CheckState(t)
  /\ excused' = excused \cup Others(id) \cup (IF Late(id) THEN {id} ELSE {})
  /\ UNCHANGED <<now, provider, cached, begun, faults, slow>>

\* The user reloads while it lasts: the code is sent a second time.
Again(t) ==
  /\ tabs[t].pc \in {"callback", "checking"}
  /\ Fault
  /\ CheckState(t)
  /\ excused' = excused \cup {tabs[t].id} \cup Others(tabs[t].id)
  /\ UNCHANGED <<now, provider, cached, begun, slow>>

\* The provider redeems a code once, for the verifier its sign-in was begun with.
ExchangeCode(t) ==
  LET id == tabs[t].id IN
  /\ tabs[t].pc = "callback"
  /\ id \notin spent /\ tabs[t].carried.id = id
  /\ spent' = spent \cup {id}
  /\ tabs' = [tabs EXCEPT ![t].pc = "checking", ![t].token = newest, ![t].step = "keys"]
  /\ UNCHANGED <<now, newest, gone, cached, jar, begun, faults, history>>

\* It refuses, or it cannot be reached for discovery or for the code, before or
\* after it redeemed that.
ExchangeFails(t) ==
  LET id == tabs[t].id
      refused == id \in spent \/ tabs[t].carried.id # id
  IN
  /\ tabs[t].pc = "callback"
  /\ OrFault(refused)
  /\ \/ UNCHANGED spent
     \/ ~ refused /\ spent' = spent \cup {id}
  /\ Fails(t, "exchange")
  /\ excused' = excused \cup Others(id) \cup (IF refused THEN {} ELSE {id})
  /\ UNCHANGED <<now, newest, gone, cached, begun, slow>>

-----------------------------------------------------------------------------
(* Validating a token (validate_token): of a callback, or of a request.    *)

Accept(t) ==
  IF tabs[t].pc = "checking"
  THEN /\ Ends(t, "in", tabs[t].carried.page, tabs[t].token)
       /\ excused' = excused \cup Others(tabs[t].id)
  ELSE /\ tabs' = [tabs EXCEPT ![t] = Tab("in", tabs[t].page)]
       /\ UNCHANGED <<jar, ended, excused>>

\* Of a request that is refused Session tells more; here the page asks to sign in.
Reject(t, faulty) ==
  IF tabs[t].pc = "checking"
  THEN /\ Fails(t, "token")
       /\ excused' = excused \cup Others(tabs[t].id) \cup (IF faulty THEN {tabs[t].id} ELSE {})
  ELSE /\ tabs' = [tabs EXCEPT ![t] = Tab("login", tabs[t].page)]
       /\ UNCHANGED <<jar, ended, excused>>

Fetches(t, step) ==
  /\ tabs' = [tabs EXCEPT ![t].step = step, ![t].got = {}]
  /\ UNCHANGED <<jar, ended, excused>>

Fresh == cached # None /\ now - cached.at < CacheTTL

\* Mutant: a key that is not in the copy is refused at once.
LookUpOnce(t) ==
  /\ tabs[t].step = "keys"
  /\ IF ~ Fresh THEN Fetches(t, "fetch")
     ELSE IF tabs[t].token \in cached.keys THEN Accept(t)
     ELSE Reject(t, FALSE)
  /\ UNCHANGED <<now, provider, cached, begun, faults, slow>>

\* The copy is looked into if it is fresh; a key it lacks is asked for.
LookUp(t) ==
  /\ tabs[t].step = "keys"
  /\ IF ~ Fresh THEN Fetches(t, "fetch")
     ELSE IF tabs[t].token \in cached.keys THEN Accept(t)
     ELSE Fetches(t, "refetch")
  /\ UNCHANGED <<now, provider, cached, begun, faults, slow>>

\* The provider answers with the keys of the moment ...
ServeKeys(t) ==
  /\ tabs[t].step \in {"fetch", "refetch"} /\ tabs[t].got = {}
  /\ tabs' = [tabs EXCEPT ![t].got = Published]
  /\ UNCHANGED <<now, provider, cached, jar, begun, faults, history>>

\* ... and the answer replaces the copy, whatever came in between.
ReceiveKeys(t) ==
  /\ tabs[t].got # {}
  /\ cached' = [at |-> now, keys |-> tabs[t].got]
  /\ IF tabs[t].token \in tabs[t].got THEN Accept(t)
     ELSE IF tabs[t].step = "fetch" THEN Fetches(t, "refetch")
     ELSE Reject(t, FALSE)
  /\ UNCHANGED <<now, provider, begun, faults, slow>>

\* The provider does not answer: the token is refused.
KeysFail(t) ==
  /\ tabs[t].step # "none"
  /\ Fault
  /\ Reject(t, TRUE)
  /\ UNCHANGED <<now, provider, cached, begun, slow>>

-----------------------------------------------------------------------------

Next ==
  \/ Tick
  \/ Rotate
  \/ \E k \in Keys : Withdraw(k)
  \/ \E t \in Tabs :
       \/ BeginSignIn(t) \/ GoBack(t) \/ Load(t)
       \/ Denied(t) \/ Callback(t) \/ Again(t)
       \/ ExchangeCode(t) \/ ExchangeFails(t)
       \/ LookUp(t) \/ ServeKeys(t) \/ ReceiveKeys(t) \/ KeysFail(t)

Spec == Init /\ [][Next]_vars

-----------------------------------------------------------------------------
(* Properties.                                                             *)

TypeOK ==
  /\ now \in 0..MaxTime /\ newest \in Keys /\ gone \in [Keys -> 0..MaxTime \cup {None}]
  /\ begun \in Seq(Tabs \cup {None}) /\ spent \subseteq DOMAIN begun /\ slow \subseteq Keys
  /\ jar.session \in Keys \cup {None}
  /\ \A t \in Tabs :
       /\ tabs[t].pc \in {"login", "provider", "callback", "checking", "loading", "in"}
       /\ tabs[t].step \in Steps /\ tabs[t].page \in Tabs \cup {None}
       /\ (tabs[t].step # "none") = (tabs[t].pc \in {"checking", "loading"})

\* A sign-in ends where it began (ui/src/auth.rs:129, "preserving the current
\* location"), and it ends well unless something befell it: it was refused, it
\* took longer than its cookie lives, the provider failed it or withdrew its
\* key, the callback was loaded twice, or another sign-in of the browser, which
\* has the one cookie they share, began or ended meanwhile.
SignInLands ==
  \A i \in SignIns : ended[i] # None =>
    /\ ended[i].how = "in" \/ i \in excused
    /\ ended[i].how = "in" => ended[i].page = begun[i]

Outcome(t, request, callback) ==
  \/ tabs[t].pc = "loading" /\ tabs'[t].pc = request
  \/ /\ tabs[t].pc = "checking" /\ ended'[tabs[t].id] # ended[tabs[t].id]
     /\ ended'[tabs[t].id].how = callback

\* Tokens are trusted as the provider says.  A key it publishes serves at once,
\* whatever copies and answers to others are about (oidc.rs:305-306, "may have
\* rotated keys; refetch once"): a token is refused for its key only when that is
\* withdrawn.  A withdrawn key serves for an hour at most (oidc.rs:7, "cached for
\* an hour"), unless its withdrawal overtook a set of keys on the way.
KeysFollowProvider ==
  [][\A t \in Tabs :
       /\ Outcome(t, "login", "token") /\ UNCHANGED faults => tabs[t].token \notin Published
       /\ Outcome(t, "in", "in") =>
            \/ tabs[t].token \in Published \cup slow
            \/ now - gone[tabs[t].token] < CacheTTL]_vars
=============================================================================
