---------------------------- MODULE SignInProofs ----------------------------
(***************************************************************************)
(* What SignIn.tla checks on small instances, proved for any number of     *)
(* tabs, sign-ins, keys and failures, and any lifetimes.                   *)
(***************************************************************************)
EXTENDS SignIn, TLAPS

USE SignInAssumption

-----------------------------------------------------------------------------
(* The inductive invariant.                                                *)

TabType ==
  [pc : {"login", "provider", "callback", "checking", "loading", "in"},
   page : Tabs \cup {None}, id : SignIns \cup {None}, carried : Cookie \cup {None},
   token : Keys \cup {None}, step : Steps, got : SUBSET Keys]

\* The clock, the provider's keys and the records of what there is.
Shapes ==
  /\ now \in Nat /\ newest \in Keys
  /\ gone \in [Keys -> Nat \cup {None}]
  /\ \A k \in Keys : gone[k] # None => gone[k] \in Nat /\ gone[k] <= now /\ k < newest
  /\ tabs \in [Tabs -> TabType]
  /\ begun \in Seq(Tabs \cup {None}) /\ Len(begun) <= MaxSignIns
  /\ spent \subseteq 1..Len(begun)
  /\ jar \in [oauth : Cookie \cup {None}, session : Keys \cup {None}]
  /\ jar.session # None => jar.session <= newest
  /\ DOMAIN ended = SignIns /\ faults \in Nat
  /\ \A i \in SignIns : ended[i] # None => i <= Len(begun)
  /\ cached # None => cached \in [at : Nat, keys : SUBSET Keys]

\* What a tab's place says of its sign-in.
AtPlace(q) ==
  /\ q.id # None <=> q.pc \in {"provider", "callback", "checking"}
  /\ q.id # None => q.id <= Len(begun)
  /\ q.step # "none" <=> q.pc \in {"checking", "loading"}
  /\ q.step # "none" => q.token # None /\ q.token <= newest
  /\ q.got # {} => q.step \in {"fetch", "refetch"}

\* The cookie names a sign-in and where that was begun ...
CookieInv ==
  jar.oauth # None => jar.oauth.id <= Len(begun) /\ jar.oauth.page = begun[jar.oauth.id]

\* ... and so does the copy of it that a callback has, which is of its own.
CarriedOwn(q) ==
  q.pc \in {"callback", "checking"} =>
    q.carried # None /\ q.carried.id = q.id /\ q.carried.page = begun[q.id]

\* While a sign-in is not excused the cookie is its own, its code is unspent, and
\* then its key is published.
OnItsWay(q) ==
  q.id # None /\ q.id \notin excused =>
    /\ q.pc = "provider" => jar.oauth # None /\ jar.oauth.id = q.id
    /\ q.pc \in {"provider", "callback"} => q.id \notin spent
    /\ q.pc = "checking" => gone[q.token] = None

\* A set of keys on its way holds no key that is not published, unless that is
\* slow, and the token it was asked for is signed with one it holds, unless that
\* was withdrawn.
InTheAir(q) ==
  q.got # {} =>
    /\ \A k \in q.got : k <= newest /\ (gone[k] = None \/ k \in slow)
    /\ q.token \notin q.got => gone[q.token] # None

\* A key of the agent's copy was published when the copy was made, or is slow.
CopyInv ==
  cached # None =>
    /\ cached.at <= now
    /\ \A k \in cached.keys : k <= newest /\ (gone[k] = None \/ k \in slow \/ cached.at <= gone[k])

\* A sign-in is in one tab.
OneTabEach == \A t, u \in Tabs : t # u /\ tabs[t].id # None => tabs[t].id # tabs[u].id

TabsInv ==
  \A t \in Tabs :
    /\ AtPlace(tabs[t]) /\ CarriedOwn(tabs[t]) /\ OnItsWay(tabs[t]) /\ InTheAir(tabs[t])

SInv == Shapes /\ CookieInv /\ CopyInv /\ OneTabEach /\ TabsInv /\ SignInLands

-----------------------------------------------------------------------------

LEMMA NoneIsApart ==
  /\ None \notin Nat /\ None \notin Keys /\ None \notin SignIns
  /\ None \notin Tabs /\ None \notin Cookie
  /\ Keys \subseteq Nat /\ SignIns \subseteq Nat /\ 1 \in Keys
BY DEF Keys, SignIns

\* A tab that begins nothing and waits for nothing.
LEMMA PlainTab ==
  ASSUME NEW pc \in {"login", "in"}, NEW page \in Tabs \cup {None}
  PROVE  /\ Tab(pc, page) \in TabType /\ AtPlace(Tab(pc, page))
         /\ Tab(pc, page).id = None /\ Tab(pc, page).got = {} /\ Tab(pc, page).pc = pc
BY NoneIsApart DEF Tab, TabType, AtPlace, Steps

\* A page that loads has no sign-in, and asks with the session there is.
LEMMA LoadingTab ==
  ASSUME NEW page \in Tabs \cup {None}, NEW session \in Keys \cup {None},
         session # None => session <= newest
  PROVE  /\ Loading(page, session) \in TabType /\ AtPlace(Loading(page, session))
         /\ Loading(page, session).id = None /\ Loading(page, session).got = {}
         /\ Loading(page, session).pc \in {"login", "loading"}
BY NoneIsApart DEF Loading, Tab, TabType, AtPlace, Steps

\* A tab that moves on by itself, the cookie staying what it is, keeps the
\* invariant if it is in order where it gets to.
LEMMA Moves ==
  ASSUME SInv, CopyInv', NEW t \in Tabs, NEW q \in TabType,
         UNCHANGED <<now, newest, gone, jar, begun, ended, slow>>,
         cached' # None => cached' \in [at : Nat, keys : SUBSET Keys],
         faults' \in Nat,
         excused \subseteq excused',
         spent \subseteq spent', spent' \subseteq spent \cup ({tabs[t].id} \ {None}),
         tabs' = [tabs EXCEPT ![t] = q],
         q.id = None \/ q.id = tabs[t].id,
         AtPlace(q), CarriedOwn(q), InTheAir(q),
         q.id # None /\ q.id \notin excused' =>
           /\ q.pc = "provider" => jar.oauth # None /\ jar.oauth.id = q.id
           /\ q.pc \in {"provider", "callback"} => q.id \notin spent'
           /\ q.pc = "checking" => gone[q.token] = None
  PROVE  SInv'
<1>1. /\ tabs' \in [Tabs -> TabType] /\ tabs'[t] = q
      /\ \A u \in Tabs \ {t} : tabs'[u] = tabs[u]
  BY DEF SInv, Shapes
<1>2. Shapes'
  <2>1. tabs[t].id # None => tabs[t].id \in 1..Len(begun)
    BY NoneIsApart DEF SInv, Shapes, TabsInv, AtPlace, TabType, SignIns
  <2> QED  BY <1>1, <2>1 DEF SInv, Shapes
<1>3. CookieInv' /\ SignInLands'
  BY DEF SInv, CookieInv, SignInLands
<1>4. OneTabEach'
  BY <1>1 DEF SInv, OneTabEach
<1>5. TabsInv'
  <2> SUFFICES ASSUME NEW u \in Tabs
               PROVE  /\ AtPlace(tabs[u])' /\ CarriedOwn(tabs[u])' /\ OnItsWay(tabs[u])'
                      /\ InTheAir(tabs[u])'
    BY DEF TabsInv
  <2>1. CASE u = t
    BY <1>1, <2>1 DEF AtPlace, CarriedOwn, OnItsWay, InTheAir
  <2>2. CASE u # t
    <3>1. tabs[u].id # None => tabs[u].id # tabs[t].id
      BY <2>2 DEF SInv, OneTabEach
    <3>2. AtPlace(tabs[u]) /\ CarriedOwn(tabs[u]) /\ OnItsWay(tabs[u]) /\ InTheAir(tabs[u])
      BY DEF SInv, TabsInv
    <3> QED  BY <1>1, <2>2, <3>1, <3>2 DEF AtPlace, CarriedOwn, OnItsWay, InTheAir
  <2> QED  BY <2>1, <2>2
<1> QED  BY <1>2, <1>3, <1>4, <1>5 DEF SInv

\* The end of a sign-in keeps the invariant, if it ends well where it began or is
\* excused, and the one whose cookie goes is excused.
LEMMA EndsKeep ==
  ASSUME SInv, CopyInv', NEW t \in Tabs, NEW how, NEW page \in Tabs \cup {None},
         NEW session \in Keys \cup {None}, session # None => session <= newest,
         tabs[t].id # None,
         Ends(t, how, page, session),
         UNCHANGED <<now, newest, gone, begun, slow>>,
         cached' # None => cached' \in [at : Nat, keys : SUBSET Keys],
         faults' \in Nat,
         excused \cup Others(tabs[t].id) \subseteq excused',
         spent \subseteq spent', spent' \subseteq spent \cup {tabs[t].id},
         how = "in" \/ tabs[t].id \in excused',
         how = "in" => page = begun[tabs[t].id]
  PROVE  SInv'
<1> DEFINE id == tabs[t].id
<1>1. /\ tabs' \in [Tabs -> TabType] /\ tabs'[t] = Loading(page, session)
      /\ \A u \in Tabs \ {t} : tabs'[u] = tabs[u]
  BY LoadingTab DEF SInv, Shapes, Ends
<1>2. id \in SignIns /\ id <= Len(begun) /\ id \in 1..Len(begun)
  BY NoneIsApart DEF SInv, Shapes, TabsInv, AtPlace, TabType, SignIns
<1>3. /\ ended' = [ended EXCEPT ![id] = [how |-> how, page |-> page]]
      /\ jar' = [oauth |-> None, session |-> session]
  BY DEF Ends
<1>4. Shapes'
  BY <1>1, <1>2, <1>3 DEF SInv, Shapes
<1>5. CookieInv'
  BY <1>3 DEF CookieInv
<1>6. SignInLands'
  BY <1>2, <1>3 DEF SInv, SignInLands, Shapes
<1>7. OneTabEach'
  BY <1>1, LoadingTab DEF SInv, OneTabEach
<1>8. TabsInv'
  <2> SUFFICES ASSUME NEW u \in Tabs
               PROVE  /\ AtPlace(tabs[u])' /\ CarriedOwn(tabs[u])' /\ OnItsWay(tabs[u])'
                      /\ InTheAir(tabs[u])'
    BY DEF TabsInv
  <2>1. CASE u = t
    BY <1>1, <2>1, LoadingTab DEF AtPlace, CarriedOwn, OnItsWay, InTheAir
  <2>2. CASE u # t
    <3>1. tabs[u].id # None => tabs[u].id # id
      BY <2>2 DEF SInv, OneTabEach
    <3>2. AtPlace(tabs[u]) /\ CarriedOwn(tabs[u]) /\ OnItsWay(tabs[u]) /\ InTheAir(tabs[u])
      BY DEF SInv, TabsInv
    <3>3. tabs[u].id # None /\ tabs[u].id \notin excused' => tabs[u].pc # "provider"
      BY <3>1, <3>2 DEF OnItsWay, Others
    <3> QED  BY <1>1, <2>2, <3>1, <3>2, <3>3 DEF AtPlace, CarriedOwn, OnItsWay, InTheAir
  <2> QED  BY <2>1, <2>2
<1> QED  BY <1>4, <1>5, <1>6, <1>7, <1>8 DEF SInv

-----------------------------------------------------------------------------
(* Each action keeps the invariant.                                        *)

LEMMA InitHolds == Init => SInv
<1> SUFFICES ASSUME Init PROVE SInv
  OBVIOUS
<1>1. \A t \in Tabs : tabs[t] = Tab("login", t)
  BY DEF Init
<1>2. Shapes
  BY NoneIsApart, PlainTab DEF Init, Shapes
<1>3. CookieInv /\ CopyInv /\ SignInLands
  BY DEF Init, CookieInv, CopyInv, SignInLands
<1>4. OneTabEach /\ TabsInv
  BY <1>1, PlainTab DEF OneTabEach, TabsInv, CarriedOwn, OnItsWay, InTheAir
<1> QED  BY <1>2, <1>3, <1>4 DEF SInv

LEMMA TickKeeps == SInv /\ Tick => SInv'
<1> SUFFICES ASSUME SInv, Tick PROVE SInv'
  OBVIOUS
<1>1. Shapes' /\ CopyInv'
  BY DEF SInv, Shapes, CopyInv, Tick, provider, history
<1>2. CookieInv' /\ OneTabEach' /\ TabsInv' /\ SignInLands'
  BY DEF SInv, Tick, provider, history, CookieInv, OneTabEach, TabsInv, AtPlace, CarriedOwn, OnItsWay,
         InTheAir, SignInLands
<1> QED  BY <1>1, <1>2 DEF SInv

LEMMA RotateKeeps == SInv /\ Rotate => SInv'
<1> SUFFICES ASSUME SInv, Rotate PROVE SInv'
  OBVIOUS
<1>1. Shapes' /\ newest <= newest'
  BY DEF SInv, Shapes, Rotate, history, Keys
<1>2. CopyInv'
  BY <1>1 DEF SInv, Shapes, CopyInv, Rotate, history, Keys
<1>3. CookieInv' /\ OneTabEach' /\ SignInLands'
  BY DEF SInv, Rotate, history, CookieInv, OneTabEach, SignInLands
<1>4. TabsInv'
  BY <1>1 DEF SInv, Shapes, Rotate, history, TabsInv, AtPlace, CarriedOwn, OnItsWay, InTheAir, TabType, Keys
<1> QED  BY <1>1, <1>2, <1>3, <1>4 DEF SInv

\* The sign-ins whose key is withdrawn before they end are excused, and a key
\* withdrawn while an answer is on its way is slow.
LEMMA WithdrawKeeps ==
  ASSUME SInv, NEW k \in Keys, Withdraw(k)
  PROVE  SInv'
<1>1. /\ k < newest /\ gone' = [gone EXCEPT ![k] = now]
      /\ \A j \in Keys : gone'[j] = IF j = k THEN now ELSE gone[j]
      /\ gone[k] = None /\ now # None
  BY NoneIsApart DEF SInv, Shapes, Withdraw, Published, Keys
<1>2. Shapes'
  BY <1>1 DEF SInv, Shapes, Withdraw
<1>3. CookieInv' /\ OneTabEach' /\ SignInLands'
  BY DEF SInv, Withdraw, CookieInv, OneTabEach, SignInLands
<1>4. CopyInv'
  BY <1>1 DEF SInv, Shapes, CopyInv, Withdraw
<1>5. TabsInv'
  <2> SUFFICES ASSUME NEW t \in Tabs
               PROVE  /\ AtPlace(tabs[t])' /\ CarriedOwn(tabs[t])' /\ OnItsWay(tabs[t])'
                      /\ InTheAir(tabs[t])'
    BY DEF TabsInv
  <2>1. AtPlace(tabs[t]) /\ CarriedOwn(tabs[t]) /\ OnItsWay(tabs[t]) /\ InTheAir(tabs[t]) /\ tabs[t] \in TabType
    BY DEF SInv, TabsInv, Shapes
  <2>2. AtPlace(tabs[t])' /\ CarriedOwn(tabs[t])'
    BY <2>1 DEF Withdraw, AtPlace, CarriedOwn
  <2>3. OnItsWay(tabs[t])'
    <3>1. tabs[t].pc = "checking" => tabs[t].token \in Keys
      BY <2>1 DEF AtPlace, TabType
    <3>2. tabs[t].pc = "checking" /\ tabs[t].token = k => tabs[t].id \in excused'
      BY DEF Withdraw
    <3> QED  BY <1>1, <2>1, <3>1, <3>2 DEF Withdraw, OnItsWay
  <2>4. InTheAir(tabs[t])'
    <3>1. tabs[t].got # {} => tabs[t].token \in Keys /\ slow' = slow \cup {k}
      BY <2>1 DEF AtPlace, TabType, Withdraw
    <3>2. tabs[t].got \subseteq Keys
      BY <2>1 DEF TabType
    <3> QED  BY <1>1, <2>1, <3>1, <3>2 DEF Withdraw, InTheAir
  <2> QED  BY <2>2, <2>3, <2>4
<1> QED  BY <1>2, <1>3, <1>4, <1>5 DEF SInv

\* A sign-in that begins takes the cookie, and the one that had it is excused.
LEMMA BeginningKeeps ==
  ASSUME SInv, NEW t \in Tabs, BeginSignIn(t)
  PROVE  SInv'
<1> DEFINE n == Len(begun) + 1
           q == [Tab("provider", tabs[t].page) EXCEPT !.id = n]
<1>1. n \in SignIns /\ n # None /\ tabs[t] \in TabType /\ tabs[t].page \in Tabs \cup {None}
  BY NoneIsApart DEF SInv, Shapes, BeginSignIn, SignIns, TabType
<1>2. /\ begun' \in Seq(Tabs \cup {None}) /\ Len(begun') = n /\ begun'[n] = tabs[t].page
      /\ \A i \in 1..Len(begun) : begun'[i] = begun[i]
  BY <1>1 DEF SInv, Shapes, BeginSignIn
<1>3. /\ jar' = [jar EXCEPT !.oauth = NewCookie(t)]
      /\ NewCookie(t).id = n /\ NewCookie(t).page = tabs[t].page /\ NewCookie(t) \in Cookie
  BY <1>1 DEF SInv, Shapes, BeginSignIn, NewCookie, Cookie
<1>4. /\ q \in TabType /\ q.id = n /\ q.pc = "provider" /\ q.got = {} /\ q.step = "none"
  BY <1>1, NoneIsApart DEF Tab, TabType, Steps
<1>5. /\ tabs' \in [Tabs -> TabType] /\ tabs'[t] = q
      /\ \A u \in Tabs \ {t} : tabs'[u] = tabs[u]
  BY <1>2, <1>4 DEF SInv, Shapes, BeginSignIn
<1> HIDE DEF q
<1>6. Shapes'
  BY <1>1, <1>2, <1>3, <1>5 DEF SInv, Shapes, BeginSignIn, provider, SignIns
<1>7. CookieInv'
  BY <1>2, <1>3 DEF SInv, Shapes, CookieInv
<1>8. CopyInv'
  BY DEF SInv, CopyInv, BeginSignIn, provider
<1>9. SignInLands'
  <2> SUFFICES ASSUME NEW i \in SignIns, ended[i] # None
               PROVE  /\ ended[i].how = "in" \/ i \in excused'
                      /\ ended[i].how = "in" => ended[i].page = begun'[i]
    BY DEF SignInLands, BeginSignIn
  <2>1. i \in 1..Len(begun)
    BY DEF SInv, Shapes, SignIns
  <2> QED  BY <1>2, <2>1 DEF SInv, SignInLands, BeginSignIn
<1>10. \A u \in Tabs : tabs[u].id # None => tabs[u].id # n /\ tabs[u].id \in 1..Len(begun)
  BY DEF SInv, Shapes, TabsInv, AtPlace, TabType, SignIns
<1>11. OneTabEach'
  BY <1>4, <1>5, <1>10 DEF SInv, OneTabEach
<1>12. TabsInv'
  <2> SUFFICES ASSUME NEW u \in Tabs
               PROVE  /\ AtPlace(tabs[u])' /\ CarriedOwn(tabs[u])' /\ OnItsWay(tabs[u])'
                      /\ InTheAir(tabs[u])'
    BY DEF TabsInv
  <2>1. CASE u = t
    <3>1. n \notin spent /\ spent' = spent
      BY <1>2 DEF SInv, Shapes, BeginSignIn, provider
    <3>2. jar'.oauth # None /\ jar'.oauth.id = n
      BY <1>3, NoneIsApart DEF SInv, Shapes
    <3>3. AtPlace(tabs[u])'
      BY <1>1, <1>2, <1>4, <1>5, <2>1, NoneIsApart DEF AtPlace
    <3>4. CarriedOwn(tabs[u])' /\ InTheAir(tabs[u])'
      BY <1>4, <1>5, <2>1 DEF CarriedOwn, InTheAir
    <3>5. OnItsWay(tabs[u])'
      BY <1>4, <1>5, <2>1, <3>1, <3>2 DEF OnItsWay
    <3> QED  BY <3>3, <3>4, <3>5
  <2>2. CASE u # t
    <3>1. AtPlace(tabs[u]) /\ CarriedOwn(tabs[u]) /\ OnItsWay(tabs[u]) /\ InTheAir(tabs[u])
      BY DEF SInv, TabsInv
    <3>2. tabs[u].id # None /\ tabs[u].id \notin excused' => tabs[u].pc # "provider"
      BY <1>2, <1>10, <3>1 DEF OnItsWay, Others, BeginSignIn
    <3>3. AtPlace(tabs[u])'
      BY <1>2, <1>5, <1>10, <2>2, <3>1 DEF AtPlace, BeginSignIn, provider
    <3>6. InTheAir(tabs[u])'
      BY <1>5, <2>2, <3>1 DEF InTheAir, BeginSignIn, provider
    <3>4. CarriedOwn(tabs[u])'
      BY <1>2, <1>5, <1>10, <2>2, <3>1 DEF CarriedOwn, AtPlace
    <3>5. OnItsWay(tabs[u])'
      BY <1>5, <2>2, <3>1, <3>2 DEF OnItsWay, BeginSignIn, provider
    <3> QED  BY <3>3, <3>4, <3>5, <3>6
  <2> QED  BY <2>1, <2>2
<1> QED  BY <1>6, <1>7, <1>8, <1>9, <1>11, <1>12 DEF SInv

LEMMA GoBackKeeps ==
  ASSUME SInv, NEW t \in Tabs, GoBack(t)
  PROVE  SInv'
<1>1. tabs[t].page \in Tabs \cup {None}
  BY DEF SInv, Shapes, TabType
<1>2. CopyInv' /\ (cached' # None => cached' \in [at : Nat, keys : SUBSET Keys]) /\ faults' \in Nat
  BY DEF SInv, Shapes, CopyInv, GoBack, provider, history
<1> DEFINE q == Tab("login", tabs[t].page)
<1>3. /\ q \in TabType /\ AtPlace(q) /\ q.id = None /\ q.got = {} /\ q.pc = "login"
  BY <1>1, PlainTab
<1>4. tabs' = [tabs EXCEPT ![t] = q]
  BY DEF GoBack
<1>5. UNCHANGED <<now, newest, gone, jar, begun, ended, slow, spent, excused>>
  BY DEF GoBack, provider, history
<1> HIDE DEF q
<1>6. CarriedOwn(q) /\ InTheAir(q)
  BY <1>3 DEF CarriedOwn, InTheAir
<1> QED  BY <1>2, <1>3, <1>4, <1>5, <1>6, Moves

LEMMA LoadKeeps ==
  ASSUME SInv, NEW t \in Tabs, Load(t)
  PROVE  SInv'
<1>1. /\ tabs[t].page \in Tabs \cup {None} /\ jar.session \in Keys \cup {None}
      /\ jar.session # None => jar.session <= newest
  BY DEF SInv, Shapes, TabType
<1>2. CopyInv' /\ (cached' # None => cached' \in [at : Nat, keys : SUBSET Keys]) /\ faults' \in Nat
  BY DEF SInv, Shapes, CopyInv, Load, provider, history
<1> DEFINE q == Loading(tabs[t].page, jar.session)
<1>3. /\ q \in TabType /\ AtPlace(q) /\ q.id = None /\ q.got = {} /\ q.pc \in {"login", "loading"}
  BY <1>1, LoadingTab
<1>4. tabs' = [tabs EXCEPT ![t] = q]
  BY DEF Load
<1>5. UNCHANGED <<now, newest, gone, jar, begun, ended, slow, spent, excused>>
  BY DEF Load, provider, history
<1> HIDE DEF q
<1>6. CarriedOwn(q) /\ InTheAir(q)
  BY <1>3 DEF CarriedOwn, InTheAir
<1> QED  BY <1>2, <1>3, <1>4, <1>5, <1>6, Moves

LEMMA DeniedKeeps ==
  ASSUME SInv, NEW t \in Tabs, Denied(t)
  PROVE  SInv'
<1>1. /\ tabs[t].id # None
      /\ jar.session \in Keys \cup {None} /\ (jar.session # None => jar.session <= newest)
  BY DEF SInv, Shapes, TabsInv, AtPlace, Denied
<1>2. CopyInv' /\ (cached' # None => cached' \in [at : Nat, keys : SUBSET Keys]) /\ faults' \in Nat
  BY DEF SInv, Shapes, CopyInv, Denied, provider
<1>3. Ends(t, "denied", None, jar.session)
  BY DEF Denied, Fails
<1>4. /\ UNCHANGED <<now, newest, gone, begun, slow, spent>>
      /\ excused \cup Others(tabs[t].id) \subseteq excused' /\ tabs[t].id \in excused'
  BY DEF Denied, provider
<1> QED  BY <1>1, <1>2, <1>3, <1>4, EndsKeep

\* A callback goes on with the cookie of its own sign-in, or it ends; and then that
\* is excused: its cookie was late, or another sign-in's.
LEMMA CheckStateKeeps ==
  ASSUME SInv, NEW t \in Tabs, tabs[t].pc \in {"provider", "callback", "checking"},
         CheckState(t),
         UNCHANGED <<now, newest, gone, spent, cached, begun, slow>>,
         faults' \in Nat,
         excused \cup Others(tabs[t].id) \cup (IF Late(tabs[t].id) THEN {tabs[t].id} ELSE {})
           \subseteq excused',
         tabs[t].pc # "provider" => tabs[t].id \in excused'
  PROVE  SInv'
<1> DEFINE id == tabs[t].id
<1>1. /\ tabs[t] \in TabType /\ AtPlace(tabs[t]) /\ OnItsWay(tabs[t]) /\ id # None
      /\ jar.session \in Keys \cup {None} /\ (jar.session # None => jar.session <= newest)
  BY DEF SInv, Shapes, TabsInv, AtPlace
<1>2. CopyInv' /\ (cached' # None => cached' \in [at : Nat, keys : SUBSET Keys])
  BY DEF SInv, Shapes, CopyInv
<1>3. CASE StateCookie # None /\ StateCookie.id = id
  <2>1. StateCookie = jar.oauth /\ jar.oauth \in Cookie
    BY <1>3 DEF StateCookie, SInv, Shapes
  <2> DEFINE q == [Tab("callback", tabs[t].page) EXCEPT !.id = id, !.carried = jar.oauth]
  <2>2. tabs' = [tabs EXCEPT ![t] = q] /\ UNCHANGED <<jar, ended>>
    BY <1>3, <2>1 DEF CheckState
  <2>3. /\ q \in TabType /\ q.id = id /\ q.carried = jar.oauth /\ q.pc = "callback"
        /\ q.got = {} /\ q.step = "none"
    BY <1>1, <2>1, NoneIsApart DEF Tab, TabType, Steps
  <2> HIDE DEF q
  <2>4. AtPlace(q) /\ InTheAir(q)
    BY <1>1, <2>3 DEF AtPlace, InTheAir
  <2>5. CarriedOwn(q)
    BY <1>3, <2>1, <2>3, NoneIsApart DEF CarriedOwn, SInv, CookieInv
  <2>6. q.id \notin excused' => q.id \notin spent'
    BY <1>1, <2>3 DEF OnItsWay
  <2> QED  BY <1>1, <1>2, <2>2, <2>3, <2>4, <2>5, <2>6, Moves
<1>4. CASE ~ (StateCookie # None /\ StateCookie.id = id)
  <2>1. PICK how \in {"expired", "invalid"} : Ends(t, how, None, jar.session)
    BY <1>4 DEF CheckState, Fails
  <2>2. id \in excused'
    BY <1>1, <1>4 DEF OnItsWay, Late, StateCookie
  <2>3. excused \cup Others(id) \subseteq excused'
    OBVIOUS
  <2>4. how # "in"
    BY <2>1
  <2> QED  BY <1>1, <1>2, <2>1, <2>2, <2>3, <2>4, EndsKeep
<1> QED  BY <1>3, <1>4

LEMMA CallbackKeeps ==
  ASSUME SInv, NEW t \in Tabs, Callback(t)
  PROVE  SInv'
<1>1. UNCHANGED <<now, newest, gone, spent, cached, begun, slow>> /\ faults' \in Nat
  BY DEF Callback, provider, SInv, Shapes
<1>2. tabs[t].pc = "provider" /\ CheckState(t)
  BY DEF Callback
<1>3. excused' = excused \cup Others(tabs[t].id) \cup (IF Late(tabs[t].id) THEN {tabs[t].id} ELSE {})
  BY DEF Callback
<1> QED  BY <1>1, <1>2, <1>3, CheckStateKeeps

LEMMA AgainKeeps ==
  ASSUME SInv, NEW t \in Tabs, Again(t)
  PROVE  SInv'
<1>1. UNCHANGED <<now, newest, gone, spent, cached, begun, slow>> /\ faults' \in Nat
  BY DEF Again, Fault, provider, SInv, Shapes
<1>2. tabs[t].pc \in {"callback", "checking"} /\ CheckState(t)
  BY DEF Again
<1>3. excused' = excused \cup {tabs[t].id} \cup Others(tabs[t].id)
  BY DEF Again
<1>4. excused \cup Others(tabs[t].id) \cup (IF Late(tabs[t].id) THEN {tabs[t].id} ELSE {})
        \subseteq excused'
  BY <1>3
<1> QED  BY <1>1, <1>2, <1>3, <1>4, CheckStateKeeps

LEMMA ExchangeKeeps ==
  ASSUME SInv, NEW t \in Tabs, ExchangeCode(t)
  PROVE  SInv'
<1> DEFINE q == [tabs[t] EXCEPT !.pc = "checking", !.token = newest, !.step = "keys"]
<1>1. /\ tabs[t] \in TabType /\ AtPlace(tabs[t]) /\ CarriedOwn(tabs[t])
      /\ tabs[t].pc = "callback" /\ newest \in Keys
  BY DEF SInv, Shapes, TabsInv, ExchangeCode
<1>2. tabs' = [tabs EXCEPT ![t] = q]
  BY DEF ExchangeCode
<1>3. /\ q \in TabType /\ q.id = tabs[t].id /\ q.carried = tabs[t].carried /\ q.pc = "checking"
      /\ q.got = tabs[t].got /\ q.step = "keys" /\ q.token = newest
  BY <1>1 DEF TabType, Steps
<1>4. tabs[t].got = {} /\ gone[newest] = None /\ newest # None /\ newest \in Nat
  BY <1>1, NoneIsApart DEF AtPlace, SInv, Shapes
<1>5. CopyInv' /\ (cached' # None => cached' \in [at : Nat, keys : SUBSET Keys]) /\ faults' \in Nat
  BY DEF SInv, Shapes, CopyInv, ExchangeCode, history
<1>6. UNCHANGED <<now, newest, gone, jar, begun, ended, slow, excused>>
  BY DEF ExchangeCode, history
<1>7. spent \subseteq spent' /\ spent' \subseteq spent \cup ({tabs[t].id} \ {None})
  BY <1>1 DEF ExchangeCode, AtPlace
<1> HIDE DEF q
<1>8. AtPlace(q) /\ CarriedOwn(q) /\ InTheAir(q)
  BY <1>1, <1>3, <1>4 DEF AtPlace, CarriedOwn, InTheAir
<1>9. /\ q.pc = "provider" => jar.oauth # None /\ jar.oauth.id = q.id
      /\ q.pc \in {"provider", "callback"} => q.id \notin spent'
      /\ q.pc = "checking" => gone[q.token] = None
  BY <1>3, <1>4
<1> QED  BY <1>2, <1>3, <1>5, <1>6, <1>7, <1>8, <1>9, Moves

\* A code that is refused was redeemed before, for a callback that was loaded twice.
LEMMA ExchangeFailsKeeps ==
  ASSUME SInv, NEW t \in Tabs, ExchangeFails(t)
  PROVE  SInv'
<1> DEFINE id == tabs[t].id
<1>1. /\ tabs[t].pc = "callback" /\ id # None /\ OnItsWay(tabs[t]) /\ CarriedOwn(tabs[t])
      /\ jar.session \in Keys \cup {None} /\ (jar.session # None => jar.session <= newest)
  BY DEF SInv, Shapes, TabsInv, AtPlace, ExchangeFails
<1>2. CopyInv' /\ (cached' # None => cached' \in [at : Nat, keys : SUBSET Keys])
  BY DEF SInv, Shapes, CopyInv, ExchangeFails
<1>3. faults' \in Nat
  BY DEF ExchangeFails, OrFault, Fault, SInv, Shapes
<1>4. Ends(t, "exchange", None, jar.session)
  BY DEF ExchangeFails, Fails
<1>5. UNCHANGED <<now, newest, gone, begun, slow>>
  BY DEF ExchangeFails
<1>6. spent \subseteq spent' /\ spent' \subseteq spent \cup {id}
  BY DEF ExchangeFails
<1>7. excused \cup Others(id) \subseteq excused'
  BY DEF ExchangeFails
<1>8. id \in excused'
  BY <1>1, <1>7 DEF ExchangeFails, OnItsWay, CarriedOwn
<1> QED  BY <1>1, <1>2, <1>3, <1>4, <1>5, <1>6, <1>7, <1>8, EndsKeep

-----------------------------------------------------------------------------
(* What a lookup does to the tab.                                          *)

\* A token that is accepted (validate_token): the sign-in ends well, or the page is in.
LEMMA AcceptKeeps ==
  ASSUME SInv, CopyInv', NEW t \in Tabs, tabs[t].step # "none", Accept(t),
         UNCHANGED <<now, newest, gone, spent, begun, faults, slow>>,
         cached' # None => cached' \in [at : Nat, keys : SUBSET Keys]
  PROVE  SInv'
<1>1. /\ tabs[t] \in TabType /\ AtPlace(tabs[t]) /\ CarriedOwn(tabs[t])
      /\ tabs[t].page \in Tabs \cup {None} /\ faults' \in Nat
  BY DEF SInv, Shapes, TabsInv, TabType
<1>2. CASE tabs[t].pc = "checking"
  <2>1. Ends(t, "in", tabs[t].carried.page, tabs[t].token)
    BY <1>2 DEF Accept
  <2>2. /\ tabs[t].id # None /\ tabs[t].carried \in Cookie
        /\ tabs[t].carried.page = begun[tabs[t].id]
        /\ tabs[t].token \in Keys /\ tabs[t].token <= newest
    BY <1>1, <1>2 DEF AtPlace, CarriedOwn, TabType
  <2>3. tabs[t].carried.page \in Tabs \cup {None}
    BY <2>2 DEF Cookie
  <2>4. excused \cup Others(tabs[t].id) \subseteq excused'
    BY <1>2 DEF Accept
  <2> QED  BY <1>1, <2>1, <2>2, <2>3, <2>4, EndsKeep
<1>3. CASE tabs[t].pc # "checking"
  <2> DEFINE q == Tab("in", tabs[t].page)
  <2>1. tabs' = [tabs EXCEPT ![t] = q] /\ UNCHANGED <<jar, ended, excused>>
    BY <1>3 DEF Accept
  <2>2. q \in TabType /\ AtPlace(q) /\ q.id = None /\ q.got = {} /\ q.pc = "in"
    BY <1>1, PlainTab
  <2> HIDE DEF q
  <2>3. CarriedOwn(q) /\ InTheAir(q)
    BY <2>2 DEF CarriedOwn, InTheAir
  <2> QED  BY <1>1, <2>1, <2>2, <2>3, Moves
<1> QED  BY <1>2, <1>3

\* A token that is refused without a fault is that of an excused sign-in.
LEMMA RejectKeeps ==
  ASSUME SInv, CopyInv', NEW t \in Tabs, NEW faulty \in BOOLEAN,
         tabs[t].step # "none", Reject(t, faulty),
         ~ faulty /\ tabs[t].pc = "checking" => tabs[t].id \in excused,
         UNCHANGED <<now, newest, gone, spent, begun, slow>>, faults' \in Nat,
         cached' # None => cached' \in [at : Nat, keys : SUBSET Keys]
  PROVE  SInv'
<1>1. /\ tabs[t] \in TabType /\ AtPlace(tabs[t])
      /\ tabs[t].page \in Tabs \cup {None}
      /\ jar.session \in Keys \cup {None} /\ (jar.session # None => jar.session <= newest)
  BY DEF SInv, Shapes, TabsInv, TabType
<1>2. CASE tabs[t].pc = "checking"
  <2>1. Ends(t, "token", None, jar.session)
    BY <1>2 DEF Reject, Fails
  <2>2. tabs[t].id # None
    BY <1>1, <1>2 DEF AtPlace
  <2>3. excused \cup Others(tabs[t].id) \subseteq excused' /\ tabs[t].id \in excused'
    BY <1>2 DEF Reject
  <2> QED  BY <1>1, <2>1, <2>2, <2>3, EndsKeep
<1>3. CASE tabs[t].pc # "checking"
  <2> DEFINE q == Tab("login", tabs[t].page)
  <2>1. tabs' = [tabs EXCEPT ![t] = q] /\ UNCHANGED <<jar, ended, excused>>
    BY <1>3 DEF Reject
  <2>2. q \in TabType /\ AtPlace(q) /\ q.id = None /\ q.got = {} /\ q.pc = "login"
    BY <1>1, PlainTab
  <2> HIDE DEF q
  <2>3. CarriedOwn(q) /\ InTheAir(q)
    BY <2>2 DEF CarriedOwn, InTheAir
  <2> QED  BY <1>1, <2>1, <2>2, <2>3, Moves
<1> QED  BY <1>2, <1>3

\* A tab that asks for keys, or is handed some, is where it was.
LEMMA AsksKeeps ==
  ASSUME SInv, CopyInv', NEW t \in Tabs, tabs[t].step # "none",
         NEW step \in {"fetch", "refetch"}, NEW got \in SUBSET Keys,
         NEW q, q = [tabs[t] EXCEPT !.step = step, !.got = got],
         tabs' = [tabs EXCEPT ![t] = q],
         \A k \in got : k <= newest /\ gone[k] = None,
         got # {} /\ tabs[t].token \notin got => gone[tabs[t].token] # None,
         UNCHANGED <<now, newest, gone, spent, jar, begun, faults, ended, excused, slow>>,
         cached' # None => cached' \in [at : Nat, keys : SUBSET Keys]
  PROVE  SInv'
<1>1. /\ tabs[t] \in TabType /\ AtPlace(tabs[t]) /\ CarriedOwn(tabs[t]) /\ OnItsWay(tabs[t])
      /\ faults' \in Nat
  BY DEF SInv, Shapes, TabsInv
<1>3. /\ q \in TabType /\ q.id = tabs[t].id /\ q.carried = tabs[t].carried /\ q.pc = tabs[t].pc
      /\ q.got = got /\ q.step = step /\ q.token = tabs[t].token
  BY <1>1 DEF TabType, Steps
<1>4. AtPlace(q) /\ CarriedOwn(q) /\ InTheAir(q)
  BY <1>1, <1>3 DEF AtPlace, CarriedOwn, InTheAir
<1>5. q.id # None /\ q.id \notin excused' =>
        /\ q.pc = "provider" => jar.oauth # None /\ jar.oauth.id = q.id
        /\ q.pc \in {"provider", "callback"} => q.id \notin spent'
        /\ q.pc = "checking" => gone[q.token] = None
  BY <1>1, <1>3 DEF OnItsWay
<1> QED  BY <1>1, <1>3, <1>4, <1>5, Moves

LEMMA FetchesKeeps ==
  ASSUME SInv, CopyInv', NEW t \in Tabs, tabs[t].step # "none",
         NEW step \in {"fetch", "refetch"}, Fetches(t, step),
         UNCHANGED <<now, newest, gone, spent, begun, faults, slow>>,
         cached' # None => cached' \in [at : Nat, keys : SUBSET Keys]
  PROVE  SInv'
<1> DEFINE q == [tabs[t] EXCEPT !.step = step, !.got = {}]
<1>1. DOMAIN tabs = Tabs
  BY DEF SInv, Shapes
<1>2. [tabs EXCEPT ![t] = [tabs[t] EXCEPT !.step = step]][t] = [tabs[t] EXCEPT !.step = step]
  BY <1>1
<1>3. tabs' = [tabs EXCEPT ![t] = [[tabs[t] EXCEPT !.step = step] EXCEPT !.got = {}]]
  BY <1>1, <1>2, Zenon DEF Fetches
<1>4. [[tabs[t] EXCEPT !.step = step] EXCEPT !.got = {}] = q
  OBVIOUS
<1>5. tabs' = [tabs EXCEPT ![t] = q] /\ UNCHANGED <<jar, ended, excused>>
  BY <1>3, <1>4 DEF Fetches
<1> DEFINE none == {}
<1>6. q = [tabs[t] EXCEPT !.step = step, !.got = none]
  OBVIOUS
<1>7. none \in SUBSET Keys /\ none = {} /\ \A k \in none : k <= newest /\ gone[k] = None
  OBVIOUS
<1> HIDE DEF q, none
<1> QED  BY <1>5, <1>6, <1>7, AsksKeeps

LEMMA LookUpKeeps ==
  ASSUME SInv, NEW t \in Tabs, LookUp(t)
  PROVE  SInv'
<1>1. UNCHANGED <<now, newest, gone, spent, begun, faults, slow>> /\ tabs[t].step # "none"
  BY DEF LookUp, provider
<1>2. CopyInv' /\ (cached' # None => cached' \in [at : Nat, keys : SUBSET Keys])
  BY DEF SInv, Shapes, CopyInv, LookUp, provider
<1>3. CASE Accept(t)
  BY <1>1, <1>2, <1>3, AcceptKeeps
<1>4. ASSUME NEW step \in {"fetch", "refetch"}, Fetches(t, step)
      PROVE  SInv'
  BY <1>1, <1>2, <1>4, FetchesKeeps
<1> QED  BY <1>3, <1>4 DEF LookUp

LEMMA ServeKeysKeeps ==
  ASSUME SInv, NEW t \in Tabs, ServeKeys(t)
  PROVE  SInv'
<1>1. UNCHANGED <<now, newest, gone, spent, jar, begun, faults, ended, excused, slow>>
  BY DEF ServeKeys, provider, history
<1>2. CopyInv' /\ (cached' # None => cached' \in [at : Nat, keys : SUBSET Keys])
  BY DEF SInv, Shapes, CopyInv, ServeKeys, provider, history
<1>3. /\ tabs[t] \in TabType /\ tabs[t].step \in {"fetch", "refetch"}
      /\ tabs[t].token \in Keys /\ tabs[t].token <= newest
  BY DEF SInv, Shapes, TabsInv, AtPlace, TabType, ServeKeys
<1>4. /\ Published \subseteq Keys /\ \A k \in Published : k <= newest /\ gone[k] = None
      /\ tabs[t].token \notin Published => gone[tabs[t].token] # None
  BY <1>3 DEF SInv, Shapes, Published, Keys
<1> DEFINE q == [tabs[t] EXCEPT !.got = Published]
<1>5. q = [tabs[t] EXCEPT !.step = tabs[t].step, !.got = Published]
  BY <1>3 DEF TabType
<1>6. tabs' = [tabs EXCEPT ![t] = q]
  BY DEF ServeKeys
<1> HIDE DEF q
<1> QED  BY <1>1, <1>2, <1>3, <1>4, <1>5, <1>6, AsksKeeps

\* A token that is refused after the keys were asked for once more is signed with
\* a key that was withdrawn, which excuses its sign-in.
LEMMA ReceiveKeysKeeps ==
  ASSUME SInv, NEW t \in Tabs, ReceiveKeys(t)
  PROVE  SInv'
<1>1. /\ UNCHANGED <<now, newest, gone, spent, begun, faults, slow>> /\ faults' \in Nat
      /\ cached' = [at |-> now, keys |-> tabs[t].got]
  BY DEF ReceiveKeys, provider, SInv, Shapes
<1>2. /\ tabs[t] \in TabType /\ InTheAir(tabs[t]) /\ OnItsWay(tabs[t]) /\ AtPlace(tabs[t])
      /\ tabs[t].got # {} /\ tabs[t].step # "none" /\ now \in Nat /\ tabs[t].got \subseteq Keys
  BY DEF SInv, Shapes, TabsInv, TabType, AtPlace, ReceiveKeys
<1>3. CopyInv' /\ cached' \in [at : Nat, keys : SUBSET Keys]
  BY <1>1, <1>2 DEF InTheAir, CopyInv
<1>4. CASE Accept(t)
  BY <1>1, <1>2, <1>3, <1>4, AcceptKeeps
<1>5. CASE Fetches(t, "refetch")
  BY <1>1, <1>2, <1>3, <1>5, FetchesKeeps
<1>6. CASE tabs[t].token \notin tabs[t].got /\ Reject(t, FALSE)
  <2>1. tabs[t].pc = "checking" => tabs[t].id \in excused
    BY <1>2, <1>6 DEF InTheAir, OnItsWay, AtPlace
  <2> QED  BY <1>1, <1>2, <1>3, <1>6, <2>1, RejectKeeps
<1> QED  BY <1>4, <1>5, <1>6 DEF ReceiveKeys

LEMMA KeysFailKeeps ==
  ASSUME SInv, NEW t \in Tabs, KeysFail(t)
  PROVE  SInv'
<1>1. UNCHANGED <<now, newest, gone, spent, begun, slow>> /\ faults' \in Nat
  BY DEF KeysFail, Fault, provider, SInv, Shapes
<1>2. CopyInv' /\ (cached' # None => cached' \in [at : Nat, keys : SUBSET Keys])
  BY DEF SInv, Shapes, CopyInv, KeysFail, provider
<1>3. tabs[t].step # "none" /\ Reject(t, TRUE)
  BY DEF KeysFail
<1> QED  BY <1>1, <1>2, <1>3, RejectKeeps

-----------------------------------------------------------------------------

\* The invariant holds of every behaviour of the sign-in (auth_login, auth_callback,
\* validate_token and the provider).
THEOREM SignInInductive == Spec => []SInv
<1>1. ASSUME SInv, [Next]_vars
      PROVE  SInv'
  <2>1. CASE UNCHANGED vars
    <3>1. UNCHANGED <<now, newest, gone, spent, cached, jar, tabs, begun, faults, ended, excused, slow>>
      BY <2>1 DEF vars, provider, history
    <3> QED
      BY <1>1, <3>1 DEF SInv, Shapes, CookieInv, CopyInv, OneTabEach, TabsInv, AtPlace, CarriedOwn,
        OnItsWay, InTheAir, SignInLands
  <2>2. CASE Next
    BY <1>1, <2>2, TickKeeps, RotateKeeps, WithdrawKeeps, BeginningKeeps, GoBackKeeps, LoadKeeps,
       DeniedKeeps, CallbackKeeps, AgainKeeps, ExchangeKeeps, ExchangeFailsKeeps, LookUpKeeps,
       ServeKeysKeeps, ReceiveKeysKeeps, KeysFailKeeps
    DEF Next
  <2> QED  BY <1>1, <2>1, <2>2
<1> QED  BY InitHolds, <1>1, PTL DEF Spec

\* Every sign-in that ends well led where it began, and every other one is excused
\* (auth_login, auth_callback; ui/src/auth.rs begin_login), for any number of tabs
\* that share the cookie.
THEOREM SignInsLand == Spec => []SignInLands
<1>1. SInv => SignInLands
  BY DEF SInv
<1> QED  BY SignInInductive, <1>1, PTL

-----------------------------------------------------------------------------
(* What a step may do to a tab whose token is looked up.                   *)

Follows(t) ==
  /\ Outcome(t, "login", "token") /\ UNCHANGED faults => tabs[t].token \notin Published
  /\ Outcome(t, "in", "in") =>
       \/ tabs[t].token \in Published \cup slow
       \/ now - gone[tabs[t].token] < CacheTTL

\* No action decides about a tab that stays where it is, nor one that is at none.
LEMMA NothingDecided ==
  ASSUME NEW t \in Tabs,
         \/ tabs[t].pc \notin {"loading", "checking"}
         \/ tabs'[t].pc = tabs[t].pc /\ ended'[tabs[t].id] = ended[tabs[t].id]
  PROVE  Follows(t)
BY DEF Follows, Outcome

\* What a tab does leaves every other one and the end of its sign-in alone.
LEMMA OthersStay ==
  ASSUME SInv, NEW t \in Tabs, NEW u \in Tabs \ {t}, NEW q, NEW r,
         tabs' = [tabs EXCEPT ![u] = q],
         ended' = ended \/ (tabs[u].id # None /\ ended' = [ended EXCEPT ![tabs[u].id] = r])
  PROVE  Follows(t)
<1>1. tabs'[t] = tabs[t]
  BY DEF SInv, Shapes
<1>2. tabs[t].pc = "checking" => tabs[t].id # None
  BY DEF SInv, TabsInv, AtPlace
<1>3. tabs[u].id # None => tabs[t].id # tabs[u].id
  BY DEF SInv, OneTabEach
<1>4. CASE tabs[t].pc = "checking"
  <2>1. tabs[t].id \in SignIns /\ DOMAIN ended = SignIns
    BY <1>2, <1>4 DEF SInv, Shapes, TabType
  <2>2. ended'[tabs[t].id] = ended[tabs[t].id]
    BY <1>3, <2>1
  <2> QED  BY <1>1, <2>2, NothingDecided
<1>5. CASE tabs[t].pc # "checking"
  BY <1>1, <1>5 DEF Follows, Outcome
<1> QED  BY <1>4, <1>5

\* A token that is looked up is taken for its own tab's, and where it is accepted
\* its key is in the copy or the answer that was looked into.
LEMMA OwnLookUp ==
  ASSUME SInv, NEW t \in Tabs, LookUp(t)
  PROVE  Follows(t)
<1>1. CASE tabs[t].pc \notin {"loading", "checking"}
  BY <1>1, NothingDecided
<1>2. CASE Fresh /\ tabs[t].token \in cached.keys /\ Accept(t)
  <2>1. tabs[t].token \in Keys /\ tabs[t].token <= newest
    BY <1>2 DEF SInv, Shapes, CopyInv, Fresh
  <2>2. \/ tabs[t].token \in Published \cup slow
        \/ now - gone[tabs[t].token] < CacheTTL
    BY <1>2, <2>1, NoneIsApart DEF SInv, Shapes, CopyInv, Fresh, Published, Keys
  <2>3. ~ Outcome(t, "login", "token")
    BY <1>2 DEF Accept, Ends, Outcome, Tab, SInv, Shapes, TabsInv, AtPlace, TabType
  <2> QED  BY <2>2, <2>3 DEF Follows
<1>3. ASSUME NEW step, Fetches(t, step)
      PROVE  Follows(t)
  <2>1. tabs'[t].pc = tabs[t].pc /\ ended' = ended
    BY <1>3 DEF Fetches, SInv, Shapes, TabType
  <2> QED  BY <2>1, NothingDecided
<1> QED  BY <1>2, <1>3 DEF LookUp

LEMMA OwnReceiveKeys ==
  ASSUME SInv, NEW t \in Tabs, ReceiveKeys(t)
  PROVE  Follows(t)
<1>1. InTheAir(tabs[t]) /\ tabs[t].got # {} /\ tabs[t].got \subseteq Keys
  BY DEF SInv, Shapes, TabsInv, TabType, ReceiveKeys
<1>2. CASE tabs[t].token \in tabs[t].got /\ Accept(t)
  <2>1. tabs[t].token \in Published \cup slow
    BY <1>1, <1>2 DEF InTheAir, Published, SInv, Shapes, Keys
  <2>2. ~ Outcome(t, "login", "token")
    BY <1>2 DEF Accept, Ends, Outcome, Tab, SInv, Shapes, TabsInv, AtPlace, TabType
  <2> QED  BY <2>1, <2>2 DEF Follows
<1>3. CASE Fetches(t, "refetch")
  <2>1. tabs'[t].pc = tabs[t].pc /\ ended' = ended
    BY <1>3 DEF Fetches, SInv, Shapes, TabType
  <2> QED  BY <2>1, NothingDecided
<1>4. CASE tabs[t].token \notin tabs[t].got /\ Reject(t, FALSE)
  <2>1. tabs[t].token \notin Published
    BY <1>1, <1>4 DEF InTheAir, Published
  <2>2. ~ Outcome(t, "in", "in")
    BY <1>4 DEF Reject, Fails, Ends, Outcome, Tab, SInv, Shapes, TabsInv, AtPlace, TabType
  <2> QED  BY <2>1, <2>2 DEF Follows
<1> QED  BY <1>2, <1>3, <1>4 DEF ReceiveKeys

LEMMA OwnKeysFail ==
  ASSUME SInv, NEW t \in Tabs, KeysFail(t)
  PROVE  Follows(t)
<1>1. faults' # faults
  BY DEF KeysFail, Fault, SInv, Shapes
<1>2. ~ Outcome(t, "in", "in")
  BY DEF KeysFail, Reject, Fails, Ends, Outcome, Tab, SInv, Shapes, TabsInv, AtPlace, TabType
<1> QED  BY <1>1, <1>2 DEF Follows

LEMMA OwnAgain ==
  ASSUME SInv, NEW t \in Tabs, Again(t)
  PROVE  Follows(t)
<1>1. tabs[t].pc \in {"callback", "checking"} /\ tabs[t].id \in SignIns
  BY DEF Again, SInv, Shapes, TabsInv, AtPlace, TabType
<1>2. CASE UNCHANGED ended
  BY <1>1, <1>2 DEF Follows, Outcome
<1>3. ASSUME NEW how \in {"expired", "invalid"}, Fails(t, how)
      PROVE  Follows(t)
  BY <1>1, <1>3 DEF Follows, Outcome, Fails, Ends, SInv, Shapes
<1> QED  BY <1>2, <1>3 DEF Again, CheckState

\* A step of a tab is about that tab and its sign-in only.
OnlyAbout(u) ==
  /\ \E q : tabs' = [tabs EXCEPT ![u] = q]
  /\ \/ ended' = ended
     \/ tabs[u].id # None /\ \E r : ended' = [ended EXCEPT ![tabs[u].id] = r]

LEMMA EndsOwn ==
  ASSUME NEW u \in Tabs, NEW how, NEW page, NEW session,
         Ends(u, how, page, session), tabs[u].id # None
  PROVE  OnlyAbout(u)
BY DEF Ends, OnlyAbout

LEMMA MovesOwn ==
  ASSUME NEW u \in Tabs, NEW q, tabs' = [tabs EXCEPT ![u] = q], ended' = ended
  PROVE  OnlyAbout(u)
BY DEF OnlyAbout

LEMMA ChecksOwn ==
  ASSUME NEW u \in Tabs, tabs[u].id # None, CheckState(u)
  PROVE  OnlyAbout(u)
<1>1. CASE \E how : Fails(u, how)
  BY <1>1, EndsOwn DEF Fails
<1>2. CASE \E q : tabs' = [tabs EXCEPT ![u] = q] /\ ended' = ended
  BY <1>2, MovesOwn
<1> QED  BY <1>1, <1>2 DEF CheckState

LEMMA AcceptsOwn ==
  ASSUME NEW u \in Tabs, tabs[u].pc = "checking" => tabs[u].id # None,
         Accept(u) \/ Reject(u, TRUE) \/ Reject(u, FALSE)
  PROVE  OnlyAbout(u)
<1>1. CASE tabs[u].pc = "checking"
  BY <1>1, EndsOwn DEF Accept, Reject, Fails
<1>2. CASE tabs[u].pc # "checking"
  BY <1>2, MovesOwn DEF Accept, Reject
<1> QED  BY <1>1, <1>2

LEMMA FetchesOwn ==
  ASSUME NEW u \in Tabs, NEW step, Fetches(u, step), DOMAIN tabs = Tabs
  PROVE  OnlyAbout(u)
<1>1. tabs' = [tabs EXCEPT ![u] = tabs'[u]]
  BY DEF Fetches
<1>2. PICK q : q = tabs'[u]
  OBVIOUS
<1> QED  BY <1>1, <1>2 DEF OnlyAbout, Fetches

TabStep(u) ==
  \/ BeginSignIn(u) \/ GoBack(u) \/ Load(u)
  \/ Denied(u) \/ Callback(u) \/ Again(u)
  \/ ExchangeCode(u) \/ ExchangeFails(u)
  \/ LookUp(u) \/ ServeKeys(u) \/ ReceiveKeys(u) \/ KeysFail(u)

LEMMA OneTabMoves ==
  ASSUME SInv, NEW u \in Tabs, TabStep(u)
  PROVE  OnlyAbout(u)
<1>1. /\ tabs[u].pc \in {"provider", "callback", "checking"} => tabs[u].id # None
      /\ tabs[u] \in TabType /\ DOMAIN tabs = Tabs
  BY DEF SInv, Shapes, TabsInv, AtPlace
<1>2. CASE BeginSignIn(u) \/ GoBack(u) \/ Load(u)
  BY <1>2 DEF BeginSignIn, GoBack, Load, history, OnlyAbout
<1>3. CASE Denied(u) \/ ExchangeFails(u)
  BY <1>1, <1>3, EndsOwn DEF Denied, ExchangeFails, Fails
<1>4. CASE Callback(u) \/ Again(u)
  BY <1>1, <1>4, ChecksOwn DEF Callback, Again
<1>5. CASE ExchangeCode(u) \/ ServeKeys(u)
  <2>1. tabs' = [tabs EXCEPT ![u] = tabs'[u]] /\ ended' = ended
    BY <1>1, <1>5 DEF ExchangeCode, ServeKeys, history
  <2> QED  BY <2>1 DEF OnlyAbout
<1>6. CASE LookUp(u) \/ ReceiveKeys(u) \/ KeysFail(u)
  BY <1>1, <1>6, AcceptsOwn, FetchesOwn DEF LookUp, ReceiveKeys, KeysFail
<1> QED  BY <1>2, <1>3, <1>4, <1>5, <1>6 DEF TabStep

LEMMA StepFollows ==
  ASSUME SInv, [Next]_vars, NEW t \in Tabs
  PROVE  Follows(t)
<1>1. CASE tabs' = tabs /\ ended' = ended
  BY <1>1, NothingDecided
<1>2. ASSUME NEW u \in Tabs \ {t}, TabStep(u)
      PROVE  Follows(t)
  BY <1>2, OneTabMoves, OthersStay DEF OnlyAbout
<1>3. CASE TabStep(t)
  <2>1. CASE tabs[t].pc \notin {"loading", "checking"}
    BY <2>1, NothingDecided
  <2>2. CASE /\ tabs[t].pc \in {"loading", "checking"}
             /\ Again(t) \/ LookUp(t) \/ ServeKeys(t) \/ ReceiveKeys(t) \/ KeysFail(t)
    <3>1. CASE ServeKeys(t)
      <4>1. tabs'[t].pc = tabs[t].pc /\ ended' = ended
        BY <3>1 DEF ServeKeys, history, SInv, Shapes, TabType
      <4> QED  BY <4>1, NothingDecided
    <3> QED  BY <2>2, <3>1, OwnAgain, OwnLookUp, OwnReceiveKeys, OwnKeysFail
  <2> QED
    BY <1>3, <2>1, <2>2
    DEF TabStep, BeginSignIn, GoBack, Load, Denied, Callback, ExchangeCode, ExchangeFails
<1>4. CASE Tick \/ Rotate \/ (\E k \in Keys : Withdraw(k))
  BY <1>1, <1>4 DEF Tick, Rotate, Withdraw, history
<1>5. CASE UNCHANGED vars
  BY <1>1, <1>5 DEF vars, history
<1>6. (\E u \in Tabs : TabStep(u)) => Follows(t)
  BY <1>2, <1>3
<1> QED  BY <1>4, <1>5, <1>6 DEF Next, TabStep

\* A key the provider publishes serves at once, and one it withdrew for as long as
\* the copy lives at most (validate_token, OidcCache::jwks), however the lookups of
\* any number of tabs interleave with rotations.
THEOREM KeysAreFollowed == Spec => KeysFollowProvider
<1>1. SInv /\ [Next]_vars =>
        [\A t \in Tabs :
           /\ Outcome(t, "login", "token") /\ UNCHANGED faults => tabs[t].token \notin Published
           /\ Outcome(t, "in", "in") =>
                \/ tabs[t].token \in Published \cup slow
                \/ now - gone[tabs[t].token] < CacheTTL]_vars
  BY StepFollows DEF Follows
<1> QED  BY SignInInductive, <1>1, PTL DEF Spec, KeysFollowProvider

=============================================================================
