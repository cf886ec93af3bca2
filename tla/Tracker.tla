------------------------------ MODULE Tracker ------------------------------
(***************************************************************************)
(* The beacon (tracker/src/tracker.js) in the tabs of one visitor's        *)
(* browser, on one tracked site, and the agent's unique-visitor oracle     *)
(* (agent/src/web/track/ping.rs), which knows a visitor only by what the   *)
(* browser's HTTP cache sends back.  A load beacon is sent when the oracle *)
(* has answered; meanwhile the page may navigate, be hidden or be left.    *)
(* The oracle is asked twice, for the site and for the path: the second    *)
(* signal is the first's like, and only the first is kept here; waiting    *)
(* for it is part of SendLoad's delay.  `hits' is what is posted: what the *)
(* agent stores of each beacon.                                            *)
(***************************************************************************)
EXTENDS Integers, FiniteSets

CONSTANTS
  Tabs,         \* tabs of the browser
  Paths,        \* paths of the site
  MaxViews,     \* bound: page views
  MaxDays,      \* bound: days
  MaxExtras,    \* bound: unanswered requests and pushes unseen
  NoPath        \* where a closed tab is

ASSUME TrackerAssumption ==
  /\ {MaxViews, MaxExtras} \subseteq Nat /\ MaxDays \in Nat \ {0}
  /\ NoPath \notin Paths

Views == 1..MaxViews

VARIABLES
  hashMode,  \* data-hash
  day,       \* today, in UTC
  cache,     \* the day of the cached answer's Last-Modified, 0 if there is none
  page,      \* per tab: the document, with the tracker's variables
  loads,     \* load beacons whose pings are in the air
  hits,      \* the beacons posted
  views,     \* page views begun: newId, numbered
  extras,    \* spent of MaxExtras
  started,   \* history: the path each view began on
  hurried,   \* history: views left, or begun, while a load beacon was due
  blurred    \* history: what the oracle cannot see

browser == <<hashMode, day, cache>>
memory == <<started, hurried, blurred>>
tvars == <<browser, page, loads, hits, views, extras, memory>>

Closed ==
  [open |-> FALSE, ready |-> FALSE, path |-> NoPath, beacon |-> 0,
   viewPath |-> NoPath, unloaded |-> FALSE]

TInit ==
  /\ hashMode \in BOOLEAN
  /\ day = 1 /\ cache = 0
  /\ page = [t \in Tabs |-> Closed]
  /\ loads = {} /\ hits = {}
  /\ views = 0 /\ extras = 0
  /\ started = [v \in Views |-> NoPath] /\ hurried = {} /\ blurred = {}

---------------------------------------------------------------------------
(* What is posted. *)

\* `by' is the view on whose behalf a load beacon was asked for; `unique' and
\* `day' matter for load beacons only.  `copy' counts the beacons posted before
\* that say the same.
Hit(kind, t, pg, path) ==
  [kind |-> kind, tab |-> t, view |-> pg.beacon, path |-> path,
   by |-> pg.beacon, unique |-> FALSE, day |-> 0, copy |-> 0]

Copies(h) == Cardinality({g \in hits : [g EXCEPT !.copy = 0] = h})
Post(S) == hits' = hits \cup {[h EXCEPT !.copy = Copies(h)] : h \in S}

\* Mutant: the location at the time, not the one the view began on.
UnloadHitsLive(t, pg) == IF pg.unloaded THEN {} ELSE {Hit("unload", t, pg, pg.path)}

\* unload(): posts nothing if the view's unload has been.
UnloadHits(t, pg) == IF pg.unloaded THEN {} ELSE {Hit("unload", t, pg, pg.viewPath)}

Extra == extras < MaxExtras /\ extras' = extras + 1

---------------------------------------------------------------------------
(* The oracle. *)

\* The request carries the Last-Modified of the answer the browser has cached,
\* as its If-Modified-Since.
Ask(t, v, onReady) ==
  [tab |-> t, by |-> v, onReady |-> onReady, since |-> cache, answered |-> FALSE, unique |-> FALSE]

\* Mutant: at midnight counts as before it.
UniqueAtMidnight(since) == since = 0 \/ since <= day

\* ping(): first today unless the browser shows it was here since midnight.
Unique(since) == since = 0 \/ since < day

LastModified == day

PingAnswered(l) ==
  /\ ~l.answered
  /\ loads' = (loads \ {l}) \cup {[l EXCEPT !.answered = TRUE, !.unique = Unique(l.since), !.since = 0]}
  /\ cache' = LastModified
  \* What another page has asked meanwhile does not carry this answer.
  /\ blurred' = IF \E m \in loads \ {l} : ~m.answered THEN blurred \cup {"overlap"} ELSE blurred
  /\ UNCHANGED <<hashMode, day, page, hits, views, extras, started, hurried>>

\* No answer, an unreadable one, or the rate limiter's: not unique.
PingFails(l) ==
  /\ ~l.answered /\ Extra
  /\ loads' = (loads \ {l}) \cup {[l EXCEPT !.answered = TRUE, !.since = 0]}
  /\ blurred' = blurred \cup {"unsaid"}
  /\ UNCHANGED <<browser, page, hits, views, started, hurried>>

\* load(), once Promise.all resolves: send() reads the beacon and the location
\* there are then.
SendLoad(l) ==
  /\ l.answered
  /\ loads' = loads \ {l}
  /\ Post({[Hit("load", l.tab, page[l.tab], page[l.tab].path)
              EXCEPT !.by = l.by, !.unique = l.unique, !.day = day]})
  /\ UNCHANGED <<browser, page, views, extras, memory>>

NextDay ==
  /\ day < MaxDays
  /\ day' = day + 1
  /\ blurred' = IF loads = {} THEN blurred ELSE blurred \cup {"midnight"}
  /\ UNCHANGED <<hashMode, cache, page, loads, hits, views, extras, started, hurried>>

---------------------------------------------------------------------------
(* The page. *)

Due(t) == page[t].open /\ (~page[t].ready \/ \E l \in loads : l.tab = t)

\* Mutant: the ready state is not looked at.
AskedAnyway(t, v, ready) == {Ask(t, v, ready)}

\* init(): the first view begins with the document; its load beacon waits for
\* the document to be parsed.
AskedAtOnce(t, v, ready) == IF ready THEN {Ask(t, v, TRUE)} ELSE {}

Open(t, path, ready) ==
  LET v == views + 1
  IN /\ ~page[t].open /\ v \in Views
     /\ page' = [page EXCEPT ![t] =
          [open |-> TRUE, ready |-> ready, path |-> path, beacon |-> v,
           viewPath |-> path, unloaded |-> FALSE]]
     /\ views' = v
     /\ loads' = loads \cup AskedAtOnce(t, v, ready)
     /\ started' = [started EXCEPT ![v] = path]
     /\ UNCHANGED <<browser, hits, extras, hurried, blurred>>

DomReady(t) ==
  /\ page[t].open /\ ~page[t].ready
  /\ page' = [page EXCEPT ![t].ready = TRUE]
  /\ loads' = loads \cup {Ask(t, page[t].beacon, TRUE)}
  /\ UNCHANGED <<browser, hits, views, extras, memory>>

\* unload(), then startView() at `path'; pg is the page as unload() finds it.
Navigate(t, pg, path) ==
  LET v == views + 1
  IN /\ page[t].open /\ v \in Views
     /\ Post(UnloadHits(t, pg))
     /\ page' = [page EXCEPT ![t].path = path, ![t].beacon = v, ![t].viewPath = path,
                             ![t].unloaded = FALSE]
     /\ views' = v
     /\ loads' = loads \cup {Ask(t, v, FALSE)}
     /\ started' = [started EXCEPT ![v] = path]
     /\ hurried' = IF Due(t) THEN hurried \cup {pg.beacon, v} ELSE hurried
     /\ UNCHANGED <<browser, extras, blurred>>

\* pushState and replaceState: wrapped unless in hash mode, and then a view
\* only when the path changes.
Push(t, path) ==
  /\ ~hashMode /\ path # page[t].path
  /\ Navigate(t, page[t], path)

PushUnseen(t, path) ==
  /\ hashMode /\ page[t].open /\ path # page[t].path /\ Extra
  /\ page' = [page EXCEPT ![t].path = path]
  /\ UNCHANGED <<browser, loads, hits, views, memory>>

\* popstate, of a fragment's navigation too, or hashchange in hash mode: the
\* location has changed already.
Traverse(t, path) == Navigate(t, [page[t] EXCEPT !.path = path], path)

\* visibilitychange, or pagehide into the back-forward cache: the page, its
\* view and what it waits for go on.
Hide(t) ==
  /\ page[t].open
  /\ Post(UnloadHits(t, page[t]))
  /\ page' = [page EXCEPT ![t].unloaded = TRUE]
  /\ UNCHANGED <<browser, loads, views, extras, memory>>

\* pagehide, and the document is gone, with what it was waiting for.
Leave(t) ==
  /\ page[t].open
  /\ Post(UnloadHits(t, page[t]))
  /\ page' = [page EXCEPT ![t] = Closed]
  /\ loads' = {l \in loads : l.tab # t}
  /\ hurried' = IF Due(t) THEN hurried \cup {page[t].beacon} ELSE hurried
  /\ blurred' = IF \E l \in loads : l.tab = t /\ l.unique THEN blurred \cup {"unsaid"} ELSE blurred
  /\ UNCHANGED <<browser, views, extras, started>>

---------------------------------------------------------------------------
TNext ==
  \/ NextDay
  \/ \E l \in loads : PingAnswered(l) \/ PingFails(l) \/ SendLoad(l)
  \/ \E t \in Tabs :
       \/ DomReady(t) \/ Hide(t) \/ Leave(t)
       \/ \E p \in Paths : Push(t, p) \/ PushUnseen(t, p) \/ Traverse(t, p)
       \/ \E p \in Paths, ready \in BOOLEAN : Open(t, p, ready)

TSpec == TInit /\ [][TNext]_tvars

---------------------------------------------------------------------------
Records ==
  [kind : {"load", "unload"}, tab : Tabs, view : Views, path : Paths, by : Views,
   unique : BOOLEAN, day : 0..MaxDays, copy : Nat]
Asks == [tab : Tabs, by : Views, onReady : BOOLEAN, since : 0..MaxDays, answered : BOOLEAN,
         unique : BOOLEAN]

\* Types; the oracle hands out no date to come, and what is posted names a view
\* and a path.
TTypeOK ==
  /\ hashMode \in BOOLEAN /\ day \in 1..MaxDays
  /\ cache \in 0..day
  /\ page \in [Tabs ->
       [open : BOOLEAN, ready : BOOLEAN, path : Paths \cup {NoPath}, beacon : 0..views,
        viewPath : Paths \cup {NoPath}, unloaded : BOOLEAN]]
  /\ loads \subseteq Asks
  /\ hits \subseteq Records
  /\ views \in 0..MaxViews
  /\ extras \in 0..MaxExtras
  /\ started \in [Views -> Paths \cup {NoPath}] /\ hurried \subseteq Views
  /\ blurred \subseteq {"overlap", "midnight", "unsaid"}

\* A view ends once, however it is hidden, left and navigated from, and its
\* unload beacon names the path on which it began, although it may be posted
\* after the location has changed.  So does every beacon of a view, unless the
\* site's router is taken to use the hash and moves the path.
Attributed ==
  /\ \A v \in Views : Cardinality({h \in hits : h.kind = "unload" /\ h.view = v}) <= 1
  /\ \A h \in hits : h.kind = "unload" \/ ~hashMode => h.path = started[h.view]

\* Where the load beacon of a view is: posted, waiting for the oracle, or for
\* the document.
LoadsOf(v) == {h \in hits : h.kind = "load" /\ h.view = v}
AsksOf(v) == {l \in loads : l.by = v}
Parsing(v) == {t \in Tabs : page[t].open /\ page[t].beacon = v /\ ~page[t].ready}

\* Every view is reported by one load beacon, of its own: posted, or asked for
\* and waiting for the oracle, or waiting for the document; unless it was left,
\* or begun, while the page still had one to send.
OneLoadPerView ==
  \A v \in (1..views) \ hurried :
    /\ \A h \in hits : h.kind = "load" => (h.view = v <=> h.by = v)
    /\ Cardinality(LoadsOf(v)) + Cardinality(AsksOf(v)) + Cardinality(Parsing(v)) = 1

FirstToday(d) == {h \in hits : h.kind = "load" /\ h.unique /\ h.day = d}

CountedAtMostOnce ==
  blurred \cap {"overlap", "midnight"} = {} => \A d \in 1..MaxDays : Cardinality(FirstToday(d)) <= 1

CountedAtLeastOnce ==
  blurred \subseteq {"overlap"} =>
    \A d \in 1..MaxDays :
      (\E h \in hits : h.kind = "load" /\ h.day = d) =>
        FirstToday(d) # {} \/ (d = day /\ \E l \in loads : l.unique)

\* A visitor is counted once a day, in whatever order pages are opened, answered
\* and left: at most once unless two first pings overlap or midnight falls
\* between a ping and its beacon; at least once, if a view of that day was
\* recorded, by a beacon posted or about to be, unless midnight does, a ping
\* fails, or the page told first is left before it could say so.
CountedOnceADay == CountedAtMostOnce /\ CountedAtLeastOnce
=============================================================================
