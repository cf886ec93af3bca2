---------------------------- MODULE PagesProofs ----------------------------
(***************************************************************************)
(* What Pages.tla checks on a small instance, proved for any projects,     *)
(* names and places, and any number of moves and of requests in the air.   *)
(***************************************************************************)
EXTENDS Pages, TLAPS

USE PagesAssumption

-----------------------------------------------------------------------------
(* Shapes.                                                                 *)

\* Where the operator can be: a creation leads to the dashboard, filtered.
Reached == Places \cup {Place("Overview", Null, Null, name) : name \in Names \cup {Null}}
Asked == {Asks(place) : place \in Reached}

Maybe(S) == {<< >>} \cup {<<x>> : x \in S}
Titles == [Projects -> Names \cup {Null}]
Answer == [v : Nat, owner : Projects \cup {Null}] \cup {Null}
List == [v : Nat, names : Titles] \cup {Null}
PageRequest == [seq : Nat, asks : Asked, got : Maybe(Answer)]
ListRequest == [seq : Nat, got : Maybe(List)]
Load == [seq : Nat, id : Projects]
Held == [id : Projects, name : Names \cup {Null}] \cup {Null}

Database == [v : Nat, owner : Projects \cup {Null}, names : Titles]
Page ==
  [reload : Nat, seq : Nat, air : SUBSET PageRequest,
   shown : Maybe([seq : Nat, asks : Asked, got : Answer]), due : Nat,
   slips : SUBSET {"overlap", "settings", "filtered"}, idle : BOOLEAN]
Shell ==
  [tick : Nat, air : SUBSET ListRequest, seq : Nat, v : Nat, due : Nat, names : Titles]
Drawer ==
  [managed : Projects \cup {Null}, loaded : Held, name : Names \cup {Null},
   owner : Projects \cup {Null}, listed : BOOLEAN, error : BOOLEAN, busy : BOOLEAN,
   typed : BOOLEAN, seq : Nat, air : SUBSET Load]
Edit ==
  [what : Creations \cup {"rename", "member", "delete", "danger", "assign", "triage", "pixel"},
   id : Projects \cup {Null}, name : Names \cup {Null}, reload : Nat, at : Reached,
   knew : Held, home : BOOLEAN, alone : BOOLEAN,
   stage : {"sent", "created", "ok", "failed"}, v : Nat, nth : Nat]

Shapes ==
  /\ db \in Database /\ url \in Reached /\ page \in Page /\ shell \in Shell
  /\ drawer \in Drawer /\ edits \subseteq Edit /\ left \in Nat

-----------------------------------------------------------------------------
(* The inductive invariant.                                                *)

\* What was asked is what the place asks, but for an exception's source.
Matches(asks, place) ==
  LET asked == Asks(place)
  IN IF place.kind = "Exception" THEN asks[1] = asked[1] /\ asks[3] = asked[3]
     ELSE asks = asked

\* Requests are numbered, and so is what is shown.  Unless the effect asked
\* nothing, its latest request is for the page's URL, in the air or shown; it may
\* have been overwritten where answers are taken as they come.
NumberInv(p) ==
  /\ \A f \in p.air : f.seq <= p.seq
  /\ p.shown # << >> => p.shown[1].seq <= p.seq
MatchInv(p, place) ==
  /\ \A f \in p.air : f.seq = p.seq => Matches(f.asks, place)
  /\ p.shown # << >> /\ p.shown[1].seq = p.seq => Matches(p.shown[1].asks, place)
ReachInv(p, place) ==
  \/ \E f \in p.air : f.seq = p.seq
  \/ p.shown # << >> /\ (place.kind \in Guarded => p.shown[1].seq = p.seq)

\* What answers the latest request is no older than the edits that came home, unless
\* the page has not asked since one of them.
DueInv(p) == p.slips = {} =>
  /\ \A f \in p.air : f.seq = p.seq /\ f.got # << >> /\ f.got[1] # Null => f.got[1].v >= p.due
  /\ p.shown # << >> /\ p.shown[1].seq = p.seq /\ p.shown[1].got # Null =>
       p.shown[1].got.v >= p.due

PageInv(p, place) ==
  NumberInv(p) /\ (~p.idle => MatchInv(p, place) /\ ReachInv(p, place) /\ DueInv(p))

ListInv(s) ==
  /\ \A f \in s.air : f.seq <= s.tick
  /\ s.seq <= s.tick
  /\ \A f \in s.air : f.seq = s.tick /\ f.got # << >> /\ f.got[1] # Null => f.got[1].v >= s.due
  /\ s.seq = s.tick => s.v >= s.due

\* The drawer has the project it manages, or loads it, or shows an error.
DrawerInv(d) ==
  /\ \A f \in d.air : f.seq <= d.seq
  /\ d.managed # Null =>
       \/ \E f \in d.air : f.seq = d.seq
       \/ d.error
       \/ d.loaded.id = d.managed /\ (d.typed \/ d.name = d.loaded.name)
  /\ \A f \in d.air : f.seq = d.seq => f.id = d.managed

\* The drawer is the dashboard's or the settings'.
HostInv(d, place) == d.managed # Null => place.kind \in {"Overview", "Settings"}

\* Where each kind of edit is made.  One that is alone is the only one of its page,
\* and the page's counter is still the one of the click.
Managed == {"rename", "member", "delete", "assign"}
PlaceInv(es, place) ==
  /\ \A e \in es : Own(e) => e.at.kind = place.kind
  /\ \A e \in es : e.what = "triage" => e.at.kind = "Exception"
  /\ \A e \in es : e.what = "pixel" => e.at.kind = "Pixels"
  /\ \A e \in es : e.what = "danger" => e.at.kind = "Settings"
  /\ \A e \in es : e.what \in Managed => e.at.kind \in {"Overview", "Settings"}
AloneInv(es, reload) ==
  \A e \in es : Own(e) /\ e.alone => e.reload = reload /\ \A d \in es : Own(d) => d = e

\* Nothing is due that the server does not have.
VersionInv ==
  /\ page.due <= db.v /\ shell.due <= db.v
  /\ \A e \in edits : e.v <= db.v

PInv ==
  /\ Shapes
  /\ PageInv(page, url) /\ ListInv(shell) /\ DrawerInv(drawer) /\ HostInv(drawer, url)
  /\ PlaceInv(edits, url) /\ AloneInv(edits, page.reload) /\ VersionInv

-----------------------------------------------------------------------------
(* A page's requests.                                                      *)

\* A page's effect runs: it asks for the place, or nothing at a broken link.
LEMMA RequestedShape ==
  ASSUME NEW p \in Page, NEW place \in Reached
  PROVE  LET q == Requested(p, place)
         IN  /\ q \in Page
             /\ q.reload = p.reload /\ q.due = p.due /\ q.shown = p.shown
             /\ Broken(place) => q.idle /\ q.seq = p.seq /\ q.air = p.air
             /\ ~Broken(place) =>
                  /\ q.seq = p.seq + 1
                  /\ q.air = p.air \cup {[seq |-> p.seq + 1, asks |-> Asks(place), got |-> << >>]}
<1> DEFINE f == [seq |-> p.seq + 1, asks |-> Asks(place), got |-> << >>]
<1>1. f \in PageRequest
  BY DEF PageRequest, Page, Asked, Maybe
<1>2. p.air \cup {f} \in SUBSET PageRequest /\ p.seq + 1 \in Nat
  BY <1>1 DEF Page
<1> HIDE DEF f
<1>3. CASE Broken(place)
  <2>1. Requested(p, place) = [p EXCEPT !.idle = TRUE]
    BY <1>3 DEF Requested
  <2>2. [p EXCEPT !.idle = TRUE] \in Page
    BY DEF Page
  <2>3. QED
    BY <1>3, <2>1, <2>2 DEF Page
<1>4. CASE ~Broken(place)
  <2>1. Requested(p, place) =
          [p EXCEPT !.seq = p.seq + 1, !.idle = FALSE, !.slips = {}, !.air = p.air \cup {f}]
    BY <1>4 DEF Requested, f
  <2>2. [p EXCEPT !.seq = p.seq + 1, !.idle = FALSE, !.slips = {}, !.air = p.air \cup {f}] \in Page
    BY <1>2 DEF Page
  <2>3. QED
    BY <1>4, <2>1, <2>2 DEF Page, f
<1>5. QED
  BY <1>3, <1>4

\* Whatever was due, the request that has just been sent will bring it.
LEMMA RequestedInv ==
  ASSUME NEW p \in Page, NEW place \in Reached, NumberInv(p), NEW q,
         q.seq = Requested(p, place).seq, q.air = Requested(p, place).air,
         q.shown = p.shown, q.idle = Requested(p, place).idle
  PROVE  PageInv(q, place)
<1>1. p.seq \in Nat /\ \A f \in p.air : f.seq \in Nat
  BY DEF Page, PageRequest
<1>2. p.shown # << >> => p.shown[1].seq \in Nat /\ p.shown[1].seq <= p.seq
  BY DEF Page, Maybe, NumberInv
<1>3. CASE Broken(place)
  <2>1. q.idle /\ q.seq = p.seq /\ q.air = p.air
    BY <1>3, RequestedShape
  <2>2. QED
    BY <2>1 DEF PageInv, NumberInv
<1>4. CASE ~Broken(place)
  <2> DEFINE n == [seq |-> p.seq + 1, asks |-> Asks(place), got |-> << >>]
  <2>1. q.seq = p.seq + 1 /\ q.air = p.air \cup {n}
    BY <1>4, RequestedShape
  <2>2. \A f \in p.air : f.seq <= p.seq
    BY DEF NumberInv
  <2>3. \A f \in q.air : f.seq <= q.seq /\ (f.seq = q.seq => f = n)
    BY <1>1, <2>1, <2>2
  <2>4. q.shown # << >> => q.shown[1].seq <= q.seq /\ q.shown[1].seq # q.seq
    BY <1>1, <1>2, <2>1
  <2>5. Matches(n.asks, place) /\ n.got = << >> /\ n \in q.air /\ n.seq = q.seq
    BY <2>1 DEF Matches
  <2>6. QED
    BY <2>3, <2>4, <2>5 DEF PageInv, NumberInv, MatchInv, ReachInv, DueInv
<1>5. QED
  BY <1>3, <1>4

\* What an effect does not watch does not change what is asked, or is the source.
LEMMA WatchedIsAsked ==
  ASSUME NEW here, NEW there, here.kind = there.kind, NEW r, NEW s,
         Watches(there, r) = Watches(here, s)
  PROVE  \A asks : Matches(asks, here) => Matches(asks, there)
<1>1. CASE here.kind \in {"Overview", "Exceptions"}
  BY <1>1 DEF Watches, Asks, Matches
<1>2. CASE here.kind = "Exception"
  BY <1>2 DEF Watches, Asks, Matches
<1>3. CASE here.kind \in {"Event", "Trace"}
  BY <1>3 DEF Watches, Asks, Matches
<1>4. CASE here.kind \notin {"Overview", "Exceptions", "Exception", "Event", "Trace"}
  BY <1>4 DEF Asks, Matches
<1>5. QED
  BY <1>1, <1>2, <1>3, <1>4

\* Every page whose edits refetch watches its counter.
LEMMA CounterWatched ==
  ASSUME NEW here, NEW there, here.kind = there.kind, NEW r, NEW s, r # s,
         here.kind \notin {"Exceptions", "Event", "Trace"}
  PROVE  Watches(there, r) # Watches(here, s)
<1>1. CASE here.kind = "Overview"
  BY <1>1 DEF Watches
<1>2. CASE here.kind = "Exception"
  BY <1>2 DEF Watches
<1>3. CASE here.kind \notin {"Overview", "Exceptions", "Exception", "Event", "Trace"}
  BY <1>3 DEF Watches
<1>4. QED
  BY <1>1, <1>2, <1>3

LEMMA NewPageShape == NewPage \in Page /\ NumberInv(NewPage)
<1>1. NewPage \in Page
  BY DEF NewPage, Page, Maybe
<1>2. NumberInv(NewPage)
  BY DEF NewPage, NumberInv
<1>3. QED
  BY <1>1, <1>2

\* Wherever the page's URL goes, and to whatever its counter is set.
LEMMA PageAtInv ==
  ASSUME page \in Page, PageInv(page, url), NEW place \in Reached, NEW reload \in Nat
  PROVE  /\ PageAt(place, reload) \in Page
         /\ PageInv(PageAt(place, reload), place)
         /\ place.kind = url.kind =>
              PageAt(place, reload).reload = reload /\ PageAt(place, reload).due = page.due
         /\ place.kind # url.kind => PageAt(place, reload).due = 0
<1> DEFINE p == [page EXCEPT !.reload = reload]
<1>1. CASE place.kind # url.kind
  <2>1. PageAt(place, reload) = Requested(NewPage, place)
    BY <1>1 DEF PageAt
  <2>2. PageInv(Requested(NewPage, place), place)
    BY NewPageShape, RequestedShape, RequestedInv
  <2>3. Requested(NewPage, place) \in Page /\ Requested(NewPage, place).due = NewPage.due
    BY NewPageShape, RequestedShape
  <2>4. QED
    BY <1>1, <2>1, <2>2, <2>3 DEF NewPage
<1>2. CASE place.kind = url.kind
  <2>1. p \in Page
    BY DEF Page
  <2>2. /\ p.seq = page.seq /\ p.air = page.air /\ p.shown = page.shown /\ p.idle = page.idle
        /\ p.due = page.due /\ p.slips = page.slips /\ p.reload = reload
    BY DEF Page
  <2> HIDE DEF p
  <2>3. NumberInv(p)
    BY <2>2 DEF PageInv, NumberInv
  <2>4. CASE Watches(place, reload) = Watches(url, page.reload)
    <3>1. PageAt(place, reload) = p
      BY <1>2, <2>4 DEF PageAt, Seen, p
    <3>2. ~p.idle => MatchInv(p, place)
      <4>1. \A asks : Matches(asks, url) => Matches(asks, place)
        BY <1>2, <2>4, WatchedIsAsked
      <4>2. QED
        BY <2>2, <4>1, Zenon DEF PageInv, MatchInv
    <3>3. ~p.idle => ReachInv(p, place) /\ DueInv(p)
      BY <1>2, <2>2, Zenon DEF PageInv, ReachInv, DueInv
    <3>4. QED
      BY <1>2, <2>1, <2>2, <2>3, <3>1, <3>2, <3>3 DEF PageInv
  <2>5. CASE Watches(place, reload) # Watches(url, page.reload)
    <3>1. PageAt(place, reload) = Requested(p, place)
      BY <1>2, <2>5 DEF PageAt, Seen, p
    <3>2. PageInv(Requested(p, place), place)
      BY <2>1, <2>3, RequestedShape, RequestedInv
    <3>3. QED
      BY <1>2, <2>1, <2>2, <3>1, <3>2, RequestedShape
  <2>6. QED
    BY <2>4, <2>5
<1>3. QED
  BY <1>1, <1>2

\* What an effect sees makes its page ask.
LEMMA SeenAsks ==
  ASSUME page \in Page, PageInv(page, url), NEW place, NEW reload \in Nat, Seen(place, reload)
  PROVE  \E p \in Page : NumberInv(p) /\ PageAt(place, reload) = Requested(p, place)
<1>1. CASE place.kind # url.kind
  BY <1>1, NewPageShape DEF PageAt
<1>2. CASE place.kind = url.kind
  <2> DEFINE p == [page EXCEPT !.reload = reload]
  <2>1. p \in Page /\ p.seq = page.seq /\ p.air = page.air /\ p.shown = page.shown
    BY DEF Page
  <2>2. PageAt(place, reload) = Requested(p, place)
    BY <1>2 DEF PageAt
  <2> HIDE DEF p
  <2>3. NumberInv(p)
    BY <2>1 DEF PageInv, NumberInv
  <2>4. QED
    BY <2>1, <2>2, <2>3
<1>3. QED
  BY <1>1, <1>2

\* The page an edit comes home to asks again, or something has slipped.
LEMMA OwingInv ==
  ASSUME page \in Page, PageInv(page, url), NEW place \in Reached, NEW reload \in Nat,
         NEW e \in Edit, e.home, Seen(place, reload) \/ Slips(e) # {}
  PROVE  LET q == Owing(PageAt(place, reload), e, Seen(place, reload))
         IN  /\ q \in Page /\ PageInv(q, place) /\ q.due \in {0, page.due, e.v}
             /\ place.kind = url.kind => q.reload = reload
<1> DEFINE r == PageAt(place, reload)
           due == Latest(r.due, e.v)
           slips == IF Seen(place, reload) THEN r.slips ELSE r.slips \cup Slips(e)
           q == [r EXCEPT !.due = due, !.slips = slips]
<1>1. /\ r \in Page /\ PageInv(r, place)
      /\ place.kind = url.kind => r.reload = reload /\ r.due = page.due
      /\ place.kind # url.kind => r.due = 0
  BY PageAtInv
<1>2. Owing(PageAt(place, reload), e, Seen(place, reload)) = q
  BY DEF Owing
<1>3. Seen(place, reload) => \E p \in Page : NumberInv(p) /\ r = Requested(p, place)
  BY SeenAsks
<1> HIDE DEF r
<1>4. due \in Nat /\ due \in {r.due, e.v}
  BY <1>1 DEF Page, Edit, Latest
<1>5. slips \in SUBSET {"overlap", "settings", "filtered"}
  BY <1>1 DEF Page, Slips
<1> HIDE DEF due, slips
<1>6. q \in Page
  BY <1>1, <1>4, <1>5 DEF Page
<1>7. /\ q.seq = r.seq /\ q.air = r.air /\ q.shown = r.shown /\ q.idle = r.idle
      /\ q.due = due /\ q.slips = slips /\ q.reload = r.reload
  BY <1>1 DEF Page
<1> HIDE DEF q
<1>8. PageInv(q, place)
  <2>1. CASE Seen(place, reload)
    <3>1. PICK p \in Page : NumberInv(p) /\ r = Requested(p, place)
      BY <1>3, <2>1
    <3>2. r.shown = p.shown
      BY <3>1, RequestedShape
    <3>3. QED
      BY <1>7, <3>1, <3>2, RequestedInv
  <2>2. CASE ~Seen(place, reload)
    <3>1. q.slips # {}
      BY <1>7, <2>2 DEF slips
    <3>2. NumberInv(q)
      BY <1>1, <1>7 DEF PageInv, NumberInv
    <3>3. ~q.idle => MatchInv(q, place) /\ ReachInv(q, place)
      BY <1>1, <1>7 DEF PageInv, MatchInv, ReachInv
    <3>4. QED
      BY <3>1, <3>2, <3>3 DEF PageInv, DueInv
  <2>3. QED
    BY <2>1, <2>2
<1>9. QED
  BY <1>1, <1>2, <1>4, <1>6, <1>7, <1>8

-----------------------------------------------------------------------------
(* Going to another place, and the answers.                                *)

LEMMA PlaceStays ==
  ASSUME NEW es, NEW place, PlaceInv(es, place), NEW ds \in SUBSET es
  PROVE  PlaceInv(ds, place)
  BY DEF PlaceInv

LEMMA AloneStays ==
  ASSUME NEW es, NEW reload, AloneInv(es, reload), NEW ds \in SUBSET es
  PROVE  AloneInv(ds, reload)
  BY DEF AloneInv

\* Edits in the air where the operator goes: those of a page that is left are not
\* the new page's.
LEMMA EditsAtShape ==
  ASSUME NEW es \in SUBSET Edit, NEW place
  PROVE  /\ EditsAt(place, es) \in SUBSET Edit
         /\ place.kind = url.kind => EditsAt(place, es) = es
         /\ \A e \in EditsAt(place, es) : \E d \in es :
              /\ e.v = d.v /\ e.what = d.what /\ e.at = d.at /\ e.alone = d.alone
              /\ e.home => d = e
              /\ place.kind # url.kind => ~Own(e)
<1>1. CASE place.kind = url.kind
  BY <1>1 DEF EditsAt
<1>2. CASE place.kind # url.kind
  <2> DEFINE Left(e) == IF e.what \in Creations THEN e ELSE [e EXCEPT !.home = FALSE]
  <2>1. EditsAt(place, es) = {Left(e) : e \in es}
    BY <1>2 DEF EditsAt
  <2>2. ASSUME NEW e \in es
        PROVE  /\ Left(e) \in Edit
               /\ Left(e).v = e.v /\ Left(e).what = e.what /\ Left(e).at = e.at
               /\ Left(e).alone = e.alone /\ (Left(e).home => e = Left(e)) /\ ~Own(Left(e))
    <3>1. e \in Edit
      OBVIOUS
    <3>2. CASE e.what \in Creations
      BY <3>1, <3>2 DEF Own
    <3>3. CASE e.what \notin Creations
      <4>1. [e EXCEPT !.home = FALSE] \in Edit
        BY <3>1 DEF Edit
      <4>2. /\ [e EXCEPT !.home = FALSE].v = e.v /\ [e EXCEPT !.home = FALSE].what = e.what
            /\ [e EXCEPT !.home = FALSE].at = e.at /\ [e EXCEPT !.home = FALSE].alone = e.alone
            /\ ~[e EXCEPT !.home = FALSE].home
        BY <3>1 DEF Edit
      <4>3. QED
        BY <3>3, <4>1, <4>2 DEF Own
    <3>4. QED
      BY <3>2, <3>3
  <2> HIDE DEF Left
  <2>3. QED
    BY <1>2, <2>1, <2>2
<1>3. QED
  BY <1>1, <1>2

LEMMA EditsAtInv ==
  ASSUME NEW es \in SUBSET Edit, NEW place, NEW reload, NEW next,
         PlaceInv(es, url), AloneInv(es, reload),
         place.kind = url.kind => AloneInv(es, next)
  PROVE  PlaceInv(EditsAt(place, es), place) /\ AloneInv(EditsAt(place, es), next)
<1>1. CASE place.kind = url.kind
  BY <1>1, EditsAtShape DEF PlaceInv
<1>2. CASE place.kind # url.kind
  <2>1. \A e \in EditsAt(place, es) : ~Own(e) /\ \E d \in es :
          e.what = d.what /\ e.at = d.at /\ e.alone = d.alone /\ (e.home => d = e)
    BY <1>2, EditsAtShape
  <2>2. PlaceInv(EditsAt(place, es), place)
    BY <2>1 DEF PlaceInv
  <2>3. AloneInv(EditsAt(place, es), next)
    BY <2>1 DEF AloneInv
  <2>4. QED
    BY <2>2, <2>3
<1>3. QED
  BY <1>1, <1>2

LEMMA NewDrawerInv == NewDrawer \in Drawer /\ DrawerInv(NewDrawer)
<1>1. NewDrawer \in Drawer
  BY DEF NewDrawer, Drawer, Held
<1>2. DrawerInv(NewDrawer)
  BY DEF NewDrawer, DrawerInv
<1>3. QED
  BY <1>1, <1>2

LEMMA DrawerAtInv ==
  ASSUME NEW d \in Drawer, DrawerInv(d), HostInv(d, url), NEW place
  PROVE  /\ DrawerAt(place, d) \in Drawer /\ DrawerInv(DrawerAt(place, d))
         /\ HostInv(DrawerAt(place, d), place)
<1>1. CASE place.kind # url.kind
  <2>1. DrawerAt(place, d) = NewDrawer /\ NewDrawer.managed = Null
    BY <1>1 DEF DrawerAt, NewDrawer
  <2>2. QED
    BY <2>1, NewDrawerInv DEF HostInv
<1>2. CASE place.kind = url.kind
  BY <1>2 DEF DrawerAt, HostInv
<1>3. QED
  BY <1>1, <1>2

LEMMA SpentType ==
  ASSUME left \in Nat, Spent
  PROVE  left' \in Nat
  BY DEF Spent

LEMMA OutcomeType ==
  ASSUME left \in Nat, NEW ok, Outcome(ok)
  PROVE  left' \in Nat
  BY SpentType DEF Outcome

LEMMA GoStep ==
  ASSUME PInv, NEW place \in Places, Go(place)
  PROVE  PInv'
<1> USE DEF PInv, Shapes
<1>1. place \in Reached
  BY DEF Reached
<1>2. /\ url' = place /\ page' = PageAt(place, page.reload) /\ drawer' = DrawerAt(place, drawer)
      /\ edits' = EditsAt(place, edits) /\ UNCHANGED <<db, shell>> /\ Spent
  BY DEF Go, Moves
<1>3. page.reload \in Nat /\ page.due \in Nat /\ db.v \in Nat
  BY DEF Page, Database
<1>4. /\ page' \in Page /\ PageInv(page', place)
      /\ place.kind = url.kind => page'.reload = page.reload /\ page'.due = page.due
      /\ place.kind # url.kind => page'.due = 0
  BY <1>1, <1>2, <1>3, PageAtInv
<1>5. drawer' \in Drawer /\ DrawerInv(drawer') /\ HostInv(drawer', place)
  BY <1>2, DrawerAtInv
<1>6. edits' \in SUBSET Edit /\ \A e \in edits' : \E d \in edits : e.v = d.v
  BY <1>2, EditsAtShape
<1>7. PlaceInv(edits', place) /\ AloneInv(edits', page'.reload)
  BY <1>2, <1>4, EditsAtInv
<1>8. VersionInv'
  BY <1>2, <1>3, <1>4, <1>6 DEF VersionInv
<1>9. left' \in Nat
  BY <1>2, SpentType
<1>10. QED
  BY <1>1, <1>2, <1>4, <1>5, <1>6, <1>7, <1>8, <1>9

\* What a page's request is answered, and the page's taking it.
LEMMA PageAnswerStep ==
  ASSUME PInv, page' \in Page, PageInv(page', url),
         page'.reload = page.reload, page'.due = page.due,
         UNCHANGED <<db, url, shell, drawer, edits>>, left' \in Nat
  PROVE  PInv'
<1>1. VersionInv'
  BY DEF PInv, VersionInv
<1>2. QED
  BY <1>1 DEF PInv, Shapes

LEMMA ServePageStep ==
  ASSUME PInv, NEW f \in page.air, ServePage(f)
  PROVE  PInv'
<1> USE DEF PInv, Shapes
<1>1. PICK ok \in BOOLEAN :
        /\ Outcome(ok)
        /\ page' = [page EXCEPT !.air = (page.air \ {f}) \cup
             {[f EXCEPT !.got = <<IF ok THEN [v |-> db.v, owner |-> db.owner] ELSE Null>>]}]
  BY DEF ServePage
<1> DEFINE answer == IF ok THEN [v |-> db.v, owner |-> db.owner] ELSE Null
           g == [f EXCEPT !.got = <<answer>>]
<1>2. answer \in Answer /\ (answer # Null => answer.v = db.v)
  BY DEF Answer, Database
<1> HIDE DEF answer
<1>3. f \in PageRequest
  BY DEF Page
<1>4. g \in PageRequest
  BY <1>2, <1>3 DEF PageRequest, Maybe
<1>5. g.seq = f.seq /\ g.asks = f.asks /\ g.got = <<answer>> /\ g.got[1] = answer
  BY <1>3 DEF PageRequest
<1> HIDE DEF g
<1>6. page' = [page EXCEPT !.air = (page.air \ {f}) \cup {g}]
  BY <1>1 DEF g, answer
<1>7. page' \in Page
  BY <1>4, <1>6 DEF Page
<1>8. /\ page'.air = (page.air \ {f}) \cup {g} /\ page'.seq = page.seq /\ page'.shown = page.shown
      /\ page'.idle = page.idle /\ page'.due = page.due /\ page'.slips = page.slips
      /\ page'.reload = page.reload
  BY <1>6 DEF Page
<1>9. NumberInv(page')
  BY <1>5, <1>8 DEF PageInv, NumberInv
<1>10. ASSUME ~page'.idle
       PROVE  MatchInv(page', url) /\ ReachInv(page', url) /\ DueInv(page')
  <2>1. MatchInv(page, url) /\ ReachInv(page, url) /\ DueInv(page)
    BY <1>8, <1>10 DEF PageInv
  <2>2. MatchInv(page', url)
    BY <1>5, <1>8, <2>1 DEF MatchInv
  <2>3. ReachInv(page', url)
    BY <1>5, <1>8, <2>1 DEF ReachInv
  <2>4. answer # Null => answer.v >= page.due
    BY <1>2 DEF VersionInv, Page, Database
  <2>5. DueInv(page')
    BY <1>5, <1>8, <2>1, <2>4 DEF DueInv
  <2>6. QED
    BY <2>2, <2>3, <2>5
<1>11. PageInv(page', url)
  BY <1>9, <1>10 DEF PageInv
<1>12. QED
  BY <1>1, <1>7, <1>8, <1>11, OutcomeType, PageAnswerStep DEF ServePage

LEMMA AnswerPageStep ==
  ASSUME PInv, NEW f \in page.air, AnswerPage(f)
  PROVE  PInv'
<1> USE DEF PInv, Shapes
<1>1. /\ f \in PageRequest /\ f.got # << >> /\ f.seq \in Nat /\ page.seq \in Nat
      /\ f.got[1] \in Answer /\ f.got = <<f.got[1]>>
  BY DEF AnswerPage, Page, PageRequest, Maybe
<1>2. f.seq <= page.seq
  BY DEF PageInv, NumberInv
<1>3. CASE url.kind \in Guarded /\ f.seq # page.seq
  <2>1. page' = [page EXCEPT !.air = page.air \ {f}]
    BY <1>3 DEF AnswerPage
  <2>2. page' \in Page
    BY <2>1 DEF Page
  <2>3. /\ page'.air = page.air \ {f} /\ page'.seq = page.seq /\ page'.shown = page.shown
        /\ page'.idle = page.idle /\ page'.due = page.due /\ page'.slips = page.slips
        /\ page'.reload = page.reload
    BY <2>1 DEF Page
  <2>4. NumberInv(page')
    BY <2>3 DEF PageInv, NumberInv
  <2>5. ~page'.idle => MatchInv(page', url) /\ ReachInv(page', url) /\ DueInv(page')
    BY <1>3, <2>3 DEF PageInv, MatchInv, ReachInv, DueInv
  <2>6. PageInv(page', url)
    BY <2>4, <2>5 DEF PageInv
  <2>7. QED
    BY <2>2, <2>3, <2>6, PageAnswerStep DEF AnswerPage
<1>4. CASE ~(url.kind \in Guarded /\ f.seq # page.seq)
  <2> DEFINE view == [seq |-> f.seq, asks |-> f.asks, got |-> f.got[1]]
  <2>1. view \in [seq : Nat, asks : Asked, got : Answer]
    BY <1>1 DEF PageRequest
  <2>2. view.seq = f.seq /\ view.asks = f.asks /\ view.got = f.got[1]
    OBVIOUS
  <2> HIDE DEF view
  <2>3. page' = [page EXCEPT !.air = page.air \ {f}, !.shown = <<view>>]
    BY <1>4 DEF AnswerPage, Published, view
  <2>4. page' \in Page
    BY <2>1, <2>3 DEF Page, Maybe
  <2>5. /\ page'.air = page.air \ {f} /\ page'.seq = page.seq /\ page'.shown = <<view>>
        /\ page'.shown[1] = view /\ page'.shown # << >>
        /\ page'.idle = page.idle /\ page'.due = page.due /\ page'.slips = page.slips
        /\ page'.reload = page.reload
    BY <2>3 DEF Page
  <2>6. NumberInv(page')
    BY <1>2, <2>2, <2>5 DEF PageInv, NumberInv
  <2>7. ASSUME ~page'.idle
        PROVE  MatchInv(page', url) /\ ReachInv(page', url) /\ DueInv(page')
    <3>1. MatchInv(page, url) /\ ReachInv(page, url) /\ DueInv(page)
      BY <2>5, <2>7 DEF PageInv
    <3>2. MatchInv(page', url)
      BY <2>2, <2>5, <3>1 DEF MatchInv
    <3>3. ReachInv(page', url)
      BY <1>4, <2>2, <2>5 DEF ReachInv
    <3>4. DueInv(page')
      BY <1>1, <2>2, <2>5, <3>1 DEF DueInv
    <3>5. QED
      BY <3>2, <3>3, <3>4
  <2>8. PageInv(page', url)
    BY <2>6, <2>7 DEF PageInv
  <2>9. QED
    BY <2>4, <2>5, <2>8, PageAnswerStep DEF AnswerPage
<1>5. QED
  BY <1>3, <1>4

LEMMA ListAnswerStep ==
  ASSUME PInv, shell' \in Shell, ListInv(shell'), shell'.due = shell.due,
         UNCHANGED <<db, url, page, drawer, edits>>, left' \in Nat
  PROVE  PInv'
<1>1. VersionInv'
  BY DEF PInv, VersionInv
<1>2. QED
  BY <1>1 DEF PInv, Shapes

LEMMA ServeListStep ==
  ASSUME PInv, NEW f \in shell.air, ServeList(f)
  PROVE  PInv'
<1> USE DEF PInv, Shapes
<1>1. PICK ok \in BOOLEAN :
        /\ Outcome(ok)
        /\ shell' = [shell EXCEPT !.air = (shell.air \ {f}) \cup
             {[f EXCEPT !.got = <<IF ok THEN [v |-> db.v, names |-> db.names] ELSE Null>>]}]
  BY DEF ServeList
<1> DEFINE answer == IF ok THEN [v |-> db.v, names |-> db.names] ELSE Null
           g == [f EXCEPT !.got = <<answer>>]
<1>2. answer \in List /\ (answer # Null => answer.v = db.v)
  BY DEF List, Database
<1> HIDE DEF answer
<1>3. f \in ListRequest
  BY DEF Shell
<1>4. g \in ListRequest
  BY <1>2, <1>3 DEF ListRequest, Maybe
<1>5. g.seq = f.seq /\ g.got = <<answer>> /\ g.got[1] = answer
  BY <1>3 DEF ListRequest
<1> HIDE DEF g
<1>6. shell' = [shell EXCEPT !.air = (shell.air \ {f}) \cup {g}]
  BY <1>1 DEF g, answer
<1>7. shell' \in Shell
  BY <1>4, <1>6 DEF Shell
<1>8. /\ shell'.air = (shell.air \ {f}) \cup {g} /\ shell'.tick = shell.tick
      /\ shell'.seq = shell.seq /\ shell'.v = shell.v /\ shell'.due = shell.due
  BY <1>6 DEF Shell
<1>9. answer # Null => answer.v >= shell.due
  BY <1>2 DEF VersionInv, Shell, Database
<1>10. ListInv(shell')
  BY <1>5, <1>8, <1>9 DEF ListInv
<1>11. QED
  BY <1>1, <1>7, <1>8, <1>10, OutcomeType, ListAnswerStep DEF ServeList

LEMMA AnswerListStep ==
  ASSUME PInv, NEW f \in shell.air, AnswerList(f)
  PROVE  PInv'
<1> USE DEF PInv, Shapes
<1>1. f \in ListRequest /\ f.got # << >> /\ f.seq \in Nat /\ f.got[1] \in List
  BY DEF AnswerList, Shell, ListRequest, Maybe
<1>2. f.seq <= shell.tick
  BY DEF ListInv
<1>3. CASE f.got[1] = Null
  <2>1. /\ shell' = [shell EXCEPT !.air = shell.air \ {f}, !.seq = shell.seq,
                                  !.v = shell.v, !.names = shell.names]
    BY <1>3 DEF AnswerList
  <2>2. shell' \in Shell
    BY <2>1 DEF Shell
  <2>3. /\ shell'.air = shell.air \ {f} /\ shell'.tick = shell.tick /\ shell'.seq = shell.seq
        /\ shell'.v = shell.v /\ shell'.due = shell.due
    BY <2>1 DEF Shell
  <2>4. ListInv(shell')
    BY <2>3 DEF ListInv
  <2>5. QED
    BY <2>2, <2>3, <2>4, ListAnswerStep DEF AnswerList
<1>4. CASE f.got[1] # Null
  <2>1. f.got[1].v \in Nat /\ f.got[1].names \in Titles
    BY <1>1, <1>4 DEF List
  <2>2. /\ shell' = [shell EXCEPT !.air = shell.air \ {f}, !.seq = f.seq,
                                  !.v = f.got[1].v, !.names = f.got[1].names]
    BY <1>4 DEF AnswerList
  <2>3. shell' \in Shell
    BY <1>1, <2>1, <2>2 DEF Shell
  <2>4. /\ shell'.air = shell.air \ {f} /\ shell'.tick = shell.tick /\ shell'.seq = f.seq
        /\ shell'.v = f.got[1].v /\ shell'.due = shell.due
    BY <2>2 DEF Shell
  <2>5. f.seq = shell.tick => f.got[1].v >= shell.due
    BY <1>1, <1>4 DEF ListInv
  <2>6. ListInv(shell')
    BY <1>2, <2>4, <2>5 DEF ListInv
  <2>7. QED
    BY <2>3, <2>4, <2>6, ListAnswerStep DEF AnswerList
<1>5. QED
  BY <1>3, <1>4

-----------------------------------------------------------------------------
(* The drawer.                                                             *)

LEMMA DrawerStep ==
  ASSUME PInv, drawer' \in Drawer, DrawerInv(drawer'), HostInv(drawer', url),
         UNCHANGED <<db, url, page, shell, edits>>, left' \in Nat
  PROVE  PInv'
<1>1. VersionInv'
  BY DEF PInv, VersionInv
<1>2. QED
  BY <1>1 DEF PInv, Shapes

\* The effect of the drawer: what it manages now is being loaded.
LEMMA ManagingInv ==
  ASSUME NEW d \in Drawer, DrawerInv(d), NEW id \in Projects \cup {Null}
  PROVE  /\ Managing(d, id) \in Drawer /\ DrawerInv(Managing(d, id))
         /\ Managing(d, id).managed = id
<1> DEFINE f == [seq |-> d.seq + 1, id |-> id]
           n == [d EXCEPT !.managed = id, !.seq = d.seq + 1, !.error = FALSE, !.typed = FALSE]
<1>1. d.seq \in Nat /\ \A g \in d.air : g.seq \in Nat /\ g.seq <= d.seq
  BY DEF Drawer, Load, DrawerInv
<1>2. n \in Drawer
  <2>1. d.seq + 1 \in Nat /\ FALSE \in BOOLEAN
    BY <1>1
  <2>2. QED
    BY <2>1, Zenon DEF Drawer
<1>3. n.managed = id /\ n.seq = d.seq + 1 /\ n.air = d.air
  BY DEF Drawer
<1> HIDE DEF n
<1>4. CASE id = Null
  <2>1. Managing(d, id) = [n EXCEPT !.loaded = Null]
    BY <1>4 DEF Managing, n
  <2>2. [n EXCEPT !.loaded = Null] \in Drawer
    BY <1>2 DEF Drawer, Held
  <2>3. /\ Managing(d, id).managed = Null /\ Managing(d, id).seq = d.seq + 1
        /\ Managing(d, id).air = d.air
    BY <1>2, <1>3, <1>4, <2>1 DEF Drawer
  <2>4. QED
    BY <1>1, <1>4, <2>1, <2>2, <2>3 DEF DrawerInv
<1>5. CASE id # Null
  <2>1. f \in Load /\ f.seq = d.seq + 1 /\ f.id = id
    BY <1>1, <1>5 DEF Load
  <2>2. Managing(d, id) = [n EXCEPT !.air = d.air \cup {f}]
    BY <1>3, <1>5 DEF Managing, n
  <2> HIDE DEF f
  <2>3. [n EXCEPT !.air = d.air \cup {f}] \in Drawer
    BY <1>2, <2>1 DEF Drawer
  <2>4. /\ Managing(d, id).managed = id /\ Managing(d, id).seq = d.seq + 1
        /\ Managing(d, id).air = d.air \cup {f}
    BY <1>2, <1>3, <2>2 DEF Drawer
  <2>5. QED
    BY <1>1, <2>1, <2>2, <2>3, <2>4 DEF DrawerInv
<1>6. QED
  BY <1>4, <1>5

\* What manages the same project, or none.
LEMMA HostKeeps ==
  ASSUME HostInv(drawer, url), NEW n, n.managed \in {Null, drawer.managed}
  PROVE  HostInv(n, url)
  BY DEF HostInv

\* What does not change the load and what is managed.
LEMMA DrawerKeeps ==
  ASSUME NEW d \in Drawer, DrawerInv(d), NEW n,
         n.air = d.air, n.seq = d.seq, n.managed = d.managed,
         \/ n.error
         \/ n.error = d.error /\ n.loaded = d.loaded /\ n.typed
         \/ n.error = d.error /\ n.loaded = d.loaded /\ n.typed = d.typed /\ n.name = d.name
  PROVE  DrawerInv(n)
  BY DEF DrawerInv, Drawer

LEMMA ManageStep ==
  ASSUME PInv, NEW id \in Projects, Manage(id)
  PROVE  PInv'
<1>1. drawer' \in Drawer /\ DrawerInv(drawer') /\ left' \in Nat
  BY ManagingInv, SpentType DEF Manage, Moves, PInv, Shapes
<1>2. HostInv(drawer', url)
  BY DEF Manage, HostInv
<1>3. QED
  BY <1>1, <1>2, DrawerStep DEF Manage

LEMMA CloseDrawerStep ==
  ASSUME PInv, CloseDrawer
  PROVE  PInv'
<1>1. /\ drawer' \in Drawer /\ DrawerInv(drawer') /\ drawer'.managed = Null
      /\ left' \in Nat
  BY ManagingInv, SpentType DEF CloseDrawer, Moves, PInv, Shapes
<1>2. HostInv(drawer', url)
  BY <1>1 DEF HostInv
<1>3. QED
  BY <1>1, <1>2, DrawerStep DEF CloseDrawer

LEMMA TypeNameStep ==
  ASSUME PInv, NEW name \in Typed \cup {Null}, TypeName(name)
  PROVE  PInv'
<1> USE DEF PInv, Shapes
<1>1. drawer' = [drawer EXCEPT !.name = name, !.typed = TRUE] /\ name \in Names \cup {Null}
  BY DEF TypeName
<1>2. drawer' \in Drawer
  BY <1>1 DEF Drawer
<1>3. /\ drawer'.air = drawer.air /\ drawer'.seq = drawer.seq /\ drawer'.managed = drawer.managed
      /\ drawer'.error = drawer.error /\ drawer'.loaded = drawer.loaded /\ drawer'.typed
  BY <1>1 DEF Drawer
<1>4. DrawerInv(drawer')
  BY <1>3, DrawerKeeps
<1>5. left' \in Nat
  BY SpentType DEF TypeName, Moves
<1>6. HostInv(drawer', url)
  BY <1>3, HostKeeps
<1>7. QED
  BY <1>2, <1>4, <1>5, <1>6, DrawerStep DEF TypeName

\* A load that counts is of what is managed: it succeeds, or the drawer says not.
LEMMA LoadedInv ==
  ASSUME PInv, NEW f \in drawer.air, f.seq = drawer.seq,
         NEW found \in BOOLEAN, NEW listed \in BOOLEAN
  PROVE  /\ Loaded(f, found, listed) \in Drawer /\ DrawerInv(Loaded(f, found, listed))
         /\ Loaded(f, found, listed).managed = drawer.managed
<1> USE DEF PInv, Shapes
<1> DEFINE d == [drawer EXCEPT !.air = drawer.air \ {f}, !.listed = drawer.listed \/ listed,
                               !.owner = IF listed THEN db.owner ELSE drawer.owner]
           held == [id |-> f.id, name |-> db.names[f.id]]
<1>1. f.id \in Projects /\ f.id = drawer.managed
  BY DEF Drawer, Load, DrawerInv
<1>2. db.names[f.id] \in Names \cup {Null} /\ db.owner \in Projects \cup {Null}
  BY <1>1 DEF Database, Titles
<1>3. d \in Drawer
  <2>1. (drawer.listed \/ listed) \in BOOLEAN
    OBVIOUS
  <2>2. drawer.air \ {f} \in SUBSET Load
    BY DEF Drawer
  <2>3. (IF listed THEN db.owner ELSE drawer.owner) \in Projects \cup {Null}
    BY <1>2 DEF Drawer
  <2>4. QED
    BY <2>1, <2>2, <2>3 DEF Drawer
<1>4. d.air = drawer.air \ {f} /\ d.seq = drawer.seq /\ d.managed = drawer.managed
  BY DEF Drawer
<1>5. CASE ~found \/ db.names[f.id] = Null
  <2>1. Loaded(f, found, listed) = [d EXCEPT !.error = TRUE]
    BY <1>5 DEF Loaded
  <2> HIDE DEF d
  <2>2. [d EXCEPT !.error = TRUE] \in Drawer
    BY <1>3 DEF Drawer
  <2>3. /\ DrawerInv([d EXCEPT !.error = TRUE])
        /\ [d EXCEPT !.error = TRUE].managed = drawer.managed
    BY <1>3, <1>4 DEF DrawerInv, Drawer
  <2>4. QED
    BY <2>1, <2>2, <2>3
<1>6. CASE ~(~found \/ db.names[f.id] = Null)
  <2>1. /\ Loaded(f, found, listed) =
             [d EXCEPT !.loaded = held, !.name = db.names[f.id], !.typed = FALSE]
    BY <1>6 DEF Loaded
  <2>2. held \in Held /\ held.id = drawer.managed /\ held.name = db.names[f.id]
    BY <1>1, <1>2 DEF Held
  <2> HIDE DEF d, held
  <2>3. [d EXCEPT !.loaded = held, !.name = db.names[f.id], !.typed = FALSE] \in Drawer
    BY <1>2, <1>3, <2>2 DEF Drawer
  <2>4. DrawerInv([d EXCEPT !.loaded = held, !.name = db.names[f.id], !.typed = FALSE])
    BY <1>3, <1>4, <2>2 DEF DrawerInv, Drawer
  <2>5. [d EXCEPT !.loaded = held, !.name = db.names[f.id], !.typed = FALSE].managed = drawer.managed
    BY <1>3, <1>4 DEF Drawer
  <2>6. QED
    BY <2>1, <2>3, <2>4, <2>5
<1>7. QED
  BY <1>5, <1>6

LEMMA AnswerLoadStep ==
  ASSUME PInv, NEW f \in drawer.air, AnswerLoad(f)
  PROVE  PInv'
<1> USE DEF PInv, Shapes
<1>1. PICK found \in BOOLEAN, listed \in BOOLEAN :
        /\ Outcome(found /\ listed)
        /\ drawer' = IF f.seq # drawer.seq THEN [drawer EXCEPT !.air = drawer.air \ {f}]
                     ELSE Loaded(f, found, listed)
  BY DEF AnswerLoad
<1>2. CASE f.seq # drawer.seq
  <2>1. drawer' = [drawer EXCEPT !.air = drawer.air \ {f}]
    BY <1>1, <1>2
  <2>2. drawer' \in Drawer
    BY <2>1 DEF Drawer
  <2>3. /\ drawer'.air = drawer.air \ {f} /\ drawer'.seq = drawer.seq
        /\ drawer'.managed = drawer.managed /\ drawer'.error = drawer.error
        /\ drawer'.loaded = drawer.loaded /\ drawer'.typed = drawer.typed /\ drawer'.name = drawer.name
    BY <2>1 DEF Drawer
  <2>4. DrawerInv(drawer')
    BY <1>2, <2>3 DEF DrawerInv
  <2>5. HostInv(drawer', url)
    BY <2>3, HostKeeps
  <2>6. QED
    BY <1>1, <2>2, <2>4, <2>5, OutcomeType, DrawerStep DEF AnswerLoad
<1>3. CASE f.seq = drawer.seq
  <2>1. drawer' \in Drawer /\ DrawerInv(drawer') /\ drawer'.managed = drawer.managed
    BY <1>1, <1>3, LoadedInv
  <2>2. HostInv(drawer', url)
    BY <2>1, HostKeeps
  <2>3. QED
    BY <1>1, <2>1, <2>2, OutcomeType, DrawerStep DEF AnswerLoad
<1>4. QED
  BY <1>2, <1>3

-----------------------------------------------------------------------------
(* Clicks.                                                                 *)

\* A new edit of the page overlaps every other of it, and only then is not alone.
LEMMA ClickStep ==
  ASSUME PInv,
         NEW what \in Creations \cup {"rename", "member", "delete", "danger", "assign", "triage", "pixel"},
         NEW id \in Projects \cup {Null}, NEW name \in Names \cup {Null}, Click(what, id, name),
         what = "triage" => url.kind = "Exception", what = "pixel" => url.kind = "Pixels",
         what = "danger" => url.kind = "Settings",
         what \in Managed => url.kind \in {"Overview", "Settings"},
         drawer' \in Drawer, DrawerInv(drawer'), HostInv(drawer', url)
  PROVE  PInv'
<1> USE DEF PInv, Shapes
<1> DEFINE Marked(e) == [e EXCEPT !.alone = e.alone /\ (what \in Creations \/ ~Own(e))]
           only == \A e \in edits : ~Own(e)
           n == [what |-> what, id |-> id, name |-> name, reload |-> page.reload, at |-> url,
                 knew |-> drawer.loaded, home |-> TRUE, alone |-> only,
                 stage |-> "sent", v |-> 0, nth |-> left]
<1>1. edits' = {Marked(e) : e \in edits} \cup {n} /\ UNCHANGED <<db, url, page, shell>>
  BY DEF Click
<1>2. n \in Edit
  <2>1. only \in BOOLEAN
    OBVIOUS
  <2> HIDE DEF only
  <2>2. page.reload \in Nat /\ drawer.loaded \in Held
    BY DEF Page, Drawer
  <2>3. QED
    BY <2>1, <2>2 DEF Edit
<1>3. /\ n.v = 0 /\ n.at = url /\ n.what = what /\ n.reload = page.reload /\ n.home
      /\ (n.alone <=> only) /\ (Own(n) <=> what \notin Creations)
  BY DEF Own
<1>4. ASSUME NEW e \in edits
      PROVE  /\ Marked(e) \in Edit
             /\ Marked(e).v = e.v /\ Marked(e).at = e.at /\ Marked(e).what = e.what
             /\ Marked(e).reload = e.reload /\ (Own(Marked(e)) <=> Own(e))
             /\ Marked(e).alone => e.alone /\ (what \in Creations \/ ~Own(e))
  <2>1. e \in Edit /\ (e.alone /\ (what \in Creations \/ ~Own(e))) \in BOOLEAN
    OBVIOUS
  <2>2. Marked(e) \in Edit
    BY <2>1 DEF Edit
  <2>3. /\ Marked(e).v = e.v /\ Marked(e).at = e.at /\ Marked(e).what = e.what
        /\ Marked(e).reload = e.reload /\ Marked(e).home = e.home
        /\ Marked(e).alone = (e.alone /\ (what \in Creations \/ ~Own(e)))
    BY <2>1 DEF Edit
  <2> HIDE DEF Marked
  <2>4. QED
    BY <2>2, <2>3 DEF Own
<1> HIDE DEF Marked, n
<1>5. edits' \subseteq Edit
  BY <1>1, <1>2, <1>4
<1>6. PlaceInv(edits', url)
  BY <1>1, <1>3, <1>4 DEF PlaceInv
<1>7. AloneInv(edits', page.reload)
  <2>1. ASSUME NEW e \in edits', Own(e), e.alone
        PROVE  e.reload = page.reload /\ \A d \in edits' : Own(d) => d = e
    <3>1. CASE what \in Creations
      <4>1. PICK x \in edits : e = Marked(x)
        BY <1>1, <1>3, <2>1, <3>1
      <4>2. x.alone /\ Own(x) /\ e.reload = x.reload
        BY <1>4, <2>1, <4>1
      <4>3. x.reload = page.reload /\ \A y \in edits : Own(y) => y = x
        BY <4>2 DEF AloneInv
      <4>4. \A d \in edits' : Own(d) => \E y \in edits : d = Marked(y) /\ Own(y)
        BY <1>1, <1>3, <1>4, <3>1
      <4>5. QED
        BY <4>1, <4>2, <4>3, <4>4
    <3>2. CASE what \notin Creations
      <4>1. e = n
        BY <1>1, <1>4, <2>1, <3>2
      <4>2. \A d \in edits' : Own(d) => d = n
        BY <1>1, <1>3, <1>4, <2>1, <4>1
      <4>3. QED
        BY <1>3, <4>1, <4>2
    <3>3. QED
      BY <3>1, <3>2
  <2>2. QED
    BY <2>1 DEF AloneInv
<1>8. VersionInv'
  BY <1>1, <1>3, <1>4 DEF VersionInv, Database
<1>9. left' \in Nat
  BY SpentType DEF Click, Moves
<1>10. QED
  BY <1>1, <1>5, <1>6, <1>7, <1>8, <1>9

LEMMA BusyInv ==
  ASSUME NEW d \in Drawer, DrawerInv(d), NEW busy \in BOOLEAN
  PROVE  /\ [d EXCEPT !.busy = busy] \in Drawer /\ DrawerInv([d EXCEPT !.busy = busy])
         /\ [d EXCEPT !.busy = busy].managed = d.managed
<1>1. [d EXCEPT !.busy = busy] \in Drawer
  BY DEF Drawer
<1>2. QED
  BY <1>1 DEF Drawer, DrawerInv

LEMMA ErrorInv ==
  ASSUME NEW d \in Drawer, DrawerInv(d)
  PROVE  /\ [d EXCEPT !.error = TRUE] \in Drawer /\ DrawerInv([d EXCEPT !.error = TRUE])
         /\ [d EXCEPT !.error = TRUE].managed = d.managed
<1>1. [d EXCEPT !.error = TRUE] \in Drawer
  BY DEF Drawer
<1>2. QED
  BY <1>1 DEF Drawer, DrawerInv

LEMMA RenameStep ==
  ASSUME PInv, Rename
  PROVE  PInv'
<1> USE DEF PInv, Shapes
<1>1. CASE drawer.name = Null
  <2>1. /\ drawer' \in Drawer /\ DrawerInv(drawer') /\ drawer'.managed = drawer.managed
        /\ left' \in Nat /\ UNCHANGED <<db, url, page, shell, edits>>
    BY <1>1, ErrorInv, SpentType DEF Rename, Moves
  <2>2. HostInv(drawer', url)
    BY <2>1, HostKeeps
  <2>3. QED
    BY <2>1, <2>2, DrawerStep
<1>2. CASE drawer.name # Null
  <2>1. drawer' = [drawer EXCEPT !.busy = TRUE] /\ Click("rename", drawer.managed, drawer.name)
    BY <1>2 DEF Rename
  <2>2. drawer.managed \in Projects \cup {Null} /\ drawer.name \in Names \cup {Null}
    BY DEF Drawer
  <2>3. url.kind \in {"Overview", "Settings"}
    BY DEF Rename, HostInv
  <2>4. drawer' \in Drawer /\ DrawerInv(drawer') /\ drawer'.managed = drawer.managed
    BY <2>1, BusyInv
  <2>5. HostInv(drawer', url)
    BY <2>4, HostKeeps
  <2>6. QED
    BY <2>1, <2>2, <2>3, <2>4, <2>5, ClickStep
<1>3. QED
  BY <1>1, <1>2

LEMMA DeleteStep ==
  ASSUME PInv, Delete
  PROVE  PInv'
<1> USE DEF PInv, Shapes
<1>1. drawer.managed \in Projects \cup {Null}
  BY DEF Drawer
<1>2. url.kind \in {"Overview", "Settings"}
  BY DEF Delete, HostInv
<1>3. drawer' \in Drawer /\ DrawerInv(drawer') /\ drawer'.managed = drawer.managed
  BY BusyInv DEF Delete
<1>4. HostInv(drawer', url)
  BY <1>3, HostKeeps
<1>5. QED
  BY <1>1, <1>2, <1>3, <1>4, ClickStep DEF Delete

LEMMA MemberStep ==
  ASSUME PInv, Member
  PROVE  PInv'
<1> USE DEF PInv, Shapes
<1>1. drawer.managed \in Projects \cup {Null}
  BY DEF Drawer
<1>2. url.kind \in {"Overview", "Settings"}
  BY DEF Member, HostInv
<1>3. QED
  BY <1>1, <1>2, ClickStep DEF Member

LEMMA AssignStep ==
  ASSUME PInv, NEW id \in Projects \cup {Null}, Assign(id)
  PROVE  PInv'
  BY ClickStep DEF Assign, PInv, Shapes

LEMMA DangerStep ==
  ASSUME PInv, NEW id \in Projects, Danger(id)
  PROVE  PInv'
  BY ClickStep DEF Danger, PInv, Shapes

LEMMA TriageStep ==
  ASSUME PInv, Triage
  PROVE  PInv'
  BY ClickStep DEF Triage, PInv, Shapes, Managed

LEMMA EditPixelStep ==
  ASSUME PInv, EditPixel
  PROVE  PInv'
  BY ClickStep DEF EditPixel, PInv, Shapes, Managed

LEMMA CreateStep ==
  ASSUME PInv, NEW what \in Creations, NEW name \in Typed, Create(what, name)
  PROVE  PInv'
<1>1. name \in Names \cup {Null} /\ what \notin Managed \cup {"triage", "pixel", "danger"}
  BY DEF Creations, Managed
<1>2. QED
  BY <1>1, ClickStep DEF Create, PInv, Shapes

-----------------------------------------------------------------------------
(* The server's answers to edits.                                          *)

\* An edit moves on; the page it is of, and when it was made, stay.
LEMMA StagedStep ==
  ASSUME PInv, NEW e \in edits, NEW next \in Edit, Staged(e, next),
         next.home = e.home, next.alone = e.alone, next.what = e.what, next.at = e.at,
         next.reload = e.reload,
         db' \in Database, db.v <= db'.v, next.v <= db'.v,
         UNCHANGED <<url, page, shell, drawer>>, left' \in Nat
  PROVE  PInv'
<1> USE DEF PInv, Shapes
<1>1. edits' = (edits \ {e}) \cup {next}
  BY DEF Staged
<1>2. edits' \subseteq Edit
  BY <1>1
<1>3. PlaceInv(edits', url)
  BY <1>1 DEF PlaceInv, Own
<1>4. AloneInv(edits', page.reload)
  <2>1. Own(next) <=> Own(e)
    BY DEF Own
  <2>2. ASSUME NEW x \in edits', Own(x), x.alone
        PROVE  x.reload = page.reload /\ \A d \in edits' : Own(d) => d = x
    <3>1. CASE x = next
      BY <1>1, <2>1, <2>2, <3>1 DEF AloneInv
    <3>2. CASE x # next
      <4>1. x \in edits /\ x # e
        BY <1>1, <2>2, <3>2
      <4>2. ~Own(e)
        BY <2>2, <4>1 DEF AloneInv
      <4>3. QED
        BY <1>1, <2>1, <2>2, <4>1, <4>2 DEF AloneInv
    <3>3. QED
      BY <3>1, <3>2
  <2>3. QED
    BY <2>2 DEF AloneInv
<1>5. VersionInv'
  <2>1. \A x \in edits : x.v \in Nat
    BY DEF Edit
  <2>2. page.due \in Nat /\ shell.due \in Nat /\ db.v \in Nat /\ db'.v \in Nat
    BY DEF Page, Shell, Database
  <2>3. QED
    BY <1>1, <2>1, <2>2 DEF VersionInv
<1>6. QED
  BY <1>2, <1>3, <1>4, <1>5

\* A write makes the next version.
LEMMA WrittenShape ==
  ASSUME db \in Database, NEW e \in Edit
  PROVE  Written(e) = Null \/ (Written(e) \in Database /\ Written(e).v = db.v + 1)
<1>1. /\ db.v + 1 \in Nat /\ db.names \in Titles /\ db.owner \in Projects \cup {Null}
      /\ e.id \in Projects \cup {Null} /\ e.name \in Names \cup {Null}
  BY DEF Database, Edit
<1>2. /\ [db.names EXCEPT ![e.id] = e.name] \in Titles
      /\ [db.names EXCEPT ![e.id] = Null] \in Titles
  BY <1>1 DEF Titles
<1>3. CASE e.what = "rename"
  <2>1. \/ Written(e) = Null
        \/ Written(e) = [db EXCEPT !.v = db.v + 1, !.names = [db.names EXCEPT ![e.id] = e.name]]
    BY <1>3 DEF Written, Database
  <2>2. QED
    BY <1>1, <1>2, <2>1 DEF Database
<1>4. CASE e.what \in {"delete", "danger"}
  <2> DEFINE owner == IF db.owner = e.id THEN Null ELSE db.owner
  <2>1. \/ Written(e) = Null
        \/ Written(e) = [db EXCEPT !.v = db.v + 1, !.names = [db.names EXCEPT ![e.id] = Null],
                                   !.owner = owner]
    BY <1>4 DEF Written, Database
  <2>2. owner \in Projects \cup {Null}
    BY <1>1
  <2> HIDE DEF owner
  <2>3. QED
    BY <1>1, <1>2, <2>1, <2>2 DEF Database
<1>5. CASE e.what \in {"assign", "member"}
  <2>1. Written(e) = [db EXCEPT !.v = db.v + 1, !.owner = e.id]
    BY <1>5 DEF Written
  <2>2. QED
    BY <1>1, <2>1 DEF Database
<1>6. CASE e.what \notin {"rename", "delete", "danger", "assign", "member"}
  <2>1. Written(e) = [db EXCEPT !.v = db.v + 1]
    BY <1>6 DEF Written
  <2>2. QED
    BY <1>1, <2>1 DEF Database
<1>7. QED
  BY <1>3, <1>4, <1>5, <1>6

LEMMA ServeEditStep ==
  ASSUME PInv, NEW e \in edits, ServeEdit(e)
  PROVE  PInv'
<1> USE DEF PInv, Shapes
<1>0. PICK ok \in BOOLEAN :
        /\ Outcome(ok)
        /\ \E w \in {IF ok THEN Written(e) ELSE Null} :
             /\ db' = IF w = Null THEN db ELSE w
             /\ Staged(e, [e EXCEPT !.stage = IF w = Null THEN "failed" ELSE "ok", !.v = db'.v])
  BY DEF ServeEdit
<1>1. PICK w \in {IF ok THEN Written(e) ELSE Null} :
        /\ db' = IF w = Null THEN db ELSE w
        /\ Staged(e, [e EXCEPT !.stage = IF w = Null THEN "failed" ELSE "ok", !.v = db'.v])
  BY <1>0
<1>2. e \in Edit /\ db.v \in Nat
  BY DEF Database
<1>3. db' \in Database /\ db.v <= db'.v /\ db'.v \in Nat
  <2>1. db' = db \/ (db' \in Database /\ db'.v = db.v + 1)
    BY <1>1, <1>2, WrittenShape
  <2>2. QED
    BY <1>2, <2>1
<1> DEFINE stage == IF w = Null THEN "failed" ELSE "ok"
           next == [e EXCEPT !.stage = stage, !.v = db'.v]
<1>4. stage \in {"sent", "created", "ok", "failed"}
  OBVIOUS
<1> HIDE DEF stage
<1>5. next \in Edit
  BY <1>2, <1>3, <1>4 DEF Edit
<1>6. /\ next.home = e.home /\ next.alone = e.alone /\ next.what = e.what /\ next.at = e.at
      /\ next.reload = e.reload /\ next.v = db'.v
  BY <1>2 DEF Edit
<1>7. Staged(e, next)
  BY <1>1, Zenon DEF stage
<1> HIDE DEF next
<1>8. left' \in Nat /\ UNCHANGED <<url, page, shell, drawer>>
  BY <1>0, OutcomeType DEF ServeEdit
<1>9. next.v <= db'.v
  BY <1>3, <1>6
<1>10. QED
  BY <1>3, <1>5, <1>6, <1>7, <1>8, <1>9, StagedStep

LEMMA ServeCreateStep ==
  ASSUME PInv, NEW e \in edits, ServeCreate(e)
  PROVE  PInv'
<1> USE DEF PInv, Shapes
<1>1. e \in Edit /\ db.v \in Nat /\ db.v + 1 \in Nat /\ e.v \in Nat /\ e.v <= db.v
  BY DEF Database, Edit, VersionInv
<1>2. ASSUME NEW id \in Projects,
             db' = [db EXCEPT !.v = @ + 1, !.names[id] = e.name],
             Staged(e, [e EXCEPT !.stage = IF e.what = "create" THEN "ok" ELSE "created",
                                 !.id = id, !.v = db.v + 1]),
             left' = left, UNCHANGED <<url, page, shell, drawer>>
      PROVE  PInv'
  <2> DEFINE stage == IF e.what = "create" THEN "ok" ELSE "created"
             next == [e EXCEPT !.stage = stage, !.id = id, !.v = db.v + 1]
  <2>1. stage \in {"sent", "created", "ok", "failed"}
    OBVIOUS
  <2>2. Staged(e, next)
    BY <1>2
  <2> HIDE DEF stage
  <2>3. next \in Edit
    BY <1>1, <2>1 DEF Edit
  <2>4. /\ next.home = e.home /\ next.alone = e.alone /\ next.what = e.what /\ next.at = e.at
        /\ next.reload = e.reload /\ next.v = db.v + 1
    BY <1>1 DEF Edit
  <2> HIDE DEF next
  <2>5. db' \in Database /\ db'.v = db.v + 1
    <3>1. [db.names EXCEPT ![id] = e.name] \in Titles
      BY <1>1 DEF Database, Titles, Edit
    <3>2. db' = [db EXCEPT !.v = db.v + 1, !.names = [db.names EXCEPT ![id] = e.name]]
      BY <1>2
    <3>3. QED
      BY <1>1, <3>1, <3>2 DEF Database
  <2>6. db.v <= db'.v /\ next.v <= db'.v /\ left' \in Nat
    BY <1>1, <1>2, <2>4, <2>5
  <2>7. QED
    BY <1>2, <2>2, <2>3, <2>4, <2>5, <2>6, StagedStep
<1>3. ASSUME Staged(e, [e EXCEPT !.stage = "failed"]), left' \in Nat,
             UNCHANGED <<db, url, page, shell, drawer>>
      PROVE  PInv'
  <2> DEFINE next == [e EXCEPT !.stage = "failed"]
  <2>1. next \in Edit
    BY <1>1 DEF Edit
  <2>2. /\ next.home = e.home /\ next.alone = e.alone /\ next.what = e.what /\ next.at = e.at
        /\ next.reload = e.reload /\ next.v = e.v
    BY <1>1 DEF Edit
  <2>3. Staged(e, next)
    BY <1>3
  <2> HIDE DEF next
  <2>4. db' \in Database /\ db.v <= db'.v /\ next.v <= db'.v
    BY <1>1, <1>3, <2>2
  <2>5. QED
    BY <1>3, <2>1, <2>2, <2>3, <2>4, StagedStep
<1>4. CASE /\ Outcome(FALSE) \/ (Taken(e.name, Null) /\ UNCHANGED left)
           /\ Staged(e, [e EXCEPT !.stage = "failed"])
           /\ UNCHANGED db
  <2>1. left' \in Nat
    BY <1>4, OutcomeType
  <2>2. QED
    BY <1>3, <1>4, <2>1 DEF ServeCreate
<1>5. QED
  BY <1>2, <1>4 DEF ServeCreate

LEMMA ServeAssignStep ==
  ASSUME PInv, NEW e \in edits, ServeAssign(e)
  PROVE  PInv'
<1> USE DEF PInv, Shapes
<1>1. PICK ok \in BOOLEAN :
        /\ Outcome(ok)
        /\ db' = IF ok THEN [db EXCEPT !.v = @ + 1, !.owner = e.id] ELSE db
        /\ Staged(e, [e EXCEPT !.stage = "ok", !.v = db'.v])
  BY DEF ServeAssign
<1>2. e \in Edit /\ db.v \in Nat /\ db.v + 1 \in Nat /\ e.id \in Projects \cup {Null}
  BY DEF Database, Edit
<1>3. db' \in Database /\ db.v <= db'.v /\ db'.v \in Nat
  <2>1. CASE ok
    <3>1. db' = [db EXCEPT !.v = db.v + 1, !.owner = e.id]
      BY <1>1, <2>1
    <3>2. db' \in Database /\ db'.v = db.v + 1
      BY <1>2, <3>1 DEF Database
    <3>3. QED
      BY <1>2, <3>2
  <2>2. CASE ~ok
    BY <1>1, <1>2, <2>2
  <2>3. QED
    BY <2>1, <2>2
<1> DEFINE next == [e EXCEPT !.stage = "ok", !.v = db'.v]
<1>4. next \in Edit
  BY <1>2, <1>3 DEF Edit
<1>5. /\ next.home = e.home /\ next.alone = e.alone /\ next.what = e.what /\ next.at = e.at
      /\ next.reload = e.reload /\ next.v = db'.v
  BY <1>2 DEF Edit
<1>6. Staged(e, next)
  BY <1>1
<1> HIDE DEF next
<1>7. left' \in Nat
  BY <1>1, OutcomeType
<1>8. next.v <= db'.v
  BY <1>3, <1>5
<1>9. UNCHANGED <<url, page, shell, drawer>>
  BY DEF ServeAssign
<1>10. QED
  BY <1>3, <1>4, <1>5, <1>6, <1>7, <1>8, <1>9, StagedStep

-----------------------------------------------------------------------------
(* An edit's answer reaches the page.                                      *)

LEMMA LatestIs == \A m, n \in Nat : /\ Latest(m, n) \in Nat /\ Latest(m, n) \in {m, n}
  BY DEF Latest

\* The list is asked for again, whatever is due by now.
LEMMA TickedInv ==
  ASSUME NEW s \in Shell, ListInv(s), NEW due \in Nat
  PROVE  LET t == Ticked([s EXCEPT !.due = due])
         IN  t \in Shell /\ ListInv(t) /\ t.due = due
<1> DEFINE r == [s EXCEPT !.due = due]
           f == [seq |-> s.tick + 1, got |-> << >>]
           t == [r EXCEPT !.tick = s.tick + 1, !.air = s.air \cup {f}]
<1>1. s.tick \in Nat /\ s.seq \in Nat /\ \A g \in s.air : g.seq \in Nat /\ g.seq <= s.tick
  BY DEF Shell, ListRequest, ListInv
<1>2. s.seq <= s.tick
  BY DEF ListInv
<1>3. f \in ListRequest
  BY <1>1 DEF ListRequest, Maybe
<1>4. r \in Shell /\ r.tick = s.tick /\ r.air = s.air /\ r.seq = s.seq /\ r.due = due
  BY DEF Shell
<1>5. f.seq = s.tick + 1 /\ f.got = << >>
  OBVIOUS
<1>6. Ticked(r) = t
  BY <1>4 DEF Ticked
<1> HIDE DEF r, f
<1>7. t \in Shell
  <2>1. s.tick + 1 \in Nat /\ s.air \cup {f} \in SUBSET ListRequest
    BY <1>1, <1>3 DEF Shell
  <2>2. QED
    BY <1>4, <2>1 DEF Shell
<1>8. t.tick = s.tick + 1 /\ t.air = s.air \cup {f} /\ t.seq = s.seq /\ t.due = due
  BY <1>4 DEF Shell
<1> HIDE DEF t
<1>9. ListInv(t)
  BY <1>1, <1>2, <1>5, <1>8 DEF ListInv
<1>10. QED
  BY <1>6, <1>7, <1>8, <1>9 DEF r

\* The drawer after its edit was answered.
LEMMA DrawerDoneInv ==
  ASSUME PInv, NEW e, NEW listed \in BOOLEAN
  PROVE  /\ DrawerDone(e, listed) \in Drawer /\ DrawerInv(DrawerDone(e, listed))
         /\ DrawerDone(e, listed).managed \in {Null, drawer.managed}
<1> USE DEF PInv, Shapes
<1>1. CASE DrawerDone(e, listed) = drawer
  BY <1>1
<1>2. CASE DrawerDone(e, listed) = [drawer EXCEPT !.busy = FALSE]
  BY <1>2, BusyInv
<1>3. CASE DrawerDone(e, listed) = Managing([drawer EXCEPT !.busy = FALSE], Null)
  <2>1. [drawer EXCEPT !.busy = FALSE] \in Drawer /\ DrawerInv([drawer EXCEPT !.busy = FALSE])
    BY BusyInv
  <2>2. Null \in Projects \cup {Null}
    OBVIOUS
  <2>3. QED
    BY <1>3, <2>1, <2>2, ManagingInv, Zenon
<1>4. CASE DrawerDone(e, listed) = [drawer EXCEPT !.owner = db.owner, !.listed = TRUE]
  <2> DEFINE d == [drawer EXCEPT !.owner = db.owner, !.listed = TRUE]
  <2>1. d \in Drawer
    BY DEF Drawer, Database
  <2>2. /\ d.air = drawer.air /\ d.seq = drawer.seq /\ d.managed = drawer.managed
        /\ d.error = drawer.error /\ d.loaded = drawer.loaded /\ d.typed = drawer.typed
        /\ d.name = drawer.name
    BY DEF Drawer
  <2> HIDE DEF d
  <2>3. DrawerInv(d)
    BY <2>2, DrawerKeeps
  <2>4. QED
    BY <1>4, <2>1, <2>2, <2>3 DEF d
<1>5. QED
  BY <1>1, <1>2, <1>3, <1>4 DEF DrawerDone

LEMMA LeadsReached ==
  ASSUME url \in Reached, NEW e \in Edit
  PROVE  Leads(e) \in Reached
<1>1. CASE e.what \in Creations
  <2>1. e.name \in Names \cup {Null}
    BY DEF Edit
  <2>2. Leads(e) = Place("Overview", Null, Null, e.name)
    BY <1>1 DEF Leads, Creations
  <2>3. QED
    BY <2>1, <2>2, Zenon DEF Reached
<1>2. CASE Leads(e) = Dashboard
  BY <1>2 DEF Reached, Dashboard
<1>3. QED
  BY <1>1, <1>2 DEF Leads

\* Pages whose edits fetch again watch their counter.
LEMMA RefetchWatched ==
  ASSUME PInv, NEW e \in edits, e.home, Refetches(e)
  PROVE  Own(e) /\ url.kind \notin {"Exceptions", "Event", "Trace"}
<1>1. e.what \notin Creations
  BY DEF Refetches, Creations
<1>2. e.at.kind = url.kind
  BY <1>1 DEF PInv, PlaceInv, Own
<1>3. e.at.kind \in {"Overview", "Exception", "Pixels", "Settings"}
  BY DEF Refetches, PInv, PlaceInv
<1>4. QED
  BY <1>1, <1>2, <1>3 DEF Own

\* An edit that comes home is seen by the page's effect, or there is a reason why not.
LEMMA SeenOrSlipped ==
  ASSUME PInv, NEW e \in edits, e.home, NEW reload,
         reload = IF Refetches(e) THEN e.reload + 1 ELSE page.reload
  PROVE  Seen(Leads(e), reload) \/ Slips(e) # {}
<1> USE DEF PInv, Shapes
<1> SUFFICES ASSUME ~Seen(Leads(e), reload), Slips(e) = {}
             PROVE  FALSE
  OBVIOUS
<1>1. Leads(e).kind = url.kind /\ Watches(Leads(e), reload) = Watches(url, page.reload)
  BY DEF Seen
<1>2. /\ ~("overlap" \in Slips(e)) /\ ~("settings" \in Slips(e)) /\ ~("filtered" \in Slips(e))
  OBVIOUS
<1>3. CASE e.what \in Creations
  <2>1. Leads(e) = Place("Overview", Null, Null, e.name)
    BY <1>3 DEF Leads, Creations
  <2>2. Leads(e).kind = "Overview" /\ Leads(e).chip = e.name
    BY <2>1 DEF Place
  <2>3. url.kind = "Overview" /\ url.chip = e.name
    BY <1>1, <2>2 DEF Watches
  <2>4. "filtered" \in Slips(e)
    BY <1>3, <2>3 DEF Slips
  <2>5. QED
    BY <1>2, <2>4
<1>4. CASE e.what \notin Creations
  <2>1. Own(e)
    BY <1>4 DEF Own
  <2>2. e.alone
    BY <1>2, <1>4 DEF Slips
  <2>3. e.reload = page.reload /\ e.at.kind = url.kind
    BY <2>1, <2>2 DEF AloneInv, PlaceInv
  <2>4. CASE Refetches(e)
    <3>1. reload = page.reload + 1 /\ page.reload \in Nat
      BY <2>3, <2>4 DEF Page
    <3>2. url.kind \notin {"Exceptions", "Event", "Trace"}
      BY <2>4, RefetchWatched
    <3>3. reload # page.reload
      BY <3>1
    <3>4. QED
      BY <1>1, <3>2, <3>3, CounterWatched
  <2>5. CASE ~Refetches(e)
    <3>1. e.what \in Managed \cup {"danger"}
      BY <1>4, <2>5 DEF Edit, Refetches, Managed
    <3>2. e.at.kind \in {"Overview", "Settings"} /\ (e.what = "danger" => e.at.kind = "Settings")
      BY <3>1 DEF PlaceInv
    <3>3. e.at.kind = "Settings" /\ e.what # "assign"
      BY <2>5, <3>1, <3>2 DEF Refetches, Managed
    <3>4. "settings" \in Slips(e)
      BY <1>4, <3>3 DEF Slips
    <3>5. QED
      BY <1>2, <3>4
  <2>6. QED
    BY <2>4, <2>5
<1>5. QED
  BY <1>3, <1>4

LEMMA SettleStep ==
  ASSUME PInv, NEW e \in edits, Settle(e)
  PROVE  PInv'
<1> USE DEF PInv, Shapes
<1> DEFINE place == Leads(e)
           refetch == e.home /\ Refetches(e)
           rest == edits \ {e}
<1>1. e \in Edit /\ e.v \in Nat /\ e.reload \in Nat /\ e.v <= db.v
  BY DEF Edit, VersionInv
<1>2. page.reload \in Nat /\ page.due \in Nat /\ page.due <= db.v /\ db.v \in Nat
  BY DEF Page, Database, VersionInv
<1>3. place \in Reached
  BY <1>1, LeadsReached
<1> DEFINE counter == IF refetch THEN e.reload + 1 ELSE page.reload
<1>4. counter \in Nat
  BY <1>1, <1>2
<1>5. /\ url' = place /\ UNCHANGED db
      /\ page' = Owing(PageAt(place, counter), e, Seen(place, counter))
      /\ edits' = EditsAt(place, rest)
      /\ shell' = IF Relists(e) THEN Ticked([shell EXCEPT !.due = Latest(@, e.v)]) ELSE shell
  BY DEF Settle
<1>6. PICK listed \in BOOLEAN :
        /\ IF e.what = "member" THEN Outcome(listed) ELSE listed /\ UNCHANGED left
        /\ drawer' = DrawerAt(place, DrawerDone(e, listed))
  BY DEF Settle
<1>7. e.home => Seen(place, counter) \/ Slips(e) # {}
  BY SeenOrSlipped
<1> HIDE DEF place
<1>8. left' \in Nat
  BY <1>6, OutcomeType
<1>9. drawer' \in Drawer /\ DrawerInv(drawer') /\ HostInv(drawer', place)
  <2>1. /\ DrawerDone(e, listed) \in Drawer /\ DrawerInv(DrawerDone(e, listed))
        /\ DrawerDone(e, listed).managed \in {Null, drawer.managed}
    BY DrawerDoneInv
  <2>2. QED
    BY <1>6, <2>1, HostKeeps, DrawerAtInv
<1>10. shell' \in Shell /\ ListInv(shell') /\ shell'.due <= db.v
  <2>1. shell.due \in Nat /\ shell.due <= db.v
    BY DEF Shell, VersionInv
  <2>2. CASE ~Relists(e)
    BY <1>5, <2>1, <2>2
  <2>3. CASE Relists(e)
    <3>1. Latest(shell.due, e.v) \in Nat /\ Latest(shell.due, e.v) <= db.v
      BY <1>1, <2>1, LatestIs
    <3>2. shell' = Ticked([shell EXCEPT !.due = Latest(shell.due, e.v)])
      BY <1>5, <2>3
    <3>3. QED
      BY <3>1, <3>2, TickedInv
  <2>4. QED
    BY <2>2, <2>3
<1>11. rest \in SUBSET Edit /\ PlaceInv(rest, url) /\ AloneInv(rest, page.reload)
  BY PlaceStays, AloneStays
<1>12. AloneInv(rest, counter)
  <2>1. CASE ~refetch
    BY <1>11, <2>1
  <2>2. CASE refetch
    <3>1. Own(e)
      BY <2>2, RefetchWatched
    <3>2. \A x \in rest : ~(Own(x) /\ x.alone)
      BY <3>1 DEF AloneInv
    <3>3. QED
      BY <3>2 DEF AloneInv
  <2>3. QED
    BY <2>1, <2>2
<1>13. /\ page' \in Page /\ PageInv(page', place) /\ page'.due <= db.v
       /\ place.kind = url.kind => page'.reload = counter
  <2>1. CASE e.home
    <3>1. /\ page' \in Page /\ PageInv(page', place) /\ page'.due \in {0, page.due, e.v}
          /\ place.kind = url.kind => page'.reload = counter
      BY <1>1, <1>3, <1>4, <1>5, <1>7, <2>1, OwingInv
    <3>2. QED
      BY <1>1, <1>2, <3>1
  <2>2. CASE ~e.home
    <3>1. page' = PageAt(place, counter)
      BY <1>5, <2>2 DEF Owing
    <3>2. /\ page' \in Page /\ PageInv(page', place) /\ page'.due \in {0, page.due}
          /\ place.kind = url.kind => page'.reload = counter
      BY <1>3, <1>4, <3>1, PageAtInv
    <3>3. QED
      BY <1>2, <3>2
  <2>3. QED
    BY <2>1, <2>2
<1>14. edits' \in SUBSET Edit /\ \A x \in edits' : \E d \in rest : x.v = d.v
  BY <1>5, <1>11, EditsAtShape
<1>15. PlaceInv(edits', place) /\ AloneInv(edits', page'.reload)
  BY <1>5, <1>11, <1>12, <1>13, EditsAtInv
<1>16. VersionInv'
  BY <1>5, <1>10, <1>13, <1>14 DEF VersionInv
<1>17. QED
  BY <1>3, <1>5, <1>8, <1>9, <1>10, <1>13, <1>14, <1>15, <1>16

LEMMA SettleFailedStep ==
  ASSUME PInv, NEW e \in edits, SettleFailed(e)
  PROVE  PInv'
<1> USE DEF PInv, Shapes
<1>1. edits' = edits \ {e} /\ UNCHANGED <<db, url, page, shell, left>>
  BY DEF SettleFailed
<1>2. edits' \in SUBSET Edit /\ PlaceInv(edits', url) /\ AloneInv(edits', page.reload)
  BY <1>1, PlaceStays, AloneStays
<1>3. VersionInv'
  BY <1>1 DEF VersionInv
<1>4. drawer' \in Drawer /\ DrawerInv(drawer')
  <2>1. CASE drawer' = drawer
    BY <2>1
  <2>2. CASE drawer' = [drawer EXCEPT !.error = TRUE, !.busy = IF e.what = "member" THEN @ ELSE FALSE]
    <3> DEFINE busy == IF e.what = "member" THEN drawer.busy ELSE FALSE
    <3>1. busy \in BOOLEAN
      BY DEF Drawer
    <3> HIDE DEF busy
    <3>2. drawer' = [drawer EXCEPT !.error = TRUE, !.busy = busy]
      BY <2>2 DEF busy
    <3>3. drawer' \in Drawer
      BY <3>1, <3>2 DEF Drawer
    <3>4. /\ drawer'.air = drawer.air /\ drawer'.seq = drawer.seq
          /\ drawer'.managed = drawer.managed /\ drawer'.error
      BY <3>2 DEF Drawer
    <3>5. DrawerInv(drawer')
      BY <3>4, DrawerKeeps
    <3>6. QED
      BY <3>3, <3>5
  <2>3. QED
    BY <2>1, <2>2 DEF SettleFailed
<1>5. drawer'.managed = drawer.managed
  BY DEF SettleFailed, Drawer
<1>6. QED
  BY <1>1, <1>2, <1>3, <1>4, <1>5, HostKeeps

-----------------------------------------------------------------------------
(* The theorems.                                                           *)

LEMMA PInvInit == Init => PInv
<1> SUFFICES ASSUME Init
             PROVE  PInv
  OBVIOUS
<1> DEFINE view == [seq |-> 0, asks |-> Asks(Dashboard), got |-> [v |-> 1, owner |-> Null]]
<1>1. Dashboard \in Reached
  BY DEF Dashboard, Reached
<1>2. view \in [seq : Nat, asks : Asked, got : Answer]
  BY <1>1 DEF Asked, Answer
<1>3. view.seq = 0 /\ view.asks = Asks(Dashboard) /\ view.got.v = 1
  OBVIOUS
<1> HIDE DEF view
<1>4. page = [NewPage EXCEPT !.shown = <<view>>]
  BY DEF Init, view
<1>5. page \in Page
  BY <1>2, <1>4, NewPageShape DEF Page, Maybe
<1>6. /\ page.seq = 0 /\ page.air = {} /\ page.due = 0 /\ page.shown = <<view>>
      /\ page.shown[1] = view /\ page.shown # << >>
  BY <1>4 DEF NewPage
<1>7. PageInv(page, url)
  <2>1. url = Dashboard /\ Matches(Asks(Dashboard), Dashboard)
    BY DEF Init, Matches
  <2>2. QED
    BY <1>3, <1>6, <2>1 DEF PageInv, NumberInv, MatchInv, ReachInv, DueInv
<1>8. First \in Titles
  BY DEF Titles
<1>9. db \in Database /\ db.v = 1
  BY <1>8 DEF Init, Database
<1>10. shell \in Shell /\ ListInv(shell) /\ shell.due = 0
  <2>1. shell \in Shell
    BY <1>8 DEF Init, Shell
  <2>2. ListInv(shell) /\ shell.due = 0
    BY DEF Init, ListInv
  <2>3. QED
    BY <2>1, <2>2
<1>11. drawer \in Drawer /\ DrawerInv(drawer) /\ HostInv(drawer, url)
  BY NewDrawerInv DEF Init, HostInv, NewDrawer
<1>12. edits = {} /\ left \in Nat
  BY DEF Init
<1>13. PlaceInv(edits, url) /\ AloneInv(edits, page.reload) /\ VersionInv
  BY <1>6, <1>9, <1>10, <1>12 DEF PlaceInv, AloneInv, VersionInv
<1>14. QED
  BY <1>1, <1>5, <1>7, <1>9, <1>10, <1>11, <1>12, <1>13 DEF Init, PInv, Shapes

LEMMA PInvStep == PInv /\ [Next]_vars => PInv'
<1> SUFFICES ASSUME PInv, [Next]_vars
             PROVE  PInv'
  OBVIOUS
<1>1. CASE UNCHANGED vars
  BY <1>1 DEF vars, PInv, Shapes, VersionInv
<1>2. CASE \E place \in Destinations : Go(place)
  BY <1>2, GoStep DEF Destinations
<1>3. CASE \E f \in page.air : ServePage(f) \/ AnswerPage(f)
  BY <1>3, ServePageStep, AnswerPageStep
<1>4. CASE \E f \in shell.air : ServeList(f) \/ AnswerList(f)
  BY <1>4, ServeListStep, AnswerListStep
<1>5. CASE \E f \in drawer.air : AnswerLoad(f)
  BY <1>5, AnswerLoadStep
<1>6. CASE \E id \in Projects : Manage(id) \/ Danger(id)
  BY <1>6, ManageStep, DangerStep
<1>7. CASE \E id \in Projects \cup {Null} : Assign(id)
  BY <1>7, AssignStep
<1>8. CASE \E name \in Typed \cup {Null} : TypeName(name)
  BY <1>8, TypeNameStep
<1>9. CASE \E name \in Typed, what \in Creations : Create(what, name)
  BY <1>9, CreateStep
<1>10. CASE CloseDrawer \/ Rename \/ Delete \/ Member \/ Triage \/ EditPixel
  BY <1>10, CloseDrawerStep, RenameStep, DeleteStep, MemberStep, TriageStep, EditPixelStep
<1>11. CASE \E e \in edits : ServeEdit(e) \/ ServeCreate(e) \/ ServeAssign(e)
                             \/ Settle(e) \/ SettleFailed(e)
  BY <1>11, ServeEditStep, ServeCreateStep, ServeAssignStep, SettleStep, SettleFailedStep
<1>12. QED
  BY <1>1, <1>2, <1>3, <1>4, <1>5, <1>6, <1>7, <1>8, <1>9, <1>10, <1>11 DEF Next

\* What is asked and answered, by number; what is due; and what the drawer holds:
\* the invariant the other theorems follow from.
THEOREM PagesInductive == Spec => []PInv
  BY PInvInit, PInvStep, PTL DEF Spec

\* A page at rest shows what its URL asks, wherever the operator went meanwhile
\* and in whatever order the answers came (ui/src/pages, app.rs:150-164).
THEOREM PagesAnswer == Spec => []AnswersItsUrl
<1>1. PInv => AnswersItsUrl
  <2> SUFFICES ASSUME PInv, page.air = {}, ~page.idle
               PROVE  /\ page.shown # << >>
                      /\ url.kind \in Guarded \/ page.shown[1].seq = page.seq => ShowsItsUrl
    BY DEF AnswersItsUrl
  <2>1. MatchInv(page, url) /\ ReachInv(page, url)
    BY DEF PInv, PageInv
  <2>2. page.shown # << >> /\ (url.kind \in Guarded => page.shown[1].seq = page.seq)
    BY <2>1 DEF ReachInv
  <2>3. page.shown[1].seq = page.seq => ShowsItsUrl
    BY <2>1, <2>2 DEF MatchInv, Matches, ShowsItsUrl
  <2>4. QED
    BY <2>2, <2>3
<1>2. QED
  BY <1>1, PagesInductive, PTL

\* What the operator changed shows in the project list, and on the page that made it
\* or the dashboard it leads to, once they are at rest: unless two edits overlapped,
\* the settings' drawer or danger zone made it, or the dashboard was filtered to the
\* project already, and then until the page asks again (shell.rs:34-70,
\* dashboard.rs:149-152, settings.rs:55-62 and 112-128).
THEOREM EditsAreShown == Spec => []EditsShow
<1>1. PInv => EditsShow
  BY DEF PInv, PageInv, DueInv, ListInv, EditsShow, Shows
<1>2. QED
  BY <1>1, PagesInductive, PTL

\* The project drawer never mixes the projects it is switched between
\* (project_drawer.rs:38-77).
THEOREM DrawerIsOfOne == Spec => []DrawerManages
<1>1. PInv => DrawerManages
  BY DEF PInv, DrawerInv, DrawerManages
<1>2. QED
  BY <1>1, PagesInductive, PTL
=============================================================================
