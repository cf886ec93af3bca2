------------------------------- MODULE Pages -------------------------------
(***************************************************************************)
(* The pages of the dashboard (src/ui) as their requests see them: the     *)
(* route mounts a page, the page fetches whenever what its effect watches  *)
(* changes, the operator edits through the page, the project drawer and    *)
(* the shell, and every request is answered some time later, in any order  *)
(* or not at all well.  What a page draws is left to Reports.              *)
(***************************************************************************)
EXTENDS Integers, FiniteSets

CONSTANTS
  Null,      \* no value, and a request that failed
  Projects,  \* project ids
  Names,     \* project names
  First,     \* the projects there are at first: each id's name, or Null
  Places,    \* where the operator may go
  Typed,     \* names the operator types
  MaxMoves,  \* what the operator does and the requests that fail, in all
  MaxOpen    \* requests in the air when the operator acts

\* A place is a route with what identifies its page, and the project chip of the
\* filters: a name, or an id in an old link.
Place(kind, key, source, chip) ==
  [kind |-> kind, key |-> key, source |-> source, chip |-> chip]

ASSUME PagesAssumption ==
  /\ Null \notin Projects \cup Names
  /\ Typed \subseteq Names
  /\ First \in [Projects -> Names \cup {Null}]
  /\ MaxMoves \in Nat
  /\ \A p \in Places : p.chip \in Projects \cup Names \cup {Null}

VARIABLES
  db,       \* the server: a version, the projects' names, the source's project
  url,      \* the place of the operator
  page,     \* the page mounted there
  shell,    \* the shell around every page: the project list
  drawer,   \* the project drawer of the dashboard or of the settings
  edits,    \* edits sent and not yet done with
  left      \* what may still happen; bounds the model

vars == <<db, url, page, shell, drawer, edits, left>>

\* A page: its reload counter, its requests in the air with the last one's
\* number, what it shows, if anything (what was asked, and the version and the
\* source's project of the answer); and histories: the version its edits have
\* reached, why it has not asked since one of them (Slips), and whether the last
\* run of its effect asked nothing.
NewPage ==
  [reload |-> 0, seq |-> 0, air |-> {}, shown |-> << >>, due |-> 0, slips |-> {}, idle |-> FALSE]

NewDrawer ==
  [managed |-> Null, loaded |-> Null, name |-> Null, owner |-> Null, listed |-> FALSE,
   error |-> FALSE, busy |-> FALSE, typed |-> FALSE, seq |-> 0, air |-> {}]

Dashboard == Place("Overview", Null, Null, Null)

-----------------------------------------------------------------------------
(* Fetching.                                                               *)

\* What each page's effect watches.  An exception's source is not among it.
Watches(place, reload) ==
  CASE place.kind = "Overview" -> <<place.chip, reload>>
    [] place.kind = "Exceptions" -> <<place.chip>>
    [] place.kind = "Exception" -> <<place.key, place.chip, reload>>
    [] place.kind = "Event" -> <<place.key, place.chip>>
    [] place.kind = "Trace" -> <<place.key>>
    [] OTHER -> <<reload>>

\* What it asks the server.
Asks(place) ==
  CASE place.kind \in {"Overview", "Exceptions"} -> <<place.chip>>
    [] place.kind = "Exception" -> <<place.key, place.source, place.chip>>
    [] place.kind = "Event" -> <<place.key, place.chip>>
    [] place.kind = "Trace" -> <<place.key>>
    [] OTHER -> << >>

\* A link to an exception without its source, or an event without its name, is
\* broken: nothing is asked.
Broken(place) ==
  \/ place.kind = "Exception" /\ place.source = Null
  \/ place.kind = "Event" /\ place.key = Null

\* Only the dashboard and the inbox drop an answer that is not the latest's.
Guarded == {"Overview", "Exceptions"}

\* A project is created with the sources chosen, or with none.
Creations == {"create", "createWith"}

Requested(p, place) ==
  IF Broken(place) THEN [p EXCEPT !.idle = TRUE]
  ELSE [p EXCEPT !.seq = @ + 1, !.idle = FALSE, !.slips = {},
                 !.air = @ \cup {[seq |-> p.seq + 1, asks |-> Asks(place), got |-> << >>]}]

\* The URL or the counter changes, and an effect sees it.
Seen(place, reload) ==
  place.kind # url.kind \/ Watches(place, reload) # Watches(url, page.reload)

\* The page after that: another route mounts another page, and what was in the air
\* for the old one is dropped with it.
PageAt(place, reload) ==
  LET p == [page EXCEPT !.reload = reload]
  IN IF place.kind # url.kind THEN Requested(NewPage, place)
     ELSE IF Seen(place, reload) THEN Requested(p, place) ELSE p

DrawerAt(place, d) == IF place.kind # url.kind THEN NewDrawer ELSE d

\* Edits in the air go on without the page that sent them.
EditsAt(place, es) ==
  IF place.kind = url.kind THEN es
  ELSE {IF e.what \in Creations THEN e ELSE [e EXCEPT !.home = FALSE] : e \in es}

\* The shell's counter goes through a reducer: no tick is lost.
Ticked(s) ==
  [s EXCEPT !.tick = @ + 1, !.air = @ \cup {[seq |-> s.tick + 1, got |-> << >>]}]

\* The drawer's effect: it loads what it manages, and only the latest load counts.
Managing(d, id) ==
  LET next == [d EXCEPT !.managed = id, !.seq = @ + 1, !.error = FALSE, !.typed = FALSE]
  IN IF id = Null THEN [next EXCEPT !.loaded = Null]
     ELSE [next EXCEPT !.air = @ \cup {[seq |-> next.seq, id |-> id]}]

\* The dashboard is open and has loaded.
Init ==
  /\ db = [v |-> 1, owner |-> Null, names |-> First]
  /\ url = Dashboard
  /\ page = [NewPage EXCEPT !.shown =
       <<[seq |-> 0, asks |-> Asks(Dashboard), got |-> [v |-> 1, owner |-> Null]]>>]
  /\ shell = [tick |-> 0, air |-> {}, seq |-> 0, v |-> 1, due |-> 0, names |-> First]
  /\ drawer = NewDrawer
  /\ edits = {}
  /\ left = MaxMoves

\* The operator does something.
Spent == left > 0 /\ left' = left - 1
Moves ==
  /\ Cardinality(page.air) + Cardinality(shell.air) + Cardinality(drawer.air)
       + Cardinality(edits) <= MaxOpen
  /\ Spent

\* The operator goes to another place, by a link or the browser's history.
Go(place) ==
  /\ Moves /\ place # url
  /\ url' = place
  /\ page' = PageAt(place, page.reload)
  /\ drawer' = DrawerAt(place, drawer)
  /\ edits' = EditsAt(place, edits)
  /\ UNCHANGED <<db, shell>>

\* A request is served, or it fails.
Outcome(ok) ==
  \/ ok /\ UNCHANGED left
  \/ ~ ok /\ Spent

ServePage(f) ==
  /\ f.got = << >>
  /\ \E ok \in BOOLEAN :
       /\ Outcome(ok)
       /\ page' = [page EXCEPT !.air = (@ \ {f}) \cup
            {[f EXCEPT !.got = <<IF ok THEN [v |-> db.v, owner |-> db.owner] ELSE Null>>]}]
  /\ UNCHANGED <<db, url, shell, drawer, edits>>

Published(f) ==
  [page EXCEPT !.air = @ \ {f},
               !.shown = <<[seq |-> f.seq, asks |-> f.asks, got |-> f.got[1]]>>]

\* Mutant: every answer is published as it comes.
AnswerPageAny(f) ==
  /\ f.got # << >>
  /\ page' = Published(f)
  /\ UNCHANGED <<db, url, shell, drawer, edits, left>>

AnswerPage(f) ==
  /\ f.got # << >>
  /\ page' = IF url.kind \in Guarded /\ f.seq # page.seq
             THEN [page EXCEPT !.air = @ \ {f}]
             ELSE Published(f)
  /\ UNCHANGED <<db, url, shell, drawer, edits, left>>

ServeList(f) ==
  /\ f.got = << >>
  /\ \E ok \in BOOLEAN :
       /\ Outcome(ok)
       /\ shell' = [shell EXCEPT !.air = (@ \ {f}) \cup
            {[f EXCEPT !.got = <<IF ok THEN [v |-> db.v, names |-> db.names] ELSE Null>>]}]
  /\ UNCHANGED <<db, url, page, drawer, edits>>

\* A list that fails leaves the one there is.
AnswerList(f) ==
  /\ f.got # << >>
  /\ shell' = [shell EXCEPT
       !.air = @ \ {f},
       !.seq = IF f.got[1] = Null THEN @ ELSE f.seq,
       !.v = IF f.got[1] = Null THEN @ ELSE f.got[1].v,
       !.names = IF f.got[1] = Null THEN @ ELSE f.got[1].names]
  /\ UNCHANGED <<db, url, page, drawer, edits, left>>

\* A load reads the project, which may be gone, and then the sources.
Loaded(f, found, listed) ==
  LET d == [drawer EXCEPT !.air = @ \ {f}, !.listed = @ \/ listed,
                          !.owner = IF listed THEN db.owner ELSE @]
  IN IF ~ found \/ db.names[f.id] = Null THEN [d EXCEPT !.error = TRUE]
     ELSE [d EXCEPT !.loaded = [id |-> f.id, name |-> db.names[f.id]],
                    !.name = db.names[f.id], !.typed = FALSE]

\* Mutant: a load that was overtaken counts too.
AnswerLoadAny(f) ==
  /\ \E found, listed \in BOOLEAN :
       Outcome(found /\ listed) /\ drawer' = Loaded(f, found, listed)
  /\ UNCHANGED <<db, url, page, shell, edits>>

AnswerLoad(f) ==
  /\ \E found, listed \in BOOLEAN :
       /\ Outcome(found /\ listed)
       /\ drawer' = IF f.seq # drawer.seq THEN [drawer EXCEPT !.air = @ \ {f}]
                    ELSE Loaded(f, found, listed)
  /\ UNCHANGED <<db, url, page, shell, edits>>

-----------------------------------------------------------------------------
(* The operator's controls.                                                *)

Listed == {id \in Projects : shell.names[id] # Null}
Shows == page.shown # << >> /\ page.shown[1].got # Null

\* The dashboard's panels are of its answer; the settings' cards of the list.
Manage(id) ==
  /\ url.kind = "Settings" \/ (url.kind = "Overview" /\ Shows)
  /\ id \in Listed /\ id # drawer.managed
  /\ Moves
  /\ drawer' = Managing(drawer, id)
  /\ UNCHANGED <<db, url, page, shell, edits>>

CloseDrawer ==
  /\ Moves
  /\ drawer.managed # Null
  /\ drawer' = Managing(drawer, Null)
  /\ UNCHANGED <<db, url, page, shell, edits>>

TypeName(name) ==
  /\ Moves
  /\ drawer.managed # Null
  /\ drawer' = [drawer EXCEPT !.name = name, !.typed = TRUE]
  /\ UNCHANGED <<db, url, page, shell, edits>>

\* Mutant: a membership changed in the drawer is not told to the page.
RefetchesNoMember(e) ==
  \/ e.at.kind = "Overview" /\ e.what \in {"rename", "delete", "assign"}
  \/ e.what \in {"triage", "pixel"}
  \/ e.at.kind = "Settings" /\ e.what = "assign"

\* Edits whose answer makes the page fetch again.
Refetches(e) ==
  \/ e.at.kind = "Overview" /\ e.what \in {"rename", "member", "delete", "assign"}
  \/ e.what \in {"triage", "pixel"}
  \/ e.at.kind = "Settings" /\ e.what = "assign"

\* Edits that make the shell list the projects again: not an assignment from the
\* settings' card of sources.
Relists(e) ==
  \/ e.what \in Creations \cup {"rename", "member", "delete", "danger"}
  \/ e.what = "assign" /\ e.at.kind = "Overview"

\* An edit of the page there is: a creation is the shell's.
Own(e) == e.home /\ e.what \notin Creations

\* A click sends an edit with what the page was at: the counter, the place with
\* its filters, and what the drawer had loaded.  Histories: whether no other edit of
\* the page overlaps it, and the version it made.
Click(what, id, name) ==
  /\ Moves
  /\ edits' = {[e EXCEPT !.alone = @ /\ (what \in Creations \/ ~ Own(e))] : e \in edits} \cup
       {[what |-> what, id |-> id, name |-> name, reload |-> page.reload, at |-> url,
         knew |-> drawer.loaded, home |-> TRUE, alone |-> \A e \in edits : ~ Own(e),
         stage |-> "sent", v |-> 0, nth |-> left]}
  /\ UNCHANGED <<db, url, page, shell>>

\* The banner of unassigned sources, and the settings' card of all of them.
Assign(id) ==
  /\ Shows
  /\ \/ url.kind = "Overview" /\ page.shown[1].got.owner = Null /\ id \in Listed
     \/ url.kind = "Settings" /\ id \in Listed \cup {Null}
  /\ Click("assign", id, Null)
  /\ UNCHANGED drawer

\* The drawer allows one rename or deletion at a time; an empty name is refused.
Rename ==
  /\ drawer.managed # Null /\ ~ drawer.busy
  /\ IF drawer.name = Null
     THEN drawer' = [drawer EXCEPT !.error = TRUE] /\ Moves /\ UNCHANGED <<db, url, page, shell, edits>>
     ELSE drawer' = [drawer EXCEPT !.busy = TRUE] /\ Click("rename", drawer.managed, drawer.name)

Delete ==
  /\ drawer.managed # Null /\ ~ drawer.busy
  /\ drawer' = [drawer EXCEPT !.busy = TRUE]
  /\ Click("delete", drawer.managed, Null)

\* The source is added, or taken away when its row says it is a member.
Member ==
  /\ drawer.managed # Null /\ drawer.listed
  /\ Click("member", IF drawer.owner = drawer.managed THEN Null ELSE drawer.managed, Null)
  /\ UNCHANGED drawer

\* The settings' danger zone.
Danger(id) ==
  /\ url.kind = "Settings" /\ id \in Listed
  /\ Click("danger", id, Null)
  /\ UNCHANGED drawer

\* The buttons are those of the group shown; they act on the URL's.
Triage ==
  /\ url.kind = "Exception" /\ url.source # Null /\ Shows
  /\ Click("triage", Null, Null)
  /\ UNCHANGED drawer

\* A pixel is saved or deleted.
EditPixel ==
  /\ url.kind = "Pixels"
  /\ Click("pixel", Null, Null)
  /\ UNCHANGED drawer

\* The shell's drawer: one creation at a time, with the source or without.
Create(what, name) ==
  /\ \A e \in edits : e.what \notin Creations
  /\ Click(what, Null, name)
  /\ UNCHANGED drawer

-----------------------------------------------------------------------------
(* The server, as the edits see it (web/api; its races are in Entities).   *)

Live(id) == db.names[id] # Null
Taken(name, id) == \E p \in Projects \ {id} : db.names[p] = name

\* What an edit makes of the database; or Null, refused.
Written(e) ==
  CASE e.what = "rename" ->
         IF ~ Live(e.id) \/ Taken(e.name, e.id) THEN Null
         ELSE [db EXCEPT !.v = @ + 1, !.names[e.id] = e.name]
    [] e.what \in {"delete", "danger"} ->
         IF ~ Live(e.id) THEN Null
         ELSE [db EXCEPT !.v = @ + 1, !.names[e.id] = Null,
                         !.owner = IF @ = e.id THEN Null ELSE @]
    [] e.what \in {"assign", "member"} -> [db EXCEPT !.v = @ + 1, !.owner = e.id]
    [] OTHER -> [db EXCEPT !.v = @ + 1]

Staged(e, next) == edits' = (edits \ {e}) \cup {next}

ServeEdit(e) ==
  /\ e.stage = "sent" /\ e.what \notin Creations
  /\ \E ok \in BOOLEAN :
       /\ Outcome(ok)
       /\ \E next \in {IF ok THEN Written(e) ELSE Null} :
            /\ db' = IF next = Null THEN db ELSE next
            /\ Staged(e, [e EXCEPT !.stage = IF next = Null THEN "failed" ELSE "ok",
                                   !.v = db'.v])
  /\ UNCHANGED <<url, page, shell, drawer>>

\* A creation makes the project, under a new id ...
ServeCreate(e) ==
  /\ e.stage = "sent" /\ e.what \in Creations
  /\ \/ \E id \in Projects :
          /\ ~ Live(id) /\ ~ Taken(e.name, id)
          /\ db' = [db EXCEPT !.v = @ + 1, !.names[id] = e.name]
          /\ Staged(e, [e EXCEPT !.stage = IF e.what = "create" THEN "ok" ELSE "created",
                                 !.id = id, !.v = db.v + 1])
          /\ UNCHANGED left
     \/ /\ Outcome(FALSE) \/ (Taken(e.name, Null) /\ UNCHANGED left)
        /\ Staged(e, [e EXCEPT !.stage = "failed"])
        /\ UNCHANGED db
  /\ UNCHANGED <<url, page, shell, drawer>>

\* ... and then gives it the source, whether that fails or not.
ServeAssign(e) ==
  /\ e.stage = "created"
  /\ \E ok \in BOOLEAN :
       /\ Outcome(ok)
       /\ db' = IF ok THEN [db EXCEPT !.v = @ + 1, !.owner = e.id] ELSE db
       /\ Staged(e, [e EXCEPT !.stage = "ok", !.v = db'.v])
  /\ UNCHANGED <<url, page, shell, drawer>>

-----------------------------------------------------------------------------
(* An edit's answer.                                                       *)

Latest(m, n) == IF m > n THEN m ELSE n

\* A chip addresses a project by its id or by the name the drawer had loaded.
Addresses(chip, e) == chip = e.id \/ (e.knew # Null /\ chip = e.knew.name)

\* Where the answer leads: a created project is shown, and the chip of a deleted
\* one is taken off the filters there were at the click, on the dashboard.
Leads(e) ==
  CASE e.what \in Creations -> Place("Overview", Null, Null, e.name)
    [] e.what = "delete" /\ Addresses(e.at.chip, e) -> Dashboard
    [] OTHER -> url

\* The drawer after its edit.  A membership reads the sources again.
DrawerDone(e, listed) ==
  CASE ~ e.home -> drawer
    [] e.what = "rename" -> [drawer EXCEPT !.busy = FALSE]
    [] e.what = "delete" -> Managing([drawer EXCEPT !.busy = FALSE], Null)
    [] e.what = "member" /\ listed -> [drawer EXCEPT !.owner = db.owner, !.listed = TRUE]
    [] OTHER -> drawer

\* Why a page may not ask again after an edit: another edit of the page overlapped
\* it; it was made by the settings' drawer or danger zone; or the dashboard is there
\* already, with the filter that a creation leads to.
Slips(e) ==
  {why \in {"overlap", "settings", "filtered"} :
     \/ why = "overlap" /\ e.what \notin Creations /\ ~ e.alone
     \/ why = "settings" /\ e.at.kind = "Settings" /\ e.what \notin Creations \cup {"assign"}
     \/ why = "filtered" /\ e.what \in Creations /\ url.kind = "Overview" /\ url.chip = e.name}

\* The page that every edit comes home to, or a creation leads to, is due to show it.
Owing(p, e, asked) ==
  IF ~ e.home THEN p
  ELSE [p EXCEPT !.due = Latest(@, e.v), !.slips = IF asked THEN @ ELSE @ \cup Slips(e)]

\* The counter set is the one of the click, and one: of two that overlap, the
\* second may change nothing.
Settle(e) ==
  /\ e.stage = "ok"
  /\ LET place == Leads(e)
         reload == IF e.home /\ Refetches(e) THEN e.reload + 1 ELSE page.reload
     IN /\ url' = place
        /\ page' = Owing(PageAt(place, reload), e, Seen(place, reload))
        /\ edits' = EditsAt(place, edits \ {e})
        /\ shell' = IF Relists(e) THEN Ticked([shell EXCEPT !.due = Latest(@, e.v)]) ELSE shell
        /\ \E listed \in BOOLEAN :
             /\ IF e.what = "member" THEN Outcome(listed) ELSE listed /\ UNCHANGED left
             /\ drawer' = DrawerAt(place, DrawerDone(e, listed))
  /\ UNCHANGED db

SettleFailed(e) ==
  /\ e.stage = "failed"
  /\ edits' = edits \ {e}
  /\ drawer' = IF e.home /\ e.what \in {"rename", "delete", "member"}
               THEN [drawer EXCEPT !.error = TRUE,
                                   !.busy = IF e.what = "member" THEN @ ELSE FALSE]
               ELSE drawer
  /\ UNCHANGED <<db, url, page, shell, left>>

-----------------------------------------------------------------------------

\* TLC evaluates a definition once, what a cfg puts for a constant at every use.
Destinations == Places

Next ==
  \/ \E place \in Destinations : Go(place)
  \/ \E f \in page.air : ServePage(f) \/ AnswerPage(f)
  \/ \E f \in shell.air : ServeList(f) \/ AnswerList(f)
  \/ \E f \in drawer.air : AnswerLoad(f)
  \/ \E id \in Projects : Manage(id) \/ Danger(id)
  \/ \E id \in Projects \cup {Null} : Assign(id)
  \/ \E name \in Typed \cup {Null} : TypeName(name)
  \/ \E name \in Typed, what \in Creations : Create(what, name)
  \/ CloseDrawer \/ Rename \/ Delete \/ Member \/ Triage \/ EditPixel
  \/ \E e \in edits : ServeEdit(e) \/ ServeCreate(e) \/ ServeAssign(e)
                      \/ Settle(e) \/ SettleFailed(e)

Spec == Init /\ [][Next]_vars

-----------------------------------------------------------------------------
(* Properties.                                                             *)

\* Once nothing is in the air, a page shows what its URL asks: the dashboard and
\* the inbox always, the others unless an older answer came last.  An exception's
\* page does but for the source, which its effect does not watch; and while that
\* effect last ran at a broken link, nothing has been asked, even if the link has
\* been mended since.
ShowsItsUrl ==
  LET asked == Asks(url)
      said == page.shown[1].asks
  IN IF url.kind = "Exception" THEN said[1] = asked[1] /\ said[3] = asked[3]
     ELSE said = asked
AnswersItsUrl ==
  page.air = {} /\ ~page.idle =>
    /\ page.shown # << >>
    /\ url.kind \in Guarded \/ page.shown[1].seq = page.seq => ShowsItsUrl

\* An edit that was made shows: whatever the operator changed, the page that made
\* it, or the dashboard a creation leads to, and the project list show the version
\* it made or a later one, once they have what they asked for.  The page does
\* unless an older answer came last, or it has not asked since an edit for one of
\* the reasons of Slips: two edits that overlapped, a dashboard already filtered to
\* the project created, and the settings' drawer and danger zone, whose edits leave
\* the card of sources as it was.
EditsShow ==
  /\ page.air = {} /\ ~page.idle /\ Shows /\ page.shown[1].seq = page.seq /\ page.slips = {} =>
       page.shown[1].got.v >= page.due
  /\ shell.air = {} /\ shell.seq = shell.tick => shell.v >= shell.due

\* Switching between projects in the drawer never mixes them: once the load is
\* over and went well, the drawer holds the project it manages, and its name field
\* that project's name or what was typed since.
DrawerManages ==
  /\ drawer.managed # Null /\ ~ drawer.error
  /\ \A f \in drawer.air : f.seq # drawer.seq
  => /\ drawer.loaded.id = drawer.managed
     /\ drawer.typed \/ drawer.name = drawer.loaded.name
=============================================================================
