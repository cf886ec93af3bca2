------------------------------ MODULE Reports ------------------------------
(***************************************************************************)
(* The reports in use (web/api/stats.rs, exceptions.rs, events.rs,         *)
(* traces.rs and the dashboard's filter controls): rows arrive and lapse   *)
(* while an operator edits the filters by hand and by clicking, follows    *)
(* rows into details, and other clients ask the API with whatever range    *)
(* they like.  The URL holds the whole filter state: a view is what its    *)
(* URL reads as.  Pages models the fetches; here an answer is immediate    *)
(* but for the two scans of a detail, which are two steps.                 *)
(***************************************************************************)
EXTENDS Stats

CONSTANTS
  Shapes,      \* the rows that may arrive, each at its own instant
  Retention,   \* ticks a row is kept
  Typed,       \* texts an operator types into the query bar
  Added,       \* chips picked in the popover: pairs of dimension and value
  Picked,      \* ranges picked
  Asks,        \* what other clients ask: records of from, to and interval
  Clicked,     \* panels whose rows are clicked
  Watched,     \* panels whose rows are compared with what a click would show
  MaxParts,    \* chips, remainder and range set at once
  VARIANT_LIMIT,
  TRACE_LIMIT  \* events of a session's timeline

ASSUME ReportsAssumption ==
  /\ {r.at : r \in Shapes} \subseteq Nat
  /\ \A r, s \in Shapes : r.at = s.at => r = s
  /\ \A r \in Shapes : {"at", "kind"} \subseteq DOMAIN r
  /\ \A r \in Shapes : r.kind = "pixel" => ~ HasSession(r)
  /\ \A range \in Picked : IsRange(range)
  /\ \A ask \in Asks : {ask.from, ask.to} \subseteq Int \cup {Null}
  /\ Retention \in Nat /\ {MaxParts, TRACE_LIMIT} \subseteq Nat \ {0}

VARIABLES
  rows,     \* the event store
  now,      \* the clock
  set,      \* the filter state, as the page reads it from its URL
  asked,    \* another client's request for statistics, or Null
  detail    \* a detail being opened: its step, key, window and scans

vars == <<rows, now, set, asked, detail>>

NoDetail == [pc |-> "none"]

\* How much the filters say; bounds the model.
Parts(s) ==
  Len(s.query.terms) + (IF s.query.advanced = Null THEN 0 ELSE 1)
    + (IF s.range = DefaultRange THEN 0 ELSE 1)

TypeOK ==
  /\ rows \subseteq Shapes
  /\ \A r \in rows : r.at < now
  /\ DOMAIN set = {"range", "query"} /\ IsRange(set.range)
  /\ Parts(set) <= MaxParts
  /\ asked \in Asks \cup {Null}
  /\ detail.pc \in {"none", "scanned", "done"}

Init ==
  /\ rows = {}
  /\ now = 1
  /\ set = EmptySet
  /\ asked = Null
  /\ detail = NoDetail

-----------------------------------------------------------------------------
(* The store.                                                              *)

Arrive(r) ==
  /\ now <= r.at
  /\ rows' = rows \cup {r}
  /\ now' = r.at + 1
  /\ UNCHANGED <<set, asked, detail>>

\* Retention drops what is old enough, a day at a time.
Lapse ==
  LET old == {r \in rows : r.at <= now - Retention}
  IN /\ old # {}
     /\ rows' = rows \ {r \in old : \A s \in old : r.at \div DAY <= s.at \div DAY}
     /\ UNCHANGED <<now, set, asked, detail>>

-----------------------------------------------------------------------------
(* The endpoints.                                                          *)

Request(window, q) ==
  [from |-> window.from, to |-> window.to, interval |-> window.interval, q |-> q]
AskOf(sent) == Request(sent.window, sent.q)
StatsAsk == IF asked # Null THEN Request(asked, Blank) ELSE AskOf(StatsQuery(set, now))

\* GET /api/v1/stats: the window, the rows of it and of the one before, and the
\* flag visitors are counted by; or a refusal of the text.
Answered(w, q, kept) ==
  IF kept = Err THEN [status |-> 400]
  ELSE [status |-> 200, w |-> w, flag |-> UniqueFlag(q),
        current |-> {r \in kept.yes : r.at >= w.from},
        previous |-> {r \in kept.yes : r.at < w.from}]
StatsOver(w, q) == Answered(w, q, Scan(rows, "dashboard", q, w))
Stats(ask) == StatsOver(ReportWindow(rows, ask, now), ask.q)

\* What the dashboard shows of an answer: nothing of a refusal.
Shown == {answer \in {Stats(StatsAsk)} : answer.status = 200}

\* The panel of an answer.
PanelRows(answer, panel) == Dashboard(answer.current, answer.flag)[panel]

\* GET /api/v1/exceptions: always daily buckets, which it does not use.
InboxWindow ==
  LET ask == ExceptionsQuery(set, now)
  IN ReportWindow(rows, [from |-> ask.from, to |-> ask.to, interval |-> Null], now)

\* Each row is of one application; its project is the source's of the moment.
Inbox == ExceptionGroupsBySource(rows, ExceptionsQuery(set, now).q, InboxWindow)
ProjectsOf(source) == {p \in Projects : source \in p.sources}

\* GET /api/v1/exceptions/{group}: its range is clamped and not anchored.
DetailWindow ==
  LET ask == Resolve(set.range, now)
      end == Clamp(ask.to, 1, MAX_INSTANT_MS)
  IN [from |-> Clamp(ask.from, 0, end - 1), to |-> end]

\* GET /api/v1/events: of the dashboard's slice.
EventWindow ==
  LET ask == StatsQuery(set, now).window
  IN ReportWindow(rows, [from |-> ask.from, to |-> ask.to, interval |-> Null], now)

\* GET /api/v1/traces/{session}: of all time.
TraceWindow == [from |-> 0, to |-> now]

-----------------------------------------------------------------------------
(* The dashboard's controls.                                               *)

\* Every edit pushes the URL of the edited state, and the page reads that.
Apply(edited) ==
  /\ set' = ParsePairs(ToPairs(edited))
  /\ Parts(set') <= MaxParts
  /\ asked' = Null
  /\ UNCHANGED <<rows, now, detail>>

OnPage == detail = NoDetail /\ asked = Null

\* The query bar applies what parses, keeping the range.
TypeText(text) ==
  /\ OnPage
  /\ ValidateExpression(text)
  /\ Apply(WithQuery(set, ParseQuery(text)))

\* A project's row is named; the other panels' rows carry their value.
ProjectName(key) ==
  LET found == {p \in Projects : Fold(p.name) = Fold(key) \/ p.id = key}
  IN IF found = {} THEN key ELSE (CHOOSE p \in found : TRUE).name

\* Mutant: a version row does not pin its application.
PanelTermsBare(panel, row) ==
  << [dim |-> panel, value |-> CASE panel = "project" -> ProjectName(row.key)
                                 [] panel = "version" -> row.version
                                 [] OTHER -> row.key] >>

\* What a panel's row filters by; a version's row pins its application too.
PanelTerms(panel, row) ==
  CASE panel = "project" -> << [dim |-> "project", value |-> ProjectName(row.key)] >>
    [] panel = "version" -> << [dim |-> "version", value |-> row.version],
                               [dim |-> "browser", value |-> row.app] >>
    [] OTHER -> << [dim |-> panel, value |-> row.key] >>

Panels == Dims \ {"app_version"}

\* Clicking a row whose terms are all set takes them away again.
Toggled(from, terms) ==
  LET active == \A i \in DOMAIN terms : ValueOf(from, terms[i].dim) = terms[i].value
      Step(ts, t) == IF active THEN Drop(ts, t.dim) ELSE Put(ts, t.dim, t.value)
  IN WithQuery(from, [from.query EXCEPT !.terms = FoldLeft(Step, @, terms)])

ClickRow(panel) ==
  /\ OnPage
  /\ \E answer \in Shown : \E row \in PanelRows(answer, panel) :
       Apply(Toggled(set, PanelTerms(panel, row)))

AddChip(chip) == OnPage /\ Apply(With(set, chip[1], chip[2]))

RemoveChip(d) == OnPage /\ Has(set, d) /\ Apply(Without(set, d))

RemoveAdvanced ==
  OnPage /\ set.query.advanced # Null /\ Apply(WithoutAdvanced(set))

Clear == OnPage /\ set.query # NoQuery /\ Apply(WithQuery(set, NoQuery))

PickRange(range) == OnPage /\ Apply(WithRange(set, range))

\* Dragging over the chart asks for the buckets from the first to the last.
Zoom ==
  /\ OnPage /\ IsPreset(set.range)
  /\ \E answer \in Shown :
       LET bucket == answer.w.bucket
           points == {p.timestamp_ms : p \in Timeseries(answer.current, answer.w, answer.flag)}
       IN \E low \in {Floor(r.at, bucket) : r \in answer.current} \cap points :
            /\ low < Max(points)
            /\ Apply(WithRange(set, Custom(low, Max(points) + bucket)))

-----------------------------------------------------------------------------
(* Another client.                                                         *)

AskStats(ask) ==
  /\ OnPage
  /\ set = EmptySet
  /\ asked' = ask
  /\ UNCHANGED <<rows, now, set, detail>>

AskEnds ==
  /\ asked # Null
  /\ asked' = Null
  /\ UNCHANGED <<rows, now, set, detail>>

-----------------------------------------------------------------------------
(* Details: the occurrences, and then their sessions by a second scan.     *)

Open(kind, occurrences, window) ==
  /\ OnPage
  /\ detail' = [pc |-> "scanned", kind |-> kind, seen |-> occurrences, w |-> window,
                sids |-> SessionsOf(occurrences)]
  /\ UNCHANGED <<rows, now, set, asked>>

\* Only a row of a project's application leads to a detail.
OpenException ==
  \E g \in Inbox :
    /\ ProjectsOf(g.source) # {}
    /\ Open("exception",
            ExceptionOccurrences(rows, {g.source}, g.group_id, DetailWindow), DetailWindow)

\* The row of the events without a name leads nowhere.
OpenEvent ==
  /\ OnPage
  /\ \E answer \in Shown : \E row \in PanelRows(answer, "event") :
       /\ row.key # Empty
       /\ Open("event", EventOccurrences(rows, row.key, StatsAsk.q, EventWindow),
               EventWindow)

ReadSessions ==
  /\ detail.pc = "scanned"
  /\ detail' = [pc |-> "done", kind |-> detail.kind, seen |-> detail.seen,
                w |-> detail.w, sids |-> detail.sids,
                traces |-> TracesOfOccurrences(rows, detail.sids, detail.w),
                whole |-> detail.seen \subseteq rows]
  /\ UNCHANGED <<rows, now, set, asked>>

CloseDetail ==
  /\ detail.pc = "done"
  /\ detail' = NoDetail
  /\ UNCHANGED <<rows, now, set, asked>>

-----------------------------------------------------------------------------

\* What the environment offers, by names of its own: TLC evaluates a definition
\* once, and what a cfg puts for a constant at every use.
Arrivals == Shapes
Texts == Typed
Ranges == Picked
Requests == Asks

Next ==
  \/ \E r \in Arrivals : Arrive(r)
  \/ Lapse
  \/ \E text \in Texts : TypeText(text)
  \/ \E panel \in Clicked : ClickRow(panel)
  \/ \E chip \in Added : AddChip(chip)
  \/ \E d \in Dims : RemoveChip(d)
  \/ RemoveAdvanced
  \/ Clear
  \/ \E range \in Ranges : PickRange(range)
  \/ Zoom
  \/ \E ask \in Requests : AskStats(ask)
  \/ AskEnds
  \/ OpenException
  \/ OpenEvent
  \/ ReadSessions
  \/ CloseDetail

Spec == Init /\ [][Next]_vars

-----------------------------------------------------------------------------
(* Properties.                                                             *)

Counts == {"pageviews", "visitors", "events"}
SumsTo(points, summary) ==
  \A count \in Counts :
    summary[count] = SumFunction([p \in points |-> p[count]])

\* The window of any request is an ordered range of instants with a number of
\* buckets near the cap, so that its series never loses the empty ones; and all
\* time is all the rows there are.
RangeSane ==
  LET ask == StatsAsk
      w == ReportWindow(rows, ask, now)
  IN /\ 0 <= w.from /\ w.from < w.to /\ w.to <= MAX_INSTANT_MS
     /\ Floor(w.to - 1, w.bucket) - Floor(w.from, w.bucket) <= (MAX_BUCKETS + 1) * w.bucket
     /\ ask.from # Null /\ ask.from <= 0 =>
          {r \in rows : r.at < w.to} \subseteq Window(rows, w)

\* The chart and the headline count the same rows, whatever range a client sends:
\* the series of the window, and the one of the window before laid on its grid,
\* sum to their summaries, and have a point for every bucket so that the two can
\* be compared.
SeriesSumsToSummary ==
  detail = NoDetail =>
    /\ RangeSane
    /\ \A answer \in Shown :
         \A series \in {Timeseries(answer.current, answer.w, answer.flag)},
            before \in {PreviousTimeseries(answer.previous, answer.w, answer.flag)} :
           /\ SumsTo(series, Summary(answer.current, answer.flag))
           /\ SumsTo(before, Summary(answer.previous, answer.flag))
           /\ {p.timestamp_ms + answer.w.from : p \in series} =
                {p.timestamp_ms + answer.w.to : p \in before}

\* Values that differ in case only are separate rows of a panel and one filter.
OneCase(S, d) ==
  d = "project" \/ \A r, s \in S :
    LET v == KeyOf(r, Columns.dashboard[d]) u == KeyOf(s, Columns.dashboard[d])
    IN Fold(v) = Fold(u) => v = u
After(terms) ==
  LET next == FoldLeft(LAMBDA s, t : With(s, t.dim, t.value), set, terms)
  IN Stats(AskOf(StatsQuery(ParsePairs(ToPairs(next)), now)))

\* What a row of a panel counts is what the dashboard counts once the row is
\* clicked, and what the detail of a row of the events finds.
DrillDownAgrees ==
  OnPage =>
    \A answer \in Shown : \A panel \in Watched : \A row \in PanelRows(answer, panel) :
      \A terms \in {PanelTerms(panel, row)} :
        (\A i \in DOMAIN terms :
           ~ Has(set, terms[i].dim) /\ OneCase(answer.current, terms[i].dim))
        => /\ panel = "event" /\ row.key # Empty =>
                Cardinality(EventOccurrences(rows, row.key, StatsAsk.q, EventWindow)) = row.events
           /\ \A after \in {After(terms)} : \A summary \in {Summary(after.current, after.flag)} :
                IF panel = "event" THEN summary.events = row.events
                ELSE summary.pageviews = row.pageviews /\ summary.visitors = row.visitors

\* A row of the inbox that has a project opens: the detail over the same range
\* finds its application's reports of the group, all that the row counted and,
\* with nothing but the range to filter the inbox by, no others.  Whenever the
\* group was resolved, a row that reads unresolved does not open on a detail that
\* reads resolved, and the two agree where they count the same.
InboxRowsOpen ==
  \A g \in Inbox :
    LET seen == ExceptionOccurrences(rows, {g.source}, g.group_id, DetailWindow)
    IN /\ Cardinality(seen) >= g.count
       /\ ExceptionsQuery(set, now).q = Blank => Cardinality(seen) = g.count
       /\ g.count = SumFunction(g.trend)
       /\ \A latest \in {ExceptionDetail(seen, DetailWindow, VARIANT_LIMIT).last_seen_ms} :
            \A resolved_at \in {r.at : r \in rows} \cup {Null} :
              /\ IsResolved(resolved_at, latest) => IsResolved(resolved_at, g.last_seen_ms)
              /\ Cardinality(seen) = g.count =>
                   IsResolved(resolved_at, g.last_seen_ms) = IsResolved(resolved_at, latest)

\* The sessions a detail lists are those of its occurrences, and all of them,
\* each in full: rows that arrived or lapsed between its two scans change what a
\* session counts, never which sessions are listed unless a row went.  Opened from
\* the list before its first row lapses, a session's timeline spans what the list
\* says of it, up to its cut.
TracesCover ==
  detail.pc = "done" /\ detail.whole =>
    /\ {t.session_id : t \in detail.traces} = detail.sids
    /\ \A t \in detail.traces :
         LET of == {r \in detail.seen : Val(r, "sid") = t.session_id}
         IN /\ IF detail.kind = "event" THEN t.events >= Cardinality(of)
               ELSE t.exceptions >= Cardinality(of)
            /\ t.started_ms <= FirstSeen(of) /\ LastSeen(of) <= t.last_ms
            /\ (\E r \in rows : r.at = t.started_ms) =>
                 LET trace == SessionTrace(rows, t.session_id, TraceWindow, TRACE_LIMIT)
                 IN /\ trace.started_ms <= t.started_ms
                    /\ \/ Cardinality(trace.events) = TRACE_LIMIT
                       \/ t.last_ms <= trace.ended_ms
    /\ detail.kind = "event" /\ detail.seen # {} =>
         LET event == EventDetail(detail.seen, detail.w, VARIANT_LIMIT)
         IN /\ event.count = SumFunction(event.trend)
            /\ \A r \in detail.seen :
                 HasSession(r) => \E t \in detail.traces : r.at <= t.last_ms

\* The rows a text selects, of any that may arrive, on an endpoint.
Selected(fields, text) ==
  LET kept == Kept(Arrivals, fields, text)
  IN IF kept = Err THEN [status |-> 400, rows |-> {}]
     ELSE [status |-> 200, rows |-> kept.yes]
SameMeaning(a, b) ==
  \A fields \in {"dashboard", "exceptions"} : Selected(fields, a) = Selected(fields, b)

\* The documented loss: of one dimension's terms the last one stays.
RepeatsDimension(text) ==
  LET pieces == Decompose(ReadText(text))
      chips == SelectSeq(pieces, LAMBDA p : "dim" \in DOMAIN p)
  IN \E i, j \in DOMAIN chips : i < j /\ chips[i].dim = chips[j].dim

\* Two pieces of a remainder are joined by &&, and one is an alternative.
JoinsAlternative(text) ==
  LET pieces == Decompose(ReadText(text))
      rest == SelectSeq(pieces, LAMBDA p : "text" \in DOMAIN p)
  IN Len(rest) > 1 /\ \E i \in DOMAIN rest : Len(rest[i].text) > 1

\* A text just typed, taken apart into chips and a remainder and written again,
\* selects the rows it selected.  Not so, against filters.rs:7-9, where an
\* alternative is joined with another piece: the printer drops its parentheses.
TypedKeepsMeaning(text) ==
  TypeText(text) /\ ~ RepeatsDimension(text) /\ ~ JoinsAlternative(text) =>
    SameMeaning(text, ToExpression(set'.query))

Answer(query) == Selected("dashboard", ToExpression(query))
Narrowed(query, rest, d, value) ==
  \/ Answer(rest).status = 400
  \/ Answer(query).rows =
       Answer(rest).rows \cap Selected("dashboard", Word(Eq(d, value))).rows

\* A chip set or taken away narrows or widens the rows by what it says and leaves
\* the meaning of the other chips and of the remainder alone.
ChipsCompose ==
  /\ \A chip \in Added : AddChip(chip) /\ AppliesToDashboard(chip[1]) =>
       Narrowed(set'.query, Without(set, chip[1]).query, chip[1], chip[2])
  /\ \A d \in Panels : RemoveChip(d) =>
       Narrowed(set.query, set'.query, d, ValueOf(set, d))

\* Over any sequence of edits, each does what it says and no more: what is typed
\* is what is asked, and chips compose.  (What a text means is asked of every row
\* that may arrive, so once: before any has.)
EditsKeepMeaning ==
  [][rows = {} =>
       ChipsCompose /\ \A text \in Texts \ {Blank} : TypedKeepsMeaning(text)]_set
=============================================================================
