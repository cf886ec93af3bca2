------------------------------- MODULE Stats -------------------------------
(***************************************************************************)
(* What the reports compute (analytics/mod.rs, web/api/query.rs): every    *)
(* panel as a function of the rows of the event store.  A row is a record  *)
(* of the columns its kind carries, with its number id and its instant at; *)
(* rows are a set because every row has a number of its own.  EventQuery   *)
(* models how the rows are read; here they have been.                      *)
(***************************************************************************)
EXTENDS FilterSets

CONSTANTS
  Buckets,          \* BUCKETS_MS: the ladder, a sequence of name and ticks
  MAX_BUCKETS,      \* the most buckets a series is asked for
  SERIES_LIMIT,     \* the most a series builds before it gives only what it has
  MAX_INSTANT_MS,   \* the latest instant a query may name
  BREAKDOWN_LIMIT,  \* rows of a panel
  GROUP_LIMIT,      \* rows of the inbox's query
  TRACE_SAMPLE,     \* sessions listed
  BOUNCE_MIN, BOUNCE_MAX, MIN_BOUNCE_SAMPLES,
  TREND_BUCKETS     \* slices of a trend

\* query.rs:7-31 and mod.rs: the ladder's rungs and the limits are positive, and a
\* series is built whole well past the most buckets a request may ask for.
ASSUME StatsAssumption ==
  /\ Null \notin Int
  /\ DAY \in Nat \ {0}
  /\ \A i \in DOMAIN Buckets : Buckets[i][2] \in Nat \ {0}
  /\ {MAX_BUCKETS, MAX_INSTANT_MS, GROUP_LIMIT, TRACE_SAMPLE, TREND_BUCKETS} \subseteq Nat \ {0}
  /\ SERIES_LIMIT \in Nat /\ MAX_BUCKETS + 2 <= SERIES_LIMIT

Larger(a, b) == IF a > b THEN a ELSE b
Clamp(x, low, high) == IF x < low THEN low ELSE IF x > high THEN high ELSE x
OrElse(x, default) == IF x = Null THEN default ELSE x

-----------------------------------------------------------------------------
(* The window of a request (resolve_range).                                *)

WEEK == 7 * DAY
Rungs == {Buckets[i][2] : i \in DOMAIN Buckets}
RungOf(name) ==
  LET named == {i \in DOMAIN Buckets : Buckets[i][1] = name}
  IN IF named = {} THEN DAY ELSE Buckets[CHOOSE i \in named : TRUE][2]

\* The finest bucket not finer than asked that keeps the series under its cap.
BucketFor(span, requested) ==
  LET fit == {b \in Rungs : b >= requested /\ span \div b <= MAX_BUCKETS}
  IN IF fit = {} THEN Larger(span \div MAX_BUCKETS + 1, WEEK) ELSE Min(fit)

ResolveRange(from, to, interval, now) ==
  LET end   == Clamp(OrElse(to, now), 1, MAX_INSTANT_MS)
      start == Clamp(OrElse(from, end - WEEK), 0, end - 1)
  IN [from |-> start, to |-> end, bucket |-> BucketFor(end - start, RungOf(interval))]

\* "All time" starts at the earliest row; with none it is as if not asked.
EarliestRow(rows) == IF rows = {} THEN Null ELSE Min({r.at : r \in rows})
Anchored(rows, from) == IF from # Null /\ from <= 0 THEN EarliestRow(rows) ELSE from

Window(rows, w) == {r \in rows : w.from <= r.at /\ r.at < w.to}

-----------------------------------------------------------------------------
(* Counting.                                                               *)

Loads(S)      == {r \in S : r.kind = "page_load"}
Events(S)     == {r \in S : IsEvent(r)}
Exceptions(S) == {r \in S : r.kind = "exception"}
Flagged(S, flag) == {r \in S : Val(r, flag) = TRUE}
KeyOf(r, column) == OrElse(Val(r, column), Empty)
Groups(S, Key(_)) == {{r \in S : Key(r) = k} : k \in {Key(r) : r \in S}}
One(S) == CHOOSE r \in S : TRUE

\* The first n of S by a number, largest first; among equals the code takes any.
Limit(S, n, Number(_)) ==
  IF Cardinality(S) <= n THEN S
  ELSE CHOOSE T \in kSubset(n, S) :
         \A x \in T, y \in S \ T : Number(x) >= Number(y)

Latest(S)   == CHOOSE r \in S : \A s \in S : s.at <= r.at
Earliest(S) == CHOOSE r \in S : \A s \in S : r.at <= s.at

\* The value of a column on the latest, or earliest, row that has one.
Last1(S, column) ==
  LET has == {r \in S : Val(r, column) # Null}
  IN IF has = {} THEN Null ELSE Val(Latest(has), column)
First1(S, column) ==
  LET has == {r \in S : Val(r, column) # Null}
  IN IF has = {} THEN Null ELSE Val(Earliest(has), column)

FirstSeen(S) == Min({r.at : r \in S})
LastSeen(S)  == Max({r.at : r \in S})

-----------------------------------------------------------------------------
(* Headline numbers and series.                                            *)

\* The middle duration, or the rounded mean of the middle two.
Median(S) ==
  LET n == Cardinality(S)
      sorted == SetToSortSeq(S, LAMBDA a, b : a.duration_ms < b.duration_ms)
      low  == sorted[(n + 1) \div 2].duration_ms
      high == sorted[n \div 2 + 1].duration_ms
  IN IF n = 0 THEN Null ELSE (low + high + 1) \div 2

Summary(S, flag) ==
  LET samples == {r \in S : Val(r, "duration_ms") # Null}
      bounces == {r \in samples : /\ BOUNCE_MIN <= r.duration_ms
                                  /\ r.duration_ms <= BOUNCE_MAX}
  IN [pageviews |-> Cardinality(Loads(S)),
      visitors  |-> Cardinality(Flagged(Loads(S), flag)),
      events    |-> Cardinality(Events(S)),
      bounce_rate |-> IF Cardinality(samples) < MIN_BOUNCE_SAMPLES THEN Null
                      ELSE <<Cardinality(bounces), Cardinality(samples)>>,
      median_duration_ms |-> Median(samples)]

Floor(t, b) == t - (t % b)

Point(t, S, flag) ==
  [timestamp_ms |-> t, pageviews |-> Cardinality(Loads(S)),
   visitors |-> Cardinality(Flagged(Loads(S), flag)),
   events |-> Cardinality(Events(S)), exceptions |-> Cardinality(Exceptions(S))]

\* Mutant: the bucket of the window's last instant is left out.
TimeseriesShort(S, w, flag) ==
  LET kept == Loads(S) \cup Events(S) \cup Exceptions(S)
      grid == {b \in Floor(w.from, w.bucket) .. w.to - w.bucket : b % w.bucket = 0}
  IN {Point(b, {r \in kept : Floor(r.at, w.bucket) = b}, flag) : b \in grid}

\* Every bucket from the window's first to its last, empty ones as zeros; a grid
\* past the limit is given as its populated buckets only.
Timeseries(S, w, flag) ==
  LET kept == Loads(S) \cup Events(S) \cup Exceptions(S)
      At(b) == {r \in kept : Floor(r.at, w.bucket) = b}
      first == Floor(w.from, w.bucket)
      last  == Floor(w.to - 1, w.bucket)
      steps == (last - first) \div w.bucket
      grid  == IF first > last \/ steps + 1 > SERIES_LIMIT
               THEN {Floor(r.at, w.bucket) : r \in kept}
               ELSE {first + i * w.bucket : i \in 0 .. steps}
  IN {Point(b, At(b), flag) : b \in grid}

\* The previous window on the current one's grid, at its own instants.
PreviousTimeseries(S, w, flag) ==
  LET len == w.to - w.from
      shifted == {[r EXCEPT !.at = @ + len] : r \in S}
  IN {[p EXCEPT !.timestamp_ms = @ - len] : p \in Timeseries(shifted, w, flag)}

\* Occurrences in equal slices of the window.
TrendOf(S, w) ==
  LET span == Larger(w.to - w.from, 1)
      Slice(r) == Clamp(((r.at - w.from) * TREND_BUCKETS) \div span, 0, TREND_BUCKETS - 1)
  IN [i \in 0 .. TREND_BUCKETS - 1 |-> Cardinality({r \in S : Slice(r) = i})]

-----------------------------------------------------------------------------
(* Panels.                                                                 *)

Row(key, visitors, pageviews, events) ==
  [key |-> key, visitors |-> visitors, pageviews |-> pageviews, events |-> events]
Pageviews(row) == row.pageviews
EventCount(row) == row.events
Traffic(row) == row.pageviews + row.events

\* A dimension's rows; what has no value is counted under "".
Breakdown(loads, column, flag) ==
  Limit({Row(KeyOf(One(G), column), Cardinality(Flagged(G, flag)), Cardinality(G), 0)
           : G \in Groups(loads, LAMBDA r : KeyOf(r, column))},
        BREAKDOWN_LIMIT, Pageviews)

\* A version means something within its application only.
VersionBreakdown(loads, flag) ==
  LET Key(r) == <<KeyOf(r, "ua_browser"), KeyOf(r, "ua_version")>>
  IN Limit({[app |-> Key(One(G))[1], version |-> Key(One(G))[2], events |-> 0,
             visitors |-> Cardinality(Flagged(G, flag)), pageviews |-> Cardinality(G)]
               : G \in Groups(loads, Key)},
           BREAKDOWN_LIMIT, Pageviews)

EventNameBreakdown(events) ==
  Limit({Row(KeyOf(One(G), "event_name"), 0, 0, Cardinality(G))
           : G \in Groups(events, LAMBDA r : KeyOf(r, "event_name"))},
        BREAKDOWN_LIMIT, EventCount)

\* Totals per source, of the page loads and events.
SourceRollup(S, flag) ==
  {Row(One(G).source, Cardinality(Flagged(G, flag)), Cardinality(Loads(G)),
       Cardinality(Events(G)))
     : G \in Groups(Loads(S) \cup Events(S), LAMBDA r : r.source)}

\* Per project, every one listed, and the sources no project has.
ProjectRollup(perSource) ==
  LET Of(p) == {row \in perSource : row.key \in p.sources}
      Total(p, Number(_)) == MapThenSumSet(Number, Of(p))
  IN [projects |-> {Row(p.id, Total(p, LAMBDA row : row.visitors),
                        Total(p, Pageviews), Total(p, EventCount)) : p \in Projects},
      unassigned |-> {row \in perSource : \A p \in Projects : row.key \notin p.sources},
      sources |-> Limit(perSource, BREAKDOWN_LIMIT, Traffic)]

-----------------------------------------------------------------------------
(* The dashboard.                                                          *)

\* With a path asked for, a visitor counts once a page and not once a day.
UniqueFlag(q) ==
  IF q # Blank /\ "path" \in Referenced(ReadText(q)) THEN "is_unique_page"
  ELSE "is_unique_user"

\* The rows a filter keeps, as a predicate that is never null.  A text that is
\* garbage, or that the endpoint cannot compile, is answered 400: Err.
Kept(R, fields, q) ==
  LET p == CompileQuery(R, fields, ReadText(q))
  IN IF q = Blank THEN Sure(R)
     ELSE IF ~ Parses(q) THEN Err
     ELSE IF p = Err THEN Err ELSE Sure(R \cap p.yes)
Answerable(kept) == IF kept = Err THEN {} ELSE kept.yes

\* The window of the comparison and the window itself are read in one scan.
Scan(rows, fields, q, w) ==
  Kept(Window(rows, [from |-> w.from - (w.to - w.from), to |-> w.to]), fields, q)

\* The dashboard's panels by the dimension their rows filter.
Dashboard(current, flag) ==
  LET loads  == Loads(current)
      rollup == ProjectRollup(SourceRollup(current, flag))
      Rows(panel) ==
        CASE panel = "path"    -> Breakdown(loads, "pathname", "is_unique_page")
          [] panel = "version" -> VersionBreakdown(loads, flag)
          [] panel = "event"   -> EventNameBreakdown(Events(current))
          [] panel = "project" -> rollup.projects
          [] panel = "source"  -> rollup.sources
          [] OTHER -> Breakdown(loads, Columns.dashboard[panel], flag)
  IN [panel \in Dims \ {"app_version"} |-> Rows(panel)]

\* The window of GET /api/v1/stats and of GET /api/v1/exceptions.
ReportWindow(rows, ask, now) ==
  ResolveRange(Anchored(rows, ask.from), ask.to, ask.interval, now)

-----------------------------------------------------------------------------
(* Sessions.                                                               *)

HasSession(r) == Val(r, "sid") \notin {Null, Empty}

TraceSummary(G) ==
  [session_id |-> One(G).sid, started_ms |-> FirstSeen(G), last_ms |-> LastSeen(G),
   source |-> Earliest(G).source, entry_path |-> First1(Loads(G), "pathname"),
   ua_browser |-> First1(G, "ua_browser"), app_version |-> First1(G, "app_version"),
   pageviews |-> Cardinality(Loads(G)), events |-> Cardinality(Events(G)),
   exceptions |-> Cardinality(Exceptions(G))]

\* The most recent sessions among the rows; a row without one is in none.
RecentTraces(S, limit) ==
  Limit({TraceSummary(G) : G \in Groups({r \in S : HasSession(r)}, LAMBDA r : r.sid)},
        limit, LAMBDA trace : trace.started_ms)

\* The newest few sessions a report's occurrences belong to.
SessionsOf(occurrences) ==
  LET sids == {r.sid : r \in {o \in occurrences : HasSession(o)}}
      Newest(sid) == LastSeen({o \in occurrences : Val(o, "sid") = sid})
  IN Limit(sids, TRACE_SAMPLE, Newest)

\* Mutant: the second scan reads the window's last day only.
TracesOfLastDay(rows, sids, w) ==
  RecentTraces({r \in Window(rows, w) : Val(r, "sid") \in sids /\ r.at >= w.to - DAY},
               TRACE_SAMPLE)

\* The second scan: those sessions in full.
TracesOfOccurrences(rows, sids, w) ==
  RecentTraces({r \in Window(rows, w) : Val(r, "sid") \in sids}, TRACE_SAMPLE)

\* One session's timeline, the oldest rows of it in the order of their instants;
\* a pixel has no place on it.
SessionTrace(rows, sid, w, limit) ==
  LET of == {r \in Window(rows, w) : Val(r, "sid") = sid}
      shown == Limit(of, limit, LAMBDA r : -r.at)
  IN IF of = {} THEN Null
     ELSE [session_id |-> sid, started_ms |-> FirstSeen(shown), ended_ms |-> LastSeen(shown),
           source |-> First1(shown, "source"), ua_browser |-> First1(shown, "ua_browser"),
           app_version |-> First1(shown, "app_version"),
           events |-> {r \in shown : r.kind # "pixel"}]

-----------------------------------------------------------------------------
(* Exceptions and named events.                                            *)

GroupRow(G, w) ==
  [group_id |-> One(G).exc_group, source |-> One(G).source, count |-> Cardinality(G),
   first_seen_ms |-> FirstSeen(G), last_seen_ms |-> LastSeen(G), trend |-> TrendOf(G, w)]

\* What an administrator resolved reads so until it is seen again.
IsResolved(resolved_at, last_seen_ms) == resolved_at # Null /\ last_seen_ms <= resolved_at

\* A group on two sources is two rows.
ExceptionGroupsBySource(rows, q, w) ==
  LET reported == {r \in Exceptions(Window(rows, w)) : Val(r, "exc_group") # Null}
      kept == Answerable(Kept(reported, "exceptions", q))
  IN Limit({GroupRow(G, w) : G \in Groups(kept, LAMBDA r : <<r.exc_group, r.source>>)},
           GROUP_LIMIT, LAMBDA row : row.last_seen_ms)

CountBy(S, column) ==
  Limit({[key |-> KeyOf(One(G), column), count |-> Cardinality(G)]
           : G \in Groups(S, LAMBDA r : KeyOf(r, column))},
        BREAKDOWN_LIMIT, LAMBDA row : row.count)

\* A release is named with its application only where several are mixed; the
\* reports without one are one row whichever application they came from.
AppVersionRows(S) ==
  LET labels == {HostOf(r.source) : r \in S}
      Key(r) == CASE KeyOf(r, "app_version") = Empty -> Empty
                  [] KeyOf(r, "app_version") # Empty /\ Cardinality(labels) > 1 ->
                       <<HostOf(r.source), r.app_version>>
                  [] OTHER -> r.app_version
      parts == Groups(S, LAMBDA r : <<Key(r)>>)
  IN Limit({[key |-> <<Key(One(G))>>, count |-> Cardinality(G)] : G \in parts},
           BREAKDOWN_LIMIT, LAMBDA row : row.count)

Variant(G) ==
  [count |-> Cardinality(G), first_seen_ms |-> FirstSeen(G), last_seen_ms |-> LastSeen(G),
   source |-> Latest(G).source, ua_browser |-> Val(Latest(G), "ua_browser"),
   session_id |-> Last1(G, "sid")]
VariantCount(v) == v.count

\* Occurrences that tell the same: the report's message, stack and handledness.
VariantsOf(S, limit) ==
  LET Key(r) == <<Val(r, "exc_message"), Val(r, "exc_stack"), Val(r, "exc_handled")>>
  IN Limit({Variant(G) : G \in Groups(S, Key)}, limit, VariantCount)

\* The metadata of an event.
EventVariants(S, limit) ==
  Limit({Variant(G) : G \in Groups(S, LAMBDA r : <<Val(r, "metadata_json")>>)},
        limit, VariantCount)

\* Mutant: a group is looked up on every source that reports it.
OccurrencesAnywhere(rows, sources, group, w) ==
  {r \in Exceptions(Window(rows, w)) : Val(r, "exc_group") = group}

\* The first scan of a group's detail: its occurrences on the given sources.
ExceptionOccurrences(rows, sources, group, w) ==
  {r \in Exceptions(Window(rows, w)) :
     r.source \in sources /\ Val(r, "exc_group") = group}

ExceptionDetail(S, w, limit) ==
  IF S = {} THEN Null
  ELSE [count |-> Cardinality(S), first_seen_ms |-> FirstSeen(S),
        last_seen_ms |-> LastSeen(S), trend |-> TrendOf(S, w),
        app_versions |-> AppVersionRows(S), browsers |-> CountBy(S, "ua_browser"),
        operating_systems |-> CountBy(S, "ua_os"), devices |-> CountBy(S, "ua_device"),
        variants |-> VariantsOf(S, limit)]

\* The first scan of an event's detail: exactly that name, a null is none.
EventOccurrences(rows, name, q, w) ==
  Answerable(Kept({r \in Events(Window(rows, w)) : Val(r, "event_name") = name},
                  "dashboard", q))

EventDetail(S, w, limit) ==
  IF S = {} THEN Null
  ELSE [count |-> Cardinality(S), first_seen_ms |-> FirstSeen(S),
        last_seen_ms |-> LastSeen(S), trend |-> TrendOf(S, w),
        sources |-> CountBy(S, "source"), pages |-> CountBy(S, "pathname"),
        browsers |-> CountBy(S, "ua_browser"), devices |-> CountBy(S, "ua_device"),
        operating_systems |-> CountBy(S, "ua_os"), countries |-> CountBy(S, "country"),
        languages |-> CountBy(S, "language"), variants |-> EventVariants(S, limit)]
=============================================================================
