----------------------------- MODULE EventQuery -----------------------------
(***************************************************************************)
(* Queries over the event store (analytics/mod.rs: combined,               *)
(* parquet_files_in_range, earliest_event_ms), running beside the writer,  *)
(* the compactor and crashes.  A query takes no lock: it lists the         *)
(* partition files of its range, then snapshots the hot table, then reads  *)
(* the listed files when the lazy plan is collected.  Anything can happen  *)
(* between those three steps.                                              *)
(***************************************************************************)
EXTENDS EventStore

CONSTANTS
  Readers,   \* concurrent query tasks (web::block)
  Froms,     \* the range starts queries ask for
  Span       \* length of the range: to = from + Span

ASSUME QueryAssumption ==
  /\ Froms \subseteq Nat
  /\ Span \in Nat \ {0}

VARIABLES
  readers    \* per query task: its step, range, listing, hot rows, answer

qvars == <<vars, readers>>

\* A row of the union is an event and the frame it came from, the hot table or
\* a file by its path: a crash leaves the same event in two frames.
HotFrame == <<>>
Path(f) == <<f.day, f.stamp>>
Row == [frame : {HotFrame} \cup (Nat \X Nat), event : Event]

NoQuery ==
  [pc |-> "idle", from |-> 0, files |-> {}, rows |-> {}, failed |-> FALSE,
   due |-> {}, raced |-> FALSE, skipped |-> FALSE]

To(q) == q.from + Span
InRange(e, q) == q.from <= e.at /\ e.at < To(q)

\* Mutant: the day the range ends in is pruned.
FilesBeforeEnd(from) == {f \in cold : Day(from) <= f.day /\ f.day < Day(from + Span)}

\* parquet_files_in_range: whole day directories, both end days included.
FilesInRange(from) == {f \in cold : Day(from) <= f.day /\ f.day <= Day(from + Span)}

\* Mutant: the union is not de-duplicated.
NotUnique(rows) == rows

\* unique(None, Any): of the rows equal in every column, keep one.
Unique(rows) == {CHOOSE r \in rows : r.event = e : e \in {r.event : r \in rows}}

QInit == Init /\ readers = [r \in Readers |-> NoQuery]

\* The listing; a file that cannot be opened is warned about and left out of the
\* query.  due is history: what was committed, and still in retention, when the
\* query began.
QList(r, from) ==
  /\ running
  /\ readers[r].pc \in {"idle", "done"}
  /\ \E unreadable \in SUBSET FilesInRange(from) :
       readers' = [readers EXCEPT ![r] =
         [NoQuery EXCEPT !.pc = "listed", !.from = from,
                         !.files = FilesInRange(from) \ unreadable,
                         !.skipped = unreadable # {},
                         !.due = {e \in Stored : from <= e.at /\ e.at < from + Span}]]
  /\ UNCHANGED vars

\* hot_dataframe: one read transaction over the whole hot table.
QHot(r) ==
  /\ readers[r].pc = "listed"
  /\ readers' = [readers EXCEPT ![r].pc = "scanned",
                                ![r].rows = {[frame |-> HotFrame, event |-> e] : e \in hot}]
  /\ UNCHANGED vars

\* collect: the files are read now, filtered to the half-open range and
\* de-duplicated.  A listed file that is gone fails the query.
QCollect(r) ==
  LET q == readers[r]
      archived == UNION {{[frame |-> Path(f), event |-> e] : e \in f.rows} : f \in q.files}
      union == {x \in q.rows \cup archived : InRange(x.event, q)}
  IN
  /\ q.pc = "scanned"
  /\ readers' = [readers EXCEPT
       ![r].pc = "done",
       ![r].failed = ~ (q.files \subseteq cold),
       ![r].rows = IF q.files \subseteq cold THEN Unique(union) ELSE {}]
  /\ UNCHANGED vars

\* A crash takes the queries with it; a compaction that empties the hot window
\* under a query that has its listing but not its hot rows is remembered.
StoreStep ==
  /\ Next
  /\ readers' =
       [r \in Readers |->
          IF ~ running' THEN NoQuery
          ELSE IF hot \subseteq hot' \/ readers[r].pc # "listed" THEN readers[r]
          ELSE [readers[r] EXCEPT !.raced = TRUE]]

QNext ==
  \/ StoreStep
  \/ \E r \in Readers : \E from \in Froms : QList(r, from)
  \/ \E r \in Readers : QHot(r) \/ QCollect(r)

QSpec == QInit /\ [][QNext]_qvars

-----------------------------------------------------------------------------
(* earliest_event_ms, the anchor of an all-time query.                     *)

NoTime == -1

Lowest(S) == CHOOSE x \in S : \A y \in S : x <= y

\* Oldest month directory, then the oldest day directory below it.
EarliestPartition ==
  IF months = {} THEN NoTime
  ELSE LET below == {d \in days : Month(d) = Lowest(months)} IN
       IF below = {} THEN NoTime ELSE StartOfDay(Lowest(below))

\* Mutant: the hot store is asked first.
EarliestHotFirst ==
  IF hot # {} THEN Lowest({e.at : e \in hot}) ELSE EarliestPartition

Earliest ==
  IF EarliestPartition # NoTime THEN EarliestPartition
  ELSE IF hot = {} THEN NoTime
  ELSE Lowest({e.at : e \in hot})

-----------------------------------------------------------------------------
(* Properties.                                                             *)

Finished(r) == readers[r].pc = "done" /\ ~ readers[r].failed
Answer(r) == {x.event : x \in readers[r].rows}

\* The shape of a query task.
Query ==
  [pc : {"idle", "listed", "scanned", "done"}, from : Nat, files : SUBSET File,
   rows : SUBSET Row, failed : BOOLEAN, due : SUBSET Event, raced : BOOLEAN,
   skipped : BOOLEAN]

QTypeOK == readers \in [Readers -> Query]

\* No event is counted twice and none that was never committed or lies outside
\* the range is counted, whatever duplicates interrupted compactions left
\* (mod.rs:1156-1160).
CountedOnce ==
  \A r \in Readers : Finished(r) =>
    /\ \A x, y \in readers[r].rows : x.event = y.event => x = y
    /\ \A e \in Answer(r) : e \in log /\ InRange(e, readers[r])

\* What was stored when the query began is in its answer, unless a compaction
\* emptied the hot window between the query's listing and its hot snapshot, or a
\* partition could not be opened and was skipped (mod.rs:1131-1135); and there is
\* an answer, unless retention took a partition under the query.  Pruning by day,
\* half-open ranges and partial archives lose nothing.
CompleteUnlessRaced ==
  \A r \in Readers :
    /\ Finished(r) /\ ~ readers[r].raced /\ ~ readers[r].skipped =>
         readers[r].due \subseteq Answer(r)
    /\ readers[r].failed => \E f \in readers[r].files : DayOver(f.day, now)

\* An all-time query starts at or before every stored event, while the oldest
\* month directory still has a day in it.
EarliestWhenDated ==
  (months # {} => \E d \in days : Month(d) = Lowest(months)) =>
    \A e \in Stored : Earliest \in 0..e.at
=============================================================================
