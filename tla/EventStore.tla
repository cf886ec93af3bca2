----------------------------- MODULE EventStore -----------------------------
(***************************************************************************)
(* The durable event store of the agent: the redb hot log                  *)
(* (store/events.rs), the date-partitioned Parquet archive                 *)
(* (store/parquet.rs), the compactor that moves events from one to the     *)
(* other and enforces retention (ingest/compactor.rs), and a process that  *)
(* may crash between any two steps and reopen the store (store/mod.rs).    *)
(*                                                                         *)
(* An event is its sequence number and its receive time: the other columns *)
(* never change once stored, so they play no part here.  Every redb        *)
(* transaction is one action (redb serialises writers and commits          *)
(* atomically); the compactor's run is cut between its transactions and    *)
(* file renames, which is where other actors and crashes get in.           *)
(***************************************************************************)
EXTENDS Calendar

CONSTANTS
  HotWindow,   \* storage.hot_window
  MaxLag,      \* longest time an event waits between receipt and append
  MaxBatch,    \* events in one append (BATCH_SIZE in the code)
  MaxTime,     \* bound: the clock stops here
  MaxSeq,      \* bound: sequence numbers handed out
  MaxFaults    \* bound: crashes and I/O failures in a behaviour

ASSUME StoreAssumption ==
  /\ HotWindow \in Nat
  /\ MaxLag \in Nat
  /\ MaxBatch \in Nat \ {0}
  /\ MaxTime \in Nat
  /\ MaxSeq \in Nat
  /\ MaxFaults \in Nat

VARIABLES
  now,        \* Utc::now(), in seconds; never steps back
  hot,        \* rows of the redb EVENTS table
  metaNext,   \* META_NEXT_SEQ as persisted
  cold,       \* the *.parquet files: their day, file-name stamp and rows
  days,       \* YYYY/MM/DD directories that exist
  months,     \* YYYY/MM directories that exist
  running,    \* the process is up
  nextSeq,    \* Store::next_seq, in memory
  cpc,        \* where the compactor is in compact_once
  batch,      \* the rows it read from hot and is archiving
  todo,       \* days of the batch whose partition is still to be written
  stamp,      \* file-name stamp of the current (or last) compaction
  faults,     \* crashes and I/O failures so far
  log         \* history: every event ever committed

memory == <<running, nextSeq, cpc, batch, todo>>
archive == <<cold, days, months>>
vars == <<now, hot, metaNext, archive, memory, stamp, faults, log>>

Event == [seq : Nat, at : Nat]
File == [day : Nat, stamp : Nat, rows : SUBSET Event]

ColdRows == UNION {f.rows : f \in cold}
Stored == hot \cup ColdRows
BatchDays == {Day(e.at) : e \in batch}

Init ==
  /\ now = 0
  /\ hot = {}
  /\ metaNext = 0
  /\ cold = {} /\ days = {} /\ months = {}
  /\ running = TRUE
  /\ nextSeq = 0
  /\ cpc = "idle" /\ batch = {} /\ todo = {}
  /\ stamp = 0
  /\ faults = 0
  /\ log = {}

-----------------------------------------------------------------------------
(* The environment: time, faults, the process going down and coming back.  *)

Tick ==
  /\ now < MaxTime
  /\ now' = now + 1
  /\ UNCHANGED <<hot, metaNext, archive, memory, stamp, faults, log>>

Fault ==
  /\ faults < MaxFaults
  /\ faults' = faults + 1

\* The process dies: its memory and whatever run was in progress are gone.
Crash ==
  /\ running
  /\ Fault
  /\ running' = FALSE
  /\ nextSeq' = 0
  /\ cpc' = "idle" /\ batch' = {} /\ todo' = {}
  /\ UNCHANGED <<now, hot, metaNext, archive, stamp, log>>

\* Store::open: the counter resumes from the persisted value.
Open ==
  /\ ~running
  /\ running' = TRUE
  /\ nextSeq' = metaNext
  /\ UNCHANGED <<now, hot, metaNext, archive, cpc, batch, todo, stamp, faults, log>>

-----------------------------------------------------------------------------
(* append_events: the batch and META_NEXT_SEQ in one transaction.          *)

\* Receive times the writer may be holding: events wait in the queue and in
\* the batch, and handlers submit in any order.
Recent == {t \in 0..now : now - MaxLag <= t}

\* The n events with receive times at[1..n], numbered in batch order.
Numbered(n, at) == {[seq |-> nextSeq + i - 1, at |-> at[i]] : i \in 1..n}

\* Mutant: META_NEXT_SEQ is loaded before the batch is numbered.
AppendStaleMeta(n, at) ==
  /\ running
  /\ nextSeq + n <= MaxSeq
  /\ hot' = hot \cup Numbered(n, at)
  /\ log' = log \cup Numbered(n, at)
  /\ nextSeq' = nextSeq + n
  /\ metaNext' = nextSeq
  /\ UNCHANGED <<now, archive, running, cpc, batch, todo, stamp, faults>>

AppendEvents(n, at) ==
  /\ running
  /\ nextSeq + n <= MaxSeq
  /\ hot' = hot \cup Numbered(n, at)
  /\ log' = log \cup Numbered(n, at)
  /\ nextSeq' = nextSeq + n
  /\ metaNext' = nextSeq'
  /\ UNCHANGED <<now, archive, running, cpc, batch, todo, stamp, faults>>

\* The transaction fails after numbering k events: nothing is persisted, the
\* in-memory counter keeps the numbers it handed out.
AppendFails(k) ==
  /\ running
  /\ Fault
  /\ nextSeq + k <= MaxSeq
  /\ nextSeq' = nextSeq + k
  /\ UNCHANGED <<now, hot, metaNext, archive, running, cpc, batch, todo, stamp, log>>

-----------------------------------------------------------------------------
(* compact_once: compact_window, then enforce_retention when it succeeded. *)

\* Rows below the cutoff; the threshold is clamped at 0.
Sealable == {e \in hot : e.at < now - HotWindow}

\* events_before_with_keys found nothing: Ok(0), straight to retention.
CompactNothing ==
  /\ running
  /\ cpc = "idle"
  /\ Sealable = {}
  /\ cpc' = "retain"
  /\ UNCHANGED <<now, hot, metaNext, archive, running, nextSeq, batch, todo, stamp, faults, log>>

\* Mutant: every run writes to the same file name.
CompactReadNoStamp ==
  /\ running
  /\ cpc = "idle"
  /\ Sealable # {}
  /\ batch' = Sealable
  /\ todo' = {Day(e.at) : e \in Sealable}
  /\ cpc' = "write"
  /\ UNCHANGED <<now, hot, metaNext, archive, running, nextSeq, stamp, faults, log>>

\* The read transaction.  The stamp is the clock in ms; runs start at least
\* one second apart, so what counts is that no earlier run used it.
CompactRead ==
  /\ running
  /\ cpc = "idle"
  /\ Sealable # {}
  /\ batch' = Sealable
  /\ todo' = {Day(e.at) : e \in Sealable}
  /\ stamp' = stamp + 1
  /\ cpc' = "write"
  /\ UNCHANGED <<now, hot, metaNext, archive, running, nextSeq, faults, log>>

\* write_partition of one day, oldest day first: the renamed file replaces
\* whatever had its path, and its directories are created.
CompactWrite(d) ==
  /\ cpc = "write"
  /\ d \in todo
  /\ \A x \in todo : d <= x
  /\ cold' = {f \in cold : <<f.day, f.stamp>> # <<d, stamp>>}
               \cup {[day |-> d, stamp |-> stamp, rows |-> {e \in batch : Day(e.at) = d}]}
  /\ days' = days \cup {d}
  /\ months' = months \cup {Month(d)}
  /\ todo' = todo \ {d}
  /\ cpc' = IF todo' = {} THEN "delete" ELSE "write"
  /\ UNCHANGED <<now, hot, metaNext, running, nextSeq, batch, stamp, faults, log>>

\* Mutant: an error ends the compactor's loop instead of the run.
CompactWriteFailsForGood(d) ==
  /\ cpc = "write"
  /\ d \in todo
  /\ Fault
  /\ cpc' = "stopped" /\ batch' = {} /\ todo' = {}
  /\ UNCHANGED <<now, hot, metaNext, archive, running, nextSeq, stamp, log>>

\* The write or the rename fails, perhaps after create_dir_all: the run is
\* abandoned, the days already renamed stay, nothing is deleted from hot.
CompactWriteFails(d) ==
  /\ cpc = "write"
  /\ d \in todo
  /\ \A x \in todo : d <= x
  /\ Fault
  /\ days' \in {days, days \cup {d}}
  /\ months' \in {months, months \cup {Month(d)}}
  /\ days' # days => Month(d) \in months'
  /\ cpc' = "idle" /\ batch' = {} /\ todo' = {}
  /\ UNCHANGED <<now, hot, metaNext, cold, running, nextSeq, stamp, log>>

\* Mutant: deletes everything below the cutoff, not the rows that were read.
CompactDeleteByTime ==
  /\ cpc = "delete"
  /\ hot' = hot \ Sealable
  /\ batch' = {}
  /\ cpc' = "retain"
  /\ UNCHANGED <<now, metaNext, archive, running, nextSeq, todo, stamp, faults, log>>

\* delete_keys: exactly the rows that were read, in one transaction.
CompactDelete ==
  /\ cpc = "delete"
  /\ hot' = hot \ batch
  /\ batch' = {}
  /\ cpc' = "retain"
  /\ UNCHANGED <<now, metaNext, archive, running, nextSeq, todo, stamp, faults, log>>

\* Mutant: the error is ignored and retention goes ahead.
CompactDeleteIgnored ==
  /\ cpc = "delete"
  /\ Fault
  /\ batch' = {}
  /\ cpc' = "retain"
  /\ UNCHANGED <<now, hot, metaNext, archive, running, nextSeq, todo, stamp, log>>

\* The delete transaction fails: the window stays in both tiers, and the run
\* ends before enforce_retention.
CompactDeleteFails ==
  /\ cpc = "delete"
  /\ Fault
  /\ batch' = {}
  /\ cpc' = "idle"
  /\ UNCHANGED <<now, hot, metaNext, archive, running, nextSeq, todo, stamp, log>>

\* Mutant: a day is over when it starts, not when it ends.
RetainFromStart ==
  /\ cpc = "retain"
  /\ cold' = {f \in cold : ~ (StartOfDay(f.day) < now - Retention)}
  /\ days' = {d \in days : ~ (StartOfDay(d) < now - Retention)}
  /\ cpc' = "idle"
  /\ UNCHANGED <<now, hot, metaNext, months, running, nextSeq, batch, todo, stamp, faults, log>>

\* enforce_retention: the day directories that are over go, the month
\* directories above them stay.
Retain ==
  /\ cpc = "retain"
  /\ cold' = {f \in cold : ~ DayOver(f.day, now)}
  /\ days' = {d \in days : ~ DayOver(d, now)}
  /\ cpc' = "idle"
  /\ UNCHANGED <<now, hot, metaNext, months, running, nextSeq, batch, todo, stamp, faults, log>>

\* remove_dir_all fails part of the way through; the error is ignored.
RetainPartly(gone) ==
  /\ cpc = "retain"
  /\ Fault
  /\ \A f \in gone : DayOver(f.day, now)
  /\ cold' = cold \ gone
  /\ \E emptied \in SUBSET {d \in days : DayOver(d, now) /\ \A f \in cold' : f.day # d} :
       days' = days \ emptied
  /\ cpc' = "idle"
  /\ UNCHANGED <<now, hot, metaNext, months, running, nextSeq, batch, todo, stamp, log>>

-----------------------------------------------------------------------------
Compact ==
  \/ CompactNothing
  \/ CompactRead
  \/ \E d \in todo : CompactWrite(d)
  \/ CompactDelete
  \/ Retain

CompactFails ==
  \/ \E d \in todo : CompactWriteFails(d)
  \/ CompactDeleteFails
  \/ \E gone \in SUBSET cold : RetainPartly(gone)

Appends ==
  \/ \E n \in 1..MaxBatch : \E at \in [1..n -> Recent] : AppendEvents(n, at)
  \/ \E k \in 0..MaxBatch : AppendFails(k)

Next == Tick \/ Crash \/ Open \/ Appends \/ Compact \/ CompactFails

Spec == Init /\ [][Next]_vars

\* The clock runs, a supervisor restarts the process, and the compactor is a
\* loop over an interval timer: each of its steps is taken if it stays possible.
Fairness == WF_vars(Tick) /\ WF_vars(Open) /\ WF_vars(Compact)

FairSpec == Spec /\ Fairness

-----------------------------------------------------------------------------
(* Properties.                                                             *)

TypeOK ==
  /\ now \in Nat /\ metaNext \in Nat /\ nextSeq \in Nat
  /\ stamp \in Nat /\ faults \in Nat
  /\ hot \subseteq Event /\ batch \subseteq Event /\ log \subseteq Event
  /\ cold \subseteq File
  /\ days \subseteq Nat /\ months \subseteq Nat /\ todo \subseteq Nat
  /\ running \in BOOLEAN
  /\ cpc \in {"idle", "write", "delete", "retain"}

\* No two events ever committed share a number, whatever transactions failed
\* and however often the process restarted (event.rs: seq is unique forever;
\* queries de-duplicate on it).
NumbersUnique == \A e, f \in log : e.seq = f.seq => e = f

\* A committed event stays in one of the two tiers until the day it belongs
\* to is past retention: no failure or crash of the compactor loses it, and an
\* event committed during a run is not deleted by it (compactor.rs:1-3, 46-50).
NoLoss == \A e \in log : e \in Stored \/ DayOver(Day(e.at), now)

\* Duplicates a crash or a failed delete left in both tiers are gone as soon
\* as one later run has succeeded, so retention never leaves the hot copy of
\* an event whose archived copy it removes (compactor.rs:38-44).
CleanAfterRun == cpc = "retain" => hot \cap ColdRows = {}

\* The strengthening that makes NumbersUnique, NoLoss and CleanAfterRun
\* inductive.  Numbers: everything committed is below the persisted counter,
\* which the in-memory one never trails.
CounterInv ==
  /\ \A e \in log : e.seq < metaNext
  /\ running => metaNext <= nextSeq
  /\ ~running => cpc = "idle"

\* Files hold committed events of their own day, and no file of an earlier
\* run can have the path of one this run is still to write.
ArchiveInv ==
  /\ \A f \in cold : /\ f.stamp <= stamp
                     /\ f.rows \subseteq log
                     /\ \A e \in f.rows : Day(e.at) = f.day
  /\ cpc = "write" => \A f \in cold : f.stamp = stamp => f.day \notin todo

\* The run in progress: its rows are still hot and already sealable, each is
\* archived unless its day is still to do, and no other row is in both tiers.
RunInv ==
  /\ hot \subseteq log
  /\ batch \subseteq hot
  /\ \A e \in batch : e.at < now - HotWindow
  /\ cpc \in {"idle", "retain"} => batch = {}
  /\ cpc # "write" => todo = {}
  /\ \A e \in batch : Day(e.at) \in todo \/ e \in ColdRows
  /\ \A e \in hot \cap ColdRows : e.at < now - HotWindow
  /\ cpc \in {"write", "delete"} => hot \cap ColdRows \subseteq batch

IInv ==
  /\ TypeOK
  /\ CounterInv
  /\ ArchiveInv
  /\ RunInv
  /\ NumbersUnique
  /\ NoLoss
  /\ CleanAfterRun

\* The store implements its promise: see EventLog.
Promise == INSTANCE EventLog WITH stored <- Stored, freeSeq <- metaNext, clock <- now

ImplementsLog == Promise!Spec

\* Every event old enough to be sealed before the model's clock stops leaves
\* the hot store, through failures and restarts, as long as those end.
SealedEventually ==
  \A s \in 0..MaxSeq - 1 :
    (\E e \in hot : e.seq = s /\ e.at < MaxTime - HotWindow) ~> (\A e \in hot : e.seq # s)
=============================================================================
