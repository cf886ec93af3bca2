------------------------------- MODULE Ingest -------------------------------
(***************************************************************************)
(* The ingest pipeline (ingest/pipeline.rs): request handlers submit to a  *)
(* bounded channel without blocking; one writer task receives, batches,    *)
(* flushes on a full batch or a timer tick, and registers the sources it   *)
(* has not seen before, up to a ceiling.  Administrators edit and delete   *)
(* sources meanwhile.  The server may be shut down, and then main returns  *)
(* without waiting for the writer; the process may die.  The store below   *)
(* is the one set of EventLog: append_events is one step that happens or   *)
(* does not.                                                               *)
(***************************************************************************)
EXTENDS Integers, Sequences, FiniteSets

CONSTANTS
  Sources,         \* hostnames that report events
  QueueCapacity,   \* QUEUE_CAPACITY
  BatchSize,       \* BATCH_SIZE
  MaxSources,      \* storage.max_auto_sources
  MaxEvents,       \* bound: events submitted in a behaviour
  MaxFaults        \* bound: crashes and failed transactions

ASSUME IngestAssumption ==
  /\ QueueCapacity \in Nat \ {0}
  /\ BatchSize \in Nat \ {0}
  /\ MaxSources \in Nat
  /\ MaxEvents \in Nat
  /\ MaxFaults \in Nat

VARIABLES
  submitted,   \* events handed to Ingest::submit so far
  queue,       \* the mpsc channel
  senders,     \* web::run has not returned: a handle that can submit is alive
  wpc,         \* where the writer task is
  batch,       \* events received and not yet flushed
  flight,      \* events taken by the flush in progress
  fresh,       \* sources this flush will register
  todo,        \* those of fresh still to be looked up or inserted
  known,       \* known_sources
  table,       \* the SOURCES table: absent, unassigned or assigned
  stored,      \* durable events, in sequence-number order
  faults,
  lost,        \* history: accepted events gone with the process or a failed append
  missed       \* history: a seeding or a registration failed

writer == <<wpc, batch, flight, fresh, todo, known>>
durable == <<table, stored>>
vars == <<submitted, queue, senders, writer, durable, faults, lost, missed>>

Event == [id : Nat, source : Sources]

Ids(s) == {s[i].id : i \in DOMAIN s}
Registered == {s \in Sources : table[s] # "absent"}

Init ==
  /\ submitted = 0
  /\ queue = <<>>
  /\ senders = TRUE
  /\ wpc = "seed" /\ batch = <<>> /\ flight = <<>> /\ fresh = {} /\ todo = {} /\ known = {}
  /\ table = [s \in Sources |-> "absent"]
  /\ stored = <<>>
  /\ faults = 0
  /\ lost = {}
  /\ missed = FALSE

Fault ==
  /\ faults < MaxFaults
  /\ faults' = faults + 1

-----------------------------------------------------------------------------
(* Submitting: try_send on a bounded channel.                              *)

\* The channel has room (the writer outlives its senders).
Submit(s) ==
  /\ senders
  /\ submitted < MaxEvents
  /\ Len(queue) < QueueCapacity
  /\ submitted' = submitted + 1
  /\ queue' = Append(queue, [id |-> submitted', source |-> s])
  /\ UNCHANGED <<senders, writer, durable, faults, lost, missed>>

\* A full channel drops the event; the handler has already moved on.
SubmitDropped ==
  /\ senders
  /\ submitted < MaxEvents
  /\ Len(queue) >= QueueCapacity
  /\ submitted' = submitted + 1
  /\ UNCHANGED <<queue, senders, writer, durable, faults, lost, missed>>

-----------------------------------------------------------------------------
(* The writer task.                                                        *)

\* known_sources is seeded from the table before the first receive ...
Seed ==
  /\ wpc = "seed"
  /\ known' = Registered
  /\ wpc' = "select"
  /\ UNCHANGED <<submitted, queue, senders, batch, flight, fresh, todo, durable,
                 faults, lost, missed>>

\* ... and starts empty when that read fails.
SeedFails ==
  /\ wpc = "seed"
  /\ Fault
  /\ known' = {}
  /\ wpc' = "select"
  /\ missed' = TRUE
  /\ UNCHANGED <<submitted, queue, senders, batch, flight, fresh, todo, durable, lost>>

\* Where a source first occurs in a batch.
FirstAt(b, s) ==
  CHOOSE i \in DOMAIN b : b[i].source = s /\ \A j \in DOMAIN b : b[j].source = s => i <= j

\* Mutant: the sources before it in the batch do not count.
NewSourcesUncounted(b) ==
  LET unknown == {b[i].source : i \in DOMAIN b} \ known IN
  {s \in unknown : Cardinality(known) < MaxSources}

\* Sources of the batch this process has not seen, in batch order, as long as
\* known_sources and the ones before them stay below the ceiling.
NewSources(b) ==
  LET unknown == {b[i].source : i \in DOMAIN b} \ known IN
  {s \in unknown :
     Cardinality(known) + Cardinality({u \in unknown : FirstAt(b, u) < FirstAt(b, s)})
       < MaxSources}

\* flush_batch up to its spawn_blocking: take the batch, choose the sources.
StartFlush(b) ==
  /\ b # <<>>
  /\ flight' = b
  /\ batch' = <<>>
  /\ fresh' = NewSources(b)
  /\ todo' = NewSources(b)
  /\ wpc' = "append"

Recv ==
  /\ wpc = "select"
  /\ queue # <<>>
  /\ queue' = Tail(queue)
  /\ LET b == Append(batch, Head(queue)) IN
       IF Len(b) >= BatchSize
       THEN StartFlush(b)
       ELSE batch' = b /\ UNCHANGED <<wpc, flight, fresh, todo>>
  /\ UNCHANGED <<submitted, senders, known, durable, faults, lost, missed>>

\* Mutant: without its flush interval, the writer flushes a batch that is not
\* full only once the channel is closed.
FlushTickAtEnd ==
  /\ wpc = "select"
  /\ ~ senders /\ queue = <<>>
  /\ StartFlush(batch)
  /\ UNCHANGED <<submitted, queue, senders, known, durable, faults, lost, missed>>

\* The flush interval; also the last flush, once the channel is closed.
FlushTick ==
  /\ wpc = "select"
  /\ StartFlush(batch)
  /\ UNCHANGED <<submitted, queue, senders, known, durable, faults, lost, missed>>

\* recv() returned None: every sender is gone and the channel is drained.
Finish ==
  /\ wpc = "select"
  /\ ~ senders /\ queue = <<>> /\ batch = <<>>
  /\ wpc' = "stopped"
  /\ UNCHANGED <<submitted, queue, senders, batch, flight, fresh, todo, known, durable,
                 faults, lost, missed>>

\* append_events: the whole batch in one transaction.
AppendEvents ==
  /\ wpc = "append"
  /\ stored' = stored \o flight
  /\ wpc' = "register"
  /\ UNCHANGED <<submitted, queue, senders, batch, flight, fresh, todo, known, table,
                 faults, lost, missed>>

\* The transaction fails: the error is logged and the batch is gone.
AppendEventsFails ==
  /\ wpc = "append"
  /\ Fault
  /\ lost' = lost \cup Ids(flight)
  /\ wpc' = "select"
  /\ flight' = <<>> /\ fresh' = {} /\ todo' = {}
  /\ UNCHANGED <<submitted, queue, senders, batch, known, durable, missed>>

Earliest(S) == {s \in S : \A u \in S : FirstAt(flight, s) <= FirstAt(flight, u)}

\* Mutant: inserts without looking.
RegisterUnchecked(s) ==
  /\ wpc = "register"
  /\ s \in Earliest(todo)
  /\ wpc' = "insert"
  /\ UNCHANGED <<submitted, queue, senders, batch, flight, fresh, todo, known, durable,
                 faults, lost, missed>>

\* register_source_if_absent, its read transaction ...
RegisterCheck(s) ==
  /\ wpc = "register"
  /\ s \in Earliest(todo)
  /\ IF table[s] # "absent"
     THEN todo' = todo \ {s} /\ UNCHANGED wpc
     ELSE wpc' = "insert" /\ UNCHANGED todo
  /\ UNCHANGED <<submitted, queue, senders, batch, flight, fresh, known, durable,
                 faults, lost, missed>>

\* ... and its write transaction, which overwrites what is there.
RegisterPut(s) ==
  /\ wpc = "insert"
  /\ s \in Earliest(todo)
  /\ table' = [table EXCEPT ![s] = "unassigned"]
  /\ todo' = todo \ {s}
  /\ wpc' = "register"
  /\ UNCHANGED <<submitted, queue, senders, batch, flight, fresh, known, stored,
                 faults, lost, missed>>

\* Mutant: a flush that fails is retried whole, although its append went through.
RegisterFailsRetries ==
  /\ wpc \in {"register", "insert"}
  /\ todo # {}
  /\ Fault
  /\ wpc' = "select"
  /\ batch' = flight
  /\ flight' = <<>> /\ fresh' = {} /\ todo' = {}
  /\ missed' = TRUE
  /\ UNCHANGED <<submitted, queue, senders, known, durable, lost>>

\* One of several registrations fails: the earlier ones stay, known_sources
\* learns of none of them.
RegisterFails ==
  /\ wpc \in {"register", "insert"}
  /\ todo # {}
  /\ Fault
  /\ wpc' = "select"
  /\ flight' = <<>> /\ fresh' = {} /\ todo' = {}
  /\ missed' = TRUE
  /\ UNCHANGED <<submitted, queue, senders, batch, known, durable, lost>>

\* Every source is registered: known_sources.extend(new_sources).
EndFlush ==
  /\ wpc = "register"
  /\ todo = {}
  /\ known' = known \cup fresh
  /\ wpc' = "select"
  /\ flight' = <<>> /\ fresh' = {}
  /\ UNCHANGED <<submitted, queue, senders, batch, todo, durable, faults, lost, missed>>

-----------------------------------------------------------------------------
(* Administrators (web/api/sources.rs) and the life of the process.        *)

\* One transaction: assigns the source to a project, or unassigns it.
UpdateSource(s, to) ==
  /\ senders
  /\ table[s] # "absent"
  /\ table' = [table EXCEPT ![s] = to]
  /\ UNCHANGED <<submitted, queue, senders, writer, stored, faults, lost, missed>>

DeleteSource(s) ==
  /\ senders
  /\ table[s] # "absent"
  /\ table' = [table EXCEPT ![s] = "absent"]
  /\ UNCHANGED <<submitted, queue, senders, writer, stored, faults, lost, missed>>

\* web::run returned: the last handles that can submit are dropped.
Shutdown ==
  /\ senders
  /\ senders' = FALSE
  /\ UNCHANGED <<submitted, queue, writer, durable, faults, lost, missed>>

\* Events accepted and not stored when the process goes away.
InMemory == Ids(queue) \cup Ids(batch) \cup (IF wpc = "append" THEN Ids(flight) ELSE {})

LeaveNothing ==
  /\ lost' = lost \cup InMemory
  /\ queue' = <<>>
  /\ batch' = <<>> /\ flight' = <<>> /\ fresh' = {} /\ todo' = {}
  /\ known' = {}

\* The blocking closure of flush_batch has begun and has registrations to make.
InClosure == wpc \in {"register", "insert"} /\ todo # {}

\* main returns: nothing joins the writer task, so it is dropped wherever it is
\* waiting; only a blocking closure that runs is run to its end.
Exit ==
  /\ ~ senders
  /\ wpc # "exited"
  /\ ~ InClosure
  /\ LeaveNothing
  /\ wpc' = "exited"
  /\ UNCHANGED <<submitted, senders, durable, faults, missed>>

\* The server is started again.
Start ==
  /\ wpc = "exited"
  /\ wpc' = "seed"
  /\ senders' = TRUE
  /\ UNCHANGED <<submitted, queue, batch, flight, fresh, todo, known, durable,
                 faults, lost, missed>>

\* The process dies, and a supervisor starts it again.
Restart ==
  /\ wpc # "exited"
  /\ Fault
  /\ LeaveNothing
  /\ senders' = TRUE
  /\ wpc' = "seed"
  /\ UNCHANGED <<submitted, durable, missed>>

-----------------------------------------------------------------------------
Writer ==
  \/ Seed \/ Recv \/ FlushTick \/ Finish
  \/ AppendEvents \/ EndFlush
  \/ \E s \in todo : RegisterCheck(s) \/ RegisterPut(s)

WriterFails == SeedFails \/ AppendEventsFails \/ RegisterFails

Admin == \E s \in Sources : DeleteSource(s) \/ \E to \in {"unassigned", "assigned"} : UpdateSource(s, to)

Next ==
  \/ \E s \in Sources : Submit(s)
  \/ SubmitDropped
  \/ Writer \/ WriterFails \/ Admin
  \/ Shutdown \/ Exit \/ Start \/ Restart

Spec == Init /\ [][Next]_vars

\* While web::run serves, the writer task is polled as long as it can progress and
\* its timer ticks.  Once it returned, main returns: nothing polls the writer any
\* more, and only a closure that was begun is waited for.
FairSpec ==
  /\ Spec
  /\ WF_vars((senders \/ InClosure) /\ Writer)
  /\ WF_vars(Exit)

-----------------------------------------------------------------------------
(* Properties.                                                             *)

TypeOK ==
  /\ submitted \in Nat /\ faults \in Nat
  /\ queue \in Seq(Event) /\ batch \in Seq(Event) /\ flight \in Seq(Event)
  /\ stored \in Seq(Event)
  /\ senders \in BOOLEAN /\ missed \in BOOLEAN
  /\ wpc \in {"seed", "select", "append", "register", "insert", "stopped", "exited"}
  /\ fresh \subseteq Sources /\ todo \subseteq fresh /\ known \subseteq Sources
  /\ table \in [Sources -> {"absent", "unassigned", "assigned"}]
  /\ lost \subseteq Nat

\* Everything on its way, oldest first.
Pipeline == stored \o (IF wpc = "append" THEN flight ELSE <<>>) \o batch \o queue

\* Events reach the store in the order they were accepted, none twice, and
\* none that was lost ever turns up: one path through queue, batch and flight.
OrderedOnce ==
  /\ \A i, j \in DOMAIN Pipeline : i < j => Pipeline[i].id < Pipeline[j].id
  /\ lost \cap Ids(Pipeline) = {}

\* An accepted event is never left behind in the queue or the batch: as long as
\* the server runs it is stored in the end (pipeline.rs:56-78), unless the process
\* goes away first or its append fails.  An orderly shutdown takes it too: main
\* returns without waiting for the last flush of pipeline.rs:69-72.
AcceptedIsSettled ==
  \A i \in 1..MaxEvents :
    (i \in Ids(queue)) ~> (i \in Ids(stored) \/ i \in lost)

\* The look-up and the insert are two transactions, and yet registration never
\* overwrites a source someone assigned (entities.rs:105-107).
RegisterNeverClobbers ==
  [][\A s \in Sources : RegisterPut(s) => table[s] = "absent"]_vars

\* "Once this many sources exist, new ones stop auto-registering"
\* (config.rs:112), unless a registration or the initial seeding failed.
CapUnlessMissed == missed \/ Cardinality(Registered) <= MaxSources
=============================================================================
