------------------------------ MODULE Upgrade ------------------------------
(***************************************************************************)
(* Start-up (main.rs: serve; store/schema.rs; ingest/regroup.rs and        *)
(* store/regroup.rs): a process opens the store, brings it to the current  *)
(* schema, re-groups stored exceptions if its grouping rules differ from   *)
(* those applied last, and only then serves.  It may die between any two   *)
(* transactions or file renames, and come back as a build with other       *)
(* rules.  Two failures have different fingerprints, and a report that is  *)
(* cut when stored has another one than the whole report.                  *)
(***************************************************************************)
EXTENDS Integers, FiniteSets

CONSTANTS
  Failures,    \* what clients report
  Long,        \* those whose report is cut when stored
  MaxBuild,    \* grouping rules are numbered 1..MaxBuild
  MaxEvents,   \* bound: exceptions reported
  MaxEdits,    \* bound: triage edits
  MaxFiles,    \* bound: partition files
  MaxFaults    \* bound: deaths of the process

ASSUME UpgradeAssumption ==
  /\ Long \subseteq Failures
  /\ MaxBuild \in Nat \ {0} /\ {MaxEvents, MaxEdits, MaxFiles, MaxFaults} \subseteq Nat

SchemaVersion == 2
Never == -1

VARIABLES
  build,        \* the rules of the installed build
  pc,           \* where the process is: down, one of start-up's steps, serving
  version,      \* META_SCHEMA_VERSION
  applied,      \* META_FINGERPRINT_VERSION
  triage,       \* EXCEPTION_TRIAGE: group to record
  hot,          \* stored exceptions: their number, failure and group
  cold,         \* partition files: their number and rows
  batch,        \* rows the compactor has archived and not yet deleted
  todo,         \* files start-up has still to re-group
  edits, faults,
  settled,      \* history: per group, what administrators settled last
  mishaps       \* history: what went wrong between two steps of start-up and was not made good

store == <<version, applied, triage, hot, cold>>
vars == <<build, pc, store, batch, todo, edits, faults, settled, mishaps>>

\* What is kept of a report, and the group the rules of a build put it in.
Kept(f) == [what |-> f, cut |-> f \in Long]
Reported(f) == [what |-> f, cut |-> FALSE]
Fingerprint(b, data) == <<b, data>>
OwnRules == -1
Override(f) == <<OwnRules, Reported(f)>>

\* A triage record of schema 2, and one of schema 1.
Axes(resolved, muted) == [status |-> "", at |-> Never, resolved |-> resolved, muted |-> muted]
Legacy(status, at) == [status |-> status, at |-> at, resolved |-> Never, muted |-> Never]
NewRecord == Axes(Never, Never)

\* migrate_triage_to_axes: reads any record as a legacy one, for which the axes
\* are unknown fields and an absent status is the empty one.
Migrated(r) ==
  Axes(IF r.status = "resolved" THEN r.at ELSE Never,
       IF r.status = "ignored" THEN r.at ELSE Never)

\* An axis after a PATCH that sets it, clears it or leaves it out.
Axis(sent, was) ==
  CASE sent = "set" -> edits + 1 [] sent = "clear" -> Never [] sent = "leave" -> was

\* Mutant: an axis that is left out is cleared.
EditedWhole(record, resolved, muted) ==
  Axes(IF resolved = "set" THEN edits + 1 ELSE Never, IF muted = "set" THEN edits + 1 ELSE Never)

Edited(record, resolved, muted) == Axes(Axis(resolved, record.resolved), Axis(muted, record.muted))

At(f, g, default) == IF g \in DOMAIN f THEN f[g] ELSE default
With(f, g, x) == [h \in DOMAIN f \cup {g} |-> IF h = g THEN x ELSE f[h]]

Regrouped(rows) == {[e EXCEPT !.group = Fingerprint(build, Kept(e.failure))] : e \in rows}

\* A fresh store, or one an earlier release left: schema 1, no rules recorded,
\* one exception and perhaps its triage.
Old(f) == [seq |-> 0, failure |-> f, group |-> Fingerprint(0, Kept(f))]

Init ==
  /\ build \in 1..MaxBuild
  /\ pc = "down"
  /\ applied = 0
  /\ cold = {} /\ batch = {} /\ todo = {}
  /\ edits = 0 /\ faults = 0 /\ mishaps = {}
  /\ \/ /\ version = 0 /\ hot = {}
        /\ triage = [g \in {} |-> NewRecord] /\ settled = triage
     \/ /\ version = 1
        /\ \E f \in Failures, s \in {"resolved", "ignored", "unresolved"} :
             /\ hot = {Old(f)}
             /\ triage = [g \in {Old(f).group} |-> Legacy(s, 0)]
             /\ settled = [g \in {Old(f).group} |->
                  Axes(IF s = "resolved" THEN 0 ELSE Never, IF s = "ignored" THEN 0 ELSE Never)]

-----------------------------------------------------------------------------
(* Opening the store (schema.rs: migrate).                                 *)

Open ==
  /\ pc = "down"
  /\ pc' = IF version = SchemaVersion THEN "check" ELSE "apply"
  /\ UNCHANGED <<build, store, batch, todo, edits, faults, settled, mishaps>>

\* Mutant: stamps the version that was read.
StampRead ==
  /\ pc = "stamp"
  /\ pc' = IF version = SchemaVersion THEN "check" ELSE "apply"
  /\ UNCHANGED <<build, store, batch, todo, edits, faults, settled, mishaps>>

\* The step to the next version, in a transaction of its own ...
Apply ==
  /\ pc = "apply"
  /\ pc' = "stamp"
  /\ triage' = IF version + 1 = 2 THEN [g \in DOMAIN triage |-> Migrated(triage[g])] ELSE triage
  /\ UNCHANGED <<build, version, applied, hot, cold, batch, todo, edits, faults, settled, mishaps>>

\* ... and its stamp in another.
Stamp ==
  /\ pc = "stamp"
  /\ version' = version + 1
  /\ pc' = IF version + 1 = SchemaVersion THEN "check" ELSE "apply"
  /\ UNCHANGED <<build, applied, triage, hot, cold, batch, todo, edits, faults, settled, mishaps>>

-----------------------------------------------------------------------------
(* Re-grouping (regroup_if_needed).                                        *)

CheckRules ==
  /\ pc = "check"
  /\ pc' = IF applied = build THEN "serving" ELSE "hot"
  /\ UNCHANGED <<build, store, batch, todo, edits, faults, settled, mishaps>>

\* One transaction over the hot table; then the partitions are listed.
RegroupHot ==
  /\ pc = "hot"
  /\ pc' = "cold"
  /\ hot' = Regrouped(hot)
  /\ todo' = cold
  /\ UNCHANGED <<build, version, applied, triage, cold, batch, edits, faults, settled, mishaps>>

\* Each partition is read, and replaced by a rename.
RegroupFile(f) ==
  /\ pc = "cold"
  /\ f \in todo
  /\ cold' = (cold \ {f}) \cup {[f EXCEPT !.rows = Regrouped(@)]}
  /\ todo' = todo \ {f}
  /\ UNCHANGED <<build, pc, version, applied, triage, hot, batch, edits, faults, settled, mishaps>>

\* Mutant: serves while partitions are still to do.
StampRulesEarly ==
  /\ pc = "cold"
  /\ applied' = build
  /\ pc' = "serving"
  /\ mishaps' = mishaps \ {"regroup", "rollback"}
  /\ UNCHANGED <<build, version, triage, hot, cold, batch, todo, edits, faults, settled>>

\* Whatever an interrupted run left is re-grouped now.
StampRules ==
  /\ pc = "cold"
  /\ todo = {}
  /\ applied' = build
  /\ pc' = "serving"
  /\ mishaps' = mishaps \ {"regroup", "rollback"}
  /\ UNCHANGED <<build, version, triage, hot, cold, batch, todo, edits, faults, settled>>

-----------------------------------------------------------------------------
(* Serving.                                                                *)

Seqs == {e.seq : e \in hot \cup UNION {f.rows : f \in cold}}

\* An exception is grouped by the whole report, or by the client's own
\* fingerprint, and stored cut (exception.rs: build_exception).
Report(f, overridden) ==
  /\ pc = "serving"
  /\ \E n \in 1..MaxEvents :
       /\ n \notin Seqs
       /\ \A m \in 1..(n - 1) : m \in Seqs
       /\ hot' = hot \cup {[seq |-> n, failure |-> f,
            group |-> IF overridden THEN Override(f) ELSE Fingerprint(build, Reported(f))]}
  /\ UNCHANGED <<build, pc, version, applied, triage, cold, batch, todo, edits, faults, settled, mishaps>>

\* The compactor seals rows into a new partition, then deletes them.
Archive ==
  /\ pc = "serving"
  /\ batch = {} /\ hot # {}
  /\ Cardinality(cold) < MaxFiles
  /\ cold' = cold \cup {[name |-> Cardinality(cold), rows |-> hot]}
  /\ batch' = {e.seq : e \in hot}
  /\ UNCHANGED <<build, pc, version, applied, triage, hot, todo, edits, faults, settled, mishaps>>

Clear ==
  /\ pc = "serving"
  /\ batch # {}
  /\ hot' = {e \in hot : e.seq \notin batch}
  /\ batch' = {}
  /\ UNCHANGED <<build, pc, version, applied, triage, cold, todo, edits, faults, settled, mishaps>>

\* PATCH /exceptions/{id}: the axes that are sent are set or cleared, the other
\* is left alone (exceptions.rs: triage; entities.rs: update_triage).
Triage(g, resolved, muted) ==
  LET was == At(settled, g, NewRecord) IN
  /\ pc = "serving"
  /\ edits < MaxEdits
  /\ edits' = edits + 1
  /\ triage' = With(triage, g, Edited(At(triage, g, NewRecord), resolved, muted))
  /\ settled' = With(settled, g, Axes(Axis(resolved, was.resolved), Axis(muted, was.muted)))
  /\ UNCHANGED <<build, pc, version, applied, hot, cold, batch, todo, faults, mishaps>>

\* An orderly shutdown; nothing is pending between requests.
Stop ==
  /\ pc = "serving"
  /\ pc' = "down"
  /\ batch' = {}
  /\ UNCHANGED <<build, store, todo, edits, faults, settled, mishaps>>

\* The process dies, or exits because a step of start-up failed.
Crash ==
  /\ pc # "down"
  /\ faults < MaxFaults
  /\ faults' = faults + 1
  /\ pc' = "down"
  /\ batch' = {} /\ todo' = {}
  /\ mishaps' = mishaps \cup
       (IF pc = "stamp" /\ version + 1 = 2 THEN {"migration"} ELSE {}) \cup
       (IF pc = "cold" THEN {"regroup"} ELSE {})
  /\ UNCHANGED <<build, store, edits, settled>>

\* Another build is installed while none runs.
Install(b) ==
  /\ pc = "down"
  /\ b # build
  /\ build' = b
  /\ mishaps' = IF "regroup" \in mishaps /\ b = applied THEN mishaps \cup {"rollback"} ELSE mishaps
  /\ UNCHANGED <<pc, store, batch, todo, edits, faults, settled>>

-----------------------------------------------------------------------------
StartUp ==
  \/ Open \/ Apply \/ Stamp \/ CheckRules \/ RegroupHot \/ StampRules
  \/ \E f \in todo : RegroupFile(f)

\* Nothing checks that a PATCH names a group that exists: clients send those they know.
Groups == {e.group : e \in hot} \cup DOMAIN triage

Serve ==
  \/ \E f \in Failures, overridden \in BOOLEAN : Report(f, overridden)
  \/ Archive \/ Clear
  \/ \E g \in Groups, r, m \in {"set", "clear", "leave"} : Triage(g, r, m)

Next == StartUp \/ Serve \/ Stop \/ Crash \/ \E b \in 1..MaxBuild : Install(b)

Spec == Init /\ [][Next]_vars

\* A started process makes progress; failures are bounded by MaxFaults.
FairSpec == Spec /\ WF_vars(StartUp)

-----------------------------------------------------------------------------
(* Properties.                                                             *)

Exception == [seq : Nat, failure : Failures, group : (-1..MaxBuild) \X [what : Failures, cut : BOOLEAN]]
Record ==
  [status : {"", "resolved", "ignored", "unresolved"}, at : Nat \cup {Never},
   resolved : Nat \cup {Never}, muted : Nat \cup {Never}]

\* Once the store has its schema, no record of the old one is left.
TypeOK ==
  /\ build \in 1..MaxBuild /\ applied \in 0..MaxBuild /\ version \in 0..SchemaVersion
  /\ pc \in {"down", "apply", "stamp", "check", "hot", "cold", "serving"}
  /\ hot \subseteq Exception
  /\ \A f \in cold \cup todo : f.name \in Nat /\ f.rows \subseteq Exception
  /\ \A g \in DOMAIN triage : triage[g] \in Record /\ (version = SchemaVersion => triage[g].status = "")

Serving == pc = "serving"
Rows == hot \cup UNION {f.rows : f \in cold}

\* "A `resolved` record's `updated_at` was when it was resolved, so it becomes
\* the `resolved_at` anchor; likewise `ignored` becomes `muted_at`"
\* (schema.rs:81-83); and what is settled since stays, axis by axis
\* (exceptions.rs:208-213), through any number of restarts.
SettledKept == Serving => triage = settled

\* Only a death between the migration and its stamp undoes what was settled.
SettledUnlessInterrupted == "migration" \in mishaps \/ SettledKept

\* "every stored exception's `exc_group` is recomputed ... a crash part-way
\* through simply repeats the work on the next start" (store/regroup.rs:3-9):
\* whatever is served is in the group the build's rules put it in, but for
\* clients' own fingerprints and reports cut when stored.
GroupedByRules ==
  Serving => \A e \in Rows :
    e.failure \in Long \/ e.group[1] = OwnRules \/ e.group = Fingerprint(build, Kept(e.failure))

\* The copies an interrupted compaction left of an exception are in one group:
\* which of them a query keeps makes no difference.
CopiesAgree == Serving => \A e, f \in Rows : e.seq = f.seq => e = f

\* Both hold unless a build is put back after another one's re-grouping died, and
\* until the next re-grouping that is not interrupted.
RegroupedUnlessRolledBack == "rollback" \in mishaps \/ (GroupedByRules /\ CopiesAgree)

\* Start-up always ends in serving once it is no longer interrupted.
ServesEventually == ~ Serving ~> Serving
=============================================================================
