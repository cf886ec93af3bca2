------------------------------- MODULE Rollup -------------------------------
(***************************************************************************)
(* The dashboard's fold of traffic into projects (analytics/mod.rs:        *)
(* project_rollup): it reads sources, pixels and projects in that order,   *)
(* each in a transaction of its own, while the admin API of Entities runs. *)
(***************************************************************************)
EXTENDS Entities

VARIABLE
  view   \* one rollup: its next read, owners found so far, rows shown nowhere; and
         \* what was astray or deleted when it began

NoView == [pc |-> "idle", owners |-> EmptyMap, missing |-> {}, astray |-> {}, before |-> {}]

RInit == EInit /\ view = NoView

\* Everything that has sent traffic: sources, and pixels even if deleted since.
Rows == Sources \cup (used \cap Pixels)

RollupSources ==
  /\ view.pc \in {"idle", "done"}
  /\ view' = [NoView EXCEPT !.pc = "pixels",
       !.owners = Drop(sources, {s \in DOMAIN sources : sources[s] = None}),
       !.astray = astray,
       !.before = deleted]
  /\ UNCHANGED evars

RollupPixels ==
  /\ view.pc = "pixels"
  /\ view' = [view EXCEPT !.pc = "projects",
       !.owners = [r \in DOMAIN @ \cup DOMAIN pixels |->
                     IF r \in DOMAIN pixels THEN pixels[r] ELSE @[r]]]
  /\ UNCHANGED evars

\* Mutant: looks totals up by the project's name.
RollupByName ==
  /\ view.pc = "projects"
  /\ view' = [view EXCEPT !.pc = "done",
       !.missing = {r \in Rows \cap DOMAIN view.owners :
                      \A p \in Live : projects[p] # view.owners[r]}]
  /\ UNCHANGED evars

\* Rows without an owner are listed as unassigned, the others under their
\* owner if it is among the projects.
RollupProjects ==
  /\ view.pc = "projects"
  /\ view' = [view EXCEPT !.pc = "done",
       !.missing = {r \in Rows \cap DOMAIN view.owners : view.owners[r] \notin Live}]
  /\ UNCHANGED evars

RollupStep == RollupSources \/ RollupPixels \/ RollupProjects

RSpec == RInit /\ [][RollupStep \/ (ENext /\ UNCHANGED view)]_<<evars, view>>

-----------------------------------------------------------------------------
\* Each row of traffic is shown under its project or among "the sources that
\* belong to no project" (mod.rs:1559-1560), with these exceptions: its source was
\* assigned to a project that was not there (sources.rs:36-38 looks at nothing),
\* its project was deleted while the three tables were read, or, once handlers
\* have overlapped, some time before.
MissingOnlyWithoutProject ==
  view.pc = "done" =>
    \A r \in view.missing :
      \/ r \in view.astray
      \/ view.owners[r] \in deleted \ view.before
      \/ raced /\ view.owners[r] \in deleted
=============================================================================
