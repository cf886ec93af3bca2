------------------------------ MODULE Entities ------------------------------
(***************************************************************************)
(* Projects, sources and pixels (store/entities.rs) under the admin API's  *)
(* concurrent handlers (web/api/projects.rs, pixels.rs, sources.rs).  Each *)
(* table access is a transaction of its own unless the code says           *)
(* otherwise; a handler is the sequence of its accesses, and other         *)
(* handlers run in between.  Slugs, kinds and display names are left out:  *)
(* no other record refers to them.                                         *)
(***************************************************************************)
EXTENDS Integers, FiniteSets

CONSTANTS
  Projects,   \* project ids (ULIDs: never given twice)
  Pixels,     \* pixel ids, likewise
  Sources,    \* reporting sources
  Strays,     \* ids a client may name although no project was ever given them
  Words,      \* project names, spelling apart
  Tasks,      \* request handlers that may run at once
  None        \* no id, no name

\* A name as it is written, and in lower case.
Names == Words \X {"lower", "upper"}
Fold(name) == name[1]

ASSUME EntitiesAssumption ==
  /\ None \notin Projects \cup Names \cup Strays
  /\ Strays \cap Projects = {}

VARIABLES
  projects,   \* PROJECTS: id to name
  pixels,     \* PIXELS: id to the project it belongs to
  sources,    \* SOURCES: source to its project, or None
  used,       \* ids given so far, of projects and pixels
  tasks,      \* per handler: its next access and what it has read
  deleted,    \* history: projects that were deleted
  astray,     \* history: sources last assigned to a project that was not there
  raced       \* history: a handler wrote although what it had read changed

tables == <<projects, pixels, sources>>
evars == <<tables, used, tasks, deleted, astray, raced>>

Map(S, T) == UNION {[D -> T] : D \in SUBSET S}
Put(f, x, y) == [z \in DOMAIN f \cup {x} |-> IF z = x THEN y ELSE f[z]]
Drop(f, S) == [z \in DOMAIN f \ S |-> f[z]]
EmptyMap == [x \in {} |-> x]

Live == DOMAIN projects

NoTask == [pc |-> "idle", id |-> None, project |-> None, name |-> None, stale |-> FALSE]

EInit ==
  /\ projects = EmptyMap
  /\ pixels = EmptyMap
  /\ sources = [s \in Sources |-> None]
  /\ used = {}
  /\ tasks = [t \in Tasks |-> NoTask]
  /\ deleted = {}
  /\ astray = {}
  /\ raced = FALSE

-----------------------------------------------------------------------------
(* Names (projects.rs: name_taken).                                        *)

\* Mutant: compares names as they are written.
NameTakenExactly(name, except) ==
  \E p \in Live \ {except} : projects[p] = name

NameTaken(name, except) ==
  \E p \in Live \ {except} : Fold(projects[p]) = Fold(name)

\* A handler goes on: its next access, with what it knows.
Becomes(t, task) == tasks' = [tasks EXCEPT ![t] = task]

\* A handler finishes by a write.  What the others in the same tables have
\* read so far is stale from now on.
Written(t) ==
  /\ tasks' = [u \in Tasks |->
       IF u = t \/ tasks[u].pc = "idle" THEN NoTask ELSE [tasks[u] EXCEPT !.stale = TRUE]]
  /\ raced' = (raced \/ tasks[t].stale)

\* POST /projects: reject a taken name ...
CreateProject(t, name) ==
  /\ tasks[t].pc = "idle"
  /\ ~ NameTaken(name, None)
  /\ \E p \in Projects \ used :
       /\ used' = used \cup {p}
       /\ Becomes(t, [NoTask EXCEPT !.pc = "putProject", !.id = p, !.name = name])
  /\ UNCHANGED <<tables, deleted, astray, raced>>

\* ... PUT /projects/{id}: read the project ...
UpdateProject(t, p, name) ==
  /\ tasks[t].pc = "idle"
  /\ p \in Live
  /\ Becomes(t, IF name = None
                THEN [NoTask EXCEPT !.pc = "putProject", !.id = p, !.name = projects[p]]
                ELSE [NoTask EXCEPT !.pc = "checkName", !.id = p, !.name = name])
  /\ UNCHANGED <<tables, used, deleted, astray, raced>>

\* ... reject a name another project has ...
CheckName(t) ==
  /\ tasks[t].pc = "checkName"
  /\ Becomes(t, IF NameTaken(tasks[t].name, tasks[t].id)
                THEN NoTask
                ELSE [tasks[t] EXCEPT !.pc = "putProject"])
  /\ UNCHANGED <<tables, used, deleted, astray, raced>>

\* ... and put it, whatever is stored under that id by now.
PutProject(t) ==
  /\ tasks[t].pc = "putProject"
  /\ projects' = Put(projects, tasks[t].id, tasks[t].name)
  /\ Written(t)
  /\ UNCHANGED <<pixels, sources, used, deleted, astray>>

\* Mutant: the sources of the project stay assigned to it.
DeleteProjectOnly(t, p) ==
  /\ tasks[t].pc = "idle"
  /\ p \in Live
  /\ projects' = Drop(projects, {p})
  /\ pixels' = Drop(pixels, {x \in DOMAIN pixels : pixels[x] = p})
  /\ deleted' = deleted \cup {p}
  /\ Written(t)
  /\ UNCHANGED <<sources, used, astray>>

\* DELETE /projects/{id}: the cascade, in one transaction.
DeleteProject(t, p) ==
  /\ tasks[t].pc = "idle"
  /\ p \in Live
  /\ projects' = Drop(projects, {p})
  /\ sources' = [s \in DOMAIN sources |-> IF sources[s] = p THEN None ELSE sources[s]]
  /\ pixels' = Drop(pixels, {x \in DOMAIN pixels : pixels[x] = p})
  /\ deleted' = deleted \cup {p}
  /\ Written(t)
  /\ UNCHANGED <<used, astray>>

-----------------------------------------------------------------------------
(* Pixels and sources.                                                     *)

\* POST /projects/{id}/pixels: read the project, then put the pixel.
CreatePixel(t, p) ==
  /\ tasks[t].pc = "idle"
  /\ p \in Live
  /\ \E x \in Pixels \ used :
       /\ used' = used \cup {x}
       /\ Becomes(t, [NoTask EXCEPT !.pc = "putPixel", !.id = x, !.project = p])
  /\ UNCHANGED <<tables, deleted, astray, raced>>

\* PUT /pixels/{id}: read the pixel, then put it with the same project.
UpdatePixel(t, x) ==
  /\ tasks[t].pc = "idle"
  /\ x \in DOMAIN pixels
  /\ Becomes(t, [NoTask EXCEPT !.pc = "putPixel", !.id = x, !.project = pixels[x]])
  /\ UNCHANGED <<tables, used, deleted, astray, raced>>

PutPixel(t) ==
  /\ tasks[t].pc = "putPixel"
  /\ pixels' = Put(pixels, tasks[t].id, tasks[t].project)
  /\ Written(t)
  /\ UNCHANGED <<projects, sources, used, deleted, astray>>

DeletePixel(t, x) ==
  /\ tasks[t].pc = "idle"
  /\ x \in DOMAIN pixels
  /\ pixels' = Drop(pixels, {x})
  /\ Written(t)
  /\ UNCHANGED <<projects, sources, used, deleted, astray>>

\* PUT /sources: one transaction, and any project id the caller sends: nothing
\* looks whether it is one deleted since, or one that never was.
UpdateSource(t, s, p) ==
  /\ tasks[t].pc = "idle"
  /\ s \in DOMAIN sources
  /\ sources' = [sources EXCEPT ![s] = p]
  /\ astray' = IF p \in Live \cup {None} THEN astray \ {s} ELSE astray \cup {s}
  /\ UNCHANGED <<projects, pixels, used, tasks, deleted, raced>>

\* DELETE /sources, and the writer registering the source when it reports again.
DeleteSource(t, s) ==
  /\ tasks[t].pc = "idle"
  /\ s \in DOMAIN sources
  /\ sources' = Drop(sources, {s})
  /\ astray' = astray \ {s}
  /\ UNCHANGED <<projects, pixels, used, tasks, deleted, raced>>

RegisterSource(s) ==
  /\ s \in Sources \ DOMAIN sources
  /\ sources' = Put(sources, s, None)
  /\ UNCHANGED <<projects, pixels, used, tasks, deleted, astray, raced>>

-----------------------------------------------------------------------------
Admin(t) ==
  \/ \E name \in Names : CreateProject(t, name)
  \/ \E p \in Projects, name \in Names \cup {None} : UpdateProject(t, p, name)
  \/ CheckName(t)
  \/ PutProject(t)
  \/ \E p \in Projects : DeleteProject(t, p) \/ CreatePixel(t, p)
  \/ \E x \in Pixels : UpdatePixel(t, x) \/ DeletePixel(t, x)
  \/ PutPixel(t)
  \/ \E s \in Sources : DeleteSource(t, s)
  \/ \E s \in Sources, p \in Live \cup deleted \cup Strays \cup {None} : UpdateSource(t, s, p)

ENext ==
  \/ \E t \in Tasks : Admin(t)
  \/ \E s \in Sources : RegisterSource(s)

ESpec == EInit /\ [][ENext]_evars

-----------------------------------------------------------------------------
(* Properties.                                                             *)

ETypeOK ==
  /\ projects \in Map(Projects, Names)
  /\ pixels \in Map(Pixels, Projects)
  /\ sources \in Map(Sources, Projects \cup Strays \cup {None})
  /\ used \subseteq Projects \cup Pixels /\ deleted \subseteq Projects /\ astray \subseteq Sources
  /\ \A t \in Tasks :
       /\ tasks[t].pc \in {"idle", "checkName", "putProject", "putPixel"}
       /\ tasks[t].pc \in {"checkName", "putProject"} =>
            tasks[t].id \in Projects /\ tasks[t].name \in Names
       /\ tasks[t].pc = "putPixel" => tasks[t].id \in Pixels /\ tasks[t].project \in Projects
  /\ raced \in BOOLEAN

\* "project names must be unique" (projects.rs:134), case-insensitively.
NamesUnique == \A p, q \in Live : Fold(projects[p]) = Fold(projects[q]) => p = q

\* Unless handlers overlap, no sequence of requests gives two projects a name.
NamesUniqueUnlessRaced == raced \/ NamesUnique

\* No source is assigned to a deleted project, but for those assigned to it
\* afterwards.
SourcesOwned == \A s \in DOMAIN sources \ astray : sources[s] \in Live \cup {None}

\* "a partial failure can never leave a half-deleted project" (entities.rs:27-31,
\* projects.rs:93-97): what was deleted stays deleted, and no pixel and no source
\* belongs to it, unless handlers overlap or the source was assigned to it later.
DeletedWholeUnlessRaced ==
  \/ raced
  \/ /\ Live \cap deleted = {}
     /\ \A x \in DOMAIN pixels : pixels[x] \in Live
     /\ SourcesOwned
=============================================================================
