--------------------------- MODULE UpgradeProofs ---------------------------
(***************************************************************************)
(* What Upgrade.tla checks on small instances, proved for any number of    *)
(* builds, exceptions, triage edits, partitions and deaths of the process. *)
(***************************************************************************)
EXTENDS Upgrade, FiniteSetTheorems, TLAPS

USE UpgradeAssumption

-----------------------------------------------------------------------------
(* The inductive invariant.                                                *)

File == [name : Nat, rows : SUBSET Exception]

Shapes ==
  /\ build \in 1..MaxBuild /\ applied \in 0..MaxBuild /\ version \in 0..SchemaVersion
  /\ pc \in {"down", "apply", "stamp", "check", "hot", "cold", "serving"}
  /\ hot \subseteq Exception /\ cold \subseteq File /\ todo \subseteq cold
  /\ IsFiniteSet(cold)
  /\ edits \in Nat

\* The steps of start-up are taken in their order.
StepInv ==
  /\ pc \in {"check", "hot", "cold", "serving"} => version = SchemaVersion
  /\ pc \in {"apply", "stamp"} => version < SchemaVersion
  /\ pc \in {"hot", "cold"} => applied # build
  /\ pc = "serving" => applied = build

\* What was settled is in the records, or will be once they are migrated.
Unmigrated == settled = [g \in DOMAIN triage |-> Migrated(triage[g])]

TriageInv ==
  "migration" \notin mishaps =>
    /\ version = 0 \/ (version = 1 /\ pc # "stamp") => Unmigrated
    /\ version = 1 /\ pc = "stamp" => triage = settled
    /\ version = SchemaVersion => triage = settled

\* A record has its type at every version.
RecordInv ==
  \A g \in DOMAIN triage :
    /\ triage[g] \in Record
    /\ version = SchemaVersion \/ (version = 1 /\ pc = "stamp") => triage[g].status = ""

\* A row where the rules of a build put it, if it was re-grouped, and if it may have
\* been reported since.
Regular(e, b) == e.group = Fingerprint(b, Kept(e.failure))
Good(e, b) == e.failure \in Long \/ e.group[1] = OwnRules \/ Regular(e, b)

Copies(S) == \A e, f \in S : e.seq = f.seq => e = f
Coherent(b) == (\A e \in Rows : Good(e, b)) /\ Copies(Rows)

\* Copies of an exception are of one failure, always; the rows follow the rules that
\* were applied last unless a re-grouping is under way or was interrupted and not
\* repeated; and also then, if these are the build's, unless that was put back.
RowsInv ==
  /\ \A e, f \in Rows : e.seq = f.seq => e.failure = f.failure
  /\ pc # "cold" /\ "regroup" \notin mishaps => Coherent(applied)
  /\ applied = build /\ "rollback" \notin mishaps => Coherent(applied)
  /\ pc = "cold" => /\ \A e \in hot : Regular(e, build)
                    /\ \A f \in cold \ todo : \A e \in f.rows : Regular(e, build)

UInv == Shapes /\ StepInv /\ TriageInv /\ RecordInv /\ RowsInv

-----------------------------------------------------------------------------
(* What the operators of Upgrade.tla make of records and rows.             *)

LEMMA Constants == MaxBuild \in Nat /\ 1 \in 1..MaxBuild /\ SchemaVersion = 2
BY DEF SchemaVersion

LEMMA AxesAre ==
  ASSUME NEW x \in Nat \cup {Never}, NEW y \in Nat \cup {Never}
  PROVE  Axes(x, y) \in Record /\ Axes(x, y).status = ""
BY DEF Axes, Record

LEMMA MigratedIs ==
  ASSUME NEW r \in Record
  PROVE  Migrated(r) \in Record /\ Migrated(r).status = ""
<1>1. r.at \in Nat \cup {Never}
  BY DEF Record
<1> QED  BY <1>1, AxesAre DEF Migrated

LEMMA EditedIs ==
  ASSUME NEW r \in Record, edits \in Nat,
         NEW x \in {"set", "clear", "leave"}, NEW y \in {"set", "clear", "leave"}
  PROVE  Edited(r, x, y) \in Record /\ Edited(r, x, y).status = ""
<1>1. r.resolved \in Nat \cup {Never} /\ r.muted \in Nat \cup {Never}
  BY DEF Record
<1>2. \A v \in {"set", "clear", "leave"}, was \in Nat \cup {Never} : Axis(v, was) \in Nat \cup {Never}
  BY DEF Axis
<1> QED  BY <1>1, <1>2, AxesAre DEF Edited

LEMMA FingerprintIs ==
  ASSUME NEW b \in (-1)..MaxBuild, NEW f \in Failures
  PROVE  /\ Fingerprint(b, Kept(f)) \in (-1..MaxBuild) \X [what : Failures, cut : BOOLEAN]
         /\ Fingerprint(b, Reported(f)) \in (-1..MaxBuild) \X [what : Failures, cut : BOOLEAN]
         /\ Fingerprint(b, Reported(f))[1] = b
<1>1. Kept(f) \in [what : Failures, cut : BOOLEAN]
  BY DEF Kept
<1>2. Reported(f) \in [what : Failures, cut : BOOLEAN]
  BY DEF Reported
<1> QED  BY <1>1, <1>2 DEF Fingerprint

LEMMA KeptWhole ==
  ASSUME NEW f \in Failures, f \notin Long
  PROVE  Kept(f) = Reported(f)
<1>1. (f \in Long) = FALSE
  OBVIOUS
<1> QED  BY <1>1, Zenon DEF Kept, Reported

LEMMA RegroupedIs ==
  ASSUME NEW S \in SUBSET Exception, build \in 1..MaxBuild
  PROVE  /\ Regrouped(S) \subseteq Exception
         /\ \A e \in Regrouped(S) :
              /\ Regular(e, build)
              /\ \E d \in S : e.seq = d.seq /\ e.failure = d.failure
<1> DEFINE new(e) == [e EXCEPT !.group = Fingerprint(build, Kept(e.failure))]
<1>1. ASSUME NEW e \in S
      PROVE  /\ new(e) \in Exception /\ Regular(new(e), build)
             /\ new(e).seq = e.seq /\ new(e).failure = e.failure
  <2> DEFINE x == Fingerprint(build, Kept(e.failure))
  <2>1. e \in Exception /\ e.failure \in Failures
    BY DEF Exception
  <2>2. x \in (-1..MaxBuild) \X [what : Failures, cut : BOOLEAN]
    BY <2>1, FingerprintIs
  <2>3. new(e) = [e EXCEPT !.group = x]
    OBVIOUS
  <2> HIDE DEF x, new
  <2>4. /\ new(e) \in Exception /\ new(e).group = x
        /\ new(e).seq = e.seq /\ new(e).failure = e.failure
    BY <2>1, <2>2, <2>3 DEF Exception
  <2> QED  BY <2>4 DEF x, Regular
<1>2. Regrouped(S) = {new(e) : e \in S}
  BY DEF Regrouped
<1> HIDE DEF new
<1> QED  BY <1>1, <1>2

LEMMA RowsAre ==
  ASSUME NEW e
  PROVE  e \in Rows <=> e \in hot \/ \E f \in cold : e \in f.rows
BY DEF Rows

LEMMA RowsType == Shapes => Rows \subseteq Exception
BY RowsAre DEF Shapes, File

\* Copies of one failure that are where one build puts them are the same.
LEMMA RegularCoheres ==
  ASSUME Shapes, NEW b, \A e \in Rows : Regular(e, b),
         \A e, f \in Rows : e.seq = f.seq => e.failure = f.failure
  PROVE  Coherent(b)
<1>1. \A e, f \in Rows : e.seq = f.seq => e.group = f.group
  BY DEF Regular
<1>2. \A e, f \in Exception : e.seq = f.seq /\ e.failure = f.failure /\ e.group = f.group => e = f
  BY DEF Exception
<1> QED  BY <1>1, <1>2, RowsType DEF Coherent, Copies, Good

-----------------------------------------------------------------------------
(* The steps.                                                              *)

LEMMA InitHolds == Init => UInv
<1> SUFFICES ASSUME Init PROVE UInv
  OBVIOUS
<1>1. /\ build \in 1..MaxBuild /\ applied = 0 /\ pc = "down" /\ cold = {} /\ todo = {} /\ edits = 0
      /\ version \in {0, 1}
  BY DEF Init
<1>2. CASE version = 0
  <2>1. hot = {} /\ triage = [g \in {} |-> NewRecord] /\ settled = triage
    BY <1>2 DEF Init
  <2>2. Shapes
    BY <1>1, <1>2, <2>1, Constants, FS_EmptySet DEF Shapes
  <2>3. TriageInv /\ RecordInv
    BY <1>2, <2>1, Constants DEF TriageInv, RecordInv, Unmigrated
  <2>4. RowsInv
    BY <1>1, <2>1, RowsAre DEF RowsInv, Coherent, Copies
  <2> QED  BY <1>1, <2>2, <2>3, <2>4 DEF UInv, StepInv
<1>3. CASE version = 1
  <2>1. PICK f \in Failures, st \in {"resolved", "ignored", "unresolved"} :
          /\ hot = {Old(f)}
          /\ triage = [g \in {Old(f).group} |-> Legacy(st, 0)]
          /\ settled = [g \in {Old(f).group} |->
               Axes(IF st = "resolved" THEN 0 ELSE Never, IF st = "ignored" THEN 0 ELSE Never)]
    BY <1>3 DEF Init
  <2>2. Legacy(st, 0) \in Record /\ Migrated(Legacy(st, 0)) =
          Axes(IF st = "resolved" THEN 0 ELSE Never, IF st = "ignored" THEN 0 ELSE Never)
    BY DEF Legacy, Record, Migrated
  <2>3. /\ Old(f) \in Exception /\ Regular(Old(f), 0)
    <3>1. Fingerprint(0, Kept(f)) \in (-1..MaxBuild) \X [what : Failures, cut : BOOLEAN]
      BY Constants, FingerprintIs
    <3> QED  BY <3>1 DEF Old, Exception, Regular
  <2>4. Shapes
    BY <1>1, <1>3, <2>1, <2>3, Constants, FS_EmptySet DEF Shapes
  <2>5. TriageInv /\ RecordInv
    BY <1>1, <1>3, <2>1, <2>2, Constants DEF TriageInv, RecordInv, Unmigrated
  <2>6. Rows = {Old(f)}
    BY <1>1, <2>1 DEF Rows
  <2>7. RowsInv
    BY <1>1, <2>3, <2>6 DEF RowsInv, Coherent, Copies, Good
  <2> QED  BY <1>1, <2>4, <2>5, <2>7 DEF UInv, StepInv
<1> QED  BY <1>1, <1>2, <1>3

\* A step that leaves the records alone, what was settled too, and the version.
LEMMA RecordsKept ==
  ASSUME TriageInv, RecordInv, UNCHANGED <<version, triage, settled>>,
         "migration" \in mishaps => "migration" \in mishaps', pc' # "stamp",
         pc = "stamp" /\ version = 1 => "migration" \in mishaps'
  PROVE  TriageInv' /\ RecordInv'
BY Constants DEF TriageInv, RecordInv, Unmigrated

\* A step that leaves the rows alone.
LEMMA RowsKept ==
  ASSUME RowsInv, UNCHANGED <<hot, cold, applied>>, mishaps \subseteq mishaps', pc' # "cold",
         pc = "cold" => "regroup" \in mishaps',
         applied = build' /\ "rollback" \notin mishaps' =>
           build' = build \/ ("regroup" \notin mishaps /\ pc # "cold")
  PROVE  RowsInv'
<1>1. Rows' = Rows
  BY DEF Rows
<1> QED  BY <1>1 DEF RowsInv, Coherent

\* A step that adds no row, where the rules of the build are those applied.
LEMMA RowsFewer ==
  ASSUME RowsInv, Rows' \subseteq Rows, UNCHANGED <<applied, build, mishaps, pc>>, pc # "cold"
  PROVE  RowsInv'
BY DEF RowsInv, Coherent, Copies

LEMMA OpenKeeps == ASSUME UInv, Open PROVE UInv'
<1>1. /\ pc = "down" /\ pc' \in {"check", "apply"} /\ (pc' = "check" <=> version = SchemaVersion)
      /\ UNCHANGED <<build, version, applied, triage, hot, cold, batch, todo, edits, settled, mishaps>>
  BY DEF Open, store
<1>2. Shapes' /\ StepInv'
  BY <1>1, Constants DEF UInv, Shapes, StepInv
<1> QED  BY <1>1, <1>2, RecordsKept, RowsKept DEF UInv

LEMMA ApplyKeeps == ASSUME UInv, Apply PROVE UInv'
<1>1. /\ pc = "apply" /\ pc' = "stamp"
      /\ triage' = IF version + 1 = 2 THEN [g \in DOMAIN triage |-> Migrated(triage[g])] ELSE triage
      /\ UNCHANGED <<build, version, applied, hot, cold, todo, edits, settled, mishaps>>
  BY DEF Apply
<1>2. Shapes' /\ StepInv' /\ version \in {0, 1}
  BY <1>1, Constants DEF UInv, Shapes, StepInv
<1>3. RowsInv'
  BY <1>1, RowsKept DEF UInv
<1>4. CASE version = 1
  <2>1. triage' = [g \in DOMAIN triage |-> Migrated(triage[g])]
    BY <1>1, <1>4
  <2>2. TriageInv'
    BY <1>1, <1>4, <2>1, Constants DEF UInv, TriageInv, Unmigrated
  <2>3. RecordInv'
    BY <2>1, MigratedIs DEF UInv, RecordInv
  <2> QED  BY <1>2, <1>3, <2>2, <2>3 DEF UInv
<1>5. CASE version = 0
  <2>1. triage' = triage
    BY <1>1, <1>5
  <2>2. TriageInv' /\ RecordInv'
    BY <1>1, <1>5, <2>1, Constants DEF UInv, TriageInv, RecordInv, Unmigrated
  <2> QED  BY <1>2, <1>3, <2>2 DEF UInv
<1> QED  BY <1>2, <1>4, <1>5

LEMMA StampKeeps == ASSUME UInv, Stamp PROVE UInv'
<1>1. /\ pc = "stamp" /\ version' = version + 1
      /\ pc' = IF version + 1 = SchemaVersion THEN "check" ELSE "apply"
      /\ UNCHANGED <<build, applied, triage, hot, cold, todo, edits, settled, mishaps>>
  BY DEF Stamp
<1>2. Shapes' /\ StepInv' /\ version \in {0, 1}
  BY <1>1, Constants DEF UInv, Shapes, StepInv
<1>3. RowsInv'
  BY <1>1, RowsKept DEF UInv
<1>4. TriageInv'
  <2>1. CASE version = 0
    BY <1>1, <2>1, Constants DEF UInv, TriageInv, Unmigrated
  <2>2. CASE version = 1
    BY <1>1, <2>2, Constants DEF UInv, TriageInv
  <2> QED  BY <1>2, <2>1, <2>2
<1>5. RecordInv'
  <2>1. CASE version = 0
    BY <1>1, <2>1, Constants DEF UInv, RecordInv
  <2>2. CASE version = 1
    BY <1>1, <2>2, Constants DEF UInv, RecordInv
  <2> QED  BY <1>2, <2>1, <2>2
<1> QED  BY <1>2, <1>3, <1>4, <1>5 DEF UInv

LEMMA CheckKeeps == ASSUME UInv, CheckRules PROVE UInv'
<1>1. /\ pc = "check" /\ pc' = IF applied = build THEN "serving" ELSE "hot"
      /\ UNCHANGED <<build, version, applied, triage, hot, cold, todo, edits, settled, mishaps>>
  BY DEF CheckRules, store
<1>2. Shapes' /\ StepInv'
  BY <1>1, Constants DEF UInv, Shapes, StepInv
<1> QED  BY <1>1, <1>2, RecordsKept, RowsKept DEF UInv

LEMMA RegroupHotKeeps == ASSUME UInv, RegroupHot PROVE UInv'
<1>1. /\ pc = "hot" /\ pc' = "cold" /\ hot' = Regrouped(hot) /\ todo' = cold
      /\ UNCHANGED <<build, version, applied, triage, cold, edits, settled, mishaps>>
  BY DEF RegroupHot
<1>2. /\ hot' \subseteq Exception
      /\ \A e \in hot' : /\ Regular(e, build)
                       /\ \E d \in hot : e.seq = d.seq /\ e.failure = d.failure
  BY <1>1, RegroupedIs DEF UInv, Shapes
<1>3. Shapes' /\ StepInv'
  BY <1>1, <1>2 DEF UInv, Shapes, StepInv
<1>4. \A e \in Rows' : \E d \in Rows : e.seq = d.seq /\ e.failure = d.failure
  BY <1>1, <1>2 DEF Rows
<1>5. RowsInv'
  <2>1. \A e, f \in Rows' : e.seq = f.seq => e.failure = f.failure
    BY <1>4 DEF UInv, RowsInv
  <2>2. applied # build
    BY <1>1 DEF UInv, StepInv
  <2> QED  BY <1>1, <1>2, <2>1, <2>2 DEF RowsInv
<1> QED  BY <1>1, <1>3, <1>5, RecordsKept DEF UInv

LEMMA RegroupFileKeeps == ASSUME UInv, NEW f \in todo, RegroupFile(f) PROVE UInv'
<1> DEFINE g == [f EXCEPT !.rows = Regrouped(f.rows)]
<1>1. /\ pc = "cold" /\ pc' = "cold" /\ cold' = (cold \ {f}) \cup {g} /\ todo' = todo \ {f}
      /\ UNCHANGED <<build, version, applied, triage, hot, edits, settled, mishaps>>
  BY DEF RegroupFile
<1>2. f \in File /\ f \in cold /\ f.rows \subseteq Exception
  BY DEF UInv, Shapes, File
<1>3. /\ Regrouped(f.rows) \subseteq Exception
      /\ \A e \in Regrouped(f.rows) :
           /\ Regular(e, build)
           /\ \E d \in f.rows : e.seq = d.seq /\ e.failure = d.failure
  BY <1>2, RegroupedIs DEF UInv, Shapes
<1>4. g \in File /\ g.rows = Regrouped(f.rows)
  BY <1>2, <1>3 DEF File
<1> HIDE DEF g
<1>5. IsFiniteSet(cold')
  BY <1>1, FS_AddElement, FS_RemoveElement DEF UInv, Shapes
<1>6. Shapes' /\ StepInv'
  BY <1>1, <1>2, <1>4, <1>5 DEF UInv, Shapes, StepInv
<1>7. \A e \in Rows' : \E d \in Rows : e.seq = d.seq /\ e.failure = d.failure
  BY <1>1, <1>2, <1>3, <1>4 DEF Rows
<1>8. RowsInv'
  <2>1. \A e, x \in Rows' : e.seq = x.seq => e.failure = x.failure
    BY <1>7 DEF UInv, RowsInv
  <2>2. applied # build
    BY <1>1 DEF UInv, StepInv
  <2>3. \A x \in cold' \ todo' : \A e \in x.rows : Regular(e, build)
    BY <1>1, <1>3, <1>4 DEF UInv, RowsInv
  <2>4. \A e \in hot : Regular(e, build)
    BY <1>1 DEF UInv, RowsInv
  <2> QED  BY <1>1, <2>1, <2>2, <2>3, <2>4 DEF RowsInv
<1> QED  BY <1>1, <1>6, <1>8, RecordsKept DEF UInv

LEMMA StampRulesKeeps == ASSUME UInv, StampRules PROVE UInv'
<1>1. /\ pc = "cold" /\ pc' = "serving" /\ todo = {} /\ applied' = build
      /\ "migration" \in mishaps => "migration" \in mishaps'
      /\ UNCHANGED <<build, version, triage, hot, cold, todo, edits, settled>>
  BY DEF StampRules
<1>2. Shapes' /\ StepInv'
  BY <1>1, Constants DEF UInv, Shapes, StepInv
<1>3. Rows' = Rows
  BY <1>1 DEF Rows
<1>4. \A e \in Rows : Regular(e, build)
  BY <1>1, RowsAre DEF UInv, RowsInv
<1>5. Coherent(build)
  BY <1>4, RegularCoheres DEF UInv, RowsInv
<1>6. Coherent(applied)'
  BY <1>1, <1>3, <1>5 DEF Coherent
<1>7. RowsInv'
  BY <1>1, <1>3, <1>6 DEF UInv, RowsInv
<1> QED  BY <1>1, <1>2, <1>7, RecordsKept DEF UInv

LEMMA ReportKeeps ==
  ASSUME UInv, NEW f \in Failures, NEW overridden \in BOOLEAN, Report(f, overridden) PROVE UInv'
<1> DEFINE group == IF overridden THEN Override(f) ELSE Fingerprint(build, Reported(f))
<1>1. PICK n \in 1..MaxEvents :
        n \notin Seqs /\ hot' = hot \cup {[seq |-> n, failure |-> f, group |-> group]}
  BY DEF Report
<1>2. /\ pc = "serving"
      /\ UNCHANGED <<build, pc, version, applied, triage, cold, todo, edits, settled, mishaps>>
  BY DEF Report
<1> DEFINE x == [seq |-> n, failure |-> f, group |-> group]
<1>3. group \in (-1..MaxBuild) \X [what : Failures, cut : BOOLEAN]
  <2>1. build \in (-1)..MaxBuild /\ OwnRules \in (-1)..MaxBuild
    BY DEF UInv, Shapes, OwnRules
  <2> QED  BY <2>1, FingerprintIs DEF Override, Fingerprint
<1>4. f \in Long \/ group[1] = OwnRules \/ group = Fingerprint(build, Kept(f))
  BY KeptWhole DEF Override
<1> HIDE DEF group
<1>5. x \in Exception /\ x.seq = n /\ x.failure = f /\ Good(x, build)
  BY <1>3, <1>4 DEF Exception, Good, Regular
<1>6. hot' = hot \cup {x}
  BY <1>1
<1> HIDE DEF x
<1>7. Shapes' /\ StepInv'
  BY <1>2, <1>5, <1>6 DEF UInv, Shapes, StepInv
<1>8. Rows' = Rows \cup {x} /\ \A e \in Rows : e.seq # n
  BY <1>1, <1>2, <1>6 DEF Rows, Seqs
<1>9. applied = build
  BY <1>2 DEF UInv, StepInv
<1>10. RowsInv'
  <2>1. Coherent(build) => Coherent(build)'
    BY <1>2, <1>5, <1>8 DEF Coherent, Copies
  <2> QED  BY <1>2, <1>5, <1>8, <1>9, <2>1 DEF UInv, RowsInv, Coherent
<1> QED  BY <1>2, <1>7, <1>10, RecordsKept DEF UInv

LEMMA ArchiveKeeps == ASSUME UInv, Archive PROVE UInv'
<1> DEFINE f == [name |-> Cardinality(cold), rows |-> hot]
<1>1. /\ pc = "serving" /\ cold' = cold \cup {f}
      /\ UNCHANGED <<build, pc, version, applied, triage, hot, todo, edits, settled, mishaps>>
  BY DEF Archive
<1>2. f \in File /\ f.rows = hot
  BY FS_CardinalityType DEF UInv, Shapes, File
<1> HIDE DEF f
<1>3. IsFiniteSet(cold')
  BY <1>1, FS_AddElement DEF UInv, Shapes
<1>4. Shapes' /\ StepInv'
  BY <1>1, <1>2, <1>3 DEF UInv, Shapes, StepInv
<1>5. Rows' = Rows
  BY <1>1, <1>2 DEF Rows
<1> QED  BY <1>1, <1>4, <1>5, RowsFewer, RecordsKept DEF UInv

LEMMA ClearKeeps == ASSUME UInv, Clear PROVE UInv'
<1>1. /\ pc = "serving" /\ hot' \subseteq hot
      /\ UNCHANGED <<build, pc, version, applied, triage, cold, todo, edits, settled, mishaps>>
  BY DEF Clear
<1>2. Shapes' /\ StepInv'
  BY <1>1 DEF UInv, Shapes, StepInv
<1>3. Rows' \subseteq Rows
  BY <1>1 DEF Rows
<1> QED  BY <1>1, <1>2, <1>3, RowsFewer, RecordsKept DEF UInv

LEMMA TriageKeeps ==
  ASSUME UInv, NEW g, NEW r \in {"set", "clear", "leave"}, NEW m \in {"set", "clear", "leave"},
         Triage(g, r, m)
  PROVE  UInv'
<1> DEFINE was == At(triage, g, NewRecord)
           new == Edited(was, r, m)
<1>1. /\ pc = "serving" /\ edits' = edits + 1 /\ triage' = With(triage, g, new)
      /\ settled' = With(settled, g, Edited(At(settled, g, NewRecord), r, m))
      /\ UNCHANGED <<build, pc, version, applied, hot, cold, todo, mishaps>>
  BY DEF Triage, Edited
<1>2. Shapes' /\ StepInv' /\ version = SchemaVersion
  BY <1>1, Constants DEF UInv, Shapes, StepInv
<1>3. NewRecord \in Record
  BY AxesAre DEF NewRecord
<1>4. was \in Record
  BY <1>3 DEF UInv, RecordInv, At
<1> HIDE DEF was
<1>5. new \in Record /\ new.status = ""
  <2>1. edits \in Nat
    BY DEF UInv, Shapes
  <2> QED  BY <1>4, <2>1, EditedIs, Zenon
<1> HIDE DEF new
<1>6. RecordInv'
  BY <1>1, <1>2, <1>5 DEF UInv, RecordInv, With
<1>7. TriageInv'
  BY <1>1, <1>2, Constants DEF UInv, TriageInv, was, new
<1>8. RowsInv'
  BY <1>1, RowsKept DEF UInv
<1> QED  BY <1>2, <1>6, <1>7, <1>8 DEF UInv

LEMMA StopKeeps == ASSUME UInv, Stop PROVE UInv'
<1>1. /\ pc = "serving" /\ pc' = "down"
      /\ UNCHANGED <<build, version, applied, triage, hot, cold, todo, edits, settled, mishaps>>
  BY DEF Stop, store
<1>2. Shapes' /\ StepInv'
  BY <1>1 DEF UInv, Shapes, StepInv
<1> QED  BY <1>1, <1>2, RecordsKept, RowsKept DEF UInv

LEMMA CrashKeeps == ASSUME UInv, Crash PROVE UInv'
<1>1. /\ pc # "down" /\ pc' = "down" /\ todo' = {} /\ mishaps \subseteq mishaps'
      /\ pc = "stamp" /\ version = 1 => "migration" \in mishaps'
      /\ pc = "cold" => "regroup" \in mishaps'
      /\ UNCHANGED <<build, version, applied, triage, hot, cold, edits, settled>>
  BY DEF Crash, store
<1>2. Shapes' /\ StepInv'
  BY <1>1 DEF UInv, Shapes, StepInv
<1>3. TriageInv' /\ RecordInv'
  BY <1>1, RecordsKept DEF UInv
<1>4. RowsInv'
  BY <1>1, RowsKept DEF UInv
<1> QED  BY <1>2, <1>3, <1>4 DEF UInv

LEMMA InstallKeeps == ASSUME UInv, NEW b \in 1..MaxBuild, Install(b) PROVE UInv'
<1>1. /\ pc = "down" /\ build' = b /\ mishaps \subseteq mishaps'
      /\ "regroup" \in mishaps /\ b = applied => "rollback" \in mishaps'
      /\ UNCHANGED <<pc, version, applied, triage, hot, cold, todo, edits, settled>>
  BY DEF Install, store
<1>2. Shapes' /\ StepInv'
  BY <1>1 DEF UInv, Shapes, StepInv
<1> QED  BY <1>1, <1>2, RecordsKept, RowsKept DEF UInv

-----------------------------------------------------------------------------

\* The invariant holds of every behaviour of start-up (schema.rs: migrate,
\* regroup_if_needed) and of serving, however often the process dies and whatever
\* builds are installed.
THEOREM UpgradeInductive == Spec => []UInv
<1>1. ASSUME UInv, [Next]_vars
      PROVE  UInv'
  <2>1. CASE UNCHANGED vars
    <3>1. UNCHANGED <<build, pc, version, applied, triage, hot, cold, todo, edits, settled, mishaps>>
      BY <2>1 DEF vars, store
    <3>2. Rows' = Rows
      BY <3>1 DEF Rows
    <3> QED  BY <1>1, <3>1, <3>2 DEF UInv, Shapes, StepInv, TriageInv, Unmigrated, RecordInv, RowsInv, Coherent
  <2>2. CASE StartUp
    BY <1>1, <2>2, OpenKeeps, ApplyKeeps, StampKeeps, CheckKeeps, RegroupHotKeeps, StampRulesKeeps,
       RegroupFileKeeps DEF StartUp
  <2>3. CASE Serve
    BY <1>1, <2>3, ReportKeeps, ArchiveKeeps, ClearKeeps, TriageKeeps DEF Serve
  <2> QED  BY <1>1, <2>1, <2>2, <2>3, StopKeeps, CrashKeeps, InstallKeeps DEF Next
<1> QED  BY InitHolds, <1>1, PTL DEF Spec

\* What administrators settled stays, through the migration and any number of
\* restarts (schema.rs, update_triage), unless the process died between the
\* migration and its stamp.
THEOREM SettledStays == Spec => []SettledUnlessInterrupted
<1>1. UInv => SettledUnlessInterrupted
  BY Constants DEF UInv, StepInv, TriageInv, SettledUnlessInterrupted, SettledKept, Serving
<1> QED  BY UpgradeInductive, <1>1, PTL

\* What is served is grouped by the build's rules, and copies of an exception
\* agree (store/regroup.rs), whatever re-groupings were interrupted before, unless a
\* build was put back after another one's re-grouping died and none was finished
\* since.
THEOREM RowsAreRegrouped == Spec => []RegroupedUnlessRolledBack
<1>1. UInv => RegroupedUnlessRolledBack
  <2> SUFFICES ASSUME UInv, "rollback" \notin mishaps, Serving
               PROVE  GroupedByRules /\ CopiesAgree
    BY DEF RegroupedUnlessRolledBack, GroupedByRules, CopiesAgree
  <2>1. applied = build /\ Coherent(build)
    BY DEF UInv, StepInv, RowsInv, Serving
  <2> QED  BY <2>1 DEF Coherent, Copies, Good, Regular, GroupedByRules, CopiesAgree
<1> QED  BY UpgradeInductive, <1>1, PTL

\* The types; and no record of the old schema is left once the store has the new one.
THEOREM UpgradeTypes == Spec => []TypeOK
<1>1. UInv => TypeOK
  BY DEF UInv, Shapes, File, RecordInv, TypeOK
<1> QED  BY UpgradeInductive, <1>1, PTL
=============================================================================
