---------------------------- MODULE StoreProofs ----------------------------
(***************************************************************************)
(* What the database's modules check on small instances, proved for every  *)
(* value of their constants: the event store alone, then with any number   *)
(* of queries, and the entities' tables with the dashboard's fold.         *)
(***************************************************************************)
EXTENDS EventQuery, Rollup, WellFoundedInduction, TLAPS

USE CalendarAssumption, StoreAssumption

LEMMA DayType == \A t \in Nat : Day(t) \in Nat
  BY DEF Day

LEMMA MonthType == \A d \in Nat : Month(d) \in Nat
  BY DEF Month

\* Once a day is past retention it stays so: the clock does not step back.
LEMMA DayOverStable ==
  ASSUME NEW d \in Nat, NEW t \in Nat, NEW u \in Nat, t <= u, DayOver(d, t)
  PROVE  DayOver(d, u)
  BY DEF DayOver, EndOfDay

LEMMA ColdRowsMember ==
  ASSUME NEW e
  PROVE  e \in ColdRows <=> \E f \in cold : e \in f.rows
  BY DEF ColdRows

\* The numbers an append hands out start at the in-memory counter.
LEMMA NumberedType ==
  ASSUME TypeOK, NEW n \in 1..MaxBatch, NEW at \in [1..n -> Recent]
  PROVE  /\ Numbered(n, at) \subseteq Event
         /\ Numbered(n, at) # {}
         /\ \A e \in Numbered(n, at) : nextSeq <= e.seq /\ e.seq < nextSeq + n
         /\ \A e, f \in Numbered(n, at) : e.seq = f.seq => e = f
<1>1. n \in Nat /\ nextSeq \in Nat /\ Recent \subseteq Nat
  BY DEF TypeOK, Recent
<1>2. ASSUME NEW i \in 1..n
      PROVE  [seq |-> nextSeq + i - 1, at |-> at[i]] \in Event
  <2>1. i \in Nat /\ 1 <= i
    BY <1>1
  <2>2. nextSeq + i - 1 \in Nat
    BY <1>1, <2>1
  <2>3. at[i] \in Nat
    BY <1>1
  <2>4. QED
    BY <2>2, <2>3 DEF Event
<1>3. 1 \in 1..n
  BY <1>1
<1>4. Numbered(n, at) \subseteq Event
  BY <1>2 DEF Numbered
<1>5. Numbered(n, at) # {}
  BY <1>3 DEF Numbered
<1>6. ASSUME NEW e \in Numbered(n, at)
      PROVE  \E i \in 1..n : e.seq = nextSeq + i - 1 /\ e.at = at[i] /\ e \in Event
  BY <1>2 DEF Numbered
<1>7. \A e \in Numbered(n, at) : nextSeq <= e.seq /\ e.seq < nextSeq + n
  BY <1>1, <1>6
<1>8. ASSUME NEW e \in Numbered(n, at), NEW f \in Numbered(n, at), e.seq = f.seq
      PROVE  e = f
  <2>1. PICK i \in 1..n : e.seq = nextSeq + i - 1 /\ e.at = at[i] /\ e \in Event
    BY <1>6
  <2>2. PICK j \in 1..n : f.seq = nextSeq + j - 1 /\ f.at = at[j] /\ f \in Event
    BY <1>6
  <2>3. i \in Int /\ j \in Int
    BY <1>1
  <2>4. nextSeq + i - 1 = nextSeq + j - 1
    BY <1>8, <2>1, <2>2
  <2>5. i = j
    BY <1>1, <2>3, <2>4
  <2>6. QED
    BY <1>8, <2>1, <2>2, <2>5 DEF Event
<1>9. QED
  BY <1>4, <1>5, <1>7, <1>8

-----------------------------------------------------------------------------
(* Type correctness.                                                       *)

LEMMA TypeInit == Init => TypeOK
  BY DEF Init, TypeOK

LEMMA TypeStep == TypeOK /\ [Next]_vars => TypeOK'
<1> SUFFICES ASSUME TypeOK, [Next]_vars
             PROVE  TypeOK'
  OBVIOUS
<1> USE DEF TypeOK, memory, archive
<1>1. CASE Tick
  BY <1>1 DEF Tick
<1>2. CASE Crash
  <2>1. running' \in BOOLEAN
    BY <1>2 DEF Crash
  <2>2. nextSeq' \in Nat /\ faults' \in Nat /\ cpc' = "idle" /\ batch' = {} /\ todo' = {}
    BY <1>2 DEF Crash, Fault
  <2>3. UNCHANGED <<now, hot, metaNext, cold, days, months, stamp, log>>
    BY <1>2 DEF Crash
  <2>4. QED
    BY <2>1, <2>2, <2>3
<1>3. CASE Open
  BY <1>3 DEF Open
<1>4. ASSUME NEW n \in 1..MaxBatch, NEW at \in [1..n -> Recent], AppendEvents(n, at)
      PROVE  TypeOK'
  <2>1. nextSeq + n \in Nat
    OBVIOUS
  <2>2. QED
    BY <1>4, <2>1, NumberedType DEF AppendEvents
<1>5. ASSUME NEW k \in 0..MaxBatch, AppendFails(k)
      PROVE  TypeOK'
  BY <1>5 DEF AppendFails, Fault
<1>6. CASE CompactNothing
  BY <1>6 DEF CompactNothing
<1>7. CASE CompactRead
  <2>1. Sealable \subseteq Event
    BY DEF Sealable
  <2>2. {Day(e.at) : e \in Sealable} \subseteq Nat
    BY <2>1, DayType DEF Event
  <2>3. QED
    BY <1>7, <2>1, <2>2 DEF CompactRead
<1>8. ASSUME NEW d \in todo, CompactWrite(d)
      PROVE  TypeOK'
  <2>1. [day |-> d, stamp |-> stamp, rows |-> {e \in batch : Day(e.at) = d}] \in File
    BY DEF File
  <2>2. Month(d) \in Nat
    BY MonthType
  <2>3. QED
    BY <1>8, <2>1, <2>2 DEF CompactWrite
<1>9. ASSUME NEW d \in todo, CompactWriteFails(d)
      PROVE  TypeOK'
  BY <1>9, MonthType DEF CompactWriteFails, Fault
<1>10. CASE CompactDelete
  BY <1>10 DEF CompactDelete
<1>11. CASE CompactDeleteFails
  BY <1>11 DEF CompactDeleteFails, Fault
<1>12. CASE Retain
  BY <1>12 DEF Retain
<1>13. ASSUME NEW gone \in SUBSET cold, RetainPartly(gone)
       PROVE  TypeOK'
  BY <1>13 DEF RetainPartly, Fault
<1>14. CASE UNCHANGED vars
  BY <1>14 DEF vars
<1>15. QED
  BY <1>1, <1>2, <1>3, <1>4, <1>5, <1>6, <1>7, <1>8, <1>9, <1>10, <1>11,
     <1>12, <1>13, <1>14 DEF Next, Appends, Compact, CompactFails

\* Every variable keeps its type, whatever the constants.
THEOREM TypeCorrect == Spec => []TypeOK
  BY TypeInit, TypeStep, PTL DEF Spec

-----------------------------------------------------------------------------
(* The inductive invariant, one lemma per action that disturbs it.         *)

LEMMA InvInit == Init => IInv
<1> SUFFICES ASSUME Init PROVE IInv
  OBVIOUS
<1>1. TypeOK
  BY TypeInit
<1>2. ColdRows = {}
  BY DEF Init, ColdRows
<1>3. QED
  BY <1>1, <1>2 DEF Init, IInv, CounterInv, ArchiveInv, RunInv,
                    NumbersUnique, NoLoss, CleanAfterRun

\* A step that leaves every tier, the run and the clock alone.
LEMMA TickInv ==
  ASSUME IInv, Tick
  PROVE  IInv'
<1> USE DEF IInv, memory, archive
<1>1. TypeOK'
  BY TypeStep DEF Next
<1>2. ColdRows' = ColdRows /\ Stored' = Stored /\ now' = now + 1
  BY DEF Tick, ColdRows, Stored
<1>3. CounterInv' /\ NumbersUnique'
  BY DEF Tick, CounterInv, NumbersUnique
<1>4. ArchiveInv'
  BY DEF Tick, ArchiveInv
<1>5. RunInv'
  <2>1. \A e \in hot : e.at \in Nat /\ e \in Event
    BY DEF TypeOK, Event
  <2>2. QED
    BY <1>2, <2>1 DEF Tick, RunInv, TypeOK
<1>6. NoLoss'
  <2> SUFFICES ASSUME NEW e \in log
               PROVE  e \in Stored \/ DayOver(Day(e.at), now + 1)
    BY <1>2 DEF Tick, NoLoss
  <2>1. e.at \in Nat
    BY DEF TypeOK, Event
  <2>2. QED
    BY <2>1, DayType, DayOverStable DEF NoLoss, TypeOK
<1>7. CleanAfterRun'
  BY <1>2 DEF Tick, CleanAfterRun
<1>8. QED
  BY <1>1, <1>3, <1>4, <1>5, <1>6, <1>7

\* A step that leaves the durable state and the clock alone, and either keeps
\* the run as it is or abandons it.
LEMMA MemoryInv ==
  ASSUME IInv, TypeOK',
         UNCHANGED <<now, hot, cold, metaNext, stamp, log>>,
         running' => metaNext <= nextSeq',
         ~running' => cpc' = "idle",
         \/ UNCHANGED <<cpc, batch, todo>>
         \/ cpc' = "idle" /\ batch' = {} /\ todo' = {}
  PROVE  IInv'
<1> USE DEF IInv
<1>1. ColdRows' = ColdRows /\ Stored' = Stored
  BY DEF ColdRows, Stored
<1>2. CounterInv' /\ NumbersUnique'
  BY DEF CounterInv, NumbersUnique
<1>3. ArchiveInv'
  BY DEF ArchiveInv
<1>4. RunInv'
  BY <1>1 DEF RunInv
<1>5. NoLoss' /\ CleanAfterRun'
  BY <1>1 DEF NoLoss, CleanAfterRun
<1>6. QED
  BY <1>2, <1>3, <1>4, <1>5

LEMMA CrashInv == ASSUME IInv, Crash PROVE IInv'
<1>1. TypeOK'
  BY TypeStep DEF IInv, Next
<1>2. QED
  BY <1>1, MemoryInv DEF Crash, archive

LEMMA OpenInv == ASSUME IInv, Open PROVE IInv'
<1>1. TypeOK'
  BY TypeStep DEF IInv, Next
<1>2. metaNext <= nextSeq'
  BY DEF IInv, TypeOK, Open
<1>3. QED
  BY <1>1, <1>2, MemoryInv DEF Open, archive

LEMMA AppendFailsInv ==
  ASSUME IInv, NEW k \in 0..MaxBatch, AppendFails(k)
  PROVE  IInv'
<1>1. TypeOK'
  BY TypeStep DEF IInv, Next, Appends
<1>2. running' = running /\ running /\ metaNext <= nextSeq'
  BY DEF IInv, TypeOK, CounterInv, AppendFails
<1>3. QED
  BY <1>1, <1>2, MemoryInv DEF AppendFails, archive

LEMMA CompactWriteFailsInv ==
  ASSUME IInv, NEW d \in todo, CompactWriteFails(d)
  PROVE  IInv'
<1>1. TypeOK'
  BY TypeStep DEF IInv, Next, CompactFails
<1>2. QED
  BY <1>1, MemoryInv DEF IInv, CounterInv, CompactWriteFails

LEMMA CompactDeleteFailsInv ==
  ASSUME IInv, CompactDeleteFails
  PROVE  IInv'
<1>1. TypeOK'
  BY TypeStep DEF IInv, Next, CompactFails
<1>2. todo' = {}
  BY DEF IInv, RunInv, CompactDeleteFails
<1>3. QED
  BY <1>1, <1>2, MemoryInv DEF IInv, CounterInv, CompactDeleteFails, archive

LEMMA AppendInv ==
  ASSUME IInv, NEW n \in 1..MaxBatch, NEW at \in [1..n -> Recent], AppendEvents(n, at)
  PROVE  IInv'
<1> USE DEF IInv
<1> DEFINE new == Numbered(n, at)
<1>1. TypeOK'
  BY TypeStep DEF Next, Appends
<1>2. /\ new \subseteq Event
      /\ \A e \in new : nextSeq <= e.seq /\ e.seq < nextSeq + n
      /\ \A e, f \in new : e.seq = f.seq => e = f
  BY NumberedType
<1>3. /\ hot' = hot \cup new /\ log' = log \cup new
      /\ nextSeq' = nextSeq + n /\ metaNext' = nextSeq + n
      /\ UNCHANGED <<now, cold, running, cpc, batch, todo, stamp>>
      /\ running
  BY DEF AppendEvents, archive
<1> HIDE DEF new
<1>4. n \in Nat /\ 1 <= n /\ nextSeq \in Nat /\ metaNext \in Nat /\ metaNext <= nextSeq
  BY <1>3 DEF TypeOK, CounterInv
<1>5. \A e \in log : e.seq \in Nat /\ e.seq < nextSeq
  BY <1>4 DEF CounterInv, TypeOK, Event
<1>6. \A e \in new : e.seq \in Nat /\ e \notin log
  BY <1>2, <1>4, <1>5 DEF Event
<1>7. ColdRows' = ColdRows /\ ColdRows \subseteq log
  BY <1>3 DEF ColdRows, ArchiveInv
<1>8. CounterInv'
  BY <1>2, <1>3, <1>4, <1>5, <1>6 DEF CounterInv
<1>9. NumbersUnique'
  <2> SUFFICES ASSUME NEW e \in log \cup new, NEW f \in log \cup new, e.seq = f.seq
               PROVE  e = f
    BY <1>3 DEF NumbersUnique
  <2>1. CASE e \in log /\ f \in log
    BY <2>1 DEF NumbersUnique
  <2>2. CASE e \in new /\ f \in new
    BY <2>2, <1>2
  <2>3. CASE (e \in log /\ f \in new) \/ (e \in new /\ f \in log)
    BY <2>3, <1>2, <1>4, <1>5, <1>6
  <2>4. QED
    BY <2>1, <2>2, <2>3
<1>10. ArchiveInv'
  BY <1>3 DEF ArchiveInv
<1>11. RunInv'
  BY <1>3, <1>6, <1>7 DEF RunInv
<1>12. NoLoss'
  BY <1>3, <1>7 DEF NoLoss, Stored
<1>13. CleanAfterRun'
  BY <1>3, <1>6, <1>7 DEF CleanAfterRun
<1>14. QED
  BY <1>1, <1>8, <1>9, <1>10, <1>11, <1>12, <1>13

LEMMA CompactNothingInv == ASSUME IInv, CompactNothing PROVE IInv'
<1> USE DEF IInv
<1>1. TypeOK'
  BY TypeStep DEF Next, Compact
<1>2. UNCHANGED <<now, hot, cold, metaNext, log, running, nextSeq, batch, todo, stamp>>
  BY DEF CompactNothing, archive
<1>3. ColdRows' = ColdRows /\ Stored' = Stored
  BY <1>2 DEF ColdRows, Stored
<1>4. hot \cap ColdRows = {}
  BY DEF CompactNothing, Sealable, RunInv
<1>5. CounterInv' /\ NumbersUnique' /\ ArchiveInv'
  BY <1>2 DEF CounterInv, NumbersUnique, ArchiveInv, CompactNothing
<1>6. RunInv'
  BY <1>2, <1>3 DEF RunInv, CompactNothing
<1>7. NoLoss' /\ CleanAfterRun'
  BY <1>2, <1>3, <1>4 DEF NoLoss, CleanAfterRun
<1>8. QED
  BY <1>1, <1>5, <1>6, <1>7

LEMMA CompactReadInv == ASSUME IInv, CompactRead PROVE IInv'
<1> USE DEF IInv
<1>1. TypeOK'
  BY TypeStep DEF Next, Compact
<1>2. /\ UNCHANGED <<now, hot, cold, metaNext, log, running, nextSeq>>
      /\ batch' = Sealable /\ todo' = {Day(e.at) : e \in Sealable}
      /\ cpc' = "write" /\ stamp' = stamp + 1 /\ running
  BY DEF CompactRead, archive
<1>3. ColdRows' = ColdRows /\ Stored' = Stored
  BY <1>2 DEF ColdRows, Stored
<1>4. CounterInv' /\ NumbersUnique'
  BY <1>2 DEF CounterInv, NumbersUnique
<1>5. ArchiveInv'
  <2>1. \A f \in cold : f.stamp \in Nat /\ f.stamp <= stamp /\ stamp \in Nat
    BY DEF TypeOK, File, ArchiveInv
  <2>2. \A f \in cold : f.stamp <= stamp + 1 /\ f.stamp # stamp + 1
    BY <2>1
  <2>3. QED
    BY <1>2, <2>2 DEF ArchiveInv
<1>6. RunInv'
  BY <1>2, <1>3 DEF RunInv, Sealable
<1>7. NoLoss' /\ CleanAfterRun'
  BY <1>2, <1>3 DEF NoLoss, CleanAfterRun
<1>8. QED
  BY <1>1, <1>4, <1>5, <1>6, <1>7

\* Writing a partition replaces no file and stores only rows of the batch.
LEMMA CompactWriteTiers ==
  ASSUME IInv, NEW d \in todo, CompactWrite(d)
  PROVE  /\ cold \subseteq cold'
         /\ \A f \in cold' : f \in cold \/ (/\ f.day = d /\ f.stamp = stamp
                                            /\ f.rows = {e \in batch : Day(e.at) = d})
         /\ \A e : e \in ColdRows' <=> e \in ColdRows \/ (e \in batch /\ Day(e.at) = d)
         /\ Stored' = Stored
<1> USE DEF IInv
<1> DEFINE part == [day |-> d, stamp |-> stamp, rows |-> {e \in batch : Day(e.at) = d}]
<1>1. \A f \in cold : <<f.day, f.stamp>> # <<d, stamp>>
  BY DEF ArchiveInv, CompactWrite
<1>2. cold' = cold \cup {part}
  BY <1>1 DEF CompactWrite
<1>3. ColdRows' = ColdRows \cup part.rows
  BY <1>2 DEF ColdRows
<1>4. hot' = hot /\ part.rows \subseteq hot
  BY DEF CompactWrite, RunInv
<1>5. QED
  BY <1>2, <1>3, <1>4 DEF Stored

LEMMA CompactWriteInv ==
  ASSUME IInv, NEW d \in todo, CompactWrite(d)
  PROVE  IInv'
<1> USE DEF IInv
<1>1. TypeOK'
  BY TypeStep DEF Next, Compact
<1>2. /\ UNCHANGED <<now, hot, metaNext, log, running, nextSeq, batch, stamp>>
      /\ todo' = todo \ {d} /\ cpc = "write"
      /\ cpc' = IF todo' = {} THEN "delete" ELSE "write"
  BY DEF CompactWrite
<1>3. CounterInv' /\ NumbersUnique'
  BY <1>2 DEF CounterInv, NumbersUnique
<1>4. ArchiveInv'
  <2>1. \A f \in cold' : f \in cold \/ (/\ f.day = d /\ f.stamp = stamp
                                       /\ f.rows = {e \in batch : Day(e.at) = d})
    BY CompactWriteTiers
  <2>2. batch \subseteq log /\ stamp \in Nat
    BY DEF RunInv, TypeOK
  <2>3. \A f \in cold' : f.stamp <= stamp /\ f.rows \subseteq log
                        /\ \A e \in f.rows : Day(e.at) = f.day
    BY <2>1, <2>2 DEF ArchiveInv
  <2>4. \A f \in cold' : f.stamp = stamp => f.day \notin todo'
    BY <2>1, <1>2 DEF ArchiveInv
  <2>5. QED
    BY <2>3, <2>4, <1>2 DEF ArchiveInv
<1>5. RunInv'
  <2>1. \A e : e \in ColdRows' <=> e \in ColdRows \/ (e \in batch /\ Day(e.at) = d)
    BY CompactWriteTiers
  <2>2. hot \cap ColdRows' \subseteq batch
    BY <2>1, <1>2 DEF RunInv
  <2>3. QED
    BY <2>1, <2>2, <1>2 DEF RunInv
<1>6. NoLoss' /\ CleanAfterRun'
  BY <1>2, CompactWriteTiers DEF NoLoss, CleanAfterRun
<1>7. QED
  BY <1>1, <1>3, <1>4, <1>5, <1>6

\* Every row about to be deleted from the hot store has been archived.
LEMMA CompactDeleteTiers ==
  ASSUME IInv, CompactDelete
  PROVE  ColdRows' = ColdRows /\ batch \subseteq ColdRows /\ Stored' = Stored
<1>1. ColdRows' = ColdRows
  BY DEF CompactDelete, archive, ColdRows
<1>2. batch \subseteq ColdRows
  BY DEF IInv, RunInv, CompactDelete
<1>3. QED
  BY <1>1, <1>2 DEF CompactDelete, Stored

LEMMA CompactDeleteInv == ASSUME IInv, CompactDelete PROVE IInv'
<1> USE DEF IInv
<1>1. TypeOK'
  BY TypeStep DEF Next, Compact
<1>2. /\ UNCHANGED <<now, cold, metaNext, log, running, nextSeq, todo, stamp>>
      /\ hot' = hot \ batch /\ batch' = {} /\ cpc = "delete" /\ cpc' = "retain"
  BY DEF CompactDelete, archive
<1>3. ColdRows' = ColdRows /\ Stored' = Stored
  BY CompactDeleteTiers
<1>4. CounterInv' /\ NumbersUnique' /\ ArchiveInv'
  BY <1>2 DEF CounterInv, NumbersUnique, ArchiveInv
<1>5. hot' \cap ColdRows' = {}
  BY <1>2, <1>3 DEF RunInv
<1>6. RunInv'
  BY <1>2, <1>3, <1>5 DEF RunInv
<1>7. NoLoss' /\ CleanAfterRun'
  BY <1>2, <1>3, <1>5 DEF NoLoss, CleanAfterRun
<1>8. QED
  BY <1>1, <1>4, <1>6, <1>7

\* Retention, whole or in part, only ever takes files of days that are over.
LEMMA RetentionTiers ==
  ASSUME IInv, UNCHANGED <<now, hot>>, cold' \subseteq cold,
         \A f \in cold \ cold' : DayOver(f.day, now)
  PROVE  /\ ColdRows' \subseteq ColdRows /\ Stored' \subseteq Stored
         /\ \A e \in Stored \ Stored' : DayOver(Day(e.at), now)
<1>1. ColdRows' \subseteq ColdRows
  BY DEF ColdRows
<1>2. ASSUME NEW e \in ColdRows, e \notin ColdRows'
      PROVE  DayOver(Day(e.at), now)
  <2>1. PICK f \in cold : e \in f.rows
    BY ColdRowsMember
  <2>2. f \notin cold'
    BY <1>2, <2>1 DEF ColdRows
  <2>3. QED
    BY <2>1, <2>2 DEF IInv, ArchiveInv
<1>3. QED
  BY <1>1, <1>2 DEF Stored

LEMMA RetentionInv ==
  ASSUME IInv, TypeOK', cpc = "retain", cpc' = "idle",
         UNCHANGED <<now, hot, metaNext, log, running, nextSeq, batch, todo, stamp>>,
         cold' \subseteq cold,
         \A f \in cold \ cold' : DayOver(f.day, now)
  PROVE  IInv'
<1> USE DEF IInv
<1>1. CounterInv' /\ NumbersUnique' /\ CleanAfterRun'
  BY DEF CounterInv, NumbersUnique, CleanAfterRun
<1>2. ArchiveInv'
  BY DEF ArchiveInv
<1>3. RunInv'
  BY RetentionTiers DEF RunInv
<1>4. NoLoss'
  BY RetentionTiers DEF NoLoss
<1>5. QED
  BY <1>1, <1>2, <1>3, <1>4

LEMMA RetainInv == ASSUME IInv, Retain PROVE IInv'
<1>1. TypeOK'
  BY TypeStep DEF IInv, Next, Compact
<1>2. QED
  BY <1>1, RetentionInv DEF Retain

LEMMA RetainPartlyInv ==
  ASSUME IInv, NEW gone \in SUBSET cold, RetainPartly(gone)
  PROVE  IInv'
<1>1. TypeOK'
  BY TypeStep DEF IInv, Next, CompactFails
<1>2. QED
  BY <1>1, RetentionInv DEF RetainPartly

LEMMA InvStep == IInv /\ [Next]_vars => IInv'
<1> SUFFICES ASSUME IInv, [Next]_vars PROVE IInv'
  OBVIOUS
<1>1. CASE Tick
  BY <1>1, TickInv
<1>2. CASE Crash
  BY <1>2, CrashInv
<1>3. CASE Open
  BY <1>3, OpenInv
<1>4. CASE Appends
  BY <1>4, AppendInv, AppendFailsInv DEF Appends
<1>5. CASE Compact
  BY <1>5, CompactNothingInv, CompactReadInv, CompactWriteInv, CompactDeleteInv,
     RetainInv DEF Compact
<1>6. CASE CompactFails
  BY <1>6, CompactWriteFailsInv, CompactDeleteFailsInv, RetainPartlyInv DEF CompactFails
<1>7. CASE UNCHANGED vars
  <2>1. TypeOK'
    BY TypeStep DEF IInv
  <2>2. QED
    BY <1>7, <2>1, MemoryInv DEF vars, memory, archive, IInv, CounterInv
<1>8. QED
  BY <1>1, <1>2, <1>3, <1>4, <1>5, <1>6, <1>7 DEF Next

THEOREM Inductive == Spec => []IInv
  BY InvInit, InvStep, PTL DEF Spec

\* Sequence numbers are unique forever, over any number of failed
\* transactions and restarts: what query de-duplication relies on.
THEOREM SequenceUnique == Spec => []NumbersUnique
<1>1. IInv => NumbersUnique
  BY DEF IInv
<1>2. QED
  BY <1>1, Inductive, PTL

\* No committed event is lost before its day is past retention, wherever a
\* compaction fails or the process dies.
THEOREM NothingLost == Spec => []NoLoss
<1>1. IInv => NoLoss
  BY DEF IInv
<1>2. QED
  BY <1>1, Inductive, PTL

\* A successful run heals the duplicates interrupted runs left behind.
THEOREM RunsHeal == Spec => []CleanAfterRun
<1>1. IInv => CleanAfterRun
  BY DEF IInv
<1>2. QED
  BY <1>1, Inductive, PTL

-----------------------------------------------------------------------------
(* The store implements EventLog: a step commits a batch, expires days that *)
(* are over, moves the clock, or stutters.                                  *)

\* The two specifications share one calendar.
LEMMA SameCalendar ==
  ASSUME NEW t, NEW u
  PROVE  Promise!DayOver(Promise!Day(t), u) = DayOver(Day(t), u)
  BY DEF Promise!DayOver, Promise!EndOfDay, Promise!Day, DayOver, EndOfDay, Day

\* An append is a Commit of the numbered batch.
LEMMA AppendRefines ==
  ASSUME IInv, NEW n \in 1..MaxBatch, NEW at \in [1..n -> Recent], AppendEvents(n, at)
  PROVE  Promise!Commit
<1> USE DEF IInv
<1> DEFINE new == Numbered(n, at)
<1>1. /\ new # {} /\ new \subseteq Event
      /\ \A e \in new : nextSeq <= e.seq /\ e.seq < nextSeq + n
      /\ \A e, f \in new : e.seq = f.seq => e = f
  BY NumberedType
<1>2. /\ hot' = hot \cup new /\ metaNext' = nextSeq + n
      /\ UNCHANGED <<now, cold>> /\ running
  BY DEF AppendEvents, archive
<1> HIDE DEF new
<1>3. n \in Nat /\ nextSeq \in Nat /\ metaNext \in Nat /\ metaNext <= nextSeq
  BY <1>2 DEF TypeOK, CounterInv
<1>4. Stored' = Stored \cup new
  BY <1>2 DEF Stored, ColdRows
<1>5. Stored \subseteq log
  BY DEF Stored, ColdRows, RunInv, ArchiveInv
<1>6. \A e \in new : e.seq \in Nat /\ e \notin Stored
  BY <1>1, <1>3, <1>5 DEF Event, CounterInv
<1>7. \A e \in new : metaNext <= e.seq /\ e.seq < nextSeq + n
  BY <1>1, <1>3, <1>6
<1>8. Stored' \ Stored = new
  BY <1>4, <1>6
<1>9. QED
  BY <1>1, <1>2, <1>4, <1>7, <1>8 DEF Promise!Commit

LEMMA StepRefines == IInv /\ [Next]_vars => [Promise!Next]_(Promise!logVars)
<1> SUFFICES ASSUME IInv, [Next]_vars PROVE [Promise!Next]_(Promise!logVars)
  OBVIOUS
<1> DEFINE Stutter == UNCHANGED <<Stored, metaNext, now>>
<1>0. Stutter => UNCHANGED Promise!logVars
  BY DEF Promise!logVars
<1>1. CASE Tick
  <2>1. now' > now /\ UNCHANGED <<Stored, metaNext>>
    BY <1>1 DEF Tick, archive, Stored, ColdRows, IInv, TypeOK
  <2>2. QED
    BY <2>1 DEF Promise!Next, Promise!Tick
<1>2. CASE Crash
  BY <1>0, <1>2 DEF Crash, archive, Stored, ColdRows
<1>3. CASE Open
  BY <1>0, <1>3 DEF Open, archive, Stored, ColdRows
<1>4. ASSUME NEW n \in 1..MaxBatch, NEW at \in [1..n -> Recent], AppendEvents(n, at)
      PROVE  Promise!Next
  BY <1>4, AppendRefines DEF Promise!Next
<1>5. ASSUME NEW k \in 0..MaxBatch, AppendFails(k)
      PROVE  Stutter
  BY <1>5 DEF AppendFails, archive, Stored, ColdRows
<1>6. CASE CompactNothing
  BY <1>0, <1>6 DEF CompactNothing, archive, Stored, ColdRows
<1>7. CASE CompactRead
  BY <1>0, <1>7 DEF CompactRead, archive, Stored, ColdRows
<1>8. ASSUME NEW d \in todo, CompactWrite(d)
      PROVE  Stutter
  BY <1>8, CompactWriteTiers DEF CompactWrite
<1>9. ASSUME NEW d \in todo, CompactWriteFails(d)
      PROVE  Stutter
  BY <1>9 DEF CompactWriteFails, Stored, ColdRows
<1>10. CASE CompactDelete
  BY <1>0, <1>10, CompactDeleteTiers DEF CompactDelete
<1>11. CASE CompactDeleteFails
  BY <1>0, <1>11 DEF CompactDeleteFails, archive, Stored, ColdRows
<1>12. CASE Retain
  BY <1>12, RetentionTiers, SameCalendar DEF Retain, Promise!Next, Promise!Expire
<1>13. ASSUME NEW gone \in SUBSET cold, RetainPartly(gone)
       PROVE  Promise!Next
  BY <1>13, RetentionTiers, SameCalendar DEF RetainPartly, Promise!Next, Promise!Expire
<1>14. CASE UNCHANGED vars
  BY <1>0, <1>14 DEF vars, archive, Stored, ColdRows
<1>15. QED
  BY <1>0, <1>1, <1>2, <1>3, <1>4, <1>5, <1>6, <1>7, <1>8, <1>9, <1>10, <1>11,
     <1>12, <1>13, <1>14 DEF Next, Appends, Compact, CompactFails

\* The store, with its two tiers, its compactor and its crashes, implements
\* the one-set event log.
THEOREM StoreImplementsLog == Spec => ImplementsLog
<1>1. Init => Promise!Init
  BY DEF Init, Promise!Init, Stored, ColdRows
<1>2. QED
  BY <1>1, StepRefines, Inductive, PTL DEF Spec, ImplementsLog, Promise!Spec

-----------------------------------------------------------------------------
(* Queries.  A query relies on the invariant of the store, which its own   *)
(* steps leave alone.                                                      *)

USE QueryAssumption

-----------------------------------------------------------------------------
(* The calendar, lowest elements, and de-duplication.                      *)

LEMMA DayMonotone ==
  ASSUME NEW a \in Nat, NEW b \in Nat, a <= b
  PROVE  Day(a) <= Day(b)
  BY DEF Day

LEMMA MonthMonotone ==
  ASSUME NEW a \in Nat, NEW b \in Nat, a <= b
  PROVE  Month(a) <= Month(b)
  BY DEF Month

LEMMA DayStart ==
  ASSUME NEW t \in Nat
  PROVE  StartOfDay(Day(t)) \in Nat /\ StartOfDay(Day(t)) <= t
  BY DEF Day, StartOfDay

LEMMA StartMonotone ==
  ASSUME NEW c \in Nat, NEW d \in Nat, c <= d
  PROVE  StartOfDay(c) \in Nat /\ StartOfDay(c) <= StartOfDay(d)
  BY DEF StartOfDay

\* A day that has begun by an instant is not after that instant's.
LEMMA BegunDay ==
  ASSUME NEW d \in Nat, NEW t \in Nat, StartOfDay(d) <= t
  PROVE  d <= Day(t)
  BY DEF StartOfDay, Day

\* A set of numbers has a lowest element.
LEMMA LowestExists ==
  ASSUME NEW S \in SUBSET Nat, S # {}
  PROVE  Lowest(S) \in S /\ \A y \in S : Lowest(S) <= y
<1> DEFINE Less == {p \in Nat \X Nat : p[1] < p[2]}
<1>1. OpToRel(<, Nat) = Less
  BY Zenon DEF OpToRel
<1>2. IsWellFoundedOn(Less, Nat)
  BY <1>1, NatLessThanWellFounded, Zenon
<1>3. PICK x \in S : \A y \in S : ~ (<<y, x>> \in Less)
  BY <1>2, WFMin
<1>4. \A y \in S : ~ (y < x)
  BY <1>3
<1>5. \A y \in S : x <= y
  BY <1>4
<1>6. QED
  BY <1>5 DEF Lowest

\* Unique keeps one row of every event, and rows of the union only.
LEMMA UniqueRows ==
  ASSUME NEW rows
  PROVE  /\ Unique(rows) \subseteq rows
         /\ \A x, y \in Unique(rows) : x.event = y.event => x = y
         /\ \A x \in rows : \E y \in Unique(rows) : y.event = x.event
<1> DEFINE kept(e) == CHOOSE r \in rows : r.event = e
<1>1. ASSUME NEW x \in rows
      PROVE  kept(x.event) \in rows /\ kept(x.event).event = x.event
  OBVIOUS
<1>2. Unique(rows) = {kept(e) : e \in {r.event : r \in rows}}
  BY DEF Unique
<1> HIDE DEF kept
<1>3. QED
  BY <1>1, <1>2

-----------------------------------------------------------------------------
(* What a step of the store may do to what a query has seen.               *)

\* Files go only when their day is over; the log and the clock only grow.
LEMMA StoreStepKeeps ==
  ASSUME IInv, [Next]_vars
  PROVE  /\ now \in Nat /\ now' \in Nat /\ now <= now'
         /\ log \subseteq log'
         /\ \A f \in cold : f \in cold' \/ DayOver(f.day, now)
<1> USE DEF memory, archive
<1>0. TypeOK /\ TypeOK'
  BY TypeStep DEF IInv
<1>1. now \in Nat /\ now' \in Nat
  BY <1>0 DEF TypeOK
<1>2. CASE Tick
  BY <1>1, <1>2 DEF Tick
<1>3. CASE Crash
  BY <1>1, <1>3 DEF Crash
<1>4. CASE Open
  BY <1>1, <1>4 DEF Open
<1>5. CASE Appends
  BY <1>1, <1>5 DEF Appends, AppendEvents, AppendFails
<1>6. CASE CompactNothing \/ CompactRead \/ CompactDelete
  BY <1>1, <1>6 DEF CompactNothing, CompactRead, CompactDelete
<1>7. ASSUME NEW d \in todo, CompactWrite(d)
      PROVE  now' = now /\ log' = log /\ cold \subseteq cold'
  BY <1>7, CompactWriteTiers DEF CompactWrite
<1>8. CASE Retain
  BY <1>1, <1>8 DEF Retain
<1>9. CASE CompactFails
  BY <1>1, <1>9 DEF CompactFails, CompactWriteFails, CompactDeleteFails, RetainPartly
<1>10. CASE UNCHANGED vars
  BY <1>1, <1>10 DEF vars
<1>11. QED
  BY <1>1, <1>2, <1>3, <1>4, <1>5, <1>6, <1>7, <1>8, <1>9, <1>10 DEF Next, Compact

\* The queries change nothing of the store.
LEMMA QueryStep == [QNext]_qvars => [Next]_vars
  BY DEF QNext, qvars, StoreStep, QList, QHot, QCollect

LEMMA StoreUnderQueries == QSpec => []IInv
<1>1. QInit => Init
  BY DEF QInit
<1>2. QED
  BY <1>1, QueryStep, InvInit, InvStep, PTL DEF QSpec

-----------------------------------------------------------------------------
(* The invariant of a query task.                                          *)

\* What the files of the listing hold; they never change.
Listed(q) == UNION {f.rows : f \in q.files}
Counted(q) == {x.event : x \in q.rows}

\* Everything a task holds was committed; a listed file is there unless its day
\* is over.
SeenInv(q) ==
  /\ \A f \in q.files : /\ f.day \in Nat /\ f.rows \subseteq log
                        /\ f \in cold \/ DayOver(f.day, now)
  /\ \A x \in q.rows : x.event \in log
  /\ \A e \in q.due : InRange(e, q)
  /\ q.failed => \E f \in q.files : DayOver(f.day, now)

\* What was due is still within reach at every step of the task, unless the hot
\* window was emptied between its first two steps or a file was skipped.
ReachInv(q) ==
  /\ q.pc = "listed" /\ ~ q.raced /\ ~ q.skipped => q.due \subseteq hot \cup Listed(q)
  /\ q.pc = "scanned" /\ ~ q.raced /\ ~ q.skipped => q.due \subseteq Counted(q) \cup Listed(q)
  /\ q.pc = "done" /\ ~ q.failed /\ ~ q.raced /\ ~ q.skipped => q.due \subseteq Counted(q)

AnswerInv(q) ==
  q.pc = "done" /\ ~ q.failed =>
    /\ \A x, y \in q.rows : x.event = y.event => x = y
    /\ \A x \in q.rows : InRange(x.event, q)

QInv ==
  /\ QTypeOK
  /\ \A r \in Readers : SeenInv(readers[r]) /\ ReachInv(readers[r]) /\ AnswerInv(readers[r])

LEMMA IdleInv == SeenInv(NoQuery) /\ ReachInv(NoQuery) /\ AnswerInv(NoQuery)
  BY DEF NoQuery, SeenInv, ReachInv, AnswerInv

LEMMA QInvInit == QInit => QInv
<1> SUFFICES ASSUME QInit PROVE QInv
  OBVIOUS
<1>1. readers = [r \in Readers |-> NoQuery]
  BY DEF QInit
<1>2. QTypeOK
  BY <1>1 DEF QTypeOK, Query, NoQuery
<1>3. QED
  BY <1>1, <1>2, IdleInv DEF QInv

\* The store moves on under every task.
LEMMA StoreStepInv ==
  ASSUME IInv, QInv, [Next]_vars, StoreStep \/ UNCHANGED qvars
  PROVE  QInv'
<1>1. /\ now \in Nat /\ now' \in Nat /\ now <= now' /\ log \subseteq log'
      /\ \A f \in cold : f \in cold' \/ DayOver(f.day, now)
  BY StoreStepKeeps
<1>2. ASSUME NEW r \in Readers
      PROVE  \/ readers'[r] = NoQuery
             \/ readers'[r] = readers[r] /\ (readers[r].pc = "listed" => hot \subseteq hot')
             \/ readers'[r] = [readers[r] EXCEPT !.raced = TRUE]
  BY DEF StoreStep, qvars, vars
<1>3. \A r \in Readers : readers[r] \in Query
  BY DEF QInv, QTypeOK
<1>4. QTypeOK'
  <2>1. NoQuery \in Query
    BY DEF Query, NoQuery
  <2>2. \A q \in Query : [q EXCEPT !.raced = TRUE] \in Query
    BY DEF Query
  <2>3. \A r \in Readers : readers'[r] \in Query
    BY <1>2, <1>3, <2>1, <2>2
  <2>4. readers' = [r \in Readers |-> readers'[r]]
    <3>1. CASE StoreStep
      BY <3>1 DEF StoreStep
    <3>2. CASE UNCHANGED qvars
      BY <3>2 DEF qvars, QInv, QTypeOK
    <3>3. QED
      BY <3>1, <3>2
  <2>5. QED
    BY <2>3, <2>4 DEF QTypeOK
<1>5. ASSUME NEW r \in Readers
      PROVE  SeenInv(readers[r])' /\ ReachInv(readers[r])' /\ AnswerInv(readers[r])'
  <2>1. SeenInv(readers[r]) /\ ReachInv(readers[r]) /\ AnswerInv(readers[r])
    BY DEF QInv
  <2>2. CASE readers'[r] = NoQuery
    BY <2>2 DEF NoQuery, SeenInv, ReachInv, AnswerInv
  <2>3. CASE /\ readers'[r].pc = readers[r].pc
             /\ readers'[r].from = readers[r].from
             /\ readers'[r].files = readers[r].files
             /\ readers'[r].rows = readers[r].rows
             /\ readers'[r].failed = readers[r].failed
             /\ readers'[r].due = readers[r].due
             /\ readers'[r].skipped = readers[r].skipped
             /\ \/ readers'[r].raced
                \/ ~ readers[r].raced /\ (readers[r].pc = "listed" => hot \subseteq hot')
    <3>1. SeenInv(readers[r])'
      <4>1. \A f \in readers[r].files : f \in cold' \/ DayOver(f.day, now')
        BY <1>1, <2>1, DayOverStable DEF SeenInv
      <4>2. QED
        BY <1>1, <2>1, <2>3, <4>1, DayOverStable DEF SeenInv, InRange, To
    <3>2. ReachInv(readers[r])'
      BY <2>1, <2>3 DEF ReachInv, Listed, Counted
    <3>3. AnswerInv(readers[r])'
      BY <2>1, <2>3 DEF AnswerInv, InRange, To
    <3>4. QED
      BY <3>1, <3>2, <3>3
  <2>4. QED
    BY <1>2, <1>3, <2>2, <2>3 DEF Query
<1>6. QED
  BY <1>4, <1>5 DEF QInv

\* A step of one task leaves the others as they are.
LEMMA OneTask ==
  ASSUME QInv, NEW r \in Readers, UNCHANGED <<now, hot, cold, log>>,
         readers' = [readers EXCEPT ![r] = readers'[r]], readers'[r] \in Query,
         SeenInv(readers[r])', ReachInv(readers[r])', AnswerInv(readers[r])'
  PROVE  QInv'
<1>1. QTypeOK'
  BY DEF QInv, QTypeOK
<1>2. \A p \in Readers \ {r} : readers'[p] = readers[p]
  BY DEF QInv, QTypeOK
<1>3. \A p \in Readers \ {r} :
         SeenInv(readers[p])' /\ ReachInv(readers[p])' /\ AnswerInv(readers[p])'
  BY <1>2 DEF QInv, SeenInv, ReachInv, AnswerInv, Listed, Counted, InRange, To
<1>4. QED
  BY <1>1, <1>3 DEF QInv

\* A query lists its files: a stored event of the range is in the hot table or in
\* a file of a day of the range.
LEMMA QListInv ==
  ASSUME IInv, QInv, NEW r \in Readers, NEW from \in Froms, QList(r, from)
  PROVE  QInv'
<1> DEFINE q == readers'[r]
<1>1. UNCHANGED <<now, hot, cold, log>>
  BY DEF QList, vars, archive
<1>2. /\ q.pc = "listed" /\ q.from = from /\ q.rows = {}
      /\ q.files \subseteq FilesInRange(from) /\ (q.skipped \/ q.files = FilesInRange(from))
      /\ q.failed = FALSE /\ q.raced = FALSE
      /\ q.due = {e \in Stored : from <= e.at /\ e.at < from + Span}
      /\ q \in Query
  <2>1. FilesInRange(from) \subseteq File /\ Stored \subseteq Event /\ from \in Nat
    BY DEF FilesInRange, IInv, TypeOK, Stored, ColdRows, File
  <2>2. PICK unreadable \in SUBSET FilesInRange(from) :
          readers' = [readers EXCEPT ![r] =
            [NoQuery EXCEPT !.pc = "listed", !.from = from,
                            !.files = FilesInRange(from) \ unreadable,
                            !.skipped = unreadable # {},
                            !.due = {e \in Stored : from <= e.at /\ e.at < from + Span}]]
    BY DEF QList
  <2>3. readers \in [Readers -> Query]
    BY DEF QInv, QTypeOK
  <2>4. q = [NoQuery EXCEPT !.pc = "listed", !.from = from,
                            !.files = FilesInRange(from) \ unreadable,
                            !.skipped = unreadable # {},
                            !.due = {e \in Stored : from <= e.at /\ e.at < from + Span}]
    BY <2>2, <2>3
  <2> HIDE DEF q
  <2>5. (unreadable # {}) \in BOOLEAN
    OBVIOUS
  <2> QED
    BY <2>1, <2>4, <2>5 DEF Query, NoQuery
<1>3. readers' = [readers EXCEPT ![r] = q]
  BY DEF QList, QInv, QTypeOK
<1> HIDE DEF q
<1>4. SeenInv(readers[r])'
  BY <1>1, <1>2 DEF q, SeenInv, FilesInRange, InRange, To, IInv, TypeOK, File, ArchiveInv
<1>5. q.skipped \/ q.due \subseteq hot \cup UNION {f.rows : f \in q.files}
  <2> SUFFICES ASSUME ~ q.skipped, NEW e \in ColdRows, from <= e.at, e.at < from + Span
               PROVE  \E f \in q.files : e \in f.rows
    BY <1>2 DEF Stored
  <2>1. PICK f \in cold : e \in f.rows
    BY ColdRowsMember
  <2>2. f.day = Day(e.at) /\ e.at \in Nat /\ from \in Nat
    BY <2>1 DEF IInv, ArchiveInv, TypeOK, File, Event
  <2>3. Day(from) <= f.day /\ f.day <= Day(from + Span)
    BY <2>2, DayMonotone
  <2>4. QED
    BY <1>2, <2>1, <2>3 DEF FilesInRange
<1>6. ReachInv(readers[r])' /\ AnswerInv(readers[r])'
  BY <1>1, <1>2, <1>5 DEF q, ReachInv, AnswerInv, Listed
<1>7. QED
  BY <1>1, <1>2, <1>3, <1>4, <1>6, OneTask DEF q

\* A query takes its snapshot of the hot table.
LEMMA QHotInv ==
  ASSUME IInv, QInv, NEW r \in Readers, QHot(r)
  PROVE  QInv'
<1> DEFINE q == readers'[r]
<1>1. UNCHANGED <<now, hot, cold, log>>
  BY DEF QHot, vars, archive
<1>2. /\ readers[r].pc = "listed" /\ readers[r].failed \in BOOLEAN
      /\ readers[r].raced \in BOOLEAN /\ readers[r] \in Query
  BY DEF QHot, QInv, QTypeOK, Query
<1>3. /\ q.pc = "scanned" /\ q.from = readers[r].from /\ q.files = readers[r].files
      /\ q.rows = {[frame |-> HotFrame, event |-> e] : e \in hot}
      /\ q.failed = readers[r].failed /\ q.raced = readers[r].raced
      /\ q.due = readers[r].due /\ q.skipped = readers[r].skipped
      /\ q \in Query
  <2>1. {[frame |-> HotFrame, event |-> e] : e \in hot} \subseteq Row
    BY DEF Row, IInv, TypeOK
  <2>2. QED
    BY <1>2, <2>1 DEF QHot, QInv, QTypeOK, Query
<1>4. readers' = [readers EXCEPT ![r] = q]
  BY DEF QHot, QInv, QTypeOK
<1> HIDE DEF q
<1>5. SeenInv(readers[r]) /\ ReachInv(readers[r])
  BY DEF QInv
<1>6. SeenInv(readers[r])'
  BY <1>1, <1>3, <1>5 DEF q, SeenInv, InRange, To, IInv, RunInv
<1>7. q.due \subseteq hot \cup UNION {f.rows : f \in q.files} \/ q.raced \/ q.skipped
  BY <1>2, <1>3, <1>5 DEF ReachInv, Listed
<1>8. ASSUME NEW e \in hot PROVE \E x \in q.rows : x.event = e
  <2>1. [frame |-> HotFrame, event |-> e] \in q.rows
    BY <1>3
  <2>2. QED
    BY <2>1
<1>9. ReachInv(readers[r])' /\ AnswerInv(readers[r])'
  BY <1>3, <1>7, <1>8 DEF q, ReachInv, AnswerInv, Listed, Counted
<1>10. QED
  BY <1>1, <1>3, <1>4, <1>6, <1>9, OneTask DEF q

\* A query reads its files: if they are all there, Unique keeps a row of whatever
\* the snapshot or a file holds within the range.
LEMMA QCollectInv ==
  ASSUME IInv, QInv, NEW r \in Readers, QCollect(r)
  PROVE  QInv'
<1> DEFINE p == readers[r]
           q == readers'[r]
           archived == UNION {{[frame |-> Path(f), event |-> e] : e \in f.rows} : f \in p.files}
           union == {x \in p.rows \cup archived : InRange(x.event, p)}
           whole == p.files \subseteq cold
<1>1. UNCHANGED <<now, hot, cold, log>>
  BY DEF QCollect, vars, archive
<1>2. p.pc = "scanned" /\ p \in Query
  BY DEF QCollect, QInv, QTypeOK
<1>3. SeenInv(p) /\ ReachInv(p)
  BY DEF QInv
<1>4. archived \subseteq Row
  <2> SUFFICES ASSUME NEW f \in p.files, NEW e \in f.rows
               PROVE  [frame |-> Path(f), event |-> e] \in Row
    OBVIOUS
  <2>1. f \in File
    BY <1>2 DEF Query
  <2>2. QED
    BY <2>1 DEF Row, Path, File
<1>5. union \subseteq Row /\ Unique(union) \subseteq Row
  BY <1>2, <1>4, UniqueRows DEF Query
<1>6. readers' = [readers EXCEPT
        ![r].pc = "done", ![r].failed = ~ whole, ![r].rows = IF whole THEN Unique(union) ELSE {}]
  BY DEF QCollect
<1>7. ASSUME NEW x \in archived
      PROVE  \E f \in p.files : x.event \in f.rows
  OBVIOUS
<1>8. ASSUME NEW f \in p.files, NEW e \in f.rows
      PROVE  \E x \in archived : x.event = e
  <2>1. [frame |-> Path(f), event |-> e] \in archived
    OBVIOUS
  <2>2. QED
    BY <2>1
<1> HIDE DEF archived
<1>9. \A x \in union : x.event \in log /\ InRange(x.event, p)
  BY <1>3, <1>7 DEF SeenInv
<1>10. ~ p.raced /\ ~ p.skipped => \A e \in p.due : \E x \in union : x.event = e
  BY <1>2, <1>3, <1>8 DEF SeenInv, ReachInv, Listed, Counted
<1>11. ~ whole => \E f \in p.files : DayOver(f.day, now)
  BY <1>3 DEF SeenInv
<1> HIDE DEF union
<1>12. /\ q.pc = "done" /\ q.from = p.from /\ q.files = p.files /\ q.due = p.due
       /\ q.raced = p.raced /\ q.skipped = p.skipped /\ q.failed \in BOOLEAN
       /\ whole => ~ q.failed /\ q.rows = Unique(union)
       /\ ~ whole => q.failed /\ q.rows = {}
       /\ q \in Query
  BY <1>2, <1>5, <1>6 DEF QInv, QTypeOK, Query
<1>13. readers' = [readers EXCEPT ![r] = q]
  BY <1>6 DEF QInv, QTypeOK
<1>14. \A x \in q.rows : x.event \in log /\ InRange(x.event, p)
  BY <1>9, <1>12, UniqueRows
<1>15. ~ p.raced /\ ~ p.skipped /\ ~ q.failed => \A e \in p.due : \E x \in q.rows : x.event = e
  BY <1>10, <1>12, UniqueRows
<1>16. q.failed => \E f \in p.files : DayOver(f.day, now)
  BY <1>11, <1>12
<1>17. ~ q.failed => \A x, y \in q.rows : x.event = y.event => x = y
  BY <1>12, UniqueRows
<1> HIDE DEF p, q, whole
<1>18. SeenInv(readers[r])'
  BY <1>1, <1>3, <1>12, <1>14, <1>16 DEF q, SeenInv, InRange, To
<1>19. ReachInv(readers[r])'
  BY <1>12, <1>15 DEF q, ReachInv, Counted
<1>20. AnswerInv(readers[r])'
  BY <1>12, <1>14, <1>17 DEF q, AnswerInv, InRange, To
<1>21. QED
  BY <1>1, <1>12, <1>13, <1>18, <1>19, <1>20, OneTask DEF q

LEMMA QInvStep == IInv /\ QInv /\ [QNext]_qvars => QInv'
<1> SUFFICES ASSUME IInv, QInv, [QNext]_qvars PROVE QInv'
  OBVIOUS
<1>1. CASE StoreStep \/ UNCHANGED qvars
  BY <1>1, QueryStep, StoreStepInv
<1>2. ASSUME NEW r \in Readers, NEW from \in Froms, QList(r, from)
      PROVE  QInv'
  BY <1>2, QListInv
<1>3. ASSUME NEW r \in Readers, QHot(r) \/ QCollect(r)
      PROVE  QInv'
  BY <1>3, QHotInv, QCollectInv
<1>4. QED
  BY <1>1, <1>2, <1>3 DEF QNext

THEOREM QueriesInductive == QSpec => []QInv
  BY QInvInit, QInvStep, StoreUnderQueries, PTL DEF QSpec

\* A query counts an event once, whatever duplicates interrupted compactions left
\* in the two tiers, and nothing that was not committed or is out of its range.
THEOREM QueriesCountOnce == QSpec => []CountedOnce
<1>1. QInv => CountedOnce
  BY DEF QInv, SeenInv, AnswerInv, CountedOnce, Finished, Answer
<1>2. QED
  BY <1>1, QueriesInductive, PTL

\* A query counts everything that was stored when it began, unless the hot window
\* was emptied between its listing and its snapshot or a partition could not be
\* opened, and fails only where retention took a partition.
THEOREM QueriesComplete == QSpec => []CompleteUnlessRaced
<1>1. QInv => CompleteUnlessRaced
  BY DEF QInv, SeenInv, ReachInv, CompleteUnlessRaced, Finished, Answer, Counted
<1>2. QED
  BY <1>1, QueriesInductive, PTL

-----------------------------------------------------------------------------
(* The anchor of an all-time query.                                        *)

\* Files and days lie in directories, and a day has one only when it had begun
\* before the hot window did.  A hot event is never of an earlier day than the
\* archive's first: partitions are written oldest first, and a run that gets as far
\* as retention has left nothing behind that is older than what it wrote.
DirInv ==
  /\ \A f \in cold : f.day \in days
  /\ \A d \in days : Month(d) \in months /\ StartOfDay(d) < now - HotWindow
  /\ todo \subseteq BatchDays
  /\ \A e \in hot : (\A d \in days : d <= Day(e.at)) \/ Day(e.at) \in days
  /\ cpc # "idle" => \A e \in hot \ batch : /\ \A d \in days : d <= Day(e.at)
                                            /\ \A b \in batch : b.at <= e.at

\* A step that adds no directory and no row, and no more to the run.
LEMMA DirKept ==
  ASSUME IInv, IInv', DirInv, now <= now',
         \A f \in cold' : f \in cold /\ f.day \in days',
         days' \subseteq days, months \subseteq months',
         hot' \subseteq hot, batch' \subseteq batch, todo' \subseteq BatchDays',
         cpc' # "idle" => cpc # "idle" /\ hot' \ batch' \subseteq hot \ batch,
         days \subseteq days' \/ \A e \in hot : \A d \in days : d <= Day(e.at)
  PROVE  DirInv'
<1>1. /\ now \in Nat /\ now' \in Nat /\ days \subseteq Nat
      /\ \A d \in days : StartOfDay(d) \in Int
  BY DEF IInv, TypeOK, StartOfDay
<1>2. \A d \in days' : Month(d) \in months' /\ StartOfDay(d) < now' - HotWindow
  BY <1>1 DEF DirInv
<1>3. \A e \in hot' : (\A d \in days' : d <= Day(e.at)) \/ Day(e.at) \in days'
  BY DEF DirInv
<1>4. cpc' # "idle" => \A e \in hot' \ batch' : /\ \A d \in days' : d <= Day(e.at)
                                               /\ \A b \in batch' : b.at <= e.at
  BY DEF DirInv
<1>5. QED
  BY <1>2, <1>3, <1>4 DEF DirInv

\* What has been appended is no older than the hot window, so no directory is of a
\* later day.
LEMMA NewestDay ==
  ASSUME IInv, DirInv, NEW e \in Event, ~ (e.at < now - HotWindow)
  PROVE  \A d \in days : d <= Day(e.at)
<1>1. now \in Nat /\ days \subseteq Nat /\ e.at \in Nat
  BY DEF IInv, TypeOK, Event
<1>2. ASSUME NEW d \in days PROVE StartOfDay(d) <= e.at
  <2>1. StartOfDay(d) < now - HotWindow /\ StartOfDay(d) \in Int
    BY <1>1 DEF DirInv, StartOfDay
  <2>2. QED
    BY <1>1, <2>1
<1>3. QED
  BY <1>1, <1>2, BegunDay

LEMMA AppendDir ==
  ASSUME MaxLag <= HotWindow, IInv, DirInv,
         NEW n \in 1..MaxBatch, NEW at \in [1..n -> Recent], AppendEvents(n, at)
  PROVE  DirInv'
<1> DEFINE new == Numbered(n, at)
<1>1. /\ hot' = hot \cup new
      /\ UNCHANGED <<now, cold, days, months, cpc, batch, todo>>
  BY DEF AppendEvents, archive
<1>2. now \in Nat /\ batch \subseteq Event /\ \A b \in batch : b.at < now - HotWindow
  BY DEF IInv, TypeOK, RunInv
<1>3. ASSUME NEW e \in new
      PROVE  e \in Event /\ ~ (e.at < now - HotWindow)
  <2>1. e \in Event /\ \E i \in 1..n : e.at = at[i]
    BY NumberedType DEF Numbered, IInv
  <2>2. now - MaxLag <= e.at
    BY <2>1 DEF Recent
  <2>3. QED
    BY <1>2, <2>1, <2>2 DEF Event
<1> HIDE DEF new
<1>4. ASSUME NEW e \in new
      PROVE  /\ \A d \in days : d <= Day(e.at)
             /\ \A b \in batch : b.at <= e.at
  BY <1>2, <1>3, NewestDay DEF Event
<1>5. QED
  BY <1>1, <1>4 DEF DirInv, BatchDays

LEMMA CompactNothingDir == ASSUME IInv, DirInv, CompactNothing PROVE DirInv'
<1>1. UNCHANGED <<now, hot, cold, days, months, batch, todo>>
  BY DEF CompactNothing, archive
<1>2. batch = {}
  BY DEF CompactNothing, IInv, RunInv
<1>3. \A e \in hot : \A d \in days : d <= Day(e.at)
  BY NewestDay DEF CompactNothing, Sealable, IInv, TypeOK
<1>4. QED
  BY <1>1, <1>2, <1>3 DEF DirInv, BatchDays

LEMMA CompactReadDir == ASSUME IInv, DirInv, CompactRead PROVE DirInv'
<1>1. /\ UNCHANGED <<now, hot, cold, days, months>>
      /\ batch' = Sealable /\ todo' = {Day(e.at) : e \in Sealable}
  BY DEF CompactRead, archive
<1>2. now \in Nat /\ hot \subseteq Event
  BY DEF IInv, TypeOK
<1>3. ASSUME NEW e \in hot \ Sealable
      PROVE  /\ \A d \in days : d <= Day(e.at)
             /\ \A b \in Sealable : b.at <= e.at
  <2>1. e \in Event /\ ~ (e.at < now - HotWindow)
    BY <1>2 DEF Sealable
  <2>2. \A b \in Sealable : b.at <= e.at
    BY <1>2, <2>1 DEF Sealable, Event
  <2>3. QED
    BY <2>1, <2>2, NewestDay
<1>4. QED
  BY <1>1, <1>3 DEF DirInv, BatchDays

\* A directory that is made, for a partition or in vain, is that of the oldest day
\* still to do.
LEMMA MadeDir ==
  ASSUME IInv, DirInv, NEW d \in todo, cpc = "write", \A x \in todo : d <= x
  PROVE  /\ d \in Nat /\ StartOfDay(d) < now - HotWindow
         /\ \A e \in hot : d <= Day(e.at) \/ Day(e.at) \in days
         /\ \A e \in hot \ batch : d <= Day(e.at)
<1>1. now \in Nat /\ hot \subseteq Event /\ batch \subseteq Event
  BY DEF IInv, TypeOK
<1>2. PICK b \in batch : d = Day(b.at)
  BY DEF DirInv, BatchDays
<1>3. b.at \in Nat /\ b.at < now - HotWindow
  BY <1>1 DEF IInv, RunInv, Event
<1>4. d \in Nat /\ StartOfDay(d) \in Nat /\ StartOfDay(d) <= b.at
  BY <1>2, <1>3, DayStart, DayType
<1>5. StartOfDay(d) < now - HotWindow
  BY <1>1, <1>3, <1>4
<1>6. ASSUME NEW e \in hot \ batch PROVE d <= Day(e.at)
  <2>1. b.at <= e.at /\ e.at \in Nat
    BY <1>1 DEF DirInv, Event
  <2>2. QED
    BY <1>2, <1>3, <2>1, DayMonotone
<1>7. ASSUME NEW e \in batch PROVE d <= Day(e.at) \/ Day(e.at) \in days
  <2>1. CASE Day(e.at) \in todo
    BY <2>1
  <2>2. CASE Day(e.at) \notin todo
    <3>1. PICK f \in cold : e \in f.rows
      BY <2>2, ColdRowsMember DEF IInv, RunInv
    <3>2. QED
      BY <3>1 DEF IInv, ArchiveInv, DirInv
  <2>3. QED
    BY <2>1, <2>2
<1>8. QED
  BY <1>4, <1>5, <1>6, <1>7

LEMMA CompactWriteDir ==
  ASSUME IInv, DirInv, NEW d \in todo, CompactWrite(d)
  PROVE  DirInv'
<1>1. /\ UNCHANGED <<now, hot, batch>> /\ cpc = "write"
      /\ days' = days \cup {d} /\ months' = months \cup {Month(d)} /\ todo' = todo \ {d}
      /\ \A f \in cold' : f \in cold \/ f.day = d
  BY CompactWriteTiers DEF CompactWrite
<1>2. /\ StartOfDay(d) < now - HotWindow
      /\ \A e \in hot : d <= Day(e.at) \/ Day(e.at) \in days
      /\ \A e \in hot \ batch : d <= Day(e.at)
  BY MadeDir DEF CompactWrite
<1>3. QED
  BY <1>1, <1>2 DEF DirInv, BatchDays

LEMMA CompactWriteFailsDir ==
  ASSUME IInv, DirInv, NEW d \in todo, CompactWriteFails(d)
  PROVE  DirInv'
<1>1. /\ UNCHANGED <<now, hot, cold>> /\ cpc = "write" /\ cpc' = "idle" /\ todo' = {}
      /\ days' = days \/ (days' = days \cup {d} /\ Month(d) \in months')
      /\ months \subseteq months'
  BY DEF CompactWriteFails
<1>2. /\ StartOfDay(d) < now - HotWindow
      /\ \A e \in hot : d <= Day(e.at) \/ Day(e.at) \in days
  BY MadeDir DEF CompactWriteFails
<1>3. QED
  BY <1>1, <1>2 DEF DirInv, BatchDays

LEMMA RetentionDir ==
  ASSUME IInv, IInv', DirInv, Retain \/ \E gone \in SUBSET cold : RetainPartly(gone)
  PROVE  DirInv'
<1>1. /\ UNCHANGED <<now, hot, batch, todo, months>> /\ cpc = "retain" /\ cpc' = "idle"
      /\ days' \subseteq days
  BY DEF Retain, RetainPartly
<1>2. \A f \in cold' : f \in cold /\ f.day \in days'
  BY DEF Retain, RetainPartly, DirInv
<1>3. batch = {}
  BY <1>1 DEF IInv, RunInv
<1>4. \A e \in hot : \A d \in days : d <= Day(e.at)
  BY <1>1, <1>3 DEF DirInv
<1>5. QED
  BY <1>1, <1>2, <1>3, <1>4, DirKept DEF IInv, TypeOK, DirInv, BatchDays

LEMMA DirStep ==
  ASSUME MaxLag <= HotWindow
  PROVE  IInv /\ DirInv /\ [Next]_vars => DirInv'
<1> SUFFICES ASSUME IInv, DirInv, [Next]_vars PROVE DirInv'
  OBVIOUS
<1> USE DEF memory, archive
<1>0. IInv' /\ now <= now' /\ \A f \in cold : f.day \in days
  BY InvStep, StoreStepKeeps DEF DirInv
<1>1. batch' = batch /\ todo' = todo => todo' \subseteq BatchDays'
  BY DEF DirInv, BatchDays
<1>2. CASE Tick
  BY <1>0, <1>1, <1>2, DirKept DEF Tick
<1>3. CASE Crash
  BY <1>0, <1>1, <1>3, DirKept DEF Crash
<1>4. CASE Open
  BY <1>0, <1>1, <1>4, DirKept DEF Open
<1>5. ASSUME NEW n \in 1..MaxBatch, NEW at \in [1..n -> Recent], AppendEvents(n, at)
      PROVE  DirInv'
  BY <1>5, AppendDir
<1>6. ASSUME NEW k \in 0..MaxBatch, AppendFails(k)
      PROVE  DirInv'
  BY <1>0, <1>1, <1>6, DirKept DEF AppendFails
<1>7. CASE CompactNothing
  BY <1>7, CompactNothingDir
<1>8. CASE CompactRead
  BY <1>8, CompactReadDir
<1>9. ASSUME NEW d \in todo, CompactWrite(d) \/ CompactWriteFails(d)
      PROVE  DirInv'
  BY <1>9, CompactWriteDir, CompactWriteFailsDir
<1>10. CASE CompactDelete \/ CompactDeleteFails
  <2>1. cpc = "delete" /\ todo = {}
    BY <1>10 DEF CompactDelete, CompactDeleteFails, IInv, RunInv
  <2>2. QED
    BY <1>0, <1>10, <2>1, DirKept DEF CompactDelete, CompactDeleteFails
<1>11. CASE Retain \/ \E gone \in SUBSET cold : RetainPartly(gone)
  BY <1>0, <1>11, RetentionDir
<1>12. CASE UNCHANGED vars
  BY <1>0, <1>1, <1>12, DirKept DEF vars
<1>13. QED
  BY <1>2, <1>3, <1>4, <1>5, <1>6, <1>7, <1>8, <1>9, <1>10, <1>11, <1>12
     DEF Next, Appends, Compact, CompactFails

LEMMA DirInit == Init => DirInv
  BY DEF Init, DirInv

\* The first partition's day is not after that of any stored event.
LEMMA FirstPartition ==
  ASSUME IInv, DirInv, \E d \in days : Month(d) = Lowest(months), NEW e \in Stored
  PROVE  Earliest \in 0..e.at
<1> DEFINE below == {d \in days : Month(d) = Lowest(months)}
           first == Lowest(below)
<1>1. days \subseteq Nat /\ months \subseteq Nat /\ hot \subseteq Event /\ cold \subseteq File
  BY DEF IInv, TypeOK
<1>2. e.at \in Nat /\ Day(e.at) \in Nat
  BY <1>1, DayType DEF Stored, ColdRows, File, Event
<1>3. first \in below /\ \A d \in below : first <= d
  BY <1>1, LowestExists
<1>4. first \in Nat /\ first \in days /\ Month(first) = Lowest(months)
  BY <1>1, <1>3
<1>5. \A d \in days : first <= d
  <2> SUFFICES ASSUME NEW d \in days, ~ (first <= d) PROVE FALSE
    OBVIOUS
  <2>1. d \in Nat /\ d <= first
    BY <1>1, <1>4
  <2>2. Month(d) \in months /\ Month(d) <= Month(first)
    BY <1>4, <2>1, MonthMonotone DEF DirInv
  <2>3. Lowest(months) \in Nat /\ Lowest(months) <= Month(d) /\ Month(d) \in Nat
    BY <1>1, <2>2, LowestExists
  <2>4. Month(d) = Lowest(months)
    BY <1>1, <1>4, <2>2, <2>3
  <2>5. QED
    BY <1>3, <2>4
<1>6. first <= Day(e.at)
  <2>1. CASE e \in ColdRows
    <3>1. PICK f \in cold : e \in f.rows
      BY <2>1, ColdRowsMember
    <3>2. QED
      BY <1>5, <3>1 DEF IInv, ArchiveInv, DirInv
  <2>2. CASE e \in hot
    BY <1>4, <1>5, <2>2 DEF DirInv
  <2>3. QED
    BY <2>1, <2>2 DEF Stored
<1>7. StartOfDay(first) \in Nat /\ StartOfDay(first) <= StartOfDay(Day(e.at))
  BY <1>2, <1>4, <1>6, StartMonotone
<1>8. StartOfDay(first) <= e.at
  BY <1>2, <1>7, DayStart
<1>9. EarliestPartition = StartOfDay(first)
  <2>1. months # {} /\ below # {}
    BY <1>1, <1>3, <1>4 DEF DirInv
  <2>2. QED
    BY <2>1 DEF EarliestPartition
<1> HIDE DEF below, first
<1>10. QED
  BY <1>2, <1>7, <1>8, <1>9 DEF Earliest, NoTime

\* Without an archive the first hot event is the first there is.
LEMMA FirstHot ==
  ASSUME IInv, DirInv, months = {}, NEW e \in Stored
  PROVE  Earliest \in 0..e.at
<1>1. e \in hot /\ hot \subseteq Event
  BY DEF DirInv, Stored, ColdRows, IInv, TypeOK
<1> DEFINE times == {x.at : x \in hot}
<1>2. times \subseteq Nat /\ e.at \in times
  BY <1>1 DEF Event
<1>3. Lowest(times) \in Nat /\ Lowest(times) <= e.at /\ e.at \in Nat
  BY <1>2, LowestExists
<1>4. Earliest = Lowest(times)
  BY <1>1 DEF Earliest, EarliestPartition, NoTime
<1> HIDE DEF times
<1>5. QED
  BY <1>2, <1>3, <1>4

\* An all-time query starts no later than any stored event, while the oldest month
\* directory has a day in it, if events do not wait for their append longer than
\* the hot window is.
THEOREM EarliestIsFirst ==
  ASSUME MaxLag <= HotWindow
  PROVE  QSpec => []EarliestWhenDated
<1>1. QInit => DirInv
  BY DirInit DEF QInit
<1>2. IInv /\ DirInv /\ [QNext]_qvars => DirInv'
  BY DirStep, QueryStep
<1>3. IInv /\ DirInv => EarliestWhenDated
  BY FirstPartition, FirstHot DEF EarliestWhenDated
<1>4. QED
  BY <1>1, <1>2, <1>3, StoreUnderQueries, PTL DEF QSpec

-----------------------------------------------------------------------------
(* The entities, with any projects, pixels, sources, names and handlers.   *)

USE EntitiesAssumption

-----------------------------------------------------------------------------
(* The inductive invariant.                                                *)

Task ==
  [pc : {"idle", "checkName", "putProject", "putPixel"}, id : Projects \cup Pixels \cup {None},
   project : Projects \cup {None}, name : Names \cup {None}, stale : BOOLEAN]

\* Where a task is tells what it knows.
Knows(k) ==
  /\ k.pc \in {"checkName", "putProject"} => k.id \in Projects \cap used /\ k.name \in Names
  /\ k.pc = "putPixel" => k.id \in Pixels /\ k.project \in Live \cup deleted

Shapes ==
  /\ projects \in Map(Projects, Names) /\ pixels \in Map(Pixels, Projects)
  /\ sources \in Map(Sources, Projects \cup Strays \cup {None})
  /\ tasks \in [Tasks -> Task] /\ \A t \in Tasks : Knows(tasks[t])
  /\ Live \cup deleted \subseteq used /\ deleted \subseteq Projects
  /\ raced \in BOOLEAN

\* Whatever a pixel or a source belongs to is a project, or was one, unless the
\* source went astray.
OwnersKnown ==
  /\ \A x \in DOMAIN pixels : pixels[x] \in Live \cup deleted
  /\ \A s \in DOMAIN sources \ astray : sources[s] \in Live \cup deleted \cup {None}

\* What a handler has read is true until someone writes to its tables.
TrueYet(k) ==
  /\ k.pc \in {"checkName", "putProject"} => k.id \notin deleted
  /\ k.pc = "putProject" => ~ NameTaken(k.name, k.id)
  /\ k.pc = "putPixel" => k.project \in Live

UnracedInv ==
  ~ raced =>
    /\ NamesUnique
    /\ Live \cap deleted = {} /\ \A x \in DOMAIN pixels : pixels[x] \in Live
    /\ SourcesOwned
    /\ \A t \in Tasks : ~ tasks[t].stale => TrueYet(tasks[t])

\* The owners a rollup has read are projects, or were; without a race they were
\* there when it began to read.
ViewInv ==
  /\ view.pc \in {"pixels", "projects"} =>
       \A r \in DOMAIN view.owners :
         r \in view.astray \/ (view.owners[r] \in Live \cup deleted
                                /\ (raced \/ view.owners[r] \notin view.before))
  /\ MissingOnlyWithoutProject
  /\ view.before \subseteq deleted

EInv == Shapes /\ OwnersKnown /\ UnracedInv

RollupInv == EInv /\ ViewInv

-----------------------------------------------------------------------------
(* Tables and tasks.                                                       *)

LEMMA PutMap ==
  ASSUME NEW S, NEW T, NEW f \in Map(S, T), NEW x \in S, NEW y \in T
  PROVE  Put(f, x, y) \in Map(S, T)
<1>1. DOMAIN f \subseteq S /\ \A z \in DOMAIN f : f[z] \in T
  BY DEF Map
<1>2. Put(f, x, y) \in [DOMAIN f \cup {x} -> T] /\ DOMAIN f \cup {x} \in SUBSET S
  BY <1>1 DEF Put
<1> QED  BY <1>2 DEF Map

LEMMA DropMap ==
  ASSUME NEW S, NEW T, NEW f \in Map(S, T), NEW D
  PROVE  Drop(f, D) \in Map(S, T)
<1>1. DOMAIN f \subseteq S /\ \A z \in DOMAIN f : f[z] \in T
  BY DEF Map
<1>2. Drop(f, D) \in [DOMAIN f \ D -> T] /\ DOMAIN f \ D \in SUBSET S
  BY <1>1 DEF Drop
<1> QED  BY <1>2 DEF Map

LEMMA MapDomain ==
  ASSUME NEW S, NEW T, NEW f \in Map(S, T)
  PROVE  DOMAIN f \subseteq S /\ \A z \in DOMAIN f : f[z] \in T
BY DEF Map

LEMMA EmptyIsMap ==
  ASSUME NEW S, NEW T
  PROVE  EmptyMap \in Map(S, T) /\ DOMAIN EmptyMap = {}
<1>1. EmptyMap \in [{} -> T] /\ {} \in SUBSET S
  BY DEF EmptyMap
<1> QED  BY <1>1 DEF Map

LEMMA NoTaskKnows == NoTask \in Task /\ Knows(NoTask) /\ TrueYet(NoTask) /\ NoTask.pc = "idle"
BY DEF NoTask, Task, Knows, TrueYet

\* A handler that writes is done, and every other one is stale from then on.
LEMMA WrittenTasks ==
  ASSUME Shapes, NEW t \in Tasks, Written(t)
  PROVE  /\ tasks' \in [Tasks -> Task]
         /\ \A u \in Tasks :
              \/ tasks'[u] = NoTask
              \/ /\ tasks'[u].stale /\ tasks'[u].pc = tasks[u].pc /\ tasks'[u].id = tasks[u].id
                 /\ tasks'[u].name = tasks[u].name /\ tasks'[u].project = tasks[u].project
         /\ ~ raced' => ~ raced /\ ~ tasks[t].stale
         /\ raced' \in BOOLEAN
<1>1. ASSUME NEW u \in Tasks
      PROVE  /\ [tasks[u] EXCEPT !.stale = TRUE] \in Task
             /\ [tasks[u] EXCEPT !.stale = TRUE].stale
             /\ [tasks[u] EXCEPT !.stale = TRUE].pc = tasks[u].pc
             /\ [tasks[u] EXCEPT !.stale = TRUE].id = tasks[u].id
             /\ [tasks[u] EXCEPT !.stale = TRUE].name = tasks[u].name
             /\ [tasks[u] EXCEPT !.stale = TRUE].project = tasks[u].project
  <2>1. tasks[u] \in Task
    BY DEF Shapes
  <2> QED  BY <2>1 DEF Task
<1>2. \A u \in Tasks : tasks'[u] = NoTask \/ tasks'[u] = [tasks[u] EXCEPT !.stale = TRUE]
  BY DEF Written
<1>3. tasks' = [u \in Tasks |->
       IF u = t \/ tasks[u].pc = "idle" THEN NoTask ELSE [tasks[u] EXCEPT !.stale = TRUE]]
  BY DEF Written
<1>4. tasks' \in [Tasks -> Task]
  BY <1>1, <1>3, NoTaskKnows
<1>5. (~ raced' => ~ raced /\ ~ tasks[t].stale) /\ raced' \in BOOLEAN
  <2>1. raced' = (raced \/ tasks[t].stale)
    BY DEF Written
  <2> QED  BY <2>1
<1> QED  BY <1>1, <1>2, <1>4, <1>5

-----------------------------------------------------------------------------
(* What reads, and what writes.                                            *)

\* A handler that reads keeps the invariant if what it then knows is so.
LEMMA Reads ==
  ASSUME EInv, NEW t \in Tasks, NEW k \in Task, Becomes(t, k),
         UNCHANGED <<tables, deleted, astray, raced>>, used \subseteq used',
         /\ k.pc \in {"checkName", "putProject"} => k.id \in Projects \cap used' /\ k.name \in Names
         /\ k.pc = "putPixel" => k.id \in Pixels /\ k.project \in Live \cup deleted,
         ~ raced /\ ~ k.stale => TrueYet(k)
  PROVE  EInv'
<1>1. UNCHANGED <<projects, pixels, sources, deleted, astray, raced, Live>>
  BY DEF tables, Live
<1>2. /\ tasks' \in [Tasks -> Task] /\ tasks'[t] = k
      /\ \A u \in Tasks \ {t} : tasks'[u] = tasks[u]
  BY DEF Becomes, EInv, Shapes
<1>3. Shapes'
  <2>1. ASSUME NEW u \in Tasks PROVE Knows(tasks[u])'
    <3>1. CASE u = t
      BY <1>1, <1>2, <3>1 DEF Knows
    <3>2. CASE u # t
      <4>1. Knows(tasks[u])
        BY DEF EInv, Shapes
      <4> QED  BY <1>1, <1>2, <3>2, <4>1 DEF Knows
    <3> QED  BY <3>1, <3>2
  <2> QED  BY <1>1, <1>2, <2>1 DEF EInv, Shapes
<1>4. OwnersKnown'
  BY <1>1 DEF EInv, OwnersKnown
<1>5. UnracedInv'
  <2> SUFFICES ASSUME ~ raced
               PROVE  /\ NamesUnique'
                      /\ (Live \cap deleted = {})' /\ (\A x \in DOMAIN pixels : pixels[x] \in Live)'
                      /\ SourcesOwned'
                      /\ \A u \in Tasks : ~ tasks'[u].stale => TrueYet(tasks[u])'
    BY <1>1 DEF UnracedInv
  <2>1. NamesUnique' /\ (Live \cap deleted = {})' /\ (\A x \in DOMAIN pixels : pixels[x] \in Live)'
        /\ SourcesOwned'
    BY <1>1 DEF EInv, UnracedInv, NamesUnique, SourcesOwned
  <2>2. ASSUME NEW u \in Tasks, ~ tasks'[u].stale PROVE TrueYet(tasks[u])'
    <3>1. CASE u = t
      BY <1>1, <1>2, <2>2, <3>1 DEF TrueYet, NameTaken
    <3>2. CASE u # t
      <4>1. TrueYet(tasks[u])
        BY <1>2, <2>2, <3>2 DEF EInv, UnracedInv
      <4> QED  BY <1>1, <1>2, <3>2, <4>1 DEF TrueYet, NameTaken
    <3> QED  BY <3>1, <3>2
  <2> QED  BY <2>1, <2>2
<1> QED  BY <1>3, <1>4, <1>5 DEF EInv

\* One that writes keeps it if the tables are in order afterwards.
LEMMA Writes ==
  ASSUME EInv, NEW t \in Tasks, Written(t),
         projects' \in Map(Projects, Names), pixels' \in Map(Pixels, Projects),
         sources' \in Map(Sources, Projects \cup Strays \cup {None}),
         used' = used, Live' \cup deleted' \subseteq used, deleted' \subseteq Projects,
         Live \cup deleted \subseteq Live' \cup deleted',
         OwnersKnown',
         ~ raced' => /\ NamesUnique' /\ Live' \cap deleted' = {}
                     /\ \A x \in DOMAIN pixels' : pixels'[x] \in Live'
                     /\ SourcesOwned'
  PROVE  EInv'
<1>1. Shapes
  BY DEF EInv
<1>2. \A u \in Tasks : Knows(tasks[u])'
  <2> TAKE u \in Tasks
  <2>1. Knows(tasks[u])
    BY <1>1 DEF Shapes
  <2>2. CASE tasks'[u] = NoTask
    BY <2>2, NoTaskKnows DEF Knows
  <2>3. CASE tasks'[u] # NoTask
    BY <1>1, <2>1, <2>3, WrittenTasks DEF Knows
  <2> QED  BY <2>2, <2>3
<1>3. Shapes'
  BY <1>1, <1>2, WrittenTasks DEF Shapes
<1>4. \A u \in Tasks : ~ tasks'[u].stale => TrueYet(tasks[u])'
  BY <1>1, WrittenTasks, NoTaskKnows DEF TrueYet
<1>5. UnracedInv'
  BY <1>4 DEF UnracedInv
<1> QED  BY <1>3, <1>5 DEF EInv

-----------------------------------------------------------------------------
(* Each action keeps the invariant.                                        *)

LEMMA Facts ==
  ASSUME EInv
  PROVE  /\ Live \subseteq Projects \cap used /\ deleted \subseteq Projects \cap used /\ None \notin Projects
         /\ \A p \in Live : projects[p] \in Names
         /\ DOMAIN pixels \subseteq Pixels /\ \A x \in DOMAIN pixels : pixels[x] \in Projects
         /\ DOMAIN sources \subseteq Sources
BY MapDomain DEF EInv, Shapes, Live

LEMMA InitHolds == RInit => RollupInv
<1> SUFFICES ASSUME RInit PROVE RollupInv
  OBVIOUS
<1> USE DEF RInit, EInit
<1>1. Shapes
  <2>1. sources \in [Sources -> Projects \cup Strays \cup {None}]
    OBVIOUS
  <2>2. sources \in Map(Sources, Projects \cup Strays \cup {None})
    BY <2>1 DEF Map
  <2>3. tasks \in [Tasks -> Task] /\ \A t \in Tasks : Knows(tasks[t])
    BY NoTaskKnows
  <2>4. Live = {}
    BY EmptyIsMap DEF Live
  <2> QED  BY <2>2, <2>3, <2>4, EmptyIsMap DEF Shapes
<1>2. OwnersKnown
  BY EmptyIsMap DEF OwnersKnown
<1>3. UnracedInv
  <2>1. Live = {} /\ DOMAIN pixels = {}
    BY EmptyIsMap DEF Live
  <2>2. SourcesOwned
    BY DEF SourcesOwned
  <2> QED  BY <2>1, <2>2, NoTaskKnows DEF UnracedInv, NamesUnique
<1>4. ViewInv
  BY DEF ViewInv, NoView, MissingOnlyWithoutProject
<1> QED  BY <1>1, <1>2, <1>3, <1>4 DEF EInv, RollupInv

LEMMA CreateProjectKeeps ==
  ASSUME EInv, NEW t \in Tasks, NEW name \in Names, CreateProject(t, name)
  PROVE  EInv'
<1>1. PICK p \in Projects \ used :
        /\ used' = used \cup {p}
        /\ Becomes(t, [NoTask EXCEPT !.pc = "putProject", !.id = p, !.name = name])
  BY DEF CreateProject
<1> DEFINE k == [NoTask EXCEPT !.pc = "putProject", !.id = p, !.name = name]
<1>2. k \in Task /\ k.pc = "putProject" /\ k.id = p /\ k.name = name
  BY DEF NoTask, Task
<1>3. Becomes(t, k)
  BY <1>1
<1> HIDE DEF k
<1>4. ~ NameTaken(name, p) /\ p \notin deleted
  BY <1>1, Facts DEF CreateProject, NameTaken
<1>5. UNCHANGED <<tables, deleted, astray, raced>>
  BY DEF CreateProject
<1>6. TrueYet(k)
  BY <1>2, <1>4 DEF TrueYet
<1> QED  BY <1>1, <1>2, <1>3, <1>5, <1>6, Reads

LEMMA UpdateProjectKeeps ==
  ASSUME EInv, NEW t \in Tasks, NEW p \in Projects, NEW name \in Names \cup {None}, UpdateProject(t, p, name)
  PROVE  EInv'
<1> DEFINE k == IF name = None
                THEN [NoTask EXCEPT !.pc = "putProject", !.id = p, !.name = projects[p]]
                ELSE [NoTask EXCEPT !.pc = "checkName", !.id = p, !.name = name]
<1>1. p \in Live /\ Becomes(t, k) /\ UNCHANGED <<tables, used, deleted, astray, raced>>
  BY DEF UpdateProject
<1>2. projects[p] \in Names /\ p \in used
  BY <1>1, Facts
<1>3. /\ k \in Task /\ k.id = p /\ k.name \in Names
      /\ \/ k.pc = "putProject" /\ k.name = projects[p]
         \/ k.pc = "checkName"
  BY <1>2 DEF NoTask, Task
<1> HIDE DEF k
<1>4. ~ raced => TrueYet(k)
  BY <1>1, <1>3 DEF TrueYet, NameTaken, EInv, UnracedInv, NamesUnique
<1> QED  BY <1>1, <1>2, <1>3, <1>4, Reads

LEMMA CheckNameKeeps ==
  ASSUME EInv, NEW t \in Tasks, CheckName(t)
  PROVE  EInv'
<1> DEFINE next == [tasks[t] EXCEPT !.pc = "putProject"]
           k == IF NameTaken(tasks[t].name, tasks[t].id) THEN NoTask ELSE next
<1>1. tasks[t] \in Task /\ tasks[t].pc = "checkName" /\ Knows(tasks[t])
  BY DEF CheckName, EInv, Shapes
<1>2. Becomes(t, k) /\ UNCHANGED <<tables, used, deleted, astray, raced>>
  BY DEF CheckName
<1>3. /\ next \in Task /\ next.pc = "putProject" /\ next.id = tasks[t].id
      /\ next.name = tasks[t].name /\ next.stale = tasks[t].stale
  BY <1>1 DEF Task
<1> HIDE DEF next
<1>4. CASE k = NoTask
  BY <1>2, <1>4, NoTaskKnows, Reads
<1>5. CASE k = next /\ ~ NameTaken(tasks[t].name, tasks[t].id)
  <2>1. next.id \in Projects \cap used /\ next.name \in Names
    BY <1>1, <1>3 DEF Knows
  <2>2. ~ raced /\ ~ next.stale => TrueYet(next)
    BY <1>1, <1>3, <1>5 DEF TrueYet, EInv, UnracedInv
  <2> QED  BY <1>2, <1>3, <1>5, <2>1, <2>2, Reads
<1> QED  BY <1>4, <1>5

\* A handler that was not overtaken puts a name no other project has, under an id
\* that was not deleted.
LEMMA PutProjectKeeps ==
  ASSUME EInv, NEW t \in Tasks, PutProject(t)
  PROVE  EInv'
<1> DEFINE p == tasks[t].id
           name == tasks[t].name
<1>1. /\ p \in Projects \cap used /\ name \in Names /\ projects \in Map(Projects, Names)
      /\ tasks[t].pc = "putProject" /\ Shapes
  BY DEF PutProject, EInv, Shapes, Knows
<1>2. /\ projects' = Put(projects, p, name) /\ Written(t)
      /\ UNCHANGED <<pixels, sources, used, deleted, astray>>
  BY DEF PutProject
<1>3. /\ projects' \in Map(Projects, Names) /\ Live' = Live \cup {p}
      /\ projects'[p] = name /\ \A q \in Live \ {p} : projects'[q] = projects[q]
  <2>1. projects \in Map(Projects, Names) /\ p \in Projects /\ name \in Names
        /\ projects' = Put(projects, p, name)
    BY <1>1, <1>2
  <2> HIDE DEF p, name
  <2>2. projects' \in Map(Projects, Names)
    BY <2>1, PutMap
  <2> QED  BY <2>1, <2>2 DEF Live, Put
<1>4. /\ Live' \cup deleted' \subseteq used /\ deleted' \subseteq Projects
      /\ Live \cup deleted \subseteq Live' \cup deleted'
  BY <1>1, <1>2, <1>3, Facts
<1>5. OwnersKnown'
  BY <1>2, <1>4 DEF EInv, OwnersKnown
<1>6. ASSUME ~ raced'
      PROVE  /\ NamesUnique' /\ Live' \cap deleted' = {}
             /\ \A x \in DOMAIN pixels' : pixels'[x] \in Live'
             /\ SourcesOwned'
  <2>1. ~ raced /\ ~ tasks[t].stale
    BY <1>1, <1>2, <1>6, WrittenTasks
  <2>2. TrueYet(tasks[t]) /\ NamesUnique /\ Live \cap deleted = {} /\ SourcesOwned
        /\ \A x \in DOMAIN pixels : pixels[x] \in Live
    BY <2>1 DEF EInv, UnracedInv
  <2>3. p \notin deleted /\ \A q \in Live \ {p} : Fold(projects[q]) # Fold(name)
    BY <1>1, <2>2 DEF TrueYet, NameTaken
  <2>4. NamesUnique'
    BY <1>3, <2>2, <2>3 DEF NamesUnique
  <2>5. SourcesOwned'
    BY <1>2, <1>3, <2>2 DEF SourcesOwned
  <2> QED  BY <1>2, <1>3, <2>2, <2>3, <2>4, <2>5
<1>7. sources' \in Map(Sources, Projects \cup Strays \cup {None}) /\ pixels' \in Map(Pixels, Projects)
  BY <1>1, <1>2 DEF Shapes
<1> QED  BY <1>2, <1>3, <1>4, <1>5, <1>6, <1>7, Writes

\* The cascade leaves nothing that belongs to the project.
LEMMA DeleteProjectKeeps ==
  ASSUME EInv, NEW t \in Tasks, NEW p \in Projects, DeleteProject(t, p)
  PROVE  EInv'
<1> DEFINE gone == {x \in DOMAIN pixels : pixels[x] = p}
<1>1. Shapes /\ p \in Live /\ Written(t) /\ deleted' = deleted \cup {p} /\ used' = used /\ astray' = astray
  BY DEF DeleteProject, EInv
<1>2. /\ projects' \in Map(Projects, Names) /\ Live' = Live \ {p}
      /\ \A q \in Live \ {p} : projects'[q] = projects[q]
  <2>1. projects \in Map(Projects, Names) /\ projects' = Drop(projects, {p})
    BY <1>1 DEF DeleteProject, Shapes
  <2>2. projects' \in Map(Projects, Names)
    BY <2>1, DropMap
  <2> QED  BY <2>1, <2>2 DEF Live, Drop
<1>3. pixels \in Map(Pixels, Projects) /\ pixels' = Drop(pixels, gone)
  BY <1>1 DEF DeleteProject, Shapes
<1>4. /\ pixels' \in Map(Pixels, Projects) /\ DOMAIN pixels' = DOMAIN pixels \ gone
      /\ \A x \in DOMAIN pixels : x \notin gone => pixels'[x] = pixels[x]
  <2> HIDE DEF gone
  <2>1. pixels' \in Map(Pixels, Projects)
    BY <1>3, DropMap
  <2> QED  BY <1>3, <2>1 DEF Drop
<1>5. sources' = [s \in DOMAIN sources |-> IF sources[s] = p THEN None ELSE sources[s]]
  BY DEF DeleteProject
<1>6. sources' \in Map(Sources, Projects \cup Strays \cup {None})
  <2>1. sources' \in [DOMAIN sources -> Projects \cup Strays \cup {None}] /\ DOMAIN sources \in SUBSET Sources
    BY <1>1, <1>5, MapDomain DEF Shapes
  <2> QED  BY <2>1 DEF Map
<1>7. /\ Live' \cup deleted' \subseteq used /\ deleted' \subseteq Projects
      /\ Live \cup deleted \subseteq Live' \cup deleted'
  BY <1>1, <1>2, Facts
<1>8. OwnersKnown'
  <2>1. \A x \in DOMAIN pixels' : pixels'[x] \in Live' \cup deleted'
    BY <1>4, <1>7 DEF EInv, OwnersKnown
  <2>2. \A s \in DOMAIN sources' \ astray' : sources'[s] \in Live' \cup deleted' \cup {None}
    BY <1>1, <1>5, <1>7 DEF EInv, OwnersKnown
  <2> QED  BY <2>1, <2>2 DEF OwnersKnown
<1>9. ASSUME ~ raced'
      PROVE  /\ NamesUnique' /\ Live' \cap deleted' = {}
             /\ \A x \in DOMAIN pixels' : pixels'[x] \in Live'
             /\ SourcesOwned'
  <2>1. ~ raced
    BY <1>1, <1>9, WrittenTasks
  <2>2. NamesUnique /\ Live \cap deleted = {} /\ SourcesOwned
        /\ \A x \in DOMAIN pixels : pixels[x] \in Live
    BY <2>1 DEF EInv, UnracedInv
  <2>3. NamesUnique'
    BY <1>2, <2>2 DEF NamesUnique
  <2>4. SourcesOwned'
    BY <1>1, <1>2, <1>5, <2>2 DEF SourcesOwned
  <2> QED  BY <1>1, <1>2, <1>4, <2>2, <2>3, <2>4
<1> QED  BY <1>1, <1>2, <1>4, <1>6, <1>7, <1>8, <1>9, Writes

LEMMA CreatePixelKeeps ==
  ASSUME EInv, NEW t \in Tasks, NEW p \in Projects, CreatePixel(t, p)
  PROVE  EInv'
<1>1. PICK x \in Pixels \ used :
        /\ used' = used \cup {x}
        /\ Becomes(t, [NoTask EXCEPT !.pc = "putPixel", !.id = x, !.project = p])
  BY DEF CreatePixel
<1> DEFINE k == [NoTask EXCEPT !.pc = "putPixel", !.id = x, !.project = p]
<1>2. k \in Task /\ k.pc = "putPixel" /\ k.id = x /\ k.project = p
  BY DEF NoTask, Task
<1>3. Becomes(t, k)
  BY <1>1
<1> HIDE DEF k
<1>4. p \in Live /\ UNCHANGED <<tables, deleted, astray, raced>>
  BY DEF CreatePixel
<1>5. TrueYet(k)
  BY <1>2, <1>4 DEF TrueYet
<1> QED  BY <1>1, <1>2, <1>3, <1>4, <1>5, Reads

LEMMA UpdatePixelKeeps ==
  ASSUME EInv, NEW t \in Tasks, NEW x \in Pixels, UpdatePixel(t, x)
  PROVE  EInv'
<1> DEFINE k == [NoTask EXCEPT !.pc = "putPixel", !.id = x, !.project = pixels[x]]
<1>1. x \in DOMAIN pixels /\ Becomes(t, k) /\ UNCHANGED <<tables, used, deleted, astray, raced>>
  BY DEF UpdatePixel
<1>2. pixels[x] \in Projects /\ pixels[x] \in Live \cup deleted
  BY <1>1, Facts DEF EInv, OwnersKnown
<1>3. k \in Task /\ k.pc = "putPixel" /\ k.id = x /\ k.project = pixels[x]
  BY <1>2 DEF NoTask, Task
<1> HIDE DEF k
<1>4. ~ raced => TrueYet(k)
  BY <1>1, <1>3 DEF TrueYet, EInv, UnracedInv
<1> QED  BY <1>1, <1>2, <1>3, <1>4, Reads

LEMMA PutPixelKeeps ==
  ASSUME EInv, NEW t \in Tasks, PutPixel(t)
  PROVE  EInv'
<1> DEFINE x == tasks[t].id
           p == tasks[t].project
<1>1. /\ x \in Pixels /\ p \in Live \cup deleted /\ pixels \in Map(Pixels, Projects)
      /\ tasks[t].pc = "putPixel" /\ Shapes /\ p \in Projects
  BY Facts DEF PutPixel, EInv, Shapes, Knows
<1>2. /\ pixels' = Put(pixels, x, p) /\ Written(t)
      /\ UNCHANGED <<projects, sources, used, deleted, astray, Live>>
  BY DEF PutPixel, Live
<1>3. /\ pixels' \in Map(Pixels, Projects) /\ DOMAIN pixels' = DOMAIN pixels \cup {x}
      /\ pixels'[x] = p /\ \A y \in DOMAIN pixels : y # x => pixels'[y] = pixels[y]
  <2>1. pixels \in Map(Pixels, Projects) /\ x \in Pixels /\ p \in Projects
        /\ pixels' = Put(pixels, x, p)
    BY <1>1, <1>2
  <2> HIDE DEF x, p
  <2>2. pixels' \in Map(Pixels, Projects)
    BY <2>1, PutMap
  <2> QED  BY <2>1, <2>2 DEF Put
<1>4. OwnersKnown'
  BY <1>1, <1>2, <1>3 DEF EInv, OwnersKnown
<1>5. ASSUME ~ raced'
      PROVE  /\ NamesUnique' /\ Live' \cap deleted' = {}
             /\ \A y \in DOMAIN pixels' : pixels'[y] \in Live'
             /\ SourcesOwned'
  <2>1. ~ raced /\ ~ tasks[t].stale
    BY <1>1, <1>2, <1>5, WrittenTasks
  <2>2. TrueYet(tasks[t]) /\ NamesUnique /\ Live \cap deleted = {} /\ SourcesOwned
        /\ \A y \in DOMAIN pixels : pixels[y] \in Live
    BY <2>1 DEF EInv, UnracedInv
  <2>3. p \in Live
    BY <1>1, <2>2 DEF TrueYet
  <2>4. NamesUnique'
    BY <1>2, <2>2 DEF NamesUnique
  <2>5. SourcesOwned'
    BY <1>2, <2>2 DEF SourcesOwned
  <2> QED  BY <1>2, <1>3, <2>2, <2>3, <2>4, <2>5
<1>6. /\ projects' \in Map(Projects, Names) /\ sources' \in Map(Sources, Projects \cup Strays \cup {None})
      /\ Live' \cup deleted' \subseteq used /\ deleted' \subseteq Projects
      /\ Live \cup deleted \subseteq Live' \cup deleted'
  BY <1>1, <1>2 DEF Shapes
<1> QED  BY <1>2, <1>3, <1>4, <1>5, <1>6, Writes

LEMMA DeletePixelKeeps ==
  ASSUME EInv, NEW t \in Tasks, NEW x \in Pixels, DeletePixel(t, x)
  PROVE  EInv'
<1>1. /\ pixels' = Drop(pixels, {x}) /\ Written(t) /\ Shapes
      /\ UNCHANGED <<projects, sources, used, deleted, astray, Live>>
  BY DEF DeletePixel, Live, EInv
<1>2. /\ pixels' \in Map(Pixels, Projects) /\ DOMAIN pixels' = DOMAIN pixels \ {x}
      /\ \A y \in DOMAIN pixels : y \notin {x} => pixels'[y] = pixels[y]
  <2>1. pixels \in Map(Pixels, Projects)
    BY <1>1 DEF Shapes
  <2>2. pixels' \in Map(Pixels, Projects)
    BY <1>1, <2>1, DropMap
  <2> QED  BY <1>1, <2>2 DEF Drop
<1>3. OwnersKnown'
  BY <1>1, <1>2 DEF EInv, OwnersKnown
<1>4. ASSUME ~ raced'
      PROVE  /\ NamesUnique' /\ Live' \cap deleted' = {}
             /\ \A y \in DOMAIN pixels' : pixels'[y] \in Live'
             /\ SourcesOwned'
  <2>1. ~ raced
    BY <1>1, <1>4, WrittenTasks
  <2>2. NamesUnique /\ Live \cap deleted = {} /\ SourcesOwned
        /\ \A y \in DOMAIN pixels : pixels[y] \in Live
    BY <2>1 DEF EInv, UnracedInv
  <2>3. NamesUnique'
    BY <1>1, <2>2 DEF NamesUnique
  <2>4. SourcesOwned'
    BY <1>1, <2>2 DEF SourcesOwned
  <2> QED  BY <1>1, <1>2, <2>2, <2>3, <2>4
<1>5. /\ projects' \in Map(Projects, Names) /\ sources' \in Map(Sources, Projects \cup Strays \cup {None})
      /\ Live' \cup deleted' \subseteq used /\ deleted' \subseteq Projects
      /\ Live \cup deleted \subseteq Live' \cup deleted'
  BY <1>1 DEF Shapes
<1> QED  BY <1>1, <1>2, <1>3, <1>4, <1>5, Writes

\* What is written to the sources alone is not read by any other handler.
LEMMA SourcesChange ==
  ASSUME EInv, UNCHANGED <<projects, pixels, used, tasks, deleted, raced>>,
         sources' \in Map(Sources, Projects \cup Strays \cup {None}),
         \A s \in DOMAIN sources' \ astray' :
           \/ sources'[s] \in Live \cup {None}
           \/ s \in DOMAIN sources \ astray /\ sources'[s] = sources[s]
  PROVE  EInv'
<1>1. Live' = Live
  BY DEF Live
<1>2. Shapes'
  <2>1. \A u \in Tasks : Knows(tasks[u])'
    BY <1>1 DEF EInv, Shapes, Knows
  <2> QED  BY <1>1, <2>1 DEF EInv, Shapes
<1>3. OwnersKnown'
  BY <1>1 DEF EInv, OwnersKnown
<1>4. UnracedInv'
  BY <1>1 DEF EInv, UnracedInv, NamesUnique, TrueYet, NameTaken, SourcesOwned
<1> QED  BY <1>2, <1>3, <1>4 DEF EInv

LEMMA SourcesKeep ==
  ASSUME EInv, NEW s \in Sources,
         \/ \E t \in Tasks : \/ DeleteSource(t, s)
                            \/ \E p \in Live \cup deleted \cup Strays \cup {None} : UpdateSource(t, s, p)
         \/ RegisterSource(s)
  PROVE  EInv'
<1> DEFINE T == Projects \cup Strays \cup {None}
<1>1. sources \in Map(Sources, T)
  BY DEF EInv, Shapes
<1>2. UNCHANGED <<projects, pixels, used, tasks, deleted, raced>>
  BY DEF DeleteSource, UpdateSource, RegisterSource
<1>3. ASSUME NEW p \in Live \cup deleted \cup Strays \cup {None}, s \in DOMAIN sources,
             sources' = [sources EXCEPT ![s] = p],
             astray' = IF p \in Live \cup {None} THEN astray \ {s} ELSE astray \cup {s}
      PROVE  EInv'
  <2>1. p \in T
    BY Facts
  <2>2. sources' \in [DOMAIN sources -> T] /\ DOMAIN sources \in SUBSET Sources
    BY <1>1, <1>3, <2>1, MapDomain DEF Map
  <2>3. sources' \in Map(Sources, T)
    BY <2>2 DEF Map
  <2>4. ASSUME NEW u \in DOMAIN sources' \ astray'
        PROVE  \/ sources'[u] \in Live \cup {None}
               \/ u \in DOMAIN sources \ astray /\ sources'[u] = sources[u]
    <3>1. CASE u = s
      BY <1>3, <2>2, <2>4, <3>1
    <3>2. CASE u # s
      BY <1>3, <2>2, <2>4, <3>2
    <3> QED  BY <3>1, <3>2
  <2> QED  BY <1>2, <2>3, <2>4, SourcesChange
<1>4. ASSUME sources' = Drop(sources, {s}), astray' = astray \ {s} PROVE EInv'
  <2>1. sources' \in Map(Sources, T)
    BY <1>1, <1>4, DropMap
  <2>2. \A u \in DOMAIN sources' \ astray' : u \in DOMAIN sources \ astray /\ sources'[u] = sources[u]
    BY <1>4 DEF Drop
  <2> QED  BY <1>2, <2>1, <2>2, SourcesChange
<1>5. ASSUME sources' = Put(sources, s, None), astray' = astray PROVE EInv'
  <2>1. None \in T
    OBVIOUS
  <2>2. sources' \in Map(Sources, T)
    BY <1>1, <1>5, <2>1, PutMap
  <2>3. ASSUME NEW u \in DOMAIN sources' \ astray'
        PROVE  sources'[u] \in {None} \/ (u \in DOMAIN sources \ astray /\ sources'[u] = sources[u])
    BY <1>5, <2>3 DEF Put
  <2> QED  BY <1>2, <2>2, <2>3, SourcesChange
<1> QED  BY <1>3, <1>4, <1>5 DEF DeleteSource, UpdateSource, RegisterSource

LEMMA StutterKeeps ==
  ASSUME EInv, UNCHANGED evars
  PROVE  EInv'
<1>1. UNCHANGED <<projects, pixels, used, tasks, deleted, astray, raced, sources>>
  BY DEF evars, tables
<1> QED  BY <1>1, SourcesChange DEF EInv, Shapes

LEMMA EntitiesStep ==
  ASSUME EInv, [ENext]_evars
  PROVE  EInv'
<1>1. ASSUME NEW t \in Tasks, Admin(t) PROVE EInv'
  BY <1>1, CreateProjectKeeps, UpdateProjectKeeps, CheckNameKeeps, PutProjectKeeps, DeleteProjectKeeps,
     CreatePixelKeeps, UpdatePixelKeeps, PutPixelKeeps, DeletePixelKeeps, SourcesKeep
  DEF Admin
<1> QED  BY <1>1, SourcesKeep, StutterKeeps DEF ENext

-----------------------------------------------------------------------------
(* The rollup.                                                             *)

\* What was deleted is remembered, no project is forgotten, and a race stays one.
LEMMA ProjectsAreKnown ==
  ASSUME EInv, [ENext]_evars
  PROVE  deleted \subseteq deleted' /\ Live \subseteq Live' \cup deleted' /\ (raced => raced')
<1> DEFINE Known == deleted \subseteq deleted' /\ Live \subseteq Live' \cup deleted' /\ (raced => raced')
<1>1. CASE UNCHANGED <<projects, deleted, raced>>
  BY <1>1 DEF Live
<1>2. ASSUME NEW t \in Tasks, PutProject(t)
      PROVE  Known
  BY <1>2 DEF PutProject, Live, Put, Written
<1>3. ASSUME NEW t \in Tasks, NEW p \in Projects, DeleteProject(t, p)
      PROVE  Known
  BY <1>3 DEF DeleteProject, Live, Drop, Written
<1>4. ASSUME NEW t \in Tasks, PutPixel(t) \/ \E x \in Pixels : DeletePixel(t, x)
      PROVE  Known
  BY <1>4 DEF PutPixel, DeletePixel, Live, Written
<1>5. \/ UNCHANGED <<projects, deleted, raced>>
      \/ \E t \in Tasks : PutProject(t) \/ PutPixel(t)
      \/ \E t \in Tasks, p \in Projects : DeleteProject(t, p)
      \/ \E t \in Tasks, x \in Pixels : DeletePixel(t, x)
  BY DEF ENext, Admin, CreateProject, UpdateProject, CheckName, CreatePixel, UpdatePixel,
    DeleteSource, UpdateSource, RegisterSource, evars, tables
<1> QED  BY <1>1, <1>2, <1>3, <1>4, <1>5

LEMMA ViewStays ==
  ASSUME RollupInv, [ENext]_evars, UNCHANGED view
  PROVE  ViewInv'
BY ProjectsAreKnown DEF RollupInv, ViewInv, MissingOnlyWithoutProject

LEMMA RollupSteps ==
  ASSUME RollupInv, RollupStep
  PROVE  RollupInv'
<1>1. UNCHANGED evars /\ EInv'
  BY StutterKeeps DEF RollupStep, RollupSources, RollupPixels, RollupProjects, RollupInv
<1>2. UNCHANGED <<projects, pixels, used, deleted, astray, raced, sources, Live>>
  BY <1>1 DEF evars, tables, Live
<1>3. CASE RollupSources
  <2> DEFINE o == Drop(sources, {s \in DOMAIN sources : sources[s] = None})
  <2>1. view'.pc = "pixels" /\ view'.owners = o /\ view'.astray = astray /\ view'.before = deleted
    BY <1>3 DEF RollupSources, NoView
  <2>2. ASSUME NEW r \in DOMAIN o, r \notin astray
        PROVE  o[r] \in Live \cup deleted /\ (raced \/ o[r] \notin deleted)
    <3>1. r \in DOMAIN sources /\ o[r] = sources[r] /\ sources[r] # None
      BY DEF Drop
    <3>2. sources[r] \in Live \cup deleted
      BY <2>2, <3>1 DEF RollupInv, EInv, OwnersKnown
    <3>3. ~ raced => sources[r] \in Live /\ Live \cap deleted = {}
      BY <2>2, <3>1 DEF RollupInv, EInv, UnracedInv, SourcesOwned
    <3> QED  BY <3>1, <3>2, <3>3
  <2> QED  BY <1>1, <1>2, <2>1, <2>2 DEF RollupInv, ViewInv, MissingOnlyWithoutProject
<1>4. CASE RollupPixels
  <2> DEFINE o == [r \in DOMAIN view.owners \cup DOMAIN pixels |->
                     IF r \in DOMAIN pixels THEN pixels[r] ELSE view.owners[r]]
  <2>1. view'.pc = "projects" /\ view'.owners = o /\ view'.astray = view.astray /\ view'.before = view.before
    BY <1>4 DEF RollupPixels
  <2>2. \A x \in DOMAIN pixels :
          pixels[x] \in Live \cup deleted /\ (raced \/ pixels[x] \notin view.before)
    BY DEF RollupInv, EInv, OwnersKnown, UnracedInv, ViewInv
  <2>3. \A r \in DOMAIN o :
          r \in view.astray \/ (o[r] \in Live \cup deleted /\ (raced \/ o[r] \notin view.before))
    BY <1>4, <2>2 DEF RollupPixels, RollupInv, ViewInv
  <2> QED  BY <1>1, <1>2, <2>1, <2>3 DEF RollupInv, ViewInv, MissingOnlyWithoutProject
<1>5. CASE RollupProjects
  <2>1. /\ view'.pc = "done" /\ view'.owners = view.owners
        /\ view'.astray = view.astray /\ view'.before = view.before
        /\ view'.missing = {r \in Rows \cap DOMAIN view.owners : view.owners[r] \notin Live}
    BY <1>5 DEF RollupProjects
  <2>2. \A r \in view'.missing :
          r \in view.astray \/ (view.owners[r] \in deleted /\ (raced \/ view.owners[r] \notin view.before))
    BY <1>5, <2>1 DEF RollupProjects, RollupInv, ViewInv
  <2> QED  BY <1>1, <1>2, <2>1, <2>2 DEF RollupInv, ViewInv, MissingOnlyWithoutProject
<1> QED  BY <1>3, <1>4, <1>5 DEF RollupStep

-----------------------------------------------------------------------------

\* The invariant holds of every behaviour of the admin API (web/api/projects.rs,
\* pixels.rs, sources.rs) with a rollup that reads its tables meanwhile.
THEOREM EntitiesInductive == RSpec => []RollupInv
<1>1. RollupInv /\ [RollupStep \/ (ENext /\ UNCHANGED view)]_<<evars, view>> => RollupInv'
  <2> SUFFICES ASSUME RollupInv, [RollupStep \/ (ENext /\ UNCHANGED view)]_<<evars, view>> PROVE RollupInv'
    OBVIOUS
  <2>1. CASE RollupStep
    BY <2>1, RollupSteps
  <2>2. CASE [ENext]_evars /\ UNCHANGED view
    BY <2>2, EntitiesStep, ViewStays DEF RollupInv
  <2> QED  BY <2>1, <2>2
<1> QED  BY InitHolds, <1>1, PTL DEF RSpec

\* No two projects have a name, whatever its case (name_taken), as long as no
\* handler wrote on what another had changed meanwhile.
THEOREM NamesStayUnique == RSpec => []NamesUniqueUnlessRaced
<1>1. RollupInv => NamesUniqueUnlessRaced
  BY DEF RollupInv, EInv, UnracedInv, NamesUniqueUnlessRaced
<1> QED  BY EntitiesInductive, <1>1, PTL

\* What was deleted stays deleted, and no pixel belongs to it and no source that was
\* not assigned to it afterwards (delete_project), under the same condition.
THEOREM DeletedProjectsAreWhole == RSpec => []DeletedWholeUnlessRaced
<1>1. RollupInv => DeletedWholeUnlessRaced
  BY DEF RollupInv, EInv, UnracedInv, DeletedWholeUnlessRaced
<1> QED  BY EntitiesInductive, <1>1, PTL

\* A rollup shows every row of traffic whose source is assigned to a project that is
\* there, or to none, unless that project is deleted while it reads its three
\* tables or handlers overlapped (project_rollup, mutate_source).
THEOREM RollupShowsAll == RSpec => []MissingOnlyWithoutProject
<1>1. RollupInv => MissingOnlyWithoutProject
  BY DEF RollupInv, ViewInv
<1> QED  BY EntitiesInductive, <1>1, PTL

=============================================================================
