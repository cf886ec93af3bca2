---------------------------- MODULE IngestProofs ----------------------------
(***************************************************************************)
(* What Ingest.tla checks on small instances, proved for any queue, batch  *)
(* size and ceiling, and any number of events, sources and failures: the   *)
(* order of the events, the ceiling of the registered sources, and that a  *)
(* registration overwrites nothing.                                        *)
(***************************************************************************)
EXTENDS Ingest, FiniteSetTheorems, NaturalsInduction, SequenceTheorems, TLAPS

USE IngestAssumption

-----------------------------------------------------------------------------
(* The inductive invariant.                                                *)

Increasing(s) == \A i, j \in DOMAIN s : i < j => s[i].id < s[j].id
Before(s, t) == \A a \in Ids(s), b \in Ids(t) : a < b
SourcesOf(b) == {b[i].source : i \in DOMAIN b}

\* The batch that is taken but not stored.
Taken == IF wpc = "append" THEN flight ELSE <<>>

\* The four places an accepted event passes through, in order, and those that
\* left them: no number is at two places.
OrderInv ==
  /\ Increasing(stored) /\ Increasing(Taken) /\ Increasing(batch) /\ Increasing(queue)
  /\ Before(stored, Taken) /\ Before(stored, batch) /\ Before(stored, queue)
  /\ Before(Taken, batch) /\ Before(Taken, queue) /\ Before(batch, queue)
  /\ \A a \in Ids(stored) \cup Ids(Taken) \cup Ids(batch) \cup Ids(queue) \cup lost : a <= submitted
  /\ lost \cap (Ids(stored) \cup Ids(Taken) \cup Ids(batch) \cup Ids(queue)) = {}

Flushing == wpc \in {"append", "register", "insert"}

\* What is being registered is of the batch in flight, the first of it next, and
\* once it was looked up and found absent it stays so until it is inserted: only
\* the writer inserts.
RegisterInv ==
  /\ ~ Flushing => fresh = {} /\ todo = {}
  /\ fresh \subseteq SourcesOf(flight)
  /\ wpc = "insert" => \A s \in Earliest(todo) : table[s] = "absent"

\* The writer has not read the sources there are.
Unseeded == wpc \in {"exited", "seed"}

\* The sources there are were there when the process started, or it registered
\* them; what it has seen and is about to register is within the ceiling.
CapInv ==
  /\ IsFiniteSet(known \cup fresh) /\ IsFiniteSet(Registered)
  /\ ~ missed /\ Unseeded => Cardinality(Registered) <= MaxSources
  /\ ~ missed /\ ~ Unseeded =>
       /\ Registered \subseteq known \cup (IF wpc \in {"register", "insert"} THEN fresh ELSE {})
       /\ Cardinality(known \cup fresh) <= MaxSources

IInv == TypeOK /\ OrderInv /\ RegisterInv /\ CapInv

-----------------------------------------------------------------------------
(* Sequences of events.                                                    *)

LEMMA NoEvents == Ids(<<>>) = {} /\ Increasing(<<>>) /\ <<>> \in Seq(Event)
BY DEF Ids, Increasing

LEMMA IdsAreNumbers ==
  ASSUME NEW s \in Seq(Event)
  PROVE  Ids(s) \subseteq Nat
<1>1. \A i \in DOMAIN s : s[i] \in Event
  BY LenProperties, ElementOfSeq
<1> QED  BY <1>1 DEF Ids, Event

\* A sequence is in order if both its parts are and one is before the other.
LEMMA ConcatOrder ==
  ASSUME NEW s \in Seq(Event), NEW t \in Seq(Event)
  PROVE  /\ s \o t \in Seq(Event)
         /\ Ids(s \o t) = Ids(s) \cup Ids(t)
         /\ Increasing(s) /\ Increasing(t) /\ Before(s, t) => Increasing(s \o t)
<1> DEFINE c == s \o t
<1>1. /\ c \in Seq(Event) /\ Len(c) = Len(s) + Len(t)
      /\ \A i \in 1..Len(c) : c[i] = IF i <= Len(s) THEN s[i] ELSE t[i - Len(s)]
  BY ConcatProperties
<1>2. Len(s) \in Nat /\ Len(t) \in Nat /\ DOMAIN s = 1..Len(s) /\ DOMAIN t = 1..Len(t) /\ DOMAIN c = 1..Len(c)
  BY <1>1, LenProperties
<1> HIDE DEF c
<1>3. \A i \in DOMAIN s : i \in DOMAIN c /\ c[i] = s[i]
  BY <1>1, <1>2
<1>4. \A i \in DOMAIN t : i + Len(s) \in DOMAIN c /\ c[i + Len(s)] = t[i]
  BY <1>1, <1>2
<1>5. \A i \in DOMAIN c : \/ i \in DOMAIN s /\ c[i] = s[i]
                          \/ i - Len(s) \in DOMAIN t /\ c[i] = t[i - Len(s)]
  BY <1>1, <1>2
<1>6. Ids(c) = Ids(s) \cup Ids(t)
  BY <1>3, <1>4, <1>5 DEF Ids
<1>7. ASSUME Increasing(s), Increasing(t), Before(s, t), NEW i \in DOMAIN c, NEW j \in DOMAIN c, i < j
      PROVE  c[i].id < c[j].id
  <2>1. CASE i <= Len(s) /\ j <= Len(s)
    BY <1>1, <1>2, <1>7, <2>1 DEF Increasing
  <2>2. CASE i <= Len(s) /\ ~ (j <= Len(s))
    <3>1. i \in DOMAIN s /\ c[i] = s[i] /\ j - Len(s) \in DOMAIN t /\ c[j] = t[j - Len(s)]
      BY <1>1, <1>2, <1>7, <2>2
    <3>2. c[i].id \in Ids(s) /\ c[j].id \in Ids(t)
      BY <3>1 DEF Ids
    <3> QED  BY <1>7, <3>2 DEF Before
  <2>3. CASE ~ (i <= Len(s))
    <3>1. i - Len(s) \in DOMAIN t /\ j - Len(s) \in DOMAIN t /\ i - Len(s) < j - Len(s)
          /\ c[i] = t[i - Len(s)] /\ c[j] = t[j - Len(s)]
      BY <1>1, <1>2, <1>7, <2>3
    <3> QED  BY <1>7, <3>1 DEF Increasing
  <2> QED  BY <1>2, <2>1, <2>2, <2>3
<1> QED  BY <1>1, <1>6, <1>7 DEF c, Increasing

\* An event at the end of those before it.
LEMMA AppendOrder ==
  ASSUME NEW s \in Seq(Event), NEW e \in Event
  PROVE  /\ Append(s, e) \in Seq(Event) /\ Append(s, e) # <<>>
         /\ Ids(Append(s, e)) = Ids(s) \cup {e.id}
         /\ Increasing(s) /\ (\A a \in Ids(s) : a < e.id) => Increasing(Append(s, e))
<1> DEFINE t == <<e>>
<1>1. t \in Seq(Event) /\ Ids(t) = {e.id} /\ Increasing(t)
  BY DEF Ids, Increasing
<1>2. Append(s, e) = s \o t
  BY AppendIsConcat
<1>3. Append(s, e) # <<>>
  BY AppendProperties
<1> HIDE DEF t
<1> QED  BY <1>1, <1>2, <1>3, ConcatOrder DEF Before

\* The head is before the rest.
LEMMA TailOrder ==
  ASSUME NEW s \in Seq(Event), s # <<>>
  PROVE  /\ Tail(s) \in Seq(Event) /\ Head(s) \in Event
         /\ Ids(s) = {Head(s).id} \cup Ids(Tail(s))
         /\ Increasing(s) => Increasing(Tail(s)) /\ \A a \in Ids(Tail(s)) : Head(s).id < a
<1> DEFINE t == Tail(s)
<1>1. /\ t \in Seq(Event) /\ Head(s) \in Event /\ Head(s) = s[1] /\ Len(t) = Len(s) - 1
      /\ \A i \in 1..Len(t) : t[i] = s[i + 1]
  BY HeadTailProperties
<1>2. Len(s) \in Nat \ {0} /\ DOMAIN s = 1..Len(s) /\ DOMAIN t = 1..(Len(s) - 1)
  BY <1>1, LenProperties, EmptySeq
<1> HIDE DEF t
<1>3. \A i \in DOMAIN t : i + 1 \in DOMAIN s /\ t[i] = s[i + 1]
  BY <1>1, <1>2
<1>4. \A i \in DOMAIN s : i = 1 \/ (i - 1 \in DOMAIN t /\ t[i - 1] = s[i])
  BY <1>1, <1>2
<1>5. Ids(s) = {s[1].id} \cup Ids(t)
  BY <1>2, <1>3, <1>4 DEF Ids
<1>6. ASSUME Increasing(s), NEW i \in DOMAIN t, NEW j \in DOMAIN t, i < j
      PROVE  t[i].id < t[j].id
  BY <1>2, <1>3, <1>6 DEF Increasing
<1>7. ASSUME Increasing(s), NEW a \in Ids(t)
      PROVE  s[1].id < a
  <2>1. PICK i \in DOMAIN t : a = t[i].id
    BY <1>7 DEF Ids
  <2> QED  BY <1>2, <1>3, <1>7, <2>1 DEF Increasing
<1> QED  BY <1>1, <1>5, <1>6, <1>7 DEF t, Increasing

-----------------------------------------------------------------------------
(* The sources of a batch.                                                 *)

\* A set of numbers has a lowest element.
LEMMA LowestNumber ==
  ASSUME NEW S \in SUBSET Nat, S # {}
  PROVE  \E x \in S : \A y \in S : x <= y
<1> DEFINE Less == {p \in Nat \X Nat : p[1] < p[2]}
<1>1. OpToRel(<, Nat) = Less
  BY Zenon DEF OpToRel
<1>2. IsWellFoundedOn(Less, Nat)
  BY <1>1, NatLessThanWellFounded, Zenon
<1>3. PICK x \in S : \A y \in S : ~ (<<y, x>> \in Less)
  BY <1>2, WFMin
<1>4. \A y \in S : ~ (y < x)
  BY <1>3
<1>5. \A y \in S : x <= y
  BY <1>4
<1> QED  BY <1>5

\* The sources of a batch are finitely many sources, each with a place where it
\* first occurs and which no other source has.
LEMMA FirstOccurrence ==
  ASSUME NEW b \in Seq(Event)
  PROVE  /\ SourcesOf(b) \subseteq Sources /\ IsFiniteSet(SourcesOf(b))
         /\ \A s \in SourcesOf(b) : FirstAt(b, s) \in 1..Len(b) /\ b[FirstAt(b, s)].source = s
         /\ \A s, u \in SourcesOf(b) : s # u => FirstAt(b, s) # FirstAt(b, u)
<1>1. DOMAIN b = 1..Len(b) /\ Len(b) \in Nat /\ \A i \in DOMAIN b : b[i] \in Event
  BY LenProperties, ElementOfSeq
<1>2. SourcesOf(b) \subseteq Sources
  BY <1>1 DEF SourcesOf, Event
<1>3. IsFiniteSet(SourcesOf(b))
  <2> DEFINE f == [i \in 1..Len(b) |-> b[i].source]
  <2>1. f \in Surjection(1..Len(b), SourcesOf(b))
    BY <1>1 DEF Surjection, SourcesOf
  <2>2. IsFiniteSet(1..Len(b))
    BY <1>1, FS_Interval
  <2> QED  BY <2>1, <2>2, FS_Surjection
<1>4. ASSUME NEW s \in SourcesOf(b)
      PROVE  FirstAt(b, s) \in 1..Len(b) /\ b[FirstAt(b, s)].source = s
  <2> DEFINE at == {i \in DOMAIN b : b[i].source = s}
  <2>1. at # {} /\ at \subseteq Nat
    BY <1>1 DEF SourcesOf
  <2>2. \E i \in DOMAIN b : b[i].source = s /\ \A j \in DOMAIN b : b[j].source = s => i <= j
    BY <2>1, LowestNumber
  <2> QED  BY <1>1, <2>2 DEF FirstAt
<1> QED  BY <1>2, <1>3, <1>4

\* The sources a flush registers are of its batch, unseen, and together with those
\* it has seen they are within the ceiling.
LEMMA NewSourcesWithinCap ==
  ASSUME NEW b \in Seq(Event), IsFiniteSet(known)
  PROVE  /\ NewSources(b) \subseteq SourcesOf(b)
         /\ IsFiniteSet(known \cup NewSources(b))
         /\ Cardinality(known) <= MaxSources => Cardinality(known \cup NewSources(b)) <= MaxSources
<1> DEFINE unknown == SourcesOf(b) \ known
           n == NewSources(b)
           before(s) == {u \in unknown : FirstAt(b, u) < FirstAt(b, s)}
<1>1. n = {s \in unknown : Cardinality(known) + Cardinality(before(s)) < MaxSources}
  BY DEF NewSources, SourcesOf
<1>2. IsFiniteSet(unknown) /\ IsFiniteSet(n) /\ n \subseteq unknown
  BY <1>1, FirstOccurrence, FS_Subset
<1>3. IsFiniteSet(known \cup n)
  BY <1>2, FS_Union
<1> HIDE DEF n
<1>4. ASSUME Cardinality(known) <= MaxSources
      PROVE  Cardinality(known \cup n) <= MaxSources
  <2>1. CASE n = {}
    BY <1>4, <2>1
  <2>2. CASE n # {}
    <3> DEFINE from == {Len(b) - FirstAt(b, s) : s \in n}
    <3>1. \A s \in unknown : FirstAt(b, s) \in 1..Len(b)
      BY FirstOccurrence
    <3>2. from \subseteq Nat /\ from # {}
      BY <1>2, <2>2, <3>1, LenProperties
    <3>3. PICK d \in from : \A e \in from : d <= e
      BY <3>2, LowestNumber
    <3>4. PICK last \in n : d = Len(b) - FirstAt(b, last)
      OBVIOUS
    <3>5. \A s \in n : FirstAt(b, s) <= FirstAt(b, last)
      <4> TAKE s \in n
      <4>1. Len(b) - FirstAt(b, last) <= Len(b) - FirstAt(b, s)
        BY <3>3, <3>4
      <4> QED  BY <1>2, <3>1, <4>1, LenProperties
    <3>6. n \ {last} \subseteq before(last)
      BY <1>2, <3>1, <3>5, FirstOccurrence
    <3>7. IsFiniteSet(before(last)) /\ before(last) \subseteq unknown
      BY <1>2, FS_Subset
    <3>8. Cardinality(n \ {last}) <= Cardinality(before(last))
      BY <3>6, <3>7, FS_Subset
    <3>9. Cardinality(n \ {last}) = Cardinality(n) - 1
      BY <1>2, FS_RemoveElement
    <3>10. Cardinality(known) + Cardinality(before(last)) < MaxSources
      BY <1>1 DEF n
    <3>11. Cardinality(known \cup n) = Cardinality(known) + Cardinality(n) - Cardinality(known \cap n)
      BY <1>2, FS_Union
    <3>12. /\ Cardinality(known) \in Nat /\ Cardinality(n) \in Nat /\ Cardinality(known \cap n) \in Nat
           /\ Cardinality(before(last)) \in Nat
      BY <1>2, <3>7, FS_CardinalityType, FS_Intersection
    <3> QED  BY <3>8, <3>9, <3>10, <3>11, <3>12
  <2> QED  BY <2>1, <2>2
<1> QED  BY <1>2, <1>3, <1>4 DEF n

-----------------------------------------------------------------------------
(* Types.                                                                  *)

LEMMA InitHolds == Init => IInv
<1> SUFFICES ASSUME Init PROVE IInv
  OBVIOUS
<1>1. TypeOK
  BY NoEvents DEF Init, TypeOK
<1>2. OrderInv
  BY NoEvents DEF Init, OrderInv, Taken, Before
<1>3. RegisterInv
  BY DEF Init, RegisterInv
<1>4. CapInv
  BY FS_EmptySet DEF Init, CapInv, Unseeded, Registered
<1> QED  BY <1>1, <1>2, <1>3, <1>4 DEF IInv

LEMMA TypeStep ==
  ASSUME IInv, [Next]_vars
  PROVE  TypeOK'
<1> USE DEF TypeOK, writer, durable
<1>1. TypeOK
  BY DEF IInv
<1>2. ASSUME NEW s \in Sources, Submit(s)
      PROVE  TypeOK'
  <2>1. [id |-> submitted', source |-> s] \in Event
    BY <1>1, <1>2 DEF Submit, Event
  <2> QED  BY <1>1, <1>2, <2>1, AppendOrder DEF Submit
<1>3. CASE SubmitDropped
  BY <1>1, <1>3 DEF SubmitDropped
<1>4. ASSUME NEW b \in Seq(Event), StartFlush(b)
      PROVE  /\ batch' \in Seq(Event) /\ flight' \in Seq(Event) /\ wpc' = "append"
             /\ fresh' \subseteq Sources /\ todo' \subseteq fresh'
  BY <1>4, NoEvents, FirstOccurrence DEF StartFlush, NewSources, SourcesOf
<1>5. CASE Recv
  <2>1. queue' \in Seq(Event) /\ Append(batch, Head(queue)) \in Seq(Event)
    BY <1>1, <1>5, TailOrder, AppendOrder DEF Recv
  <2> QED  BY <1>1, <1>4, <1>5, <2>1 DEF Recv
<1>6. CASE FlushTick
  BY <1>1, <1>4, <1>6 DEF FlushTick
<1>7. CASE Seed \/ SeedFails \/ Finish \/ EndFlush \/ RegisterFails
  <2>1. UNCHANGED <<submitted, queue, batch, table, stored, lost, senders>>
    BY <1>7 DEF Seed, SeedFails, Finish, EndFlush, RegisterFails
  <2>2. flight' \in Seq(Event)
    <3>1. flight' = flight \/ flight' = <<>>
      BY <1>7 DEF Seed, SeedFails, Finish, EndFlush, RegisterFails
    <3> QED  BY <1>1, <3>1, NoEvents
  <2>5. faults' \in Nat
    BY <1>1, <1>7 DEF Seed, SeedFails, Finish, EndFlush, RegisterFails, Fault
  <2>6. missed' \in BOOLEAN /\ wpc' \in {"select", "stopped"}
    BY <1>1, <1>7 DEF Seed, SeedFails, Finish, EndFlush, RegisterFails
  <2>3. fresh' \subseteq Sources /\ todo' \subseteq fresh'
    BY <1>1, <1>7 DEF Seed, SeedFails, Finish, EndFlush, RegisterFails
  <2>4. known' \subseteq Sources
    BY <1>1, <1>7 DEF Seed, SeedFails, Finish, EndFlush, RegisterFails, Registered
  <2> QED  BY <1>1, <2>1, <2>2, <2>3, <2>4, <2>5, <2>6
<1>8. CASE AppendEvents
  <2>1. stored' \in Seq(Event)
    BY <1>1, <1>8, ConcatOrder DEF AppendEvents
  <2> QED  BY <1>1, <1>8, <2>1 DEF AppendEvents
<1>13. CASE AppendEventsFails
  <2>1. lost' \subseteq Nat
    BY <1>1, <1>13, IdsAreNumbers DEF AppendEventsFails
  <2> QED  BY <1>1, <1>13, <2>1, NoEvents DEF AppendEventsFails, Fault
<1>9. ASSUME NEW s \in todo, RegisterCheck(s) \/ RegisterPut(s)
      PROVE  TypeOK'
  <2>1. CASE RegisterCheck(s)
    BY <1>1, <2>1 DEF RegisterCheck
  <2>2. CASE RegisterPut(s)
    <3>1. table' \in [Sources -> {"absent", "unassigned", "assigned"}]
      BY <1>1, <2>2 DEF RegisterPut
    <3> QED  BY <1>1, <2>2, <3>1 DEF RegisterPut
  <2> QED  BY <1>9, <2>1, <2>2
<1>10. CASE Admin \/ Shutdown \/ Start
  BY <1>1, <1>10 DEF Admin, UpdateSource, DeleteSource, Shutdown, Start
<1>11. CASE Exit \/ Restart
  <2>1. lost' \subseteq Nat
    BY <1>1, <1>11, IdsAreNumbers DEF Exit, Restart, LeaveNothing, InMemory
  <2>2. wpc' \in {"exited", "seed"} /\ (faults' = faults \/ faults' = faults + 1)
    BY <1>11 DEF Exit, Restart, Fault
  <2>4. faults' \in Nat
    BY <1>1, <2>2
  <2>5. senders' = senders \/ senders' = TRUE
    BY <1>11, Zenon DEF Exit, Restart
  <2>6. senders' \in BOOLEAN
    BY <1>1, <2>5, Zenon
  <2>3. /\ queue' = <<>> /\ batch' = <<>> /\ flight' = <<>> /\ fresh' = {} /\ todo' = {} /\ known' = {}
        /\ UNCHANGED <<submitted, stored, table, missed>>
    BY <1>11 DEF Exit, Restart, LeaveNothing
  <2> QED  BY <1>1, <2>1, <2>2, <2>3, <2>4, <2>6, NoEvents
<1>12. CASE UNCHANGED vars
  BY <1>1, <1>12 DEF vars
<1> QED
  BY <1>2, <1>3, <1>5, <1>6, <1>7, <1>8, <1>9, <1>10, <1>11, <1>12, <1>13 DEF Next, Writer, WriterFails

-----------------------------------------------------------------------------
(* The order of the events.                                                *)

\* What every proof below starts from.
LEMMA OrderFacts ==
  ASSUME IInv
  PROVE  /\ stored \in Seq(Event) /\ Taken \in Seq(Event) /\ batch \in Seq(Event) /\ queue \in Seq(Event)
         /\ Ids(stored) \cup Ids(Taken) \cup Ids(batch) \cup Ids(queue) \cup lost \subseteq Nat
         /\ submitted \in Nat /\ OrderInv
BY IdsAreNumbers, NoEvents DEF IInv, TypeOK, Taken

\* An event that is accepted is behind all others.
LEMMA SubmitOrder ==
  ASSUME IInv, NEW s \in Sources, Submit(s)
  PROVE  OrderInv'
<1> DEFINE e == [id |-> submitted', source |-> s]
<1>1. /\ submitted' = submitted + 1 /\ queue' = Append(queue, e)
      /\ UNCHANGED <<stored, Taken, batch, lost>>
  BY DEF Submit, writer, durable, Taken
<1>2. e \in Event /\ e.id = submitted + 1
  BY <1>1, OrderFacts DEF Event
<1> HIDE DEF e
<1>3. Ids(queue') = Ids(queue) \cup {submitted + 1} /\ Increasing(queue')
  BY <1>1, <1>2, OrderFacts, AppendOrder DEF OrderInv
<1> QED  BY <1>1, <1>3, OrderFacts DEF OrderInv, Before

\* The writer takes the oldest of the queue behind its batch.
LEMMA RecvOrder ==
  ASSUME IInv, Recv
  PROVE  OrderInv'
<1> DEFINE b == Append(batch, Head(queue))
<1>1. /\ queue # <<>> /\ queue' = Tail(queue) /\ wpc = "select"
      /\ UNCHANGED <<submitted, stored, lost>>
  BY DEF Recv, durable
<1>2. /\ Tail(queue) \in Seq(Event) /\ Head(queue) \in Event
      /\ Ids(queue) = {Head(queue).id} \cup Ids(Tail(queue))
      /\ Increasing(Tail(queue)) /\ \A a \in Ids(Tail(queue)) : Head(queue).id < a
  BY <1>1, OrderFacts, TailOrder DEF OrderInv
<1>3. /\ b \in Seq(Event) /\ Ids(b) = Ids(batch) \cup {Head(queue).id} /\ Increasing(b)
  BY <1>2, OrderFacts, AppendOrder DEF OrderInv, Before
<1> HIDE DEF b
<1>4. Taken = <<>>
  BY <1>1 DEF Taken
<1>5. \/ Taken' = b /\ batch' = <<>>
      \/ Taken' = <<>> /\ batch' = b
  BY <1>1 DEF Recv, StartFlush, Taken, b
<1>6. Before(stored, b) /\ Before(b, queue') /\ Before(stored, queue')
  BY <1>1, <1>2, <1>3, OrderFacts DEF OrderInv, Before
<1>7. \A a \in Ids(stored) \cup Ids(b) \cup Ids(queue') \cup lost : a <= submitted
  BY <1>1, <1>2, <1>3, OrderFacts DEF OrderInv
<1>8. lost \cap (Ids(stored) \cup Ids(b) \cup Ids(queue')) = {}
  BY <1>1, <1>2, <1>3, OrderFacts DEF OrderInv
<1>9. Increasing(queue')
  BY <1>1, <1>2
<1> QED  BY <1>1, <1>3, <1>5, <1>6, <1>7, <1>8, <1>9, OrderFacts, NoEvents DEF OrderInv, Before

LEMMA FlushTickOrder ==
  ASSUME IInv, FlushTick
  PROVE  OrderInv'
<1>1. Taken = <<>> /\ Taken' = batch /\ batch' = <<>> /\ UNCHANGED <<submitted, stored, queue, lost>>
  BY DEF FlushTick, StartFlush, durable, Taken
<1> QED  BY <1>1, OrderFacts, NoEvents DEF OrderInv, Before

\* A batch is appended behind what is stored, and ahead of everything to come.
LEMMA AppendEventsOrder ==
  ASSUME IInv, AppendEvents
  PROVE  OrderInv'
<1>1. /\ stored' = stored \o Taken /\ Taken' = <<>> /\ UNCHANGED <<submitted, batch, queue, lost>>
  BY DEF AppendEvents, Taken
<1>2. Ids(stored') = Ids(stored) \cup Ids(Taken) /\ Increasing(stored')
  BY <1>1, OrderFacts, ConcatOrder DEF OrderInv
<1> QED  BY <1>1, <1>2, OrderFacts, NoEvents DEF OrderInv, Before

LEMMA AppendFailsOrder ==
  ASSUME IInv, AppendEventsFails
  PROVE  OrderInv'
<1>1. /\ lost' = lost \cup Ids(Taken) /\ Taken' = <<>> /\ UNCHANGED <<submitted, stored, batch, queue>>
  BY DEF AppendEventsFails, Taken, durable
<1> QED  BY <1>1, OrderFacts, NoEvents DEF OrderInv, Before

\* What the process held is lost, and only that.
LEMMA RestartOrder ==
  ASSUME IInv, Exit \/ Restart
  PROVE  OrderInv'
<1>1. /\ lost' = lost \cup Ids(queue) \cup Ids(batch) \cup Ids(Taken)
      /\ queue' = <<>> /\ batch' = <<>> /\ Taken' = <<>> /\ UNCHANGED <<submitted, stored>>
  BY NoEvents DEF Exit, Restart, LeaveNothing, InMemory, Taken, durable
<1> QED  BY <1>1, OrderFacts, NoEvents DEF OrderInv, Before

LEMMA OrderStep ==
  ASSUME IInv, [Next]_vars
  PROVE  OrderInv'
<1>1. ASSUME UNCHANGED <<stored, Taken, batch, queue, lost>>,
             submitted' \in Nat, submitted <= submitted'
      PROVE  OrderInv'
  BY <1>1, OrderFacts DEF OrderInv
<1>2. CASE SubmitDropped
  BY <1>1, <1>2, OrderFacts DEF SubmitDropped, Taken, writer, durable
<1>3. CASE Seed \/ SeedFails \/ Finish \/ EndFlush \/ RegisterFails \/ Admin \/ Shutdown \/ Start \/ UNCHANGED vars
           \/ \E s \in todo : RegisterCheck(s) \/ RegisterPut(s)
  <2>1. UNCHANGED <<stored, Taken, batch, queue, lost, submitted>>
    BY <1>3 DEF Seed, SeedFails, Finish, EndFlush, RegisterFails, Admin, UpdateSource, DeleteSource,
      Shutdown, Start, RegisterCheck, RegisterPut, Taken, writer, durable, vars
  <2> QED  BY <1>1, <2>1, OrderFacts
<1> QED
  BY <1>2, <1>3, SubmitOrder, RecvOrder, FlushTickOrder, AppendEventsOrder, AppendFailsOrder, RestartOrder
  DEF Next, Writer, WriterFails

-----------------------------------------------------------------------------
(* The registration of sources.                                            *)

\* One source at most is next.
LEMMA EarliestIsOne ==
  ASSUME IInv, NEW s \in Earliest(todo), NEW u \in Earliest(todo)
  PROVE  s = u
<1>1. flight \in Seq(Event) /\ todo \subseteq SourcesOf(flight)
  BY DEF IInv, TypeOK, RegisterInv
<1>2. s \in SourcesOf(flight) /\ u \in SourcesOf(flight)
  BY <1>1 DEF Earliest
<1>3. FirstAt(flight, s) <= FirstAt(flight, u) /\ FirstAt(flight, u) <= FirstAt(flight, s)
  BY DEF Earliest
<1>4. FirstAt(flight, s) \in Nat /\ FirstAt(flight, u) \in Nat
  BY <1>1, <1>2, FirstOccurrence, LenProperties
<1> QED  BY <1>1, <1>2, <1>3, <1>4, FirstOccurrence

LEMMA FlushRegister ==
  ASSUME IInv, Recv \/ FlushTick
  PROVE  RegisterInv'
<1>1. CASE UNCHANGED <<wpc, flight, fresh, todo>>
  BY <1>1 DEF IInv, RegisterInv, Flushing, Recv, FlushTick, SourcesOf
<1>2. ASSUME NEW b \in Seq(Event), StartFlush(b)
      PROVE  RegisterInv'
  <2>1. flight' = b /\ fresh' \subseteq SourcesOf(b) /\ wpc' = "append"
    BY <1>2 DEF StartFlush, NewSources, SourcesOf
  <2> QED  BY <2>1 DEF RegisterInv, Flushing, SourcesOf
<1>3. batch \in Seq(Event) /\ (Recv => Append(batch, Head(queue)) \in Seq(Event))
  BY OrderFacts, TailOrder, AppendOrder DEF Recv
<1> QED  BY <1>1, <1>2, <1>3 DEF Recv, FlushTick

LEMMA CheckRegister ==
  ASSUME IInv, NEW s \in todo, RegisterCheck(s)
  PROVE  RegisterInv'
<1>1. flight' = flight /\ fresh' = fresh /\ table' = table /\ s \in Earliest(todo) /\ wpc = "register"
  BY DEF RegisterCheck, durable
<1>2. CASE table[s] # "absent"
  <2>1. wpc' = "register"
    BY <1>1, <1>2 DEF RegisterCheck
  <2> QED  BY <1>1, <2>1 DEF IInv, RegisterInv, Flushing, SourcesOf
<1>3. CASE table[s] = "absent"
  <2>1. wpc' = "insert" /\ todo' = todo
    BY <1>3 DEF RegisterCheck
  <2>2. \A u \in Earliest(todo) : table[u] = "absent"
    BY <1>1, <1>3, EarliestIsOne
  <2>3. Earliest(todo)' = Earliest(todo)
    BY <1>1, <2>1 DEF Earliest, FirstAt
  <2> QED  BY <1>1, <2>1, <2>2, <2>3 DEF IInv, RegisterInv, Flushing, SourcesOf
<1> QED  BY <1>2, <1>3

\* Administrators change the sources there are, and add none.
LEMMA AdminRegister ==
  ASSUME IInv, Admin
  PROVE  RegisterInv'
<1>1. UNCHANGED <<wpc, flight, fresh, todo>> /\ \A s \in Sources : table[s] = "absent" => table'[s] = "absent"
  BY DEF Admin, UpdateSource, DeleteSource, writer, IInv, TypeOK
<1>2. Earliest(todo)' = Earliest(todo)
  BY <1>1 DEF Earliest, FirstAt
<1>3. Earliest(todo) \subseteq Sources
  BY DEF Earliest, IInv, TypeOK
<1> QED  BY <1>1, <1>2, <1>3 DEF IInv, RegisterInv, Flushing, SourcesOf

LEMMA RegisterStep ==
  ASSUME IInv, [Next]_vars
  PROVE  RegisterInv'
<1>1. CASE Seed \/ SeedFails \/ Finish \/ EndFlush \/ RegisterFails \/ AppendEventsFails
  BY <1>1 DEF IInv, RegisterInv, Flushing, SourcesOf, Seed, SeedFails, Finish, EndFlush, RegisterFails,
    AppendEventsFails
<1>6. CASE Exit \/ Start \/ Restart
  BY <1>6 DEF IInv, RegisterInv, Flushing, SourcesOf, Exit, Start, Restart, LeaveNothing
<1>2. CASE AppendEvents
  BY <1>2 DEF IInv, RegisterInv, Flushing, SourcesOf, AppendEvents
<1>3. ASSUME NEW s \in todo, RegisterPut(s)
      PROVE  RegisterInv'
  BY <1>3 DEF IInv, RegisterInv, Flushing, SourcesOf, RegisterPut
<1>4. CASE UNCHANGED <<writer, table>>
  <2>1. UNCHANGED <<wpc, flight, fresh, todo, table>>
    BY <1>4 DEF writer
  <2>2. Earliest(todo)' = Earliest(todo)
    BY <2>1 DEF Earliest, FirstAt
  <2> QED  BY <2>1, <2>2 DEF IInv, RegisterInv, Flushing, SourcesOf
<1>5. CASE (\E s \in Sources : Submit(s)) \/ SubmitDropped \/ Shutdown \/ UNCHANGED vars
  BY <1>4, <1>5 DEF Submit, SubmitDropped, Shutdown, vars, durable
<1> QED
  BY <1>1, <1>2, <1>3, <1>5, <1>6, FlushRegister, CheckRegister, AdminRegister DEF Next, Writer, WriterFails

-----------------------------------------------------------------------------
(* The ceiling.                                                            *)

LEMMA CapFacts ==
  ASSUME IInv
  PROVE  /\ CapInv /\ IsFiniteSet(known) /\ IsFiniteSet(fresh) /\ Cardinality(known) \in Nat
         /\ Cardinality(known) <= Cardinality(known \cup fresh)
         /\ ~ missed /\ ~ Unseeded => Cardinality(known) <= MaxSources
         /\ ~ missed => Cardinality(Registered) <= MaxSources
<1>1. CapInv /\ IsFiniteSet(known \cup fresh) /\ IsFiniteSet(Registered)
  BY DEF IInv, CapInv
<1>2. /\ IsFiniteSet(known) /\ Cardinality(known) <= Cardinality(known \cup fresh)
      /\ IsFiniteSet(fresh)
  BY <1>1, FS_Subset
<1>3. Cardinality(known) \in Nat /\ Cardinality(known \cup fresh) \in Nat /\ Cardinality(Registered) \in Nat
  BY <1>1, <1>2, FS_CardinalityType
<1>4. ~ missed /\ ~ Unseeded => Cardinality(Registered) <= MaxSources
  <2> SUFFICES ASSUME ~ missed, ~ Unseeded PROVE Cardinality(Registered) <= MaxSources
    OBVIOUS
  <2>1. Registered \subseteq known \cup fresh /\ Cardinality(known \cup fresh) <= MaxSources
    BY <1>1 DEF CapInv
  <2>2. Cardinality(Registered) <= Cardinality(known \cup fresh)
    BY <1>1, <2>1, FS_Subset
  <2> QED  BY <1>3, <2>1, <2>2
<1> QED  BY <1>1, <1>2, <1>3, <1>4 DEF CapInv, Unseeded

LEMMA FlushCap ==
  ASSUME IInv, Recv \/ FlushTick
  PROVE  CapInv'
<1>1. UNCHANGED <<known, table, missed>> /\ wpc = "select" /\ Registered' = Registered
  BY DEF Recv, FlushTick, durable, Registered
<1>2. CASE UNCHANGED <<wpc, flight, fresh, todo>>
  BY <1>1, <1>2, CapFacts DEF CapInv, Unseeded
<1>3. ASSUME NEW b \in Seq(Event), StartFlush(b)
      PROVE  CapInv'
  <2>1. fresh' = NewSources(b) /\ wpc' = "append"
    BY <1>3 DEF StartFlush
  <2>2. /\ IsFiniteSet(known \cup NewSources(b))
        /\ ~ missed => Cardinality(known \cup NewSources(b)) <= MaxSources
    BY <1>1, CapFacts, NewSourcesWithinCap DEF Unseeded
  <2> QED  BY <1>1, <2>1, <2>2, CapFacts DEF CapInv, Unseeded
<1>4. batch \in Seq(Event) /\ (Recv => Append(batch, Head(queue)) \in Seq(Event))
  BY OrderFacts, TailOrder, AppendOrder DEF Recv
<1> QED  BY <1>2, <1>3, <1>4 DEF Recv, FlushTick

LEMMA PutCap ==
  ASSUME IInv, NEW s \in todo, RegisterPut(s)
  PROVE  CapInv'
<1>1. s \in fresh /\ s \in Sources
  BY DEF IInv, TypeOK
<1>2. UNCHANGED <<known, fresh, missed>> /\ wpc = "insert" /\ wpc' = "register"
  BY DEF RegisterPut
<1>3. Registered' = Registered \cup {s}
  BY <1>1 DEF RegisterPut, Registered, IInv, TypeOK
<1>4. IsFiniteSet(Registered')
  BY <1>3, CapFacts, FS_AddElement DEF CapInv
<1> QED  BY <1>1, <1>2, <1>3, <1>4, CapFacts DEF CapInv, Unseeded

LEMMA AdminCap ==
  ASSUME IInv, Admin
  PROVE  CapInv'
<1>1. UNCHANGED <<known, fresh, missed, wpc>> /\ Registered' \subseteq Registered
  BY DEF Admin, UpdateSource, DeleteSource, writer, Registered, IInv, TypeOK
<1>2. /\ IsFiniteSet(Registered') /\ Cardinality(Registered') <= Cardinality(Registered)
      /\ Cardinality(Registered') \in Nat /\ Cardinality(Registered) \in Nat
  BY <1>1, CapFacts, FS_Subset, FS_CardinalityType DEF CapInv
<1>3. ~ missed => Cardinality(Registered') <= MaxSources
  BY <1>2, CapFacts
<1> QED  BY <1>1, <1>2, <1>3, CapFacts DEF CapInv, Unseeded

LEMMA CapStep ==
  ASSUME IInv, [Next]_vars
  PROVE  CapInv'
<1>1. CASE Seed
  <2>1. known' = Registered /\ fresh' = {} /\ Registered' = Registered /\ wpc' = "select" /\ wpc = "seed"
        /\ missed' = missed
    BY <1>1 DEF Seed, durable, Registered, IInv, RegisterInv, Flushing
  <2>2. known' \cup fresh' = Registered
    BY <2>1
  <2> QED  BY <2>1, <2>2, CapFacts DEF CapInv, Unseeded
<1>2. CASE SeedFails
  <2>1. known' = {} /\ fresh' = {} /\ Registered' = Registered /\ missed' /\ wpc' = "select"
    BY <1>2 DEF SeedFails, durable, Registered, IInv, RegisterInv, Flushing
  <2> QED  BY <2>1, CapFacts, FS_EmptySet DEF CapInv, Unseeded
<1>3. CASE RegisterFails
  <2>1. known' = known /\ fresh' = {} /\ Registered' = Registered /\ missed' /\ wpc' = "select"
    BY <1>3 DEF RegisterFails, durable, Registered
  <2> QED  BY <2>1, CapFacts DEF CapInv, Unseeded
<1>4. CASE AppendEventsFails
  <2>1. known' = known /\ fresh' = {} /\ Registered' = Registered /\ missed' = missed
        /\ wpc = "append" /\ wpc' = "select"
    BY <1>4 DEF AppendEventsFails, durable, Registered
  <2> QED  BY <2>1, CapFacts DEF CapInv, Unseeded
<1>5. CASE AppendEvents
  <2>1. UNCHANGED <<known, fresh, missed>> /\ Registered' = Registered
        /\ wpc = "append" /\ wpc' = "register"
    BY <1>5 DEF AppendEvents, Registered
  <2> QED  BY <2>1, CapFacts DEF CapInv, Unseeded
<1>6. CASE EndFlush
  <2>1. known' = known \cup fresh /\ fresh' = {} /\ Registered' = Registered /\ missed' = missed
        /\ wpc = "register" /\ wpc' = "select"
    BY <1>6 DEF EndFlush, durable, Registered
  <2> QED  BY <2>1, CapFacts DEF CapInv, Unseeded
<1>7. CASE Exit \/ Restart
  <2>1. known' = {} /\ fresh' = {} /\ Registered' = Registered /\ missed' = missed /\ wpc' \in {"exited", "seed"}
    BY <1>7 DEF Exit, Restart, LeaveNothing, durable, Registered
  <2> QED  BY <2>1, CapFacts, FS_EmptySet DEF CapInv, Unseeded
<1>8. CASE Finish \/ \E s \in todo : RegisterCheck(s)
  <2>1. /\ UNCHANGED <<known, fresh, missed>> /\ Registered' = Registered
        /\ wpc \in {"register", "insert"} <=> wpc' \in {"register", "insert"}
        /\ wpc \notin {"exited", "seed"} /\ wpc' \notin {"exited", "seed"}
    BY <1>8 DEF Finish, RegisterCheck, durable, Registered
  <2> QED  BY <2>1, CapFacts DEF CapInv, Unseeded
<1>9. CASE (\E s \in Sources : Submit(s)) \/ SubmitDropped \/ Shutdown \/ Start \/ UNCHANGED vars
  <2>1. UNCHANGED <<known, fresh, missed>> /\ (wpc' = wpc \/ (wpc = "exited" /\ wpc' = "seed"))
        /\ Registered' = Registered
    BY <1>9 DEF Submit, SubmitDropped, Shutdown, Start, vars, writer, durable, Registered
  <2> QED  BY <2>1, CapFacts DEF CapInv, Unseeded
<1> QED
  BY <1>1, <1>2, <1>3, <1>4, <1>5, <1>6, <1>7, <1>8, <1>9, FlushCap, PutCap, AdminCap
  DEF Next, Writer, WriterFails

-----------------------------------------------------------------------------

\* The invariant holds of every behaviour of the pipeline (ingest/pipeline.rs), its
\* crashes and failed transactions included.
THEOREM IngestInductive == Spec => []IInv
<1>1. IInv /\ [Next]_vars => IInv'
  BY TypeStep, OrderStep, RegisterStep, CapStep DEF IInv
<1> QED  BY InitHolds, <1>1, PTL DEF Spec

\* Events are stored in the order in which they were accepted, none twice and none
\* that was lost (submit, flush_batch), for any queue and batch size.
THEOREM StoredInOrder == Spec => []OrderedOnce
<1>1. ASSUME IInv PROVE OrderedOnce
  <2>1. /\ stored \o Taken \in Seq(Event) /\ Increasing(stored \o Taken)
        /\ Ids(stored \o Taken) = Ids(stored) \cup Ids(Taken)
    BY <1>1, OrderFacts, ConcatOrder DEF OrderInv
  <2>2. /\ stored \o Taken \o batch \in Seq(Event) /\ Increasing(stored \o Taken \o batch)
        /\ Ids(stored \o Taken \o batch) = Ids(stored) \cup Ids(Taken) \cup Ids(batch)
    BY <1>1, <2>1, OrderFacts, ConcatOrder DEF OrderInv, Before
  <2>3. /\ Increasing(stored \o Taken \o batch \o queue)
        /\ Ids(stored \o Taken \o batch \o queue)
             = Ids(stored) \cup Ids(Taken) \cup Ids(batch) \cup Ids(queue)
    BY <1>1, <2>2, OrderFacts, ConcatOrder DEF OrderInv, Before
  <2>4. Pipeline = stored \o Taken \o batch \o queue
    BY DEF Pipeline, Taken
  <2> QED  BY <1>1, <2>3, <2>4, OrderFacts DEF OrderInv, OrderedOnce, Increasing
<1> QED  BY IngestInductive, <1>1, PTL

\* Auto-registration stops at its ceiling (flush_batch, max_auto_sources), unless a
\* seeding or a registration failed, whatever administrators delete meanwhile.
THEOREM CeilingHolds == Spec => []CapUnlessMissed
<1>1. ASSUME IInv PROVE CapUnlessMissed
  BY <1>1, CapFacts DEF CapUnlessMissed
<1> QED  BY IngestInductive, <1>1, PTL

\* A source that is registered was absent when it was put (register_source_if_absent),
\* although that was looked up in a transaction of its own.
THEOREM PutsAreOfAbsent == Spec => RegisterNeverClobbers
<1>1. IInv /\ [Next]_vars => [\A s \in Sources : RegisterPut(s) => table[s] = "absent"]_vars
  BY DEF IInv, RegisterInv, RegisterPut
<1> QED  BY IngestInductive, <1>1, PTL DEF Spec, RegisterNeverClobbers

=============================================================================
