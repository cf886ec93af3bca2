--------------------------- MODULE ReportsProofs ---------------------------
(***************************************************************************)
(* What Reports.tla checks on a small instance, proved for any rows that   *)
(* may arrive, any directory, ladder and limits: the chart and the         *)
(* headline count the same rows, a row of the inbox opens on what it       *)
(* counted, and a detail lists the sessions of its occurrences.            *)
(***************************************************************************)
EXTENDS Reports, FiniteSetTheorems, WellFoundedInduction, TLAPS

-----------------------------------------------------------------------------
(* Least and greatest numbers, and sums.                                   *)

\* A set of naturals that is not empty has a least element.
LEMMA LeastNumber ==
  ASSUME NEW S, S \subseteq Nat, S # {}
  PROVE  \E x \in S : \A y \in S : x <= y
<1>1. PICK x \in S : \A y \in S : ~ (<<y, x>> \in OpToRel(<, Nat))
  BY NatLessThanWellFounded, WFMin
<1>2. ASSUME NEW y \in S, y < x  PROVE FALSE
  BY <1>1, <1>2 DEF OpToRel
<1> QED BY <1>2

\* Min is that least element.
LEMMA MinOfNumbers ==
  ASSUME NEW S, S \subseteq Nat, S # {}
  PROVE  Min(S) \in S /\ \A y \in S : Min(S) <= y
BY LeastNumber DEF Min

\* Max is the greatest element, of numbers that have a bound.
LEMMA MaxOfNumbers ==
  ASSUME NEW S, S \subseteq Nat, S # {}, NEW n \in Nat, \A y \in S : y <= n
  PROVE  Max(S) \in S /\ \A y \in S : y <= Max(S)
<1> DEFINE Bounds == {k \in Nat : \A y \in S : y <= k}
<1>1. PICK m \in Bounds : \A k \in Bounds : m <= k
  <2> n \in Bounds OBVIOUS
  <2> HIDE DEF Bounds
  <2> QED BY LeastNumber DEF Bounds
<1>2. m \in S
  <2> SUFFICES ASSUME m \notin S PROVE FALSE OBVIOUS
  <2>1. \A y \in S : y <= m - 1 BY <1>1
  <2>2. m - 1 \in Nat
    <3> PICK y \in S : TRUE OBVIOUS
    <3>1. y \in Nat /\ m \in Nat /\ y <= m - 1 BY <2>1
    <3> QED BY <3>1
  <2>3. m - 1 \in Bounds BY <2>1, <2>2
  <2> QED BY <2>3, <1>1
<1> QED BY <1>1, <1>2 DEF Max

\* The recursion a sum over a set is defined by.
Sums(h, f, G) ==
  h = [T \in SUBSET G |->
         IF T = {} THEN 0
         ELSE f[CHOOSE x \in T : TRUE] + h[T \ {CHOOSE x \in T : TRUE}]]

\* The elements of S counted by their key, key by key, are the elements of S: the
\* recursion of the sum has one solution, which gives a set of keys the number of
\* elements that have one of them.
Tallied(S, G, k, f) ==
  /\ IsFiniteSet(S) /\ IsFiniteSet(G) /\ k \in [S -> G]
  /\ \A g \in G : f[g] = Cardinality({r \in S : k[r] = g})

LEMMA CountByKey ==
  ASSUME NEW S, NEW G, NEW k, NEW f, Tallied(S, G, k, f)
  PROVE  SumFunctionOnSet(f, G) = Cardinality(S)
<1> USE DEF Tallied
<1> DEFINE In(T) == {r \in S : k[r] \in T}
           c == [T \in SUBSET G |-> Cardinality(In(T))]
<1>0. ASSUME NEW T \in SUBSET G
      PROVE  IsFiniteSet(In(T)) /\ c[T] \in Nat
  BY FS_Subset, FS_CardinalityType
<1>1. ASSUME NEW T \in SUBSET G, NEW x \in T
      PROVE  c[T] = f[x] + c[T \ {x}]
  <2> DEFINE A == {r \in S : k[r] = x}
  <2>1. In(T) = A \cup In(T \ {x}) /\ A \cap In(T \ {x}) = {} OBVIOUS
  <2>2. IsFiniteSet(A) /\ Cardinality(A) \in Nat
    BY FS_Subset, FS_CardinalityType
  <2>3. T \ {x} \in SUBSET G OBVIOUS
  <2>4. IsFiniteSet(In(T \ {x})) /\ Cardinality(In(T \ {x})) \in Nat
    BY <1>0, <2>3
  <2> HIDE DEF A, In
  <2>5. Cardinality(In(T)) = Cardinality(A) + Cardinality(In(T \ {x}))
    <3>1. Cardinality(A \cup In(T \ {x})) =
            Cardinality(A) + Cardinality(In(T \ {x})) - Cardinality(A \cap In(T \ {x}))
      BY <2>2, <2>4, FS_Union
    <3>2. Cardinality(A \cap In(T \ {x})) = 0 BY <2>1, FS_EmptySet
    <3> QED BY <2>1, <2>2, <2>4, <3>1, <3>2
  <2>6. f[x] = Cardinality(A) BY DEF A
  <2> QED BY <2>3, <2>5, <2>6
<1>2. c[{}] = 0
  <2>1. In({}) = {} OBVIOUS
  <2> QED BY <2>1, FS_EmptySet
<1>3. Sums(c, f, G)
  <2> HIDE DEF In
  <2>1. ASSUME NEW T \in SUBSET G
        PROVE  c[T] = IF T = {} THEN 0
                      ELSE f[CHOOSE x \in T : TRUE] + c[T \ {CHOOSE x \in T : TRUE}]
    <3>1. CASE T = {} BY <3>1, <1>2
    <3>2. CASE T # {}
      <4> PICK x \in T : x = CHOOSE y \in T : TRUE BY <3>2
      <4> HIDE DEF c
      <4> QED BY <1>1, <3>2
    <3> QED BY <3>1, <3>2
  <2> QED BY <2>1 DEF Sums
<1>4. ASSUME NEW h, Sums(h, f, G), NEW T \in SUBSET G
      PROVE  h[T] = c[T]
  <2> DEFINE Bad == {n \in Nat : \E U \in SUBSET G : Cardinality(U) = n /\ h[U] # c[U]}
  <2> SUFFICES ASSUME h[T] # c[T] PROVE FALSE OBVIOUS
  <2>1. Bad # {}
    <3>1. Cardinality(T) \in Nat BY FS_Subset, FS_CardinalityType
    <3> QED BY <3>1
  <2>2. PICK n \in Bad : \A m \in Bad : n <= m
    <3> HIDE DEF Bad
    <3>1. Bad \subseteq Nat BY DEF Bad
    <3> QED BY <2>1, <3>1, LeastNumber
  <2>3. PICK U \in SUBSET G : Cardinality(U) = n /\ h[U] # c[U] OBVIOUS
  <2>4. U # {} BY <1>2, <1>4, <2>3 DEF Sums
  <2>5. PICK x \in U : x = CHOOSE y \in U : TRUE BY <2>4
  <2>6. h[U] = f[x] + h[U \ {x}] BY <1>4, <2>4, <2>5 DEF Sums
  <2>7. Cardinality(U \ {x}) \in Nat /\ Cardinality(U \ {x}) < n
    <3>1. IsFiniteSet(U) BY FS_Subset
    <3>2. Cardinality(U \ {x}) = Cardinality(U) - 1 /\ IsFiniteSet(U \ {x})
      BY <3>1, FS_RemoveElement
    <3>3. Cardinality(U \ {x}) \in Nat BY <3>2, FS_CardinalityType
    <3> QED BY <2>3, <3>2, <3>3
  <2>8. U \ {x} \in SUBSET G OBVIOUS
  <2>9. h[U \ {x}] = c[U \ {x}]
    <3> HIDE DEF c
    <3> QED BY <2>2, <2>7, <2>8
  <2> HIDE DEF c
  <2> QED BY <1>1, <2>3, <2>6, <2>9
<1>5. \A h : Sums(h, f, G) => h = c
  <2> SUFFICES ASSUME NEW h, Sums(h, f, G) PROVE h = c OBVIOUS
  <2>1. h = [T \in SUBSET G |-> h[T]] BY DEF Sums
  <2>2. \A T \in SUBSET G : h[T] = c[T] BY <1>4
  <2>3. c = [T \in SUBSET G |-> c[T]] OBVIOUS
  <2> HIDE DEF c
  <2> QED BY <2>1, <2>2, <2>3
<1>6. SumFunctionOnSet(f, G) = c[G]
  <2> HIDE DEF c
  <2> QED BY <1>3, <1>5 DEF Sums, SumFunctionOnSet, FoldFunctionOnSet, MapThenFoldSet
<1>7. In(G) = S OBVIOUS
<1> QED BY <1>6, <1>7

\* An image of a finite set is no larger than it.
LEMMA Image ==
  ASSUME NEW S, IsFiniteSet(S), NEW f
  PROVE  LET T == {f[x] : x \in S} IN IsFiniteSet(T) /\ Cardinality(T) <= Cardinality(S)
<1> DEFINE T == {f[x] : x \in S}
           g == [x \in S |-> f[x]]
<1>1. g \in Surjection(S, T) BY DEF Surjection
<1> HIDE DEF g, T
<1> QED BY <1>1, FS_Surjection DEF T

\* Among finitely many there is one of the greatest number.
LEMMA Greatest ==
  ASSUME NEW S, IsFiniteSet(S), S # {}, NEW f, \A x \in S : f[x] \in Int
  PROVE  \E x \in S : \A y \in S : f[x] >= f[y]
<1> DEFINE Bad == {n \in Nat : \E T \in SUBSET S :
                     /\ Cardinality(T) = n /\ T # {}
                     /\ \A x \in T : \E y \in T : f[x] < f[y]}
<1> SUFFICES ASSUME \A x \in S : \E y \in S : f[x] < f[y] PROVE FALSE OBVIOUS
<1>1. Cardinality(S) \in Bad BY FS_CardinalityType
<1>2. PICK n \in Bad : \A m \in Bad : n <= m
  <2> HIDE DEF Bad
  <2>1. Bad \subseteq Nat BY DEF Bad
  <2> QED BY <1>1, <2>1, LeastNumber
<1>3. PICK T \in SUBSET S : /\ Cardinality(T) = n /\ T # {}
                            /\ \A x \in T : \E y \in T : f[x] < f[y]
  OBVIOUS
<1>4. PICK x \in T : TRUE BY <1>3
<1>5. PICK y \in T : f[x] < f[y] BY <1>3
<1>6. IsFiniteSet(T \ {x}) /\ Cardinality(T \ {x}) = n - 1
  BY <1>3, FS_Subset, FS_RemoveElement
<1>7. \A z \in T \ {x} : \E u \in T \ {x} : f[z] < f[u]
  <2> TAKE z \in T \ {x}
  <2>1. PICK u \in T : f[z] < f[u] BY <1>3
  <2>2. CASE u # x BY <2>1, <2>2
  <2>3. CASE u = x
    <3>1. f[z] \in Int /\ f[x] \in Int /\ f[y] \in Int OBVIOUS
    <3>2. f[z] < f[y] BY <1>5, <2>1, <2>3, <3>1
    <3>3. y # x BY <1>5, <3>1
    <3> QED BY <3>2, <3>3
  <2> QED BY <2>2, <2>3
<1>8. y # x BY <1>5
<1>9. T \ {x} # {} BY <1>8
<1>10. n - 1 \in Bad
  <2>1. n - 1 \in Nat BY <1>6, FS_CardinalityType
  <2>2. T \ {x} \in SUBSET S OBVIOUS
  <2> QED BY <1>6, <1>7, <1>9, <2>1, <2>2
<1>11. n \in Nat OBVIOUS
<1> HIDE DEF Bad
<1> QED BY <1>2, <1>10, <1>11

\* Of finitely many there are n of the greatest numbers.
LEMMA TopExists ==
  ASSUME NEW S, IsFiniteSet(S), NEW f, \A x \in S : f[x] \in Int,
         NEW n \in Nat, n <= Cardinality(S)
  PROVE  \E T \in SUBSET S :
           Cardinality(T) = n /\ \A x \in T, y \in S \ T : f[x] >= f[y]
<1> DEFINE Top(T, i) == Cardinality(T) = i /\ \A x \in T, y \in S \ T : f[x] >= f[y]
           Bad == {i \in Nat : i <= Cardinality(S) /\ ~ \E T \in SUBSET S : Top(T, i)}
<1> SUFFICES ASSUME ~ \E T \in SUBSET S : Top(T, n) PROVE FALSE OBVIOUS
<1>0. Cardinality(S) \in Nat BY FS_CardinalityType
<1>1. PICK i \in Bad : \A m \in Bad : i <= m
  <2>1. n \in Bad OBVIOUS
  <2> HIDE DEF Bad
  <2>2. Bad \subseteq Nat BY DEF Bad
  <2> QED BY <2>1, <2>2, LeastNumber
<1>2. i # 0
  <2>1. Top({}, 0) BY FS_EmptySet
  <2>2. {} \in SUBSET S OBVIOUS
  <2> HIDE DEF Top
  <2> QED BY <2>1, <2>2
<1>3. i - 1 \in Nat /\ i - 1 <= Cardinality(S) /\ i - 1 \notin Bad
  <2>1. i \in Nat /\ i <= Cardinality(S) OBVIOUS
  <2> HIDE DEF Bad
  <2> QED BY <1>0, <1>1, <1>2, <2>1
<1>4. PICK T \in SUBSET S : Top(T, i - 1) BY <1>3
<1>5. IsFiniteSet(T) /\ IsFiniteSet(S \ T) BY FS_Subset
<1>6. S \ T # {}
  <2> SUFFICES ASSUME S = T PROVE FALSE OBVIOUS
  <2>1. Cardinality(S) = i - 1 /\ i <= Cardinality(S) BY <1>4
  <2> QED BY <2>1, <1>0, <1>3
<1>7. PICK z \in S \ T : \A y \in S \ T : f[z] >= f[y]
  BY <1>5, <1>6, Greatest
<1>8. Top(T \cup {z}, i)
  <2>1. Cardinality(T \cup {z}) = i
    <3>1. Cardinality(T \cup {z}) = i - 1 + 1 BY <1>4, <1>5, FS_AddElement
    <3> QED BY <3>1, <1>3
  <2>2. \A x \in T \cup {z}, y \in S \ (T \cup {z}) : f[x] >= f[y] BY <1>4, <1>7
  <2> QED BY <2>1, <2>2
<1>9. T \cup {z} \in SUBSET S OBVIOUS
<1>10. i \in Bad OBVIOUS
<1> HIDE DEF Top
<1> QED BY <1>8, <1>9, <1>10

-----------------------------------------------------------------------------
(* Windows and their buckets.                                              *)

\* An instant's quotient and the start of its bucket.
LEMMA Quotient ==
  ASSUME NEW t \in Int, NEW b \in Nat \ {0}
  PROVE  /\ t \div b \in Int /\ Floor(t, b) \in Int
         /\ Floor(t, b) = (t \div b) * b
         /\ (t \div b) * b <= t /\ t < (t \div b) * b + b
BY DEF Floor

\* A product of the larger is the larger.
LEMMA Times ==
  ASSUME NEW i \in Int, NEW j \in Int, NEW b \in Nat \ {0}
  PROVE  /\ i <= j => i * b <= j * b
         /\ i * b \in Int
         /\ (i + 1) * b = i * b + b
         /\ i * b - j * b = (i - j) * b
         /\ i * b < j * b + b => i <= j
OBVIOUS

\* A multiple has its factor for quotient.
LEMMA Multiple ==
  ASSUME NEW i \in Int, NEW b \in Nat \ {0}
  PROVE  (i * b) \div b = i
<1> DEFINE q == (i * b) \div b
<1>1. i * b \in Int BY Times
<1>2. q \in Int /\ q * b <= i * b /\ i * b < q * b + b BY <1>1, Quotient
<1> HIDE DEF q
<1>3. i <= q BY <1>2, Times
<1>4. q * b < i * b + b BY <1>1, <1>2, Times
<1>5. q <= i BY <1>2, <1>4, Times
<1> QED BY <1>2, <1>3, <1>5 DEF q

\* Quotients keep the order.
LEMMA QuotientOrder ==
  ASSUME NEW s \in Int, NEW t \in Int, s <= t, NEW b \in Nat \ {0}
  PROVE  s \div b <= t \div b
<1> DEFINE i == s \div b
           j == t \div b
<1>1. i \in Int /\ i * b <= s BY Quotient
<1>2. j \in Int /\ t < j * b + b BY Quotient
<1>3. i * b \in Int /\ j * b \in Int BY <1>1, <1>2, Times
<1> HIDE DEF i, j
<1>4. i * b < j * b + b BY <1>1, <1>2, <1>3
<1>5. i <= j BY <1>1, <1>2, <1>4, Times
<1> QED BY <1>5 DEF i, j

\* A window no wider than m buckets and a part of one touches at most two more.
LEMMA BucketsTouched ==
  ASSUME NEW from \in Int, NEW to \in Int, from < to, NEW b \in Nat \ {0}, NEW m \in Int,
         (to - from) \div b <= m
  PROVE  (to - 1) \div b - from \div b <= m + 1
<1> DEFINE i == from \div b
           j == (to - 1) \div b
           d == (to - from) \div b
<1>1. i \in Int /\ from < i * b + b BY Quotient
<1>2. j \in Int /\ j * b <= to - 1 BY Quotient
<1>3. d \in Int /\ to - from < d * b + b BY Quotient
<1>4. i * b \in Int /\ j * b \in Int /\ d * b \in Int BY <1>1, <1>2, <1>3, Times
<1> HIDE DEF i, j, d
<1>5. j * b < i * b + b + d * b + b BY <1>1, <1>2, <1>3, <1>4
<1>6. i * b + b + d * b = (i + d + 1) * b BY <1>1, <1>3
<1>7. j <= i + d + 1
  <2>1. i + d + 1 \in Int BY <1>1, <1>3
  <2>2. j * b < (i + d + 1) * b + b BY <1>4, <1>5, <1>6
  <2> QED BY <1>2, <2>1, <2>2, Times
<1>8. d <= m BY DEF d
<1>9. j - i <= m + 1 BY <1>1, <1>2, <1>3, <1>7, <1>8
<1> QED BY <1>9 DEF i, j

\* One more than a span's share of m buckets is wide enough for m of them.
LEMMA WideEnough ==
  ASSUME NEW span \in Nat, NEW m \in Nat \ {0}, NEW b \in Nat \ {0}, span \div m + 1 <= b
  PROVE  span \div b <= m
<1> DEFINE q == span \div m
           d == span \div b
<1>1. q \in Int /\ span < q * m + m BY Quotient
<1>2. d \in Int /\ d * b <= span BY Quotient
<1>3. q + 1 <= b BY DEF q
<1>4. q * m \in Int /\ d * b \in Int BY <1>1, <1>2, Times
<1> HIDE DEF q, d
<1>5. (q + 1) * m <= b * m BY <1>1, <1>3, Times
<1>6. (q + 1) * m = q * m + m BY <1>1, Times
<1>7. b * m = m * b /\ m * b \in Int BY Times
<1>8. d * b < m * b + b BY <1>1, <1>2, <1>4, <1>5, <1>6, <1>7
<1>9. d <= m BY <1>2, <1>8, Times
<1> QED BY <1>9 DEF d

\* The bucket chosen for a span keeps the series near its cap.
LEMMA BucketFits ==
  ASSUME NEW span \in Nat, NEW interval
  PROVE  LET b == BucketFor(span, RungOf(interval))
         IN b \in Nat \ {0} /\ span \div b <= MAX_BUCKETS
<1> USE StatsAssumption
<1> DEFINE requested == RungOf(interval)
           fit == {b \in Rungs : b >= requested /\ span \div b <= MAX_BUCKETS}
<1>1. Rungs \subseteq Nat \ {0} BY DEF Rungs
<1>2. CASE fit # {}
  <2>1. fit \subseteq Nat BY <1>1
  <2> HIDE DEF fit
  <2>2. Min(fit) \in fit BY <1>2, <2>1, MinOfNumbers
  <2>3. BucketFor(span, requested) = Min(fit) BY <1>2 DEF BucketFor, fit
  <2> QED BY <1>1, <2>2, <2>3 DEF fit
<1>3. CASE fit = {}
  <2> DEFINE b == Larger(span \div MAX_BUCKETS + 1, WEEK)
  <2>1. BucketFor(span, requested) = b BY <1>3 DEF BucketFor
  <2>2. WEEK \in Nat BY DEF WEEK
  <2>3. MAX_BUCKETS \in Nat \ {0} OBVIOUS
  <2>4. span \div MAX_BUCKETS \in Nat BY <2>3
  <2>5. b \in Nat \ {0} /\ span \div MAX_BUCKETS + 1 <= b BY <2>2, <2>4 DEF Larger
  <2> HIDE DEF b
  <2>6. span \div b <= MAX_BUCKETS BY <2>3, <2>5, WideEnough
  <2> QED BY <2>1, <2>5, <2>6
<1> QED BY <1>2, <1>3

Moment == Int \cup {Null}

\* The window of any request is an ordered range of instants in buckets of some
\* width, of which it touches at most two more than the cap.
LEMMA WindowOfRequest ==
  ASSUME NEW from \in Moment, NEW to \in Moment, NEW interval, NEW t \in Nat,
         NEW w, w = ResolveRange(from, to, interval, t)
  PROVE  /\ w.to = Clamp(OrElse(to, t), 1, MAX_INSTANT_MS)
         /\ w.from = Clamp(OrElse(from, w.to - WEEK), 0, w.to - 1)
         /\ w.to \in Int /\ w.from \in Int /\ w.bucket \in Nat \ {0}
         /\ 0 <= w.from /\ w.from < w.to /\ w.to <= MAX_INSTANT_MS
         /\ (w.to - 1) \div w.bucket - w.from \div w.bucket <= MAX_BUCKETS + 1
<1> USE StatsAssumption
<1> DEFINE asked1 == OrElse(to, t)
           end == Clamp(asked1, 1, MAX_INSTANT_MS)
           asked0 == OrElse(from, end - WEEK)
           start == Clamp(asked0, 0, end - 1)
           span == end - start
           b == BucketFor(span, RungOf(interval))
<1>1. w = [from |-> start, to |-> end, bucket |-> b] BY DEF ResolveRange
<1>2. MAX_INSTANT_MS \in Int /\ 1 <= MAX_INSTANT_MS /\ WEEK \in Int BY DEF WEEK
<1>3. asked1 \in Int BY DEF OrElse, Moment
<1>4. end \in Int /\ 1 <= end /\ end <= MAX_INSTANT_MS
  <2> HIDE DEF asked1
  <2> QED BY <1>2, <1>3 DEF Clamp
<1>5. asked0 \in Int
  <2> HIDE DEF end
  <2> QED BY <1>2, <1>4 DEF OrElse, Moment
<1>6. start \in Int /\ 0 <= start /\ start <= end - 1
  <2> HIDE DEF end, asked0
  <2>1. end - 1 \in Int /\ 0 <= end - 1 BY <1>4
  <2> QED BY <1>5, <2>1 DEF Clamp
<1>7. span \in Nat
  <2> HIDE DEF end, start
  <2> QED BY <1>4, <1>6
<1>8. b \in Nat \ {0} /\ span \div b <= MAX_BUCKETS
  <2> HIDE DEF span
  <2> QED BY <1>7, BucketFits
<1>9. (end - 1) \div b - start \div b <= MAX_BUCKETS + 1
  <2> HIDE DEF end, start, b
  <2>1. MAX_BUCKETS \in Int /\ start < end BY <1>4, <1>6
  <2> QED BY <1>4, <1>6, <1>8, <2>1, BucketsTouched
<1>10. /\ w.to = end /\ w.from = start /\ w.bucket = b
  <2> HIDE DEF end, start, b
  <2> QED BY <1>1
<1>11. /\ w.to = Clamp(OrElse(to, t), 1, MAX_INSTANT_MS)
       /\ w.from = Clamp(OrElse(from, w.to - WEEK), 0, w.to - 1)
  BY <1>10
<1>12. start < end
  <2> HIDE DEF end, start
  <2> QED BY <1>4, <1>6
<1> HIDE DEF end, start, b
<1> QED BY <1>4, <1>6, <1>8, <1>9, <1>10, <1>11, <1>12

-----------------------------------------------------------------------------
(* Series.                                                                 *)

IsWindow(w) ==
  /\ w.from \in Int /\ w.to \in Int /\ w.from < w.to /\ w.bucket \in Nat \ {0}
  /\ (w.to - 1) \div w.bucket - w.from \div w.bucket <= MAX_BUCKETS + 1

Steps(w) == (Floor(w.to - 1, w.bucket) - Floor(w.from, w.bucket)) \div w.bucket
Grid(w) == {Floor(w.from, w.bucket) + i * w.bucket : i \in 0 .. Steps(w)}

\* The rows a count of the headline and of a point is of.
Counted(S, flag, count) ==
  CASE count = "pageviews" -> Loads(S)
    [] count = "visitors" -> Flagged(Loads(S), flag)
    [] count = "events" -> Events(S)

PointAt(S, w, flag, b) ==
  Point(b, {r \in Loads(S) \cup Events(S) \cup Exceptions(S) : Floor(r.at, w.bucket) = b}, flag)

\* The grid is finite and every instant of the window falls on it.
LEMMA GridOfWindow ==
  ASSUME NEW w, IsWindow(w)
  PROVE  /\ IsFiniteSet(Grid(w)) /\ Grid(w) \subseteq Int
         /\ \A t \in Int : w.from <= t /\ t < w.to => Floor(t, w.bucket) \in Grid(w)
         /\ Steps(w) \in Nat /\ Steps(w) <= MAX_BUCKETS + 1
         /\ Floor(w.to - 1, w.bucket) - Floor(w.from, w.bucket) = Steps(w) * w.bucket
         /\ Floor(w.from, w.bucket) <= Floor(w.to - 1, w.bucket)
<1> PICK from \in Int, to \in Int, b \in Nat \ {0} :
         /\ from = w.from /\ to = w.to /\ b = w.bucket /\ from < to
         /\ (to - 1) \div b - from \div b <= MAX_BUCKETS + 1
  BY DEF IsWindow
<1>0. from < to OBVIOUS
<1> PICK steps \in Int : steps = (Floor(to - 1, b) - Floor(from, b)) \div b
  <2>1. from \in Int /\ to - 1 \in Int OBVIOUS
  <2>2. Floor(to - 1, b) \in Int /\ Floor(from, b) \in Int BY <2>1, Quotient
  <2>3. Floor(to - 1, b) - Floor(from, b) \in Int BY <2>2
  <2> QED BY <2>3, Quotient
<1>1. /\ steps \in Nat /\ steps = (to - 1) \div b - from \div b
      /\ Floor(from, b) <= Floor(to - 1, b)
      /\ Floor(to - 1, b) - Floor(from, b) = steps * b
      /\ \A t \in Int : from <= t /\ t < to =>
           \E i \in 0 .. steps : Floor(t, b) = Floor(from, b) + i * b
  <2> DEFINE i == from \div b
             j == (to - 1) \div b
  <2>1. i \in Int /\ Floor(from, b) = i * b BY Quotient
  <2>2. j \in Int /\ Floor(to - 1, b) = j * b
    <3>1. to - 1 \in Int OBVIOUS
    <3> QED BY <3>1, Quotient
  <2>3. i <= j BY QuotientOrder
  <2>4. \A t \in Int : from <= t /\ t < to =>
          /\ t \div b \in Int /\ Floor(t, b) = (t \div b) * b
          /\ i <= t \div b /\ t \div b <= j
    <3> SUFFICES ASSUME NEW t \in Int, from <= t, t < to
                 PROVE  /\ t \div b \in Int /\ Floor(t, b) = (t \div b) * b
                        /\ i <= t \div b /\ t \div b <= j
      OBVIOUS
    <3>1. t <= to - 1 /\ to - 1 \in Int OBVIOUS
    <3> QED BY <3>1, Quotient, QuotientOrder
  <2> HIDE DEF i, j
  <2>5. j * b - i * b = (j - i) * b /\ j - i \in Int BY <2>1, <2>2, Times
  <2>6. steps = j - i
    <3>1. steps = ((j - i) * b) \div b BY <2>1, <2>2, <2>5
    <3>2. ((j - i) * b) \div b = j - i BY <2>5, Multiple
    <3> QED BY <3>1, <3>2
  <2>7. i * b <= j * b /\ i * b \in Int /\ j * b \in Int BY <2>1, <2>2, <2>3, Times
  <2>8. \A t \in Int : from <= t /\ t < to =>
          \E n \in 0 .. steps : Floor(t, b) = Floor(from, b) + n * b
    <3> SUFFICES ASSUME NEW t \in Int, from <= t, t < to
                 PROVE  \E n \in 0 .. steps : Floor(t, b) = Floor(from, b) + n * b
      OBVIOUS
    <3> DEFINE q == t \div b
    <3>1. q \in Int /\ Floor(t, b) = q * b /\ i <= q /\ q <= j BY <2>4
    <3> HIDE DEF q
    <3>2. q - i \in 0 .. steps BY <2>1, <2>2, <2>6, <3>1
    <3>3. q * b - i * b = (q - i) * b /\ q * b \in Int /\ (q - i) * b \in Int
      BY <2>1, <3>1, Times
    <3>4. Floor(t, b) = Floor(from, b) + (q - i) * b BY <2>1, <2>7, <3>1, <3>3
    <3> QED BY <3>2, <3>4
  <2>9. steps = (to - 1) \div b - from \div b BY <2>6 DEF i, j
  <2> QED BY <2>1, <2>2, <2>3, <2>5, <2>6, <2>7, <2>8, <2>9
<1> DEFINE at == [i \in 0 .. steps |-> Floor(from, b) + i * b]
           G == {at[i] : i \in 0 .. steps}
<1>2. Grid(w) = G /\ Steps(w) = steps BY DEF Grid, Steps
<1>3. IsFiniteSet(G)
  <2>1. IsFiniteSet(0 .. steps) BY <1>1, FS_Interval
  <2> HIDE DEF at
  <2> QED BY <2>1, Image
<1>4. G \subseteq Int
  <2>1. Floor(from, b) \in Int BY Quotient
  <2>2. ASSUME NEW i \in 0 .. steps PROVE at[i] \in Int
    <3>1. i \in Int BY <1>1
    <3>2. i * b \in Int BY <3>1, Times
    <3> QED BY <2>1, <3>2
  <2> HIDE DEF at
  <2> QED BY <2>2
<1>5. \A t \in Int : from <= t /\ t < to => Floor(t, b) \in G BY <1>1
<1> HIDE DEF G
<1> QED BY <1>1, <1>2, <1>3, <1>4, <1>5

\* No request's series is so long that it loses its empty buckets.
LEMMA SeriesOnGrid ==
  ASSUME NEW w, IsWindow(w), NEW S, NEW flag
  PROVE  Timeseries(S, w, flag) = {PointAt(S, w, flag, b) : b \in Grid(w)}
<1> DEFINE first == Floor(w.from, w.bucket)
           last == Floor(w.to - 1, w.bucket)
<1>1. first <= last /\ Steps(w) \in Nat /\ Steps(w) <= MAX_BUCKETS + 1 BY GridOfWindow
<1>2. first \in Int /\ last \in Int
  <2>1. w.from \in Int /\ w.to - 1 \in Int /\ w.bucket \in Nat \ {0} BY DEF IsWindow
  <2> QED BY <2>1, Quotient
<1>3. ~ (first > last) /\ ~ (Steps(w) + 1 > SERIES_LIMIT)
  <2> HIDE DEF first, last
  <2>1. MAX_BUCKETS \in Nat BY StatsAssumption
  <2> QED BY <1>1, <1>2, <2>1, StatsAssumption
<1> QED BY <1>3 DEF Timeseries, PointAt, Grid, Steps

\* A point counts the rows of its bucket as the headline counts those of the window.
LEMMA CountsOfPoint ==
  ASSUME NEW S, NEW w, NEW flag, NEW b, NEW count \in Counts
  PROVE  /\ PointAt(S, w, flag, b)[count] =
              Cardinality({r \in Counted(S, flag, count) : Floor(r.at, w.bucket) = b})
         /\ Summary(S, flag)[count] = Cardinality(Counted(S, flag, count))
         /\ Counted(S, flag, count) \subseteq S
<1> DEFINE kept == {r \in Loads(S) \cup Events(S) \cup Exceptions(S) : Floor(r.at, w.bucket) = b}
<1>1. Loads(kept) = {r \in Loads(S) : Floor(r.at, w.bucket) = b} BY DEF Loads, Events, Exceptions
<1>2. Events(kept) = {r \in Events(S) : Floor(r.at, w.bucket) = b} BY DEF Loads, Events, Exceptions
<1>3. Flagged(Loads(kept), flag) = {r \in Flagged(Loads(S), flag) : Floor(r.at, w.bucket) = b}
  BY <1>1 DEF Flagged
<1>4. /\ PointAt(S, w, flag, b).pageviews = Cardinality(Loads(kept))
      /\ PointAt(S, w, flag, b).visitors = Cardinality(Flagged(Loads(kept), flag))
      /\ PointAt(S, w, flag, b).events = Cardinality(Events(kept))
  BY DEF PointAt, Point
<1>5. /\ Summary(S, flag).pageviews = Cardinality(Loads(S))
      /\ Summary(S, flag).visitors = Cardinality(Flagged(Loads(S), flag))
      /\ Summary(S, flag).events = Cardinality(Events(S))
  BY DEF Summary
<1>6. Loads(S) \subseteq S /\ Flagged(Loads(S), flag) \subseteq S /\ Events(S) \subseteq S
  BY DEF Loads, Flagged, Events
<1> HIDE DEF kept
<1>7. CASE count = "pageviews" BY <1>1, <1>4, <1>5, <1>6, <1>7 DEF Counted
<1>8. CASE count = "visitors" BY <1>3, <1>4, <1>5, <1>6, <1>8 DEF Counted
<1>9. CASE count = "events" BY <1>2, <1>4, <1>5, <1>6, <1>9 DEF Counted
<1> QED BY <1>7, <1>8, <1>9 DEF Counts

\* Points that count as those of the grid do, one to a bucket, sum to the headline.
LEMMA PointsSumToSummary ==
  ASSUME NEW w, IsWindow(w), NEW flag, NEW S, IsFiniteSet(S),
         \A r \in S : r.at \in Int /\ w.from <= r.at /\ r.at < w.to,
         NEW pt, \A b, c \in Grid(w) : pt[b] = pt[c] => b = c,
         \A b \in Grid(w) : \A count \in Counts :
           pt[b][count] = PointAt(S, w, flag, b)[count]
  PROVE  SumsTo({pt[b] : b \in Grid(w)}, Summary(S, flag))
<1> DEFINE points == {pt[b] : b \in Grid(w)}
<1> SUFFICES ASSUME NEW count \in Counts
             PROVE  Summary(S, flag)[count] = SumFunction([p \in points |-> p[count]])
  BY DEF SumsTo
<1> DEFINE f == [p \in points |-> p[count]]
           C == Counted(S, flag, count)
           k == [r \in C |-> pt[Floor(r.at, w.bucket)]]
<1>1. C \subseteq S /\ IsFiniteSet(C)
  <2> HIDE DEF C
  <2>1. C \subseteq S BY CountsOfPoint DEF C
  <2> QED BY <2>1, FS_Subset
<1>2. IsFiniteSet(points) BY GridOfWindow, Image
<1>3. \A r \in C : Floor(r.at, w.bucket) \in Grid(w)
  <2> HIDE DEF C
  <2> QED BY <1>1, GridOfWindow
<1>4. k \in [C -> points]
  <2> HIDE DEF C
  <2> QED BY <1>3
<1>5. \A p \in points : f[p] = Cardinality({r \in C : k[r] = p})
  <2> TAKE p \in points
  <2> PICK b \in Grid(w) : p = pt[b] OBVIOUS
  <2>1. f[p] = Cardinality({r \in C : Floor(r.at, w.bucket) = b})
    <3>1. f[p] = pt[b][count] OBVIOUS
    <3>2. pt[b][count] = PointAt(S, w, flag, b)[count] OBVIOUS
    <3> HIDE DEF f, C
    <3> QED BY <3>1, <3>2, CountsOfPoint DEF C
  <2>2. {r \in C : k[r] = p} = {r \in C : Floor(r.at, w.bucket) = b}
    <3> HIDE DEF C
    <3> QED BY <1>3
  <2> QED BY <2>1, <2>2
<1>6. DOMAIN f = points OBVIOUS
<1>7. SumFunctionOnSet(f, points) = Cardinality(C)
  <2> HIDE DEF f, C, k, points
  <2>1. Tallied(C, points, k, f) BY <1>1, <1>2, <1>4, <1>5 DEF Tallied
  <2> QED BY <2>1, CountByKey
<1>8. SumFunction(f) = Cardinality(C)
  <2> HIDE DEF f, C, points
  <2> QED BY <1>6, <1>7 DEF SumFunction
<1> HIDE DEF f
<1> QED BY <1>8, CountsOfPoint DEF f

-----------------------------------------------------------------------------
(* The windows of the reports in use.                                      *)

\* A picked range always resolves to two instants.
LEMMA ResolvedRange ==
  ASSUME NEW range, IsRange(range), NEW t \in Int
  PROVE  Resolve(range, t).from \in Int /\ Resolve(range, t).to \in Int
<1> USE StatsAssumption
<1>1. CASE IsPreset(range)
  <2>1. range.token \in Tokens BY <1>1 DEF IsRange
  <2>2. CASE range.token = "all" BY <1>1, <2>2 DEF Resolve
  <2>3. CASE range.token # "all"
    <3>1. Days[range.token] \in Int BY <2>1, <2>3 DEF Tokens, Days
    <3>2. DAY \in Int OBVIOUS
    <3>3. Days[range.token] * DAY \in Int BY <3>1, <3>2
    <3>4. Resolve(range, t) = [from |-> t - Days[range.token] * DAY, to |-> t,
                               interval |-> PresetInterval[range.token]]
      BY <1>1, <2>3 DEF Resolve
    <3> QED BY <3>3, <3>4
  <2> QED BY <2>2, <2>3
<1>2. CASE ~ IsPreset(range)
  <2>1. range.from \in Int /\ range.to \in Int BY <1>2 DEF IsRange
  <2>2. Resolve(range, t).from = range.from /\ Resolve(range, t).to = range.to
    BY <1>2 DEF Resolve
  <2> QED BY <2>1, <2>2
<1> QED BY <1>1, <1>2

\* Rows with an instant each.
Timed(R) == {r.at : r \in R} \subseteq Nat

\* The start of "all time" is an instant, and no row is before it.
LEMMA AnchoredStart ==
  ASSUME NEW R, Timed(R), NEW from \in Moment
  PROVE  /\ Anchored(R, from) \in Moment
         /\ from # Null /\ from <= 0 =>
              \A r \in R : Anchored(R, from) \in Nat /\ Anchored(R, from) <= r.at
<1> DEFINE ats == {r.at : r \in R}
<1>1. CASE from # Null /\ from <= 0
  <2>1. Anchored(R, from) = EarliestRow(R) BY <1>1 DEF Anchored
  <2>2. CASE R = {} BY <2>1, <2>2 DEF EarliestRow, Moment
  <2>3. CASE R # {}
    <3>1. ats # {} /\ ats \subseteq Nat BY <2>3 DEF Timed
    <3>2. EarliestRow(R) = Min(ats) BY <2>3 DEF EarliestRow
    <3>3. \A r \in R : r.at \in ats OBVIOUS
    <3> HIDE DEF ats
    <3>4. Min(ats) \in Nat /\ \A y \in ats : Min(ats) <= y BY <3>1, MinOfNumbers
    <3> QED BY <2>1, <3>2, <3>3, <3>4 DEF Moment
  <2> QED BY <2>2, <2>3
<1>2. CASE ~ (from # Null /\ from <= 0) BY <1>2 DEF Anchored
<1> QED BY <1>1, <1>2

\* A report's window is a window, and all time is all the rows before its end.
LEMMA WindowOfReport ==
  ASSUME NEW R, Timed(R), NEW ask, ask.from \in Moment, ask.to \in Moment, NEW t \in Nat,
         NEW w, w = ReportWindow(R, ask, t)
  PROVE  /\ IsWindow(w) /\ 0 <= w.from /\ w.to <= MAX_INSTANT_MS
         /\ ask.from # Null /\ ask.from <= 0 =>
              {r \in R : r.at < w.to} \subseteq Window(R, w)
<1> PICK start \in Moment : start = Anchored(R, ask.from) BY AnchoredStart
<1>1. w = ResolveRange(start, ask.to, ask.interval, t) BY DEF ReportWindow
<1>2. /\ w.from = Clamp(OrElse(start, w.to - WEEK), 0, w.to - 1)
      /\ w.to \in Int /\ w.from \in Int /\ w.bucket \in Nat \ {0}
      /\ 0 <= w.from /\ w.from < w.to /\ w.to <= MAX_INSTANT_MS
      /\ (w.to - 1) \div w.bucket - w.from \div w.bucket <= MAX_BUCKETS + 1
  BY <1>1, WindowOfRequest
<1>3. ASSUME ask.from # Null, ask.from <= 0, NEW r \in R, r.at < w.to
      PROVE  r \in Window(R, w)
  <2>1. start \in Nat /\ start <= r.at BY <1>3, AnchoredStart
  <2>2. r.at \in Nat BY DEF Timed
  <2>3. start # Null BY <2>1, StatsAssumption
  <2>4. w.from = Clamp(start, 0, w.to - 1) BY <1>2, <2>3 DEF OrElse
  <2>5. w.from <= r.at BY <1>2, <1>3, <2>1, <2>2, <2>4 DEF Clamp
  <2> QED BY <1>3, <2>5 DEF Window
<1> QED BY <1>2, <1>3 DEF IsWindow

\* What the dashboard, or another client, asks for has instants for its ends.
LEMMA AskedInstants ==
  ASSUME IsRange(set.range), now \in Nat, asked \in Asks \cup {Null}
  PROVE  StatsAsk.from \in Moment /\ StatsAsk.to \in Moment
<1>1. CASE asked # Null
  <2>1. asked.from \in Moment /\ asked.to \in Moment BY <1>1, ReportsAssumption DEF Moment
  <2> QED BY <1>1, <2>1 DEF StatsAsk, Request
<1>2. CASE asked = Null
  <2> PICK window : window = Resolve(set.range, now) OBVIOUS
  <2>1. window.from \in Int /\ window.to \in Int BY ResolvedRange
  <2>2. StatsQuery(set, now).window = window BY DEF StatsQuery
  <2>3. StatsAsk.from = window.from /\ StatsAsk.to = window.to
    BY <1>2, <2>2 DEF StatsAsk, AskOf, Request
  <2> QED BY <2>1, <2>3 DEF Moment
<1> QED BY <1>1, <1>2

\* Filtering keeps rows of those it is given, all of them when nothing is asked.
LEMMA KeptRows ==
  ASSUME NEW R, NEW fields, NEW q
  PROVE  /\ Kept(R, fields, q) # Err => Kept(R, fields, q).yes \subseteq R
         /\ Answerable(Kept(R, fields, q)) \subseteq R
         /\ q = Blank => Answerable(Kept(R, fields, q)) = R
<1> DEFINE kept == Kept(R, fields, q)
           p == CompileQuery(R, fields, ReadText(q))
<1>0. \A S : Sure(S).yes = S /\ Sure(S) # Err BY DEF Sure, Pred, Err
<1>1. kept = Sure(R) \/ kept = Err \/ kept = Sure(R \cap p.yes) BY DEF Kept
<1>2. q = Blank => kept = Sure(R) BY DEF Kept
<1> HIDE DEF kept, p
<1>3. kept # Err => kept.yes \subseteq R BY <1>0, <1>1
<1>4. Answerable(kept) \subseteq R BY <1>3 DEF Answerable
<1>5. q = Blank => Answerable(kept) = R BY <1>0, <1>2 DEF Answerable
<1> QED BY <1>3, <1>4, <1>5 DEF kept

\* An answer's rows are rows of its window and of the one before it.
LEMMA AnswerRows ==
  ASSUME Timed(rows), IsFiniteSet(rows), NEW answer \in Shown,
         NEW w, w = ReportWindow(rows, StatsAsk, now), IsWindow(w)
  PROVE  /\ answer.w = w
         /\ answer.current \subseteq rows /\ IsFiniteSet(answer.current)
         /\ \A r \in answer.current : r.at \in Int /\ w.from <= r.at /\ r.at < w.to
         /\ answer.previous \subseteq rows /\ IsFiniteSet(answer.previous)
         /\ \A r \in answer.previous :
              r.at \in Int /\ w.from - (w.to - w.from) <= r.at /\ r.at < w.from
<1> DEFINE before == [from |-> w.from - (w.to - w.from), to |-> w.to]
<1> PICK kept : kept = Kept(Window(rows, before), "dashboard", StatsAsk.q) OBVIOUS
<1>1. answer = Answered(w, StatsAsk.q, kept) BY DEF Shown, Stats, StatsOver, Scan
<1>2. answer.status = 200 BY DEF Shown
<1>3. kept # Err BY <1>1, <1>2 DEF Answered
<1>4. /\ answer.w = w
      /\ answer.current = {r \in kept.yes : r.at >= w.from}
      /\ answer.previous = {r \in kept.yes : r.at < w.from}
  BY <1>1, <1>3 DEF Answered
<1>5. kept.yes \subseteq Window(rows, before) BY <1>3, KeptRows
<1>6. \A r \in kept.yes :
        /\ r \in rows /\ r.at \in Int
        /\ w.from - (w.to - w.from) <= r.at /\ r.at < w.to
  <2>1. \A r \in Window(rows, before) :
          r \in rows /\ w.from - (w.to - w.from) <= r.at /\ r.at < w.to
    BY DEF Window
  <2>2. \A r \in rows : r.at \in Int BY DEF Timed
  <2> QED BY <1>5, <2>1, <2>2
<1>7. answer.current \subseteq rows /\ answer.previous \subseteq rows BY <1>4, <1>6
<1>8. IsFiniteSet(answer.current) /\ IsFiniteSet(answer.previous) BY <1>7, FS_Subset
<1>9. w.from \in Int BY DEF IsWindow
<1> QED BY <1>4, <1>6, <1>7, <1>8, <1>9

-----------------------------------------------------------------------------
(* Type correctness.                                                       *)

\* What the state always is: few enough rows to count, the clock a tick.
Typical == TypeOK /\ now \in Nat /\ IsFiniteSet(rows)

\* The rows of the store are rows with instants.
LEMMA RowsTimed ==
  ASSUME TypeOK
  PROVE  Timed(rows) /\ \A r, s \in rows : r.at = s.at => r = s
BY ReportsAssumption DEF TypeOK, Timed

LEMMA DashboardWindow ==
  ASSUME Typical, NEW w, w = ReportWindow(rows, StatsAsk, now)
  PROVE  /\ IsWindow(w) /\ 0 <= w.from /\ w.to <= MAX_INSTANT_MS
         /\ StatsAsk.from # Null /\ StatsAsk.from <= 0 =>
              {r \in rows : r.at < w.to} \subseteq Window(rows, w)
<1>1. Timed(rows) BY RowsTimed DEF Typical
<1>2. StatsAsk.from \in Moment /\ StatsAsk.to \in Moment BY AskedInstants DEF Typical, TypeOK
<1> PICK ask : ask = StatsAsk OBVIOUS
<1>3. now \in Nat BY DEF Typical
<1> QED BY <1>1, <1>2, <1>3, WindowOfReport

\* Writing the URL and reading it back keeps the range.
LEMMA RangeOfPairs ==
  ASSUME NEW edited, IsRange(edited.range)
  PROVE  LET read == ParsePairs(ToPairs(edited))
         IN DOMAIN read = {"range", "query"} /\ IsRange(read.range)
<1> PICK pairs : pairs = ToPairs(edited) OBVIOUS
<1> PICK range : range = edited.range OBVIOUS
<1> PICK read : read = ParsePairs(pairs) OBVIOUS
<1>1. IsRange(DefaultRange) BY DEF DefaultRange, IsRange, IsPreset, Preset, Tokens, Days
<1>2. \A token \in Tokens : IsRange(Preset(token)) BY DEF IsRange, IsPreset, Preset
<1>3. DOMAIN read = {"range", "query"} BY DEF ParsePairs
<1>4. CASE IsPreset(range)
  <2>1. pairs.from = Null /\ pairs.to = Null BY <1>4 DEF ToPairs
  <2>2. read.range = IF pairs.range \in Tokens THEN Preset(pairs.range) ELSE DefaultRange
    BY <2>1 DEF ParsePairs
  <2> QED BY <1>1, <1>2, <1>3, <2>2
<1>5. CASE ~ IsPreset(range)
  <2>1. pairs.from = range.from /\ pairs.to = range.to BY <1>5 DEF ToPairs
  <2>2. /\ range = Custom(range.from, range.to) /\ {range.from, range.to} \subseteq Int
        /\ range.from < range.to
    BY <1>5 DEF IsRange
  <2>3. range.from # Null /\ range.to # Null BY <2>2, StatsAssumption
  <2>4. read.range = Custom(range.from, range.to) BY <2>1, <2>2, <2>3 DEF ParsePairs
  <2> QED BY <1>3, <2>2, <2>4
<1> QED BY <1>4, <1>5

\* An edit of a filter state reads as a filter state.
LEMMA ApplyTyped ==
  ASSUME Typical, NEW edited, IsRange(edited.range), Apply(edited)
  PROVE  Typical'
<1>1. set' = ParsePairs(ToPairs(edited)) /\ Parts(set') <= MaxParts BY DEF Apply
<1>2. DOMAIN set' = {"range", "query"} /\ IsRange((set').range) BY <1>1, RangeOfPairs
<1>3. UNCHANGED <<rows, now, detail>> /\ asked' = Null BY DEF Apply
<1> QED BY <1>1, <1>2, <1>3 DEF Typical, TypeOK

\* The greatest of finitely many integers is one of them.
LEMMA MaxOfFinite ==
  ASSUME NEW S, S \subseteq Int, IsFiniteSet(S), S # {}
  PROVE  Max(S) \in S /\ \A y \in S : y <= Max(S)
<1> DEFINE f == [x \in S |-> x]
<1>1. \A x \in S : f[x] \in Int OBVIOUS
<1> HIDE DEF f
<1>2. PICK x \in S : \A y \in S : f[x] >= f[y] BY <1>1, Greatest
<1>3. \A y \in S : x >= y BY <1>2 DEF f
<1>4. Max(S) \in S /\ \A y \in S : Max(S) >= y BY <1>3 DEF Max
<1> QED BY <1>4

\* The points of a series lie on the grid of its window.
LEMMA PointInstants ==
  ASSUME NEW w, IsWindow(w), NEW S, NEW flag
  PROVE  {p.timestamp_ms : p \in Timeseries(S, w, flag)} = Grid(w)
<1>1. \A b : PointAt(S, w, flag, b).timestamp_ms = b BY DEF PointAt, Point
<1>2. Timeseries(S, w, flag) = {PointAt(S, w, flag, b) : b \in Grid(w)} BY SeriesOnGrid
<1> QED BY <1>1, <1>2

\* Each edit gives a filter state.
LEMMA EditTyped ==
  ASSUME Typical, DOMAIN set = {"range", "query"}
  PROVE  /\ \A query : IsRange(WithQuery(set, query).range)
         /\ \A d, v : IsRange(With(set, d, v).range)
         /\ \A d : IsRange(Without(set, d).range)
         /\ IsRange(WithoutAdvanced(set).range)
         /\ \A range : WithRange(set, range).range = range
<1>1. IsRange(set.range) BY DEF Typical, TypeOK
<1> QED BY <1>1 DEF WithQuery, With, Without, WithoutAdvanced, WithRange

\* Every step keeps the types: an edit writes a range that reads as one, and
\* zooming asks for instants in order.
LEMMA TypicalStep == Typical /\ [Next]_vars => Typical'
<1> SUFFICES ASSUME Typical, [Next]_vars PROVE Typical' OBVIOUS
<1>0. DOMAIN set = {"range", "query"} BY DEF Typical, TypeOK
<1>1. ASSUME NEW r \in Arrivals, Arrive(r) PROVE Typical'
  <2>1. r \in Shapes /\ r.at \in Nat BY ReportsAssumption DEF Arrivals
  <2>2. /\ now <= r.at /\ rows' = rows \cup {r} /\ now' = r.at + 1
        /\ UNCHANGED <<set, asked, detail>>
    BY <1>1 DEF Arrive
  <2>3. \A s \in rows : s.at \in Nat /\ s.at < now BY RowsTimed DEF Typical, TypeOK, Timed
  <2>4. now \in Nat BY DEF Typical
  <2>5. \A s \in rows' : s.at < now' BY <2>1, <2>2, <2>3, <2>4
  <2>6. IsFiniteSet(rows') BY <2>2, FS_AddElement DEF Typical
  <2> QED BY <2>1, <2>2, <2>5, <2>6 DEF Typical, TypeOK
<1>2. CASE Lapse
  <2>1. rows' \subseteq rows /\ UNCHANGED <<now, set, asked, detail>> BY <1>2 DEF Lapse
  <2>2. IsFiniteSet(rows') BY <2>1, FS_Subset DEF Typical
  <2> QED BY <2>1, <2>2 DEF Typical, TypeOK
<1>3. ASSUME NEW text \in Texts, TypeText(text) PROVE Typical'
  BY <1>0, <1>3, EditTyped, ApplyTyped DEF TypeText
<1>4. ASSUME NEW panel \in Clicked, ClickRow(panel) PROVE Typical'
  <2> PICK answer \in Shown : \E row \in PanelRows(answer, panel) :
        Apply(Toggled(set, PanelTerms(panel, row)))
    BY <1>4 DEF ClickRow
  <2> PICK row \in PanelRows(answer, panel) : Apply(Toggled(set, PanelTerms(panel, row)))
    OBVIOUS
  <2> PICK edited : edited = Toggled(set, PanelTerms(panel, row)) OBVIOUS
  <2>1. \E query : edited = WithQuery(set, query) BY DEF Toggled
  <2>2. IsRange(edited.range) BY <1>0, <2>1, EditTyped
  <2> QED BY <2>2, ApplyTyped
<1>5. ASSUME NEW chip \in Added, AddChip(chip) PROVE Typical'
  BY <1>0, <1>5, EditTyped, ApplyTyped DEF AddChip
<1>6. ASSUME NEW d \in Dims, RemoveChip(d) PROVE Typical'
  BY <1>0, <1>6, EditTyped, ApplyTyped DEF RemoveChip
<1>7. CASE RemoveAdvanced BY <1>0, <1>7, EditTyped, ApplyTyped DEF RemoveAdvanced
<1>8. CASE Clear BY <1>0, <1>8, EditTyped, ApplyTyped DEF Clear
<1>9. ASSUME NEW range \in Ranges, PickRange(range) PROVE Typical'
  <2>1. IsRange(range) BY ReportsAssumption DEF Ranges
  <2>2. IsRange(WithRange(set, range).range) BY <1>0, <2>1, EditTyped
  <2> QED BY <1>9, <2>2, ApplyTyped DEF PickRange
<1>10. CASE Zoom
  <2> PICK w : w = ReportWindow(rows, StatsAsk, now) OBVIOUS
  <2>1. IsWindow(w) BY DashboardWindow
  <2> PICK answer \in Shown :
        LET bucket == answer.w.bucket
            points == {p.timestamp_ms : p \in Timeseries(answer.current, answer.w, answer.flag)}
        IN \E low \in {Floor(r.at, bucket) : r \in answer.current} \cap points :
             /\ low < Max(points)
             /\ Apply(WithRange(set, Custom(low, Max(points) + bucket)))
    BY <1>10 DEF Zoom
  <2>2. answer.w = w BY <2>1, RowsTimed, AnswerRows DEF Typical
  <2>3. {p.timestamp_ms : p \in Timeseries(answer.current, w, answer.flag)} = Grid(w)
    BY <2>1, PointInstants
  <2> PICK points : points = Grid(w) OBVIOUS
  <2> PICK low \in points :
        low < Max(points) /\ Apply(WithRange(set, Custom(low, Max(points) + w.bucket)))
    BY <2>2, <2>3
  <2>4. points \subseteq Int /\ IsFiniteSet(points) BY <2>1, GridOfWindow
  <2>5. Max(points) \in Int BY <2>4, MaxOfFinite
  <2>6. w.bucket \in Nat \ {0} BY <2>1 DEF IsWindow
  <2> PICK range : range = Custom(low, Max(points) + w.bucket) OBVIOUS
  <2>7. IsRange(range)
    <3> PICK top \in Int : top = Max(points) BY <2>5
    <3>1. low \in Int /\ top + w.bucket \in Int /\ low < top + w.bucket BY <2>4, <2>6
    <3> QED BY <3>1 DEF IsRange, IsPreset, Custom
  <2>8. IsRange(WithRange(set, range).range) BY <1>0, <2>7, EditTyped
  <2> QED BY <2>8, ApplyTyped
<1>11. ASSUME NEW ask \in Requests, AskStats(ask) PROVE Typical'
  BY <1>11 DEF AskStats, Requests, Typical, TypeOK
<1>12. CASE AskEnds BY <1>12 DEF AskEnds, Typical, TypeOK
<1>13. ASSUME NEW kind, NEW occurrences, NEW window, Open(kind, occurrences, window)
       PROVE  Typical'
  BY <1>13 DEF Open, Typical, TypeOK
<1>14. CASE OpenException BY <1>13, <1>14 DEF OpenException
<1>15. CASE OpenEvent BY <1>13, <1>15 DEF OpenEvent
<1>16. CASE ReadSessions
  <2>1. detail'.pc = "done" /\ UNCHANGED <<rows, now, set, asked>> BY <1>16 DEF ReadSessions
  <2> QED BY <2>1 DEF Typical, TypeOK
<1>17. CASE CloseDetail BY <1>17 DEF CloseDetail, NoDetail, Typical, TypeOK
<1>18. CASE UNCHANGED vars BY <1>18 DEF vars, Typical, TypeOK
<1> QED BY <1>1, <1>2, <1>3, <1>4, <1>5, <1>6, <1>7, <1>8, <1>9, <1>10, <1>11, <1>12,
           <1>14, <1>15, <1>16, <1>17, <1>18 DEF Next

\* Nothing is filtered by, stored or asked for at first.
LEMMA TypicalInit == Init => Typical
<1> SUFFICES ASSUME Init PROVE Typical OBVIOUS
<1>1. IsFiniteSet(rows) BY FS_EmptySet DEF Init
<1>2. IsRange(set.range) /\ DOMAIN set = {"range", "query"} /\ set.range = DefaultRange
  BY DEF Init, EmptySet, DefaultRange, IsRange, IsPreset, Preset, Tokens, Days
<1>3. Parts(set) = 0
  BY <1>2, StatsAssumption DEF Init, EmptySet, NoQuery, Parts
<1>4. Parts(set) <= MaxParts BY <1>3, ReportsAssumption
<1> QED BY <1>1, <1>2, <1>4 DEF Init, NoDetail, Typical, TypeOK

\* The filter state always has a range that reads as one, and every stored row is of
\* the past: stats.rs and filters.rs never hold a range out of order.
THEOREM TypeCorrect == Spec => []TypeOK
<1>1. Typical => TypeOK BY DEF Typical
<1> QED BY <1>1, TypicalInit, TypicalStep, PTL DEF Spec

-----------------------------------------------------------------------------
(* The chart and the headline.                                             *)

Shift(r, len) == [r EXCEPT !.at = @ + len]

\* Rows moved in time count as they did, where no two share an instant.
LEMMA ShiftedCounts ==
  ASSUME NEW S, IsFiniteSet(S), S \subseteq Shapes, NEW len \in Int,
         NEW flag, flag # "at", NEW count \in Counts
  PROVE  LET moved == {Shift(r, len) : r \in S}
         IN Cardinality(Counted(moved, flag, count)) = Cardinality(Counted(S, flag, count))
<1> DEFINE moved == {Shift(r, len) : r \in S}
           A == Counted(S, flag, count)
           B == Counted(moved, flag, count)
           f == [r \in A |-> Shift(r, len)]
<1>1. \A r \in S : /\ r.at \in Int /\ {"at", "kind"} \subseteq DOMAIN r
                   /\ \A s \in S : r.at = s.at => r = s
  BY ReportsAssumption
<1>2. \A r \in S : /\ Shift(r, len).at = r.at + len /\ Shift(r, len).kind = r.kind
                   /\ Val(Shift(r, len), flag) = Val(r, flag)
  <2> TAKE r \in S
  <2>1. "at" \in DOMAIN r /\ DOMAIN Shift(r, len) = DOMAIN r BY <1>1 DEF Shift
  <2>2. \A c \in DOMAIN r : c # "at" => Shift(r, len)[c] = r[c] BY DEF Shift
  <2>3. Shift(r, len).at = r.at + len BY <2>1 DEF Shift
  <2>4. Shift(r, len).kind = r.kind BY <1>1, <2>2
  <2>5. Val(Shift(r, len), flag) = Val(r, flag) BY <2>1, <2>2 DEF Val
  <2> QED BY <2>3, <2>4, <2>5
<1>3. A \subseteq S /\ IsFiniteSet(A)
  <2> HIDE DEF A
  <2>1. A \subseteq S BY CountsOfPoint DEF A
  <2> QED BY <2>1, FS_Subset
<1>4. B = {Shift(r, len) : r \in A}
  <2>1. \A r \in S : Shift(r, len) \in B <=> r \in A
    <3> TAKE r \in S
    <3>1. Shift(r, len) \in moved OBVIOUS
    <3>2. Shift(r, len).kind = r.kind /\ Val(Shift(r, len), flag) = Val(r, flag) BY <1>2
    <3> HIDE DEF moved
    <3>3. CASE count = "pageviews" BY <3>1, <3>2, <3>3 DEF Counted, Loads
    <3>4. CASE count = "visitors" BY <3>1, <3>2, <3>4 DEF Counted, Loads, Flagged
    <3>5. CASE count = "events" BY <3>1, <3>2, <3>5 DEF Counted, Events, IsEvent
    <3> QED BY <3>3, <3>4, <3>5 DEF Counts
  <2>2. B \subseteq moved
    <3> HIDE DEF B, moved
    <3> QED BY CountsOfPoint DEF B
  <2> HIDE DEF A, B
  <2> QED BY <1>3, <2>1, <2>2
<1>5. ExistsBijection(A, B)
  <2>1. \A r, s \in A : f[r] = f[s] => r = s
    <3> SUFFICES ASSUME NEW r \in A, NEW s \in A, f[r] = f[s] PROVE r = s OBVIOUS
    <3> HIDE DEF A
    <3>1. r \in S /\ s \in S BY <1>3
    <3>2. r.at + len = s.at + len /\ r.at \in Int /\ s.at \in Int BY <1>1, <1>2, <3>1
    <3>3. r.at = s.at BY <3>2
    <3> QED BY <1>1, <3>1, <3>3
  <2> HIDE DEF A, B
  <2>2. f \in [A -> B] BY <1>4
  <2>3. \A t \in B : \E r \in A : f[r] = t BY <1>4
  <2> HIDE DEF f
  <2>4. f \in Bijection(A, B) BY <2>1, <2>2, <2>3 DEF Bijection, Injection, Surjection, IsInjective
  <2> QED BY <2>4 DEF ExistsBijection
<1> HIDE DEF A, B, f
<1>6. Cardinality(A) = Cardinality(B) BY <1>3, <1>5, FS_Bijection
<1> QED BY <1>6 DEF A, B

\* A series sums to the headline of the same rows.
LEMMA SeriesSums ==
  ASSUME NEW w, IsWindow(w), NEW flag, NEW S, IsFiniteSet(S),
         \A r \in S : r.at \in Int /\ w.from <= r.at /\ r.at < w.to
  PROVE  SumsTo(Timeseries(S, w, flag), Summary(S, flag))
<1> DEFINE pt == [b \in Grid(w) |-> PointAt(S, w, flag, b)]
<1>1. \A b, c \in Grid(w) : pt[b] = pt[c] => b = c
  <2>1. \A b : PointAt(S, w, flag, b).timestamp_ms = b BY DEF PointAt, Point
  <2> QED BY <2>1
<1>2. \A b \in Grid(w) : \A count \in Counts : pt[b][count] = PointAt(S, w, flag, b)[count]
  OBVIOUS
<1>3. Timeseries(S, w, flag) = {pt[b] : b \in Grid(w)} BY SeriesOnGrid
<1> HIDE DEF pt
<1> QED BY <1>1, <1>2, <1>3, PointsSumToSummary

\* So does the series of the window before, on the grid of this one.
LEMMA PreviousSums ==
  ASSUME NEW w, IsWindow(w), NEW flag, flag # "at",
         NEW S, IsFiniteSet(S), S \subseteq Shapes,
         \A r \in S : r.at \in Int /\ w.from - (w.to - w.from) <= r.at /\ r.at < w.from
  PROVE  /\ SumsTo(PreviousTimeseries(S, w, flag), Summary(S, flag))
         /\ {p.timestamp_ms + w.to : p \in PreviousTimeseries(S, w, flag)} =
              {b + w.from : b \in Grid(w)}
<1> PICK len \in Int : len = w.to - w.from BY DEF IsWindow
<1> DEFINE moved == {Shift(r, len) : r \in S}
           at(b) == PointAt(moved, w, flag, b)
           pt == [b \in Grid(w) |-> [at(b) EXCEPT !.timestamp_ms = @ - len]]
           points == PreviousTimeseries(S, w, flag)
<1>0. Grid(w) \subseteq Int /\ w.to \in Int /\ w.from \in Int BY GridOfWindow DEF IsWindow
<1>1. \A b \in Grid(w) :
        /\ pt[b].timestamp_ms = b - len
        /\ \A count \in Counts : pt[b][count] = at(b)[count]
  <2> TAKE b \in Grid(w)
  <2> PICK p : p = at(b) OBVIOUS
  <2>1. DOMAIN p = {"timestamp_ms", "pageviews", "visitors", "events", "exceptions"}
        /\ p.timestamp_ms = b
    BY DEF PointAt, Point
  <2>2. pt[b] = [p EXCEPT !.timestamp_ms = @ - len] OBVIOUS
  <2> HIDE DEF pt, at
  <2>3. pt[b].timestamp_ms = b - len BY <2>1, <2>2
  <2>4. \A count \in Counts : pt[b][count] = p[count] BY <2>1, <2>2 DEF Counts
  <2> QED BY <2>3, <2>4
<1>2. points = {pt[b] : b \in Grid(w)}
  <2>1. points = {[p EXCEPT !.timestamp_ms = @ - len] : p \in Timeseries(moved, w, flag)}
    BY DEF PreviousTimeseries, Shift
  <2>2. Timeseries(moved, w, flag) = {at(b) : b \in Grid(w)} 
    <3> HIDE DEF moved
    <3> QED BY SeriesOnGrid
  <2> HIDE DEF moved, at, points
  <2> QED BY <2>1, <2>2
<1>3. \A b, c \in Grid(w) : pt[b] = pt[c] => b = c
  <2> SUFFICES ASSUME NEW b \in Grid(w), NEW c \in Grid(w), pt[b] = pt[c] PROVE b = c OBVIOUS
  <2> HIDE DEF pt
  <2>1. b - len = c - len /\ b \in Int /\ c \in Int BY <1>0, <1>1
  <2> QED BY <2>1
<1>4. IsFiniteSet(moved)
  <2> DEFINE f == [r \in S |-> Shift(r, len)]
  <2>1. moved = {f[r] : r \in S} OBVIOUS
  <2> HIDE DEF f
  <2> QED BY <2>1, Image
<1>5. \A r \in moved : r.at \in Int /\ w.from <= r.at /\ r.at < w.to
  <2> SUFFICES ASSUME NEW r \in S
               PROVE  LET at2 == Shift(r, len).at
                      IN at2 \in Int /\ w.from <= at2 /\ at2 < w.to
    OBVIOUS
  <2>1. "at" \in DOMAIN r BY ReportsAssumption
  <2>2. Shift(r, len).at = r.at + len BY <2>1 DEF Shift
  <2> QED BY <1>0, <2>2
<1>6. SumsTo(points, Summary(moved, flag))
  <2>1. \A b \in Grid(w) : \A count \in Counts :
          pt[b][count] = PointAt(moved, w, flag, b)[count]
    BY <1>1
  <2> HIDE DEF moved, at, pt, points
  <2> QED BY <1>2, <1>3, <1>4, <1>5, <2>1, PointsSumToSummary
<1>7. ASSUME NEW count \in Counts
      PROVE  Summary(moved, flag)[count] = Summary(S, flag)[count]
  <2>1. Cardinality(Counted(moved, flag, count)) = Cardinality(Counted(S, flag, count))
    BY ShiftedCounts
  <2> HIDE DEF moved
  <2> PICK b : b = 0 OBVIOUS
  <2>2. Summary(moved, flag)[count] = Cardinality(Counted(moved, flag, count))
    BY CountsOfPoint
  <2>3. Summary(S, flag)[count] = Cardinality(Counted(S, flag, count)) BY CountsOfPoint
  <2> QED BY <2>1, <2>2, <2>3
<1>8. {p.timestamp_ms + w.to : p \in points} = {b + w.from : b \in Grid(w)}
  <2>1. \A b \in Grid(w) : pt[b].timestamp_ms + w.to = b + w.from
    <3> HIDE DEF pt
    <3> QED BY <1>0, <1>1
  <2> HIDE DEF pt, points
  <2>2. {p.timestamp_ms + w.to : p \in points} = {pt[b].timestamp_ms + w.to : b \in Grid(w)}
    BY <1>2
  <2> QED BY <2>1, <2>2
<1> HIDE DEF moved, points, pt
<1>9. SumsTo(points, Summary(S, flag)) BY <1>6, <1>7 DEF SumsTo
<1> QED BY <1>8, <1>9 DEF points

LEMMA TypicalSums == Typical => SeriesSumsToSummary
<1> SUFFICES ASSUME Typical PROVE SeriesSumsToSummary OBVIOUS
<1> PICK w : w = ReportWindow(rows, StatsAsk, now) OBVIOUS
<1>1. /\ IsWindow(w) /\ 0 <= w.from /\ w.to <= MAX_INSTANT_MS
      /\ StatsAsk.from # Null /\ StatsAsk.from <= 0 =>
           {r \in rows : r.at < w.to} \subseteq Window(rows, w)
  BY DashboardWindow
<1>2. RangeSane
  <2>1. Floor(w.to - 1, w.bucket) - Floor(w.from, w.bucket) <= (MAX_BUCKETS + 1) * w.bucket
    <3> PICK steps \in Nat, b \in Nat \ {0}, m \in Int :
               steps = Steps(w) /\ b = w.bucket /\ m = MAX_BUCKETS
      BY <1>1, GridOfWindow, StatsAssumption DEF IsWindow
    <3>1. steps <= m + 1 BY <1>1, GridOfWindow
    <3>2. steps * b <= (m + 1) * b
      <4>1. steps \in Int /\ m + 1 \in Int OBVIOUS
      <4> QED BY <3>1, <4>1, Times
    <3> QED BY <1>1, <3>2, GridOfWindow
  <2>2. w.from < w.to BY <1>1 DEF IsWindow
  <2> QED BY <1>1, <2>1, <2>2 DEF RangeSane
<1>3. ASSUME NEW answer \in Shown
      PROVE  LET series == Timeseries(answer.current, answer.w, answer.flag)
                 before == PreviousTimeseries(answer.previous, answer.w, answer.flag)
             IN /\ SumsTo(series, Summary(answer.current, answer.flag))
                /\ SumsTo(before, Summary(answer.previous, answer.flag))
                /\ {p.timestamp_ms + answer.w.from : p \in series} =
                     {p.timestamp_ms + answer.w.to : p \in before}
  <2>1. /\ answer.w = w
        /\ answer.current \subseteq rows /\ IsFiniteSet(answer.current)
        /\ \A r \in answer.current : r.at \in Int /\ w.from <= r.at /\ r.at < w.to
        /\ answer.previous \subseteq rows /\ IsFiniteSet(answer.previous)
        /\ \A r \in answer.previous :
             r.at \in Int /\ w.from - (w.to - w.from) <= r.at /\ r.at < w.from
    BY <1>1, RowsTimed, AnswerRows DEF Typical
  <2>2. answer.previous \subseteq Shapes BY <2>1 DEF Typical, TypeOK
  <2>3. answer.flag # "at"
    <3> PICK kept : answer = Answered(w, StatsAsk.q, kept) BY DEF Shown, Stats, StatsOver
    <3>1. answer.flag = UniqueFlag(StatsAsk.q) BY DEF Shown, Answered
    <3> QED BY <3>1 DEF UniqueFlag
  <2> PICK current, previous, flag :
        current = answer.current /\ previous = answer.previous /\ flag = answer.flag
    OBVIOUS
  <2>4. SumsTo(Timeseries(current, w, flag), Summary(current, flag))
    BY <1>1, <2>1, SeriesSums
  <2>5. /\ SumsTo(PreviousTimeseries(previous, w, flag), Summary(previous, flag))
        /\ {p.timestamp_ms + w.to : p \in PreviousTimeseries(previous, w, flag)} =
             {b + w.from : b \in Grid(w)}
    BY <1>1, <2>1, <2>2, <2>3, PreviousSums
  <2>6. {p.timestamp_ms + w.from : p \in Timeseries(current, w, flag)} =
          {b + w.from : b \in Grid(w)}
    <3> PICK series : series = Timeseries(current, w, flag) OBVIOUS
    <3>1. {p.timestamp_ms : p \in series} = Grid(w) BY <1>1, PointInstants
    <3> QED BY <3>1
  <2> QED BY <2>1, <2>4, <2>5, <2>6
<1> QED BY <1>2, <1>3 DEF SeriesSumsToSummary

\* For whatever range a client sends, over any rows and ladder: the series of the
\* window and of the one before count every row their headlines count, on one grid
\* that never loses its empty buckets (mod.rs's timeseries against its summary).
THEOREM SeriesSumsCorrect == Spec => []SeriesSumsToSummary
BY TypicalInit, TypicalStep, TypicalSums, PTL DEF Spec

-----------------------------------------------------------------------------
(* Groups of rows.                                                         *)

Parted(S, key) == {{r \in S : key[r] = k} : k \in {key[r] : r \in S}}

\* Rows grouped by a key: finitely many groups, no more than there are keys, each
\* with a row, and every row in one.
LEMMA GroupsOfRows ==
  ASSUME NEW S, IsFiniteSet(S), NEW key
  PROVE  /\ IsFiniteSet(Parted(S, key))
         /\ Cardinality(Parted(S, key)) <= Cardinality({key[r] : r \in S})
         /\ \A G \in Parted(S, key) :
              /\ G \subseteq S /\ G # {} /\ IsFiniteSet(G)
              /\ \A r \in G : G = {s \in S : key[s] = key[r]}
         /\ \A r \in S : {s \in S : key[s] = key[r]} \in Parted(S, key)
<1> DEFINE K == {key[r] : r \in S}
           f == [k \in K |-> {r \in S : key[r] = k}]
<1>1. IsFiniteSet(K) BY Image
<1>2. Parted(S, key) = {f[k] : k \in K} BY DEF Parted
<1>3. IsFiniteSet({f[k] : k \in K}) /\ Cardinality({f[k] : k \in K}) <= Cardinality(K)
  <2> HIDE DEF f, K
  <2> QED BY <1>1, Image
<1>4. ASSUME NEW G \in Parted(S, key)
      PROVE  /\ G \subseteq S /\ G # {} /\ IsFiniteSet(G)
             /\ \A r \in G : G = {s \in S : key[s] = key[r]}
  <2>1. PICK k \in K : G = {r \in S : key[r] = k} BY DEF Parted
  <2>2. G \subseteq S /\ G # {} BY <2>1
  <2>3. IsFiniteSet(G) BY <2>2, FS_Subset
  <2> QED BY <2>1, <2>2, <2>3
<1>5. \A r \in S : {s \in S : key[s] = key[r]} \in Parted(S, key) BY DEF Parted
<1> HIDE DEF f
<1> QED BY <1>2, <1>3, <1>4, <1>5

\* The first and the last instant of rows are those of two of them.
LEMMA SeenInstants ==
  ASSUME NEW G, IsFiniteSet(G), G # {}, Timed(G)
  PROVE  /\ FirstSeen(G) \in Nat /\ LastSeen(G) \in Nat
         /\ \A r \in G : FirstSeen(G) <= r.at /\ r.at <= LastSeen(G)
         /\ \E r \in G : FirstSeen(G) = r.at
         /\ \E r \in G : LastSeen(G) = r.at
<1> DEFINE ats == {r.at : r \in G}
           f == [r \in G |-> r.at]
<1>1. ats \subseteq Nat /\ ats \subseteq Int /\ ats # {} BY DEF Timed
<1>2. IsFiniteSet(ats)
  <2>1. ats = {f[r] : r \in G} OBVIOUS
  <2> HIDE DEF f
  <2> QED BY <2>1, Image
<1>3. FirstSeen(G) = Min(ats) /\ LastSeen(G) = Max(ats) BY DEF FirstSeen, LastSeen
<1>4. \A r \in G : r.at \in ats OBVIOUS
<1>5. \A t \in ats : \E r \in G : t = r.at OBVIOUS
<1> HIDE DEF ats
<1>6. Min(ats) \in ats /\ \A t \in ats : Min(ats) <= t BY <1>1, MinOfNumbers
<1>7. Max(ats) \in ats /\ \A t \in ats : t <= Max(ats) BY <1>1, <1>2, MaxOfFinite
<1> QED BY <1>1, <1>3, <1>4, <1>5, <1>6, <1>7

\* Fewer rows are seen no earlier and no later.
LEMMA SeenWithin ==
  ASSUME NEW G, NEW H, G \subseteq H, IsFiniteSet(H), G # {}, Timed(H)
  PROVE  FirstSeen(H) <= FirstSeen(G) /\ LastSeen(G) <= LastSeen(H)
<1>1. IsFiniteSet(G) /\ Timed(G) /\ H # {} BY FS_Subset DEF Timed
<1>2. PICK a \in G : FirstSeen(G) = a.at BY <1>1, SeenInstants
<1>3. PICK b \in G : LastSeen(G) = b.at BY <1>1, SeenInstants
<1>4. a \in H /\ b \in H OBVIOUS
<1> QED BY <1>1, <1>2, <1>3, <1>4, SeenInstants

\* The slices of a trend count every occurrence of it once.
LEMMA TrendSums ==
  ASSUME NEW G, IsFiniteSet(G), Timed(G), NEW w, w.from \in Int, w.to \in Int
  PROVE  SumFunction(TrendOf(G, w)) = Cardinality(G)
<1> DEFINE span == Larger(w.to - w.from, 1)
           slices == 0 .. TREND_BUCKETS - 1
           Slice(r) == Clamp(((r.at - w.from) * TREND_BUCKETS) \div span, 0, TREND_BUCKETS - 1)
           k == [r \in G |-> Slice(r)]
           f == TrendOf(G, w)
<1>1. TREND_BUCKETS \in Nat \ {0} BY StatsAssumption
<1>2. f = [i \in slices |-> Cardinality({r \in G : Slice(r) = i})] BY DEF TrendOf
<1>3. span \in Nat \ {0} BY DEF Larger
<1>4. \A r \in G : Slice(r) \in slices
  <2> SUFFICES ASSUME NEW r \in G PROVE Slice(r) \in slices OBVIOUS
  <2>1. r.at \in Int BY DEF Timed
  <2> PICK n \in Int : n = (r.at - w.from) * TREND_BUCKETS
    <3>1. r.at - w.from \in Int BY <2>1
    <3>2. (r.at - w.from) * TREND_BUCKETS \in Int BY <1>1, <3>1, Times
    <3> QED BY <3>2
  <2> HIDE DEF span
  <2> PICK q \in Int : q = n \div span BY <1>3, Quotient
  <2>2. Slice(r) = Clamp(q, 0, TREND_BUCKETS - 1) OBVIOUS
  <2>3. Clamp(q, 0, TREND_BUCKETS - 1) \in slices BY <1>1 DEF Clamp
  <2> QED BY <2>2, <2>3
<1>5. k \in [G -> slices] /\ \A r \in G : k[r] = Slice(r) BY <1>4
<1>6. IsFiniteSet(slices) BY <1>1, FS_Interval
<1>7. \A i \in slices : f[i] = Cardinality({r \in G : k[r] = i})
  <2> TAKE i \in slices
  <2> HIDE DEF slices, Slice, f, k
  <2>1. {r \in G : k[r] = i} = {r \in G : Slice(r) = i} BY <1>5
  <2>2. f[i] = Cardinality({r \in G : Slice(r) = i}) BY <1>2
  <2> QED BY <2>1, <2>2
<1>8. DOMAIN f = slices BY <1>2
<1> HIDE DEF k, f, slices
<1>9. Tallied(G, slices, k, f) BY <1>5, <1>6, <1>7 DEF Tallied
<1>10. SumFunctionOnSet(f, slices) = Cardinality(G) BY <1>9, CountByKey
<1> QED BY <1>8, <1>10 DEF SumFunction, f

-----------------------------------------------------------------------------
(* The inbox.                                                              *)

\* The window of the inbox and the one of a detail select the same rows, though one
\* is anchored and the other is not.
LEMMA OneWindow ==
  ASSUME Typical
  PROVE  /\ Window(rows, InboxWindow) = Window(rows, DetailWindow)
         /\ InboxWindow.from \in Int /\ InboxWindow.to \in Int
<1> PICK ask : ask = Resolve(set.range, now) OBVIOUS
<1>1. now \in Nat /\ now \in Int /\ IsRange(set.range) /\ Timed(rows)
  BY RowsTimed DEF Typical, TypeOK
<1>2. ask.from \in Int /\ ask.to \in Int BY <1>1, ResolvedRange
<1>3. ask.from # Null /\ ask.to # Null BY <1>2, StatsAssumption
<1> PICK end \in Int : end = Clamp(ask.to, 1, MAX_INSTANT_MS) /\ 1 <= end
  <2>1. MAX_INSTANT_MS \in Int /\ 1 <= MAX_INSTANT_MS BY StatsAssumption
  <2> QED BY <1>2, <2>1 DEF Clamp
<1> PICK w : w = InboxWindow OBVIOUS
<1> PICK start \in Moment : start = Anchored(rows, ask.from)
  BY <1>1, <1>2, AnchoredStart DEF Moment
<1>4. w = ResolveRange(start, ask.to, Null, now)
  <2> PICK sent : sent = ExceptionsQuery(set, now) OBVIOUS
  <2>1. sent.from = ask.from /\ sent.to = ask.to BY DEF ExceptionsQuery
  <2> QED BY <2>1 DEF InboxWindow, ReportWindow
<1>5. /\ w.to = end /\ w.from = Clamp(OrElse(start, w.to - WEEK), 0, w.to - 1)
      /\ w.to \in Int /\ w.from \in Int
  <2>1. ask.to \in Moment BY <1>2 DEF Moment
  <2>2. OrElse(ask.to, now) = ask.to BY <1>3 DEF OrElse
  <2> QED BY <1>1, <1>4, <2>1, <2>2, WindowOfRequest
<1>6. /\ DetailWindow.to = end /\ DetailWindow.from = Clamp(ask.from, 0, end - 1)
  BY DEF DetailWindow
<1>7. ASSUME NEW r \in rows, r.at < end
      PROVE  w.from <= r.at <=> DetailWindow.from <= r.at
  <2>1. r.at \in Nat /\ r.at <= end - 1 BY <1>1, <1>7 DEF Timed
  <2>2. CASE ask.from <= 0
    <3>1. start \in Nat /\ start <= r.at BY <1>1, <1>2, <1>3, <2>2, AnchoredStart DEF Moment
    <3>2. OrElse(start, w.to - WEEK) = start BY <3>1, StatsAssumption DEF OrElse
    <3>3. w.from = Clamp(start, 0, end - 1) BY <1>5, <3>2
    <3>4. w.from <= r.at BY <2>1, <3>1, <3>3 DEF Clamp
    <3>5. DetailWindow.from <= r.at BY <1>2, <1>6, <2>1, <2>2 DEF Clamp
    <3> QED BY <3>4, <3>5
  <2>3. CASE ~ (ask.from <= 0)
    <3>1. start = ask.from BY <2>3 DEF Anchored
    <3>2. OrElse(start, w.to - WEEK) = ask.from BY <1>3, <3>1 DEF OrElse
    <3> QED BY <1>5, <1>6, <3>2
  <2> QED BY <2>2, <2>3
<1>8. Window(rows, w) = Window(rows, DetailWindow) BY <1>5, <1>6, <1>7 DEF Window
<1> QED BY <1>5, <1>8

\* A row of the inbox counts rows of one group from one source, every such row of
\* the range when nothing else filters it.
LEMMA InboxRow ==
  ASSUME Typical, NEW g \in Inbox
  PROVE  \E G \in SUBSET Window(rows, InboxWindow) :
           /\ G # {} /\ g = GroupRow(G, InboxWindow)
           /\ \A r \in G : /\ r.kind = "exception" /\ Val(r, "exc_group") = g.group_id
                           /\ r.source = g.source
           /\ ExceptionsQuery(set, now).q = Blank =>
                {r \in Window(rows, InboxWindow) :
                   /\ r.kind = "exception" /\ Val(r, "exc_group") = g.group_id
                   /\ r.source = g.source} \subseteq G
<1> PICK w : w = InboxWindow OBVIOUS
<1> PICK q : q = ExceptionsQuery(set, now).q OBVIOUS
<1> DEFINE reported == {r \in Exceptions(Window(rows, w)) : Val(r, "exc_group") # Null}
           kept == Answerable(Kept(reported, "exceptions", q))
           key == [r \in kept |-> <<r.exc_group, r.source>>]
           P == Parted(kept, key)
           all == {GroupRow(G, w) : G \in P}
<1>1. kept \subseteq reported /\ (q = Blank => kept = reported)
  <2> HIDE DEF reported
  <2> QED BY KeptRows
<1>2. \A r \in reported : /\ r \in Window(rows, w) /\ r.kind = "exception"
                          /\ Val(r, "exc_group") = r.exc_group /\ r.exc_group # Null
  BY DEF Exceptions, Val
<1>3. IsFiniteSet(kept) /\ Timed(kept) /\ kept \subseteq rows
  <2>1. kept \subseteq rows
    <3>1. Window(rows, w) \subseteq rows BY DEF Window
    <3> HIDE DEF kept, reported
    <3> QED BY <1>1, <1>2, <3>1
  <2>2. Timed(rows) BY RowsTimed DEF Typical
  <2> HIDE DEF kept
  <2> QED BY <2>1, <2>2, FS_Subset DEF Typical, Timed
<1>4. /\ IsFiniteSet(P)
      /\ \A G \in P : /\ G \subseteq kept /\ G # {} /\ IsFiniteSet(G)
                      /\ \A r \in G : G = {s \in kept : key[s] = key[r]}
  <2> HIDE DEF kept, key
  <2> QED BY <1>3, GroupsOfRows
<1>5. IsFiniteSet(all)
  <2> DEFINE f == [G \in P |-> GroupRow(G, w)]
  <2>1. all = {f[G] : G \in P} OBVIOUS
  <2> HIDE DEF f, P, all
  <2> QED BY <1>4, <2>1, Image
<1>6. \A row \in all : row.last_seen_ms \in Int
  <2> SUFFICES ASSUME NEW G \in P PROVE GroupRow(G, w).last_seen_ms \in Int OBVIOUS
  <2> HIDE DEF P, kept
  <2>1. Timed(G) BY <1>3, <1>4 DEF Timed
  <2>2. LastSeen(G) \in Nat BY <1>4, <2>1, SeenInstants
  <2> QED BY <2>2 DEF GroupRow
<1>7. Groups(kept, LAMBDA r : <<r.exc_group, r.source>>) = P
  <2> HIDE DEF kept
  <2> QED BY DEF Groups, Parted
<1>8. g \in Limit(all, GROUP_LIMIT, LAMBDA row : row.last_seen_ms)
  <2> HIDE DEF P
  <2> QED BY <1>7 DEF Inbox, ExceptionGroupsBySource
<1>9. g \in all
  <2> HIDE DEF all
  <2>1. CASE Cardinality(all) <= GROUP_LIMIT BY <1>8, <2>1 DEF Limit
  <2>2. CASE ~ (Cardinality(all) <= GROUP_LIMIT)
    <3> DEFINE f == [row \in all |-> row.last_seen_ms]
    <3>1. GROUP_LIMIT \in Nat /\ Cardinality(all) \in Nat
      BY <1>5, FS_CardinalityType, StatsAssumption
    <3>2. GROUP_LIMIT <= Cardinality(all) BY <2>2, <3>1
    <3>3. \A row \in all : f[row] \in Int BY <1>6
    <3>4. \E T \in SUBSET all : /\ Cardinality(T) = GROUP_LIMIT
                                /\ \A x \in T, y \in all \ T : f[x] >= f[y]
      <4> HIDE DEF f
      <4> QED BY <1>5, <3>1, <3>2, <3>3, TopExists
    <3>5. \E T \in kSubset(GROUP_LIMIT, all) :
            \A x \in T, y \in all \ T : x.last_seen_ms >= y.last_seen_ms
      BY <3>4 DEF kSubset
    <3>6. Limit(all, GROUP_LIMIT, LAMBDA row : row.last_seen_ms) \in kSubset(GROUP_LIMIT, all)
      BY <2>2, <3>5 DEF Limit
    <3> QED BY <1>8, <3>6 DEF kSubset
  <2> QED BY <2>1, <2>2
<1> PICK G \in P : g = GroupRow(G, w) BY <1>9
<1>10. /\ G \subseteq kept /\ G # {}
       /\ \A r \in G : G = {s \in kept : key[s] = key[r]}
  BY <1>4
<1> HIDE DEF P, all
<1>11. One(G) \in G BY <1>10 DEF One
<1>12. \A s \in kept : s \in G <=> s.exc_group = g.group_id /\ s.source = g.source
  <2>1. g.group_id = One(G).exc_group /\ g.source = One(G).source BY DEF GroupRow
  <2> PICK o \in G : o = One(G) BY <1>11
  <2> TAKE s \in kept
  <2>2. o \in kept BY <1>10
  <2> HIDE DEF kept
  <2>3. s \in G <=> key[s] = key[o] BY <1>10
  <2>4. key[s] = <<s.exc_group, s.source>> /\ key[o] = <<o.exc_group, o.source>> BY <2>2
  <2> QED BY <2>1, <2>3, <2>4
<1>13. ASSUME q = Blank, NEW r \in Window(rows, w),
              r.kind = "exception", Val(r, "exc_group") = g.group_id, r.source = g.source
       PROVE  r \in G
  <2>1. One(G) \in reported BY <1>1, <1>10, <1>11
  <2>2. g.group_id # Null BY <1>2, <2>1 DEF GroupRow
  <2>3. r \in reported BY <1>13, <2>2 DEF Exceptions
  <2> QED BY <1>1, <1>2, <1>12, <1>13, <2>3
<1>14. \A r \in G : /\ r \in Window(rows, w) /\ r.kind = "exception"
                    /\ Val(r, "exc_group") = g.group_id /\ r.source = g.source
  <2> HIDE DEF kept, reported
  <2> QED BY <1>1, <1>2, <1>10, <1>12
<1> HIDE DEF kept, reported, key
<1>15. G \in SUBSET Window(rows, InboxWindow) /\ g = GroupRow(G, InboxWindow) /\ G # {}
  BY <1>10, <1>14
<1>16. ExceptionsQuery(set, now).q = Blank =>
         {r \in Window(rows, InboxWindow) :
            /\ r.kind = "exception" /\ Val(r, "exc_group") = g.group_id
            /\ r.source = g.source} \subseteq G
  BY <1>13
<1> QED BY <1>14, <1>15, <1>16

LEMMA TypicalInbox == Typical => InboxRowsOpen
<1> SUFFICES ASSUME Typical PROVE InboxRowsOpen OBVIOUS
<1> SUFFICES ASSUME NEW g \in Inbox
             PROVE  LET seen == ExceptionOccurrences(rows, {g.source}, g.group_id, DetailWindow)
                    IN /\ Cardinality(seen) >= g.count
                       /\ ExceptionsQuery(set, now).q = Blank => Cardinality(seen) = g.count
                       /\ g.count = SumFunction(g.trend)
                       /\ \A latest \in
                               {ExceptionDetail(seen, DetailWindow, VARIANT_LIMIT).last_seen_ms} :
                            \A resolved_at \in {r.at : r \in rows} \cup {Null} :
                              /\ IsResolved(resolved_at, latest) =>
                                   IsResolved(resolved_at, g.last_seen_ms)
                              /\ Cardinality(seen) = g.count =>
                                   IsResolved(resolved_at, g.last_seen_ms)
                                     = IsResolved(resolved_at, latest)
  BY Zenon DEF InboxRowsOpen
<1> PICK seen : seen = ExceptionOccurrences(rows, {g.source}, g.group_id, DetailWindow)
  OBVIOUS
<1> PICK R : R = Window(rows, InboxWindow) OBVIOUS
<1>1. R = Window(rows, DetailWindow) /\ InboxWindow.from \in Int /\ InboxWindow.to \in Int
  BY OneWindow
<1> PICK G \in SUBSET R :
      /\ G # {} /\ g = GroupRow(G, InboxWindow)
      /\ \A r \in G : /\ r.kind = "exception" /\ Val(r, "exc_group") = g.group_id
                      /\ r.source = g.source
      /\ ExceptionsQuery(set, now).q = Blank =>
           {r \in R : /\ r.kind = "exception" /\ Val(r, "exc_group") = g.group_id
                      /\ r.source = g.source} \subseteq G
  BY InboxRow
<1>2. seen = {r \in R : /\ r.kind = "exception" /\ Val(r, "exc_group") = g.group_id
                        /\ r.source = g.source}
  BY <1>1 DEF ExceptionOccurrences, Exceptions
<1>3. G \subseteq seen /\ seen \subseteq rows
      /\ (ExceptionsQuery(set, now).q = Blank => seen = G)
  BY <1>2 DEF Window
<1>4. IsFiniteSet(seen) /\ Timed(seen) /\ IsFiniteSet(G) /\ Timed(G) /\ seen # {}
  <2>1. IsFiniteSet(rows) /\ Timed(rows) BY RowsTimed DEF Typical
  <2>2. IsFiniteSet(seen) BY <1>3, <2>1, FS_Subset
  <2>3. IsFiniteSet(G) BY <1>3, <2>2, FS_Subset
  <2> QED BY <1>3, <2>1, <2>2, <2>3 DEF Timed
<1>5. /\ g.count = Cardinality(G) /\ g.last_seen_ms = LastSeen(G)
      /\ g.trend = TrendOf(G, InboxWindow)
  BY DEF GroupRow
<1>6. /\ Cardinality(G) <= Cardinality(seen)
      /\ Cardinality(seen) = Cardinality(G) => seen = G
      /\ Cardinality(G) \in Nat /\ Cardinality(seen) \in Nat
  BY <1>3, <1>4, FS_Subset, FS_CardinalityType
<1>7. g.count = SumFunction(g.trend) BY <1>1, <1>4, <1>5, TrendSums
<1>8. ExceptionDetail(seen, DetailWindow, VARIANT_LIMIT).last_seen_ms = LastSeen(seen)
  BY <1>4 DEF ExceptionDetail
<1>9. LastSeen(G) <= LastSeen(seen) /\ LastSeen(G) \in Nat /\ LastSeen(seen) \in Nat
  BY <1>3, <1>4, SeenWithin, SeenInstants
<1>10. ASSUME NEW resolved_at \in {r.at : r \in rows} \cup {Null}
       PROVE  /\ IsResolved(resolved_at, LastSeen(seen)) => IsResolved(resolved_at, LastSeen(G))
              /\ Cardinality(seen) = g.count =>
                   IsResolved(resolved_at, LastSeen(G)) = IsResolved(resolved_at, LastSeen(seen))
  <2>1. resolved_at # Null => resolved_at \in Nat BY RowsTimed DEF Typical, Timed
  <2>2. IsResolved(resolved_at, LastSeen(seen)) => IsResolved(resolved_at, LastSeen(G))
    BY <1>9, <2>1 DEF IsResolved
  <2>3. Cardinality(seen) = g.count => seen = G BY <1>5, <1>6
  <2> QED BY <2>2, <2>3
<1> QED BY <1>3, <1>5, <1>6, <1>7, <1>8, <1>10

\* For any filter, any rows and any limits: a row of the inbox opens on every
\* occurrence it counted, on just those where only the range filters the inbox, its
\* trend adds up to its count, and it never reads less resolved than its detail
\* (exceptions.rs).
THEOREM InboxRowsCorrect == Spec => []InboxRowsOpen
BY TypicalInit, TypicalStep, TypicalInbox, PTL DEF Spec

-----------------------------------------------------------------------------
(* Details.                                                                *)

\* What a detail holds from its first scan on.
Scanned(d) ==
  /\ d.w.from \in Int /\ d.w.to \in Int
  /\ d.kind \in {"event", "exception"}
  /\ d.seen \subseteq Shapes /\ IsFiniteSet(d.seen) /\ Window(d.seen, d.w) = d.seen
  /\ \A r \in d.seen : IF d.kind = "event" THEN IsEvent(r) ELSE r.kind = "exception"
  /\ d.sids = SessionsOf(d.seen)

\* The rows of a session.
Of(R, sid) == {r \in R : Val(r, "sid") = sid}

\* A trace counts the occurrences of its session, and spans them.
Spans(t, of, kind) ==
  /\ IF kind = "event" THEN t.events >= Cardinality(of) ELSE t.exceptions >= Cardinality(of)
  /\ t.started_ms <= FirstSeen(of) /\ LastSeen(of) <= t.last_ms

\* What it lists when no occurrence went between its scans.
Listed(d) ==
  /\ {t.session_id : t \in d.traces} = d.sids
  /\ \A t \in d.traces : Spans(t, Of(d.seen, t.session_id), d.kind)
  /\ \A r \in d.seen : HasSession(r) => \E t \in d.traces : r.at <= t.last_ms

\* Retention takes the first row of a session before its last: while the first is
\* held, so is the last.
Held(t) ==
  /\ t.session_id \notin {Null, Empty}
  /\ t.started_ms \in Nat /\ t.last_ms \in Nat
  /\ t.started_ms <= t.last_ms /\ t.started_ms < now
  /\ (\E r \in rows : r.at = t.started_ms) =>
       \E a, b \in Of(rows, t.session_id) : a.at = t.started_ms /\ b.at = t.last_ms

RInv ==
  /\ Typical
  /\ detail.pc # "none" => Scanned(detail)
  /\ detail.pc = "done" /\ detail.whole => Listed(detail) /\ \A t \in detail.traces : Held(t)

LEMMA RowSession ==
  ASSUME NEW r
  PROVE  /\ HasSession(r) => Val(r, "sid") = r.sid
         /\ HasSession(r) <=> Val(r, "sid") \notin {Null, Empty}
BY DEF HasSession, Val

\* The sessions sampled from occurrences: few, of some of them, and the newest.
LEMMA SessionsSampled ==
  ASSUME NEW S, IsFiniteSet(S), Timed(S), NEW sids, sids = SessionsOf(S)
  PROVE  /\ IsFiniteSet(sids) /\ Cardinality(sids) <= TRACE_SAMPLE
         /\ \A sid \in sids : sid \notin {Null, Empty} /\ Of(S, sid) # {}
         /\ \A r \in S : HasSession(r) =>
              \E o \in S : Val(o, "sid") \in sids /\ r.at <= o.at
<1> DEFINE withOne == {o \in S : HasSession(o)}
           all == {r.sid : r \in withOne}
           Newest(sid) == LastSeen({o \in S : Val(o, "sid") = sid})
           f == [sid \in all |-> Newest(sid)]
<1>1. IsFiniteSet(all)
  <2> DEFINE g == [r \in withOne |-> r.sid]
  <2>1. IsFiniteSet(withOne) BY FS_Subset
  <2>2. all = {g[r] : r \in withOne} OBVIOUS
  <2> HIDE DEF g, withOne, all
  <2> QED BY <2>1, <2>2, Image
<1>2. \A sid \in all : sid \notin {Null, Empty} /\ Of(S, sid) # {}
  <2> SUFFICES ASSUME NEW r \in withOne
               PROVE  r.sid \notin {Null, Empty} /\ Of(S, r.sid) # {}
    OBVIOUS
  <2> QED BY RowSession DEF Of
<1>3. \A sid \in all :
        /\ Newest(sid) \in Nat
        /\ \A r \in Of(S, sid) : r.at <= Newest(sid)
        /\ \E o \in Of(S, sid) : Newest(sid) = o.at
  <2> TAKE sid \in all
  <2> PICK G : G = Of(S, sid) OBVIOUS
  <2>1. Newest(sid) = LastSeen(G) BY DEF Of
  <2>2. G # {} BY <1>2
  <2>3. G \subseteq S BY DEF Of
  <2>4. IsFiniteSet(G) /\ Timed(G) BY <2>3, FS_Subset DEF Timed
  <2> HIDE DEF Newest, all
  <2> QED BY <2>1, <2>2, <2>4, SeenInstants
<1>4. TRACE_SAMPLE \in Nat /\ 0 < TRACE_SAMPLE /\ Cardinality(all) \in Nat
  <2> HIDE DEF all
  <2> QED BY <1>1, FS_CardinalityType, StatsAssumption
<1>5. sids = Limit(all, TRACE_SAMPLE, Newest) BY DEF SessionsOf
<1>6. \A r \in S : HasSession(r) => r.sid \in all /\ r \in Of(S, r.sid) BY RowSession DEF Of
<1>7. CASE Cardinality(all) <= TRACE_SAMPLE
  <2> HIDE DEF all
  <2>1. sids = all BY <1>5, <1>7 DEF Limit
  <2>2. \A r \in S : HasSession(r) => Val(r, "sid") \in sids /\ r.at <= r.at
    BY <1>6, <2>1, RowSession DEF Timed
  <2> QED BY <1>1, <1>2, <1>7, <2>1, <2>2
<1>8. CASE ~ (Cardinality(all) <= TRACE_SAMPLE)
  <2>1. TRACE_SAMPLE <= Cardinality(all) BY <1>4, <1>8
  <2>2. \A sid \in all : f[sid] \in Int
    <3> HIDE DEF all, Newest
    <3> QED BY <1>3
  <2>3. \E T \in SUBSET all : /\ Cardinality(T) = TRACE_SAMPLE
                              /\ \A x \in T, y \in all \ T : f[x] >= f[y]
    <3> HIDE DEF all, f
    <3> QED BY <1>1, <1>4, <2>1, <2>2, TopExists
  <2>4. \E T \in kSubset(TRACE_SAMPLE, all) :
          \A x \in T, y \in all \ T : Newest(x) >= Newest(y)
    <3> HIDE DEF all, Newest
    <3> QED BY <2>3 DEF kSubset
  <2>5. /\ sids \in kSubset(TRACE_SAMPLE, all)
        /\ \A x \in sids, y \in all \ sids : Newest(x) >= Newest(y)
    <3> HIDE DEF all, Newest
    <3> QED BY <1>5, <1>8, <2>4 DEF Limit
  <2> HIDE DEF all, Newest, f
  <2>6. sids \subseteq all /\ Cardinality(sids) = TRACE_SAMPLE BY <2>5 DEF kSubset
  <2>7. IsFiniteSet(sids) BY <1>1, <2>6, FS_Subset
  <2>8. sids # {} BY <1>4, <2>6, FS_EmptySet
  <2>9. ASSUME NEW r \in S, HasSession(r)
        PROVE  \E o \in S : Val(o, "sid") \in sids /\ r.at <= o.at
    <3>1. CASE r.sid \in sids
      <4>1. Val(r, "sid") \in sids /\ r.at <= r.at BY <2>9, <3>1, RowSession DEF Timed
      <4> QED BY <4>1
    <3>2. CASE r.sid \notin sids
      <4> PICK sid \in sids : TRUE BY <2>8
      <4>1. Newest(sid) >= Newest(r.sid) BY <1>6, <2>5, <2>9, <3>2
      <4>2. r.at <= Newest(r.sid) /\ Newest(r.sid) \in Nat BY <1>3, <1>6, <2>9
      <4>3. PICK o \in Of(S, sid) : Newest(sid) = o.at BY <1>3, <2>6
      <4>4. r.at \in Nat /\ Newest(sid) \in Nat BY <1>3, <2>6 DEF Timed
      <4>5. r.at <= o.at BY <4>1, <4>2, <4>3, <4>4
      <4> QED BY <4>3, <4>5 DEF Of
    <3> QED BY <3>1, <3>2
  <2> QED BY <1>2, <1>4, <2>6, <2>7, <2>9
<1> QED BY <1>7, <1>8

\* Rows of few enough sessions, each with one.
Sampled(R, sids) ==
  /\ IsFiniteSet(R) /\ IsFiniteSet(sids) /\ Cardinality(sids) <= TRACE_SAMPLE
  /\ \A sid \in sids : sid \notin {Null, Empty} /\ Of(R, sid) # {}
  /\ \A r \in R : Val(r, "sid") \in sids

\* A second scan of them lists each session.
LEMMA TracesOfSessions ==
  ASSUME NEW R, NEW sids, Sampled(R, sids)
  PROVE  /\ \A t \in RecentTraces(R, TRACE_SAMPLE) :
              \E sid \in sids : t = TraceSummary(Of(R, sid))
         /\ \A sid \in sids : /\ TraceSummary(Of(R, sid)) \in RecentTraces(R, TRACE_SAMPLE)
                              /\ TraceSummary(Of(R, sid)).session_id = sid
<1> USE DEF Sampled
<1> DEFINE f == [sid \in sids |-> TraceSummary(Of(R, sid))]
           all == {f[sid] : sid \in sids}
           S == {r \in R : HasSession(r)}
<1>1. S = R /\ \A r \in R : Val(r, "sid") = r.sid BY RowSession
<1>2. {r.sid : r \in R} = sids BY <1>1 DEF Of
<1>3. Groups(S, LAMBDA r : r.sid) = {Of(R, sid) : sid \in sids}
  <2>1. \A sid : {r \in R : r.sid = sid} = Of(R, sid) BY <1>1 DEF Of
  <2> HIDE DEF S
  <2> QED BY <1>1, <1>2, <2>1 DEF Groups
<1>4. RecentTraces(R, TRACE_SAMPLE) = Limit(all, TRACE_SAMPLE, LAMBDA trace : trace.started_ms)
  <2>1. {TraceSummary(G) : G \in Groups(S, LAMBDA r : r.sid)} = all BY <1>3
  <2> HIDE DEF all
  <2> QED BY <2>1 DEF RecentTraces
<1>5. IsFiniteSet(all) /\ Cardinality(all) <= Cardinality(sids)
  <2> HIDE DEF f
  <2> QED BY Image
<1>6. Limit(all, TRACE_SAMPLE, LAMBDA trace : trace.started_ms) = all
  <2>1. Cardinality(all) \in Int /\ Cardinality(sids) \in Int /\ TRACE_SAMPLE \in Int
    BY <1>5, FS_CardinalityType, StatsAssumption
  <2> HIDE DEF all
  <2>2. Cardinality(all) <= TRACE_SAMPLE BY <1>5, <2>1
  <2> QED BY <2>2 DEF Limit
<1>7. \A sid \in sids : TraceSummary(Of(R, sid)).session_id = sid
  <2> TAKE sid \in sids
  <2> PICK o : o = One(Of(R, sid)) OBVIOUS
  <2>1. o \in R /\ Val(o, "sid") = sid BY DEF One, Of
  <2>2. o.sid = sid BY <1>1, <2>1
  <2> QED BY <2>2 DEF TraceSummary
<1> QED BY <1>4, <1>6, <1>7

\* The second scan lists every sampled session, in full, while the occurrences of the
\* first are all still there.
LEMMA TracesRead ==
  ASSUME Typical, NEW d, Scanned(d), d.seen \subseteq rows,
         d.traces = TracesOfOccurrences(rows, d.sids, d.w)
  PROVE  Listed(d) /\ \A t \in d.traces : Held(t)
<1> PICK seen, sids, w : seen = d.seen /\ sids = d.sids /\ w = d.w OBVIOUS
<1>0. PICK R : R = {r \in Window(rows, w) : Val(r, "sid") \in sids} OBVIOUS
<1>1. IsFiniteSet(rows) /\ Timed(rows) /\ now \in Nat /\ \A r \in rows : r.at < now
  BY RowsTimed DEF Typical, TypeOK
<1>2. R \subseteq rows /\ IsFiniteSet(R) /\ Timed(R) /\ IsFiniteSet(seen) /\ Timed(seen)
  <2>1. R \subseteq rows BY <1>0 DEF Window
  <2>2. IsFiniteSet(R) /\ IsFiniteSet(seen) BY <1>1, <2>1, FS_Subset
  <2> QED BY <1>1, <2>1, <2>2 DEF Timed
<1>3. sids = SessionsOf(seen) /\ Window(seen, w) = seen BY DEF Scanned
<1>4. /\ IsFiniteSet(sids) /\ Cardinality(sids) <= TRACE_SAMPLE
      /\ \A sid \in sids : sid \notin {Null, Empty} /\ Of(seen, sid) # {}
      /\ \A r \in seen : HasSession(r) =>
           \E o \in seen : Val(o, "sid") \in sids /\ r.at <= o.at
  BY <1>2, <1>3, SessionsSampled
<1>5. \A sid \in sids : Of(seen, sid) \subseteq Of(R, sid) /\ Of(R, sid) # {}
  <2>1. seen \subseteq Window(rows, w) BY <1>3 DEF Window
  <2> QED BY <1>0, <1>4, <2>1 DEF Of
<1>6. \A r \in R : Val(r, "sid") \in sids BY <1>0
<1>7. /\ \A t \in d.traces : \E sid \in sids : t = TraceSummary(Of(R, sid))
      /\ \A sid \in sids : /\ TraceSummary(Of(R, sid)) \in d.traces
                           /\ TraceSummary(Of(R, sid)).session_id = sid
  <2>1. d.traces = RecentTraces(R, TRACE_SAMPLE) BY <1>0 DEF TracesOfOccurrences
  <2>2. Sampled(R, sids) BY <1>2, <1>4, <1>5, <1>6 DEF Sampled
  <2> QED BY <2>1, <2>2, TracesOfSessions
<1>8. ASSUME NEW sid \in sids, NEW t, t = TraceSummary(Of(R, sid))
      PROVE  /\ t.session_id = sid
             /\ Spans(t, Of(seen, sid), d.kind)
             /\ \A o \in Of(R, sid) : o.at <= t.last_ms
             /\ Held(t)
  <2> PICK G, of : G = Of(R, sid) /\ of = Of(seen, sid) OBVIOUS
  <2>1. G \subseteq R /\ of \subseteq seen /\ of \subseteq G /\ of # {} /\ G # {}
    BY <1>4, <1>5 DEF Of
  <2>2. IsFiniteSet(G) /\ Timed(G) BY <1>2, <2>1, FS_Subset DEF Timed
  <2>3. /\ t.session_id = sid /\ t.started_ms = FirstSeen(G) /\ t.last_ms = LastSeen(G)
        /\ t.events = Cardinality(Events(G)) /\ t.exceptions = Cardinality(Exceptions(G))
    BY <1>7, <1>8 DEF TraceSummary
  <2>4. FirstSeen(G) <= FirstSeen(of) /\ LastSeen(of) <= LastSeen(G)
    BY <2>1, <2>2, SeenWithin
  <2>5. IF d.kind = "event" THEN t.events >= Cardinality(of)
                            ELSE t.exceptions >= Cardinality(of)
    <3>1. IF d.kind = "event" THEN of \subseteq Events(G) ELSE of \subseteq Exceptions(G)
      BY <2>1 DEF Scanned, Events, Exceptions
    <3>2. Events(G) \subseteq G /\ Exceptions(G) \subseteq G BY DEF Events, Exceptions
    <3>3. IsFiniteSet(Events(G)) /\ IsFiniteSet(Exceptions(G)) BY <2>2, <3>2, FS_Subset
    <3>4. \A T : IsFiniteSet(T) /\ of \subseteq T => Cardinality(T) >= Cardinality(of)
      <4> SUFFICES ASSUME NEW T, IsFiniteSet(T), of \subseteq T
                   PROVE  Cardinality(T) >= Cardinality(of)
        OBVIOUS
      <4>1. Cardinality(of) <= Cardinality(T) /\ IsFiniteSet(of) BY FS_Subset
      <4> QED BY <4>1, FS_CardinalityType
    <3> QED BY <2>3, <3>1, <3>3, <3>4
  <2>6. /\ FirstSeen(G) \in Nat /\ LastSeen(G) \in Nat
        /\ \A r \in G : FirstSeen(G) <= r.at /\ r.at <= LastSeen(G)
        /\ \E r \in G : FirstSeen(G) = r.at
        /\ \E r \in G : LastSeen(G) = r.at
    BY <2>1, <2>2, SeenInstants
  <2>7. Held(t)
    <3> PICK a \in G : FirstSeen(G) = a.at BY <2>6
    <3> PICK b \in G : LastSeen(G) = b.at BY <2>6
    <3>1. a \in Of(rows, sid) /\ b \in Of(rows, sid) BY <1>2, <2>1 DEF Of
    <3>2. a.at <= LastSeen(G) /\ a.at < now BY <1>1, <2>6, <3>1 DEF Of
    <3> QED BY <1>4, <2>3, <2>6, <3>1, <3>2 DEF Held
  <2> QED BY <2>3, <2>4, <2>5, <2>6, <2>7 DEF Spans
<1>9. {t.session_id : t \in d.traces} = sids BY <1>7
<1>10. \A t \in d.traces : Spans(t, Of(seen, t.session_id), d.kind) /\ Held(t)
  <2> TAKE t \in d.traces
  <2> PICK sid \in sids : t = TraceSummary(Of(R, sid)) BY <1>7
  <2> QED BY <1>8
<1>11. ASSUME NEW r \in seen, HasSession(r)
       PROVE  \E t \in d.traces : r.at <= t.last_ms
  <2> PICK o \in seen : Val(o, "sid") \in sids /\ r.at <= o.at BY <1>4, <1>11
  <2> PICK sid \in sids : sid = Val(o, "sid") OBVIOUS
  <2> PICK t : t = TraceSummary(Of(R, sid)) OBVIOUS
  <2>1. o \in Of(R, sid) BY <1>5 DEF Of
  <2>2. o.at <= t.last_ms /\ Held(t) /\ t \in d.traces BY <1>7, <1>8, <2>1
  <2>3. r.at \in Nat /\ o.at \in Nat /\ t.last_ms \in Nat BY <1>2, <2>2 DEF Held, Timed
  <2>4. r.at <= t.last_ms BY <2>2, <2>3
  <2> QED BY <2>2, <2>4
<1> QED BY <1>9, <1>10, <1>11 DEF Listed

-----------------------------------------------------------------------------
(* The invariant of details.                                               *)

\* Arrivals are later than every row there is.
LEMMA ArriveHeld ==
  ASSUME Typical, NEW t, Held(t), NEW r \in Shapes, Arrive(r)
  PROVE  Held(t)'
<1>1. /\ now <= r.at /\ rows' = rows \cup {r} /\ now' = r.at + 1 BY DEF Arrive
<1>2. r.at \in Nat /\ now \in Nat BY ReportsAssumption DEF Typical
<1>3. t.started_ms \in Nat /\ t.started_ms < now BY DEF Held
<1>4. t.started_ms < now' BY <1>1, <1>2, <1>3
<1>5. ASSUME NEW s \in rows', s.at = t.started_ms
      PROVE  \E a, b \in Of(rows', t.session_id) : a.at = t.started_ms /\ b.at = t.last_ms
  <2>1. s # r BY <1>1, <1>2, <1>3, <1>5
  <2>2. s \in rows BY <1>1, <2>1
  <2> PICK a \in Of(rows, t.session_id), b \in Of(rows, t.session_id) :
        a.at = t.started_ms /\ b.at = t.last_ms
    BY <1>5, <2>2 DEF Held
  <2>3. a \in Of(rows', t.session_id) /\ b \in Of(rows', t.session_id) BY <1>1 DEF Of
  <2> QED BY <2>3
<1> QED BY <1>4, <1>5 DEF Held, Of

\* Days lapse in order.
LEMMA LapseHeld ==
  ASSUME Typical, NEW t, Held(t), Lapse
  PROVE  Held(t)'
<1> PICK old : old = {r \in rows : r.at <= now - Retention} OBVIOUS
<1>1. rows' = rows \ {r \in old : \A s \in old : r.at \div DAY <= s.at \div DAY}
      /\ now' = now
  BY DEF Lapse
<1>2. Timed(rows) /\ (\A r, s \in rows : r.at = s.at => r = s) /\ now \in Nat
  BY RowsTimed DEF Typical
<1>3. ASSUME NEW s \in rows', s.at = t.started_ms
      PROVE  \E a, b \in Of(rows', t.session_id) : a.at = t.started_ms /\ b.at = t.last_ms
  <2>1. s \in rows BY <1>1
  <2> PICK a \in Of(rows, t.session_id), b \in Of(rows, t.session_id) :
        a.at = t.started_ms /\ b.at = t.last_ms
    BY <1>3, <2>1 DEF Held
  <2>2. a \in rows /\ b \in rows /\ a = s BY <1>2, <1>3, <2>1 DEF Of
  <2>3. b \in rows'
    <3> SUFFICES ASSUME b \notin rows' PROVE FALSE OBVIOUS
    <3>1. b \in old /\ \A r \in old : b.at \div DAY <= r.at \div DAY BY <1>1, <2>2
    <3>2. a.at \in Int /\ b.at \in Int /\ a.at <= b.at BY <1>2, <2>2 DEF Held, Timed
    <3>3. a \in old BY <1>2, <2>2, <3>1, <3>2, ReportsAssumption
    <3>4. a.at \div DAY <= b.at \div DAY BY <3>2, QuotientOrder, StatsAssumption
    <3>5. \A r \in old : a.at \div DAY <= r.at \div DAY
      <4> SUFFICES ASSUME NEW r \in old PROVE a.at \div DAY <= r.at \div DAY OBVIOUS
      <4>1. DAY \in Nat \ {0} /\ r.at \in Int BY <1>2, StatsAssumption DEF Timed
      <4>2. a.at \div DAY \in Int /\ b.at \div DAY \in Int /\ r.at \div DAY \in Int
        BY <3>2, <4>1, Quotient
      <4>3. b.at \div DAY <= r.at \div DAY BY <3>1
      <4> QED BY <3>4, <4>2, <4>3
    <3> QED BY <1>1, <2>2, <3>3, <3>5
  <2>4. a \in Of(rows', t.session_id) /\ b \in Of(rows', t.session_id) BY <2>2, <2>3 DEF Of
  <2> QED BY <2>4
<1> QED BY <1>1, <1>3 DEF Held, Of

\* The event detail's window, for any range.
LEMMA EventWindowOf == Typical => EventWindow.from \in Int /\ EventWindow.to \in Int
<1> SUFFICES ASSUME Typical PROVE EventWindow.from \in Int /\ EventWindow.to \in Int OBVIOUS
<1> PICK ask : ask = Resolve(set.range, now) OBVIOUS
<1>1. now \in Nat /\ now \in Int /\ IsRange(set.range) /\ Timed(rows)
  BY RowsTimed DEF Typical, TypeOK
<1>2. ask.from \in Moment /\ ask.to \in Moment BY <1>1, ResolvedRange DEF Moment
<1> PICK sent : sent = [from |-> ask.from, to |-> ask.to, interval |-> Null] OBVIOUS
<1>3. sent.from \in Moment /\ sent.to \in Moment BY <1>2
<1>4. EventWindow = ReportWindow(rows, sent, now)
  <2>1. StatsQuery(set, now).window = ask BY DEF StatsQuery
  <2> QED BY <2>1 DEF EventWindow
<1>5. IsWindow(ReportWindow(rows, sent, now)) BY <1>1, <1>3, WindowOfReport
<1> QED BY <1>4, <1>5 DEF IsWindow

\* The first scan of a detail.
LEMMA OpenScans ==
  ASSUME Typical, NEW kind \in {"event", "exception"}, NEW seen, NEW w,
         w.from \in Int, w.to \in Int, seen \subseteq Window(rows, w),
         \A r \in seen : IF kind = "event" THEN IsEvent(r) ELSE r.kind = "exception",
         Open(kind, seen, w)
  PROVE  detail'.pc = "scanned" /\ Scanned(detail')
<1>1. detail' = [pc |-> "scanned", kind |-> kind, seen |-> seen, w |-> w,
                 sids |-> SessionsOf(seen)]
  BY DEF Open
<1>2. seen \subseteq rows /\ Window(seen, w) = seen BY DEF Window
<1>3. IsFiniteSet(seen) /\ seen \subseteq Shapes BY <1>2, FS_Subset DEF Typical, TypeOK
<1> QED BY <1>1, <1>2, <1>3 DEF Scanned

\* An edit or a request leaves the store and the detail alone.
LEMMA Unmoved ==
  ASSUME RInv, Typical', UNCHANGED <<rows, now, detail>>
  PROVE  RInv'
BY DEF RInv, Held

LEMMA RInvStep == RInv /\ [Next]_vars => RInv'
<1> SUFFICES ASSUME RInv, [Next]_vars PROVE RInv' OBVIOUS
<1>0. Typical /\ Typical' BY TypicalStep DEF RInv
<1>1. ASSUME NEW r \in Arrivals, Arrive(r) PROVE RInv'
  <2>1. r \in Shapes /\ detail' = detail BY <1>1 DEF Arrivals, Arrive
  <2>2. \A t : Held(t) => Held(t)'
    <3> SUFFICES ASSUME NEW t, Held(t) PROVE Held(t)' OBVIOUS
    <3> QED BY <1>0, <1>1, <2>1, ArriveHeld
  <2>3. detail'.pc # "none" => Scanned(detail') BY <2>1 DEF RInv
  <2>4. detail'.pc = "done" /\ detail'.whole =>
          Listed(detail') /\ \A t \in detail'.traces : Held(t)'
    BY <2>1, <2>2 DEF RInv
  <2> QED BY <1>0, <2>3, <2>4 DEF RInv
<1>2. CASE Lapse
  <2>1. detail' = detail BY <1>2 DEF Lapse
  <2>2. \A t : Held(t) => Held(t)'
    <3> SUFFICES ASSUME NEW t, Held(t) PROVE Held(t)' OBVIOUS
    <3> QED BY <1>0, <1>2, LapseHeld
  <2>3. detail'.pc # "none" => Scanned(detail') BY <2>1 DEF RInv
  <2>4. detail'.pc = "done" /\ detail'.whole =>
          Listed(detail') /\ \A t \in detail'.traces : Held(t)'
    BY <2>1, <2>2 DEF RInv
  <2> QED BY <1>0, <2>3, <2>4 DEF RInv
<1>3. ASSUME NEW edited, Apply(edited) PROVE RInv'
  BY <1>0, <1>3, Unmoved DEF Apply
<1>4. ASSUME NEW text \in Texts, TypeText(text) PROVE RInv' BY <1>3, <1>4 DEF TypeText
<1>5. ASSUME NEW panel \in Clicked, ClickRow(panel) PROVE RInv'
  <2> PICK answer \in Shown : \E row \in PanelRows(answer, panel) :
        Apply(Toggled(set, PanelTerms(panel, row)))
    BY <1>5 DEF ClickRow
  <2> PICK row \in PanelRows(answer, panel) : Apply(Toggled(set, PanelTerms(panel, row)))
    OBVIOUS
  <2> QED BY <1>3
<1>6. ASSUME NEW chip \in Added, AddChip(chip) PROVE RInv' BY <1>3, <1>6 DEF AddChip
<1>7. ASSUME NEW d \in Dims, RemoveChip(d) PROVE RInv' BY <1>3, <1>7 DEF RemoveChip
<1>8. CASE RemoveAdvanced BY <1>3, <1>8 DEF RemoveAdvanced
<1>9. CASE Clear BY <1>3, <1>9 DEF Clear
<1>10. ASSUME NEW range \in Ranges, PickRange(range) PROVE RInv' BY <1>3, <1>10 DEF PickRange
<1>11. CASE Zoom
  <2>1. \E edited : Apply(edited) BY <1>11 DEF Zoom
  <2> QED BY <1>3, <2>1
<1>12. ASSUME NEW ask \in Requests, AskStats(ask) PROVE RInv'
  BY <1>0, <1>12, Unmoved DEF AskStats
<1>13. CASE AskEnds BY <1>0, <1>13, Unmoved DEF AskEnds
<1>14. ASSUME detail'.pc = "scanned", Scanned(detail') PROVE RInv'
  BY <1>0, <1>14 DEF RInv
<1>15. CASE OpenException
  <2> PICK g \in Inbox :
        Open("exception", ExceptionOccurrences(rows, {g.source}, g.group_id, DetailWindow),
             DetailWindow)
    BY <1>15 DEF OpenException
  <2> PICK seen : seen = ExceptionOccurrences(rows, {g.source}, g.group_id, DetailWindow)
    OBVIOUS
  <2>1. seen \subseteq Window(rows, DetailWindow) /\ \A r \in seen : r.kind = "exception"
    BY DEF ExceptionOccurrences, Exceptions
  <2>2. DetailWindow.from \in Int /\ DetailWindow.to \in Int
    <3> PICK ask : ask = Resolve(set.range, now) OBVIOUS
    <3>1. ask.from \in Int /\ ask.to \in Int BY <1>0, ResolvedRange DEF Typical, TypeOK
    <3>2. MAX_INSTANT_MS \in Int BY StatsAssumption
    <3> QED BY <3>1, <3>2 DEF DetailWindow, Clamp
  <2> PICK w : w = DetailWindow OBVIOUS
  <2>3. detail'.pc = "scanned" /\ Scanned(detail') BY <1>0, <2>1, <2>2, OpenScans
  <2> QED BY <1>14, <2>3
<1>16. CASE OpenEvent
  <2>1. \E name, q : Open("event", EventOccurrences(rows, name, q, EventWindow), EventWindow)
    BY <1>16 DEF OpenEvent
  <2> PICK name, q : Open("event", EventOccurrences(rows, name, q, EventWindow), EventWindow)
    BY <2>1
  <2> PICK seen : seen = EventOccurrences(rows, name, q, EventWindow) OBVIOUS
  <2> PICK w : w = EventWindow OBVIOUS
  <2>2. seen \subseteq Window(rows, w) /\ \A r \in seen : IsEvent(r)
    <3> PICK named : named = {r \in Events(Window(rows, w)) : Val(r, "event_name") = name}
      OBVIOUS
    <3>1. seen = Answerable(Kept(named, "dashboard", q)) BY DEF EventOccurrences
    <3>2. seen \subseteq named BY <3>1, KeptRows
    <3> QED BY <3>2 DEF Events
  <2>3. w.from \in Int /\ w.to \in Int BY <1>0, EventWindowOf
  <2>4. detail'.pc = "scanned" /\ Scanned(detail') BY <1>0, <2>2, <2>3, OpenScans
  <2> QED BY <1>14, <2>4
<1>17. CASE ReadSessions
  <2>1. /\ detail' = [pc |-> "done", kind |-> detail.kind, seen |-> detail.seen,
                      w |-> detail.w, sids |-> detail.sids,
                      traces |-> TracesOfOccurrences(rows, detail.sids, detail.w),
                      whole |-> detail.seen \subseteq rows]
        /\ detail.pc = "scanned" /\ rows' = rows /\ now' = now
    BY <1>17 DEF ReadSessions
  <2> PICK d : d = detail' OBVIOUS
  <2>2. /\ d.kind = detail.kind /\ d.seen = detail.seen /\ d.w = detail.w
        /\ d.sids = detail.sids
        /\ d.traces = TracesOfOccurrences(rows, d.sids, d.w)
        /\ d.whole => d.seen \subseteq rows
    BY <2>1
  <2>3. Scanned(d) BY <2>1, <2>2 DEF RInv, Scanned
  <2>4. d.whole => Listed(d) /\ \A t \in d.traces : Held(t)
    BY <1>0, <2>2, <2>3, TracesRead
  <2>5. \A t : Held(t) => Held(t)' BY <2>1 DEF Held
  <2>6. detail'.whole => Listed(detail') /\ \A t \in detail'.traces : Held(t)'
    BY <2>4, <2>5
  <2> QED BY <1>0, <2>3, <2>6 DEF RInv
<1>18. CASE CloseDetail
  <2>1. detail'.pc = "none" BY <1>18 DEF CloseDetail, NoDetail
  <2> QED BY <1>0, <2>1 DEF RInv
<1>19. CASE UNCHANGED vars BY <1>0, <1>19, Unmoved DEF vars
<1> QED BY <1>1, <1>2, <1>4, <1>5, <1>6, <1>7, <1>8, <1>9, <1>10, <1>11, <1>12, <1>13,
           <1>15, <1>16, <1>17, <1>18, <1>19 DEF Next

LEMMA RInvInit == Init => RInv
<1> SUFFICES ASSUME Init PROVE RInv OBVIOUS
<1>1. detail.pc = "none" BY DEF Init, NoDetail
<1> QED BY <1>1, TypicalInit DEF RInv

\* A session's timeline starts no later than any row of it, and ends no earlier
\* unless it is cut.
LEMMA Timeline ==
  ASSUME Typical, NEW sid, sid \notin {Null, Empty},
         NEW a \in Of(rows, sid), NEW b \in Of(rows, sid),
         NEW trace, trace = SessionTrace(rows, sid, TraceWindow, TRACE_LIMIT)
  PROVE  /\ trace.started_ms <= a.at
         /\ Cardinality(trace.events) = TRACE_LIMIT \/ b.at <= trace.ended_ms
<1> DEFINE of == {r \in Window(rows, TraceWindow) : Val(r, "sid") = sid}
           shown == Limit(of, TRACE_LIMIT, LAMBDA r : -r.at)
<1>1. IsFiniteSet(rows) /\ Timed(rows) /\ now \in Nat /\ rows \subseteq Shapes
      /\ \A r \in rows : r.at < now
  BY RowsTimed DEF Typical, TypeOK
<1>2. of = Of(rows, sid) BY <1>1 DEF Of, Window, TraceWindow, Timed
<1>3. a \in of /\ b \in of BY <1>2
<1>4. /\ of \subseteq rows /\ IsFiniteSet(of) /\ Timed(of)
      /\ \A r \in of : r.kind # "pixel"
  <2>1. of \subseteq rows BY <1>2 DEF Of
  <2>2. \A r \in of : HasSession(r) BY RowSession
  <2> HIDE DEF of
  <2>3. IsFiniteSet(of) BY <1>1, <2>1, FS_Subset
  <2> QED BY <1>1, <2>1, <2>2, <2>3, ReportsAssumption DEF Timed
<1>5. TRACE_LIMIT \in Nat /\ 0 < TRACE_LIMIT /\ Cardinality(of) \in Nat
  <2> HIDE DEF of
  <2> QED BY <1>4, FS_CardinalityType, ReportsAssumption
<1>6. /\ trace.started_ms = FirstSeen(shown) /\ trace.ended_ms = LastSeen(shown)
      /\ trace.events = {r \in shown : r.kind # "pixel"}
  <2>1. of # {} BY <1>3
  <2> HIDE DEF shown
  <2> QED BY <2>1 DEF SessionTrace, shown
<1>7. CASE Cardinality(of) <= TRACE_LIMIT
  <2> HIDE DEF of
  <2>1. shown = of BY <1>7 DEF Limit
  <2> HIDE DEF shown
  <2> QED BY <1>3, <1>4, <1>6, <2>1, SeenInstants
<1>8. CASE ~ (Cardinality(of) <= TRACE_LIMIT)
  <2> DEFINE f == [r \in of |-> -r.at]
  <2>1. TRACE_LIMIT <= Cardinality(of) BY <1>5, <1>8
  <2>2. \A r \in of : f[r] \in Int
    <3> HIDE DEF of
    <3> QED BY <1>4 DEF Timed
  <2>3. \E T \in SUBSET of : /\ Cardinality(T) = TRACE_LIMIT
                             /\ \A x \in T, y \in of \ T : f[x] >= f[y]
    <3> HIDE DEF of, f
    <3> QED BY <1>4, <1>5, <2>1, <2>2, TopExists
  <2>4. \E T \in kSubset(TRACE_LIMIT, of) : \A x \in T, y \in of \ T : -x.at >= -y.at
    <3> HIDE DEF of
    <3> QED BY <2>3 DEF kSubset
  <2>5. /\ shown \in kSubset(TRACE_LIMIT, of)
        /\ \A x \in shown, y \in of \ shown : -x.at >= -y.at
    <3> HIDE DEF of
    <3> QED BY <1>8, <2>4 DEF Limit
  <2> HIDE DEF of, shown, f
  <2>6. shown \subseteq of /\ Cardinality(shown) = TRACE_LIMIT BY <2>5 DEF kSubset
  <2>7. IsFiniteSet(shown) /\ Timed(shown) BY <1>4, <2>6, FS_Subset DEF Timed
  <2>8. shown # {} BY <1>5, <2>6, FS_EmptySet
  <2>9. trace.events = shown BY <1>4, <1>6, <2>6
  <2>10. FirstSeen(shown) \in Nat /\ \A r \in shown : FirstSeen(shown) <= r.at
    BY <2>7, <2>8, SeenInstants
  <2>11. FirstSeen(shown) <= a.at
    <3>1. CASE a \in shown BY <2>10, <3>1
    <3>2. CASE a \notin shown
      <4> PICK x \in shown : TRUE BY <2>8
      <4>1. -x.at >= -a.at BY <1>3, <2>5, <3>2
      <4>2. x.at \in Nat /\ a.at \in Nat BY <1>3, <1>4, <2>6 DEF Timed
      <4>3. FirstSeen(shown) <= x.at BY <2>10
      <4> QED BY <2>10, <4>1, <4>2, <4>3
    <3> QED BY <3>1, <3>2
  <2> QED BY <1>6, <2>6, <2>9, <2>11
<1> QED BY <1>7, <1>8

LEMMA RInvTraces == RInv => TracesCover
<1> SUFFICES ASSUME RInv, detail.pc = "done", detail.whole
             PROVE  /\ {t.session_id : t \in detail.traces} = detail.sids
                    /\ \A t \in detail.traces :
                         LET of == {r \in detail.seen : Val(r, "sid") = t.session_id}
                         IN /\ IF detail.kind = "event" THEN t.events >= Cardinality(of)
                               ELSE t.exceptions >= Cardinality(of)
                            /\ t.started_ms <= FirstSeen(of) /\ LastSeen(of) <= t.last_ms
                            /\ (\E r \in rows : r.at = t.started_ms) =>
                                 LET trace == SessionTrace(rows, t.session_id, TraceWindow,
                                                           TRACE_LIMIT)
                                 IN /\ trace.started_ms <= t.started_ms
                                    /\ \/ Cardinality(trace.events) = TRACE_LIMIT
                                       \/ t.last_ms <= trace.ended_ms
                    /\ detail.kind = "event" /\ detail.seen # {} =>
                         LET event == EventDetail(detail.seen, detail.w, VARIANT_LIMIT)
                         IN /\ event.count = SumFunction(event.trend)
                            /\ \A r \in detail.seen :
                                 HasSession(r) => \E t \in detail.traces : r.at <= t.last_ms
  BY DEF TracesCover
<1>1. Typical /\ Scanned(detail) /\ Listed(detail) /\ \A t \in detail.traces : Held(t)
  BY DEF RInv
<1>2. ASSUME NEW t \in detail.traces
      PROVE  /\ Spans(t, {r \in detail.seen : Val(r, "sid") = t.session_id}, detail.kind)
             /\ (\E r \in rows : r.at = t.started_ms) =>
                  LET trace == SessionTrace(rows, t.session_id, TraceWindow, TRACE_LIMIT)
                  IN /\ trace.started_ms <= t.started_ms
                     /\ \/ Cardinality(trace.events) = TRACE_LIMIT
                        \/ t.last_ms <= trace.ended_ms
  <2>1. Spans(t, {r \in detail.seen : Val(r, "sid") = t.session_id}, detail.kind)
    BY <1>1 DEF Listed, Of
  <2> PICK trace : trace = SessionTrace(rows, t.session_id, TraceWindow, TRACE_LIMIT) OBVIOUS
  <2>2. ASSUME \E r \in rows : r.at = t.started_ms
        PROVE  /\ trace.started_ms <= t.started_ms
               /\ Cardinality(trace.events) = TRACE_LIMIT \/ t.last_ms <= trace.ended_ms
    <3> PICK sid : sid = t.session_id OBVIOUS
    <3>1. Held(t) /\ sid \notin {Null, Empty} BY <1>1 DEF Held
    <3> PICK a \in Of(rows, sid), b \in Of(rows, sid) :
          a.at = t.started_ms /\ b.at = t.last_ms
      BY <2>2, <3>1 DEF Held
    <3> QED BY <1>1, <3>1, Timeline
  <2> QED BY <2>1, <2>2
<1>3. ASSUME detail.seen # {}
      PROVE  LET event == EventDetail(detail.seen, detail.w, VARIANT_LIMIT)
             IN event.count = SumFunction(event.trend)
  <2> PICK seen, w : seen = detail.seen /\ w = detail.w OBVIOUS
  <2>1. EventDetail(seen, w, VARIANT_LIMIT).count = Cardinality(seen)
        /\ EventDetail(seen, w, VARIANT_LIMIT).trend = TrendOf(seen, w)
    BY <1>3 DEF EventDetail
  <2>2. IsFiniteSet(seen) /\ Timed(seen) /\ w.from \in Int /\ w.to \in Int
    BY <1>1, ReportsAssumption DEF Scanned, Timed
  <2>3. SumFunction(TrendOf(seen, w)) = Cardinality(seen) BY <2>2, TrendSums
  <2> QED BY <2>1, <2>3
<1>4. {t.session_id : t \in detail.traces} = detail.sids
      /\ \A r \in detail.seen : HasSession(r) => \E t \in detail.traces : r.at <= t.last_ms
  BY <1>1 DEF Listed
<1> QED BY <1>2, <1>3, <1>4 DEF Spans

\* For any rows, any sample and any cut, however rows arrive and days lapse between
\* the two scans: a detail lists the sampled sessions of its occurrences in full, and
\* a session opened from it while its first row is held spans what the list says
\* (traces.rs).
THEOREM TracesCorrect == Spec => []TracesCover
BY RInvInit, RInvStep, RInvTraces, PTL DEF Spec
=============================================================================
