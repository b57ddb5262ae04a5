---------------------------- MODULE ClientProofs ----------------------------
(***************************************************************************)
(* Theorems about the two ways in which programs work on a transaction.    *)
(* The first part is about cursors (module Cursor), for any tables found,  *)
(* queries, priorities of reports and numbers of calls; the second about   *)
(* Fortran sessions (module DbSession), for any modes, tables found, input *)
(* files, values and numbers of calls.  Both rest on TransactionProofs.    *)
(***************************************************************************)
EXTENDS CursorProps, DbSessionProps, TransactionProofs

----------------------------------------------------------------------------
(* Cursors: the results of a query                                         *)

Modifiers == {"all", "best", "last"}

\* What the load functions carry from row to row, with results out of R.
Carried(acc, R) ==
    /\ acc = [seq |-> acc.seq, prio |-> acc.prio, left |-> acc.left]
    /\ acc.seq \in Seq(R)

\* t is what acc has become with row r.
Grown(acc, t, R, r) == Carried(t, R) /\ t.prio \in {acc.prio, Prio[StationKey(r.st)]}

LEMMA ReplaceLastType ==
    ASSUME NEW R, NEW seq \in Seq(R), seq # <<>>, NEW r \in R
    PROVE  ReplaceLast(seq, r) \in Seq(R)
<1>1. Len(seq) \in Nat /\ seq \in [1..Len(seq) -> R]
  OBVIOUS
<1>2. ReplaceLast(seq, r) \in [1..Len(seq) -> R]
  BY <1>1 DEF ReplaceLast
<1> QED
  BY <1>1, <1>2

\* A row is added to the results, takes the place of the last, or is passed over.
LEMMA AddToCarried ==
    ASSUME NEW mod \in Modifiers, NEW R, NEW acc, Carried(acc, R),
           NEW r \in R
    PROVE  Grown(acc, AddTo(mod, acc, r), R, r) /\ AddTo(mod, acc, r).left = acc.left
<1> DEFINE t == AddTo(mod, acc, r)
<1>1. \E s, p : /\ t = [seq |-> s, prio |-> p, left |-> acc.left]
                /\ p \in {acc.prio, Prio[StationKey(r.st)]}
                /\ \/ s = acc.seq \/ s = Append(acc.seq, r)
                   \/ acc.seq # <<>> /\ s = ReplaceLast(acc.seq, r)
  <2>0. acc = [seq |-> acc.seq, prio |-> acc.prio, left |-> acc.left]
    BY DEF Carried
  <2>1. CASE mod = "all"
    BY <2>0, <2>1 DEF AddTo
  <2>2. CASE mod = "best"
    BY <2>0, <2>2 DEF AddTo, AddToBest
  <2>3. CASE mod = "last"
    BY <2>0, <2>3 DEF AddTo, AddToLast
  <2> QED
    BY <2>1, <2>2, <2>3 DEF Modifiers
<1>2. PICK s, p : /\ t = [seq |-> s, prio |-> p, left |-> acc.left]
                  /\ p \in {acc.prio, Prio[StationKey(r.st)]}
                  /\ \/ s = acc.seq \/ s = Append(acc.seq, r)
                     \/ acc.seq # <<>> /\ s = ReplaceLast(acc.seq, r)
  BY <1>1
<1>3. s \in Seq(R)
  <2>1. acc.seq \in Seq(R)
    BY DEF Carried
  <2>2. Append(acc.seq, r) \in Seq(R)
    BY <2>1
  <2>3. acc.seq # <<>> => ReplaceLast(acc.seq, r) \in Seq(R)
    BY <2>1, ReplaceLastType
  <2> QED
    BY <1>2, <2>1, <2>2, <2>3
<1> HIDE DEF t
<1> QED
  BY <1>2, <1>3 DEF Carried, Grown, t

\* What becomes of acc when the database sends x.
Taken(mod, q, acc, x) ==
    LET kept == IF q.attrOnly /\ ~x.row.attr THEN acc ELSE AddTo(mod, acc, x.row)
    IN  [kept EXCEPT !.left = @ \ {x}]

LEMMA TakenCarried ==
    ASSUME NEW R, NEW acc, Carried(acc, R)
    PROVE  \A mod \in Modifiers : \A q, x : x.row \in R =>
              /\ Grown(acc, Taken(mod, q, acc, x), R, x.row)
              /\ Taken(mod, q, acc, x).left = acc.left \ {x}
<1> SUFFICES ASSUME NEW mod \in Modifiers, NEW q, NEW x, x.row \in R
             PROVE  /\ Grown(acc, Taken(mod, q, acc, x), R, x.row)
                    /\ Taken(mod, q, acc, x).left = acc.left \ {x}
  OBVIOUS
<1> DEFINE k == IF q.attrOnly /\ ~x.row.attr THEN acc ELSE AddTo(mod, acc, x.row)
           t == Taken(mod, q, acc, x)
<1>1. Grown(acc, k, R, x.row) /\ k.left = acc.left
  <2>1. CASE k = acc
    BY <2>1 DEF Grown
  <2>2. CASE k = AddTo(mod, acc, x.row)
    BY <2>2, AddToCarried
  <2> QED
    BY <2>1, <2>2
<1>2. t = [k EXCEPT !.left = @ \ {x}]
  BY DEF Taken
<1> HIDE DEF k, t
<1>3. k = [seq |-> k.seq, prio |-> k.prio, left |-> k.left] /\ k.seq \in Seq(R)
  BY <1>1 DEF Carried, Grown
<1>4. t = [seq |-> k.seq, prio |-> k.prio, left |-> k.left \ {x}]
  BY <1>2, <1>3
<1>5. Carried(t, R) /\ t.prio = k.prio /\ t.left = acc.left \ {x}
  BY <1>1, <1>3, <1>4 DEF Carried
<1> QED
  BY <1>1, <1>5 DEF Grown, t

\* I holds at the start and after each row.
Sustained(I, mod, q, D) ==
    /\ q.limit \in Nat /\ IsFiniteSet(D)
    /\ [seq |-> <<>>, prio |-> 0, left |-> D] \in I
    /\ \A a \in I : /\ a.left \subseteq D
                   /\ \A x \in First(a.left) :
                         /\ Taken(mod, q, a, x) \in I
                         /\ Taken(mod, q, a, x).left = a.left \ {x}

\* seq is of I, and without LIMIT no row is left.
RowsReached(I, q, seq) == \E a \in I : a.seq = seq /\ (q.limit = 0 => a.left = {})

LEMMA LoadedReached ==
    ASSUME NEW I, NEW mod, NEW q, NEW D, Sustained(I, mod, q, D)
    PROVE  \A seq \in Loaded(mod, q, D) : RowsReached(I, q, seq)
<1> SUFFICES ASSUME NEW seq \in Loaded(mod, q, D) PROVE RowsReached(I, q, seq)
  OBVIOUS
<1>0. q.limit \in Nat /\ IsFiniteSet(D)
  BY DEF Sustained
<1> DEFINE N == IF q.limit = 0 \/ Cardinality(D) < q.limit THEN Cardinality(D) ELSE q.limit
           After(acc) == {Taken(mod, q, acc, x) : x \in First(acc.left)}
           start == {[seq |-> <<>>, prio |-> 0, left |-> D]}
           Step(f, n) == IF n = 0 THEN start ELSE UNION {After(acc) : acc \in f[n - 1]}
           loaded == CHOOSE f : f = [n \in 0..N |-> Step(f, n)]
<1>1. N \in Nat
  BY <1>0, FS_CardinalityType
<1>2. Loaded(mod, q, D) = {acc.seq : acc \in loaded[N]}
  BY DEF Loaded, Taken
<1> HIDE DEF N
<1>3. \A n \in 0..N : \A acc \in loaded[n] :
         IF n = 0 THEN acc \in start ELSE \E a \in loaded[n - 1] : acc \in After(a)
  <2> HIDE DEF After, start
  <2> DEFINE K == {k \in 0..N : \E f : f = [n \in 0..k |-> Step(f, n)]}
  <2>1. 0 \in K
    <3> DEFINE f == [n \in 0..0 |-> start]
    <3>1. f = [n \in 0..0 |-> Step(f, n)]
      OBVIOUS
    <3> HIDE DEF f, Step
    <3> QED
      BY <1>1, <3>1
  <2>2. ASSUME NEW k \in K, k < N PROVE k + 1 \in K
    <3>1. k \in 0..N
      OBVIOUS
    <3>2. PICK f : f = [n \in 0..k |-> Step(f, n)]
      OBVIOUS
    <3> DEFINE g == [n \in 0..(k + 1) |-> Step(f, n)]
    <3>3. \A n \in 0..k : f[n] = Step(f, n)
      BY <3>2
    <3>4. \A n \in 0..k : g[n] = f[n]
      <4> HIDE DEF Step
      <4> QED
        BY <1>1, <3>1, <3>3
    <3>5. \A n \in 0..(k + 1) : Step(f, n) = Step(g, n)
      <4> TAKE n \in 0..(k + 1)
      <4>1. n # 0 => f[n - 1] = g[n - 1]
        <5> HIDE DEF g, Step
        <5> QED
          BY <1>1, <3>1, <3>4
      <4> HIDE DEF g
      <4> QED
        BY <4>1
    <3>6. g = [n \in 0..(k + 1) |-> Step(g, n)]
      <4> HIDE DEF Step
      <4> QED
        BY <3>5
    <3>7. k + 1 \in 0..N
      BY <1>1, <2>2, <3>1
    <3> HIDE DEF g
    <3> QED
      BY <3>6, <3>7
  <2> DEFINE T == {k \in 0..N : k \in K}
  <2>3. N \in K
    <3> HIDE DEF K
    <3>1. T \in SUBSET Nat /\ IsFiniteSet(T) /\ T # {}
      <4>1. T \in SUBSET (0..N) /\ IsFiniteSet(0..N)
        BY <1>1, FS_Interval
      <4>2. IsFiniteSet(T)
        BY <4>1, FS_Subset
      <4> QED
        BY <1>1, <2>1, <4>2
    <3>2. PICK k \in T : \A j \in T : j <= k
      <4> HIDE DEF T
      <4> QED
        BY <3>1, HasTop
    <3>3. ASSUME k < N PROVE k + 1 \in T
      <4>1. k \in 0..N /\ k \in K
        OBVIOUS
      <4>2. k + 1 \in K
        <5> HIDE DEF K
        <5> QED
          BY <2>2, <3>3, <4>1
      <4>3. k + 1 \in 0..N
        BY <1>1, <3>3, <4>1
      <4> QED
        BY <4>2, <4>3
    <3> QED
      BY <1>1, <3>2, <3>3
  <2>4. loaded = [n \in 0..N |-> Step(loaded, n)]
    <3>1. \E f : f = [n \in 0..N |-> Step(f, n)]
      BY <2>3
    <3> HIDE DEF Step
    <3> QED
      BY <3>1
  <2>5. \A n \in 0..N : loaded[n] = Step(loaded, n)
    <3> HIDE DEF Step, loaded
    <3> QED
      BY <2>4
  <2> HIDE DEF loaded, K
  <2> TAKE n \in 0..N
  <2>6. CASE n = 0
    BY <2>5, <2>6
  <2>7. CASE n # 0
    <3>1. loaded[n] = UNION {After(acc) : acc \in loaded[n - 1]}
      BY <2>5, <2>7
    <3> QED
      BY <2>7, <3>1
  <2> QED
    BY <2>6, <2>7
<1> DEFINE Within(n) == \A acc \in loaded[n] :
                           acc \in I /\ Cardinality(acc.left) = Cardinality(D) - n
<1>a. Cardinality(D) \in Nat /\ N <= Cardinality(D)
      /\ (q.limit = 0 => N = Cardinality(D))
  BY <1>0, FS_CardinalityType DEF N
<1>4. \A acc \in start : acc \in I /\ acc.left = D
  BY DEF Sustained
<1>5. ASSUME NEW a \in I, NEW acc \in After(a)
      PROVE  acc \in I /\ Cardinality(acc.left) = Cardinality(a.left) - 1
  <2>1. PICK x \in First(a.left) : acc = Taken(mod, q, a, x)
    OBVIOUS
  <2>2. x \in a.left /\ acc \in I /\ acc.left = a.left \ {x}
    BY <2>1 DEF First, Sustained
  <2>3. IsFiniteSet(a.left)
    BY <1>0, FS_Subset DEF Sustained
  <2>4. Cardinality(a.left \ {x}) = Cardinality(a.left) - 1
    BY <2>2, <2>3, FS_RemoveElement
  <2> QED
    BY <2>2, <2>4
<1> HIDE DEF loaded, After, start
<1>6. ASSUME NEW n \in 0..N, n < N, Within(n) PROVE Within(n + 1)
  <2> SUFFICES ASSUME NEW acc \in loaded[n + 1]
               PROVE  acc \in I /\ Cardinality(acc.left) = Cardinality(D) - (n + 1)
    OBVIOUS
  <2>1. n + 1 \in 0..N /\ n + 1 # 0 /\ (n + 1) - 1 = n
    BY <1>1, <1>6
  <2>2. PICK a \in loaded[n] : acc \in After(a)
    BY <1>3, <2>1
  <2>3. a \in I /\ Cardinality(a.left) = Cardinality(D) - n
    BY <1>6
  <2>4. acc \in I /\ Cardinality(acc.left) = Cardinality(a.left) - 1
    BY <1>5, <2>2, <2>3
  <2> QED
    BY <1>1, <1>a, <2>3, <2>4
<1>7. Within(0)
  <2>1. 0 \in 0..N
    BY <1>1
  <2>2. \A acc \in loaded[0] : acc \in start
    BY <1>3, <2>1
  <2> QED
    BY <1>a, <1>4, <2>2
<1> HIDE DEF Within
<1>8. Within(N)
  <2> DEFINE T == {k \in 0..N : Within(k)}
  <2>1. T \in SUBSET Nat /\ IsFiniteSet(T) /\ T # {}
    <3>1. T \in SUBSET (0..N) /\ IsFiniteSet(0..N)
      BY <1>1, FS_Interval
    <3>2. IsFiniteSet(T)
      BY <3>1, FS_Subset
    <3> QED
      BY <1>1, <1>7, <3>2
  <2>2. PICK k \in T : \A j \in T : j <= k
    <3> HIDE DEF T
    <3> QED
      BY <2>1, HasTop
  <2>3. k < N => k + 1 \in T
    BY <1>1, <1>6
  <2> QED
    BY <1>1, <2>2, <2>3
<1>9. PICK acc \in loaded[N] : seq = acc.seq
  BY <1>2
<1>10. acc \in I /\ acc.left \subseteq D /\ Cardinality(acc.left) = Cardinality(D) - N
  BY <1>8, <1>9 DEF Within, Sustained
<1>11. q.limit = 0 => acc.left = {}
  <2>1. IsFiniteSet(acc.left)
    BY <1>0, <1>10, FS_Subset
  <2> QED
    BY <1>a, <1>10, <2>1, FS_EmptySet
<1> QED
  BY <1>9, <1>10, <1>11 DEF RowsReached

\* However the database orders the rows it sends, and wherever LIMIT stops it, the
\* results are among them.
LEMMA LoadedType ==
    ASSUME NEW mod \in Modifiers, NEW q,
           q.limit \in Nat, q.attrOnly \in BOOLEAN,
           NEW D, IsFiniteSet(D), NEW R, \A x \in D : x.row \in R,
           NEW seq \in Loaded(mod, q, D)
    PROVE  seq \in Seq(R)
<1> DEFINE Prios == {0} \cup {Prio[StationKey(x.row.st)] : x \in D}
           I == {a \in [seq : Seq(R), prio : Prios, left : SUBSET D] : TRUE}
<1>1. [seq |-> <<>>, prio |-> 0, left |-> D] \in I
  OBVIOUS
<1>2. \A a \in I : Carried(a, R) /\ a.prio \in Prios /\ a.left \subseteq D
  BY DEF Carried
<1>3. \A a : Carried(a, R) /\ a.prio \in Prios /\ a.left \subseteq D => a \in I
  BY DEF Carried
<1>4. \A x \in D : Prio[StationKey(x.row.st)] \in Prios
  OBVIOUS
<1> HIDE DEF I, Prios
<1>5. ASSUME NEW a \in I, NEW x \in First(a.left)
      PROVE  Taken(mod, q, a, x) \in I /\ Taken(mod, q, a, x).left = a.left \ {x}
  <2>1. x \in D
    BY <1>2 DEF First
  <2> DEFINE t == Taken(mod, q, a, x)
  <2>a. x.row \in R /\ Carried(a, R)
    BY <1>2, <2>1
  <2>b. Grown(a, t, R, x.row) /\ t.left = a.left \ {x}
    <3>1. \A m \in Modifiers : \A c, y : y.row \in R =>
              /\ Grown(a, Taken(m, c, a, y), R, y.row)
              /\ Taken(m, c, a, y).left = a.left \ {y}
      BY <2>a, TakenCarried
    <3> QED
      BY <2>a, <3>1
  <2> HIDE DEF t
  <2>2. Carried(t, R) /\ t.left = a.left \ {x}
        /\ t.prio \in {a.prio, Prio[StationKey(x.row.st)]}
    BY <2>b DEF Grown
  <2>3. t \in I
    BY <1>2, <1>3, <1>4, <2>1, <2>2
  <2> QED
    BY <2>2, <2>3 DEF t
<1>6. Sustained(I, mod, q, D)
  BY <1>1, <1>2, <1>5 DEF Sustained
<1>7. RowsReached(I, q, seq)
  BY <1>6, LoadedReached
<1> QED
  BY <1>2, <1>7 DEF Carried, RowsReached


LEMMA SeqOfSet ==
    ASSUME NEW S, IsFiniteSet(S)
    PROVE  Seqs!SetToSeq(S) \in Seq(S)
<1> DEFINE N == Cardinality(S)
<1>1. N \in Nat /\ ExistsBijection(1..N, S)
  BY FS_CardinalityType
<1>2. PICK g \in [1..N -> S] : \A a, b \in 1..N : g[a] = g[b] => a = b
  BY <1>1 DEF ExistsBijection, Bijection, Injection, IsInjective
<1>3. Seqs!IsInjective(g)
  BY <1>2 DEF Seqs!IsInjective
<1>4. Seqs!Cardinality(S) = N
  BY DEF Cardinality, Seqs!Cardinality
<1>5. Seqs!SetToSeq(S) \in [1..N -> S]
  BY <1>3, <1>4 DEF Seqs!SetToSeq
<1> HIDE DEF N
<1> QED
  BY <1>1, <1>5

\* A value of a query is a row of the table it asks.
LEMMA DataResultsType ==
    ASSUME NEW q \in Selections, IsFiniteSet(rows)
    PROVE  /\ \A mod \in Modifiers : DataResults(mod, q) \subseteq Seq(Measured)
           /\ StationDataResults(q) \subseteq Seq(StationData)
<1>0. q.limit \in Nat /\ q.attrOnly \in BOOLEAN
  BY SelectionsAssumption
<1>1. ASSUME NEW mod \in Modifiers
      PROVE  DataResults(mod, q) \subseteq Seq(Measured)
  <2> DEFINE M == Matched(q, Measured)
             f == [r \in M |-> [row |-> r, key |-> OrderKey(mod, r)]]
             D == {[row |-> r, key |-> OrderKey(mod, r)] : r \in M}
  <2>1. M \in SUBSET rows /\ M \subseteq Measured
    BY DEF Matched, Measured
  <2>2. IsFiniteSet(M)
    BY <2>1, FS_Subset
  <2>3. DOMAIN f = M /\ D = {f[r] : r \in M}
    OBVIOUS
  <2>4. \A x \in D : x.row \in Measured
    BY <2>1
  <2>5. DataResults(mod, q) = Loaded(mod, q, D)
    BY DEF DataResults
  <2> HIDE DEF f, D, M
  <2>6. IsFiniteSet(D)
    BY <2>2, <2>3, ImageFinite
  <2> QED
    BY <1>0, <2>4, <2>5, <2>6, LoadedType
<1>2. StationDataResults(q) \subseteq Seq(StationData)
  <2> DEFINE M == Matched(q, StationData)
             f == [r \in M |-> [row |-> r, key |-> <<r.st, r.code>>]]
             D == {[row |-> r, key |-> <<r.st, r.code>>] : r \in M}
  <2>1. M \in SUBSET rows /\ M \subseteq StationData
    BY DEF Matched, StationData
  <2>2. IsFiniteSet(M)
    BY <2>1, FS_Subset
  <2>3. DOMAIN f = M /\ D = {f[r] : r \in M}
    OBVIOUS
  <2>4. \A x \in D : x.row \in StationData
    BY <2>1
  <2>5. StationDataResults(q) = Loaded("all", q, D)
    BY DEF StationDataResults
  <2> HIDE DEF f, D, M
  <2>6. IsFiniteSet(D)
    BY <2>2, <2>3, ImageFinite
  <2>7. "all" \in Modifiers
    BY DEF Modifiers
  <2> QED
    BY <1>0, <2>4, <2>5, <2>6, <2>7, LoadedType
<1> QED
  BY <1>1, <1>2

\* An entry of a summary has the level of a row that it stands for.
LEMMA SummaryResultsType ==
    ASSUME NEW q, IsFiniteSet(rows)
    PROVE  \E S : /\ SummaryResults(q) \in Seq(S)
                  /\ \A x \in S : \E r \in Measured : x.lt = r.lt
<1> DEFINE M == Matched(q, Measured)
           g == [d \in M |-> Summarised({r \in M : SameSeries(r, d)})]
           S == {Summarised(G) : G \in Groups(M)}
<1>1. M \in SUBSET rows /\ M \subseteq Measured
  BY DEF Matched, Measured
<1>2. S = {g[d] : d \in M} /\ DOMAIN g = M
  BY DEF Groups
<1>3. \A x \in S : \E r \in Measured : x.lt = r.lt
  <2> SUFFICES ASSUME NEW d \in M
               PROVE  \E x \in Measured : Summarised({r \in M : SameSeries(r, d)}).lt = x.lt
    BY DEF Groups
  <2> DEFINE G == {r \in M : SameSeries(r, d)}
  <2>1. d \in G
    BY DEF SameSeries
  <2>2. (CHOOSE r \in G : TRUE) \in G
    BY <2>1
  <2>3. Summarised(G).lt = (CHOOSE r \in G : TRUE).lt
    BY DEF Summarised
  <2>4. G \subseteq Measured
    BY <1>1
  <2> HIDE DEF G
  <2>5. \E r \in Measured : Summarised(G).lt = r.lt
    BY <2>2, <2>3, <2>4
  <2> QED
    BY <2>5 DEF G
<1>4. SummaryResults(q) = Seqs!SetToSeq(S)
  BY DEF SummaryResults
<1>5. IsFiniteSet(M)
  BY <1>1, FS_Subset
<1> HIDE DEF M, g, S
<1>6. IsFiniteSet(S)
  BY <1>2, <1>5, ImageFinite
<1> QED
  BY <1>3, <1>4, <1>6, SeqOfSet

LEMMA StationResultsType ==
    ASSUME NEW q, IsFiniteSet(station)
    PROVE  StationResults(q) \in Seq(station)
<1>1. PICK S \in SUBSET station : StationResults(q) = Seqs!SetToSeq(S)
  BY DEF StationResults
<1>2. IsFiniteSet(S)
  BY FS_Subset
<1>3. Seqs!SetToSeq(S) \in Seq(S)
  BY <1>2, SeqOfSet
<1> QED
  BY <1>1, <1>3

----------------------------------------------------------------------------
(* Cursors: the inductive invariant                                        *)

RowsOf(kind, R) ==
    CASE kind = "stationdata" -> {r \in R : r.ctx = StationCtx}
      [] kind = "data"        -> {r \in R : r.ctx # StationCtx}

\* A cursor has a sequence of rows; while nobody else writes, those of a query of
\* values were in the table it asked when it was made.
CursorShape ==
    Walking =>
        /\ cur = [kind |-> cur.kind, rows |-> cur.rows, atStart |-> cur.atStart]
        /\ \E S : cur.rows \in Seq(S)
        /\ cur.kind \in {"station", "stationdata", "data", "summary"}

WalkShape ==
    Walking /\ walk.alone =>
        /\ walk = [from |-> walk.from, removed |-> walk.removed, alone |-> TRUE]
        /\ UniqueRows(walk.from)
        /\ cur.kind \in {"stationdata", "data"} =>
              \A n \in DOMAIN cur.rows : cur.rows[n] \in RowsOf(cur.kind, walk.from)

\* The inductive invariant behind LevelsStayKnown and RemovesWhatRowsStandFor: that
\* of transactions, by which no two rows of a table share an id or a slot and no
\* value is filed under a level that is gone; and the rows of the cursor are what they were
\* when the query was made.
CursorInv ==
    /\ ArchiveInv
    /\ CursorShape /\ LevelsStayKnown
    /\ WalkShape /\ RemovesWhatRowsStandFor


\* What only reads leaves rows in their slots, and so does what removes some.
LEMMA SlotsStay ==
    ASSUME ArchiveInv, KeyedInv', UNCHANGED <<station, rows, last, saved>>
    PROVE  ArchiveInv'
BY DEF ArchiveInv, Slotted, SlottedTables, Here

LEMMA DeleteArchive ==
    ASSUME ArchiveInv, NEW D, DeleteRows(D)
    PROVE  ArchiveInv'
<1>1. KeyedInv'
  BY DeleteKeyed DEF ArchiveInv
<1>2. rows' \subseteq rows /\ station' = station /\ saved' = saved /\ last' = NoStation
  BY DEF DeleteRows
<1>3. SlottedTables(Here)
  BY DEF ArchiveInv, Slotted
<1>4. SlottedTables(Here)'
  BY <1>2, <1>3 DEF SlottedTables, OneSlot, NoLevel, Here
<1>5. Slotted(Here)' /\ SlottedTables(saved)'
  BY <1>2, <1>4, NoStationAssumption DEF ArchiveInv, Slotted, SlottedTables, Here
<1> QED
  BY <1>1, <1>5 DEF ArchiveInv

\* What a row stands for depends on the levels that are stored, and on no more.
LEMMA WalkStays ==
    ASSUME RemovesWhatRowsStandFor, cur' # NoCursor => cur # NoCursor /\ cur'.kind = cur.kind,
           walk' = walk, rows' = rows, levtr' = levtr
    PROVE  RemovesWhatRowsStandFor'
<1>1. SUFFICES ASSUME cur' # NoCursor, walk.alone
               PROVE  rows = {x \in walk.from : \A r \in walk.removed : ~Stands(cur.kind, x, r)'}
  BY DEF RemovesWhatRowsStandFor, Walking
<1>2. rows = {x \in walk.from : \A r \in walk.removed : ~Stands(cur.kind, x, r)}
  BY <1>1 DEF RemovesWhatRowsStandFor, Walking
<1>3. \A x, r : Stands(cur.kind, x, r)' <=> Stands(cur.kind, x, r)
  BY <1>1 DEF Stands, LevTrOf
<1> QED
  BY <1>2, <1>3

\* What the cursor relies on while its own transaction is the only one to write:
\* tables, cache and history.
LEMMA SameCursorInv ==
    ASSUME CursorInv, ArchiveInv', cur' = cur, cache \subseteq cache',
           \/ ~walk'.alone
           \/ walk' = walk /\ rows' = rows /\ levtr' = levtr
    PROVE  CursorInv'
<1>1. CursorShape'
  BY DEF CursorInv, CursorShape, Walking
<1>2. LevelsStayKnown'
  BY DEF CursorInv, LevelsStayKnown, ShowsLevels, Walking
<1>3. WalkShape'
  BY DEF CursorInv, WalkShape, RemovesWhatRowsStandFor, Walking, UniqueRows
<1>4. RemovesWhatRowsStandFor'
  <2>1. CASE ~walk'.alone
    BY <2>1 DEF RemovesWhatRowsStandFor
  <2> QED
    BY <2>1, WalkStays DEF CursorInv
<1> QED
  BY <1>1, <1>2, <1>3, <1>4 DEF CursorInv

LEMMA NoCursorInv ==
    ASSUME ArchiveInv', cur' = NoCursor
    PROVE  CursorInv'
BY DEF CursorInv, CursorShape, LevelsStayKnown, ShowsLevels, WalkShape,
       RemovesWhatRowsStandFor, Walking

----------------------------------------------------------------------------
(* Queries                                                                 *)

LEMMA QueryInv ==
    ASSUME CursorInv, NEW kind \in {"station", "stationdata", "data", "summary"},
           NEW S, NEW seq \in Seq(S), Query(AtStart(kind, seq)),
           kind \in {"stationdata", "data"} => S \subseteq RowsOf(kind, rows),
           kind \in {"data", "summary"} => \A x \in S : \E r \in Measured : x.lt = r.lt
    PROVE  CursorInv'
<1> DEFINE c == AtStart(kind, seq)
<1>1. /\ cur' = c /\ walk' = [from |-> rows, removed |-> {}, alone |-> TRUE]
      /\ ~fired /\ res' = "ok"
      /\ cache' = IF c.kind \in {"data", "summary"} THEN Prefetch(c.rows) ELSE cache
      /\ UNCHANGED <<station, levtr, rows, last, wattrs, fired, saved, begun>>
  BY DEF Query
<1>2. /\ c.kind = kind /\ c.rows = seq
      /\ c = [kind |-> c.kind, rows |-> c.rows, atStart |-> c.atStart]
  BY DEF AtStart
<1> HIDE DEF c
<1>3. KeyedInv /\ UniqueRows(rows) /\ LevelsFiled(rows, levtr)
  BY DEF CursorInv, ArchiveInv, KeyedInv, KeysInv
<1>4. ArchiveInv'
  <2>1. cache' \subseteq cache \cup levtr
    BY <1>1 DEF Prefetch
  <2>2. KeyedInv'
    BY <1>1, <1>3, <2>1, ReadLevelsKeyed
  <2> QED
    BY <1>1, <2>2, SlotsStay DEF CursorInv
<1>5. CursorShape'
  BY <1>1, <1>2 DEF CursorShape, Walking
<1>6. \A n \in DOMAIN seq : seq[n] \in S
  OBVIOUS
<1>7. LevelsStayKnown'
  <2> SUFFICES ASSUME kind \in {"data", "summary"}, NEW n \in DOMAIN seq
               PROVE  \E l \in Prefetch(seq) : l.id = seq[n].lt
    BY <1>1, <1>2 DEF LevelsStayKnown, ShowsLevels, Walking
  <2>1. PICK r \in Measured : seq[n].lt = r.lt
    BY <1>6
  <2>2. r.lt \in IdsOf(levtr)
    BY <1>3 DEF Measured, LevelsFiled
  <2>3. PICK l \in levtr : l.id = r.lt
    BY <2>2 DEF IdsOf
  <2> QED
    BY <2>1, <2>3 DEF Prefetch
<1>8. WalkShape'
  <2>1. /\ walk'.from = rows /\ walk'.removed = {} /\ walk'.alone = TRUE
        /\ walk' = [from |-> walk'.from, removed |-> walk'.removed, alone |-> TRUE]
    BY <1>1
  <2>2. UniqueRows(walk'.from)
    BY <1>3, <2>1
  <2>3. kind \in {"stationdata", "data"} =>
           \A n \in DOMAIN seq : seq[n] \in RowsOf(kind, rows)
    BY <1>6
  <2> QED
    BY <1>1, <1>2, <2>1, <2>2, <2>3 DEF WalkShape, UniqueRows, RowsOf
<1>9. RemovesWhatRowsStandFor'
  <2>1. rows' = rows /\ walk'.from = rows /\ walk'.removed = {}
    BY <1>1
  <2> QED
    BY <2>1 DEF RemovesWhatRowsStandFor
<1> QED
  BY <1>4, <1>5, <1>7, <1>8, <1>9 DEF CursorInv

LEMMA QueriesInv ==
    ASSUME CursorInv, NEW q \in Selections,
           \/ RunStationQuery(q) \/ RunSummaryQuery(q) \/ RunStationDataQuery(q)
           \/ \E mod \in {"all", "best", "last"} : RunDataQuery(mod, q)
    PROVE  CursorInv'
<1>1. IsFiniteSet(rows) /\ IsFiniteSet(station)
  BY InvTables DEF CursorInv, ArchiveInv, KeyedInv, CacheInv, LevelInv
<1>2. CASE RunStationQuery(q)
  BY <1>1, <1>2, StationResultsType, QueryInv DEF RunStationQuery
<1>3. CASE RunSummaryQuery(q)
  <2>1. PICK S : /\ SummaryResults(q) \in Seq(S)
                 /\ \A x \in S : \E r \in Measured : x.lt = r.lt
    BY <1>1, SummaryResultsType
  <2> QED
    BY <1>3, <2>1, QueryInv DEF RunSummaryQuery
<1>4. CASE RunStationDataQuery(q)
  <2>1. PICK seq \in StationDataResults(q) : Query(AtStart("stationdata", seq))
    BY <1>4 DEF RunStationDataQuery
  <2>2. seq \in Seq(StationData) /\ StationData \subseteq RowsOf("stationdata", rows)
    BY <1>1, <2>1, DataResultsType DEF StationData, RowsOf
  <2> QED
    BY <2>1, <2>2, QueryInv
<1>5. ASSUME NEW mod \in Modifiers, RunDataQuery(mod, q) PROVE CursorInv'
  <2>1. PICK seq \in DataResults(mod, q) : Query(AtStart("data", seq))
    BY <1>5 DEF RunDataQuery
  <2>2. seq \in Seq(Measured) /\ Measured \subseteq RowsOf("data", rows)
    BY <1>1, <2>1, DataResultsType DEF Measured, RowsOf
  <2> QED
    BY <2>1, <2>2, QueryInv
<1> QED
  BY <1>2, <1>3, <1>4, <1>5 DEF Modifiers

----------------------------------------------------------------------------
(* Walking                                                                 *)

LEMMA FetchInv ==
    ASSUME CursorInv, Fetch
    PROVE  CursorInv'
<1>1. /\ Walking /\ CursorShape /\ UNCHANGED <<vars, walk>>
      /\ cur' = [cur EXCEPT !.atStart = FALSE,
                            !.rows = IF cur.atStart \/ @ = <<>> THEN @ ELSE Tail(@)]
  BY DEF Fetch, Walking, CursorInv
<1>2. PICK S : cur.rows \in Seq(S)
  BY <1>1 DEF CursorShape
<1>3. /\ cur'.kind = cur.kind
      /\ cur'.rows = cur.rows \/ (cur.rows # <<>> /\ cur'.rows = Tail(cur.rows))
      /\ cur' = [kind |-> cur'.kind, rows |-> cur'.rows, atStart |-> cur'.atStart]
  BY <1>1 DEF CursorShape
<1>4. cur.rows # <<>> => /\ Tail(cur.rows) \in Seq(S)
                         /\ \A n \in DOMAIN Tail(cur.rows) :
                               n + 1 \in DOMAIN cur.rows /\ Tail(cur.rows)[n] = cur.rows[n + 1]
  BY <1>2
<1>5. /\ cur'.rows \in Seq(S)
      /\ \A n \in DOMAIN cur'.rows : \E m \in DOMAIN cur.rows : cur'.rows[n] = cur.rows[m]
  BY <1>2, <1>3, <1>4
<1>6. ArchiveInv'
  <2>1. [Next]_vars
    BY <1>1
  <2> QED
    BY <2>1, NextArchiveInv DEF CursorInv
<1>7. cache' = cache /\ rows' = rows /\ walk' = walk
  BY <1>1 DEF vars
<1>8. CursorShape'
  BY <1>1, <1>3, <1>5 DEF CursorShape
<1>9. LevelsStayKnown'
  BY <1>1, <1>3, <1>5, <1>7 DEF CursorInv, LevelsStayKnown, ShowsLevels, Walking
<1>10. WalkShape'
  BY <1>1, <1>3, <1>5, <1>7 DEF CursorInv, WalkShape, Walking, UniqueRows
<1>11. RemovesWhatRowsStandFor'
  BY <1>1, <1>3, <1>7, WalkStays DEF CursorInv, Walking, vars
<1> QED
  BY <1>6, <1>8, <1>9, <1>10, <1>11 DEF CursorInv

\* The row that an id names is still the row that the cursor has shown.
LEMMA RemoveCurrentInv ==
    ASSUME CursorInv, RemoveCurrent
    PROVE  CursorInv'
<1> DEFINE r == Head(cur.rows)
           D == DeletedBy(cur.kind, r)
<1>1. /\ Walking /\ cur.rows # <<>> /\ DeleteRows(D) /\ cur' = cur
      /\ walk' = IF walk.alone THEN [walk EXCEPT !.removed = @ \cup {r}] ELSE Disturbed
  BY DEF RemoveCurrent, HasValue, Walking
<1>2. rows' = rows \ D /\ cache' = cache /\ levtr' = levtr
  BY <1>1 DEF DeleteRows
<1>3. ArchiveInv'
  BY <1>1, DeleteArchive DEF CursorInv
<1>4. CASE ~walk.alone
  <2>1. ~walk'.alone
    BY <1>1, <1>4 DEF Disturbed
  <2> QED
    BY <1>1, <1>2, <1>3, <2>1, SameCursorInv
<1>5. CASE walk.alone
  <2>1. /\ walk = [from |-> walk.from, removed |-> walk.removed, alone |-> TRUE]
        /\ UniqueRows(walk.from)
    BY <1>1, <1>5 DEF CursorInv, WalkShape
  <2>2. /\ walk'.from = walk.from /\ walk'.removed = walk.removed \cup {r}
        /\ walk' = [from |-> walk'.from, removed |-> walk'.removed, alone |-> TRUE]
    BY <1>1, <1>5, <2>1
  <2>3. \A x \in rows : x \in D <=> Stands(cur.kind, x, r)
    <3>1. PICK S : cur.rows \in Seq(S)
      BY <1>1 DEF CursorInv, CursorShape
    <3>2. 1 \in DOMAIN cur.rows /\ r = cur.rows[1]
      BY <1>1, <3>1
    <3>3. rows \subseteq walk.from
      BY <1>1, <1>5 DEF CursorInv, RemovesWhatRowsStandFor
    <3>4. CASE cur.kind \in {"station", "summary"}
      BY <3>4 DEF DeletedBy, Summed, Stands, Measured
    <3>5. CASE cur.kind \in {"stationdata", "data"}
      <4>1. r \in RowsOf(cur.kind, walk.from)
        BY <1>1, <1>5, <3>2, <3>5 DEF CursorInv, WalkShape
      <4>2. \A x \in walk.from : SameTable(x, r) /\ x.id = r.id => x = r
        BY <2>1, <3>5, <4>1 DEF UniqueRows, RowsOf
      <4> QED
        BY <3>3, <3>5, <4>1, <4>2 DEF DeletedBy, Stands, Measured, StationData, RowsOf, SameTable
    <3> QED
      BY <1>1, <3>4, <3>5 DEF CursorInv, CursorShape
  <2> HIDE DEF r, D
  <2>4. RemovesWhatRowsStandFor'
    <3>1. rows = {x \in walk.from : \A y \in walk.removed : ~Stands(cur.kind, x, y)}
      BY <1>1, <1>5 DEF CursorInv, RemovesWhatRowsStandFor
    <3>2. rows' = {x \in walk'.from : \A y \in walk'.removed : ~Stands(cur.kind, x, y)}
      BY <1>2, <2>2, <2>3, <3>1
    <3> QED
      <4>1. \A x, y : Stands(cur.kind, x, y)' <=> Stands(cur.kind, x, y)
        BY <1>1, <1>2 DEF Stands, LevTrOf
      <4>2. rows' = {x \in walk'.from : \A y \in walk'.removed : ~Stands(cur.kind, x, y)'}
        BY <3>2, <4>1
      <4> QED
        BY <4>2 DEF RemovesWhatRowsStandFor
  <2>5. WalkShape'
    BY <1>1, <1>5, <2>1, <2>2 DEF CursorInv, WalkShape, Walking, UniqueRows
  <2>6. CursorShape' /\ LevelsStayKnown'
    BY <1>1, <1>2 DEF CursorInv, CursorShape, LevelsStayKnown, ShowsLevels, Walking
  <2> QED
    BY <1>3, <2>4, <2>5, <2>6 DEF CursorInv
<1> QED
  BY <1>4, <1>5


----------------------------------------------------------------------------
(* The other calls                                                         *)

\* insert_data may cache levels, and forgets none.
LEMMA InsertAtCache ==
    ASSUME NEW s, Sound(s), Live(s), NEW dt \in Datetimes \cup {NoDatetime},
           NEW lt \in LevTrs \cup {NoLevTr}, NEW V \in SUBSET Var, IsFiniteSet(V), NEW mode
    PROVE  s.cache \subseteq InsertAt(s, dt, lt, V, mode).cache
<1> DEFINE s1 == Load(s, dt)
           s2 == ObtainLevTrs(s1, {lt})
           s3 == AddAtLevTr(s2, dt, AtLevTr(lt, V), mode)
<1>1. CASE dt = NoDatetime
  BY <1>1, ThrowLevels DEF InsertAt, Sound, SameLevels
<1>2. CASE dt # NoDatetime
  <2>1. Sound(s1) /\ Live(s1) /\ s1.cache = s.cache
    BY <1>2, LoadSound, LoadLevels DEF Sound, Contexts, SameLevels
  <2>2. CASE lt = NoLevTr
    <3>1. InsertAt(s, dt, lt, V, mode) = Throw(s1, "usage")
      BY <1>2, <2>2 DEF InsertAt
    <3> HIDE DEF s1
    <3> QED
      BY <2>1, <3>1, ThrowLevels DEF Sound, SameLevels
  <2>3. CASE lt # NoLevTr
    <3>1. InsertAt(s, dt, lt, V, mode) = WritePending(s3)
      BY <1>2, <2>3 DEF InsertAt
    <3>2. IsFiniteSet({lt}) /\ {lt} \in SUBSET LevTrs /\ dt \in Contexts
      BY <1>2, <2>3, FS_Singleton DEF Contexts
    <3> HIDE DEF s1
    <3>3. Live(s2) /\ (s2.err = "ok" => \A l \in {lt} : \E c \in s2.cache : c.lt = l)
      BY <2>1, <3>2, ObtainLevTrsLive
    <3>4. s1.cache \subseteq s2.cache
      BY <2>1 DEF ObtainLevTrs, Sound, Good, Typed
    <3> HIDE DEF s2
    <3>5. /\ AtLevTr(lt, V) \subseteq [lt : {lt}, code : Codes, val : Vals, attr : BOOLEAN]
          /\ IsFiniteSet(AtLevTr(lt, V))
      BY AtLevTrType
    <3>6. AtLevTr(lt, V) \subseteq [lt : LevTrs, code : Codes, val : Vals, attr : BOOLEAN]
      BY <3>2, <3>5
    <3>7. s2.err = "ok" => \A v \in AtLevTr(lt, V) : \E c \in s2.cache : c.lt = v.lt
      BY <3>3, <3>5
    <3>8. Good(s3)
      BY <3>2, <3>3, <3>5, <3>6, <3>7, AddAtLevTrLive DEF Live
    <3>9. s3.cache = s2.cache
      BY <3>3, AddLevels DEF AddAtLevTr, Live, SameLevels
    <3> HIDE DEF s3
    <3> QED
      BY <2>1, <3>1, <3>4, <3>8, <3>9, WritePendingLevels DEF SameLevels
  <2> QED
    BY <2>2, <2>3
<1> QED
  BY <1>1, <1>2

LEMMA InsertDataCache ==
    ASSUME CursorInv, NEW key \in Stations, NEW V \in VarSets, NEW dt \in Datetimes,
           NEW lt \in LevTrs, InsertData(key, MissingId, dt, lt, V, TRUE, TRUE)
    PROVE  cache \subseteq cache'
<1> DEFINE s1 == GetStation(Here, key, MissingId, TRUE)
           t == InsertDataCall(Here, key, MissingId, dt, lt, V, TRUE, TRUE)
<1>1. Sound(Here) /\ Here.cache = cache
  BY DEF CursorInv, ArchiveInv, KeyedInv, CacheInv, LevelInv, Inv, Here
<1>2. V \in SUBSET Var /\ IsFiniteSet(V)
  BY VarSetsAssumption
<1>3. cache' = t.cache
  BY DEF InsertData, Call, Return
<1>4. CASE V = {}
  <2>1. t = Throw(Here, "empty")
    BY <1>4 DEF InsertDataCall
  <2> HIDE DEF t
  <2> QED
    BY <1>1, <1>3, <2>1, ThrowLevels DEF Sound, SameLevels
<1>5. CASE V # {}
  <2>1. t = InsertAt(s1, dt, lt, V, "UPDATE")
    BY <1>5 DEF InsertDataCall, ModeOf
  <2>2. Sound(s1) /\ Live(s1)
    BY <1>1, GetStationSound
  <2>3. s1.cache = cache
    BY <1>1, GetStationLevels DEF Sound, SameLevels
  <2> HIDE DEF s1, t
  <2> QED
    BY <1>2, <1>3, <2>1, <2>2, <2>3, InsertAtCache
<1> QED
  BY <1>4, <1>5

LEMMA InitCursorInv == CursorInit => CursorInv
<1> SUFFICES ASSUME CursorInit PROVE CursorInv
  OBVIOUS
<1>1. PICK t \in CursorTables :
         station = t.station /\ levtr = t.levtr /\ rows = t.rows /\ saved = t
  BY DEF CursorInit
<1>2. ArchiveInv
  <2>1. Consistent(t)
    BY CursorTablesAssumption
  <2>2. KeyedInv
    BY <1>1, <2>1, ConsistentKeyed DEF CursorInit
  <2>3. SlottedTables(t) /\ t.rows = rows /\ t.station = station
    BY <1>1, <2>1 DEF Consistent, SlottedTables, UniqueIds, OneSlot, NoLevel
  <2>4. SlottedTables(Here) /\ SlottedTables(saved) /\ Here.last \notin CachedStation
    BY <1>1, <2>3, NoStationAssumption DEF CursorInit, SlottedTables, Here
  <2> QED
    BY <2>2, <2>4 DEF ArchiveInv, Slotted
<1> QED
  BY <1>2 DEF CursorInit, CursorInv, CursorShape, LevelsStayKnown, ShowsLevels, WalkShape,
              RemovesWhatRowsStandFor, Walking

LEMMA NextCursorInv == CursorInv /\ [CursorNext]_cursorVars => CursorInv'
<1> SUFFICES ASSUME CursorInv, [CursorNext]_cursorVars PROVE CursorInv'
  OBVIOUS
<1>0. [Next]_vars => ArchiveInv'
  BY NextArchiveInv DEF CursorInv
<1>1. Meanwhile => cur' = cur /\ ~walk'.alone
  BY DEF Meanwhile, Disturbed
<1>2. ASSUME NEW key \in Stations, NEW V \in VarSets, NEW dt \in Datetimes,
             NEW lt \in LevTrs, InsertData(key, MissingId, dt, lt, V, TRUE, TRUE), Meanwhile
      PROVE  CursorInv'
  <2>1. Next
    <3> DEFINE ref == <<key, MissingId>>
    <3>1. ref \in StationRef /\ ref[1] = key /\ ref[2] = MissingId
      BY DEF StationRef
    <3>2. dt \in Datetimes \cup {NoDatetime} /\ lt \in LevTrs \cup {NoLevTr}
      OBVIOUS
    <3>3. InsertData(ref[1], ref[2], dt, lt, V, TRUE, TRUE)
      BY <1>2, <3>1
    <3> HIDE DEF ref
    <3> QED
      BY <3>1, <3>2, <3>3 DEF Next
  <2> QED
    BY <1>0, <1>1, <1>2, <2>1, InsertDataCache, SameCursorInv
<1>3. ASSUME NEW q \in Queries, RemoveData(q), Meanwhile PROVE CursorInv'
  <2>1. cache' = cache /\ ArchiveInv'
    BY <1>3, DeleteArchive DEF RemoveData, DeleteRows, CursorInv
  <2> QED
    BY <1>1, <1>3, <2>1, SameCursorInv
<1>4. CASE (RemoveAll \/ Begin \/ Commit \/ Rollback) /\ Discard
  BY <1>0, <1>4, NoCursorInv DEF Next, Discard
<1>5. CASE UNCHANGED cursorVars
  <2>1. /\ [Next]_vars /\ cur' = cur /\ cache' = cache /\ walk' = walk /\ rows' = rows
        /\ levtr' = levtr
    BY <1>5 DEF cursorVars, vars
  <2> QED
    BY <1>0, <2>1, SameCursorInv
<1> QED
  BY <1>2, <1>3, <1>4, <1>5, QueriesInv, FetchInv, RemoveCurrentInv DEF CursorNext

----------------------------------------------------------------------------
(* What a reduction keeps                                                  *)

Reductions == {"best", "last"}

\* a and b compete for one place in the results.
Alike(mod, a, b) == IF mod = "best" THEN SamePoint(a, b) ELSE SameSeries(a, b)

\* Row r takes the place of row l.
Overtakes(mod, r, l) ==
    IF mod = "best" THEN Prio[StationKey(r.st)] > Prio[StationKey(l.st)]
    ELSE r.ctx > l.ctx

NoBetter(mod, x, r) ==
    IF mod = "best"
    THEN LET px == Prio[StationKey(x.st)]
             pr == Prio[StationKey(r.st)]
         IN  px < pr \/ (px = pr /\ Rep[StationKey(r.st)] <= Rep[StationKey(x.st)])
    ELSE x.ctx <= r.ctx

BestIn(mod, E) == {r \in E : \A x \in E : Alike(mod, x, r) => NoBetter(mod, x, r)}

\* The order of what competes for different places, in one series.
ComesBefore(mod, a, b) ==
    IF mod = "best"
    THEN LET pa == Place[StationKey(a.st)]
             pb == Place[StationKey(b.st)]
         IN  pa < pb \/ (pa = pb /\ a.ctx < b.ctx)
    ELSE a.st < b.st

\* Rows of stations that their report and place tell apart, one in each slot.
Rated(R) ==
    /\ \A r \in R : StationKey(r.st) \in Stations /\ r.st \in Nat /\ r.ctx \in Nat
    /\ \A a, b \in R : StationKey(a.st) = StationKey(b.st) => a.st = b.st
    /\ OneSlot(R)

Front(seq) == {seq[n] : n \in 1..(Len(seq) - 1)}

LEMMA LastAndFront ==
    ASSUME NEW R, NEW seq \in Seq(R)
    PROVE  /\ seq = <<>> => Seqs!ToSet(seq) = {}
           /\ seq # <<>> => /\ Seqs!Last(seq) \in R
                            /\ Seqs!ToSet(seq) = Front(seq) \cup {Seqs!Last(seq)}
<1>1. Len(seq) \in Nat /\ DOMAIN seq = 1..Len(seq) /\ (seq = <<>> <=> Len(seq) = 0)
  OBVIOUS
<1>2. Seqs!ToSet(seq) = {seq[n] : n \in 1..Len(seq)}
  BY <1>1 DEF Seqs!ToSet
<1>3. CASE seq # <<>>
  <2>1. Len(seq) \in 1..Len(seq) /\ Seqs!Last(seq) = seq[Len(seq)]
    BY <1>1, <1>3 DEF Seqs!Last
  <2> DEFINE N == Len(seq)
  <2>2. \A n \in 1..N : n = N \/ n \in 1..(N - 1)
    <3>1. N \in Nat
      BY <1>1
    <3> HIDE DEF N
    <3> QED
      BY <3>1
  <2>3. \A n \in 1..(N - 1) : n \in 1..N
    <3>1. N \in Nat
      BY <1>1
    <3> HIDE DEF N
    <3> QED
      BY <3>1
  <2>4. Seqs!Last(seq) \in R
    BY <2>1
  <2>5. Seqs!ToSet(seq) = Front(seq) \cup {Seqs!Last(seq)}
    BY <1>2, <2>1, <2>2, <2>3 DEF Front
  <2> QED
    BY <1>3, <2>4, <2>5
<1>4. CASE seq = <<>>
  <2>1. 1..Len(seq) = {}
    BY <1>4
  <2> QED
    BY <1>2, <1>4, <2>1
<1> QED
  BY <1>3, <1>4

LEMMA AppendedSet ==
    ASSUME NEW R, NEW seq \in Seq(R), NEW r \in R
    PROVE  LET s == Append(seq, r)
           IN  s # <<>> /\ Seqs!Last(s) = r /\ Front(s) = Seqs!ToSet(seq)
<1> DEFINE s == Append(seq, r)
<1>1. /\ s \in Seq(R) /\ Len(s) = Len(seq) + 1 /\ s[Len(seq) + 1] = r
      /\ \A n \in 1..Len(seq) : s[n] = seq[n]
      /\ Len(seq) \in Nat /\ DOMAIN seq = 1..Len(seq)
  OBVIOUS
<1> HIDE DEF s
<1>2. s # <<>> /\ Seqs!Last(s) = r
  BY <1>1 DEF Seqs!Last
<1>3. 1..(Len(s) - 1) = 1..Len(seq)
  BY <1>1
<1>4. Front(s) = Seqs!ToSet(seq)
  BY <1>1, <1>3 DEF Front, Seqs!ToSet
<1> QED
  BY <1>2, <1>4 DEF s

LEMMA ReplacedSet ==
    ASSUME NEW R, NEW seq \in Seq(R), seq # <<>>, NEW r \in R
    PROVE  LET s == ReplaceLast(seq, r)
           IN  s # <<>> /\ Seqs!Last(s) = r /\ Front(s) = Front(seq)
<1> DEFINE s == ReplaceLast(seq, r)
           N == Len(seq)
<1>1. N \in Nat /\ N # 0 /\ seq \in [1..N -> R]
  OBVIOUS
<1>2. s = [seq EXCEPT ![N] = r]
  BY DEF ReplaceLast
<1> HIDE DEF s, N
<1>3. N \in 1..N
  BY <1>1
<1>4. /\ s \in [1..N -> R] /\ s[N] = r
      /\ \A n \in 1..N : n # N => s[n] = seq[n]
  BY <1>1, <1>2, <1>3
<1>5. s \in Seq(R) /\ Len(s) = N
  BY <1>1, <1>4
<1>6. s # <<>> /\ Seqs!Last(s) = r
  BY <1>1, <1>4, <1>5 DEF Seqs!Last
<1>7. \A n \in 1..(N - 1) : n \in 1..N /\ n # N
  BY <1>1
<1>8. Front(s) = Front(seq)
  BY <1>4, <1>5, <1>7 DEF Front, N
<1> QED
  BY <1>6, <1>8 DEF s

LEMMA AlikeIsEquivalence ==
    ASSUME NEW mod
    PROVE  /\ \A a : Alike(mod, a, a)
           /\ \A a, b : Alike(mod, a, b) => Alike(mod, b, a)
           /\ \A a, b, c : Alike(mod, a, b) /\ Alike(mod, b, c) => Alike(mod, a, c)
BY DEF Alike, SamePoint, SameSeries

LEMMA PrecedesOrders ==
    ASSUME NEW mod \in Reductions, NEW R, Rated(R)
    PROVE  /\ \A a, b \in R : ComesBefore(mod, a, b) => ~Alike(mod, a, b)
           /\ \A a, b, c \in R : ComesBefore(mod, a, b) /\ ComesBefore(mod, b, c)
                                 => ComesBefore(mod, a, c)
           /\ \A a, b, c \in R : ComesBefore(mod, a, b) /\ Alike(mod, b, c)
                                 => ComesBefore(mod, a, c)
<1>1. \A r \in R : Place[StationKey(r.st)] \in Nat /\ r.st \in Nat /\ r.ctx \in Nat
  BY PlaceAssumption DEF Rated
<1>2. CASE mod = "best"
  BY <1>1, <1>2 DEF ComesBefore, Alike, SamePoint
<1>3. CASE mod = "last"
  BY <1>1, <1>3 DEF ComesBefore, Alike, SameSeries
<1> QED
  BY <1>2, <1>3 DEF Reductions

LEMMA NoBetterOrders ==
    ASSUME NEW mod \in Reductions, NEW R, Rated(R)
    PROVE  /\ \A r \in R : NoBetter(mod, r, r)
           /\ \A x, l, r \in R : NoBetter(mod, x, l) /\ NoBetter(mod, l, r)
                                 => NoBetter(mod, x, r)
<1>1. \A r \in R : /\ Prio[StationKey(r.st)] \in Int /\ Rep[StationKey(r.st)] \in Nat
                   /\ r.ctx \in Nat
  BY PlaceAssumption DEF Rated
<1>2. CASE mod = "best"
  BY <1>1, <1>2 DEF NoBetter
<1>3. CASE mod = "last"
  BY <1>1, <1>3 DEF NoBetter
<1> QED
  BY <1>2, <1>3 DEF Reductions

\* The columns that ORDER BY compares.
LEMMA OrderKeyIs ==
    ASSUME NEW r
    PROVE  /\ OrderKey("best", r) = <<Place[StationKey(r.st)], r.ctx, LevTrOf(r),
                                      Rep[StationKey(r.st)], r.code>>
           /\ OrderKey("last", r) = <<r.st, r.ctx, LevTrOf(r),
                                      Rep[StationKey(r.st)], r.code>>
BY DEF OrderKey

\* A row that comes after another one of its series is of no earlier place and time.
LEMMA SentInOrder ==
    ASSUME NEW mod \in Reductions, NEW R, Rated(R), NEW r \in R, NEW p \in R,
           ~Less(OrderKey(mod, r), OrderKey(mod, p))
    PROVE  /\ r.code = p.code /\ r.lt = p.lt => Alike(mod, r, p) \/ ComesBefore(mod, p, r)
           /\ mod = "best" /\ Alike(mod, r, p)
                => Rep[StationKey(p.st)] <= Rep[StationKey(r.st)]
<1>1. \A x \in R : /\ Place[StationKey(x.st)] \in Nat /\ Rep[StationKey(x.st)] \in Nat
                   /\ x.st \in Nat /\ x.ctx \in Nat
  BY PlaceAssumption DEF Rated
<1>2. CASE mod = "best"
  <2> DEFINE a == OrderKey("best", r)
             b == OrderKey("best", p)
  <2>1. /\ a = <<Place[StationKey(r.st)], r.ctx, LevTrOf(r), Rep[StationKey(r.st)], r.code>>
        /\ b = <<Place[StationKey(p.st)], p.ctx, LevTrOf(p), Rep[StationKey(p.st)], p.code>>
    BY OrderKeyIs
  <2> HIDE DEF a, b
  <2>2. /\ DOMAIN a = 1..5
        /\ a[1] = Place[StationKey(r.st)] /\ b[1] = Place[StationKey(p.st)]
        /\ a[2] = r.ctx /\ b[2] = p.ctx
        /\ a[3] = LevTrOf(r) /\ b[3] = LevTrOf(p)
        /\ a[4] = Rep[StationKey(r.st)] /\ b[4] = Rep[StationKey(p.st)]
    BY <2>1
  <2>3. \A n \in 1..5 : a[n] < b[n] => \E m \in 1..(n - 1) : a[m] # b[m]
    BY <1>2, <2>2 DEF Less, a, b
  <2>4. ~ (Place[StationKey(r.st)] < Place[StationKey(p.st)])
    BY <2>2, <2>3
  <2>5. Place[StationKey(r.st)] = Place[StationKey(p.st)] => ~ (r.ctx < p.ctx)
    <3>1. \A m \in 1..(2 - 1) : m = 1
      OBVIOUS
    <3> QED
      BY <2>2, <2>3, <3>1
  <2>6. SamePoint(r, p) => ~ (Rep[StationKey(r.st)] < Rep[StationKey(p.st)])
    <3>1. \A m \in 1..(4 - 1) : m = 1 \/ m = 2 \/ m = 3
      OBVIOUS
    <3>2. SamePoint(r, p) => a[1] = b[1] /\ a[2] = b[2] /\ a[3] = b[3]
      BY <2>2 DEF SamePoint, LevTrOf
    <3> QED
      BY <2>2, <2>3, <3>1, <3>2
  <2> QED
    BY <1>1, <1>2, <2>4, <2>5, <2>6 DEF Alike, ComesBefore, SamePoint
<1>3. CASE mod = "last"
  <2> DEFINE a == OrderKey("last", r)
             b == OrderKey("last", p)
  <2>1. /\ a = <<r.st, r.ctx, LevTrOf(r), Rep[StationKey(r.st)], r.code>>
        /\ b = <<p.st, p.ctx, LevTrOf(p), Rep[StationKey(p.st)], p.code>>
    BY OrderKeyIs
  <2> HIDE DEF a, b
  <2>2. 1 \in DOMAIN a /\ a[1] = r.st /\ b[1] = p.st
    BY <2>1
  <2>3. ~ (r.st < p.st)
    BY <1>3, <2>2 DEF Less, a, b
  <2> QED
    BY <1>1, <1>3, <2>3 DEF Alike, ComesBefore, SameSeries
<1> QED
  BY <1>2, <1>3 DEF Reductions

\* Of two rows that compete, the one that stays is better.
LEMMA TheBetterStays ==
    ASSUME NEW mod \in Reductions, NEW R, Rated(R), NEW r \in R, NEW l \in R, r # l,
           Alike(mod, r, l), ~Less(OrderKey(mod, r), OrderKey(mod, l))
    PROVE  IF Overtakes(mod, r, l) THEN NoBetter(mod, l, r) /\ ~NoBetter(mod, r, l)
           ELSE NoBetter(mod, r, l) /\ ~NoBetter(mod, l, r)
<1>1. \A x \in R : /\ Prio[StationKey(x.st)] \in Int /\ Rep[StationKey(x.st)] \in Nat
                   /\ x.ctx \in Nat /\ StationKey(x.st) \in Stations
  BY PlaceAssumption DEF Rated
<1>2. ~ (r.st = l.st /\ r.ctx = l.ctx /\ r.lt = l.lt /\ r.code = l.code)
  BY DEF Rated, OneSlot, SameKey
<1>3. CASE mod = "best"
  <2>1. Rep[StationKey(l.st)] <= Rep[StationKey(r.st)]
    BY <1>3, SentInOrder
  <2>2. SamePoint(r, l)
    BY <1>3 DEF Alike
  <2>3. StationKey(r.st) # StationKey(l.st)
    BY <1>2, <2>2 DEF SamePoint, Rated
  <2>4. Rep[StationKey(l.st)] # Rep[StationKey(r.st)]
    BY <1>1, <2>2, <2>3, KeyAssumption DEF SamePoint
  <2> QED
    BY <1>1, <1>3, <2>1, <2>4 DEF Overtakes, NoBetter
<1>4. CASE mod = "last"
  <2>1. r.ctx # l.ctx
    BY <1>2, <1>4 DEF Alike, SameSeries
  <2> QED
    BY <1>1, <1>4, <2>1 DEF Overtakes, NoBetter
<1> QED
  BY <1>3, <1>4 DEF Reductions

\* seq is the reduction of the rows P, which came in order.
Reduced(mod, P, seq) ==
    /\ P = {} <=> seq = <<>>
    /\ seq # <<>> => Seqs!Last(seq) \in P
    /\ BestIn(mod, P) \subseteq Seqs!ToSet(seq)
    /\ OneSeries(P) =>
          /\ Seqs!ToSet(seq) \subseteq BestIn(mod, P)
          /\ seq # <<>> =>
                /\ \A p \in P : \/ Alike(mod, p, Seqs!Last(seq))
                                \/ ComesBefore(mod, p, Seqs!Last(seq))
                /\ \A p \in Front(seq) : ComesBefore(mod, p, Seqs!Last(seq))

\* What a row makes of the results (cursor.cc:172-228).
ReducedBy(mod, seq, r) ==
    IF seq = <<>> \/ ~Alike(mod, r, Seqs!Last(seq)) THEN Append(seq, r)
    ELSE IF Overtakes(mod, r, Seqs!Last(seq)) THEN ReplaceLast(seq, r)
    ELSE seq

LEMMA ReducedStart ==
    ASSUME NEW mod PROVE Reduced(mod, {}, <<>>)
<1>1. Seqs!ToSet(<<>>) = {}
  BY DEF Seqs!ToSet
<1> QED
  BY <1>1 DEF Reduced, BestIn

LEMMA ReducedStep ==
    ASSUME NEW mod \in Reductions, NEW R, Rated(R), NEW P \in SUBSET R,
           NEW seq \in Seq(P), Reduced(mod, P, seq), NEW r \in R, r \notin P,
           \A p \in P : ~Less(OrderKey(mod, r), OrderKey(mod, p))
    PROVE  Reduced(mod, P \cup {r}, ReducedBy(mod, seq, r))
<1> DEFINE Q == P \cup {r}
           l == Seqs!Last(seq)
           t == ReducedBy(mod, seq, r)
<1>1. Q \in SUBSET R /\ seq \in Seq(Q) /\ r \in Q
  OBVIOUS
<1>2. \A p \in P : OneSeries(Q) => Alike(mod, r, p) \/ ComesBefore(mod, p, r)
  <2> TAKE p \in P
  <2>1. OneSeries(Q) => r.code = p.code /\ r.lt = p.lt
    BY DEF OneSeries
  <2>2. p \in R /\ ~Less(OrderKey(mod, r), OrderKey(mod, p))
    OBVIOUS
  <2> QED
    BY <2>1, <2>2, SentInOrder
<1>3. OneSeries(Q) => OneSeries(P)
  BY DEF OneSeries
<1>4. \A x \in BestIn(mod, Q) : x \in P => x \in BestIn(mod, P)
  BY DEF BestIn
<1>5. CASE seq = <<>> \/ ~Alike(mod, r, l)
  <2>1. t = Append(seq, r)
    BY <1>5 DEF ReducedBy
  <2>2. t # <<>> /\ Seqs!Last(t) = r /\ Front(t) = Seqs!ToSet(seq) /\ t \in Seq(Q)
    BY <1>1, <2>1, AppendedSet
  <2> HIDE DEF t
  <2>3. Seqs!ToSet(t) = Seqs!ToSet(seq) \cup {r}
    BY <2>2, LastAndFront
  <2>4. BestIn(mod, Q) \subseteq Seqs!ToSet(t)
    BY <1>4, <2>3 DEF Reduced, BestIn
  <2>5. ASSUME OneSeries(Q), NEW p \in P
        PROVE  ComesBefore(mod, p, r)
    <3>1. seq # <<>> /\ l \in P /\ ~Alike(mod, r, l)
      BY <1>5 DEF Reduced
    <3>2. ComesBefore(mod, l, r)
      BY <1>2, <2>5, <3>1
    <3>3. Alike(mod, p, l) \/ ComesBefore(mod, p, l)
      BY <1>3, <2>5, <3>1 DEF Reduced
    <3>4. CASE ComesBefore(mod, p, l)
      BY <3>1, <3>2, <3>4, PrecedesOrders
    <3>5. CASE Alike(mod, p, l)
      <4>1. ~Alike(mod, r, p)
        BY <3>1, <3>5, AlikeIsEquivalence
      <4> QED
        BY <1>2, <2>5, <4>1
    <3> QED
      BY <3>3, <3>4, <3>5
  <2>6. ASSUME OneSeries(Q) PROVE Seqs!ToSet(t) \subseteq BestIn(mod, Q)
    <3>1. \A p \in P : ~Alike(mod, r, p) /\ ~Alike(mod, p, r)
      BY <2>5, <2>6, PrecedesOrders, AlikeIsEquivalence
    <3>2. r \in BestIn(mod, Q)
      BY <3>1, NoBetterOrders DEF BestIn
    <3>3. Seqs!ToSet(seq) \subseteq BestIn(mod, P)
      BY <1>3, <2>6 DEF Reduced
    <3>4. BestIn(mod, P) \subseteq BestIn(mod, Q)
      BY <3>1 DEF BestIn
    <3> QED
      BY <2>3, <3>2, <3>3, <3>4
  <2>7. ASSUME OneSeries(Q) PROVE \A p \in Front(t) : ComesBefore(mod, p, r)
    <3>1. Seqs!ToSet(seq) \subseteq P
      BY <1>3, <2>7 DEF Reduced, BestIn
    <3> QED
      BY <2>2, <2>5, <2>7, <3>1
  <2>8. \A p \in Q : OneSeries(Q) => Alike(mod, p, r) \/ ComesBefore(mod, p, r)
    BY <2>5, AlikeIsEquivalence
  <2>9. Reduced(mod, Q, t)
    BY <2>2, <2>4, <2>6, <2>7, <2>8 DEF Reduced
  <2> QED
    BY <2>9 DEF t
<1>6. CASE seq # <<>> /\ Alike(mod, r, l)
  <2>1. l \in P /\ l \in R /\ r # l /\ Alike(mod, l, r)
    BY <1>6, AlikeIsEquivalence DEF Reduced
  <2>2. IF Overtakes(mod, r, l) THEN NoBetter(mod, l, r) /\ ~NoBetter(mod, r, l)
        ELSE NoBetter(mod, r, l) /\ ~NoBetter(mod, l, r)
    BY <1>6, <2>1, TheBetterStays
  <2>3. Seqs!ToSet(seq) = Front(seq) \cup {l}
    BY <1>6, LastAndFront
  <2>4. CASE Overtakes(mod, r, l)
    <3>1. t = ReplaceLast(seq, r)
      BY <1>6, <2>4 DEF ReducedBy
    <3>2. t # <<>> /\ Seqs!Last(t) = r /\ Front(t) = Front(seq) /\ t \in Seq(Q)
      <4> DEFINE u == ReplaceLast(seq, r)
      <4> HIDE DEF Q
      <4>1. u \in Seq(Q)
        BY <1>1, <1>6, ReplaceLastType
      <4>2. u # <<>> /\ Seqs!Last(u) = r /\ Front(u) = Front(seq)
        BY <1>1, <1>6, ReplacedSet
      <4> QED
        BY <3>1, <4>1, <4>2
    <3> HIDE DEF t
    <3>3. Seqs!ToSet(t) = Front(seq) \cup {r}
      BY <3>2, LastAndFront
    <3>4. l \notin BestIn(mod, Q)
      BY <1>6, <2>2, <2>4 DEF BestIn
    <3>5. BestIn(mod, Q) \subseteq Seqs!ToSet(t)
      <4>1. \A x \in BestIn(mod, Q) : x = r \/ x \in Seqs!ToSet(seq)
        BY <1>4 DEF BestIn, Reduced
      <4> QED
        BY <2>3, <3>3, <3>4, <4>1
    <3>6. ASSUME OneSeries(Q) PROVE \A p \in Front(t) : p \in P /\ ComesBefore(mod, p, r)
      <4> TAKE p \in Front(t)
      <4>1. ComesBefore(mod, p, l)
        BY <1>3, <1>6, <3>2, <3>6 DEF Reduced
      <4>2. p \in P
        BY <1>3, <2>3, <3>2, <3>6 DEF Reduced, BestIn
      <4> QED
        BY <2>1, <4>1, <4>2, PrecedesOrders
    <3>7. ASSUME OneSeries(Q) PROVE \A p \in Q : Alike(mod, p, r) \/ ComesBefore(mod, p, r)
      BY <1>2, <3>7, AlikeIsEquivalence
    <3>8. ASSUME OneSeries(Q) PROVE Seqs!ToSet(t) \subseteq BestIn(mod, Q)
      <4>1. Seqs!ToSet(seq) \subseteq BestIn(mod, P)
        BY <1>3, <3>8 DEF Reduced
      <4>2. \A x \in P : Alike(mod, x, r) => NoBetter(mod, x, r)
        <5> SUFFICES ASSUME NEW x \in P, Alike(mod, x, r) PROVE NoBetter(mod, x, r)
          OBVIOUS
        <5>1. l \in BestIn(mod, P) /\ Alike(mod, x, l)
          BY <2>1, <2>3, <4>1, AlikeIsEquivalence
        <5>2. NoBetter(mod, x, l) /\ NoBetter(mod, l, r) /\ x \in R
          BY <2>2, <2>4, <5>1 DEF BestIn
        <5> QED
          BY <2>1, <5>2, NoBetterOrders
      <4>3. r \in BestIn(mod, Q)
        BY <4>2, NoBetterOrders DEF BestIn
      <4>4. \A p \in Front(seq) : p \in BestIn(mod, P) /\ ~Alike(mod, r, p)
        BY <2>3, <3>2, <3>6, <3>8, <4>1, PrecedesOrders, AlikeIsEquivalence
      <4>5. \A p \in Front(seq) : p \in BestIn(mod, Q)
        BY <4>4 DEF BestIn
      <4> QED
        BY <3>3, <4>3, <4>5
    <3>9. Reduced(mod, Q, t)
      BY <3>2, <3>5, <3>6, <3>7, <3>8 DEF Reduced
    <3> QED
      BY <3>9 DEF t
  <2>5. CASE ~Overtakes(mod, r, l)
    <3>1. t = seq
      BY <1>6, <2>5 DEF ReducedBy
    <3>2. r \notin BestIn(mod, Q)
      BY <2>1, <2>2, <2>5 DEF BestIn
    <3>3. BestIn(mod, Q) \subseteq Seqs!ToSet(seq)
      <4>1. \A x \in BestIn(mod, Q) : x \in Seqs!ToSet(seq)
        BY <1>4, <3>2 DEF BestIn, Reduced
      <4> QED
        BY <4>1
    <3>4. ASSUME OneSeries(Q) PROVE Seqs!ToSet(seq) \subseteq BestIn(mod, Q)
      <4>1. Seqs!ToSet(seq) \subseteq BestIn(mod, P)
        BY <1>3, <3>4 DEF Reduced
      <4>2. ASSUME NEW p \in Seqs!ToSet(seq), Alike(mod, r, p) PROVE NoBetter(mod, r, p)
        <5>1. p \in P /\ Alike(mod, p, l)
          BY <1>6, <4>1, <4>2, AlikeIsEquivalence DEF BestIn
        <5>2. p = l
          <6>1. p \in Front(seq) => ComesBefore(mod, p, l)
            BY <1>3, <1>6, <3>4 DEF Reduced
          <6> QED
            BY <2>1, <2>3, <5>1, <6>1, PrecedesOrders
        <5> QED
          BY <2>2, <2>5, <5>2
      <4> QED
        BY <4>1, <4>2 DEF BestIn
    <3>5. ASSUME OneSeries(Q)
          PROVE  /\ \A p \in Q : Alike(mod, p, l) \/ ComesBefore(mod, p, l)
                 /\ \A p \in Front(seq) : ComesBefore(mod, p, l)
      BY <1>3, <1>6, <3>5 DEF Reduced
    <3>6. Reduced(mod, Q, seq)
      BY <1>6, <2>1, <3>3, <3>4, <3>5 DEF Reduced
    <3> QED
      BY <3>1, <3>6
  <2> QED
    BY <2>4, <2>5
<1> QED
  BY <1>5, <1>6

\* A reduction by priority or by date, whatever comes first of what ORDER BY does
\* not tell apart.
LEMMA LoadedReduced ==
    ASSUME NEW mod \in Reductions, NEW q, q.limit = 0, q.attrOnly = FALSE,
           NEW M, IsFiniteSet(M), Rated(M),
           NEW seq \in Loaded(mod, q, {[row |-> r, key |-> OrderKey(mod, r)] : r \in M})
    PROVE  Reduced(mod, M, seq)
<1> DEFINE sent(r) == [row |-> r, key |-> OrderKey(mod, r)]
           D == {sent(r) : r \in M}
           Done(a) == {r \in M : sent(r) \notin a.left}
           Current(a) == mod = "best" /\ a.seq # <<>> =>
                            a.prio = Prio[StationKey(Seqs!Last(a.seq).st)]
           Ordered(a) == \A p \in Done(a), x \in a.left : ~Less(x.key, OrderKey(mod, p))
           Fits(a) == /\ a = [seq |-> a.seq, prio |-> a.prio, left |-> a.left]
                      /\ a.seq \in Seq(Done(a)) /\ a.prio \in Int /\ a.left \subseteq D
                      /\ Reduced(mod, Done(a), a.seq) /\ Current(a) /\ Ordered(a)
           I == {a \in [seq : Seq(M), prio : Int, left : SUBSET D] : Fits(a)}
<1>0. mod \in Modifiers /\ mod # "all"
  BY DEF Reductions, Modifiers
<1>1. \A x \in D : x.row \in M /\ x = sent(x.row) /\ x.key = OrderKey(mod, x.row)
  OBVIOUS
<1>2. \A r \in M : Prio[StationKey(r.st)] \in Int
  BY PlaceAssumption DEF Rated
<1>3. IsFiniteSet(D)
  <2> DEFINE f == [r \in M |-> sent(r)]
  <2>1. D = {f[r] : r \in M} /\ DOMAIN f = M
    OBVIOUS
  <2> HIDE DEF f, D
  <2> QED
    BY <2>1, ImageFinite
<1>4. \A a : Fits(a) => a \in I
  <2> SUFFICES ASSUME NEW a, Fits(a) PROVE a \in I
    OBVIOUS
  <2>1. a.seq \in Seq(M)
    <3>1. a.seq \in Seq(Done(a)) /\ Done(a) \subseteq M
      OBVIOUS
    <3> HIDE DEF Done
    <3> QED
      BY <3>1
  <2> HIDE DEF D, Done, Current, Ordered
  <2> QED
    BY <2>1
<1>5. \A a \in I : Fits(a)
  OBVIOUS
<1>6. [seq |-> <<>>, prio |-> 0, left |-> D] \in I
  <2> DEFINE a == [seq |-> <<>>, prio |-> 0, left |-> D]
  <2>1. /\ Done(a) = {} /\ a.seq = <<>> /\ a.prio = 0 /\ a.left = D
        /\ a = [seq |-> a.seq, prio |-> a.prio, left |-> a.left]
    OBVIOUS
  <2>2. Reduced(mod, {}, <<>>)
    BY ReducedStart
  <2> HIDE DEF D, Done, I, a
  <2>3. a.seq \in Seq(Done(a)) /\ a.left \subseteq D /\ Current(a)
    BY <2>1
  <2>4. Ordered(a) /\ Reduced(mod, Done(a), a.seq)
    BY <2>1, <2>2
  <2>5. Fits(a)
    BY <2>1, <2>3, <2>4
  <2> QED
    BY <1>4, <2>5 DEF a
<1>7. ASSUME NEW a \in I, NEW x \in First(a.left)
      PROVE  Taken(mod, q, a, x) \in I /\ Taken(mod, q, a, x).left = a.left \ {x}
  <2> DEFINE r == x.row
             P == Done(a)
             l == Seqs!Last(a.seq)
             k == AddTo(mod, a, r)
             t == Taken(mod, q, a, x)
  <2> HIDE DEF I
  <2>1. Fits(a)
    BY <1>5
  <2>2. x \in a.left /\ x \in D /\ \A y \in a.left : ~Less(y.key, x.key)
    BY <2>1 DEF First
  <2>3. r \in M /\ x = sent(r) /\ x.key = OrderKey(mod, r)
    BY <1>1, <2>2
  <2>4. P \in SUBSET M /\ r \notin P
    BY <2>2, <2>3
  <2>5. \A p \in P : ~Less(OrderKey(mod, r), OrderKey(mod, p))
    BY <2>1, <2>2, <2>3
  <2> HIDE DEF D, Done
  <2>6. Reduced(mod, P \cup {r}, ReducedBy(mod, a.seq, r))
    BY <2>1, <2>3, <2>4, <2>5, ReducedStep
  <2>7. /\ k = [seq |-> ReducedBy(mod, a.seq, r), prio |-> k.prio, left |-> a.left]
        /\ k.prio \in Int
        /\ mod = "best" => k.prio = Prio[StationKey(Seqs!Last(k.seq).st)]
    <3>1. CASE mod = "best"
      <4>1. k = AddToBest(a, r)
        BY <3>1 DEF AddTo
      <4>2. a.seq # <<>> => l \in M /\ a.prio = Prio[StationKey(l.st)]
        BY <2>1, <2>4, <3>1 DEF Reduced
      <4>3. CASE a.seq = <<>> \/ ~SamePoint(r, l)
        <5>1. /\ k = [seq |-> Append(a.seq, r), prio |-> Prio[StationKey(r.st)],
                      left |-> a.left]
          BY <2>1, <4>1, <4>3 DEF AddToBest
        <5>2. ReducedBy(mod, a.seq, r) = Append(a.seq, r)
          BY <3>1, <4>3 DEF ReducedBy, Alike
        <5>3. Seqs!Last(Append(a.seq, r)) = r
          <6>1. a.seq \in Seq(P \cup {r})
            BY <2>1
          <6> QED
            BY <6>1, AppendedSet
        <5> QED
          BY <1>2, <2>3, <5>1, <5>2, <5>3
      <4>4. CASE a.seq # <<>> /\ SamePoint(r, l) /\ Prio[StationKey(r.st)] <= a.prio
        <5>1. k = a
          BY <4>1, <4>4 DEF AddToBest
        <5>2. ~Overtakes(mod, r, l)
          BY <1>2, <2>3, <3>1, <4>2, <4>4 DEF Overtakes
        <5>3. ReducedBy(mod, a.seq, r) = a.seq
          BY <3>1, <4>4, <5>2 DEF ReducedBy, Alike
        <5> QED
          BY <2>1, <4>4, <5>1, <5>3
      <4>5. CASE a.seq # <<>> /\ SamePoint(r, l) /\ ~ (Prio[StationKey(r.st)] <= a.prio)
        <5>1. k = [seq |-> ReplaceLast(a.seq, r), prio |-> Prio[StationKey(r.st)],
                   left |-> a.left]
          BY <2>1, <4>1, <4>5 DEF AddToBest
        <5>2. Overtakes(mod, r, l)
          BY <1>2, <2>3, <3>1, <4>2, <4>5 DEF Overtakes
        <5>3. ReducedBy(mod, a.seq, r) = ReplaceLast(a.seq, r)
          BY <3>1, <4>5, <5>2 DEF ReducedBy, Alike
        <5>4. Seqs!Last(ReplaceLast(a.seq, r)) = r
          <6>1. a.seq \in Seq(P \cup {r})
            BY <2>1
          <6> QED
            BY <4>5, <6>1, ReplacedSet
        <5> QED
          BY <1>2, <2>3, <5>1, <5>3, <5>4
      <4> QED
        BY <4>3, <4>4, <4>5
    <3>2. CASE mod = "last"
      <4>1. k = AddToLast(a, r)
        BY <3>2 DEF AddTo
      <4>2. CASE a.seq = <<>> \/ ~SameSeries(r, l)
        BY <2>1, <3>2, <4>1, <4>2 DEF AddToLast, ReducedBy, Alike
      <4>3. CASE a.seq # <<>> /\ SameSeries(r, l) /\ r.ctx <= l.ctx
        <5>1. l \in M /\ l.ctx \in Nat /\ r.ctx \in Nat
          BY <2>1, <2>3, <2>4, <4>3 DEF Reduced, Rated
        <5> QED
          BY <2>1, <3>2, <4>1, <4>3, <5>1 DEF AddToLast, ReducedBy, Alike, Overtakes
      <4>4. CASE a.seq # <<>> /\ SameSeries(r, l) /\ ~ (r.ctx <= l.ctx)
        <5>1. l \in M /\ l.ctx \in Nat /\ r.ctx \in Nat
          BY <2>1, <2>3, <2>4, <4>4 DEF Reduced, Rated
        <5> QED
          BY <2>1, <3>2, <4>1, <4>4, <5>1 DEF AddToLast, ReducedBy, Alike, Overtakes
      <4> QED
        BY <4>2, <4>3, <4>4
    <3> QED
      BY <3>1, <3>2 DEF Reductions
  <2>8. t = [k EXCEPT !.left = @ \ {x}]
    BY DEF Taken
  <2> DEFINE u == ReducedBy(mod, a.seq, r)
  <2>a. k = [seq |-> u, prio |-> k.prio, left |-> a.left]
    BY <2>7
  <2> HIDE DEF k, t, u
  <2>b. t = [seq |-> u, prio |-> k.prio, left |-> a.left \ {x}] /\ k.seq = u
    BY <2>8, <2>a
  <2>c. /\ t = [seq |-> t.seq, prio |-> t.prio, left |-> t.left]
        /\ t.seq = u /\ t.prio = k.prio /\ t.left = a.left \ {x} /\ k.seq = t.seq
    BY <2>b
  <2>9. /\ t = [seq |-> t.seq, prio |-> t.prio, left |-> t.left]
        /\ t.seq = ReducedBy(mod, a.seq, r) /\ t.prio = k.prio
        /\ t.left = a.left \ {x} /\ k.seq = t.seq
    BY <2>c DEF u
  <2>10. Done(t) = P \cup {r}
    <3>1. \A y \in M : sent(y) = x <=> y = r
      BY <2>3
    <3> QED
      BY <2>3, <2>9, <3>1 DEF Done
  <2>11. t.seq \in Seq(P \cup {r})
    <3>1. a.seq \in Seq(P \cup {r})
      BY <2>1
    <3>2. Append(a.seq, r) \in Seq(P \cup {r})
      BY <3>1
    <3>3. a.seq # <<>> => ReplaceLast(a.seq, r) \in Seq(P \cup {r})
      BY <3>1, ReplaceLastType
    <3> QED
      BY <2>9, <3>1, <3>2, <3>3 DEF ReducedBy
  <2>12. Ordered(t)
    BY <2>1, <2>2, <2>3, <2>9, <2>10
  <2>13. Fits(t)
    BY <2>1, <2>6, <2>7, <2>9, <2>10, <2>11, <2>12
  <2>14. t \in I
    BY <1>4, <2>13
  <2> QED
    BY <2>9, <2>14 DEF t
<1> HIDE DEF Fits
<1>8. Sustained(I, mod, q, D)
  <2>1. \A a \in I : a.left \subseteq D
    BY <1>5 DEF Fits
  <2> HIDE DEF D, I
  <2> QED
    BY <1>3, <1>6, <1>7, <2>1 DEF Sustained
<1>9. RowsReached(I, q, seq)
  <2> HIDE DEF D, I
  <2>1. \A s \in Loaded(mod, q, D) : RowsReached(I, q, s)
    BY <1>8, LoadedReached
  <2> QED
    BY <2>1 DEF D
<1>10. PICK a \in I : a.seq = seq /\ a.left = {}
  BY <1>9 DEF RowsReached
<1>11. Done(a) = M /\ Reduced(mod, Done(a), a.seq)
  BY <1>5, <1>10 DEF Fits
<1> QED
  BY <1>10, <1>11

\* The rows of a table are told apart by what ORDER BY compares.
LEMMA RowsRated ==
    ASSUME ArchiveInv, NEW M \in SUBSET Measured
    PROVE  Rated(M) /\ IsFiniteSet(M)
<1>1. /\ rows \subseteq DataRow /\ station \subseteq StationRow /\ IsFiniteSet(rows)
      /\ UniqueKeys(station)
  BY InvTables DEF ArchiveInv, KeyedInv, CacheInv, LevelInv, TypeOK
<1>2. Filed(station, rows)
  BY DEF ArchiveInv, KeyedInv, CacheInv, CacheLinked
<1>3. OneSlot(rows)
  BY DEF ArchiveInv, Slotted, SlottedTables, Here
<1>4. \A r \in rows : \E s \in station : s.id = r.st /\ StationKey(r.st) = s.key
  <2> TAKE r \in rows
  <2>1. r.st \in IdsOf(station)
    BY <1>2 DEF Filed
  <2>2. \E s \in station : s.id = r.st
    BY <2>1 DEF IdsOf
  <2> QED
    BY <2>2 DEF StationKey
<1>5. M \subseteq rows /\ IsFiniteSet(M)
  <2>1. M \subseteq rows
    BY DEF Measured
  <2> QED
    BY <1>1, <2>1, FS_Subset
<1>6. \A r \in M : StationKey(r.st) \in Stations /\ r.st \in Nat /\ r.ctx \in Nat
  <2> TAKE r \in M
  <2>1. r \in DataRow /\ r.ctx # StationCtx
    BY <1>1, <1>5 DEF Measured
  <2>2. StationKey(r.st) \in Stations
    BY <1>1, <1>4, <1>5 DEF StationRow
  <2> QED
    BY <2>1, <2>2, OrderAssumption DEF DataRow, Contexts, RowIds
<1>7. \A a, b \in M : StationKey(a.st) = StationKey(b.st) => a.st = b.st
  BY <1>1, <1>4, <1>5 DEF UniqueKeys
<1>8. OneSlot(M)
  BY <1>3, <1>5 DEF OneSlot
<1> QED
  BY <1>5, <1>6, <1>7, <1>8 DEF Rated

LEMMA ResultsReduced ==
    ASSUME ArchiveInv, NEW mod \in Reductions, NEW q \in Selections, Unfiltered(q),
           RunDataQuery(mod, q)
    PROVE  LET D == Matched(q, Measured)
               found == Seqs!ToSet(cur'.rows)
           IN  /\ BestIn(mod, D) \subseteq found
               /\ OneSeries(D) => found = BestIn(mod, D)
<1> DEFINE D == Matched(q, Measured)
<1>1. PICK seq \in DataResults(mod, q) : cur' = AtStart("data", seq)
  BY DEF RunDataQuery, Query
<1>2. cur'.rows = seq
  BY <1>1 DEF AtStart
<1>3. Rated(D) /\ IsFiniteSet(D)
  <2>1. D \in SUBSET Measured
    BY DEF Matched
  <2> HIDE DEF D
  <2> QED
    BY <2>1, RowsRated
<1>4. seq \in Loaded(mod, q, {[row |-> r, key |-> OrderKey(mod, r)] : r \in D})
  BY DEF DataResults
<1>5. q.limit = 0 /\ q.attrOnly = FALSE
  BY SelectionsAssumption DEF Unfiltered
<1> HIDE DEF D
<1>6. Reduced(mod, D, seq)
  BY <1>3, <1>4, <1>5, LoadedReduced
<1>7. /\ BestIn(mod, D) \subseteq Seqs!ToSet(seq)
      /\ OneSeries(D) => Seqs!ToSet(seq) = BestIn(mod, D)
  BY <1>6 DEF Reduced
<1> QED
  BY <1>2, <1>7 DEF D

----------------------------------------------------------------------------
(* What the program can rely on                                            *)

\* get_level and get_trange of a cursor find the level and time range of every row
\* it has left to show (levtr.cc:16, cursor.h:221), also when the transaction has
\* deleted or written values since the query.
THEOREM LevelsAreFound == CursorSpec => []LevelsStayKnown
<1>1. CursorInv => LevelsStayKnown
  BY DEF CursorInv
<1> QED
  BY <1>1, InitCursorInv, NextCursorInv, PTL DEF CursorSpec

\* remove() of a cursor names rows by the ids that the query returned
\* (cursor.cc:146-160), or by station, code and level for a summary (cursor.cc:321),
\* and takes away what the rows that it was called on stand for and nothing else, for
\* any query, of any values, of a transaction that nothing else is done with.
THEOREM WalkTakesWhatRowsStandFor == CursorSpec => []RemovesWhatRowsStandFor
<1>1. CursorInv => RemovesWhatRowsStandFor
  BY DEF CursorInv
<1> QED
  BY <1>1, InitCursorInv, NextCursorInv, PTL DEF CursorSpec

\* A query by priority returns every value that no other report beats, and one for
\* the last values every one of the last, in whatever order the database sends what
\* ORDER BY does not tell apart (cursor.cc:172-301): add_to_best_results and
\* add_to_last_results look at the last result only, and miss nothing by it.
THEOREM NothingIsHidden == CursorSpec => NothingBetterIsHidden
<1>1. ASSUME CursorInv, [CursorNext]_cursorVars
      PROVE  [\A q \in Selections :
                LET D == Matched(q, Measured)
                    found == Seqs!ToSet(cur'.rows)
                    Reduces(wanted) == wanted \subseteq found /\ (OneSeries(D) => found = wanted)
                IN  Unfiltered(q) =>
                        /\ RunDataQuery("best", q) => Reduces(BestOf(D))
                        /\ RunDataQuery("last", q) => Reduces(LatestOf(D))]_cursorVars
  <2>1. ASSUME NEW q \in Selections, Unfiltered(q)
        PROVE  LET D == Matched(q, Measured)
                   found == Seqs!ToSet(cur'.rows)
                   Reduces(wanted) == wanted \subseteq found /\ (OneSeries(D) => found = wanted)
               IN  /\ RunDataQuery("best", q) => Reduces(BestOf(D))
                   /\ RunDataQuery("last", q) => Reduces(LatestOf(D))
    <3>1. ArchiveInv
      BY <1>1 DEF CursorInv
    <3>2. \A D : BestIn("best", D) = BestOf(D)
      BY DEF BestIn, BestOf, Alike, NoBetter, SamePoint, SameSpot
    <3>3. \A D : BestIn("last", D) = LatestOf(D)
      BY DEF BestIn, LatestOf, Alike, NoBetter
    <3>4. "best" \in Reductions /\ "last" \in Reductions
      BY DEF Reductions
    <3> DEFINE D == Matched(q, Measured)
               found == Seqs!ToSet(cur'.rows)
               Reduces(wanted) == wanted \subseteq found /\ (OneSeries(D) => found = wanted)
    <3>5. ASSUME RunDataQuery("best", q) PROVE Reduces(BestOf(D))
      <4>1. Reduces(BestIn("best", D))
        BY <2>1, <3>1, <3>4, <3>5, ResultsReduced
      <4> QED
        BY <3>2, <4>1
    <3>6. ASSUME RunDataQuery("last", q) PROVE Reduces(LatestOf(D))
      <4>1. Reduces(BestIn("last", D))
        BY <2>1, <3>1, <3>4, <3>6, ResultsReduced
      <4> QED
        BY <3>3, <4>1
    <3> QED
      BY <3>5, <3>6
  <2> QED
    BY <2>1
<1> QED
  BY <1>1, InitCursorInv, NextCursorInv, PTL DEF CursorSpec, NothingBetterIsHidden
----------------------------------------------------------------------------
(* Sessions: the results of a query                                        *)

\* A finite set as a sequence: each of its members, once.
LEMMA SequenceOfSet ==
    ASSUME NEW S, IsFiniteSet(S)
    PROVE  LET f == Sequence!SetToSeq(S)
           IN  /\ f \in Seq(S) /\ Len(f) \in Nat
               /\ \A m, n \in 1..Len(f) : f[m] = f[n] => m = n
<1> DEFINE N == Cardinality(S)
<1>1. N \in Nat /\ ExistsBijection(1..N, S)
  BY FS_CardinalityType
<1>2. PICK g \in [1..N -> S] : \A a, b \in 1..N : g[a] = g[b] => a = b
  BY <1>1 DEF ExistsBijection, Bijection, Injection, IsInjective
<1>3. Sequence!IsInjective(g)
  BY <1>2 DEF Sequence!IsInjective
<1> DEFINE f == Sequence!SetToSeq(S)
<1>0. Sequence!Cardinality(S) = N
  BY DEF Cardinality, Sequence!Cardinality
<1>4. f \in [1..N -> S] /\ Sequence!IsInjective(f)
  BY <1>0, <1>3 DEF Sequence!SetToSeq
<1> HIDE DEF f, N
<1>5. f \in Seq(S) /\ Len(f) = N
  BY <1>1, <1>4
<1>6. \A m, n \in 1..N : f[m] = f[n] => m = n
  BY <1>4 DEF Sequence!IsInjective
<1> QED
  BY <1>1, <1>5, <1>6 DEF f

----------------------------------------------------------------------------
(* What the calls of a session do to the transaction                       *)

\* Calls of the transaction, attributes of any row, or the levels of results
\* read into the cache.
TransactionStep ==
    \/ [Next]_vars
    \/ \E ofStation, id : \E b \in BOOLEAN : SetAttrs(ofStation, id, b)
    \/ /\ cache \subseteq cache' /\ cache' \subseteq cache \cup levtr
       /\ UNCHANGED <<station, levtr, rows, last, wattrs, fired, saved, begun, res>>

LEMMA SetAttrsKeyed ==
    ASSUME KeyedInv, NEW ofStation, NEW id, NEW b \in BOOLEAN, SetAttrs(ofStation, id, b)
    PROVE  KeyedInv'
<1>1. Inv /\ CacheInv /\ KeysInv /\ TypeOK /\ LevelInv
  BY DEF KeyedInv, CacheInv, LevelInv, Inv
<1>2. Inv'
  BY <1>1, SetAttrsInv
<1>3. LevelInv'
  BY <1>1, <1>2, SameLevelsGoal DEF SetAttrs, LevelInv, LevelGoal, UniqueLevels
<1>4. CacheInv'
  BY <1>1, <1>3, SetAttrsLinked DEF CacheInv, CacheGoal, Filed
<1> QED
  BY <1>1, <1>4, SetAttrsKeys DEF KeyedInv

LEMMA TransactionStepKeyed ==
    ASSUME KeyedInv, ~fired, TransactionStep
    PROVE  KeyedInv'
BY NextKeyedInv, SetAttrsKeyed, ReadLevelsKeyed DEF TransactionStep

----------------------------------------------------------------------------
(* The input file                                                          *)

\* A file that is open, and how far it has been read.
Reading(i) ==
    /\ i.file \in Files
    /\ i = [file |-> i.file, pos |-> i.pos, held |-> i.held, idx |-> i.idx]
    /\ i.pos \in 0..Len(i.file) /\ i.idx \in Nat
    /\ IF i.held = <<>> THEN i.pos = 0 \/ i.file[i.pos] = Broken
       ELSE /\ i.pos # 0 /\ i.file[i.pos] # Broken
            /\ i.held = i.file[i.pos] /\ i.idx < Len(i.held)

Reached(m, i) == m[1] < i.pos \/ (m[1] = i.pos /\ m[2] <= i.idx)

LEMMA FileShape ==
    ASSUME NEW F \in Files
    PROVE  /\ Len(F) \in Nat /\ DOMAIN F = 1..Len(F)
           /\ \A b \in 1..Len(F) : F[b] # Broken =>
                 F[b] \in Seq(Messages) /\ Len(F[b]) \in Nat /\ Len(F[b]) > 0
<1>1. F \in Seq({F[i] : i \in DOMAIN F})
  BY FilesAssumption
<1>2. Len(F) \in Nat /\ DOMAIN F = 1..Len(F)
  BY <1>1
<1>3. ASSUME NEW b \in 1..Len(F), F[b] # Broken
      PROVE  F[b] \in Seq(Messages) /\ Len(F[b]) \in Nat /\ Len(F[b]) > 0
  <2>1. F[b] \in Seq(Messages) /\ Len(F[b]) > 0
    BY <1>2, <1>3, FilesAssumption
  <2> QED
    BY <2>1
<1> QED
  BY <1>2, <1>3

LEMMA MessagesOfIs ==
    ASSUME NEW F \in Files, NEW m
    PROVE  m \in MessagesOf(F) <=>
              \E b \in 1..Len(F) : F[b] # Broken /\ \E n \in 0..Len(F[b]) - 1 : m = <<b, n>>
BY FileShape DEF MessagesOf

\* The next message is the first one that has not been reached.
Advances(i, j) ==
    /\ Reading(j) /\ j.file = i.file
    /\ \A x \in Nat \X Nat : Reached(x, i) => Reached(x, j)
    /\ IF j.held = <<>> THEN \A m \in MessagesOf(i.file) : Reached(m, j) => Reached(m, i)
       ELSE /\ \A m \in MessagesOf(i.file) : Reached(m, j) => Reached(m, i) \/ m = <<j.pos, j.idx>>
            /\ \A x \in Nat \X Nat : Reached(x, i) => Precedes(x, <<j.pos, j.idx>>)
            /\ j.held[j.idx + 1] \in Messages

LEMMA NextMessageAdvances ==
    ASSUME NEW i, Reading(i)
    PROVE  NextMessage(i) = i \/ Advances(i, NextMessage(i))
<1> DEFINE j == NextMessage(i)
           F == i.file
<1>1. F \in Files /\ i.pos \in Nat /\ i.pos <= Len(F) /\ i.idx \in Nat /\ Len(F) \in Nat
  BY FileShape DEF Reading
<1>2. \A m \in MessagesOf(F) : m[1] \in 1..Len(F) /\ F[m[1]] # Broken /\ m[2] \in Nat
                               /\ m[2] < Len(F[m[1]]) /\ m = <<m[1], m[2]>>
  <2> SUFFICES ASSUME NEW m \in MessagesOf(F)
               PROVE  m[1] \in 1..Len(F) /\ F[m[1]] # Broken /\ m[2] \in Nat
                      /\ m[2] < Len(F[m[1]]) /\ m = <<m[1], m[2]>>
    OBVIOUS
  <2>1. PICK b \in 1..Len(F) : F[b] # Broken /\ \E n \in 0..Len(F[b]) - 1 : m = <<b, n>>
    BY <1>1, MessagesOfIs
  <2>2. Len(F[b]) \in Nat
    BY <1>1, <2>1, FileShape
  <2> QED
    BY <2>1, <2>2
<1>3. CASE i.idx + 1 < Len(i.held)
  <2>1. i.held # <<>>
    BY <1>1, <1>3
  <2>2. /\ i.pos # 0 /\ F[i.pos] # Broken /\ i.held = F[i.pos] /\ i.idx < Len(i.held)
    BY <2>1 DEF Reading
  <2>3. j = [i EXCEPT !.idx = @ + 1]
    BY <1>3 DEF NextMessage
  <2>4. i = [file |-> i.file, pos |-> i.pos, held |-> i.held, idx |-> i.idx]
    BY DEF Reading
  <2>5. /\ j.file = F /\ j.pos = i.pos /\ j.held = i.held /\ j.idx = i.idx + 1
        /\ j = [file |-> j.file, pos |-> j.pos, held |-> j.held, idx |-> j.idx]
    BY <2>3, <2>4
  <2> HIDE DEF j
  <2>6. Reading(j)
    BY <1>1, <1>3, <2>1, <2>2, <2>5 DEF Reading
  <2>7. i.held \in Seq(Messages)
    BY <1>1, <2>2, FileShape
  <2>8. j.held[j.idx + 1] \in Messages
    BY <1>1, <1>3, <2>5, <2>7
  <2>9. \A x \in Nat \X Nat : Reached(x, i) => Reached(x, j) /\ Precedes(x, <<j.pos, j.idx>>)
    BY <1>1, <2>5 DEF Reached, Precedes
  <2>10. \A m \in MessagesOf(F) : Reached(m, j) => Reached(m, i) \/ m = <<j.pos, j.idx>>
    BY <1>1, <1>2, <2>5 DEF Reached
  <2>11. Advances(i, j)
    BY <2>1, <2>5, <2>6, <2>8, <2>9, <2>10 DEF Advances
  <2> QED
    BY <2>11 DEF j
<1>4. CASE ~(i.idx + 1 < Len(i.held)) /\ i.pos = Len(F)
  BY <1>4 DEF NextMessage
<1>5. CASE ~(i.idx + 1 < Len(i.held)) /\ i.pos # Len(F)
  <2>1. i.pos + 1 \in 1..Len(F)
    BY <1>1, <1>5
  <2>2. \A m \in MessagesOf(F) : m[1] = i.pos => m[2] <= i.idx
    <3> SUFFICES ASSUME NEW m \in MessagesOf(F), m[1] = i.pos PROVE m[2] <= i.idx
      OBVIOUS
    <3>1. i.held # <<>>
      BY <1>2 DEF Reading
    <3>2. i.held = F[i.pos] /\ i.pos \in 1..Len(F) /\ F[i.pos] # Broken
      BY <1>1, <3>1 DEF Reading
    <3>3. Len(i.held) \in Nat
      BY <1>1, <3>2, FileShape
    <3> QED
      BY <1>1, <1>2, <1>5, <3>2, <3>3
  <2>3. i = [file |-> i.file, pos |-> i.pos, held |-> i.held, idx |-> i.idx]
    BY DEF Reading
  <2>4. CASE F[i.pos + 1] = Broken
    <3>1. j = [i EXCEPT !.pos = @ + 1, !.held = <<>>]
      BY <1>5, <2>4 DEF NextMessage
    <3>2. /\ j.file = F /\ j.pos = i.pos + 1 /\ j.held = <<>> /\ j.idx = i.idx
          /\ j = [file |-> j.file, pos |-> j.pos, held |-> j.held, idx |-> j.idx]
      BY <2>3, <3>1
    <3> HIDE DEF j
    <3>3. Reading(j)
      BY <1>1, <2>1, <2>4, <3>2 DEF Reading
    <3>4. \A x \in Nat \X Nat : Reached(x, i) => Reached(x, j)
      BY <1>1, <3>2 DEF Reached
    <3>5. \A m \in MessagesOf(F) : m[1] # i.pos + 1
      BY <1>2, <2>4
    <3>6. \A m \in MessagesOf(F) : Reached(m, j) => Reached(m, i)
      BY <1>1, <1>2, <2>2, <3>2, <3>5 DEF Reached
    <3>7. Advances(i, j)
      BY <3>2, <3>3, <3>4, <3>6 DEF Advances
    <3> QED
      BY <3>7 DEF j
  <2>5. CASE F[i.pos + 1] # Broken
    <3>1. j = [i EXCEPT !.pos = @ + 1, !.held = F[i.pos + 1], !.idx = 0]
      BY <1>5, <2>5 DEF NextMessage
    <3>2. /\ j.file = F /\ j.pos = i.pos + 1 /\ j.held = F[i.pos + 1] /\ j.idx = 0
          /\ j = [file |-> j.file, pos |-> j.pos, held |-> j.held, idx |-> j.idx]
      BY <2>3, <3>1
    <3> HIDE DEF j
    <3>3. j.held \in Seq(Messages) /\ Len(j.held) \in Nat /\ Len(j.held) > 0
      BY <1>1, <2>1, <2>5, <3>2, FileShape
    <3>4. Reading(j) /\ j.held # <<>>
      BY <1>1, <2>1, <2>5, <3>2, <3>3 DEF Reading
    <3>5. j.held[j.idx + 1] \in Messages
      BY <3>2, <3>3
    <3>6. \A x \in Nat \X Nat : Reached(x, i) => Reached(x, j) /\ Precedes(x, <<j.pos, j.idx>>)
      BY <1>1, <3>2 DEF Reached, Precedes
    <3>7. \A m \in MessagesOf(F) : Reached(m, j) => Reached(m, i) \/ m = <<j.pos, j.idx>>
      BY <1>1, <1>2, <2>2, <3>2 DEF Reached
    <3>8. Advances(i, j)
      BY <3>2, <3>4, <3>5, <3>6, <3>7 DEF Advances
    <3> QED
      BY <3>8 DEF j
  <2> QED
    BY <2>4, <2>5
<1> QED
  BY <1>3, <1>4, <1>5

----------------------------------------------------------------------------
(* The operation                                                           *)

Operation ==
    {NoOp}
    \cup [kind : {"stations"}, left : Nat]
    \cup [kind : {"data"}, ofStation : BOOLEAN, rows : Seq(DataRow), at : Nat,
          attrs : BOOLEAN, valid : BOOLEAN, ended : BOOLEAN]
    \cup [kind : {"insert"}, ofStation : BOOLEAN, ids : SUBSET [code : Codes, id : RowIds],
          related : Codes \cup {NoCode}]
    \cup [kind : {"varid"}, id : AttrTargets]

\* Every result of a query is of one table, has an id of its own, and is where a
\* row of R is. Unless that was overtaken, those to come, and the current one if
\* its attributes are said to be valid, have the attributes of that row.
DataFits(o, over, R) ==
    /\ o.at <= Len(o.rows) /\ (o.valid => o.at > 0)
    /\ \A n \in 1..Len(o.rows) :
          /\ (o.rows[n].ctx = StationCtx) = o.ofStation
          /\ \A m \in 1..Len(o.rows) : o.rows[m].id = o.rows[n].id => m = n
          /\ \E r \in R : SamePlace(r, o.rows[n])
          /\ ~over /\ (n > o.at \/ (n = o.at /\ o.valid)) =>
                \E r \in R : SamePlace(r, o.rows[n]) /\ r.attr = o.rows[n].attr

\* The ids of an insert_data are those of rows of R.
InsertFits(o, R) ==
    \A x \in o.ids : \E r \in R :
       r.id = x.id /\ r.code = x.code /\ (r.ctx = StationCtx) = o.ofStation

OpFits(o, over, R) ==
    /\ o \in Operation
    /\ o.kind = "data" => DataFits(o, over, R)
    /\ o.kind = "insert" => InsertFits(o, R)

\* Which of the operations it is.
LEMMA Kinds ==
    ASSUME NEW o \in Operation
    PROVE  /\ o.kind = "stations" => o \in [kind : {"stations"}, left : Nat]
           /\ o.kind = "data" =>
                 o \in [kind : {"data"}, ofStation : BOOLEAN, rows : Seq(DataRow), at : Nat,
                        attrs : BOOLEAN, valid : BOOLEAN, ended : BOOLEAN]
           /\ o.kind = "insert" =>
                 o \in [kind : {"insert"}, ofStation : BOOLEAN,
                        ids : SUBSET [code : Codes, id : RowIds],
                        related : Codes \cup {NoCode}]
           /\ o.kind = "varid" => o \in [kind : {"varid"}, id : AttrTargets]
BY DEF Operation, NoOp

LEMMA SimpleOps ==
    ASSUME NEW over, NEW R
    PROVE  /\ OpFits(NoOp, over, R)
           /\ \A n \in Nat : OpFits(StationsOp(n), over, R)
           /\ \A id \in AttrTargets : OpFits(VaridOp(id), over, R)
BY DEF OpFits, Operation, NoOp, StationsOp, VaridOp

\* Rows that stay in their places are still those that the operation goes by.
LEMMA PlacesKept ==
    ASSUME NEW o, NEW over, NEW R, NEW S, OpFits(o, over, R),
           \A r \in R : \E x \in S : SamePlace(r, x)
    PROVE  OpFits(o, TRUE, S)
<1>1. CASE o.kind = "data"
  <2>1. \A n \in 1..Len(o.rows) :
           (\E r \in R : SamePlace(r, o.rows[n])) => \E x \in S : SamePlace(x, o.rows[n])
    BY DEF SamePlace
  <2>2. DataFits(o, TRUE, S)
    BY <1>1, <2>1 DEF OpFits, DataFits
  <2> QED
    BY <1>1, <2>2 DEF OpFits
<1>2. CASE o.kind = "insert"
  <2>1. InsertFits(o, R)
    BY <1>2 DEF OpFits
  <2>2. InsertFits(o, S)
    <3> SUFFICES ASSUME NEW x \in o.ids
                 PROVE  \E r \in S : /\ r.id = x.id /\ r.code = x.code
                                     /\ (r.ctx = StationCtx) = o.ofStation
      BY DEF InsertFits
    <3>1. PICK r \in R : r.id = x.id /\ r.code = x.code /\ (r.ctx = StationCtx) = o.ofStation
      BY <2>1 DEF InsertFits
    <3>2. PICK y \in S : SamePlace(r, y)
      OBVIOUS
    <3> QED
      BY <3>1, <3>2 DEF SamePlace
  <2> QED
    BY <1>2, <2>2 DEF OpFits
<1>3. CASE o.kind # "data" /\ o.kind # "insert"
  BY <1>3 DEF OpFits
<1> QED
  BY <1>1, <1>2, <1>3

\* query_data
LEMMA QueryFits ==
    ASSUME NEW S, S \subseteq rows, IsFiniteSet(rows), rows \subseteq DataRow, UniqueRows(rows),
           context \in BOOLEAN, \A r \in S : InContext(r), NEW attrs \in BOOLEAN
    PROVE  OpFits(DataOp(Sequence!SetToSeq(S), attrs), FALSE, rows)
<1> DEFINE f == Sequence!SetToSeq(S)
           o == DataOp(f, attrs)
<1>1. IsFiniteSet(S)
  BY FS_Subset
<1>2. f \in Seq(S) /\ Len(f) \in Nat /\ \A m, n \in 1..Len(f) : f[m] = f[n] => m = n
  BY <1>1, SequenceOfSet
<1> HIDE DEF f
<1>3. \A n \in 1..Len(f) : f[n] \in S
  BY <1>2
<1>4. f \in Seq(DataRow)
  BY <1>2, <1>3
<1>5. o \in [kind : {"data"}, ofStation : BOOLEAN, rows : Seq(DataRow), at : Nat,
             attrs : BOOLEAN, valid : BOOLEAN, ended : BOOLEAN]
  BY <1>4 DEF DataOp
<1>6. o.rows = f /\ o.at = 0 /\ o.valid = FALSE /\ o.ofStation = context /\ o.kind = "data"
  BY DEF DataOp
<1> HIDE DEF o
<1>7. ASSUME NEW n \in 1..Len(f)
      PROVE  /\ (f[n].ctx = StationCtx) = context
             /\ SamePlace(f[n], f[n]) /\ f[n] \in rows
             /\ \A m \in 1..Len(f) : f[m].id = f[n].id => m = n
  <2>1. f[n] \in rows /\ (f[n].ctx = StationCtx) = context
    BY <1>3 DEF InContext
  <2>2. ASSUME NEW m \in 1..Len(f), f[m].id = f[n].id
        PROVE  m = n
    <3>1. f[m] \in rows /\ SameTable(f[m], f[n])
      BY <1>3, <2>1 DEF InContext, SameTable
    <3>2. f[m] = f[n]
      BY <2>1, <2>2, <3>1 DEF UniqueRows
    <3> QED
      BY <1>2, <3>2
  <2> QED
    BY <2>1, <2>2 DEF SamePlace
<1>8. DataFits(o, FALSE, rows)
  BY <1>2, <1>6, <1>7 DEF DataFits
<1> QED
  BY <1>5, <1>6, <1>8 DEF OpFits, Operation, o, f

LEMMA NextDataFits ==
    ASSUME NEW o, o.kind = "data", NEW over, NEW R, OpFits(o, over, R)
    PROVE  OpFits(IF o.ended THEN o
                  ELSE IF o.at = Len(o.rows) THEN [o EXCEPT !.ended = TRUE]
                  ELSE [o EXCEPT !.at = @ + 1, !.valid = TRUE], over, R)
<1>0. /\ o \in [kind : {"data"}, ofStation : BOOLEAN, rows : Seq(DataRow), at : Nat,
                attrs : BOOLEAN, valid : BOOLEAN, ended : BOOLEAN]
      /\ DataFits(o, over, R)
  BY Kinds DEF OpFits
<1>1. CASE ~o.ended /\ o.at = Len(o.rows)
  <2> DEFINE p == [o EXCEPT !.ended = TRUE]
  <2>1. /\ p \in Operation /\ p.kind = "data" /\ p.rows = o.rows /\ p.at = o.at
        /\ p.valid = o.valid /\ p.ofStation = o.ofStation
    BY <1>0 DEF Operation
  <2> HIDE DEF p
  <2>2. DataFits(p, over, R)
    BY <1>0, <2>1 DEF DataFits
  <2>3. OpFits(p, over, R)
    BY <2>1, <2>2 DEF OpFits
  <2> QED
    BY <1>1, <2>3 DEF p
<1>2. CASE ~o.ended /\ o.at # Len(o.rows)
  <2> DEFINE p == [o EXCEPT !.at = @ + 1, !.valid = TRUE]
  <2>1. /\ p \in Operation /\ p.kind = "data" /\ p.rows = o.rows /\ p.at = o.at + 1
        /\ p.valid = TRUE /\ p.ofStation = o.ofStation
    <3>1. o.at + 1 \in Nat
      BY <1>0
    <3>2. p = [o EXCEPT !.at = o.at + 1, !.valid = TRUE]
      BY <1>0
    <3> HIDE DEF p
    <3>3. p \in [kind : {"data"}, ofStation : BOOLEAN, rows : Seq(DataRow), at : Nat,
                 attrs : BOOLEAN, valid : BOOLEAN, ended : BOOLEAN]
      BY <1>0, <3>1, <3>2
    <3>4. p.rows = o.rows /\ p.at = o.at + 1 /\ p.valid = TRUE /\ p.ofStation = o.ofStation
      BY <1>0, <3>2
    <3> QED
      BY <3>3, <3>4 DEF Operation
  <2> HIDE DEF p
  <2>2. o.at \in Nat /\ Len(o.rows) \in Nat /\ o.at <= Len(o.rows)
    BY <1>0 DEF DataFits
  <2>3. p.at <= Len(p.rows) /\ p.at > 0
    BY <1>2, <2>1, <2>2
  <2>4. \A n \in 1..Len(o.rows) : n > p.at \/ n = p.at => n > o.at
    BY <2>1, <2>2
  <2>5. DataFits(p, over, R)
    BY <1>0, <2>1, <2>3, <2>4 DEF DataFits
  <2>6. OpFits(p, over, R)
    BY <2>1, <2>5 DEF OpFits
  <2> QED
    BY <1>2, <2>6 DEF p
<1> QED
  BY <1>1, <1>2


\* Attributes of the row that the operation is about, changed: those of the
\* results to come are of other rows.
LEMMA SetAttrsFits ==
    ASSUME TypeOK, OpFits(op, overtaken, rows), overtaken \in BOOLEAN,
           NEW t \in Targets, NEW b, SetAttrs(t[1], t[2], b)
    PROVE  OpFits(AfterAttrs(op), overtaken \/ (op.kind = "data" /\ op.at = 0), rows')
<1> DEFINE over == overtaken \/ (op.kind = "data" /\ op.at = 0)
<1>1. \A r \in rows : \E x \in rows' : SamePlace(r, x)
  BY SetAttrsStep
<1>2. CASE op.kind # "data"
  <2>1. AfterAttrs(op) = op /\ op \in Operation
    BY <1>2 DEF AfterAttrs, OpFits
  <2>2. OpFits(op, TRUE, rows')
    BY <1>1, PlacesKept
  <2> QED
    BY <1>2, <2>1, <2>2 DEF OpFits
<1>3. CASE op.kind = "data"
  <2> DEFINE p == AfterAttrs(op)
             new(r) == IF r.id = t[2] /\ (r.ctx = StationCtx) = t[1]
                       THEN [r EXCEPT !.attr = b] ELSE r
  <2>0. /\ op \in [kind : {"data"}, ofStation : BOOLEAN, rows : Seq(DataRow), at : Nat,
                   attrs : BOOLEAN, valid : BOOLEAN, ended : BOOLEAN]
        /\ DataFits(op, overtaken, rows)
    BY <1>3, Kinds DEF OpFits
  <2>1. /\ p \in Operation /\ p.kind = "data" /\ p.rows = op.rows /\ p.at = op.at
        /\ p.valid = FALSE /\ p.ofStation = op.ofStation
    BY <1>3, <2>0 DEF AfterAttrs, Operation
  <2>2. t = <<op.ofStation, CurrentRow.id>>
    BY <1>3 DEF Targets
  <2>3. rows' = {new(r) : r \in rows}
    BY DEF SetAttrs
  <2>4. \A r \in rows : r.id # t[2] => new(r) = r
    OBVIOUS
  <2>5. \A r \in rows : new(r) \in rows'
    BY <2>3
  <2> HIDE DEF p, new
  <2>6. OpFits(op, TRUE, rows')
    BY <1>1, PlacesKept
  <2>7. DataFits(op, TRUE, rows')
    BY <1>3, <2>6 DEF OpFits
  <2>8. Len(op.rows) \in Nat /\ op.at \in Nat /\ op.at <= Len(op.rows)
    BY <2>0 DEF DataFits
  <2>9. ASSUME NEW n \in 1..Len(op.rows), ~over, n > op.at
        PROVE  \E r \in rows' : SamePlace(r, op.rows[n]) /\ r.attr = op.rows[n].attr
    <3>1. op.at # 0 /\ ~overtaken
      BY <1>3, <2>9
    <3>2. t[2] = op.rows[op.at].id /\ op.at \in 1..Len(op.rows)
      BY <2>2, <2>8, <3>1 DEF CurrentRow
    <3>3. PICK r \in rows : SamePlace(r, op.rows[n]) /\ r.attr = op.rows[n].attr
      BY <2>0, <2>9, <3>1 DEF DataFits
    <3>4. op.rows[n].id # op.rows[op.at].id
      BY <2>0, <2>8, <2>9, <3>2 DEF DataFits
    <3>5. r.id # t[2]
      BY <3>2, <3>3, <3>4 DEF SamePlace
    <3>6. r \in rows'
      BY <2>4, <2>5, <3>5
    <3> QED
      BY <3>3, <3>6
  <2>10. DataFits(p, over, rows')
    <3> HIDE DEF over
    <3> QED
      BY <2>1, <2>7, <2>9 DEF DataFits
  <2> QED
    BY <2>1, <2>10 DEF OpFits, p
<1> QED
  BY <1>2, <1>3

\* insert_attributes without any.
LEMMA NoAttrsFits ==
    ASSUME OpFits(op, overtaken, rows), overtaken \in BOOLEAN
    PROVE  OpFits(AfterAttrs(op), overtaken \/ (op.kind = "data" /\ op.at = 0), rows)
<1> DEFINE over == overtaken \/ (op.kind = "data" /\ op.at = 0)
<1>1. CASE op.kind # "data"
  <2>1. AfterAttrs(op) = op
    BY <1>1 DEF AfterAttrs
  <2> QED
    BY <1>1, <2>1 DEF OpFits
<1>2. CASE op.kind = "data"
  <2> DEFINE p == AfterAttrs(op)
  <2>0. /\ op \in [kind : {"data"}, ofStation : BOOLEAN, rows : Seq(DataRow), at : Nat,
                   attrs : BOOLEAN, valid : BOOLEAN, ended : BOOLEAN]
        /\ DataFits(op, overtaken, rows)
    BY <1>2, Kinds DEF OpFits
  <2>1. /\ p \in Operation /\ p.kind = "data" /\ p.rows = op.rows /\ p.at = op.at
        /\ p.valid = FALSE /\ p.ofStation = op.ofStation
    BY <1>2, <2>0 DEF AfterAttrs, Operation
  <2> HIDE DEF p
  <2>2. ~over => ~overtaken
    OBVIOUS
  <2> HIDE DEF over
  <2>3. DataFits(p, over, rows)
    BY <2>0, <2>1, <2>2 DEF DataFits
  <2> QED
    BY <2>1, <2>3 DEF OpFits, p, over
<1> QED
  BY <1>1, <1>2

\* *var_related and unsetall
LEMMA RelatedFits ==
    ASSUME NEW o, o.kind = "insert", NEW over, NEW R, OpFits(o, over, R),
           NEW c \in Codes \cup {NoCode}
    PROVE  OpFits([o EXCEPT !.related = c], over, R)
<1> DEFINE p == [o EXCEPT !.related = c]
<1>1. o \in [kind : {"insert"}, ofStation : BOOLEAN, ids : SUBSET [code : Codes, id : RowIds],
             related : Codes \cup {NoCode}]
  BY Kinds DEF OpFits
<1>2. p \in Operation /\ p.kind = "insert" /\ p.ids = o.ids /\ p.ofStation = o.ofStation
  BY <1>1 DEF Operation
<1> HIDE DEF p
<1>3. InsertFits(p, R)
  BY <1>2 DEF OpFits, InsertFits
<1>4. OpFits(p, over, R)
  BY <1>2, <1>3 DEF OpFits
<1> QED
  BY <1>4 DEF p

\* insert_data: the ids are those of the rows that have the codes it was given.
LEMMA InsertFitsRows ==
    ASSUME NEW at \in Contexts, (at = StationCtx) = context, context \in BOOLEAN,
           NEW R, R \subseteq DataRow,
           NEW W, \A r \in W : r \in R /\ r.ctx = at, NEW over
    PROVE  /\ OpFits(InsertOp({[code |-> r.code, id |-> r.id] : r \in W}), over, R)
           /\ OpFits(InsertOp({}), over, R)
<1> DEFINE I == {[code |-> r.code, id |-> r.id] : r \in W}
<1>1. \A x \in I : x \in [code : Codes, id : RowIds]
                   /\ \E r \in R : r.ctx = at /\ r.id = x.id /\ r.code = x.code
  BY DEF DataRow
<1> HIDE DEF I
<1>2. ASSUME NEW J \in SUBSET [code : Codes, id : RowIds],
             \A x \in J : \E r \in R : r.ctx = at /\ r.id = x.id /\ r.code = x.code
      PROVE  OpFits(InsertOp(J), over, R)
  <2> DEFINE o == InsertOp(J)
  <2>1. o \in Operation /\ o.kind = "insert" /\ o.ids = J /\ o.ofStation = context
    BY DEF InsertOp, Operation
  <2> HIDE DEF o
  <2>2. InsertFits(o, R)
    BY <1>2, <2>1 DEF InsertFits
  <2>3. OpFits(o, over, R)
    BY <2>1, <2>2 DEF OpFits
  <2> QED
    BY <2>3 DEF o
<1>3. OpFits(InsertOp(I), over, R)
  BY <1>1, <1>2
<1>4. OpFits(InsertOp({}), over, R)
  BY <1>2
<1> QED
  BY <1>3, <1>4 DEF I


----------------------------------------------------------------------------
(* Calls that may not add stations                                         *)

Unsaved(L) == L # NoStation /\ L.id = MissingId

\* From s to t no station is added but the cached one, if it had no row, and none
\* other is cached without one.
AddsOnlyCached(s, t) ==
    /\ \A x \in t.station : x \in s.station \/ (Unsaved(s.last) /\ x.key = s.last.key)
    /\ Unsaved(t.last) => Unsaved(s.last) /\ t.last.key = s.last.key

\* The same but for the station key, cached without a row by a call that throws.
AddsOrRefuses(s, t, key) ==
    /\ \A x \in t.station : x \in s.station \/ (Unsaved(s.last) /\ x.key = s.last.key)
    /\ Unsaved(t.last) => \/ Unsaved(s.last) /\ t.last.key = s.last.key
                          \/ t.err \in {"notfound", "sql"} /\ t.last.key = key

LEMMA AddsOnlyThen ==
    ASSUME NEW s, NEW t, NEW u, AddsOnlyCached(s, t), AddsOnlyCached(t, u)
    PROVE  AddsOnlyCached(s, u)
BY DEF AddsOnlyCached

LEMMA SameStationAdds ==
    ASSUME NEW s, NEW t, SameStation(s, t)
    PROVE  AddsOnlyCached(s, t)
BY NoStationAssumption DEF SameStation, AddsOnlyCached, Unsaved

LEMMA InsertStationAdds ==
    ASSUME NEW s, Good(s), s.last \in CachedStation
    PROVE  AddsOnlyCached(s, InsertStation(s))
<1> DEFINE new == Top(IdsOf(s.station)) + 1
           t == [s EXCEPT !.station = @ \cup {[id |-> new, key |-> s.last.key]},
                          !.last.id = new]
<1>1. s.last # NoStation
  BY NoStationAssumption
<1>2. CASE s.last.id # MissingId
  BY <1>2 DEF InsertStation, AddsOnlyCached
<1>3. CASE s.last.id = MissingId
  <2>1. InsertStation(s) = Throw(s, "sql") \/ InsertStation(s) = t
    BY <1>3 DEF InsertStation
  <2>2. Throw(s, "sql").station = s.station /\ Throw(s, "sql").last = s.last
    BY DEF Throw, Good, Typed
  <2>3. AddsOnlyCached(s, Throw(s, "sql"))
    BY <2>2 DEF AddsOnlyCached
  <2>4. t.station = s.station \cup {[id |-> new, key |-> s.last.key]}
        /\ t.last.key = s.last.key
    BY DEF Good, Typed, CachedStation
  <2> HIDE DEF t
  <2>5. AddsOnlyCached(s, t)
    BY <1>1, <1>3, <2>4 DEF AddsOnlyCached, Unsaved
  <2> QED
    BY <2>1, <2>3, <2>5
<1> QED
  BY <1>2, <1>3

LEMMA WritePendingAdds ==
    ASSUME NEW s, Good(s)
    PROVE  AddsOnlyCached(s, WritePending(s))
<1>1. CASE s.err # "ok" \/ s.last = NoStation
  BY <1>1 DEF WritePending, AddsOnlyCached
<1>2. CASE s.err = "ok" /\ s.last # NoStation
  <2> DEFINE s1 == InsertStation(s)
             s2 == InsertRows(s1)
  <2>1. WritePending(s) = UpdateRows(s2)
    BY <1>2 DEF WritePending
  <2>2. s.last \in CachedStation
    BY <1>2 DEF Good, Typed
  <2>3. /\ Good(s1) /\ s1.last \in CachedStation
        /\ s1.err = "ok" => s1.last.id \in RowIds
        /\ AddsOnlyCached(s, s1)
    BY <2>2, InsertStationGood, InsertStationAdds
  <2> HIDE DEF s1
  <2>4. Good(s2) /\ s2.last \in CachedStation /\ AddsOnlyCached(s1, s2)
    BY <2>3, InsertRowsGood, InsertRowsSame, SameStationAdds
  <2> HIDE DEF s2
  <2>5. AddsOnlyCached(s2, UpdateRows(s2))
    BY <2>4, UpdateRowsSame, SameStationAdds
  <2>6. AddsOnlyCached(s, s2)
    BY <2>3, <2>4, AddsOnlyThen
  <2> QED
    BY <2>1, <2>5, <2>6, AddsOnlyThen
<1> QED
  BY <1>1, <1>2

\* Caching another station writes the old one; without the permission to add, the
\* lookup of one that is not there throws.
LEMMA GetByKeyAdds ==
    ASSUME NEW s, Good(s), NEW key \in Stations
    PROVE  AddsOrRefuses(s, GetStationByKey(s, key, FALSE), key)
<1> DEFINE w == WritePending(s)
           n == [w EXCEPT !.last = Fresh(key)]
           u == FindStation(n, FALSE)
<1>1. Good(w) /\ AddsOnlyCached(s, w)
  BY WritePendingGood, WritePendingAdds
<1>2. GetStationByKey(s, key, FALSE) =
          IF HaveStation(s, key) THEN s ELSE IF w.err # "ok" THEN w ELSE u
  BY DEF GetStationByKey, NewStation, CacheStation, FindStation
<1>3. AddsOrRefuses(s, s, key) /\ AddsOrRefuses(s, w, key)
  BY <1>1 DEF AddsOrRefuses, AddsOnlyCached
<1> HIDE DEF w
<1>4. ASSUME w.err = "ok" PROVE AddsOrRefuses(s, u, key)
  <2>1. /\ n.station = w.station /\ n.err = "ok" /\ n.last = Fresh(key)
        /\ n.last \in CachedStation /\ n.last.key = key
    BY <1>1, <1>4, FreshType DEF Good, Typed, Fresh
  <2>2. Good(n)
    BY <1>1, FreshType, LastGood
  <2> HIDE DEF n
  <2> DEFINE found == LookupStation(n, n.last.key)
             id == (CHOOSE r \in found : TRUE).id
  <2>3. \/ u = Throw(n, "sql")
        \/ u = Throw(n, "notfound")
        \/ found # {} /\ u = SetStationId(n, id)
    BY <2>1 DEF FindStation
  <2>4. ASSUME NEW kind \in {"notfound", "sql"}, u = Throw(n, kind)
        PROVE  AddsOrRefuses(s, u, key)
    <3>1. u.station = w.station /\ u.err = kind /\ u.last.key = key
      BY <2>1, <2>2, <2>4 DEF Throw, Good, Typed
    <3> QED
      BY <1>1, <3>1 DEF AddsOrRefuses, AddsOnlyCached
  <2>5. ASSUME found # {}, u = SetStationId(n, id)
        PROVE  AddsOrRefuses(s, u, key)
    <3>1. (CHOOSE r \in found : TRUE) \in StationRow
      BY <2>2, <2>5 DEF LookupStation, Good, Typed
    <3>2. id \in RowIds
      BY <3>1 DEF StationRow
    <3> HIDE DEF id
    <3>3. SetStationId(n, id).station = n.station /\ SetStationId(n, id).last.id = id
      BY <2>1, <2>2 DEF SetStationId, Good, Typed, CachedStation
    <3> HIDE DEF u
    <3>4. u.station = w.station /\ u.last.id = id
      BY <2>1, <2>5, <3>3
    <3> QED
      BY <1>1, <3>2, <3>4 DEF AddsOrRefuses, AddsOnlyCached, Unsaved, RowIds, MissingId
  <2> QED
    BY <2>3, <2>4, <2>5
<1> HIDE DEF u
<1> QED
  BY <1>2, <1>3, <1>4

LEMMA GetByIdAdds ==
    ASSUME NEW s, Good(s), NEW id \in RowIds \cup {MissingId}
    PROVE  AddsOnlyCached(s, GetStationById(s, id))
<1> DEFINE found == {r \in s.station : r.id = id}
           key == (CHOOSE r \in found : TRUE).key
           w == WritePending(s)
           n == [w EXCEPT !.last = Fresh(key)]
<1>1. Good(w) /\ AddsOnlyCached(s, w)
  BY WritePendingGood, WritePendingAdds
<1>2. ASSUME NEW kind PROVE AddsOnlyCached(s, Throw(s, kind))
  <2>1. Throw(s, kind).station = s.station /\ Throw(s, kind).last = s.last
    BY DEF Throw, Good, Typed
  <2> QED
    BY <2>1 DEF AddsOnlyCached
<1>3. AddsOnlyCached(s, s)
  BY DEF AddsOnlyCached
<1> HIDE DEF w
<1>4. ASSUME id # MissingId, found # {}, w.err = "ok"
      PROVE  AddsOnlyCached(s, SetStationId(n, id))
  <2>1. (CHOOSE r \in found : TRUE) \in StationRow
    BY <1>4 DEF Good, Typed
  <2>2. key \in Stations
    BY <2>1 DEF StationRow
  <2> HIDE DEF key
  <2>3. /\ n.station = w.station /\ n.err = "ok" /\ n.last \in CachedStation
    BY <1>1, <1>4, <2>2, FreshType DEF Good, Typed
  <2>4. Good(n)
    BY <1>1, <2>2, FreshType, LastGood
  <2> HIDE DEF n
  <2>5. SetStationId(n, id).station = w.station /\ SetStationId(n, id).last.id = id
    BY <2>3, <2>4 DEF SetStationId, Good, Typed, CachedStation
  <2> QED
    BY <1>1, <1>4, <2>5 DEF AddsOnlyCached, Unsaved
<1>5. \/ \E kind : GetStationById(s, id) = Throw(s, kind)
      \/ GetStationById(s, id) = s
      \/ id # MissingId /\ found # {} /\ GetStationById(s, id) = SetStationId(NewStation(s, key), id)
  BY DEF GetStationById
<1>6. NewStation(s, key) = IF w.err # "ok" THEN w ELSE n
  BY DEF NewStation, CacheStation, w
<1>7. w.err # "ok" => SetStationId(w, id) = w
  BY DEF SetStationId
<1> HIDE DEF n, key, found
<1> QED
  BY <1>1, <1>2, <1>3, <1>4, <1>5, <1>6, <1>7

LEMMA GetStationAdds ==
    ASSUME NEW s, Good(s), s.err = "ok", NEW key \in Stations \cup {NoKey},
           NEW id \in RowIds \cup {MissingId}
    PROVE  AddsOrRefuses(s, GetStation(s, key, id, FALSE), key)
<1>1. CASE key = NoKey
  <2>1. AddsOnlyCached(s, GetStation(s, key, id, FALSE))
    BY <1>1, GetByIdAdds DEF GetStation
  <2> QED
    BY <2>1 DEF AddsOnlyCached, AddsOrRefuses
<1>2. CASE key # NoKey
  BY <1>2, GetByKeyAdds DEF GetStation
<1> QED
  BY <1>1, <1>2

\* What follows the lookup of the station adds no other.
LEMMA LoadAdds ==
    ASSUME NEW s, Live(s), NEW ctx
    PROVE  AddsOnlyCached(s, Load(s, ctx))
<1>1. CASE s.err # "ok" \/ ctx \in s.last.loaded
  BY <1>1 DEF Load, AddsOnlyCached
<1>2. CASE s.err = "ok" /\ ctx \notin s.last.loaded
  <2>1. \E D, I : Load(s, ctx) = [s EXCEPT !.last.loaded = D, !.last.ids = I]
    BY <1>2 DEF Load
  <2>2. PICK D, I : Load(s, ctx) = [s EXCEPT !.last.loaded = D, !.last.ids = I]
    BY <2>1
  <2>3. /\ Load(s, ctx).station = s.station
        /\ Load(s, ctx).last.id = s.last.id /\ Load(s, ctx).last.key = s.last.key
        /\ s.last \in CachedStation
    BY <1>2, <2>2 DEF Live, Good, Typed, CachedStation
  <2> QED
    BY <2>3, NoStationAssumption DEF AddsOnlyCached, Unsaved
<1> QED
  BY <1>1, <1>2

LEMMA AddAdds ==
    ASSUME NEW s, Live(s), NEW ctx, NEW V, NEW mode
    PROVE  AddsOnlyCached(s, Add(s, ctx, V, mode))
<1>1. CASE s.err # "ok"
  BY <1>1 DEF Add, AddsOnlyCached
<1>2. CASE s.err = "ok"
  <2> DEFINE t == Add(s, ctx, V, mode)
  <2>1. \E Q, E : t = [s EXCEPT !.last.queue = Q, !.err = E]
    BY <1>2 DEF Add
  <2>2. PICK Q, E : t = [s EXCEPT !.last.queue = Q, !.err = E]
    BY <2>1
  <2> HIDE DEF t
  <2>3. /\ t.station = s.station /\ t.last.id = s.last.id /\ t.last.key = s.last.key
        /\ s.last \in CachedStation
    BY <1>2, <2>2 DEF Live, Good, Typed, CachedStation
  <2>4. AddsOnlyCached(s, t)
    BY <2>3, NoStationAssumption DEF AddsOnlyCached, Unsaved
  <2> QED
    BY <2>4 DEF t
<1> QED
  BY <1>1, <1>2

LEMMA ObtainAdds ==
    ASSUME NEW s, Live(s), NEW L
    PROVE  AddsOnlyCached(s, ObtainLevTrs(s, L))
<1>1. ObtainLevTrs(s, L).station = s.station /\ ObtainLevTrs(s, L).last = s.last
  BY DEF ObtainLevTrs, Live, Good, Typed
<1> QED
  BY <1>1 DEF AddsOnlyCached

\* A lookup that went well, and then no other station; or one that threw.
LEMMA RefusedOrAdded ==
    ASSUME NEW s, NEW t, NEW u, NEW key, AddsOrRefuses(s, t, key),
           AddsOnlyCached(t, u), t.err # "ok" => u = t
    PROVE  AddsOrRefuses(s, u, key)
<1>1. CASE t.err # "ok"
  BY <1>1
<1>2. CASE t.err = "ok"
  <2>1. AddsOnlyCached(s, t)
    BY <1>2 DEF AddsOrRefuses, AddsOnlyCached
  <2>2. AddsOnlyCached(s, u)
    BY <2>1, AddsOnlyThen
  <2> QED
    BY <2>2 DEF AddsOrRefuses, AddsOnlyCached
<1> QED
  BY <1>1, <1>2

LEMMA InsertStationDataRefuses ==
    ASSUME NEW s, Sound(s), s.err = "ok", NEW key \in Stations \cup {NoKey},
           NEW id \in RowIds \cup {MissingId},
           NEW V \in SUBSET Var, IsFiniteSet(V), NEW cr
    PROVE  AddsOrRefuses(s, InsertStationDataCall(s, key, id, V, cr, FALSE), key)
<1> DEFINE t == GetStation(s, key, id, FALSE)
           a == Load(t, StationCtx)
           v == AtLevTr(MissingId, V)
           b == Add(a, StationCtx, v, ModeOf(cr))
           u == WritePending(b)
<1>1. AddsOrRefuses(s, t, key) /\ Sound(t) /\ Live(t)
  BY GetStationAdds, GetStationSound DEF Sound
<1>2. InsertStationDataCall(s, key, id, V, cr, FALSE) = u
  BY DEF InsertStationDataCall, AddStationVars
<1>3. t.err # "ok" => u = t
  BY DEF Load, Add, WritePending
<1> HIDE DEF t
<1>4. v \in SUBSET Item /\ IsFiniteSet(v)
  BY AtLevTrType DEF Item
<1> HIDE DEF v
<1>5. Sound(a) /\ Live(a) /\ AddsOnlyCached(t, a)
  BY <1>1, LoadSound, LoadAdds DEF Contexts
<1> HIDE DEF a
<1>6. Sound(b) /\ AddsOnlyCached(a, b)
  BY <1>4, <1>5, AddSound, AddAdds DEF Contexts
<1> HIDE DEF b
<1>7. AddsOnlyCached(b, u)
  BY <1>6, WritePendingAdds DEF Sound
<1> HIDE DEF u
<1>8. AddsOnlyCached(t, u)
  BY <1>5, <1>6, <1>7, AddsOnlyThen
<1> QED
  BY <1>1, <1>2, <1>3, <1>8, RefusedOrAdded

LEMMA InsertDataRefuses ==
    ASSUME NEW s, Sound(s), s.err = "ok", NEW key \in Stations \cup {NoKey},
           NEW id \in RowIds \cup {MissingId}, NEW dt \in Datetimes, NEW lt \in LevTrs,
           NEW V \in SUBSET Var, IsFiniteSet(V), NEW cr
    PROVE  AddsOrRefuses(s, InsertDataCall(s, key, id, dt, lt, V, cr, FALSE), key)
<1> DEFINE t == GetStation(s, key, id, FALSE)
           a == Load(t, dt)
           b == ObtainLevTrs(a, {lt})
           v == AtLevTr(lt, V)
           c == AddAtLevTr(b, dt, v, ModeOf(cr))
           u == WritePending(c)
<1>0. dt # NoDatetime /\ lt # NoLevTr /\ dt \in Contexts
  BY SentinelAssumption DEF Contexts
<1>1. AddsOrRefuses(s, t, key) /\ Sound(t) /\ Live(t)
  BY GetStationAdds, GetStationSound DEF Sound
<1>2. CASE V = {}
  <2>1. InsertDataCall(s, key, id, dt, lt, V, cr, FALSE) = Throw(s, "empty")
    BY <1>2 DEF InsertDataCall
  <2>2. Throw(s, "empty").station = s.station /\ Throw(s, "empty").last = s.last
    BY DEF Throw, Sound, Good, Typed
  <2> QED
    BY <2>1, <2>2 DEF AddsOrRefuses
<1>3. CASE V # {}
  <2>1. InsertDataCall(s, key, id, dt, lt, V, cr, FALSE) = u
    BY <1>0, <1>3 DEF InsertDataCall, InsertAt
  <2>2. t.err # "ok" => u = t
    BY DEF Load, ObtainLevTrs, AddAtLevTr, Add, WritePending
  <2> HIDE DEF t
  <2>3. Sound(a) /\ Live(a) /\ AddsOnlyCached(t, a)
    BY <1>0, <1>1, LoadSound, LoadAdds
  <2> HIDE DEF a
  <2>4. IsFiniteSet({lt}) /\ {lt} \in SUBSET LevTrs
    BY FS_Singleton
  <2>5. /\ Sound(b) /\ Live(b) /\ AddsOnlyCached(a, b)
        /\ b.err = "ok" => \A l \in {lt} : \E x \in b.cache : x.lt = l
    BY <2>3, <2>4, ObtainLevTrsSound, ObtainAdds
  <2> HIDE DEF b
  <2>6. /\ v \subseteq [lt : {lt}, code : Codes, val : Vals, attr : BOOLEAN]
        /\ IsFiniteSet(v)
    BY AtLevTrType
  <2> HIDE DEF v
  <2>7. /\ v \subseteq [lt : LevTrs, code : Codes, val : Vals, attr : BOOLEAN]
        /\ b.err = "ok" => \A x \in v : \E y \in b.cache : y.lt = x.lt
    BY <2>5, <2>6
  <2>8. Sound(c) /\ AddsOnlyCached(b, c)
    BY <1>0, <2>5, <2>6, <2>7, AddAtLevTrSound, AddAdds DEF AddAtLevTr
  <2> HIDE DEF c
  <2>9. AddsOnlyCached(c, u)
    BY <2>8, WritePendingAdds DEF Sound
  <2> HIDE DEF u
  <2>10. AddsOnlyCached(t, u)
    BY <2>3, <2>5, <2>8, <2>9, AddsOnlyThen
  <2> QED
    BY <1>1, <2>1, <2>2, <2>10, RefusedOrAdded
<1> QED
  BY <1>2, <1>3

\* How such a call ends.
LEMMA CallRefuses ==
    ASSUME NEW s, NEW key, Good(s), AddsOrRefuses(Here, s, key), Call(s), res' # "sql"
    PROVE  /\ \A x \in station' : x \in station \/ (Unsaved(last) /\ x.key = last.key)
           /\ Unsaved(last') => \/ Unsaved(last) /\ last'.key = last.key
                                \/ res' = "notfound" /\ last'.key = key
<1>1. /\ station' = s.station /\ res' = s.err
      /\ last' \in {s.last, Abandon(s.last)}
  BY DEF Call, Return
<1>2. Unsaved(Abandon(s.last)) => Unsaved(s.last) /\ Abandon(s.last).key = s.last.key
  <2>1. CASE s.last = NoStation
    BY <2>1 DEF Abandon
  <2>2. CASE s.last # NoStation
    <3>1. s.last \in CachedStation
      BY <2>2 DEF Good, Typed
    <3>2. Abandon(s.last).id = s.last.id /\ Abandon(s.last).key = s.last.key
      BY <2>2, <3>1 DEF Abandon, CachedStation
    <3> QED
      BY <2>2, <3>2 DEF Unsaved
  <2> QED
    BY <2>1, <2>2
<1>3. Unsaved(last') => Unsaved(s.last) /\ last'.key = s.last.key
  BY <1>1, <1>2
<1>4. Here.station = station /\ Here.last = last
  BY DEF Here
<1> QED
  BY <1>1, <1>3, <1>4 DEF AddsOrRefuses

----------------------------------------------------------------------------
(* Sessions: the inductive invariant                                       *)

\* The station L is cached without a row only if insert_data was refused for it.
RefusedBefore(L, D) == Unsaved(L) => L.key \in D

\* A mode that adds queues no updates, and none is queued in mode "read"; and in
\* station mode "read" a station cached without a row was refused.
ModesInv ==
    /\ perms \in [ana : {"read", "write"}, data : {"read", "add", "write"},
                  attr : {"read", "write"}]
    /\ context \in BOOLEAN /\ overtaken \in BOOLEAN
    /\ ~(perms.ana = "read" /\ perms.data = "write")
    /\ perms.data = "read" \/ perms.ana = "read" => input = NoFile
    /\ perms.data # "write" => AddsOnly
    /\ perms.ana = "read" => RefusedBefore(last, denied)
    /\ input # NoFile => Reading(input)

SessionInv == KeyedInv /\ ModesInv /\ OpFits(op, overtaken, rows)

LEMMA OpFitsPrime == OpFits(op', overtaken', rows') => OpFits(op, overtaken, rows)'
BY DEF OpFits, DataFits, InsertFits, SamePlace

LEMMA InvParts ==
    ASSUME SessionInv
    PROVE  /\ TypeOK /\ Inv /\ CacheInv /\ KeysInv /\ ModesInv
           /\ IsFiniteSet(station) /\ IsFiniteSet(rows)
           /\ OpFits(op, overtaken, rows)
<1>1. KeyedInv /\ CacheInv /\ KeysInv /\ Inv
  BY DEF SessionInv, KeyedInv, CacheInv, LevelInv
<1> QED
  BY <1>1, InvTables DEF SessionInv

\* What is left to show of a step.
LEMMA StepInv ==
    ASSUME SessionInv, ~fired, TransactionStep, perms' = perms,
           context' \in BOOLEAN, overtaken' \in BOOLEAN,
           perms.data = "read" \/ perms.ana = "read" => input' = NoFile,
           perms.data # "write" => AddsOnly',
           perms.ana = "read" => RefusedBefore(last', denied'),
           input' # NoFile => Reading(input'),
           OpFits(op', overtaken', rows')
    PROVE  SessionInv'
<1>1. KeyedInv'
  BY TransactionStepKeyed DEF SessionInv
<1>2. /\ input' # NoFile => Reading(input)'
      /\ perms.ana = "read" => RefusedBefore(last, denied)'
  BY DEF Reading, RefusedBefore
<1>3. ModesInv'
  BY <1>2 DEF SessionInv, ModesInv
<1> QED
  BY <1>1, <1>3, OpFitsPrime DEF SessionInv

LEMMA ReadsStep ==
    ASSUME SessionInv, Reads, context' \in BOOLEAN, overtaken' \in BOOLEAN,
           OpFits(op', overtaken', rows)
    PROVE  SessionInv'
<1>1. /\ ~fired /\ UNCHANGED vars /\ perms' = perms /\ input' = input /\ denied' = denied
  BY DEF Reads, Ready, inputVars
<1>2. TransactionStep
  BY <1>1 DEF TransactionStep
<1>3. rows' = rows /\ last' = last
  BY <1>1 DEF vars
<1>4. /\ perms.data = "read" \/ perms.ana = "read" => input' = NoFile
      /\ perms.data # "write" => AddsOnly'
      /\ perms.ana = "read" => RefusedBefore(last', denied')
      /\ input' # NoFile => Reading(input')
  BY <1>1, <1>3 DEF SessionInv, ModesInv, AddsOnly
<1> QED
  BY <1>1, <1>2, <1>3, <1>4, StepInv

\* A change of input parameters.
LEMMA ParameterStep ==
    ASSUME SessionInv, Reads, context' \in BOOLEAN, UNCHANGED <<op, overtaken>>
    PROVE  SessionInv'
BY ReadsStep DEF SessionInv, ModesInv

LEMMA UnsetAllInv ==
    ASSUME SessionInv, UnsetAll
    PROVE  SessionInv'
<1>1. OpFits(op, overtaken, rows) /\ overtaken \in BOOLEAN
  BY DEF SessionInv, ModesInv
<1>2. Reads /\ context' = FALSE /\ overtaken' = overtaken
  BY DEF UnsetAll
<1>3. CASE op.kind = "insert"
  <2>1. op' = [op EXCEPT !.related = NoCode]
    BY <1>3 DEF UnsetAll
  <2>2. OpFits(op', overtaken, rows)
    BY <1>1, <1>3, <2>1, RelatedFits
  <2> QED
    BY <1>1, <1>2, <2>2, ReadsStep
<1>4. CASE op.kind # "insert"
  BY <1>1, <1>2, <1>4, ReadsStep DEF UnsetAll
<1> QED
  BY <1>3, <1>4

LEMMA SetRelatedInv ==
    ASSUME SessionInv, NEW c \in Codes, SetRelated(c)
    PROVE  SessionInv'
<1>1. OpFits(op, overtaken, rows) /\ overtaken \in BOOLEAN /\ context \in BOOLEAN
  BY DEF SessionInv, ModesInv
<1>2. /\ Reads /\ op.kind = "insert" /\ op' = [op EXCEPT !.related = c]
      /\ context' = context /\ overtaken' = overtaken
  BY DEF SetRelated
<1>3. OpFits(op', overtaken, rows)
  BY <1>1, <1>2, RelatedFits
<1> QED
  BY <1>1, <1>2, <1>3, ReadsStep

LEMMA SetContextIdInv ==
    ASSUME SessionInv, NEW id \in AttrTargets \cup {MissingId}, SetContextId(id)
    PROVE  SessionInv'
<1>1. OpFits(op', overtaken', rows) /\ overtaken' = FALSE
  BY SimpleOps DEF SetContextId, Becomes
<1>2. Reads /\ context' = context /\ context \in BOOLEAN
  BY DEF SetContextId, SessionInv, ModesInv
<1> QED
  BY <1>1, <1>2, ReadsStep

LEMMA QueryStationsInv ==
    ASSUME SessionInv, QueryStations
    PROVE  SessionInv'
<1>1. Cardinality(station) \in Nat
  BY InvParts, FS_CardinalityType
<1>2. OpFits(op', overtaken', rows) /\ overtaken' = FALSE
  BY <1>1, SimpleOps DEF QueryStations, Becomes
<1>3. Reads /\ context' = context /\ context \in BOOLEAN
  BY DEF QueryStations, SessionInv, ModesInv
<1> QED
  BY <1>2, <1>3, ReadsStep

LEMMA NextStationInv ==
    ASSUME SessionInv, NextStation
    PROVE  SessionInv'
<1>1. OpFits(op, overtaken, rows) /\ overtaken \in BOOLEAN /\ context \in BOOLEAN
  BY DEF SessionInv, ModesInv
<1>2. Reads /\ op.kind = "stations" /\ context' = context
  BY DEF NextStation
<1>3. CASE op.left > 0
  <2>1. op \in [kind : {"stations"}, left : Nat]
    BY <1>1, <1>2, Kinds DEF OpFits
  <2>2. op' = [op EXCEPT !.left = @ - 1] /\ overtaken' = overtaken
    BY <1>3 DEF NextStation
  <2>3. op.left - 1 \in Nat /\ op' = StationsOp(op.left - 1)
    BY <1>3, <2>1, <2>2 DEF StationsOp
  <2>4. OpFits(op', overtaken', rows)
    BY <2>3, SimpleOps
  <2> QED
    BY <1>1, <1>2, <2>2, <2>4, ReadsStep
<1>4. CASE ~(op.left > 0)
  <2>1. op' = NoOp /\ overtaken' = FALSE
    BY <1>4 DEF NextStation, Becomes
  <2>2. OpFits(op', overtaken', rows)
    BY <2>1, SimpleOps
  <2> QED
    BY <1>1, <1>2, <2>1, <2>2, ReadsStep
<1> QED
  BY <1>3, <1>4

LEMMA QueryDataInv ==
    ASSUME SessionInv, NEW C, NEW attrs \in BOOLEAN, QueryData(C, attrs)
    PROVE  SessionInv'
<1> DEFINE S == {r \in rows : InContext(r) /\ r.code \in C}
           f == Sequence!SetToSeq(S)
<1>1. TypeOK /\ KeysInv /\ ModesInv /\ IsFiniteSet(rows)
  BY InvParts
<1>2. OpFits(DataOp(f, attrs), FALSE, rows)
  BY <1>1, QueryFits DEF TypeOK, KeysInv, ModesInv
<1>3. /\ ~fired /\ op' = DataOp(f, attrs) /\ overtaken' = FALSE
      /\ cache' = cache \cup {l \in levtr : \E n \in DOMAIN f : f[n].lt = l.id}
      /\ UNCHANGED <<station, levtr, rows, last, wattrs, fired, saved, begun, res>>
      /\ UNCHANGED <<perms, context, input, denied>>
  BY DEF QueryData, Ready, Becomes, inputVars
<1> HIDE DEF f
<1>4. TransactionStep
  BY <1>3 DEF TransactionStep
<1>5. OpFits(op', overtaken', rows')
  BY <1>2, <1>3
<1>6. /\ perms.data = "read" \/ perms.ana = "read" => input' = NoFile
      /\ perms.data # "write" => AddsOnly'
      /\ perms.ana = "read" => RefusedBefore(last', denied')
      /\ input' # NoFile => Reading(input')
      /\ context' \in BOOLEAN /\ overtaken' \in BOOLEAN /\ perms' = perms
  BY <1>1, <1>3 DEF ModesInv, AddsOnly
<1> QED
  BY <1>3, <1>4, <1>5, <1>6, StepInv

LEMMA NextDataInv ==
    ASSUME SessionInv, NextData
    PROVE  SessionInv'
<1>1. OpFits(op, overtaken, rows) /\ overtaken \in BOOLEAN /\ context \in BOOLEAN
  BY DEF SessionInv, ModesInv
<1>2. Reads /\ op.kind = "data" /\ context' = context /\ overtaken' = overtaken
  BY DEF NextData
<1>3. OpFits(op', overtaken, rows)
  BY <1>1, <1>2, NextDataFits DEF NextData
<1> QED
  BY <1>1, <1>2, <1>3, ReadsStep


LEMMA AttributesInv ==
    ASSUME SessionInv, NEW t \in Targets, NEW b \in BOOLEAN, ~fired,
           SetAttrs(t[1], t[2], b) \/ UNCHANGED vars,
           op' = AfterAttrs(op),
           overtaken' = (overtaken \/ (op.kind = "data" /\ op.at = 0)),
           UNCHANGED <<perms, context, input, denied>>
    PROVE  SessionInv'
<1>1. /\ TypeOK /\ OpFits(op, overtaken, rows)
      /\ overtaken \in BOOLEAN /\ context \in BOOLEAN /\ ModesInv
  BY InvParts DEF ModesInv
<1>2. overtaken' \in BOOLEAN
  BY <1>1
<1>3. last' = last
  BY DEF SetAttrs, vars
<1>0. TransactionStep
  <2>1. CASE SetAttrs(t[1], t[2], b)
    BY <2>1 DEF TransactionStep
  <2>2. CASE UNCHANGED vars
    BY <2>2 DEF TransactionStep
  <2> QED
    BY <2>1, <2>2
<1>4. OpFits(op', overtaken', rows')
  <2>1. CASE SetAttrs(t[1], t[2], b)
    BY <1>1, <2>1, SetAttrsFits
  <2>2. CASE UNCHANGED vars
    <3>1. rows' = rows
      BY <2>2 DEF vars
    <3> QED
      BY <1>1, <3>1, NoAttrsFits
  <2> QED
    BY <2>1, <2>2
<1>5. /\ perms.data = "read" \/ perms.ana = "read" => input' = NoFile
      /\ perms.data # "write" => AddsOnly'
      /\ perms.ana = "read" => RefusedBefore(last', denied')
      /\ input' # NoFile => Reading(input')
  BY <1>1, <1>3 DEF ModesInv, AddsOnly
<1> QED
  BY <1>0, <1>1, <1>2, <1>4, <1>5, StepInv

LEMMA InsertAttributesInv ==
    ASSUME SessionInv, InsertAttributes
    PROVE  SessionInv'
<1>1. PICK t \in Targets :
         /\ ~fired
         /\ IF qcinput THEN AttrInsert(t[1], t[2]) ELSE UNCHANGED vars
         /\ op' = AfterAttrs(op)
         /\ overtaken' = (overtaken \/ (op.kind = "data" /\ op.at = 0))
         /\ UNCHANGED <<perms, context, input, denied>>
  BY DEF InsertAttributes, Ready, inputVars
<1>2. SetAttrs(t[1], t[2], TRUE) \/ UNCHANGED vars
  BY <1>1 DEF AttrInsert
<1> QED
  BY <1>1, <1>2, AttributesInv

LEMMA RemoveAttributesInv ==
    ASSUME SessionInv, RemoveAttributes
    PROVE  SessionInv'
<1>1. PICK t \in Targets :
         /\ ~fired
         /\ AttrRemove(t[1], t[2])
         /\ op' = AfterAttrs(op)
         /\ overtaken' = (overtaken \/ (op.kind = "data" /\ op.at = 0))
         /\ UNCHANGED <<perms, context, input, denied>>
  BY DEF RemoveAttributes, Ready, inputVars
<1>2. SetAttrs(t[1], t[2], FALSE)
  BY <1>1 DEF AttrRemove
<1> QED
  BY <1>1, <1>2, AttributesInv

\* What insert_data does to rows, and the operation it leaves.
LEMMA InsertStep ==
    ASSUME SessionInv, NEW ref \in StationRef, NEW dt \in Datetimes, NEW lt \in LevTrs,
           NEW V, V \in IF context THEN StationVarSets ELSE VarSets, Insert(ref, dt, lt, V)
    PROVE  /\ [Next]_vars /\ ~fired /\ fired' = fired /\ perms.data # "read"
           /\ TameStep(ModeOf(perms.data = "write"))
           /\ denied' = IF res' = "notfound" THEN denied \cup {ref[1]} ELSE denied
           /\ UNCHANGED <<perms, context, input, tried>>
<1> DEFINE write == perms.data = "write"
           add == perms.ana = "write"
<1>1. CacheInv /\ context \in BOOLEAN
  BY InvParts DEF ModesInv
<1>2. write \in BOOLEAN /\ add \in BOOLEAN
  OBVIOUS
<1>3. /\ ~fired /\ perms.data # "read" /\ UNCHANGED <<perms, context, input, tried>>
      /\ denied' = IF res' = "notfound" THEN denied \cup {ref[1]} ELSE denied
      /\ IF context THEN InsertStationData(ref[1], ref[2], V, write, add)
                    ELSE InsertData(ref[1], ref[2], dt, lt, V, write, add)
  BY DEF Insert, Ready, inputVars
<1>4. CASE context
  <2>1. V \in StationVarSets /\ InsertStationData(ref[1], ref[2], V, write, add)
    BY <1>3, <1>4
  <2>2. Next /\ fired' = fired
    BY <1>2, <2>1 DEF Next, InsertStationData, Call
  <2>3. TameStep(ModeOf(write))
    BY <1>1, <1>2, <2>1, InsertStationDataStep
  <2> QED
    BY <1>3, <2>2, <2>3
<1>5. CASE ~context
  <2>1. V \in VarSets /\ InsertData(ref[1], ref[2], dt, lt, V, write, add)
    BY <1>3, <1>5
  <2>2. Next /\ fired' = fired
    BY <1>2, <2>1 DEF Next, InsertData, Call
  <2>3. TameStep(ModeOf(write))
    BY <1>1, <1>2, <2>1, InsertDataStep
  <2> QED
    BY <1>3, <2>2, <2>3
<1> QED
  BY <1>4, <1>5

\* What it does in station mode "read": the one station that it may add is one for
\* which it was refused before, and so is the one that it leaves without a row.
LEMMA InsertRefuses ==
    ASSUME SessionInv, NEW ref \in StationRef, NEW dt \in Datetimes, NEW lt \in LevTrs,
           NEW V, V \in IF context THEN StationVarSets ELSE VarSets, Insert(ref, dt, lt, V),
           perms.ana = "read"
    PROVE  /\ \A x \in station' : x \in station \/ x.key \in denied
           /\ RefusedBefore(last', denied')
<1> DEFINE write == perms.data = "write"
<1>0. Sound(Here) /\ Here.err = "ok" /\ RefusedBefore(last, denied)
  BY InvParts DEF Inv, Here, ModesInv
<1>1. ref[1] \in Stations \cup {NoKey} /\ ref[2] \in RowIds \cup {MissingId}
  BY MaxIdAssumption DEF StationRef, Ids, RowIds, MissingId
<1>2. V \in SUBSET Var /\ IsFiniteSet(V)
  BY VarSetsAssumption
<1>3. /\ denied' = IF res' = "notfound" THEN denied \cup {ref[1]} ELSE denied
      /\ [Next]_vars /\ ~fired
  BY InsertStep
<1>4. IF context THEN InsertStationData(ref[1], ref[2], V, write, FALSE)
                 ELSE InsertData(ref[1], ref[2], dt, lt, V, write, FALSE)
  BY DEF Insert
<1>5. PICK s : Sound(s) /\ AddsOrRefuses(Here, s, ref[1]) /\ Call(s)
  <2>1. CASE context
    <3> DEFINE s == InsertStationDataCall(Here, ref[1], ref[2], V, write, FALSE)
    <3>1. Call(s)
      BY <1>4, <2>1 DEF InsertStationData
    <3>2. Sound(s) /\ AddsOrRefuses(Here, s, ref[1])
      BY <1>0, <1>1, <1>2, InsertStationDataSound, InsertStationDataRefuses
    <3> HIDE DEF s
    <3> QED
      BY <3>1, <3>2
  <2>2. CASE ~context
    <3> DEFINE s == InsertDataCall(Here, ref[1], ref[2], dt, lt, V, write, FALSE)
    <3>1. Call(s)
      BY <1>4, <2>2 DEF InsertData
    <3>2. Sound(s) /\ AddsOrRefuses(Here, s, ref[1])
      BY <1>0, <1>1, <1>2, InsertDataSound, InsertDataRefuses
    <3> HIDE DEF s
    <3> QED
      BY <3>1, <3>2
  <2> QED
    BY <2>1, <2>2
<1>6. res' # "sql"
  <2>1. CacheInv'
    BY <1>3, NextKeyedInv DEF SessionInv, KeyedInv
  <2> QED
    BY <2>1 DEF CacheInv
<1>7. /\ \A x \in station' : x \in station \/ (Unsaved(last) /\ x.key = last.key)
      /\ Unsaved(last') => \/ Unsaved(last) /\ last'.key = last.key
                           \/ res' = "notfound" /\ last'.key = ref[1]
  BY <1>5, <1>6, CallRefuses DEF Sound
<1> QED
  BY <1>0, <1>3, <1>7 DEF RefusedBefore

LEMMA InsertInv ==
    ASSUME SessionInv, NEW ref \in StationRef, NEW dt \in Datetimes, NEW lt \in LevTrs,
           NEW V, V \in IF context THEN StationVarSets ELSE VarSets, Insert(ref, dt, lt, V)
    PROVE  SessionInv'
<1>1. ModesInv /\ context \in BOOLEAN
  BY InvParts DEF ModesInv
<1>2. /\ [Next]_vars /\ ~fired /\ perms.data # "read"
      /\ TameStep(ModeOf(perms.data = "write"))
      /\ UNCHANGED <<perms, context, input, tried>>
  BY InsertStep
<1>3. KeyedInv'
  BY <1>2, NextKeyedInv DEF SessionInv
<1>4. rows' \subseteq DataRow
  <2>1. TypeOK'
    BY <1>3 DEF KeyedInv, CacheInv, LevelInv, Inv
  <2> QED
    BY <2>1 DEF TypeOK
<1> DEFINE at == IF context THEN StationCtx ELSE dt
           W == {r \in rows' : /\ r.st \in StationOf(ref) /\ r.ctx = at
                               /\ r.code \in {v.code : v \in V}
                               /\ context \/ \E l \in levtr' : l.id = r.lt /\ l.lt = lt}
<1>5. at \in Contexts /\ (at = StationCtx) = context
  BY <1>1, SentinelAssumption DEF Contexts
<1>6. /\ op' = InsertOp(IF res' = "ok" THEN {[code |-> r.code, id |-> r.id] : r \in W} ELSE {})
      /\ overtaken' = FALSE
  BY DEF Insert, Becomes
<1>7. \A r \in W : r \in rows' /\ r.ctx = at
  OBVIOUS
<1> HIDE DEF W, at
<1>8. OpFits(op', overtaken', rows')
  <2>1. CASE res' = "ok"
    BY <1>1, <1>4, <1>5, <1>6, <1>7, <2>1, InsertFitsRows
  <2>2. CASE res' # "ok"
    BY <1>1, <1>4, <1>5, <1>6, <1>7, <2>2, InsertFitsRows
  <2> QED
    BY <2>1, <2>2
<1>9. perms.data # "write" => AddsOnly'
  BY <1>1, <1>2 DEF ModesInv, TameStep, ModeOf
<1>10. TransactionStep
  BY <1>2 DEF TransactionStep
<1>11. perms.ana = "read" => RefusedBefore(last', denied')
  BY InsertRefuses
<1> QED
  BY <1>1, <1>2, <1>6, <1>8, <1>9, <1>10, <1>11, StepInv DEF ModesInv

LEMMA RemovingInv ==
    ASSUME SessionInv, Removing, [Next]_vars
    PROVE  SessionInv'
<1>1. ModesInv
  BY InvParts
<1>2. /\ ~fired /\ perms.data = "write" /\ op' = NoOp
      /\ UNCHANGED <<perms, context, overtaken, input, denied>>
  BY DEF Removing, Ready, WithoutRows, inputVars
<1>3. OpFits(op', overtaken', rows')
  BY <1>2, SimpleOps
<1>4. TransactionStep
  BY DEF TransactionStep
<1> QED
  BY <1>1, <1>2, <1>3, <1>4, StepInv DEF ModesInv

LEMMA RemoveInv ==
    ASSUME SessionInv, NEW q \in Queries, Remove(q)
    PROVE  SessionInv'
<1>1. Next
  BY DEF Remove, Next
<1> QED
  BY <1>1, RemovingInv DEF Remove

LEMMA RemoveEverythingInv ==
    ASSUME SessionInv, RemoveEverything
    PROVE  SessionInv'
<1>1. Next
  BY DEF RemoveEverything, Next
<1> QED
  BY <1>1, RemovingInv DEF RemoveEverything

LEMMA OpenedReading ==
    ASSUME NEW F \in Files
    PROVE  Reading(Opened(F))
BY FileShape DEF Reading, Opened

LEMMA OpenInputInv ==
    ASSUME SessionInv, NEW F \in Files, OpenInput(F)
    PROVE  SessionInv'
<1>1. ModesInv /\ OpFits(op, overtaken, rows)
  BY InvParts
<1>2. /\ ~fired /\ perms.data # "read" /\ perms.ana # "read" /\ input' = Opened(F)
      /\ UNCHANGED <<vars, perms, op, context, overtaken>>
  BY DEF OpenInput, Ready
<1>3. rows' = rows /\ last' = last /\ TransactionStep
  BY <1>2 DEF vars, TransactionStep
<1>4. OpFits(op', overtaken', rows')
  BY <1>1, <1>2, <1>3
<1>5. /\ perms.data # "write" => AddsOnly'
      /\ context' \in BOOLEAN /\ overtaken' \in BOOLEAN
  BY <1>1, <1>2, <1>3 DEF ModesInv, AddsOnly
<1> QED
  BY <1>2, <1>3, <1>4, <1>5, OpenedReading, StepInv

\* What messages_read_next does: it goes on in the file, and imports as the modes
\* allow what it finds there.
LEMMA ReadNextStep ==
    ASSUME SessionInv, MessagesReadNext
    PROVE  /\ ~fired /\ fired' = fired /\ input # NoFile
           /\ perms.data # "read" /\ perms.ana # "read"
           /\ [Next]_vars /\ input' = NextMessage(input) /\ Reading(input)
           /\ \/ /\ UNCHANGED <<vars, overtaken, tried>>
                 /\ input' = input \/ (Advances(input, input') /\ input'.held = <<>>)
              \/ /\ Advances(input, input') /\ input'.held # <<>>
                 /\ TameStep(ImportMode(ImportAs))
                 /\ overtaken' = TRUE
                 /\ tried' = Append(tried, <<input'.pos, input'.idx>>)
           /\ UNCHANGED <<perms, op, context>>
<1> DEFINE i == NextMessage(input)
<1>1. /\ ~fired /\ input # NoFile /\ input' = i
      /\ IF i = input \/ i.held = <<>>
         THEN UNCHANGED <<vars, overtaken, tried>>
         ELSE /\ ImportMessage(i.held[i.idx + 1], ImportAs)
              /\ overtaken' = TRUE
              /\ tried' = Append(tried, <<i.pos, i.idx>>)
      /\ UNCHANGED <<perms, op, context>>
  BY DEF MessagesReadNext, Ready
<1>2. perms.data # "read" /\ perms.ana # "read" /\ Reading(input) /\ CacheInv
  BY <1>1, InvParts DEF ModesInv
<1>3. i = input \/ Advances(input, i)
  BY <1>2, NextMessageAdvances
<1> HIDE DEF i
<1>4. CASE i = input \/ i.held = <<>>
  <2>1. UNCHANGED <<vars, overtaken, tried>>
    BY <1>1, <1>4
  <2>2. [Next]_vars /\ fired' = fired
    BY <2>1 DEF vars
  <2> QED
    BY <1>1, <1>2, <1>3, <1>4, <2>1, <2>2 DEF i
<1>5. CASE ~(i = input \/ i.held = <<>>)
  <2>1. Advances(input, i) /\ i.held[i.idx + 1] \in Messages
    BY <1>3, <1>5 DEF Advances
  <2>2. ImportAs \in ImportOptions
    BY DEF ImportAs, ImportOptions
  <2>3. ImportMessage(i.held[i.idx + 1], ImportAs)
    BY <1>1, <1>5
  <2>4. Next /\ fired' = fired
    BY <2>1, <2>2, <2>3 DEF Next, ImportMessage, Call
  <2>5. TameStep(ImportMode(ImportAs))
    BY <1>2, <2>1, <2>2, <2>3, ImportMessageStep
  <2> QED
    BY <1>1, <1>2, <1>5, <2>1, <2>4, <2>5 DEF i
<1> QED
  BY <1>4, <1>5

LEMMA ReadNextInv ==
    ASSUME SessionInv, MessagesReadNext
    PROVE  SessionInv'
<1>1. ModesInv /\ OpFits(op, overtaken, rows)
  BY InvParts
<1>2. /\ ~fired /\ perms.data # "read" /\ perms.ana # "read" /\ [Next]_vars
      /\ Reading(input) /\ UNCHANGED <<perms, op, context>>
  BY ReadNextStep
<1>3. TransactionStep
  BY <1>2 DEF TransactionStep
<1>4. CASE UNCHANGED <<vars, overtaken>> /\ (input' = input \/ Advances(input, input'))
  <2>1. rows' = rows /\ last' = last /\ overtaken' = overtaken
    BY <1>4 DEF vars
  <2>2. Reading(input')
    BY <1>2, <1>4 DEF Advances
  <2>3. OpFits(op', overtaken', rows')
    BY <1>1, <1>2, <2>1
  <2>4. /\ perms.data # "write" => AddsOnly'
        /\ context' \in BOOLEAN /\ overtaken' \in BOOLEAN
    BY <1>1, <1>2, <2>1 DEF ModesInv, AddsOnly
  <2> QED
    BY <1>2, <1>3, <2>2, <2>3, <2>4, StepInv
<1>5. CASE Advances(input, input') /\ TameStep(ImportMode(ImportAs)) /\ overtaken' = TRUE
  <2>1. \A r \in rows : \E x \in rows' : SamePlace(r, x)
    BY <1>5 DEF TameStep
  <2>2. OpFits(op', overtaken', rows')
    BY <1>1, <1>2, <1>5, <2>1, PlacesKept
  <2>3. perms.data # "write" => AddsOnly'
    BY <1>1, <1>5 DEF ModesInv, TameStep, ImportMode, ImportAs
  <2>4. Reading(input') /\ context' \in BOOLEAN
    BY <1>1, <1>2, <1>5 DEF Advances, ModesInv
  <2> QED
    BY <1>2, <1>3, <1>5, <2>2, <2>3, <2>4, StepInv
<1> QED
  BY <1>4, <1>5, ReadNextStep

LEMMA ShutdownInv ==
    ASSUME SessionInv, Shutdown, Commit \/ Rollback
    PROVE  SessionInv'
<1>1. ModesInv
  BY InvParts
<1>2. op' = NoOp /\ input' = NoFile /\ UNCHANGED <<perms, context, overtaken>>
  BY DEF Shutdown
<1>3. ~fired /\ last' = NoStation /\ TransactionStep
  BY DEF Commit, Rollback, TransactionStep, Next
<1>4. AddsOnly' /\ RefusedBefore(last', denied')
  BY <1>3, NoStationAssumption DEF AddsOnly, RefusedBefore, Unsaved
<1>5. OpFits(op', overtaken', rows')
  BY <1>2, SimpleOps
<1> QED
  BY <1>1, <1>2, <1>3, <1>4, <1>5, StepInv DEF ModesInv


LEMMA InitSessionInv == SessionInit => SessionInv
<1> SUFFICES ASSUME SessionInit PROVE SessionInv
  OBVIOUS
<1>1. PICK t \in InitialTables :
         station = t.station /\ levtr = t.levtr /\ rows = t.rows /\ saved = t
  BY DEF SessionInit
<1>2. Consistent(t)
  BY InitialTablesAssumption
<1>3. /\ last = NoStation /\ cache = {} /\ wattrs = TRUE
      /\ fired = FALSE /\ begun = 1 /\ res = "ok"
  BY DEF SessionInit
<1>10. KeyedInv
  BY <1>1, <1>2, <1>3, ConsistentKeyed
<1>11. ModesInv
  BY <1>3, ModesAssumption, NoStationAssumption
     DEF SessionInit, ModesInv, AddsOnly, Permitted, RefusedBefore, Unsaved
<1>12. OpFits(op, overtaken, rows)
  BY SimpleOps DEF SessionInit
<1> QED
  BY <1>10, <1>11, <1>12 DEF SessionInv

LEMMA NextSessionInv == SessionInv /\ [SessionNext]_sessionVars => SessionInv'
<1> SUFFICES ASSUME SessionInv, [SessionNext]_sessionVars PROVE SessionInv'
  OBVIOUS
<1>1. CASE SetStationContext
  BY <1>1, ParameterStep DEF SetStationContext
<1>2. CASE SetDataContext
  BY <1>2, ParameterStep DEF SetDataContext
<1>3. CASE SetDateBound
  BY <1>3, ParameterStep DEF SetDateBound
<1>4. CASE UnsetAll
  BY <1>4, UnsetAllInv
<1>5. CASE SetAttribute
  <2>1. context' \in BOOLEAN
    BY <1>5 DEF SetAttribute, SessionInv, ModesInv
  <2> QED
    BY <1>5, <2>1, ParameterStep DEF SetAttribute
<1>6. CASE \E c \in Codes : SetRelated(c)
  BY <1>6, SetRelatedInv
<1>7. CASE \E id \in AttrTargets \cup {MissingId} : SetContextId(id)
  BY <1>7, SetContextIdInv
<1>8. CASE QueryStations
  BY <1>8, QueryStationsInv
<1>9. CASE NextStation
  BY <1>9, NextStationInv
<1>10. CASE \E C \in {q.codes : q \in Queries}, attrs \in BOOLEAN : QueryData(C, attrs)
  BY <1>10, QueryDataInv
<1>11. CASE NextData
  BY <1>11, NextDataInv
<1>12. CASE QueryAttributes
  <2>1. Reads /\ UNCHANGED <<op, context, overtaken>>
    BY <1>12 DEF QueryAttributes
  <2>2. context' \in BOOLEAN
    BY <2>1 DEF SessionInv, ModesInv
  <2> QED
    BY <2>1, <2>2, ParameterStep
<1>13. CASE InsertAttributes
  BY <1>13, InsertAttributesInv
<1>14. CASE RemoveAttributes
  BY <1>14, RemoveAttributesInv
<1>15. CASE \E ref \in StationRef, dt \in Datetimes, lt \in LevTrs,
               V \in IF context THEN StationVarSets ELSE VarSets : Insert(ref, dt, lt, V)
  BY <1>15, InsertInv
<1>16. CASE \E q \in Queries : Remove(q)
  BY <1>16, RemoveInv
<1>17. CASE RemoveEverything
  BY <1>17, RemoveEverythingInv
<1>18. CASE \E F \in Files : OpenInput(F)
  BY <1>18, OpenInputInv
<1>19. CASE MessagesReadNext
  BY <1>19, ReadNextInv
<1>20. CASE CommitSession
  BY <1>20, ShutdownInv DEF CommitSession
<1>21. CASE AbandonSession
  BY <1>21, ShutdownInv DEF AbandonSession
<1>22. CASE UNCHANGED sessionVars
  <2>1. /\ UNCHANGED <<perms, op, context, overtaken, input, denied>>
        /\ UNCHANGED <<station, levtr, rows, last, wattrs, cache, fired, saved, begun, res>>
    BY <1>22 DEF sessionVars, inputVars, vars
  <2>2. KeyedInv'
    BY <2>1, NextKeyedInv DEF SessionInv, vars
  <2>3. AddsOnly' <=> AddsOnly
    BY <2>1 DEF AddsOnly
  <2>4. /\ Reading(input)' <=> Reading(input)
        /\ RefusedBefore(last, denied)' <=> RefusedBefore(last, denied)
    BY <2>1 DEF Reading, RefusedBefore
  <2>5. ModesInv'
    BY <2>1, <2>3, <2>4 DEF SessionInv, ModesInv
  <2>6. OpFits(op', overtaken', rows')
    BY <2>1 DEF SessionInv
  <2> QED
    BY <2>2, <2>5, <2>6, OpFitsPrime DEF SessionInv
<1> QED
  BY <1>1, <1>2, <1>3, <1>4, <1>5, <1>6, <1>7, <1>8, <1>9, <1>10, <1>11, <1>12, <1>13,
     <1>14, <1>15, <1>16, <1>17, <1>18, <1>19, <1>20, <1>21, <1>22 DEF SessionNext

LEMMA SpecSessionInv == SessionSpec => []SessionInv
BY InitSessionInv, NextSessionInv, PTL DEF SessionSpec


----------------------------------------------------------------------------
(* The operation and what it is about                                      *)

\* The results of a query, and the ids that insert_data leaves, stay those of the
\* values they were about, whatever else the program does until the next
\* operation (reset_operation, and dbapi.cc:576-590).
THEOREM OperationIsFound == SessionSpec => []OperationFindsItsData
<1>1. ASSUME SessionInv PROVE OperationFindsItsData
  <2>1. OpFits(op, overtaken, rows)
    BY <1>1 DEF SessionInv
  <2>2. ASSUME op.kind = "data", NEW n \in op.at..Len(op.rows), n > 0
        PROVE  \E r \in rows : SameRow(r, op.rows[n])
    <3>1. op.at \in Nat /\ Len(op.rows) \in Nat /\ DataFits(op, overtaken, rows)
      BY <2>1, <2>2, Kinds DEF OpFits
    <3>2. n \in 1..Len(op.rows)
      BY <2>2, <3>1
    <3>3. PICK r \in rows : SamePlace(r, op.rows[n])
      BY <3>1, <3>2 DEF DataFits
    <3> QED
      BY <3>3 DEF SamePlace, SameRow
  <2>3. ASSUME op.kind = "insert"
        PROVE  \A x \in op.ids : \E r \in rows :
                  r.id = x.id /\ r.code = x.code /\ (r.ctx = StationCtx) = op.ofStation
    BY <2>1, <2>3 DEF OpFits, InsertFits
  <2> QED
    BY <2>2, <2>3 DEF OperationFindsItsData
<1> QED
  BY <1>1, SpecSessionInv, PTL

\* The attributes of the row of a query that are said to be valid are its own.
LEMMA ValidAttributes ==
    ASSUME SessionInv, ~overtaken, NEW t \in Targets, op.kind = "data", op.valid
    PROVE  CurrentRow.attr = Stored(t)
<1>1. TypeOK /\ KeysInv /\ OpFits(op, overtaken, rows)
  BY InvParts
<1>2. /\ op \in [kind : {"data"}, ofStation : BOOLEAN, rows : Seq(DataRow), at : Nat,
                 attrs : BOOLEAN, valid : BOOLEAN, ended : BOOLEAN]
      /\ DataFits(op, overtaken, rows)
  BY <1>1, Kinds DEF OpFits
<1>3. op.at \in 1..Len(op.rows)
  BY <1>2 DEF DataFits
<1>4. CurrentRow = op.rows[op.at]
  BY <1>3 DEF CurrentRow
<1>5. t[1] = op.ofStation /\ t[2] = op.rows[op.at].id
  BY <1>4 DEF Targets
<1>6. (op.rows[op.at].ctx = StationCtx) = op.ofStation
  BY <1>2, <1>3 DEF DataFits
<1>7. PICK r \in rows : SamePlace(r, op.rows[op.at]) /\ r.attr = op.rows[op.at].attr
  BY <1>2, <1>3 DEF DataFits
<1>8. r.id = t[2] /\ (r.ctx = StationCtx) = t[1] /\ r.attr \in BOOLEAN
  BY <1>1, <1>5, <1>6, <1>7 DEF SamePlace, TypeOK, DataRow
<1>9. ASSUME NEW x \in rows, x.id = t[2], (x.ctx = StationCtx) = t[1]
      PROVE  x = r
  BY <1>1, <1>8, <1>9 DEF KeysInv, UniqueRows, SameTable
<1>10. Stored(t) <=> r.attr
  BY <1>8, <1>9 DEF Stored
<1>11. Stored(t) \in BOOLEAN
  BY DEF Stored
<1> QED
  BY <1>4, <1>7, <1>8, <1>10, <1>11

\* Attributes kept by a cursor are those in the database until they are changed
\* through it, as no two values share a row id and changing the attributes of one
\* leaves the others' alone (valid_cached_attrs, dbapi.cc:190-249).
THEOREM AttributesAreTrue == SessionSpec => AttributesAreThoseStored
<1> DEFINE Kept == (qcoutput' # qcoutput /\ qcoutput' # Invalid /\ ~overtaken)
                      => qcoutput'.attr = Stored(qcoutput'.of)
<1>1. ASSUME SessionInv, SessionNext PROVE Kept \/ UNCHANGED sessionVars
  <2>1. CASE QueryAttributes
    <3> SUFFICES ASSUME ~overtaken PROVE Kept
      OBVIOUS
    <3>1. PICK t \in Targets :
             qcoutput' = [of |-> t, attr |-> IF op.kind = "data" /\ op.attrs /\ op.valid
                                             THEN CurrentRow.attr ELSE Stored(t)]
      BY <2>1 DEF QueryAttributes
    <3>2. op.kind = "data" /\ op.valid => CurrentRow.attr = Stored(t)
      BY <1>1, ValidAttributes
    <3>3. qcoutput'.of = t /\ qcoutput'.attr = Stored(t)
      BY <3>1, <3>2
    <3> QED
      BY <3>3
  <2>2. CASE ~QueryAttributes
    <3>1. qcoutput' = qcoutput \/ qcoutput' = Invalid
      BY <1>1, <2>2
         DEF SessionNext, SetStationContext, SetDataContext, SetDateBound, UnsetAll,
             SetAttribute, SetRelated, SetContextId, QueryStations, NextStation,
             QueryData, NextData, InsertAttributes, RemoveAttributes, Insert, Remove,
             Removing, RemoveEverything, OpenInput, MessagesReadNext, CommitSession,
             AbandonSession, Shutdown, Becomes
    <3> QED
      BY <3>1
  <2> QED
    BY <2>1, <2>2
<1>2. SessionInv /\ [SessionNext]_sessionVars => [Kept]_sessionVars
  BY <1>1
<1>3. SessionSpec => [][Kept]_sessionVars
  BY <1>2, SpecSessionInv, PTL DEF SessionSpec
<1> QED
  BY <1>3 DEF AttributesAreThoseStored

----------------------------------------------------------------------------
(* The access modes                                                        *)

\* What a step may do to rows, and to stations, in each mode.
Mild ==
    /\ perms.data # "write" =>
          \A r \in rows : \E s \in rows' : SameRow(r, s) /\ r.val = s.val
    /\ perms.data = "read" => station' = station /\ IdsOf(rows') = IdsOf(rows)
    /\ perms.data # "write" /\ perms.attr = "read" =>
          \A r \in rows : \E s \in rows' : SameRow(r, s) /\ r.attr = s.attr
    /\ perms.ana = "read" => \A s \in station' \ station : s.key \in denied

LEMMA SameRowsMild ==
    ASSUME station' = station, rows' = rows
    PROVE  Mild
BY DEF Mild, SameRow, IdsOf

LEMMA MoreRowsMild ==
    ASSUME perms.data # "read", perms.data # "write" => rows \subseteq rows',
           perms.ana = "read" => \A s \in station' \ station : s.key \in denied
    PROVE  Mild
BY DEF Mild, SameRow

LEMMA AttributesMild ==
    ASSUME TypeOK, perms.attr = "write",
           NEW ofStation, NEW id, NEW b, SetAttrs(ofStation, id, b)
    PROVE  Mild
<1>1. /\ \A r \in rows : \E x \in rows' : SamePlace(r, x) /\ x.val = r.val
      /\ \A x \in rows' : \E r \in rows : SamePlace(r, x)
  BY SetAttrsStep
<1>2. \A r \in rows : \E x \in rows' : SameRow(r, x) /\ r.val = x.val
  BY <1>1 DEF SamePlace, SameRow
<1>3. IdsOf(rows') \subseteq IdsOf(rows) /\ IdsOf(rows) \subseteq IdsOf(rows')
  BY <1>1 DEF IdsOf, SamePlace
<1>4. station' = station
  BY DEF SetAttrs
<1> QED
  BY <1>2, <1>3, <1>4 DEF Mild

\* A session stays within its modes because every call goes by them to choose the
\* mode of what it queues, and what is queued for inserting takes the place of no
\* row: not an import either, nor what a refused call has left in the queue. Station
\* mode "read" goes with a data mode that does not import, and a call that may not add
\* a station adds the one that is cached without a row: it was refused before.
THEOREM ModesAreKept == SessionSpec => KeepsItsModes
<1>1. ASSUME SessionInv, SessionNext, ~fired' PROVE Mild
  <2>1. TypeOK /\ ModesInv
    BY <1>1, InvParts
  <2>2. CASE UNCHANGED <<station, rows>>
    BY <2>2, SameRowsMild
  <2>3. CASE InsertAttributes
    <3>1. PICK t \in Targets : /\ perms.attr = "write"
                               /\ IF qcinput THEN AttrInsert(t[1], t[2]) ELSE UNCHANGED vars
      BY <2>3 DEF InsertAttributes
    <3>2. SetAttrs(t[1], t[2], TRUE) \/ UNCHANGED <<station, rows>>
      BY <3>1 DEF AttrInsert, vars
    <3> QED
      BY <2>1, <2>2, <3>1, <3>2, AttributesMild
  <2>4. CASE RemoveAttributes
    <3>1. PICK t \in Targets : perms.attr = "write" /\ AttrRemove(t[1], t[2])
      BY <2>4 DEF RemoveAttributes
    <3> QED
      BY <2>1, <3>1, AttributesMild DEF AttrRemove
  <2>5. CASE \E ref \in StationRef, dt \in Datetimes, lt \in LevTrs,
                V \in IF context THEN StationVarSets ELSE VarSets : Insert(ref, dt, lt, V)
    <3>1. perms.data # "read" /\ TameStep(ModeOf(perms.data = "write"))
      BY <1>1, <2>5, InsertStep
    <3>2. perms.data # "write" => rows \subseteq rows'
      BY <2>1, <3>1 DEF TameStep, ModeOf, ModesInv
    <3>3. perms.ana = "read" => \A s \in station' \ station : s.key \in denied
      BY <1>1, <2>5, InsertRefuses
    <3> QED
      BY <3>1, <3>2, <3>3, MoreRowsMild
  <2>6. CASE MessagesReadNext
    <3>1. /\ perms.data # "read" /\ perms.ana # "read"
          /\ UNCHANGED vars \/ TameStep(ImportMode(ImportAs))
      BY <1>1, <2>6, ReadNextStep
    <3>2. perms.data # "write" => rows \subseteq rows'
      <4>1. CASE UNCHANGED vars
        BY <4>1 DEF vars
      <4>2. CASE TameStep(ImportMode(ImportAs))
        BY <2>1, <4>2 DEF TameStep, ImportMode, ImportAs, ModesInv
      <4> QED
        BY <3>1, <4>1, <4>2
    <3> QED
      BY <3>1, <3>2, MoreRowsMild
  <2>7. CASE Removing
    BY <2>1, <2>7 DEF Removing, Mild, ModesInv
  <2> QED
    BY <1>1, <2>2, <2>3, <2>4, <2>5, <2>6, <2>7
       DEF SessionNext, SetStationContext, SetDataContext, SetDateBound, UnsetAll,
           SetAttribute, SetRelated, SetContextId, QueryStations, NextStation,
           QueryData, NextData, QueryAttributes, Remove, RemoveEverything, OpenInput,
           Reads, vars, CommitSession, AbandonSession, Commit, Rollback
<1>2. SessionInv /\ [SessionNext]_sessionVars => [~fired' => Mild]_sessionVars
  BY <1>1
<1>3. SessionSpec => [][~fired' => Mild]_sessionVars
  BY <1>2, SpecSessionInv, PTL DEF SessionSpec
<1> QED
  BY <1>3 DEF KeepsItsModes, Mild


----------------------------------------------------------------------------
(* Input files                                                             *)

\* What was imported is what has been reached, in the order of the file.
TriedInv ==
    /\ tried \in Seq(Nat \X Nat)
    /\ \A n \in 1..Len(tried) - 1 : Precedes(tried[n], tried[n + 1])
    /\ input # NoFile =>
          /\ \A n \in 1..Len(tried) : Reached(tried[n], input)
          /\ \A m \in MessagesOf(input.file) :
                Reached(m, input) => \E n \in 1..Len(tried) : tried[n] = m

LEMMA ReadNextTried ==
    ASSUME SessionInv, TriedInv, MessagesReadNext
    PROVE  TriedInv'
<1>1. input # NoFile /\ Reading(input)
  BY ReadNextStep
<1> DEFINE N == Len(tried)
<1>3. /\ tried \in Seq(Nat \X Nat) /\ N \in Nat
      /\ \A n \in 1..N : tried[n] \in Nat \X Nat /\ Reached(tried[n], input)
      /\ \A m \in MessagesOf(input.file) : Reached(m, input) => \E n \in 1..N : tried[n] = m
      /\ \A n \in 1..N - 1 : Precedes(tried[n], tried[n + 1])
  BY <1>1 DEF TriedInv
<1> DEFINE Goal(T, i) ==
              /\ T \in Seq(Nat \X Nat)
              /\ \A n \in 1..Len(T) - 1 : Precedes(T[n], T[n + 1])
              /\ \A n \in 1..Len(T) : Reached(T[n], i)
              /\ \A m \in MessagesOf(i.file) : Reached(m, i) => \E n \in 1..Len(T) : T[n] = m
<1>4. ASSUME Goal(tried', input') PROVE TriedInv'
  BY <1>4 DEF TriedInv, Reached, Precedes, MessagesOf
<1>2. CASE UNCHANGED tried /\ input' = input
  <2>1. Goal(tried, input)
    BY <1>3
  <2>2. Goal(tried', input')
    BY <1>2, <2>1
  <2> QED
    BY <1>4, <2>2
<1>5. CASE UNCHANGED tried /\ Advances(input, input') /\ input'.held = <<>>
  <2>1. /\ \A x \in Nat \X Nat : Reached(x, input) => Reached(x, input')
        /\ \A m \in MessagesOf(input.file) : Reached(m, input') => Reached(m, input)
        /\ input'.file = input.file
    BY <1>5 DEF Advances
  <2>2. Goal(tried', input')
    BY <1>3, <1>5, <2>1
  <2> QED
    BY <1>4, <2>2
<1>6. CASE /\ Advances(input, input') /\ input'.held # <<>>
           /\ tried' = Append(tried, <<input'.pos, input'.idx>>)
  <2> DEFINE p == <<input'.pos, input'.idx>>
             T == Append(tried, p)
  <2>1. /\ \A x \in Nat \X Nat : Reached(x, input) => Reached(x, input')
        /\ \A m \in MessagesOf(input.file) : Reached(m, input') => Reached(m, input) \/ m = p
        /\ \A x \in Nat \X Nat : Reached(x, input) => Precedes(x, p)
        /\ input'.file = input.file
    BY <1>6 DEF Advances
  <2>2. p \in Nat \X Nat /\ Reached(p, input')
    <3>1. Reading(input')
      BY <1>6 DEF Advances
    <3>2. input'.pos \in Nat /\ input'.idx \in Nat
      BY <3>1, FileShape DEF Reading
    <3> QED
      BY <3>2 DEF Reached
  <2> HIDE DEF p
  <2>3. /\ T \in Seq(Nat \X Nat) /\ Len(T) = N + 1 /\ T[N + 1] = p
        /\ \A n \in 1..N : T[n] = tried[n]
    BY <1>3, <2>2
  <2> HIDE DEF T, N
  <2>4. ASSUME NEW n \in 1..Len(T) PROVE Reached(T[n], input')
    <3>1. CASE n = N + 1
      BY <2>2, <2>3, <3>1
    <3>2. CASE n # N + 1
      <4>1. n \in 1..N
        BY <1>3, <2>3, <3>2
      <4> QED
        BY <1>3, <2>1, <2>3, <4>1
    <3> QED
      BY <3>1, <3>2
  <2>5. ASSUME NEW n \in 1..Len(T) - 1 PROVE Precedes(T[n], T[n + 1])
    <3>1. CASE n = N
      BY <1>3, <2>1, <2>3, <3>1
    <3>2. CASE n # N
      <4>1. n \in 1..N - 1 /\ n \in 1..N /\ n + 1 \in 1..N
        BY <1>3, <2>3, <2>5, <3>2
      <4> QED
        BY <1>3, <2>3, <4>1
    <3> QED
      BY <3>1, <3>2
  <2>6. ASSUME NEW m \in MessagesOf(input.file), Reached(m, input')
        PROVE  \E n \in 1..Len(T) : T[n] = m
    <3>1. CASE m = p
      BY <1>3, <2>3, <3>1
    <3>2. CASE m # p
      <4>1. PICK n \in 1..N : tried[n] = m
        BY <1>3, <2>1, <2>6, <3>2
      <4> QED
        BY <1>3, <2>3, <4>1
    <3> QED
      BY <3>1, <3>2
  <2>7. tried' = T
    BY <1>6 DEF T, p
  <2>8. Goal(T, input')
    BY <2>1, <2>3, <2>4, <2>5, <2>6
  <2> QED
    BY <1>4, <2>7, <2>8
<1> QED
  BY <1>2, <1>5, <1>6, ReadNextStep

LEMMA NextTried ==
    ASSUME SessionInv, TriedInv, [SessionNext]_sessionVars
    PROVE  TriedInv'
<1>1. CASE UNCHANGED <<input, tried>>
  BY <1>1 DEF TriedInv, Reached, Precedes, MessagesOf
<1>2. CASE \E F \in Files : OpenInput(F)
  <2>1. PICK F \in Files : input' = Opened(F) /\ tried' = <<>>
    BY <1>2 DEF OpenInput
  <2>2. input'.file = F /\ input'.pos = 0 /\ input'.idx = 0
    BY <2>1 DEF Opened
  <2>3. \A m \in MessagesOf(F) : ~Reached(m, input')
    BY <2>2, MessagesOfIs, FileShape DEF Reached
  <2>4. \A m \in MessagesOf(input'.file) : Reached(m, input') => \E n \in 1..Len(tried') : tried'[n] = m
    BY <2>2, <2>3
  <2> QED
    BY <2>1, <2>4 DEF TriedInv, Reached, Precedes, MessagesOf
<1>3. CASE MessagesReadNext
  BY <1>3, ReadNextTried
<1>4. CASE Shutdown
  BY <1>4 DEF Shutdown, TriedInv, Precedes
<1>5. CASE \E ref \in StationRef, dt \in Datetimes, lt \in LevTrs,
              V \in IF context THEN StationVarSets ELSE VarSets : Insert(ref, dt, lt, V)
  BY <1>1, <1>5, InsertStep
<1> QED
  BY <1>1, <1>2, <1>3, <1>4, <1>5
     DEF SessionNext, SetStationContext, SetDataContext, SetDateBound, UnsetAll,
         SetAttribute, SetRelated, SetContextId, QueryStations, NextStation,
         QueryData, NextData, QueryAttributes, Remove, Removing, RemoveEverything,
         InsertAttributes, RemoveAttributes, Reads, CommitSession, AbandonSession,
         inputVars, sessionVars

\* Reading goes on after a message that is refused and after a bulletin that
\* cannot be decoded, in order, and comes back to none: of the messages before
\* the position in the file each has been imported, once (InputFile::next,
\* dbapi.cc:51-72, and messages_read_next).
THEOREM ImportsEachMessage == SessionSpec => []EachMessageOnce
<1>1. SessionInit => TriedInv
  BY DEF SessionInit, TriedInv
<1>2. SessionInv /\ TriedInv /\ [SessionNext]_sessionVars => TriedInv'
  BY NextTried
<1>3. ASSUME SessionInv, TriedInv PROVE EachMessageOnce
  <2>1. ASSUME input # NoFile, NEW m \in MessagesOf(input.file),
               Precedes(m, <<input.pos, input.idx>>)
        PROVE  \E n \in 1..Len(tried) : tried[n] = m
    <3>1. Reading(input)
      BY <1>3, <2>1 DEF SessionInv, ModesInv
    <3>2. PICK b \in Nat, k \in Nat : m = <<b, k>>
      BY <3>1, MessagesOfIs, FileShape DEF Reading
    <3>3. Reached(m, input)
      BY <2>1, <3>1, <3>2 DEF Reached, Precedes, Reading
    <3> QED
      BY <1>3, <2>1, <3>3 DEF TriedInv
  <2> QED
    BY <1>3, <2>1 DEF TriedInv, EachMessageOnce
<1> QED
  BY <1>1, <1>2, <1>3, SpecSessionInv, PTL DEF SessionSpec
=============================================================================
