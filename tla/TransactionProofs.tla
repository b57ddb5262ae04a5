------------------------- MODULE TransactionProofs -------------------------
(***************************************************************************)
(* Theorems about Transaction, for any number of stations, levels, codes,  *)
(* values, messages and transactions.  The first part is about the         *)
(* operators of module Batch: they keep the record they work on well typed *)
(* and its tables finite, and they never give a station a second row.  The *)
(* last part shows that Transaction implements Archive.                    *)
(***************************************************************************)
EXTENDS TransactionArchive, FiniteSetTheorems, WellFoundedInduction,
        NaturalsInduction, TLAPS

\* The type of the record of module Batch.
Typed(s) ==
    s \in [station : SUBSET StationRow, levtr : SUBSET LevTrRow,
           rows : SUBSET DataRow, last : CachedStation \cup {NoStation},
           cache : SUBSET LevTrRow, attrs : BOOLEAN, err : Outcomes]

\* Finite tables have a largest id.
Finite(s) == /\ IsFiniteSet(s.station) /\ IsFiniteSet(s.levtr)
             /\ IsFiniteSet(s.rows)
             /\ s.last \in CachedStation => IsFiniteSet(s.last.queue)

Good(s) == Typed(s) /\ Finite(s)

----------------------------------------------------------------------------
(* Finite sets of numbers                                                  *)

\* A finite set of numbers that is not empty has a largest element.
LEMMA HasTop ==
    ASSUME NEW T \in SUBSET Nat, IsFiniteSet(T), T # {}
    PROVE  \E i \in T : \A j \in T : j <= i
<1> DEFINE Above(x) == {y \in T : y > x}
           C == {Cardinality(Above(x)) : x \in T}
<1>1. \A x \in T : IsFiniteSet(Above(x)) /\ Cardinality(Above(x)) \in Nat
  <2> TAKE x \in T
  <2>1. Above(x) \in SUBSET T
    OBVIOUS
  <2>2. IsFiniteSet(Above(x))
    BY <2>1, FS_Subset
  <2> HIDE DEF Above
  <2> QED
    BY <2>2, FS_CardinalityType
<1>2. C \subseteq Nat /\ C # {}
  BY <1>1
<1>3. PICK c \in C : \A b \in C : ~ (<<b, c>> \in OpToRel(<, Nat))
  <2> HIDE DEF C
  <2> QED
    BY <1>2, WFMin, NatLessThanWellFounded
<1>4. \A b \in C : ~ (b < c)
  <2> HIDE DEF C
  <2> QED
    BY <1>2, <1>3 DEF OpToRel
<1>5. PICK x \in T : c = Cardinality(Above(x))
  OBVIOUS
<1>6. ASSUME NEW y \in T, ~ (y <= x)
      PROVE  FALSE
  <2>1. Above(y) \in SUBSET Above(x) /\ Above(y) # Above(x)
    <3>1. x \in Nat /\ y \in Nat /\ y > x
      BY <1>6
    <3>2. y \in Above(x) /\ y \notin Above(y)
      BY <3>1
    <3>3. \A z \in Above(y) : z \in Above(x)
      BY <3>1
    <3> QED
      BY <3>2, <3>3
  <2>2. /\ Cardinality(Above(y)) <= Cardinality(Above(x))
        /\ Cardinality(Above(y)) # Cardinality(Above(x))
    <3> HIDE DEF Above
    <3> QED
      BY <2>1, <1>1, FS_Subset
  <2>3. Cardinality(Above(y)) < c
    <3> HIDE DEF Above
    <3> QED
      BY <2>2, <1>1, <1>5
  <2> QED
    BY <2>3, <1>4
<1> QED
  BY <1>6

\* Top is a number, and no member of the set is larger.
LEMMA TopType ==
    ASSUME NEW T \in SUBSET Nat, IsFiniteSet(T)
    PROVE  Top(T) \in Nat /\ \A j \in T : j <= Top(T)
BY HasTop DEF Top

\* The image of a finite set is finite.
LEMMA ImageFinite ==
    ASSUME NEW S, IsFiniteSet(S), NEW f, DOMAIN f = S
    PROVE  IsFiniteSet({f[x] : x \in S})
<1> DEFINE T == {f[x] : x \in S}
           g == [x \in S |-> f[x]]
<1>1. g \in Surjection(S, T)
  BY DEF Surjection
<1> QED
  BY <1>1, FS_Surjection

\* So are the ids of a finite table.
LEMMA IdsFinite ==
    ASSUME NEW R, IsFiniteSet(R), \A r \in R : r.id \in RowIds
    PROVE  IsFiniteSet(IdsOf(R)) /\ IdsOf(R) \in SUBSET Nat
<1> DEFINE f == [r \in R |-> r.id]
<1>1. IdsOf(R) = {f[r] : r \in R}
  BY DEF IdsOf
<1>2. IsFiniteSet({f[r] : r \in R})
  <2>1. DOMAIN f = R
    OBVIOUS
  <2> HIDE DEF f
  <2> QED
    BY <2>1, ImageFinite
<1> QED
  BY <1>1, <1>2 DEF IdsOf, RowIds

----------------------------------------------------------------------------
(* Writing what is queued                                                  *)

\* To throw changes nothing but the outcome.
LEMMA ThrowGood ==
    ASSUME NEW s, Good(s), NEW kind \in Outcomes
    PROVE  /\ Good(Throw(s, kind))
           /\ kind # "ok" => Throw(s, kind).err # "ok"
           /\ Throw(s, kind).last = s.last
BY DEF Good, Typed, Finite, Throw

\* insert_new gives the cached station a row, or throws.
LEMMA InsertStationGood ==
    ASSUME NEW s, Good(s), s.last \in CachedStation
    PROVE  LET t == InsertStation(s) IN
           /\ Good(t) /\ t.last \in CachedStation
           /\ t.err = "ok" => t.last.id \in RowIds
<1> DEFINE new == Top(IdsOf(s.station)) + 1
           t == [s EXCEPT !.station = @ \cup {[id |-> new, key |-> s.last.key]},
                          !.last.id = new]
<1>1. new \in RowIds
  <2>1. IsFiniteSet(IdsOf(s.station)) /\ IdsOf(s.station) \in SUBSET Nat
    BY IdsFinite DEF Good, Typed, Finite, StationRow
  <2> QED
    BY <2>1, TopType DEF RowIds
<1>2. CASE s.last.id # MissingId
  BY <1>2 DEF InsertStation, CachedStation
<1>3. CASE s.last.id = MissingId /\ (\E r \in s.station :
                                   r.key = s.last.key /\ r.key \in Mobile)
  <2>1. InsertStation(s) = Throw(s, "sql")
    BY <1>3 DEF InsertStation
  <2>2. Good(Throw(s, "sql"))
    BY ThrowGood DEF Outcomes
  <2> QED
    BY <2>1, <2>2 DEF Throw, Good, Typed
<1>4. CASE s.last.id = MissingId /\ ~ (\E r \in s.station :
                                   r.key = s.last.key /\ r.key \in Mobile)
  <2>1. InsertStation(s) = t
    BY <1>4 DEF InsertStation
  <2> HIDE DEF new
  <2>2. [id |-> new, key |-> s.last.key] \in StationRow
    BY <1>1 DEF StationRow, CachedStation
  <2>3. t.last \in CachedStation /\ t.last.id = new
        /\ t.last.queue = s.last.queue
    BY <1>1 DEF CachedStation, Good, Typed
  <2>4. t.station = s.station \cup {[id |-> new, key |-> s.last.key]}
        /\ t.levtr = s.levtr /\ t.rows = s.rows /\ t.cache = s.cache
        /\ t.attrs = s.attrs /\ t.err = s.err
    BY DEF Good, Typed
  <2>5. IsFiniteSet(t.station)
    BY <2>4, FS_AddElement DEF Good, Finite
  <2>6. Typed(t)
    BY <2>2, <2>3, <2>4 DEF Good, Typed
  <2>7. Finite(t)
    BY <2>3, <2>4, <2>5 DEF Good, Finite
  <2> QED
    BY <2>1, <2>3, <2>6, <2>7, <1>1 DEF Good
<1> QED
  BY <1>2, <1>3, <1>4

\* A row inserted for a queued datum gets an id.
LEMMA NewRowIdType ==
    ASSUME NEW s, Good(s), s.last \in CachedStation,
           NEW q \in Inserts(s.last)
    PROVE  NewRowId(s, q) \in RowIds
<1> DEFINE R == {x \in s.rows : SameTable(x, q)}
           T == {r.id : r \in R}
           P == {p \in Inserts(s.last) : SameTable(p, q)
                                          /\ (p = q \/ Before(p, q))}
<1>1. IsFiniteSet(R)
  BY FS_Subset DEF Good, Finite
<1>2. \A r \in R : r.id \in RowIds
  BY DEF Good, Typed, DataRow
<1>3. T = IdsOf(R)
  BY DEF IdsOf
<1>4. IsFiniteSet(T) /\ T \in SUBSET Nat
  <2> HIDE DEF R, T
  <2> QED
    BY <1>1, <1>2, <1>3, IdsFinite
<1>5. Top(T) \in Nat
  <2> HIDE DEF T
  <2> QED
    BY <1>4, TopType
<1>6. P \in SUBSET s.last.queue /\ q \in P
  BY DEF Inserts, SameTable
<1>7. IsFiniteSet(P)
  <2> HIDE DEF P
  <2> QED
    BY <1>6, FS_Subset DEF Good, Finite
<1>8. Cardinality(P) \in Nat /\ Cardinality(P) # 0
  <2> HIDE DEF P
  <2> QED
    BY <1>6, <1>7, FS_CardinalityType, FS_EmptySet
<1>9. NewRowId(s, q) = Top(T) + Cardinality(P)
  BY DEF NewRowId
<1> QED
  <2> HIDE DEF T, P
  <2> QED
    BY <1>5, <1>8, <1>9 DEF RowIds

\* The inserts add rows, and the ids of the rows to those known, or throw.
LEMMA InsertRowsGood ==
    ASSUME NEW s, Good(s), s.last \in CachedStation,
           s.err = "ok" => s.last.id \in RowIds
    PROVE  Good(InsertRows(s)) /\ InsertRows(s).last \in CachedStation
<1> DEFINE row(q) == [id |-> NewRowId(s, q), st |-> s.last.id, ctx |-> q.ctx,
                      lt |-> q.lt, code |-> q.code, val |-> q.val,
                      attr |-> q.attr /\ s.attrs]
           new == {row(q) : q \in Inserts(s.last)}
           known == {[id |-> r.id, ctx |-> r.ctx, lt |-> r.lt,
                      code |-> r.code] : r \in new}
           stale == {i \in s.last.ids : \E k \in known : SameKey(i, k)}
           t == [s EXCEPT !.rows = @ \cup new,
                          !.last.ids = (@ \ stale) \cup known]
           f == [q \in Inserts(s.last) |-> row(q)]
<1>1. CASE s.err # "ok" \/ BreaksConstraint(s)
  BY <1>1, ThrowGood DEF InsertRows, Outcomes
<1>2. CASE s.err = "ok" /\ ~BreaksConstraint(s)
  <2>1. InsertRows(s) = t
    BY <1>2 DEF InsertRows
  <2>2. \A q \in Inserts(s.last) : row(q) \in DataRow
    <3> TAKE q \in Inserts(s.last)
    <3>1. NewRowId(s, q) \in RowIds
      BY NewRowIdType
    <3>2. q \in Datum
      BY DEF Inserts, CachedStation
    <3>3. s.attrs \in BOOLEAN
      BY DEF Good, Typed
    <3> QED
      BY <1>2, <3>1, <3>2, <3>3 DEF DataRow, Datum
  <2>3. new \subseteq DataRow
    BY <2>2
  <2>4. IsFiniteSet(new)
    <3>1. IsFiniteSet(Inserts(s.last))
      <4>1. Inserts(s.last) \in SUBSET s.last.queue
        BY DEF Inserts
      <4> QED
        BY <4>1, FS_Subset DEF Good, Finite
    <3>2. DOMAIN f = Inserts(s.last)
      OBVIOUS
    <3>3. new = {f[q] : q \in Inserts(s.last)}
      OBVIOUS
    <3> HIDE DEF f, new
    <3> QED
      BY <3>1, <3>2, <3>3, ImageFinite
  <2> HIDE DEF new
  <2>5. known \subseteq KnownId
    BY <2>3 DEF KnownId, DataRow
  <2> HIDE DEF known
  <2>6. t.last \in CachedStation /\ t.last.queue = s.last.queue
    <3>1. t.last = [s.last EXCEPT !.ids = (@ \ stale) \cup known]
      BY DEF Good, Typed
    <3>2. (s.last.ids \ stale) \cup known \in SUBSET KnownId
      BY <2>5 DEF CachedStation
    <3> HIDE DEF stale
    <3> QED
      BY <3>1, <3>2 DEF CachedStation
  <2> HIDE DEF stale
  <2>7. t.rows = s.rows \cup new
        /\ t.levtr = s.levtr /\ t.station = s.station /\ t.cache = s.cache
        /\ t.attrs = s.attrs /\ t.err = s.err
    BY DEF Good, Typed
  <2>8. IsFiniteSet(t.rows)
    BY <2>4, <2>7, FS_Union DEF Good, Finite
  <2>9. Typed(t)
    BY <2>3, <2>6, <2>7 DEF Good, Typed
  <2>10. Finite(t)
    BY <2>6, <2>7, <2>8 DEF Good, Finite
  <2> QED
    BY <2>1, <2>6, <2>9, <2>10 DEF Good
<1> QED
  BY <1>1, <1>2

\* The updates replace values and attributes of rows, and empty the queue.
LEMMA UpdateRowsGood ==
    ASSUME NEW s, Good(s), s.last \in CachedStation
    PROVE  Good(UpdateRows(s)) /\ UpdateRows(s).last \in CachedStation
<1> DEFINE hits(r) == {q \in Updates(s.last) : SameTable(q, r) /\ q.id = r.id}
           updated(r) == IF hits(r) = {} THEN r
                         ELSE LET q == CHOOSE q \in hits(r) : TRUE IN
                              [r EXCEPT !.val = q.val,
                                        !.attr = q.attr /\ s.attrs]
           new == {updated(r) : r \in s.rows}
           f == [r \in s.rows |-> updated(r)]
           t == [s EXCEPT !.rows = new, !.last.queue = {}]
<1>0. CASE s.err # "ok"
  BY <1>0 DEF UpdateRows
<1>1. s.err = "ok" => UpdateRows(s) = t
  BY DEF UpdateRows, Good, Typed
<1>2. \A r \in s.rows : updated(r) \in DataRow
  <2> TAKE r \in s.rows
  <2>1. r \in DataRow
    BY DEF Good, Typed
  <2>2. CASE hits(r) = {}
    BY <2>1, <2>2
  <2>3. CASE hits(r) # {}
    <3> DEFINE q == CHOOSE q \in hits(r) : TRUE
    <3>1. q \in hits(r)
      BY <2>3
    <3>2. q \in Datum
      BY <3>1 DEF Updates, CachedStation
    <3>3. updated(r) = [r EXCEPT !.val = q.val, !.attr = q.attr /\ s.attrs]
      BY <2>3
    <3> HIDE DEF q, hits, updated
    <3>4. q.val \in Vals \cup {Garbage} /\ (q.attr /\ s.attrs) \in BOOLEAN
      BY <3>2 DEF Datum
    <3> QED
      BY <2>1, <3>3, <3>4 DEF DataRow
  <2> QED
    BY <2>2, <2>3
<1>3. new \subseteq DataRow
  <2> HIDE DEF updated
  <2> QED
    BY <1>2
<1>4. IsFiniteSet(new)
  <2>1. DOMAIN f = s.rows /\ new = {f[r] : r \in s.rows}
    <3> HIDE DEF updated
    <3> QED
      OBVIOUS
  <2>2. IsFiniteSet(s.rows)
    BY DEF Good, Finite
  <2> HIDE DEF f, new
  <2> QED
    BY <2>1, <2>2, ImageFinite
<1> HIDE DEF new
<1>5. t.rows = new
      /\ t.levtr = s.levtr /\ t.station = s.station /\ t.cache = s.cache
      /\ t.attrs = s.attrs /\ t.err = s.err
      /\ t.last = [s.last EXCEPT !.queue = {}]
  BY DEF Good, Typed
<1>6. t.last \in CachedStation /\ t.last.queue = {}
  BY <1>5 DEF CachedStation
<1>7. Typed(t)
  BY <1>3, <1>5, <1>6 DEF Good, Typed
<1>8. Finite(t)
  BY <1>4, <1>5, <1>6, FS_EmptySet DEF Good, Finite
<1> QED
  BY <1>0, <1>1, <1>6, <1>7, <1>8 DEF Good

\* write_pending, whether it ends normally or not.
LEMMA WritePendingGood ==
    ASSUME NEW s, Good(s)
    PROVE  Good(WritePending(s))
<1>1. CASE s.err # "ok" \/ s.last = NoStation
  BY <1>1 DEF WritePending
<1>2. CASE s.err = "ok" /\ s.last # NoStation
  <2> DEFINE s1 == InsertStation(s)
             s2 == InsertRows(s1)
  <2>1. WritePending(s) = UpdateRows(s2)
    BY <1>2 DEF WritePending
  <2>2. s.last \in CachedStation
    BY <1>2 DEF Good, Typed
  <2>3. Good(s1) /\ s1.last \in CachedStation
        /\ (s1.err = "ok" => s1.last.id \in RowIds)
    BY <2>2, InsertStationGood
  <2> HIDE DEF s1
  <2>4. Good(s2) /\ s2.last \in CachedStation
    BY <2>3, InsertRowsGood
  <2> HIDE DEF s2
  <2> QED
    BY <2>1, <2>4, UpdateRowsGood
<1> QED
  BY <1>1, <1>2
----------------------------------------------------------------------------
(* The station cache                                                       *)

\* A change of fields of the cached station that keeps it well typed.
LEMMA LastGood ==
    ASSUME NEW s, Good(s), NEW L \in CachedStation, IsFiniteSet(L.queue)
    PROVE  Good([s EXCEPT !.last = L])
<1> DEFINE t == [s EXCEPT !.last = L]
<1>1. t.last = L /\ t.rows = s.rows
      /\ t.levtr = s.levtr /\ t.station = s.station /\ t.cache = s.cache
      /\ t.attrs = s.attrs /\ t.err = s.err
  BY DEF Good, Typed
<1>2. Typed(t)
  BY <1>1 DEF Good, Typed
<1>3. Finite(t)
  BY <1>1 DEF Good, Finite
<1> QED
  BY <1>2, <1>3 DEF Good

LEMMA FreshType ==
    ASSUME NEW key \in Stations
    PROVE  Fresh(key) \in CachedStation /\ IsFiniteSet(Fresh(key).queue)
BY FS_EmptySet DEF Fresh, CachedStation

\* A step may follow one that has thrown: it then does nothing.
Live(s) == Good(s) /\ (s.err = "ok" => s.last \in CachedStation)

LEMMA ThrowLive ==
    ASSUME NEW s, Good(s), NEW kind \in Outcomes \ {"ok"}
    PROVE  Live(Throw(s, kind))
BY ThrowGood DEF Live

LEMMA NewStationGood ==
    ASSUME NEW s, Good(s), NEW key \in Stations
    PROVE  LET t == NewStation(s, key) IN
           Live(t) /\ (t.err = "ok" => t.last = Fresh(key))
<1> DEFINE s1 == WritePending(s)
           t == [s1 EXCEPT !.last = Fresh(key)]
<1>1. Good(s1)
  BY WritePendingGood
<1>2. NewStation(s, key) = IF s1.err # "ok" THEN s1 ELSE t
  BY DEF NewStation, CacheStation
<1> HIDE DEF s1
<1>3. Good(t)
  BY <1>1, FreshType, LastGood
<1>4. t.last = Fresh(key) /\ t.last \in CachedStation
  BY <1>1, FreshType DEF Good, Typed
<1> HIDE DEF t
<1> QED
  BY <1>1, <1>2, <1>3, <1>4 DEF Live

\* An id found on the database.
LEMMA SetStationIdLive ==
    ASSUME NEW s, Live(s), NEW id, s.err = "ok" => id \in RowIds
    PROVE  Live(SetStationId(s, id))
<1> DEFINE L == [s.last EXCEPT !.id = id, !.isNew = FALSE]
<1>1. CASE s.err # "ok"
  BY <1>1 DEF SetStationId
<1>2. CASE s.err = "ok"
  <2>1. L \in CachedStation /\ L.queue = s.last.queue
    BY <1>2 DEF CachedStation, Live
  <2>2. SetStationId(s, id) = [s EXCEPT !.last = L]
    BY <1>2 DEF Live, Good, Typed, SetStationId
  <2>3. [s EXCEPT !.last = L].last = L
    BY DEF Live, Good, Typed
  <2>4. IsFiniteSet(L.queue)
    BY <1>2, <2>1 DEF Live, Good, Finite
  <2> HIDE DEF L
  <2> QED
    BY <2>1, <2>2, <2>3, <2>4, LastGood DEF Live
<1> QED
  BY <1>1, <1>2

\* A station cached as one that has no row, nor station values.
LEMMA NoRowLive ==
    ASSUME NEW s, Good(s), s.last \in CachedStation
    PROVE  LET t == [s EXCEPT !.last.loaded = {StationCtx}] IN
           /\ Live(t) /\ t.station = s.station
           /\ t.last.id = s.last.id /\ t.last.key = s.last.key
<1> DEFINE L == [s.last EXCEPT !.loaded = {StationCtx}]
           t == [s EXCEPT !.last.loaded = {StationCtx}]
<1>1. L \in CachedStation /\ L.queue = s.last.queue
      /\ L.id = s.last.id /\ L.key = s.last.key
  BY DEF CachedStation, Contexts
<1>2. t = [s EXCEPT !.last = L] /\ t.last = L /\ t.station = s.station
  BY DEF Good, Typed
<1>3. IsFiniteSet(L.queue)
  BY <1>1 DEF Good, Finite
<1> HIDE DEF L, t
<1>4. Live(t) /\ t.station = s.station
      /\ t.last.id = s.last.id /\ t.last.key = s.last.key
  BY <1>1, <1>2, <1>3, LastGood DEF Live
<1> QED
  BY <1>4 DEF t

LEMMA FindStationGood ==
    ASSUME NEW s, Live(s), NEW canAdd \in BOOLEAN
    PROVE  Live(FindStation(s, canAdd))
<1> DEFINE found == LookupStation(s, s.last.key)
           id == (CHOOSE r \in found : TRUE).id
           t1 == [s EXCEPT !.last.loaded = {StationCtx}]
<1>1. FindStation(s, canAdd) =
          IF s.err # "ok" THEN s
          ELSE IF \E a, b \in found : a # b THEN Throw(s, "sql")
          ELSE IF found = {}
               THEN IF canAdd THEN t1 ELSE Throw(s, "notfound")
          ELSE SetStationId(s, id)
  BY DEF FindStation
<1>2. Live(Throw(s, "sql")) /\ Live(Throw(s, "notfound"))
  <2>1. {"sql", "notfound"} \subseteq Outcomes \ {"ok"}
    BY DEF Outcomes
  <2> QED
    BY <2>1, ThrowLive DEF Live
<1>3. s.err = "ok" => Live(t1)
  BY NoRowLive DEF Live
<1>4. ASSUME found # {}
      PROVE  Live(SetStationId(s, id))
  <2>1. (CHOOSE r \in found : TRUE) \in StationRow
    BY <1>4 DEF LookupStation, Live, Good, Typed
  <2>2. id \in RowIds
    BY <2>1 DEF StationRow
  <2> HIDE DEF id
  <2> QED
    BY <2>2, SetStationIdLive
<1> HIDE DEF found, t1, id
<1> QED
  BY <1>1, <1>2, <1>3, <1>4

LEMMA GetStationByKeyGood ==
    ASSUME NEW s, Good(s), NEW key \in Stations, NEW canAdd \in BOOLEAN
    PROVE  Live(GetStationByKey(s, key, canAdd))
<1>1. CASE HaveStation(s, key)
  BY <1>1 DEF GetStationByKey, HaveStation, Live, Good, Typed
<1>2. CASE ~HaveStation(s, key)
  BY <1>2, NewStationGood, FindStationGood DEF GetStationByKey
<1> QED
  BY <1>1, <1>2

LEMMA GetStationByIdGood ==
    ASSUME NEW s, Good(s), NEW id \in RowIds \cup {MissingId}
    PROVE  Live(GetStationById(s, id))
<1> DEFINE found == {r \in s.station : r.id = id}
           key == (CHOOSE r \in found : TRUE).key
           s1 == NewStation(s, key)
<1>1. Live(Throw(s, "usage")) /\ Live(Throw(s, "notfound"))
  <2>1. {"usage", "notfound"} \subseteq Outcomes \ {"ok"}
    BY DEF Outcomes
  <2> QED
    BY <2>1, ThrowLive
<1>2. CASE id = MissingId
  BY <1>1, <1>2 DEF GetStationById
<1>3. CASE s.last # NoStation /\ s.last.id = id /\ id # MissingId
  BY <1>3 DEF GetStationById, Live, Good, Typed
<1>4. CASE ~ (s.last # NoStation /\ s.last.id = id) /\ id # MissingId
  <2>1. CASE found = {}
    BY <1>1, <1>4, <2>1 DEF GetStationById
  <2>2. CASE found # {}
    <3>1. GetStationById(s, id) = SetStationId(s1, id)
      BY <1>4, <2>2 DEF GetStationById
    <3>2. key \in Stations
      <4>1. (CHOOSE r \in found : TRUE) \in StationRow
        BY <2>2 DEF Good, Typed
      <4> QED
        BY <4>1 DEF StationRow
    <3> HIDE DEF key
    <3>3. Live(s1)
      BY <3>2, NewStationGood
    <3> HIDE DEF s1
    <3> QED
      BY <1>4, <3>1, <3>3, SetStationIdLive
  <2> QED
    BY <2>1, <2>2
<1> QED
  BY <1>2, <1>3, <1>4

\* Either way of getting a station leaves it cached, or throws.
LEMMA GetStationGood ==
    ASSUME NEW s, Good(s), NEW key \in Stations \cup {NoKey},
           NEW id \in RowIds \cup {MissingId}, NEW canAdd \in BOOLEAN
    PROVE  Live(GetStation(s, key, id, canAdd))
<1>1. CASE s.err # "ok"
  BY <1>1 DEF GetStation, Live
<1>2. CASE s.err = "ok"
  BY <1>2, GetStationByKeyGood, GetStationByIdGood DEF GetStation
<1> QED
  BY <1>1, <1>2

----------------------------------------------------------------------------
(* The data cache                                                          *)

\* What is read into the cache of the station.
LEMMA LoadLive ==
    ASSUME NEW s, Live(s), NEW ctx, s.err = "ok" => ctx \in Contexts
    PROVE  Live(Load(s, ctx)) /\ Load(s, ctx).err = s.err
<1> DEFINE onDb == {r \in s.rows : r.st = s.last.id /\ r.ctx = ctx}
           found == IF ctx = StationCtx \/ ~s.last.isNew THEN onDb ELSE {}
           read == {[id |-> r.id, ctx |-> r.ctx, lt |-> r.lt,
                     code |-> r.code] : r \in found}
           L == [s.last EXCEPT !.loaded = @ \cup {ctx}, !.ids = @ \cup read]
           t == Load(s, ctx)
<1>1. CASE s.err # "ok" \/ ctx \in s.last.loaded
  BY <1>1 DEF Load
<1>2. CASE s.err = "ok" /\ ctx \notin s.last.loaded
  <2>0. Good(s) /\ s.last \in CachedStation /\ ctx \in Contexts
    BY <1>2 DEF Live
  <2>1. read \subseteq KnownId
    <3>1. found \subseteq DataRow
      BY <2>0 DEF Good, Typed
    <3> HIDE DEF found
    <3> QED
      BY <3>1 DEF DataRow, KnownId
  <2>2. t = [s EXCEPT !.last.loaded = @ \cup {ctx}, !.last.ids = @ \cup read]
    BY <1>2 DEF Load
  <2> HIDE DEF read, t
  <2>3. t = [s EXCEPT !.last = L] /\ t.last = L /\ t.err = s.err
    BY <2>0, <2>2 DEF Good, Typed
  <2>4. L \in CachedStation /\ L.queue = s.last.queue
    BY <2>0, <2>1 DEF CachedStation
  <2>5. IsFiniteSet(L.queue)
    BY <2>0, <2>4 DEF Good, Finite
  <2> HIDE DEF L
  <2> QED
    BY <2>0, <2>3, <2>4, <2>5, LastGood DEF t, Live
<1> QED
  BY <1>1, <1>2

\* Variables with the database id of their level and time range.
Item == [lt : RowIds \cup {MissingId}, code : Codes, val : Vals, attr : BOOLEAN]

\* What is queued, when the call has not thrown yet.
LEMMA AddGood ==
    ASSUME NEW s, Good(s), s.err = "ok", s.last \in CachedStation,
           NEW ctx \in Contexts,
           NEW V \in SUBSET Item, IsFiniteSet(V), NEW mode
    PROVE  LET t == Add(s, ctx, V, mode) IN
           Good(t) /\ t.last \in CachedStation
<1> DEFINE item(v, id) == [id |-> id, ctx |-> ctx, lt |-> v.lt,
                           code |-> v.code, val |-> v.val, attr |-> v.attr]
           match(v) == {i \in s.last.ids : SameKey(i, item(v, MissingId))}
           clashes == {v \in V : mode = "ERROR" /\ match(v) # {}}
           taken == {v \in V : /\ mode = "IGNORE" => match(v) = {}
                               /\ \A w \in clashes :
                                    Before(item(v, MissingId), item(w, MissingId))}
           idOf(v) == IF match(v) = {} THEN MissingId
                      ELSE (CHOOSE i \in match(v) : TRUE).id
           queued == {item(v, idOf(v)) : v \in taken}
           replaced == {q \in s.last.queue : \E p \in queued : SameKey(p, q)}
           Q == (s.last.queue \ replaced) \cup queued
           L == [s.last EXCEPT !.queue = Q]
           t == [s EXCEPT !.last.queue = (@ \ replaced) \cup queued,
                          !.err = IF clashes = {} THEN @ ELSE "exists"]
           f == [v \in taken |-> item(v, idOf(v))]
<1>1. Add(s, ctx, V, mode) = t
  BY DEF Add
<1>2. \A v \in V : idOf(v) \in RowIds \cup {MissingId}
  <2> TAKE v \in V
  <2>1. CASE match(v) = {}
    BY <2>1
  <2>2. CASE match(v) # {}
    <3>1. (CHOOSE i \in match(v) : TRUE) \in KnownId
      BY <2>2 DEF CachedStation
    <3> HIDE DEF match
    <3> QED
      BY <2>2, <3>1 DEF KnownId
  <2> QED
    BY <2>1, <2>2
<1>3. taken \subseteq V
  OBVIOUS
<1>4. queued \subseteq Datum
  <2>1. \A v \in V : item(v, idOf(v)) \in Datum
    <3> HIDE DEF idOf
    <3> QED
      BY <1>2 DEF Item, Datum
  <2> HIDE DEF taken, item, idOf
  <2> QED
    BY <2>1, <1>3
<1>5. IsFiniteSet(queued)
  <2> HIDE DEF taken, item, idOf
  <2>1. IsFiniteSet(taken)
    BY <1>3, FS_Subset
  <2>2. DOMAIN f = taken /\ queued = {f[v] : v \in taken}
    OBVIOUS
  <2> HIDE DEF f, queued
  <2> QED
    BY <2>1, <2>2, ImageFinite
<1> HIDE DEF queued
<1>6. Q \in SUBSET Datum
  BY <1>4 DEF CachedStation
<1>7. IsFiniteSet(Q)
  <2>1. IsFiniteSet(s.last.queue \ replaced)
    <3>1. s.last.queue \ replaced \in SUBSET s.last.queue
      OBVIOUS
    <3> HIDE DEF replaced
    <3> QED
      BY <3>1, FS_Subset DEF Good, Finite
  <2> HIDE DEF replaced
  <2> QED
    BY <2>1, <1>5, FS_Union
<1> HIDE DEF replaced, clashes
<1>8. t.last = L /\ t.rows = s.rows
      /\ t.levtr = s.levtr /\ t.station = s.station /\ t.cache = s.cache
      /\ t.attrs = s.attrs /\ t.err \in {s.err, "exists"}
  BY DEF Good, Typed
<1> HIDE DEF Q
<1>9. L \in CachedStation /\ L.queue = Q
  BY <1>6 DEF CachedStation
<1>10. DOMAIN t = DOMAIN s /\ t = [s EXCEPT !.last = L, !.err = t.err]
  BY DEF Good, Typed, Q
<1> HIDE DEF L
<1>11. Typed(t)
  <2>1. t.err \in Outcomes
    BY <1>8 DEF Good, Typed, Outcomes
  <2> HIDE DEF t
  <2> QED
    BY <1>8, <1>9, <1>10, <2>1 DEF Good, Typed
<1>12. Finite(t)
  <2> HIDE DEF t
  <2> QED
    BY <1>7, <1>8, <1>9 DEF Good, Finite
<1> QED
  BY <1>1, <1>8, <1>9, <1>11, <1>12 DEF Good

LEMMA AddLive ==
    ASSUME NEW s, Live(s), NEW ctx, s.err = "ok" => ctx \in Contexts,
           NEW V, s.err = "ok" => V \in SUBSET Item /\ IsFiniteSet(V), NEW mode
    PROVE  Live(Add(s, ctx, V, mode))
<1>1. CASE s.err # "ok"
  BY <1>1 DEF Add
<1>2. CASE s.err = "ok"
  BY <1>2, AddGood DEF Live
<1> QED
  BY <1>1, <1>2

\* obtain_id leaves an entry for each level in the cache.
LEMMA ObtainLevTrsGood ==
    ASSUME NEW s, Good(s), s.err = "ok", NEW L \in SUBSET LevTrs, IsFiniteSet(L)
    PROVE  LET t == ObtainLevTrs(s, L) IN
           /\ Good(t) /\ t.last = s.last /\ t.err = s.err
           /\ \A l \in L : \E c \in t.cache : c.lt = l
<1> DEFINE uncached == {l \in L : \A c \in s.cache : c.lt # l}
           onDb == {r \in s.levtr : r.lt \in uncached}
           missing == {l \in uncached : \A r \in onDb : r.lt # l}
           idOf(l) == Top(IdsOf(s.levtr))
                      + Cardinality({m \in missing : m <= l})
           new == {[id |-> idOf(l), lt |-> l] : l \in missing}
           f == [l \in missing |-> [id |-> idOf(l), lt |-> l]]
           t == [s EXCEPT !.levtr = @ \cup new, !.cache = @ \cup onDb \cup new]
<1>1. ObtainLevTrs(s, L) = t
  BY DEF ObtainLevTrs
<1>2. IsFiniteSet(missing) /\ missing \subseteq LevTrs
  <2>1. missing \in SUBSET L
    OBVIOUS
  <2> HIDE DEF missing
  <2> QED
    BY <2>1, FS_Subset
<1>3. Top(IdsOf(s.levtr)) \in Nat
  <2>1. IsFiniteSet(IdsOf(s.levtr)) /\ IdsOf(s.levtr) \in SUBSET Nat
    BY IdsFinite DEF Good, Typed, Finite, LevTrRow
  <2> QED
    BY <2>1, TopType
<1>4. \A l \in missing : idOf(l) \in RowIds
  <2> HIDE DEF missing
  <2> TAKE l \in missing
  <2> DEFINE M == {m \in missing : m <= l}
  <2>1. l \in Nat
    BY <1>2, OrderAssumption
  <2>2. M \in SUBSET missing /\ l \in M
    BY <2>1
  <2> HIDE DEF M
  <2>3. IsFiniteSet(M)
    BY <2>2, <1>2, FS_Subset
  <2>4. Cardinality(M) \in Nat /\ Cardinality(M) # 0
    BY <2>2, <2>3, FS_CardinalityType, FS_EmptySet
  <2>5. idOf(l) = Top(IdsOf(s.levtr)) + Cardinality(M)
    BY DEF M
  <2> HIDE DEF idOf
  <2> QED
    BY <1>3, <2>4, <2>5 DEF RowIds
<1>5. new \subseteq LevTrRow
  <2> HIDE DEF missing, idOf
  <2> QED
    BY <1>2, <1>4 DEF LevTrRow
<1>6. IsFiniteSet(new)
  <2> HIDE DEF missing, idOf
  <2>1. DOMAIN f = missing /\ new = {f[l] : l \in missing}
    OBVIOUS
  <2> HIDE DEF f, new
  <2> QED
    BY <2>1, <1>2, ImageFinite
<1>7. \A l \in missing : \E c \in new : c.lt = l
  <2> HIDE DEF missing, idOf
  <2> TAKE l \in missing
  <2>1. [id |-> idOf(l), lt |-> l] \in new
    OBVIOUS
  <2>2. [id |-> idOf(l), lt |-> l].lt = l
    OBVIOUS
  <2> QED
    BY <2>1, <2>2
<1>8. t.levtr = s.levtr \cup new /\ t.cache = s.cache \cup onDb \cup new
      /\ t.rows = s.rows /\ t.station = s.station /\ t.last = s.last
      /\ t.attrs = s.attrs /\ t.err = s.err
  <2> HIDE DEF new, onDb
  <2> QED
    BY DEF Good, Typed
<1>9. onDb \subseteq LevTrRow
  BY DEF Good, Typed
<1>10. \A l \in L : \E c \in t.cache : c.lt = l
  <2> TAKE l \in L
  <2>1. CASE l \notin uncached
    BY <2>1, <1>8
  <2>2. CASE l \in uncached /\ l \notin missing
    BY <2>2, <1>8
  <2>3. CASE l \in missing
    <3> HIDE DEF missing, new, onDb
    <3> QED
      BY <2>3, <1>7, <1>8
  <2> QED
    BY <2>1, <2>2, <2>3
<1> HIDE DEF new, onDb, missing, uncached
<1>11. Typed(t)
  BY <1>5, <1>8, <1>9 DEF Good, Typed
<1>12. Finite(t)
  <2>1. IsFiniteSet(s.levtr \cup new)
    BY <1>6, FS_Union DEF Good, Finite
  <2> HIDE DEF t
  <2> QED
    BY <2>1, <1>8 DEF Good, Finite
<1> QED
  BY <1>1, <1>8, <1>10, <1>11, <1>12 DEF Good

LEMMA ObtainLevTrsLive ==
    ASSUME NEW s, Live(s), NEW L \in SUBSET LevTrs, IsFiniteSet(L)
    PROVE  LET t == ObtainLevTrs(s, L) IN
           /\ Live(t) /\ t.err = s.err
           /\ t.err = "ok" => \A l \in L : \E c \in t.cache : c.lt = l
<1>1. CASE s.err # "ok"
  BY <1>1 DEF ObtainLevTrs
<1>2. CASE s.err = "ok"
  <2> DEFINE t == ObtainLevTrs(s, L)
  <2>1. /\ Good(t) /\ t.last = s.last /\ t.err = s.err
        /\ \A l \in L : \E c \in t.cache : c.lt = l
    BY <1>2, ObtainLevTrsGood DEF Live
  <2> HIDE DEF t
  <2>2. Live(t)
    BY <1>2, <2>1 DEF Live
  <2> QED
    BY <2>1, <2>2 DEF t
<1> QED
  BY <1>1, <1>2

\* Variables at known levels get the ids of those levels.
LEMMA WithLevTrType ==
    ASSUME NEW s, Good(s), NEW V, IsFiniteSet(V),
           V \subseteq [lt : LevTrs, code : Codes, val : Vals, attr : BOOLEAN],
           \A v \in V : \E c \in s.cache : c.lt = v.lt
    PROVE  WithLevTr(s, V) \in SUBSET Item /\ IsFiniteSet(WithLevTr(s, V))
<1> DEFINE at(v) == [lt |-> LevTrId(s, v.lt), code |-> v.code, val |-> v.val,
                     attr |-> v.attr]
           f == [v \in V |-> at(v)]
<1>1. \A v \in V : at(v) \in Item
  <2> TAKE v \in V
  <2>1. LevTrId(s, v.lt) \in RowIds
    BY DEF LevTrId, Good, Typed, LevTrRow
  <2> QED
    BY <2>1 DEF Item
<1>2. WithLevTr(s, V) = {at(v) : v \in V}
  BY DEF WithLevTr
<1> HIDE DEF at
<1>3. DOMAIN f = V /\ WithLevTr(s, V) = {f[v] : v \in V}
  BY <1>2
<1>4. IsFiniteSet({f[v] : v \in V})
  <2> HIDE DEF f
  <2> QED
    BY <1>3, ImageFinite
<1> QED
  BY <1>1, <1>2, <1>3, <1>4

LEMMA AtLevTrType ==
    ASSUME NEW V \in SUBSET Var, IsFiniteSet(V), NEW lt
    PROVE  /\ AtLevTr(lt, V) \subseteq
                  [lt : {lt}, code : Codes, val : Vals, attr : BOOLEAN]
           /\ IsFiniteSet(AtLevTr(lt, V))
<1> DEFINE at(v) == [lt |-> lt, code |-> v.code, val |-> v.val,
                     attr |-> v.attr]
           f == [v \in V |-> at(v)]
<1>1. \A v \in V : at(v) \in [lt : {lt}, code : Codes, val : Vals,
                              attr : BOOLEAN]
  BY DEF Var
<1>2. AtLevTr(lt, V) = {at(v) : v \in V}
  BY DEF AtLevTr
<1> HIDE DEF at
<1>3. DOMAIN f = V /\ AtLevTr(lt, V) = {f[v] : v \in V}
  BY <1>2
<1>4. IsFiniteSet({f[v] : v \in V})
  <2> HIDE DEF f
  <2> QED
    BY <1>3, ImageFinite
<1> QED
  BY <1>1, <1>2, <1>3, <1>4

LEMMA AddAtLevTrLive ==
    ASSUME NEW s, Live(s), NEW ctx, s.err = "ok" => ctx \in Contexts,
           NEW V, IsFiniteSet(V),
           V \subseteq [lt : LevTrs, code : Codes, val : Vals, attr : BOOLEAN],
           s.err = "ok" => \A v \in V : \E c \in s.cache : c.lt = v.lt,
           NEW mode
    PROVE  Live(AddAtLevTr(s, ctx, V, mode))
<1>1. s.err = "ok" =>
          WithLevTr(s, V) \in SUBSET Item /\ IsFiniteSet(WithLevTr(s, V))
  BY WithLevTrType DEF Live
<1> QED
  BY <1>1, AddLive DEF AddAtLevTr

----------------------------------------------------------------------------
(***************************************************************************)
(* Lemmas about the operators of module Batch: they never give a station a *)
(* second row, although the UNIQUE constraint of the table ignores fixed   *)
(* stations. The reason is that a station is cached without an id only as  *)
(* long as it has no row.                                                  *)
(***************************************************************************)

UniqueKeys(T) == \A a, b \in T : a.key = b.key => a = b

\* The cached station has no row, if the batch knows of none.
KnowsStation(s) ==
    (s.last \in CachedStation /\ s.last.id = MissingId) =>
        \A r \in s.station : r.key # s.last.key

Sound(s) == Good(s) /\ UniqueKeys(s.station) /\ KnowsStation(s)

SameStation(s, t) ==
    /\ t.station = s.station
    /\ s.last \in CachedStation /\ t.last \in CachedStation
    /\ t.last.id = s.last.id /\ t.last.key = s.last.key

\* What neither writes stations nor changes the cached one is sound.
LEMMA SameStationSound ==
    ASSUME NEW s, Sound(s), NEW t, Good(t), SameStation(s, t)
    PROVE  Sound(t)
BY DEF Sound, SameStation, KnowsStation

LEMMA ThrowSound ==
    ASSUME NEW s, Sound(s), NEW kind \in Outcomes
    PROVE  Sound(Throw(s, kind))
<1>1. Throw(s, kind).station = s.station /\ Throw(s, kind).last = s.last
  BY DEF Throw, Sound, Good, Typed
<1> QED
  BY <1>1, ThrowGood DEF Sound, KnowsStation

----------------------------------------------------------------------------
(* Writing what is queued                                                  *)

\* insert_new adds a row only for a station that has none, and keeps its id.
LEMMA InsertStationSound ==
    ASSUME NEW s, Sound(s), s.last \in CachedStation
    PROVE  Sound(InsertStation(s))
<1> DEFINE new == Top(IdsOf(s.station)) + 1
           row == [id |-> new, key |-> s.last.key]
           t == [s EXCEPT !.station = @ \cup {row}, !.last.id = new]
<1>1. Good(InsertStation(s)) /\ InsertStation(s).last \in CachedStation
      /\ (InsertStation(s).err = "ok" => InsertStation(s).last.id \in RowIds)
  BY InsertStationGood DEF Sound
<1>2. CASE s.last.id # MissingId
  BY <1>2 DEF InsertStation
<1>3. CASE s.last.id = MissingId /\ (\E r \in s.station :
                                   r.key = s.last.key /\ r.key \in Mobile)
  <2>1. InsertStation(s) = Throw(s, "sql")
    BY <1>3 DEF InsertStation
  <2> QED
    BY <2>1, ThrowSound DEF Outcomes
<1>4. CASE s.last.id = MissingId /\ ~ (\E r \in s.station :
                                   r.key = s.last.key /\ r.key \in Mobile)
  <2>1. InsertStation(s) = t
    BY <1>4 DEF InsertStation
  <2>2. new \in RowIds
    <3>1. IsFiniteSet(IdsOf(s.station)) /\ IdsOf(s.station) \in SUBSET Nat
      BY IdsFinite DEF Sound, Good, Typed, Finite, StationRow
    <3> QED
      BY <3>1, TopType DEF RowIds
  <2> HIDE DEF new
  <2>3. t.station = s.station \cup {row} /\ t.last.id = new
    BY DEF Sound, Good, Typed, CachedStation
  <2>4. \A r \in s.station : r.key # row.key
    BY <1>4 DEF Sound, KnowsStation
  <2>5. UniqueKeys(t.station)
    BY <2>3, <2>4 DEF Sound, UniqueKeys
  <2>6. KnowsStation(t)
    BY <2>2, <2>3 DEF KnowsStation, RowIds, MissingId
  <2> QED
    BY <1>1, <2>1, <2>5, <2>6 DEF Sound
<1> QED
  BY <1>2, <1>3, <1>4 DEF MissingId

LEMMA InsertRowsSame ==
    ASSUME NEW s, Good(s), s.last \in CachedStation,
           s.err = "ok" => s.last.id \in RowIds
    PROVE  SameStation(s, InsertRows(s))
<1>1. InsertRows(s).last \in CachedStation
  BY InsertRowsGood
<1>2. CASE s.err # "ok" \/ BreaksConstraint(s)
  BY <1>2 DEF InsertRows, Throw, SameStation, Good, Typed
<1>3. CASE s.err = "ok" /\ ~BreaksConstraint(s)
  <2>1. \E N, I : InsertRows(s) = [s EXCEPT !.rows = N, !.last.ids = I]
    BY <1>3 DEF InsertRows
  <2>2. PICK N, I : InsertRows(s) = [s EXCEPT !.rows = N, !.last.ids = I]
    BY <2>1
  <2> QED
    BY <1>1, <2>2 DEF SameStation, Good, Typed, CachedStation
<1> QED
  BY <1>2, <1>3

LEMMA UpdateRowsSame ==
    ASSUME NEW s, Good(s), s.last \in CachedStation
    PROVE  SameStation(s, UpdateRows(s))
<1>1. UpdateRows(s).last \in CachedStation
  BY UpdateRowsGood
<1>2. CASE s.err # "ok"
  BY <1>2 DEF UpdateRows, SameStation
<1>3. CASE s.err = "ok"
  <2>1. \E N : UpdateRows(s) = [s EXCEPT !.rows = N, !.last.queue = {}]
    BY <1>3 DEF UpdateRows
  <2>2. PICK N : UpdateRows(s) = [s EXCEPT !.rows = N, !.last.queue = {}]
    BY <2>1
  <2> QED
    BY <1>1, <2>2 DEF SameStation, Good, Typed, CachedStation
<1> QED
  BY <1>2, <1>3

\* write_pending is sound, whether it ends normally or not.
LEMMA WritePendingSound ==
    ASSUME NEW s, Sound(s)
    PROVE  Sound(WritePending(s))
<1>1. CASE s.err # "ok" \/ s.last = NoStation
  BY <1>1 DEF WritePending
<1>2. CASE s.err = "ok" /\ s.last # NoStation
  <2> DEFINE s1 == InsertStation(s)
             s2 == InsertRows(s1)
  <2>1. WritePending(s) = UpdateRows(s2)
    BY <1>2 DEF WritePending
  <2>2. s.last \in CachedStation
    BY <1>2 DEF Sound, Good, Typed
  <2>3. Sound(s1) /\ s1.last \in CachedStation
        /\ (s1.err = "ok" => s1.last.id \in RowIds)
    BY <2>2, InsertStationGood, InsertStationSound DEF Sound
  <2> HIDE DEF s1
  <2>4. Sound(s2) /\ s2.last \in CachedStation
    BY <2>3, InsertRowsGood, InsertRowsSame, SameStationSound DEF Sound
  <2> HIDE DEF s2
  <2> QED
    BY <2>1, <2>4, UpdateRowsGood, UpdateRowsSame, SameStationSound DEF Sound
<1> QED
  BY <1>1, <1>2

----------------------------------------------------------------------------
(* The station cache                                                       *)

\* A station just cached is not known to be absent from the table: only the
\* lookup that follows tells.
LEMMA NewStationSound ==
    ASSUME NEW s, Sound(s), NEW key \in Stations
    PROVE  LET t == NewStation(s, key) IN
           /\ Live(t) /\ UniqueKeys(t.station)
           /\ t.err # "ok" => Sound(t)
<1> DEFINE s1 == WritePending(s)
           t == [s1 EXCEPT !.last = Fresh(key)]
<1>1. Sound(s1)
  BY WritePendingSound
<1>2. NewStation(s, key) = IF s1.err # "ok" THEN s1 ELSE t
  BY DEF NewStation, CacheStation
<1>3. Live(NewStation(s, key))
  BY NewStationGood DEF Sound
<1> HIDE DEF s1
<1>4. t.station = s1.station /\ t.err = s1.err
  BY <1>1 DEF Sound, Good, Typed
<1> HIDE DEF t
<1> QED
  BY <1>1, <1>2, <1>3, <1>4 DEF Sound

\* An id is set only from a row of the table.
LEMMA SetStationIdSound ==
    ASSUME NEW s, Live(s), UniqueKeys(s.station), s.err # "ok" => Sound(s),
           NEW id, s.err = "ok" => id \in RowIds
    PROVE  Sound(SetStationId(s, id))
<1> DEFINE t == [s EXCEPT !.last.id = id, !.last.isNew = FALSE]
<1>1. CASE s.err # "ok"
  BY <1>1 DEF SetStationId
<1>2. CASE s.err = "ok"
  <2>1. Good(t)
    BY <1>2, SetStationIdLive DEF SetStationId, Live
  <2>2. t.station = s.station /\ t.last.id = id
    BY <1>2 DEF Live, Good, Typed, CachedStation
  <2>3. id # MissingId
    BY <1>2 DEF RowIds, MissingId
  <2> HIDE DEF t
  <2>4. Sound(t)
    BY <2>1, <2>2, <2>3 DEF Sound, KnowsStation
  <2> QED
    BY <1>2, <2>4 DEF t, SetStationId
<1> QED
  BY <1>1, <1>2

\* After the lookup the cached station is known again, found or not.
LEMMA FindStationSound ==
    ASSUME NEW s, Live(s), UniqueKeys(s.station), s.err # "ok" => Sound(s),
           NEW canAdd \in BOOLEAN
    PROVE  Sound(FindStation(s, canAdd))
<1> DEFINE found == LookupStation(s, s.last.key)
           id == (CHOOSE r \in found : TRUE).id
           t1 == [s EXCEPT !.last.loaded = {StationCtx}]
<1>1. CASE s.err # "ok"
  BY <1>1 DEF FindStation
<1>2. CASE s.err = "ok"
  <2>1. ~ (\E a, b \in found : a # b)
    BY DEF LookupStation, UniqueKeys
  <2>2. FindStation(s, canAdd) =
            IF found = {} THEN IF canAdd THEN t1 ELSE Throw(s, "notfound")
            ELSE SetStationId(s, id)
    BY <1>2, <2>1 DEF FindStation
  <2>3. ASSUME found = {}
        PROVE  Sound(Throw(s, "notfound")) /\ Sound(t1)
    <3>1. \A r \in s.station : r.key # s.last.key
      BY <2>3 DEF LookupStation
    <3>2. Sound(s)
      BY <3>1 DEF Sound, KnowsStation, Live
    <3>3. Sound(t1)
      <4>1. Good(s) /\ s.last \in CachedStation
        BY <1>2 DEF Live
      <4>2. /\ Live(t1) /\ t1.station = s.station
            /\ t1.last.id = s.last.id /\ t1.last.key = s.last.key
        BY <4>1, NoRowLive
      <4>3. t1.last \in CachedStation
        <5>1. t1.err = "ok"
          BY <1>2, <4>1 DEF Good, Typed
        <5> QED
          BY <4>2, <5>1 DEF Live
      <4> HIDE DEF t1
      <4> QED
        BY <3>2, <4>1, <4>2, <4>3, SameStationSound DEF SameStation, Live
    <3>4. "notfound" \in Outcomes
      BY DEF Outcomes
    <3> QED
      BY <3>2, <3>3, <3>4, ThrowSound
  <2>4. ASSUME found # {}
        PROVE  Sound(SetStationId(s, id))
    <3>1. (CHOOSE r \in found : TRUE) \in StationRow
      BY <2>4 DEF LookupStation, Live, Good, Typed
    <3>2. id \in RowIds
      BY <3>1 DEF StationRow
    <3> HIDE DEF id
    <3> QED
      BY <3>2, SetStationIdSound
  <2> HIDE DEF found, t1, id
  <2> QED
    BY <2>2, <2>3, <2>4
<1> QED
  BY <1>1, <1>2

LEMMA GetStationByKeySound ==
    ASSUME NEW s, Sound(s), NEW key \in Stations, NEW canAdd \in BOOLEAN
    PROVE  Sound(GetStationByKey(s, key, canAdd))
<1> DEFINE s1 == NewStation(s, key)
<1>1. /\ Live(s1) /\ UniqueKeys(s1.station)
      /\ s1.err # "ok" => Sound(s1)
  BY NewStationSound
<1>2. GetStationByKey(s, key, canAdd) =
          IF HaveStation(s, key) THEN s ELSE FindStation(s1, canAdd)
  BY DEF GetStationByKey
<1> HIDE DEF s1
<1> QED
  BY <1>1, <1>2, FindStationSound

LEMMA GetStationByIdSound ==
    ASSUME NEW s, Sound(s), NEW id \in RowIds \cup {MissingId}
    PROVE  Sound(GetStationById(s, id))
<1> DEFINE found == {r \in s.station : r.id = id}
           key == (CHOOSE r \in found : TRUE).key
           s1 == NewStation(s, key)
<1>1. Sound(Throw(s, "usage")) /\ Sound(Throw(s, "notfound"))
  BY ThrowSound DEF Outcomes
<1>2. CASE id = MissingId
  BY <1>1, <1>2 DEF GetStationById
<1>3. CASE s.last # NoStation /\ s.last.id = id /\ id # MissingId
  BY <1>3 DEF GetStationById
<1>4. CASE ~ (s.last # NoStation /\ s.last.id = id) /\ id # MissingId
  <2>1. CASE found = {}
    BY <1>1, <1>4, <2>1 DEF GetStationById
  <2>2. CASE found # {}
    <3>1. GetStationById(s, id) = SetStationId(s1, id)
      BY <1>4, <2>2 DEF GetStationById
    <3>2. key \in Stations
      <4>1. (CHOOSE r \in found : TRUE) \in StationRow
        BY <2>2 DEF Sound, Good, Typed
      <4> QED
        BY <4>1 DEF StationRow
    <3> HIDE DEF key
    <3>3. /\ Live(s1) /\ UniqueKeys(s1.station)
          /\ s1.err # "ok" => Sound(s1)
      BY <3>2, NewStationSound
    <3> HIDE DEF s1
    <3> QED
      BY <1>4, <3>1, <3>3, SetStationIdSound
  <2> QED
    BY <2>1, <2>2
<1> QED
  BY <1>2, <1>3, <1>4

\* Whoever asks for a station, and however, the station table stays sound.
LEMMA GetStationSound ==
    ASSUME NEW s, Sound(s), NEW key \in Stations \cup {NoKey},
           NEW id \in RowIds \cup {MissingId}, NEW canAdd \in BOOLEAN
    PROVE  Live(GetStation(s, key, id, canAdd))
           /\ Sound(GetStation(s, key, id, canAdd))
BY GetStationGood, GetStationByKeySound, GetStationByIdSound DEF GetStation, Sound

----------------------------------------------------------------------------
(* The data cache                                                          *)

LEMMA LoadSound ==
    ASSUME NEW s, Sound(s), Live(s), NEW ctx, s.err = "ok" => ctx \in Contexts
    PROVE  Sound(Load(s, ctx)) /\ Live(Load(s, ctx))
<1>1. Live(Load(s, ctx)) /\ Load(s, ctx).err = s.err
  BY LoadLive
<1>2. CASE s.err # "ok" \/ ctx \in s.last.loaded
  BY <1>2, <1>1 DEF Load
<1>3. CASE s.err = "ok" /\ ctx \notin s.last.loaded
  <2>1. \E D, I : Load(s, ctx) = [s EXCEPT !.last.loaded = D, !.last.ids = I]
    BY <1>3 DEF Load
  <2>2. PICK D, I : Load(s, ctx) = [s EXCEPT !.last.loaded = D, !.last.ids = I]
    BY <2>1
  <2>3. Load(s, ctx).last \in CachedStation /\ s.last \in CachedStation
    BY <1>1, <1>3 DEF Live
  <2>4. SameStation(s, Load(s, ctx))
    BY <2>2, <2>3 DEF SameStation, Sound, Good, Typed, CachedStation
  <2> QED
    BY <1>1, <2>4, SameStationSound DEF Live
<1> QED
  BY <1>2, <1>3

LEMMA AddSound ==
    ASSUME NEW s, Sound(s), Live(s), NEW ctx, s.err = "ok" => ctx \in Contexts,
           NEW V, s.err = "ok" => V \in SUBSET Item /\ IsFiniteSet(V), NEW mode
    PROVE  Sound(Add(s, ctx, V, mode)) /\ Live(Add(s, ctx, V, mode))
<1> DEFINE t == Add(s, ctx, V, mode)
<1>1. Live(t)
  BY AddLive
<1>2. CASE s.err # "ok"
  BY <1>2, <1>1 DEF Add
<1>3. CASE s.err = "ok"
  <2>1. \E Q, E : t = [s EXCEPT !.last.queue = Q, !.err = E]
    BY <1>3 DEF Add
  <2>2. PICK Q, E : t = [s EXCEPT !.last.queue = Q, !.err = E]
    BY <2>1
  <2> HIDE DEF t
  <2>3. t.last \in CachedStation
    BY <1>3, AddGood DEF Live, t
  <2>4. SameStation(s, t)
    BY <1>3, <2>2, <2>3 DEF SameStation, Live, Good, Typed, CachedStation
  <2> QED
    BY <1>1, <2>4, SameStationSound DEF Live, t
<1> QED
  BY <1>2, <1>3

LEMMA ObtainLevTrsSound ==
    ASSUME NEW s, Sound(s), Live(s), NEW L \in SUBSET LevTrs, IsFiniteSet(L)
    PROVE  LET t == ObtainLevTrs(s, L) IN
           /\ Sound(t) /\ Live(t) /\ t.err = s.err
           /\ t.err = "ok" => \A l \in L : \E c \in t.cache : c.lt = l
<1> DEFINE t == ObtainLevTrs(s, L)
<1>1. /\ Live(t) /\ t.err = s.err
      /\ t.err = "ok" => \A l \in L : \E c \in t.cache : c.lt = l
  BY ObtainLevTrsLive
<1>2. t.station = s.station /\ t.last = s.last
  BY DEF ObtainLevTrs, Sound, Good, Typed
<1> HIDE DEF t
<1>3. Sound(t)
  BY <1>1, <1>2 DEF Sound, KnowsStation, Live
<1> QED
  BY <1>1, <1>3 DEF t

LEMMA AddAtLevTrSound ==
    ASSUME NEW s, Sound(s), Live(s), NEW ctx, s.err = "ok" => ctx \in Contexts,
           NEW V, IsFiniteSet(V),
           V \subseteq [lt : LevTrs, code : Codes, val : Vals, attr : BOOLEAN],
           s.err = "ok" => \A v \in V : \E c \in s.cache : c.lt = v.lt,
           NEW mode
    PROVE  Sound(AddAtLevTr(s, ctx, V, mode)) /\ Live(AddAtLevTr(s, ctx, V, mode))
<1>1. s.err = "ok" =>
          WithLevTr(s, V) \in SUBSET Item /\ IsFiniteSet(WithLevTr(s, V))
  BY WithLevTrType DEF Live
<1> QED
  BY <1>1, AddSound DEF AddAtLevTr

----------------------------------------------------------------------------
(* The state of a transaction                                              *)

\* The inductive invariant behind TypeOK and UniqueStations. The tables and
\* the queue are also finite, without which the id of a new row would not be
\* defined; a station cached without an id has no row; and the tables that a
\* rollback brings back are as good as those it replaces.
Inv == /\ TypeOK
       /\ Sound(Here)
       /\ IsFiniteSet(saved.station) /\ IsFiniteSet(saved.levtr)
       /\ IsFiniteSet(saved.rows)
       /\ UniqueKeys(saved.station)

\* The arguments of the calls are of these types.
MessageType(m) ==
    /\ m.key \in Stations \cup {NoKey}
    /\ m.dt \in Datetimes \cup {NoDatetime}
    /\ m.svars \subseteq Var /\ IsFiniteSet(m.svars)
    /\ m.data \subseteq [lt : LevTrs, code : Codes, val : Vals, attr : BOOLEAN]
    /\ IsFiniteSet(m.data)
    /\ \A a, b \in m.svars : a.code = b.code => a = b
    /\ \A a, b \in m.data : a.lt = b.lt /\ a.code = b.code => a = b

----------------------------------------------------------------------------
(* Each call keeps the record of module Batch sound                        *)

\* The part that inserts and imports of station values share.
LEMMA AddStationVarsSound ==
    ASSUME NEW s, Sound(s), Live(s), NEW V \in SUBSET Var, IsFiniteSet(V), NEW mode
    PROVE  Sound(AddStationVars(s, V, mode)) /\ Live(AddStationVars(s, V, mode))
<1>1. AtLevTr(MissingId, V) \in SUBSET Item /\ IsFiniteSet(AtLevTr(MissingId, V))
  BY AtLevTrType DEF Item
<1>2. Sound(Load(s, StationCtx)) /\ Live(Load(s, StationCtx))
  BY LoadSound DEF Contexts
<1> QED
  BY <1>1, <1>2, AddSound DEF AddStationVars, Contexts

\* insert_station_data, whatever it is given and however it ends.
LEMMA InsertStationDataSound ==
    ASSUME NEW s, Sound(s), NEW key \in Stations \cup {NoKey},
           NEW id \in RowIds \cup {MissingId},
           NEW V \in SUBSET Var, IsFiniteSet(V),
           NEW canReplace \in BOOLEAN, NEW canAdd \in BOOLEAN
    PROVE  Sound(InsertStationDataCall(s, key, id, V, canReplace, canAdd))
BY GetStationSound, AddStationVarsSound, WritePendingSound
   DEF InsertStationDataCall

\* The part of insert_data after the station has been found.
LEMMA InsertAtSound ==
    ASSUME NEW s, Sound(s), Live(s), NEW dt \in Datetimes \cup {NoDatetime},
           NEW lt \in LevTrs \cup {NoLevTr},
           NEW V \in SUBSET Var, IsFiniteSet(V), NEW mode
    PROVE  Sound(InsertAt(s, dt, lt, V, mode))
<1> DEFINE s1 == Load(s, dt)
           s2 == ObtainLevTrs(s1, {lt})
           s3 == AddAtLevTr(s2, dt, AtLevTr(lt, V), mode)
<1>1. "usage" \in Outcomes
  BY DEF Outcomes
<1>2. CASE dt = NoDatetime
  BY <1>1, <1>2, ThrowSound DEF InsertAt
<1>3. CASE dt # NoDatetime
  <2>1. dt \in Contexts
    BY <1>3 DEF Contexts
  <2>2. InsertAt(s, dt, lt, V, mode) =
            IF lt = NoLevTr THEN Throw(s1, "usage") ELSE WritePending(s3)
    BY <1>3 DEF InsertAt
  <2>3. Sound(s1) /\ Live(s1)
    BY <2>1, LoadSound
  <2> HIDE DEF s1
  <2>4. CASE lt = NoLevTr
    BY <1>1, <2>2, <2>3, <2>4, ThrowSound
  <2>5. CASE lt # NoLevTr
    <3>1. IsFiniteSet({lt}) /\ {lt} \in SUBSET LevTrs
      BY <2>5, FS_Singleton
    <3>2. /\ Sound(s2) /\ Live(s2)
          /\ s2.err = "ok" => \A l \in {lt} : \E c \in s2.cache : c.lt = l
      BY <2>3, <3>1, ObtainLevTrsSound
    <3> HIDE DEF s2
    <3>3. AtLevTr(lt, V) \subseteq
               [lt : {lt}, code : Codes, val : Vals, attr : BOOLEAN]
          /\ IsFiniteSet(AtLevTr(lt, V))
      BY AtLevTrType
    <3>4. AtLevTr(lt, V) \subseteq
               [lt : LevTrs, code : Codes, val : Vals, attr : BOOLEAN]
      BY <3>1, <3>3
    <3>5. s2.err = "ok" =>
              \A v \in AtLevTr(lt, V) : \E c \in s2.cache : c.lt = v.lt
      BY <3>2, <3>3
    <3>6. Sound(s3)
      BY <2>1, <3>2, <3>3, <3>4, <3>5, AddAtLevTrSound
    <3> HIDE DEF s3
    <3> QED
      BY <2>2, <2>5, <3>6, WritePendingSound
  <2> QED
    BY <2>4, <2>5
<1> QED
  BY <1>2, <1>3

\* insert_data, whatever it is given and however it ends.
LEMMA InsertDataSound ==
    ASSUME NEW s, Sound(s), NEW key \in Stations \cup {NoKey},
           NEW id \in RowIds \cup {MissingId},
           NEW dt \in Datetimes \cup {NoDatetime},
           NEW lt \in LevTrs \cup {NoLevTr},
           NEW V \in SUBSET Var, IsFiniteSet(V),
           NEW canReplace \in BOOLEAN, NEW canAdd \in BOOLEAN
    PROVE  Sound(InsertDataCall(s, key, id, dt, lt, V, canReplace, canAdd))
<1>1. "empty" \in Outcomes
  BY DEF Outcomes
<1> QED
  BY <1>1, ThrowSound, GetStationSound, InsertAtSound DEF InsertDataCall

\* What add_msg_to_batch queues for the station of a message.
LEMMA AddMsgStationSound ==
    ASSUME NEW s, Sound(s), Live(s), NEW m, MessageType(m), NEW o
    PROVE  Sound(AddMsgStation(s, m, o)) /\ Live(AddMsgStation(s, m, o))
BY AddStationVarsSound DEF AddMsgStation, MessageType

\* What it queues for the measured values.
LEMMA AddMsgDataSound ==
    ASSUME NEW s, Sound(s), Live(s), NEW m, MessageType(m), NEW o
    PROVE  Sound(AddMsgData(s, m, o))
<1> DEFINE L == {d.lt : d \in m.data}
           s0 == Load(s, m.dt)
           s1 == ObtainLevTrs(s0, L)
           s2 == AddAtLevTr(s1, m.dt, m.data, ImportMode(o))
           f == [d \in m.data |-> d.lt]
<1>1. AddMsgData(s, m, o) =
          IF m.data = {} THEN s
          ELSE IF m.dt = NoDatetime THEN Throw(s, "notfound") ELSE s2
  BY DEF AddMsgData
<1>2. L \in SUBSET LevTrs
  BY DEF MessageType
<1>3. IsFiniteSet(L)
  <2>1. DOMAIN f = m.data /\ L = {f[d] : d \in m.data}
    OBVIOUS
  <2>2. IsFiniteSet(m.data)
    BY DEF MessageType
  <2> HIDE DEF f, L
  <2> QED
    BY <2>1, <2>2, ImageFinite
<1>4. \A d \in m.data : d.lt \in L
  OBVIOUS
<1> HIDE DEF L
<1>5. Sound(Throw(s, "notfound"))
  BY ThrowSound DEF Outcomes
<1>6. ASSUME m.dt # NoDatetime
      PROVE  Sound(s2)
  <2>1. m.dt \in Contexts
    BY <1>6 DEF MessageType, Contexts
  <2>2. Sound(s0) /\ Live(s0)
    BY <2>1, LoadSound
  <2> HIDE DEF s0
  <2>3. /\ Sound(s1) /\ Live(s1)
        /\ s1.err = "ok" => \A l \in L : \E c \in s1.cache : c.lt = l
    BY <1>2, <1>3, <2>2, ObtainLevTrsSound
  <2> HIDE DEF s1
  <2> QED
    BY <1>4, <2>1, <2>3, AddAtLevTrSound DEF MessageType
<1> HIDE DEF s2
<1> QED
  BY <1>1, <1>5, <1>6

\* add_msg_to_batch, whatever the message and however it ends.
LEMMA AddMsgToBatchSound ==
    ASSUME NEW s, Sound(s), NEW m, MessageType(m), NEW o
    PROVE  Sound(AddMsgToBatch(s, m, o))
<1>1. CASE m.key = NoKey
  BY <1>1, ThrowSound DEF AddMsgToBatch, Outcomes
<1>2. CASE m.key # NoKey
  <2> DEFINE s1 == GetStation(s, m.key, MissingId, TRUE)
             s2 == AddMsgStation(s1, m, o)
  <2>1. AddMsgToBatch(s, m, o) = AddMsgData(s2, m, o)
    BY <1>2 DEF AddMsgToBatch
  <2>2. Sound(s1) /\ Live(s1)
    BY GetStationSound DEF MessageType
  <2> HIDE DEF s1
  <2>3. Sound(s2) /\ Live(s2)
    BY <2>2, AddMsgStationSound
  <2> HIDE DEF s2
  <2> QED
    BY <2>1, <2>3, AddMsgDataSound
<1> QED
  BY <1>1, <1>2

\* set_write_attrs may forget the cached station, and no more.
LEMMA SetWriteAttrsSound ==
    ASSUME NEW s, Sound(s), NEW b \in BOOLEAN
    PROVE  Sound(SetWriteAttrs(s, b))
<1> DEFINE t == SetWriteAttrs(s, b)
<1>1. /\ t.station = s.station /\ t.levtr = s.levtr /\ t.rows = s.rows
      /\ t.cache = s.cache /\ t.err = s.err /\ t.attrs = b
      /\ t.last = s.last \/ t.last = NoStation
  BY DEF SetWriteAttrs, Sound, Good, Typed
<1>2. Typed(t)
  BY <1>1 DEF SetWriteAttrs, Sound, Good, Typed
<1> HIDE DEF t
<1>3. Sound(t)
  BY <1>1, <1>2, NoStationAssumption DEF Sound, Good, Finite, KnowsStation
<1> QED
  BY <1>3 DEF t

\* import_message, whatever the message and however it ends.
LEMMA ImportMessageSound ==
    ASSUME NEW s, Sound(s), NEW m, MessageType(m), NEW o \in ImportOptions
    PROVE  Sound(ImportMessageCall(s, m, o))
<1>1. Sound(SetWriteAttrs(s, o.importAttributes))
  BY SetWriteAttrsSound DEF ImportOptions
<1> QED
  BY <1>1, AddMsgToBatchSound, WritePendingSound DEF ImportMessageCall

\* import_messages, likewise.
LEMMA ImportMessagesSound ==
    ASSUME NEW s, Sound(s), NEW m1, MessageType(m1), NEW m2, MessageType(m2),
           NEW o \in ImportOptions
    PROVE  Sound(ImportMessagesCall(s, m1, m2, o))
<1>1. Sound(SetWriteAttrs(s, o.importAttributes))
  BY SetWriteAttrsSound DEF ImportOptions
<1> QED
  BY <1>1, AddMsgToBatchSound, WritePendingSound DEF ImportMessagesCall

----------------------------------------------------------------------------
(* Each action keeps the invariant                                         *)

\* What a call that throws leaves in the queue has lost its values only.
LEMMA AbandonType ==
    ASSUME NEW L \in CachedStation \cup {NoStation},
           L \in CachedStation => IsFiniteSet(L.queue)
    PROVE  /\ Abandon(L) \in CachedStation \cup {NoStation}
           /\ L = NoStation => Abandon(L) = NoStation
           /\ L \in CachedStation =>
                 /\ Abandon(L) \in CachedStation
                 /\ Abandon(L).id = L.id /\ Abandon(L).key = L.key
                 /\ IsFiniteSet(Abandon(L).queue)
<1>1. CASE L = NoStation
  BY <1>1, NoStationAssumption DEF Abandon
<1>2. CASE L # NoStation
  <2> DEFINE Q == {[q EXCEPT !.val = Garbage] : q \in L.queue}
             f == [q \in L.queue |-> [q EXCEPT !.val = Garbage]]
  <2>1. L \in CachedStation
    BY <1>2
  <2>2. Q \in SUBSET Datum
    BY <2>1 DEF CachedStation, Datum
  <2>3. IsFiniteSet(Q)
    <3>1. DOMAIN f = L.queue /\ Q = {f[q] : q \in L.queue}
      OBVIOUS
    <3> HIDE DEF f, Q
    <3> QED
      BY <2>1, <3>1, ImageFinite
  <2>4. Abandon(L) = [L EXCEPT !.queue = Q]
    BY <1>2 DEF Abandon
  <2> HIDE DEF Q
  <2> QED
    BY <1>2, <2>1, <2>2, <2>3, <2>4 DEF CachedStation
<1> QED
  BY <1>1, <1>2

\* A call that computes a sound record keeps the invariant.
LEMMA CallInv ==
    ASSUME Inv, NEW s, Sound(s), Call(s)
    PROVE  Inv'
<1> DEFINE t == [station |-> s.station, levtr |-> s.levtr, rows |-> s.rows,
                 last |-> last', cache |-> s.cache, attrs |-> s.attrs,
                 err |-> "ok"]
<1>1. /\ station' = s.station /\ levtr' = s.levtr /\ rows' = s.rows
      /\ cache' = s.cache /\ wattrs' = s.attrs /\ res' = s.err
      /\ last' = s.last \/ last' = Abandon(s.last)
      /\ fired' = fired /\ saved' = saved /\ begun' = begun
  BY DEF Call, Return
<1>2. Typed(s) /\ Finite(s) /\ UniqueKeys(s.station) /\ KnowsStation(s)
  BY DEF Sound, Good
<1>3. s.last \in CachedStation \cup {NoStation}
      /\ (s.last \in CachedStation => IsFiniteSet(s.last.queue))
  BY <1>2 DEF Typed, Finite
<1>4. /\ last' \in CachedStation \cup {NoStation}
      /\ last' \in CachedStation =>
            /\ s.last \in CachedStation
            /\ last'.id = s.last.id /\ last'.key = s.last.key
            /\ IsFiniteSet(last'.queue)
  BY <1>1, <1>3, AbandonType, NoStationAssumption
<1>5. TypeOK'
  BY <1>1, <1>2, <1>4 DEF TypeOK, Typed, Inv
<1>6. Typed(t)
  BY <1>2, <1>4 DEF Typed, Outcomes
<1>7. Finite(t)
  BY <1>2, <1>4 DEF Finite
<1>8. UniqueKeys(t.station) /\ KnowsStation(t)
  BY <1>2, <1>4 DEF KnowsStation
<1>9. Sound(t)
  BY <1>6, <1>7, <1>8 DEF Sound, Good
<1>10. Here' = t
  BY <1>1 DEF Here
<1>11. Sound(Here)'
  BY <1>9, <1>10 DEF Sound, Good, Typed, Finite, UniqueKeys, KnowsStation
<1> QED
  BY <1>1, <1>5, <1>11 DEF Inv

\* An action that leaves sound tables, and forgets or keeps the cached station,
\* keeps the invariant.
LEMMA TablesInv ==
    ASSUME Inv, TypeOK',
           UniqueKeys(station'), UniqueKeys(saved'.station),
           IsFiniteSet(station'), IsFiniteSet(levtr'), IsFiniteSet(rows'),
           IsFiniteSet(saved'.station), IsFiniteSet(saved'.levtr),
           IsFiniteSet(saved'.rows),
           last' = NoStation \/ (last' = last /\ station' \subseteq station)
    PROVE  Inv'
<1> DEFINE t == [station |-> station', levtr |-> levtr', rows |-> rows',
                 last |-> last', cache |-> cache', attrs |-> wattrs',
                 err |-> "ok"]
<1>1. Typed(t)
  BY DEF TypeOK, Typed, Outcomes
<1>2. last' \in CachedStation =>
          /\ last' = last /\ station' \subseteq station
          /\ IsFiniteSet(last.queue)
  BY NoStationAssumption DEF Inv, Sound, Good, Finite, Here
<1>3. Finite(t)
  BY <1>2 DEF Finite
<1>4. KnowsStation(t)
  BY <1>2 DEF Inv, Sound, KnowsStation, Here
<1>5. Sound(t)
  BY <1>1, <1>3, <1>4 DEF Sound, Good
<1>6. Here' = t
  BY DEF Here
<1>7. Sound(Here)'
  BY <1>5, <1>6 DEF Sound, Good, Typed, Finite, UniqueKeys, KnowsStation
<1> QED
  BY <1>7 DEF Inv

\* The tables of the invariant, seen without the record of module Batch.
LEMMA InvTables ==
    ASSUME Inv
    PROVE  /\ TypeOK /\ UniqueKeys(station) /\ UniqueKeys(saved.station)
           /\ IsFiniteSet(station) /\ IsFiniteSet(levtr) /\ IsFiniteSet(rows)
           /\ IsFiniteSet(saved.station) /\ IsFiniteSet(saved.levtr)
           /\ IsFiniteSet(saved.rows)
BY DEF Inv, Sound, Good, Finite, Here

\* Deleting rows by query or by id.
LEMMA DeleteInv ==
    ASSUME Inv, NEW D, DeleteRows(D)
    PROVE  Inv'
<1>1. rows' \in SUBSET rows
  BY DEF DeleteRows
<1>2. IsFiniteSet(rows')
  BY <1>1, InvTables, FS_Subset
<1>3. TypeOK'
  BY <1>1, InvTables DEF DeleteRows, TypeOK, Outcomes
<1> QED
  BY <1>2, <1>3, InvTables, TablesInv DEF DeleteRows

\* Changing the attributes of a row.
LEMMA SetAttrsInv ==
    ASSUME Inv, NEW ofStation, NEW id,
           NEW b \in BOOLEAN, SetAttrs(ofStation, id, b)
    PROVE  Inv'
<1> DEFINE new(r) == IF r.id = id /\ (r.ctx = StationCtx) = ofStation
                     THEN [r EXCEPT !.attr = b] ELSE r
           f == [r \in rows |-> new(r)]
<1>1. rows' = {new(r) : r \in rows}
  BY DEF SetAttrs
<1>2. \A r \in rows : new(r) \in DataRow
  BY InvTables DEF TypeOK, DataRow
<1>3. IsFiniteSet(rows')
  <2>1. DOMAIN f = rows /\ rows' = {f[r] : r \in rows}
    BY <1>1
  <2> HIDE DEF f
  <2> QED
    BY <2>1, InvTables, ImageFinite
<1>4. TypeOK'
  <2>1. rows' \subseteq DataRow
    BY <1>1, <1>2
  <2> QED
    BY <2>1, InvTables DEF SetAttrs, TypeOK, Outcomes
<1> QED
  BY <1>3, <1>4, InvTables, TablesInv DEF SetAttrs

LEMMA VacuumInv ==
    ASSUME Inv, Vacuum
    PROVE  Inv'
<1>1. /\ station' \in SUBSET station /\ levtr' \in SUBSET levtr
      /\ rows' \in SUBSET rows
  BY DEF Vacuum
<1>2. /\ saved' = [station |-> station', levtr |-> levtr', rows |-> rows']
      /\ res' = "ok"
      /\ last' = last /\ wattrs' = wattrs /\ cache' = cache
      /\ fired' = fired /\ begun' = begun
  BY DEF Vacuum
<1>3. IsFiniteSet(station') /\ IsFiniteSet(levtr') /\ IsFiniteSet(rows')
  BY <1>1, InvTables, FS_Subset
<1>4. TypeOK'
  BY <1>1, <1>2, InvTables DEF TypeOK, Outcomes
<1>5. UniqueKeys(station')
  BY <1>1, InvTables DEF UniqueKeys
<1> QED
  BY <1>1, <1>2, <1>3, <1>4, <1>5, TablesInv, InvTables

\* The database is empty when it is made.
LEMMA InitInv == Init => Inv
<1> SUFFICES ASSUME Init PROVE Inv
  OBVIOUS
<1>1. TypeOK
  BY DEF Init, TypeOK, Outcomes
<1>2. Typed(Here)
  BY DEF Init, Here, Typed, Outcomes
<1>3. Sound(Here)
  BY <1>2, NoStationAssumption, FS_EmptySet
     DEF Init, Here, Sound, Good, Finite, UniqueKeys, KnowsStation
<1> QED
  BY <1>1, <1>3, FS_EmptySet DEF Inv, Init, UniqueKeys

\* Every step keeps the invariant.
LEMMA NextInv == Inv /\ [Next]_vars => Inv'
<1> SUFFICES ASSUME Inv, [Next]_vars PROVE Inv'
  OBVIOUS
<1>0. Sound(Here)
  BY DEF Inv
<1>1. ASSUME NEW ref \in StationRef, NEW V \in StationVarSets,
             NEW cr \in BOOLEAN, NEW ca \in BOOLEAN,
             InsertStationData(ref[1], ref[2], V, cr, ca)
      PROVE  Inv'
  <2>1. ref[1] \in Stations \cup {NoKey} /\ ref[2] \in RowIds \cup {MissingId}
    BY MaxIdAssumption DEF StationRef, Ids, RowIds, MissingId
  <2>2. V \in SUBSET Var /\ IsFiniteSet(V)
    BY VarSetsAssumption
  <2>3. Sound(InsertStationDataCall(Here, ref[1], ref[2], V, cr, ca))
    BY <1>0, <2>1, <2>2, InsertStationDataSound
  <2> QED
    BY <1>1, <2>3, CallInv DEF InsertStationData
<1>2. ASSUME NEW ref \in StationRef, NEW V \in VarSets,
             NEW cr \in BOOLEAN, NEW ca \in BOOLEAN,
             NEW dt \in Datetimes \cup {NoDatetime},
             NEW lt \in LevTrs \cup {NoLevTr},
             InsertData(ref[1], ref[2], dt, lt, V, cr, ca)
      PROVE  Inv'
  <2>1. ref[1] \in Stations \cup {NoKey} /\ ref[2] \in RowIds \cup {MissingId}
    BY MaxIdAssumption DEF StationRef, Ids, RowIds, MissingId
  <2>2. V \in SUBSET Var /\ IsFiniteSet(V)
    BY VarSetsAssumption
  <2>3. Sound(InsertDataCall(Here, ref[1], ref[2], dt, lt, V, cr, ca))
    BY <1>0, <2>1, <2>2, InsertDataSound
  <2> QED
    BY <1>2, <2>3, CallInv DEF InsertData
<1>3. ASSUME NEW m \in Messages, NEW o \in ImportOptions, ImportMessage(m, o)
      PROVE  Inv'
  <2>1. MessageType(m)
    BY MessagesAssumption DEF MessageType
  <2>2. Sound(ImportMessageCall(Here, m, o))
    BY <1>0, <2>1, ImportMessageSound
  <2> QED
    BY <1>3, <2>2, CallInv DEF ImportMessage
<1>4. ASSUME NEW m \in Messages, NEW o \in ImportOptions,
             NEW m2 \in Messages, ImportMessages(m, m2, o)
      PROVE  Inv'
  <2>1. MessageType(m) /\ MessageType(m2)
    BY MessagesAssumption DEF MessageType
  <2>2. Sound(ImportMessagesCall(Here, m, m2, o))
    BY <1>0, <2>1, ImportMessagesSound
  <2> QED
    BY <1>4, <2>2, CallInv DEF ImportMessages
<1>5. ASSUME NEW q \in Queries, RemoveStationData(q) \/ RemoveData(q)
      PROVE  Inv'
  BY <1>5, DeleteInv DEF RemoveStationData, RemoveData
<1>6. ASSUME NEW id \in Ids, RemoveStationDataById(id) \/ RemoveDataById(id)
      PROVE  Inv'
  BY <1>6, DeleteInv DEF RemoveStationDataById, RemoveDataById
<1>7. ASSUME NEW id \in AttrTargets, NEW b \in BOOLEAN,
             AttrInsert(b, id) \/ AttrRemove(b, id)
      PROVE  Inv'
  BY <1>7, SetAttrsInv DEF AttrInsert, AttrRemove
<1>8. CASE RemoveAll
  <2>1. TypeOK'
    BY <1>8, InvTables DEF RemoveAll, TypeOK, Outcomes
  <2> QED
    BY <1>8, <2>1, InvTables, TablesInv, FS_EmptySet DEF RemoveAll, UniqueKeys
<1>9. CASE Begin
  <2>1. TypeOK'
    <3>1. begun' \in Nat
      BY <1>9, InvTables DEF Begin, TypeOK
    <3>2. saved' = [station |-> station, levtr |-> levtr, rows |-> rows]
      BY <1>9 DEF Begin, Tables
    <3>3. saved' \in [station : SUBSET StationRow, levtr : SUBSET LevTrRow,
                      rows : SUBSET DataRow]
      BY <3>2, InvTables DEF TypeOK
    <3>4. /\ fired' = FALSE /\ wattrs' = TRUE /\ res' = "ok"
          /\ last' = NoStation /\ cache' = {}
          /\ station' = station /\ levtr' = levtr /\ rows' = rows
      BY <1>9 DEF Begin
    <3> QED
      BY <3>1, <3>3, <3>4, InvTables DEF TypeOK, Outcomes
  <2> QED
    BY <1>9, <2>1, InvTables, TablesInv DEF Begin, Tables
<1>10. CASE Commit
  <2>1. TypeOK'
    BY <1>10, InvTables DEF Commit, TypeOK, Outcomes, Tables
  <2> QED
    BY <1>10, <2>1, InvTables, TablesInv DEF Commit, Tables
<1>11. CASE Rollback
  <2>1. TypeOK'
    BY <1>11, InvTables DEF Rollback, TypeOK, Outcomes
  <2> QED
    BY <1>11, <2>1, InvTables, TablesInv DEF Rollback
<1>12. CASE Vacuum
  BY <1>12, VacuumInv
<1>13. CASE UNCHANGED vars
  BY <1>13 DEF vars, Inv, TypeOK, Sound, Good, Typed, Finite, UniqueKeys,
               KnowsStation, Here
<1> QED
  BY <1>1, <1>2, <1>3, <1>4, <1>5, <1>6, <1>7, <1>8, <1>9, <1>10, <1>11,
     <1>12, <1>13 DEF Next

----------------------------------------------------------------------------
(* What the program can rely on                                            *)

\* Whatever calls a program makes, with whatever arguments, and whichever of
\* them throw, the tables, the cached station and its queue (batch.cc,
\* transaction.cc, import.cc) are of their types: in particular every row
\* written has a proper row id, station and level, never MISSING_INT.
THEOREM TypeCorrect == Spec => []TypeOK
<1>1. Inv => TypeOK
  BY DEF Inv
<1> QED
  BY <1>1, InitInv, NextInv, PTL DEF Spec

\* In a transaction that no other one disturbs, a station never gets a second
\* row: not a fixed one, which the UNIQUE constraint of sqlite/driver.cc:71-78
\* does not protect, and neither after calls that throw halfway through
\* batch.cc, nor after removals, rollbacks and vacuums.
THEOREM StationsStayUnique == Spec => []UniqueStations
<1>1. Inv => UniqueStations
  BY DEF Inv, Sound, UniqueKeys, UniqueStations, Here
<1> QED
  BY <1>1, InitInv, NextInv, PTL DEF Spec

----------------------------------------------------------------------------
(***************************************************************************)
(* Theorems about Transaction: a level has one row, and the cache of levels *)
(* knows no row that the table does not have.                              *)
(***************************************************************************)

UniqueLevels(T) == \A a, b \in T : a.lt = b.lt => a = b

\* What data is filed under is known to the table, and there once.
Leveled(s) == s.cache \subseteq s.levtr /\ UniqueLevels(s.levtr)

SameLevels(s, t) == t.levtr = s.levtr /\ t.cache = s.cache

\* The inductive invariant behind LevTrCacheMirrorsDb: what a rollback brings
\* back has each level once, too, and outside a transaction, where a vacuum
\* may remove levels, nothing is cached.
LevelInv ==
    /\ Inv
    /\ LevTrCacheMirrorsDb
    /\ UniqueLevels(saved.levtr)
    /\ fired => cache = {}

----------------------------------------------------------------------------
(* All but obtain_id leave levels alone                                    *)

LEMMA ThrowLevels ==
    ASSUME NEW s, Good(s), NEW kind
    PROVE  SameLevels(s, Throw(s, kind))
BY DEF Good, Typed, Throw, SameLevels

\* Writing what is queued.
LEMMA WritePendingLevels ==
    ASSUME NEW s, Good(s)
    PROVE  SameLevels(s, WritePending(s))
<1>1. CASE s.err # "ok" \/ s.last = NoStation
  BY <1>1 DEF WritePending, SameLevels
<1>2. CASE s.err = "ok" /\ s.last # NoStation
  <2> DEFINE s1 == InsertStation(s)
             s2 == InsertRows(s1)
  <2>1. WritePending(s) = UpdateRows(s2)
    BY <1>2 DEF WritePending
  <2>2. s.last \in CachedStation
    BY <1>2 DEF Good, Typed
  <2>3. Good(s1) /\ s1.last \in CachedStation
        /\ (s1.err = "ok" => s1.last.id \in RowIds)
    BY <2>2, InsertStationGood
  <2>4. SameLevels(s, s1)
    <3>1. \E N, i : \/ s1 = s \/ s1 = Throw(s, "sql")
                    \/ s1 = [s EXCEPT !.station = N, !.last.id = i]
      BY DEF InsertStation
    <3> QED
      BY <3>1, ThrowLevels DEF SameLevels, Good, Typed
  <2> HIDE DEF s1
  <2>5. Good(s2) /\ s2.last \in CachedStation
    BY <2>3, InsertRowsGood
  <2>6. SameLevels(s1, s2)
    <3>1. \E N, I : \/ s2 = s1 \/ s2 = Throw(s1, "sql")
                    \/ s2 = [s1 EXCEPT !.rows = N, !.last.ids = I]
      BY DEF InsertRows
    <3> QED
      BY <2>3, <3>1, ThrowLevels DEF SameLevels, Good, Typed
  <2> HIDE DEF s2
  <2>7. SameLevels(s2, UpdateRows(s2))
    <3>1. \E N : \/ UpdateRows(s2) = s2
                 \/ UpdateRows(s2) = [s2 EXCEPT !.rows = N, !.last.queue = {}]
      BY DEF UpdateRows
    <3> QED
      BY <2>5, <3>1 DEF SameLevels, Good, Typed
  <2> QED
    BY <2>1, <2>4, <2>6, <2>7 DEF SameLevels
<1> QED
  BY <1>1, <1>2

LEMMA NewStationLevels ==
    ASSUME NEW s, Good(s), NEW key \in Stations
    PROVE  SameLevels(s, NewStation(s, key))
<1> DEFINE s1 == WritePending(s)
<1>1. Good(s1) /\ SameLevels(s, s1)
  BY WritePendingGood, WritePendingLevels
<1>2. NewStation(s, key) = IF s1.err # "ok" THEN s1 ELSE [s1 EXCEPT !.last = Fresh(key)]
  BY DEF NewStation, CacheStation
<1> HIDE DEF s1
<1> QED
  BY <1>1, <1>2 DEF SameLevels, Good, Typed

LEMMA SetStationIdLevels ==
    ASSUME NEW s, Good(s), NEW id
    PROVE  SameLevels(s, SetStationId(s, id))
BY DEF SetStationId, SameLevels, Good, Typed

LEMMA FindStationLevels ==
    ASSUME NEW s, Good(s), NEW canAdd
    PROVE  SameLevels(s, FindStation(s, canAdd))
<1>1. \E id : \/ FindStation(s, canAdd) = s
              \/ FindStation(s, canAdd) = Throw(s, "sql")
              \/ FindStation(s, canAdd) = Throw(s, "notfound")
              \/ FindStation(s, canAdd) = [s EXCEPT !.last.loaded = {StationCtx}]
              \/ FindStation(s, canAdd) = SetStationId(s, id)
  BY DEF FindStation
<1> QED
  BY <1>1, ThrowLevels, SetStationIdLevels DEF SameLevels, Good, Typed

\* Whoever asks for a station, and however.
LEMMA GetStationLevels ==
    ASSUME NEW s, Good(s), NEW key \in Stations \cup {NoKey},
           NEW id \in RowIds \cup {MissingId}, NEW canAdd \in BOOLEAN
    PROVE  SameLevels(s, GetStation(s, key, id, canAdd))
<1>0. SameLevels(s, s)
  BY DEF SameLevels
<1>1. ASSUME key \in Stations
      PROVE  SameLevels(s, GetStationByKey(s, key, canAdd))
  <2> DEFINE s1 == NewStation(s, key)
  <2>1. SameLevels(s, s1) /\ Good(s1)
    BY <1>1, NewStationLevels, NewStationGood DEF Live
  <2>2. GetStationByKey(s, key, canAdd) =
            IF HaveStation(s, key) THEN s ELSE FindStation(s1, canAdd)
    BY DEF GetStationByKey
  <2> HIDE DEF s1
  <2> QED
    BY <1>0, <2>1, <2>2, FindStationLevels DEF SameLevels
<1>2. SameLevels(s, GetStationById(s, id))
  <2> DEFINE found == {r \in s.station : r.id = id}
             k == (CHOOSE r \in found : TRUE).key
             s1 == NewStation(s, k)
  <2>1. CASE found = {}
    BY <1>0, <2>1, ThrowLevels DEF GetStationById
  <2>2. CASE found # {}
    <3>1. k \in Stations
      <4>1. (CHOOSE r \in found : TRUE) \in StationRow
        BY <2>2 DEF Good, Typed
      <4> QED
        BY <4>1 DEF StationRow
    <3>2. \/ GetStationById(s, id) \in {s, Throw(s, "usage")}
          \/ GetStationById(s, id) = SetStationId(s1, id)
      BY <2>2 DEF GetStationById
    <3> HIDE DEF k
    <3>3. SameLevels(s, s1) /\ Good(s1)
      BY <3>1, NewStationLevels, NewStationGood DEF Live
    <3> HIDE DEF s1
    <3> QED
      BY <1>0, <3>2, <3>3, ThrowLevels, SetStationIdLevels DEF SameLevels
  <2> QED
    BY <2>1, <2>2
<1> QED
  BY <1>0, <1>1, <1>2 DEF GetStation

LEMMA LoadLevels ==
    ASSUME NEW s, Good(s), NEW ctx
    PROVE  SameLevels(s, Load(s, ctx))
<1>1. \E D, I : \/ Load(s, ctx) = s
                \/ Load(s, ctx) = [s EXCEPT !.last.loaded = D, !.last.ids = I]
  BY DEF Load
<1> QED
  BY <1>1 DEF SameLevels, Good, Typed

LEMMA AddLevels ==
    ASSUME NEW s, Good(s), NEW ctx, NEW V, NEW mode
    PROVE  SameLevels(s, Add(s, ctx, V, mode))
<1>1. \E Q, E : \/ Add(s, ctx, V, mode) = s
                \/ Add(s, ctx, V, mode) = [s EXCEPT !.last.queue = Q, !.err = E]
  BY DEF Add
<1> QED
  BY <1>1 DEF SameLevels, Good, Typed

\* obtain_id files a level only after it has looked for it in the cache and in the
\* table, and caches only what is in the table.
LEMMA ObtainLevTrsLeveled ==
    ASSUME NEW s, Good(s), Leveled(s), NEW L
    PROVE  Leveled(ObtainLevTrs(s, L))
<1> DEFINE uncached == {l \in L : \A c \in s.cache : c.lt # l}
           onDb == {r \in s.levtr : r.lt \in uncached}
           missing == {l \in uncached : \A r \in onDb : r.lt # l}
           idOf(l) == Top(IdsOf(s.levtr)) + Cardinality({m \in missing : m <= l})
           new == {[id |-> idOf(l), lt |-> l] : l \in missing}
           t == [s EXCEPT !.levtr = @ \cup new, !.cache = @ \cup onDb \cup new]
<1>1. CASE s.err # "ok"
  BY <1>1 DEF ObtainLevTrs
<1>2. CASE s.err = "ok"
  <2>1. ObtainLevTrs(s, L) = t
    BY <1>2 DEF ObtainLevTrs
  <2>2. \A l \in missing, r \in s.levtr : r.lt # l
    OBVIOUS
  <2>3. onDb \subseteq s.levtr
    OBVIOUS
  <2> HIDE DEF missing, onDb, idOf
  <2>4. \A a, b \in new : a.lt = b.lt => a = b
    OBVIOUS
  <2>5. \A a \in new : a.lt \in missing
    OBVIOUS
  <2> HIDE DEF new
  <2>6. t.levtr = s.levtr \cup new /\ t.cache = s.cache \cup onDb \cup new
    BY DEF Good, Typed
  <2> HIDE DEF t
  <2>7. UniqueLevels(t.levtr)
    BY <2>2, <2>4, <2>5, <2>6 DEF Leveled, UniqueLevels
  <2> QED
    BY <2>1, <2>3, <2>6, <2>7 DEF Leveled
<1> QED
  BY <1>1, <1>2

----------------------------------------------------------------------------
(* Each call                                                               *)

LEMMA SameLeveled ==
    ASSUME NEW s, Leveled(s), NEW t, SameLevels(s, t)
    PROVE  Leveled(t)
BY DEF Leveled, SameLevels

LEMMA WritePendingLeveled ==
    ASSUME NEW s, Sound(s), Leveled(s)
    PROVE  Leveled(WritePending(s))
BY WritePendingLevels, SameLeveled DEF Sound

LEMMA GetStationLeveled ==
    ASSUME NEW s, Sound(s), Leveled(s), NEW key \in Stations \cup {NoKey},
           NEW id \in RowIds \cup {MissingId}, NEW canAdd \in BOOLEAN
    PROVE  Leveled(GetStation(s, key, id, canAdd))
BY GetStationLevels, SameLeveled DEF Sound

LEMMA AddStationVarsLeveled ==
    ASSUME NEW s, Sound(s), Live(s), Leveled(s), NEW V, NEW mode
    PROVE  Leveled(AddStationVars(s, V, mode))
<1> DEFINE s1 == Load(s, StationCtx)
<1>1. Good(s1) /\ SameLevels(s, s1)
  BY LoadLive, LoadLevels DEF Sound, Live, Contexts
<1> HIDE DEF s1
<1>2. Leveled(s1)
  BY <1>1, SameLeveled
<1> QED
  BY <1>1, <1>2, AddLevels, SameLeveled DEF AddStationVars, s1

LEMMA InsertStationDataLeveled ==
    ASSUME NEW s, Sound(s), Leveled(s), NEW key \in Stations \cup {NoKey},
           NEW id \in RowIds \cup {MissingId},
           NEW V \in SUBSET Var, IsFiniteSet(V),
           NEW canReplace \in BOOLEAN, NEW canAdd \in BOOLEAN
    PROVE  Leveled(InsertStationDataCall(s, key, id, V, canReplace, canAdd))
BY GetStationSound, GetStationLeveled, AddStationVarsSound, AddStationVarsLeveled,
   WritePendingLeveled DEF InsertStationDataCall

\* Levels are obtained after values have been loaded, and before they are queued.
LEMMA ObtainAndAddLeveled ==
    ASSUME NEW s, Sound(s), Live(s), Leveled(s), NEW ctx \in Contexts,
           NEW L \in SUBSET LevTrs, IsFiniteSet(L), NEW V, NEW mode
    PROVE  Leveled(AddAtLevTr(ObtainLevTrs(Load(s, ctx), L), ctx, V, mode))
<1> DEFINE s1 == Load(s, ctx)
           s2 == ObtainLevTrs(s1, L)
<1>1. Sound(s1) /\ Live(s1)
  BY LoadSound
<1>2. Leveled(s1)
  BY LoadLevels, SameLeveled DEF Sound
<1> HIDE DEF s1
<1>3. Good(s2) /\ Leveled(s2)
  BY <1>1, <1>2, ObtainLevTrsSound, ObtainLevTrsLeveled DEF Sound
<1> HIDE DEF s2
<1> QED
  BY <1>3, AddLevels, SameLeveled DEF AddAtLevTr, s1, s2

LEMMA InsertAtLeveled ==
    ASSUME NEW s, Sound(s), Live(s), Leveled(s), NEW dt \in Datetimes \cup {NoDatetime},
           NEW lt \in LevTrs \cup {NoLevTr},
           NEW V \in SUBSET Var, IsFiniteSet(V), NEW mode
    PROVE  Leveled(InsertAt(s, dt, lt, V, mode))
<1> DEFINE s1 == Load(s, dt)
           s3 == AddAtLevTr(ObtainLevTrs(s1, {lt}), dt, AtLevTr(lt, V), mode)
<1>1. CASE dt = NoDatetime
  BY <1>1, ThrowLevels, SameLeveled DEF InsertAt, Sound
<1>2. CASE dt # NoDatetime /\ lt = NoLevTr
  <2>1. InsertAt(s, dt, lt, V, mode) = Throw(s1, "usage")
    BY <1>2 DEF InsertAt
  <2>2. Good(s1) /\ SameLevels(s, s1)
    BY <1>2, LoadSound, LoadLevels DEF Sound, Contexts
  <2> HIDE DEF s1
  <2> QED
    BY <2>1, <2>2, ThrowLevels, SameLeveled
<1>3. CASE dt # NoDatetime /\ lt # NoLevTr
  <2>1. InsertAt(s, dt, lt, V, mode) = WritePending(s3)
    BY <1>3 DEF InsertAt
  <2>2. IsFiniteSet({lt}) /\ {lt} \in SUBSET LevTrs /\ dt \in Contexts
    BY <1>3, FS_Singleton DEF Contexts
  <2>3. Leveled(s3)
    BY <2>2, ObtainAndAddLeveled
  <2>4. Good(s3)
    <3>1. Sound(s1) /\ Live(s1)
      BY <2>2, LoadSound
    <3> DEFINE s2 == ObtainLevTrs(s1, {lt})
    <3> HIDE DEF s1
    <3>2. Live(s2) /\ (s2.err = "ok" => \A l \in {lt} : \E c \in s2.cache : c.lt = l)
      BY <2>2, <3>1, ObtainLevTrsLive
    <3> HIDE DEF s2
    <3>3. /\ AtLevTr(lt, V) \subseteq [lt : {lt}, code : Codes, val : Vals, attr : BOOLEAN]
          /\ IsFiniteSet(AtLevTr(lt, V))
      BY AtLevTrType
    <3>4. AtLevTr(lt, V) \subseteq [lt : LevTrs, code : Codes, val : Vals, attr : BOOLEAN]
      BY <2>2, <3>3
    <3>5. s2.err = "ok" => \A v \in AtLevTr(lt, V) : \E c \in s2.cache : c.lt = v.lt
      BY <3>2, <3>3
    <3> QED
      BY <2>2, <3>2, <3>3, <3>4, <3>5, AddAtLevTrLive DEF Live, s2, s1
  <2> HIDE DEF s3
  <2> QED
    BY <2>1, <2>3, <2>4, WritePendingLevels, SameLeveled
<1> QED
  BY <1>1, <1>2, <1>3

LEMMA InsertDataLeveled ==
    ASSUME NEW s, Sound(s), Leveled(s), NEW key \in Stations \cup {NoKey},
           NEW id \in RowIds \cup {MissingId},
           NEW dt \in Datetimes \cup {NoDatetime},
           NEW lt \in LevTrs \cup {NoLevTr},
           NEW V \in SUBSET Var, IsFiniteSet(V),
           NEW canReplace \in BOOLEAN, NEW canAdd \in BOOLEAN
    PROVE  Leveled(InsertDataCall(s, key, id, dt, lt, V, canReplace, canAdd))
<1>1. Leveled(Throw(s, "empty"))
  BY ThrowLevels, SameLeveled DEF Sound
<1> QED
  BY <1>1, GetStationSound, GetStationLeveled, InsertAtLeveled DEF InsertDataCall

LEMMA AddMsgToBatchLeveled ==
    ASSUME NEW s, Sound(s), Leveled(s), NEW m, MessageType(m), NEW o
    PROVE  Leveled(AddMsgToBatch(s, m, o))
<1>1. CASE m.key = NoKey
  BY <1>1, ThrowLevels, SameLeveled DEF AddMsgToBatch, Sound
<1>2. CASE m.key # NoKey
  <2> DEFINE s1 == GetStation(s, m.key, MissingId, TRUE)
             s2 == AddMsgStation(s1, m, o)
             L == {d.lt : d \in m.data}
             f == [d \in m.data |-> d.lt]
  <2>1. AddMsgToBatch(s, m, o) = AddMsgData(s2, m, o)
    BY <1>2 DEF AddMsgToBatch
  <2>2. Sound(s1) /\ Live(s1) /\ Leveled(s1)
    BY <1>2, GetStationSound, GetStationLeveled DEF MessageType
  <2> HIDE DEF s1
  <2>3. Sound(s2) /\ Live(s2)
    BY <2>2, AddMsgStationSound
  <2>4. Leveled(s2)
    BY <2>2, AddStationVarsLeveled DEF AddMsgStation
  <2> HIDE DEF s2
  <2>5. L \in SUBSET LevTrs
    BY DEF MessageType
  <2>6. IsFiniteSet(L)
    <3>1. DOMAIN f = m.data /\ L = {f[d] : d \in m.data}
      OBVIOUS
    <3>2. IsFiniteSet(m.data)
      BY DEF MessageType
    <3> HIDE DEF f, L
    <3> QED
      BY <3>1, <3>2, ImageFinite
  <2>7. AddMsgData(s2, m, o) =
            IF m.data = {} THEN s2
            ELSE IF m.dt = NoDatetime THEN Throw(s2, "notfound")
            ELSE AddAtLevTr(ObtainLevTrs(Load(s2, m.dt), L), m.dt, m.data, ImportMode(o))
    BY DEF AddMsgData
  <2> HIDE DEF L
  <2>8. Leveled(Throw(s2, "notfound"))
    BY <2>3, <2>4, ThrowLevels, SameLeveled DEF Sound
  <2>9. m.dt # NoDatetime => m.dt \in Contexts
    BY DEF MessageType, Contexts
  <2> QED
    BY <2>1, <2>3, <2>4, <2>5, <2>6, <2>7, <2>8, <2>9, ObtainAndAddLeveled
<1> QED
  BY <1>1, <1>2

LEMMA SetWriteAttrsLeveled ==
    ASSUME NEW s, Sound(s), Leveled(s), NEW b
    PROVE  Leveled(SetWriteAttrs(s, b))
BY DEF SetWriteAttrs, Sound, Good, Typed, Leveled

LEMMA ImportMessageLeveled ==
    ASSUME NEW s, Sound(s), Leveled(s), NEW m, MessageType(m), NEW o \in ImportOptions
    PROVE  Leveled(ImportMessageCall(s, m, o))
<1> DEFINE s1 == SetWriteAttrs(s, o.importAttributes)
<1>1. Sound(s1) /\ Leveled(s1)
  BY SetWriteAttrsSound, SetWriteAttrsLeveled DEF ImportOptions
<1> HIDE DEF s1
<1> QED
  BY <1>1, AddMsgToBatchSound, AddMsgToBatchLeveled, WritePendingLeveled
     DEF ImportMessageCall, s1

LEMMA ImportMessagesLeveled ==
    ASSUME NEW s, Sound(s), Leveled(s), NEW m1, MessageType(m1), NEW m2, MessageType(m2),
           NEW o \in ImportOptions
    PROVE  Leveled(ImportMessagesCall(s, m1, m2, o))
<1> DEFINE s1 == SetWriteAttrs(s, o.importAttributes)
           s2 == AddMsgToBatch(s1, m1, o)
<1>1. Sound(s1) /\ Leveled(s1)
  BY SetWriteAttrsSound, SetWriteAttrsLeveled DEF ImportOptions
<1> HIDE DEF s1
<1>2. Sound(s2) /\ Leveled(s2)
  BY <1>1, AddMsgToBatchSound, AddMsgToBatchLeveled
<1> HIDE DEF s2
<1> QED
  BY <1>2, AddMsgToBatchSound, AddMsgToBatchLeveled, WritePendingLeveled
     DEF ImportMessagesCall, s1, s2

----------------------------------------------------------------------------
(* Each action                                                             *)

\* What each action adds to Inv'.
LevelGoal ==
    /\ LevTrCacheMirrorsDb'
    /\ UniqueLevels(saved'.levtr)
    /\ fired' => cache' = {}

\* A call that computes a record with its levels in order.
LEMMA CallLeveled ==
    ASSUME NEW s, Leveled(s), Call(s), UniqueLevels(saved.levtr)
    PROVE  LevelGoal
BY DEF Call, Return, Leveled, UniqueLevels, LevTrCacheMirrorsDb, LevelGoal

LEMMA SameLevelsGoal ==
    ASSUME LevelInv, UNCHANGED <<levtr, cache, saved, fired>>
    PROVE  LevelGoal
BY DEF LevelInv, LevTrCacheMirrorsDb, UniqueLevels, LevelGoal

\* A vacuum only removes levels, with nothing cached.
LEMMA VacuumLevels ==
    ASSUME LevelInv, Vacuum
    PROVE  LevelGoal
<1>1. cache' = {}
  BY DEF Vacuum, LevelInv
<1>2. levtr' \subseteq levtr /\ saved'.levtr = levtr'
  BY DEF Vacuum
<1> QED
  BY <1>1, <1>2 DEF LevelInv, LevTrCacheMirrorsDb, UniqueLevels, LevelGoal

LEMMA NextLeveled ==
    ASSUME LevelInv, [Next]_vars
    PROVE  LevelGoal
<1>0. Sound(Here) /\ Leveled(Here) /\ UniqueLevels(saved.levtr)
  BY DEF LevelInv, Inv, Leveled, LevTrCacheMirrorsDb, UniqueLevels, Here
<1>1. ASSUME NEW ref \in StationRef, NEW V \in StationVarSets,
             NEW cr \in BOOLEAN, NEW ca \in BOOLEAN,
             InsertStationData(ref[1], ref[2], V, cr, ca)
      PROVE  LevelGoal
  <2>1. ref[1] \in Stations \cup {NoKey} /\ ref[2] \in RowIds \cup {MissingId}
    BY MaxIdAssumption DEF StationRef, Ids, RowIds, MissingId
  <2>2. V \in SUBSET Var /\ IsFiniteSet(V)
    BY VarSetsAssumption
  <2>3. Leveled(InsertStationDataCall(Here, ref[1], ref[2], V, cr, ca))
    BY <1>0, <2>1, <2>2, InsertStationDataLeveled
  <2> QED
    BY <1>0, <1>1, <2>3, CallLeveled DEF InsertStationData
<1>2. ASSUME NEW ref \in StationRef, NEW V \in VarSets,
             NEW cr \in BOOLEAN, NEW ca \in BOOLEAN,
             NEW dt \in Datetimes \cup {NoDatetime},
             NEW lt \in LevTrs \cup {NoLevTr},
             InsertData(ref[1], ref[2], dt, lt, V, cr, ca)
      PROVE  LevelGoal
  <2>1. ref[1] \in Stations \cup {NoKey} /\ ref[2] \in RowIds \cup {MissingId}
    BY MaxIdAssumption DEF StationRef, Ids, RowIds, MissingId
  <2>2. V \in SUBSET Var /\ IsFiniteSet(V)
    BY VarSetsAssumption
  <2>3. Leveled(InsertDataCall(Here, ref[1], ref[2], dt, lt, V, cr, ca))
    BY <1>0, <2>1, <2>2, InsertDataLeveled
  <2> QED
    BY <1>0, <1>2, <2>3, CallLeveled DEF InsertData
<1>3. ASSUME NEW m \in Messages, NEW o \in ImportOptions, ImportMessage(m, o)
      PROVE  LevelGoal
  <2>1. MessageType(m)
    BY MessagesAssumption DEF MessageType
  <2>2. Leveled(ImportMessageCall(Here, m, o))
    BY <1>0, <2>1, ImportMessageLeveled
  <2> QED
    BY <1>0, <1>3, <2>2, CallLeveled DEF ImportMessage
<1>4. ASSUME NEW m \in Messages, NEW o \in ImportOptions,
             NEW m2 \in Messages, ImportMessages(m, m2, o)
      PROVE  LevelGoal
  <2>1. MessageType(m) /\ MessageType(m2)
    BY MessagesAssumption DEF MessageType
  <2>2. Leveled(ImportMessagesCall(Here, m, m2, o))
    BY <1>0, <2>1, ImportMessagesLeveled
  <2> QED
    BY <1>0, <1>4, <2>2, CallLeveled DEF ImportMessages
<1>5. ASSUME NEW q \in Queries, RemoveStationData(q) \/ RemoveData(q)
      PROVE  LevelGoal
  BY <1>5, SameLevelsGoal DEF RemoveStationData, RemoveData, DeleteRows
<1>6. ASSUME NEW id \in Ids, RemoveStationDataById(id) \/ RemoveDataById(id)
      PROVE  LevelGoal
  BY <1>6, SameLevelsGoal DEF RemoveStationDataById, RemoveDataById, DeleteRows
<1>7. ASSUME NEW id \in AttrTargets, NEW b \in BOOLEAN,
             AttrInsert(b, id) \/ AttrRemove(b, id)
      PROVE  LevelGoal
  BY <1>7, SameLevelsGoal DEF AttrInsert, AttrRemove, SetAttrs
<1>8. CASE RemoveAll
  BY <1>0, <1>8 DEF RemoveAll, LevTrCacheMirrorsDb, UniqueLevels, LevelGoal
<1>9. CASE Begin
  BY <1>0, <1>9
     DEF Begin, Tables, LevTrCacheMirrorsDb, UniqueLevels, Leveled, Here, LevelGoal
<1>10. CASE Commit
  BY <1>0, <1>10
     DEF Commit, Tables, LevTrCacheMirrorsDb, UniqueLevels, Leveled, Here, LevelGoal
<1>11. CASE Rollback
  BY <1>0, <1>11 DEF Rollback, LevTrCacheMirrorsDb, UniqueLevels, LevelGoal
<1>12. CASE Vacuum
  BY <1>12, VacuumLevels
<1>13. CASE UNCHANGED vars
  BY <1>13, SameLevelsGoal DEF vars
<1> QED
  BY <1>1, <1>2, <1>3, <1>4, <1>5, <1>6, <1>7, <1>8, <1>9, <1>10, <1>11,
     <1>12, <1>13 DEF Next

LEMMA InitLevelInv == Init => LevelInv
BY InitInv DEF Init, LevelInv, LevTrCacheMirrorsDb, UniqueLevels

LEMMA NextLevelInv == LevelInv /\ [Next]_vars => LevelInv'
<1> SUFFICES ASSUME LevelInv, [Next]_vars PROVE LevelInv'
  OBVIOUS
<1>1. Inv'
  BY NextInv DEF LevelInv
<1> QED
  BY <1>1, NextLeveled DEF LevelInv, LevelGoal, UniqueLevels

----------------------------------------------------------------------------
(* What the program can rely on                                            *)

\* Whatever a program does, the cache of levels (LevTr::cache), which outlives
\* removals of values and calls that throw, names no row that the table of
\* levels has lost, and obtain_id (sqlite/levtr.cc:129-160) never files a level
\* a second time.
THEOREM LevelsStayUnique == Spec => []LevTrCacheMirrorsDb
<1>1. LevelInv => LevTrCacheMirrorsDb
  BY DEF LevelInv
<1> QED
  BY <1>1, InitLevelInv, NextLevelInv, PTL DEF Spec

----------------------------------------------------------------------------
(***************************************************************************)
(* Theorems about Transaction: the batch is never mistaken about the       *)
(* database, so the database never refuses what it writes.                 *)
(***************************************************************************)

IdOf(r) == [id |-> r.id, ctx |-> r.ctx, lt |-> r.lt, code |-> r.code]

\* Values are of stations that exist: the foreign key of both tables.
Filed(S, R) == \A r \in R : r.st \in IdsOf(S)

HasRow(L, S) == L.id # MissingId => [id |-> L.id, key |-> L.key] \in S

\* The ids known are those of the rows of the loaded contexts.
Knows(L, R) ==
    /\ \A i \in L.ids : i.ctx \in L.loaded /\ \E r \in R : r.st = L.id /\ i = IdOf(r)
    /\ \A r \in R : r.st = L.id /\ r.ctx \in L.loaded => IdOf(r) \in L.ids
    /\ L.isNew => \A r \in R : r.st = L.id /\ r.ctx # StationCtx => r.ctx \in L.loaded

\* What is queued as an insert is not there, and its level is.
QueueFits(L, T) ==
    \A q \in L.queue :
       /\ q.ctx \in L.loaded
       /\ q.id = MissingId => \A i \in L.ids : ~SameKey(i, q)
       /\ q.ctx # StationCtx => q.lt \in IdsOf(T)

Cached(s) == s.last \in CachedStation => /\ HasRow(s.last, s.station)
                                         /\ Knows(s.last, s.rows)
                                         /\ QueueFits(s.last, s.levtr)

Linked(s) == Filed(s.station, s.rows) /\ Cached(s) /\ s.err # "sql"

----------------------------------------------------------------------------
(* Writing what is queued                                                  *)

LEMMA ThrowLinked ==
    ASSUME NEW s, Good(s), Linked(s), NEW kind \in Outcomes \ {"sql"}
    PROVE  Linked(Throw(s, kind))
<1>1. Throw(s, kind).station = s.station /\ Throw(s, kind).rows = s.rows
      /\ Throw(s, kind).last = s.last /\ Throw(s, kind).levtr = s.levtr
      /\ Throw(s, kind).err \in {s.err, kind}
  BY DEF Throw, Good, Typed
<1> QED
  BY <1>1 DEF Linked, Cached

\* The station inserted has no values: its id has never been that of another one
\* that has.
LEMMA InsertStationLinked ==
    ASSUME NEW s, Sound(s), Linked(s), s.err = "ok", s.last \in CachedStation
    PROVE  LET t == InsertStation(s)
           IN  Linked(t) /\ t.err = "ok"
<1> DEFINE new == Top(IdsOf(s.station)) + 1
           row == [id |-> new, key |-> s.last.key]
           t == [s EXCEPT !.station = @ \cup {row}, !.last.id = new]
<1>1. CASE s.last.id # MissingId
  BY <1>1 DEF InsertStation
<1>2. CASE s.last.id = MissingId
  <2>1. InsertStation(s) = t
    BY <1>2 DEF InsertStation, Sound, KnowsStation
  <2>2. /\ t.station = s.station \cup {row} /\ t.rows = s.rows
        /\ t.levtr = s.levtr /\ t.err = s.err
        /\ t.last.id = new /\ t.last.key = s.last.key
        /\ t.last.isNew = s.last.isNew /\ t.last.loaded = s.last.loaded
        /\ t.last.ids = s.last.ids /\ t.last.queue = s.last.queue
    BY DEF Sound, Good, Typed, CachedStation
  <2>3. new \in Nat /\ \A i \in IdsOf(s.station) : i # new
    <3>1. IsFiniteSet(IdsOf(s.station)) /\ IdsOf(s.station) \in SUBSET Nat
      BY IdsFinite DEF Sound, Good, Typed, Finite, StationRow
    <3> QED
      BY <3>1, TopType
  <2> HIDE DEF new
  <2>4. \A r \in s.rows : r.st # new /\ r.st # MissingId
    BY <2>3 DEF Linked, Filed, Sound, Good, Typed, DataRow, RowIds, MissingId
  <2>5. Filed(t.station, t.rows)
    BY <2>2 DEF Linked, Filed, IdsOf
  <2>6. s.last.ids = {}
    BY <1>2, <2>4 DEF Linked, Cached, Knows
  <2>7. Knows(t.last, t.rows)
    BY <2>2, <2>4, <2>6 DEF Knows
  <2>8. QueueFits(t.last, t.levtr)
    BY <2>2 DEF Linked, Cached, QueueFits
  <2>9. HasRow(t.last, t.station)
    BY <2>2 DEF HasRow
  <2> QED
    BY <2>1, <2>2, <2>5, <2>7, <2>8, <2>9 DEF Linked, Cached
<1> QED
  BY <1>1, <1>2

\* The database refuses no insert: none is of a value that it has, since the
\* rows of the contexts of what is queued are known.
LEMMA NothingRefused ==
    ASSUME NEW s, Sound(s), Linked(s), s.last \in CachedStation,
           s.last.id \in RowIds
    PROVE  ~BreaksConstraint(s)
<1> SUFFICES ASSUME NEW q \in Inserts(s.last)
             PROVE  /\ \A r \in s.rows : ~(r.st = s.last.id /\ SameKey(r, q))
                    /\ s.last.id \in IdsOf(s.station)
                    /\ q.ctx # StationCtx => q.lt \in IdsOf(s.levtr)
  BY DEF BreaksConstraint
<1>1. /\ q.ctx \in s.last.loaded
      /\ \A i \in s.last.ids : ~SameKey(i, q)
      /\ q.ctx # StationCtx => q.lt \in IdsOf(s.levtr)
  BY DEF Inserts, Linked, Cached, QueueFits
<1>2. \A r \in s.rows : r.st = s.last.id /\ r.ctx = q.ctx => IdOf(r) \in s.last.ids
  BY <1>1 DEF Linked, Cached, Knows
<1>3. \A r \in s.rows : SameKey(r, q) => SameKey(IdOf(r), q) /\ r.ctx = q.ctx
  BY DEF SameKey, IdOf
<1>4. s.last.id \in IdsOf(s.station)
  BY DEF Linked, Cached, HasRow, IdsOf, RowIds, MissingId
<1> QED
  BY <1>1, <1>2, <1>3, <1>4

LEMMA InsertRowsLinked ==
    ASSUME NEW s, Sound(s), Linked(s), s.err = "ok", s.last \in CachedStation,
           s.last.id \in RowIds
    PROVE  LET t == InsertRows(s)
           IN  /\ Filed(t.station, t.rows) /\ t.err = "ok"
               /\ HasRow(t.last, t.station) /\ Knows(t.last, t.rows)
<1> DEFINE row(q) == [id |-> NewRowId(s, q), st |-> s.last.id, ctx |-> q.ctx,
                      lt |-> q.lt, code |-> q.code, val |-> q.val,
                      attr |-> q.attr /\ s.attrs]
           new == {row(q) : q \in Inserts(s.last)}
           known == {[id |-> r.id, ctx |-> r.ctx, lt |-> r.lt,
                      code |-> r.code] : r \in new}
           stale == {i \in s.last.ids : \E k \in known : SameKey(i, k)}
           t == [s EXCEPT !.rows = @ \cup new,
                          !.last.ids = (@ \ stale) \cup known]
<1>1. InsertRows(s) = t
  BY NothingRefused DEF InsertRows
<1>2. \A r \in new : r.st = s.last.id /\ r.ctx \in s.last.loaded
                     /\ \A i \in s.last.ids : ~SameKey(i, IdOf(r))
  BY DEF Inserts, Linked, Cached, QueueFits, SameKey, IdOf
<1>3. known = {IdOf(r) : r \in new}
  BY DEF IdOf
<1> HIDE DEF new, known
<1>4. stale = {}
  BY <1>2, <1>3
<1> HIDE DEF stale
<1>5. /\ t.station = s.station /\ t.err = s.err
      /\ t.rows = s.rows \cup new /\ t.last.ids = s.last.ids \cup known
      /\ t.last.id = s.last.id /\ t.last.key = s.last.key
      /\ t.last.isNew = s.last.isNew /\ t.last.loaded = s.last.loaded
  BY <1>4 DEF Sound, Good, Typed, CachedStation
<1>6. Filed(t.station, t.rows)
  BY <1>2, <1>5 DEF Linked, Filed, Cached, HasRow, IdsOf, RowIds, MissingId
<1>7. HasRow(t.last, t.station)
  BY <1>5 DEF Linked, Cached, HasRow
<1>8. \A r \in new : IdOf(r).ctx = r.ctx
  BY DEF IdOf
<1>9. Knows(t.last, t.rows)
  BY <1>2, <1>3, <1>5, <1>8 DEF Linked, Cached, Knows
<1> QED
  BY <1>1, <1>5, <1>6, <1>7, <1>9

LEMMA UpdateRowsLinked ==
    ASSUME NEW s, Good(s), s.err = "ok", s.last \in CachedStation,
           Filed(s.station, s.rows), HasRow(s.last, s.station),
           Knows(s.last, s.rows)
    PROVE  Linked(UpdateRows(s)) /\ UpdateRows(s).err = "ok"
<1> DEFINE hits(r) == {q \in Updates(s.last) : SameTable(q, r) /\ q.id = r.id}
           updated(r) == IF hits(r) = {} THEN r
                         ELSE LET q == CHOOSE q \in hits(r) : TRUE IN
                              [r EXCEPT !.val = q.val,
                                        !.attr = q.attr /\ s.attrs]
           t == [s EXCEPT !.rows = {updated(r) : r \in @}, !.last.queue = {}]
<1>1. UpdateRows(s) = t
  BY DEF UpdateRows, Good, Typed
<1>2. \A r \in s.rows : /\ updated(r).st = r.st /\ updated(r).ctx = r.ctx
                        /\ IdOf(updated(r)) = IdOf(r)
  <2> TAKE r \in s.rows
  <2>1. r \in DataRow
    BY DEF Good, Typed
  <2>2. \A v, a : LET n == [r EXCEPT !.val = v, !.attr = a]
                  IN  n.st = r.st /\ n.ctx = r.ctx /\ IdOf(n) = IdOf(r)
    BY <2>1 DEF DataRow, IdOf
  <2> QED
    BY <2>2
<1> HIDE DEF updated
<1>3. /\ t.station = s.station /\ t.err = s.err
      /\ t.rows = {updated(r) : r \in s.rows}
      /\ t.last.id = s.last.id /\ t.last.key = s.last.key
      /\ t.last.isNew = s.last.isNew /\ t.last.loaded = s.last.loaded
      /\ t.last.ids = s.last.ids /\ t.last.queue = {}
  BY DEF Good, Typed, CachedStation
<1>4. Filed(t.station, t.rows)
  BY <1>2, <1>3 DEF Filed
<1> HIDE DEF t
<1>5. Knows(t.last, t.rows)
  <2>1. ASSUME NEW i \in s.last.ids PROVE \E r \in t.rows : r.st = s.last.id /\ i = IdOf(r)
    <3>1. PICK r \in s.rows : r.st = s.last.id /\ i = IdOf(r)
      BY DEF Knows
    <3> QED
      BY <1>2, <1>3, <3>1
  <2>2. ASSUME NEW n \in t.rows
        PROVE  \E r \in s.rows : n.st = r.st /\ n.ctx = r.ctx /\ IdOf(n) = IdOf(r)
    BY <1>2, <1>3
  <2> QED
    BY <1>3, <2>1, <2>2 DEF Knows
<1>6. HasRow(t.last, t.station) /\ QueueFits(t.last, t.levtr)
  BY <1>3 DEF HasRow, QueueFits
<1> QED
  BY <1>1, <1>3, <1>4, <1>5, <1>6 DEF Linked, Cached, t

LEMMA WritePendingLinked ==
    ASSUME NEW s, Sound(s), Linked(s)
    PROVE  Linked(WritePending(s)) /\ WritePending(s).err = s.err
<1>1. CASE s.err # "ok" \/ s.last = NoStation
  BY <1>1 DEF WritePending
<1>2. CASE s.err = "ok" /\ s.last # NoStation
  <2> DEFINE s1 == InsertStation(s)
             s2 == InsertRows(s1)
  <2>1. WritePending(s) = UpdateRows(s2)
    BY <1>2 DEF WritePending
  <2>2. s.last \in CachedStation
    BY <1>2 DEF Sound, Good, Typed
  <2>3. /\ Sound(s1) /\ Linked(s1) /\ s1.err = "ok"
        /\ s1.last \in CachedStation /\ s1.last.id \in RowIds
    BY <1>2, <2>2, InsertStationLinked, InsertStationSound, InsertStationGood DEF Sound
  <2> HIDE DEF s1
  <2>4. Good(s2) /\ s2.last \in CachedStation
    BY <2>3, InsertRowsGood DEF Sound
  <2>5. Filed(s2.station, s2.rows) /\ s2.err = "ok"
        /\ HasRow(s2.last, s2.station) /\ Knows(s2.last, s2.rows)
    BY <2>3, InsertRowsLinked
  <2> HIDE DEF s2
  <2> QED
    BY <1>2, <2>1, <2>4, <2>5, UpdateRowsLinked
<1> QED
  BY <1>1, <1>2

\* What is written is added to the stations.
LEMMA WritePendingKeepsStations ==
    ASSUME NEW s, Good(s)
    PROVE  s.station \subseteq WritePending(s).station
<1>1. CASE s.err # "ok" \/ s.last = NoStation
  BY <1>1 DEF WritePending
<1>2. CASE s.err = "ok" /\ s.last # NoStation
  <2> DEFINE s1 == InsertStation(s)
             s2 == InsertRows(s1)
  <2>1. WritePending(s) = UpdateRows(s2)
    BY <1>2 DEF WritePending
  <2>2. s.last \in CachedStation
    BY <1>2 DEF Good, Typed
  <2>3. Good(s1) /\ s1.last \in CachedStation /\ (s1.err = "ok" => s1.last.id \in RowIds)
    BY <2>2, InsertStationGood
  <2>4. s.station \subseteq s1.station
    BY DEF InsertStation, Throw, Good, Typed
  <2> HIDE DEF s1
  <2>5. Good(s2) /\ s2.last \in CachedStation /\ s2.station = s1.station
    BY <2>3, InsertRowsGood, InsertRowsSame DEF SameStation
  <2> HIDE DEF s2
  <2>6. UpdateRows(s2).station = s2.station
    BY <2>5, UpdateRowsSame DEF SameStation
  <2> QED
    BY <2>1, <2>4, <2>5, <2>6
<1> QED
  BY <1>1, <1>2

----------------------------------------------------------------------------
(* The cached station                                                      *)

LEMMA FreshLinked ==
    ASSUME NEW s, Good(s), Linked(s), NEW key \in Stations
    PROVE  Linked([s EXCEPT !.last = Fresh(key)])
<1> DEFINE t == [s EXCEPT !.last = Fresh(key)]
<1>1. /\ t.station = s.station /\ t.rows = s.rows /\ t.levtr = s.levtr
      /\ t.err = s.err /\ t.last = Fresh(key)
  BY DEF Good, Typed
<1>2. \A r \in s.rows : r.st # MissingId
  BY DEF Good, Typed, DataRow, RowIds, MissingId
<1> HIDE DEF t
<1>3. Cached(t)
  BY <1>1, <1>2 DEF Cached, Fresh, HasRow, Knows, QueueFits
<1> QED
  BY <1>1, <1>3 DEF Linked, t

LEMMA NewStationLinked ==
    ASSUME NEW s, Sound(s), Linked(s), NEW key \in Stations
    PROVE  Linked(NewStation(s, key))
<1> DEFINE s1 == WritePending(s)
<1>1. Good(s1) /\ Linked(s1)
  BY WritePendingSound, WritePendingLinked DEF Sound
<1>2. NewStation(s, key) = IF s1.err # "ok" THEN s1 ELSE [s1 EXCEPT !.last = Fresh(key)]
  BY DEF NewStation, CacheStation
<1> HIDE DEF s1
<1> QED
  BY <1>1, <1>2, FreshLinked

\* A station that has just been cached gets the id of its row.
LEMMA SetStationIdLinked ==
    ASSUME NEW s, Good(s), Linked(s), NEW key \in Stations,
           s.err = "ok" => s.last = Fresh(key),
           NEW id, s.err = "ok" => [id |-> id, key |-> key] \in s.station
    PROVE  Linked(SetStationId(s, id))
<1>1. CASE s.err # "ok"
  BY <1>1 DEF SetStationId
<1>2. CASE s.err = "ok"
  <2> DEFINE t == [s EXCEPT !.last.id = id, !.last.isNew = FALSE]
  <2>1. SetStationId(s, id) = t
    BY <1>2 DEF SetStationId
  <2>2. /\ t.station = s.station /\ t.rows = s.rows /\ t.levtr = s.levtr
        /\ t.err = s.err
        /\ t.last = [s.last EXCEPT !.id = id, !.isNew = FALSE]
    BY DEF Good, Typed
  <2> HIDE DEF t
  <2>3. /\ t.last.key = key /\ t.last.id = id /\ t.last.isNew = FALSE
        /\ t.last.ids = {} /\ t.last.loaded = {} /\ t.last.queue = {}
    BY <1>2, <2>2 DEF Fresh
  <2>4. Cached(t)
    BY <1>2, <2>2, <2>3 DEF Cached, HasRow, Knows, QueueFits
  <2> QED
    BY <2>1, <2>2, <2>4 DEF Linked
<1> QED
  BY <1>1, <1>2

LEMMA FindStationLinked ==
    ASSUME NEW s, Live(s), UniqueKeys(s.station), Linked(s), NEW key \in Stations,
           s.err = "ok" => s.last = Fresh(key), NEW canAdd \in BOOLEAN
    PROVE  Linked(FindStation(s, canAdd))
<1> DEFINE found == LookupStation(s, s.last.key)
           t == [s EXCEPT !.last.loaded = {StationCtx}]
<1>1. CASE s.err # "ok"
  BY <1>1 DEF FindStation
<1>2. CASE s.err = "ok" /\ found = {}
  <2>1. FindStation(s, canAdd) = IF canAdd THEN t ELSE Throw(s, "notfound")
    BY <1>2 DEF FindStation
  <2>2. Linked(Throw(s, "notfound"))
    BY ThrowLinked DEF Outcomes, Live
  <2>3. /\ t.station = s.station /\ t.rows = s.rows /\ t.levtr = s.levtr
        /\ t.err = s.err
        /\ t.last = [s.last EXCEPT !.loaded = {StationCtx}]
    BY DEF Live, Good, Typed
  <2> HIDE DEF t
  <2>4. /\ t.last.id = MissingId
        /\ t.last.ids = {} /\ t.last.loaded = {StationCtx} /\ t.last.queue = {}
    BY <1>2, <2>3 DEF Fresh
  <2>5. \A r \in s.rows : r.st # MissingId
    BY DEF Live, Good, Typed, DataRow, RowIds, MissingId
  <2>6. Cached(t)
    BY <2>3, <2>4, <2>5 DEF Cached, HasRow, Knows, QueueFits
  <2>7. Linked(t)
    BY <2>3, <2>6 DEF Linked
  <2> QED
    BY <2>1, <2>2, <2>7
<1>3. CASE s.err = "ok" /\ found # {}
  <2> DEFINE r == CHOOSE r \in found : TRUE
  <2>1. FindStation(s, canAdd) = SetStationId(s, r.id)
    BY <1>3 DEF FindStation, LookupStation, UniqueKeys
  <2>2. r \in s.station /\ r.key = s.last.key
    BY <1>3 DEF LookupStation
  <2> HIDE DEF r
  <2>3. r = [id |-> r.id, key |-> r.key]
    BY <2>2 DEF Live, Good, Typed, StationRow
  <2>4. [id |-> r.id, key |-> key] \in s.station
    BY <1>3, <2>2, <2>3 DEF Fresh
  <2> QED
    BY <2>1, <2>4, SetStationIdLinked DEF Live
<1> QED
  BY <1>1, <1>2, <1>3

LEMMA GetStationLinked ==
    ASSUME NEW s, Sound(s), Linked(s), NEW key \in Stations \cup {NoKey},
           NEW id \in RowIds \cup {MissingId}, NEW canAdd \in BOOLEAN
    PROVE  Linked(GetStation(s, key, id, canAdd))
<1>1. ASSUME key \in Stations
      PROVE  Linked(GetStationByKey(s, key, canAdd))
  <2> DEFINE s1 == NewStation(s, key)
  <2>1. /\ Linked(s1) /\ Live(s1) /\ UniqueKeys(s1.station)
        /\ s1.err = "ok" => s1.last = Fresh(key)
    BY <1>1, NewStationLinked, NewStationSound, NewStationGood DEF Sound
  <2>2. GetStationByKey(s, key, canAdd) =
            IF HaveStation(s, key) THEN s ELSE FindStation(s1, canAdd)
    BY DEF GetStationByKey
  <2> HIDE DEF s1
  <2> QED
    BY <1>1, <2>1, <2>2, FindStationLinked
<1>2. Linked(GetStationById(s, id))
  <2> DEFINE found == {r \in s.station : r.id = id}
             r == CHOOSE r \in found : TRUE
             s1 == NewStation(s, r.key)
  <2>1. CASE id = MissingId \/ found = {}
    <3>1. GetStationById(s, id) \in {s, Throw(s, "usage"), Throw(s, "notfound")}
      BY <2>1 DEF GetStationById
    <3> QED
      BY <3>1, ThrowLinked DEF Outcomes, Sound
  <2>2. CASE id # MissingId /\ found # {}
    <3>1. GetStationById(s, id) \in {s, SetStationId(s1, id)}
      BY <2>2 DEF GetStationById
    <3>2. r \in s.station /\ r.id = id
      BY <2>2
    <3> HIDE DEF r
    <3>3. r.key \in Stations /\ r = [id |-> id, key |-> r.key]
      BY <3>2 DEF Sound, Good, Typed, StationRow
    <3>4. /\ Linked(s1) /\ Good(s1)
          /\ s1.err = "ok" => s1.last = Fresh(r.key)
      BY <3>3, NewStationLinked, NewStationGood DEF Sound, Live
    <3>5. s.station \subseteq s1.station
      <4>1. s1.station = WritePending(s).station
        BY WritePendingGood DEF NewStation, CacheStation, Sound, Good, Typed
      <4> QED
        BY <4>1, WritePendingKeepsStations DEF Sound
    <3> HIDE DEF s1
    <3>6. [id |-> id, key |-> r.key] \in s1.station
      BY <3>2, <3>3, <3>5
    <3> QED
      BY <3>1, <3>3, <3>4, <3>6, SetStationIdLinked
  <2> QED
    BY <2>1, <2>2
<1> QED
  BY <1>1, <1>2 DEF GetStation

----------------------------------------------------------------------------
(* The cached data                                                         *)

\* Loading a context makes its rows known, unless the station is new, when it
\* has no measured values but those of the contexts loaded.
LEMMA LoadLinked ==
    ASSUME NEW s, Live(s), Linked(s), NEW ctx, s.err = "ok" => ctx \in Contexts
    PROVE  LET t == Load(s, ctx)
           IN  /\ Linked(t) /\ t.err = s.err /\ t.levtr = s.levtr
               /\ t.err = "ok" => ctx \in t.last.loaded
<1> DEFINE onDb == {r \in s.rows : r.st = s.last.id /\ r.ctx = ctx}
           found == IF ctx = StationCtx \/ ~s.last.isNew THEN onDb ELSE {}
           read == {[id |-> r.id, ctx |-> r.ctx, lt |-> r.lt,
                     code |-> r.code] : r \in found}
           t == [s EXCEPT !.last.loaded = @ \cup {ctx}, !.last.ids = @ \cup read]
<1>1. CASE s.err # "ok" \/ ctx \in s.last.loaded
  BY <1>1 DEF Load
<1>2. CASE s.err = "ok" /\ ctx \notin s.last.loaded
  <2>0. Good(s) /\ s.last \in CachedStation
    BY <1>2 DEF Live
  <2>1. Load(s, ctx) = t
    BY <1>2 DEF Load
  <2>2. onDb = found
    BY <1>2, <2>0 DEF Linked, Cached, Knows
  <2> HIDE DEF found
  <2>3. read = {IdOf(r) : r \in onDb}
    BY <2>2 DEF IdOf
  <2> HIDE DEF read
  <2>4. /\ t.station = s.station /\ t.rows = s.rows /\ t.levtr = s.levtr
        /\ t.err = s.err
        /\ t.last.id = s.last.id /\ t.last.key = s.last.key
        /\ t.last.isNew = s.last.isNew /\ t.last.queue = s.last.queue
        /\ t.last.loaded = s.last.loaded \cup {ctx}
        /\ t.last.ids = s.last.ids \cup read
    BY <2>0 DEF Good, Typed, CachedStation
  <2> HIDE DEF t
  <2>5. \A r \in onDb : IdOf(r).ctx = ctx
    BY DEF IdOf
  <2>6. Knows(t.last, t.rows)
    <3>1. ASSUME NEW i \in t.last.ids
          PROVE  i.ctx \in t.last.loaded /\ \E r \in t.rows : r.st = t.last.id /\ i = IdOf(r)
      BY <2>0, <2>3, <2>4, <2>5, <3>1 DEF Linked, Cached, Knows
    <3>2. ASSUME NEW r \in t.rows, r.st = t.last.id, r.ctx \in t.last.loaded
          PROVE  IdOf(r) \in t.last.ids
      BY <2>0, <2>3, <2>4, <3>2 DEF Linked, Cached, Knows
    <3>3. ASSUME t.last.isNew, NEW r \in t.rows, r.st = t.last.id, r.ctx # StationCtx
          PROVE  r.ctx \in t.last.loaded
      BY <2>0, <2>4, <3>3 DEF Linked, Cached, Knows
    <3> QED
      BY <3>1, <3>2, <3>3 DEF Knows
  <2>7. QueueFits(t.last, t.levtr)
    <3>1. \A q \in s.last.queue : q.ctx # ctx
      BY <1>2, <2>0 DEF Linked, Cached, QueueFits
    <3>2. \A i \in read, q \in s.last.queue : ~SameKey(i, q)
      BY <2>3, <2>5, <3>1 DEF SameKey
    <3> QED
      BY <2>0, <2>4, <3>2 DEF Linked, Cached, QueueFits
  <2>8. HasRow(t.last, t.station)
    BY <2>0, <2>4 DEF Linked, Cached, HasRow
  <2> QED
    BY <2>1, <2>4, <2>6, <2>7, <2>8 DEF Linked, Cached
<1> QED
  BY <1>1, <1>2

\* What is queued is an insert only if its key is not known.
LEMMA AddLinked ==
    ASSUME NEW s, Live(s), Linked(s), NEW ctx, NEW V, NEW mode,
           s.err = "ok" =>
              /\ ctx \in s.last.loaded
              /\ ctx # StationCtx => \A v \in V : v.lt \in IdsOf(s.levtr)
    PROVE  Linked(Add(s, ctx, V, mode))
<1> DEFINE item(v, id) == [id |-> id, ctx |-> ctx, lt |-> v.lt, code |-> v.code,
                           val |-> v.val, attr |-> v.attr]
           match(v) == {i \in s.last.ids : SameKey(i, item(v, MissingId))}
           clashes == {v \in V : mode = "ERROR" /\ match(v) # {}}
           taken == {v \in V : /\ mode = "IGNORE" => match(v) = {}
                               /\ \A w \in clashes :
                                    Before(item(v, MissingId), item(w, MissingId))}
           one(v) == item(v, IF match(v) = {} THEN MissingId
                             ELSE (CHOOSE i \in match(v) : TRUE).id)
           queued == {one(v) : v \in taken}
           replaced == {q \in s.last.queue : \E p \in queued : SameKey(p, q)}
           t == [s EXCEPT !.last.queue = (@ \ replaced) \cup queued,
                          !.err = IF clashes = {} THEN @ ELSE "exists"]
<1>1. CASE s.err # "ok"
  BY <1>1 DEF Add
<1>2. CASE s.err = "ok"
  <2>0. Good(s) /\ s.last \in CachedStation
    BY <1>2 DEF Live
  <2>1. Add(s, ctx, V, mode) = t
    BY <1>2 DEF Add
  <2>2. \A v \in V : /\ one(v).ctx = ctx /\ one(v).lt = v.lt
                     /\ one(v).id = MissingId =>
                          \A i \in s.last.ids : ~SameKey(i, one(v))
    <3> TAKE v \in V
    <3>1. \A i \in match(v) : i.id # MissingId
      BY <2>0 DEF CachedStation, KnownId, RowIds, MissingId
    <3>2. \A id : \A i \in s.last.ids :
             SameKey(i, item(v, id)) <=> SameKey(i, item(v, MissingId))
      BY DEF SameKey
    <3> QED
      BY <3>1, <3>2
  <2> HIDE DEF one, match, item
  <2>3. \A q \in queued : /\ q.ctx \in s.last.loaded
                          /\ q.id = MissingId => \A i \in s.last.ids : ~SameKey(i, q)
                          /\ q.ctx # StationCtx => q.lt \in IdsOf(s.levtr)
    BY <1>2, <2>2
  <2> HIDE DEF queued, clashes
  <2>4. /\ t.station = s.station /\ t.rows = s.rows /\ t.levtr = s.levtr
        /\ t.err \in {s.err, "exists"}
        /\ t.last.id = s.last.id /\ t.last.key = s.last.key
        /\ t.last.isNew = s.last.isNew /\ t.last.loaded = s.last.loaded
        /\ t.last.ids = s.last.ids
        /\ t.last.queue \subseteq s.last.queue \cup queued
    BY <2>0 DEF Good, Typed, CachedStation
  <2> HIDE DEF t
  <2>5. Knows(t.last, t.rows) /\ HasRow(t.last, t.station)
    BY <2>0, <2>4 DEF Linked, Cached, Knows, HasRow
  <2>6. QueueFits(t.last, t.levtr)
    BY <2>0, <2>3, <2>4 DEF Linked, Cached, QueueFits
  <2> QED
    BY <1>2, <2>1, <2>4, <2>5, <2>6 DEF Linked, Cached
<1> QED
  BY <1>1, <1>2

LEMMA ObtainLevTrsLinked ==
    ASSUME NEW s, Live(s), Linked(s), NEW L
    PROVE  /\ Linked(ObtainLevTrs(s, L))
           /\ ObtainLevTrs(s, L).last = s.last
<1>1. \E N, C : \/ ObtainLevTrs(s, L) = s
                \/ ObtainLevTrs(s, L) = [s EXCEPT !.levtr = @ \cup N, !.cache = @ \cup C]
  <2>1. CASE s.err # "ok"
    BY <2>1 DEF ObtainLevTrs
  <2>2. CASE s.err = "ok"
    <3> DEFINE uncached == {l \in L : \A c \in s.cache : c.lt # l}
               onDb == {r \in s.levtr : r.lt \in uncached}
               missing == {l \in uncached : \A r \in onDb : r.lt # l}
               new == {[id |-> Top(IdsOf(s.levtr))
                               + Cardinality({m \in missing : m <= l}),
                        lt |-> l] : l \in missing}
    <3>1. ObtainLevTrs(s, L) = [s EXCEPT !.levtr = @ \cup new, !.cache = @ \cup onDb \cup new]
      BY <2>2 DEF ObtainLevTrs
    <3> HIDE DEF new, onDb
    <3>2. s.cache \cup onDb \cup new = s.cache \cup (onDb \cup new)
      OBVIOUS
    <3> QED
      BY <3>1, <3>2
  <2> QED
    BY <2>1, <2>2
<1>2. PICK N, C : \/ ObtainLevTrs(s, L) = s
                  \/ ObtainLevTrs(s, L) = [s EXCEPT !.levtr = @ \cup N, !.cache = @ \cup C]
  BY <1>1
<1> DEFINE t == ObtainLevTrs(s, L)
<1>3. /\ t.station = s.station /\ t.rows = s.rows /\ t.last = s.last
      /\ t.err = s.err /\ s.levtr \subseteq t.levtr
  BY <1>2 DEF Live, Good, Typed
<1> HIDE DEF t
<1>4. IdsOf(s.levtr) \subseteq IdsOf(t.levtr)
  BY <1>3 DEF IdsOf
<1>5. Cached(t)
  BY <1>3, <1>4 DEF Linked, Cached, QueueFits
<1> QED
  BY <1>3, <1>5 DEF Linked, t

----------------------------------------------------------------------------
(* Each call                                                               *)

LEMMA AddStationVarsLinked ==
    ASSUME NEW s, Live(s), Linked(s), NEW V, NEW mode
    PROVE  Linked(AddStationVars(s, V, mode))
<1> DEFINE s1 == Load(s, StationCtx)
<1>1. Live(s1) /\ Linked(s1) /\ (s1.err = "ok" => StationCtx \in s1.last.loaded)
  BY LoadLive, LoadLinked DEF Contexts
<1> HIDE DEF s1
<1> QED
  BY <1>1, AddLinked DEF AddStationVars, s1

LEMMA InsertStationDataLinked ==
    ASSUME NEW s, Sound(s), Linked(s), NEW key \in Stations \cup {NoKey},
           NEW id \in RowIds \cup {MissingId},
           NEW V \in SUBSET Var, IsFiniteSet(V),
           NEW canReplace \in BOOLEAN, NEW canAdd \in BOOLEAN
    PROVE  Linked(InsertStationDataCall(s, key, id, V, canReplace, canAdd))
BY GetStationSound, GetStationLinked, AddStationVarsSound, AddStationVarsLinked,
   WritePendingLinked DEF InsertStationDataCall

\* The level of what is queued is in the table, because the cache is.
LEMMA ObtainAndAddLinked ==
    ASSUME NEW s, Sound(s), Live(s), Leveled(s), Linked(s), NEW ctx \in Contexts,
           NEW L \in SUBSET LevTrs, IsFiniteSet(L),
           NEW V, \A v \in V : v.lt \in L, NEW mode
    PROVE  Linked(AddAtLevTr(ObtainLevTrs(Load(s, ctx), L), ctx, V, mode))
<1> DEFINE s1 == Load(s, ctx)
           s2 == ObtainLevTrs(s1, L)
<1>1. /\ Sound(s1) /\ Live(s1) /\ Linked(s1)
      /\ s1.err = "ok" => ctx \in s1.last.loaded
  BY LoadSound, LoadLinked
<1>2. Leveled(s1)
  BY LoadLevels, SameLeveled DEF Sound
<1> HIDE DEF s1
<1>3. /\ Live(s2) /\ Leveled(s2) /\ Linked(s2) /\ s2.err = s1.err /\ s2.last = s1.last
      /\ s2.err = "ok" => \A l \in L : \E c \in s2.cache : c.lt = l
  BY <1>1, <1>2, ObtainLevTrsLive, ObtainLevTrsLeveled, ObtainLevTrsLinked DEF Sound
<1> HIDE DEF s2
<1>4. ASSUME s2.err = "ok", NEW v \in V PROVE LevTrId(s2, v.lt) \in IdsOf(s2.levtr)
  BY <1>3, <1>4 DEF LevTrId, IdsOf, Leveled
<1>5. s2.err = "ok" => \A w \in WithLevTr(s2, V) : w.lt \in IdsOf(s2.levtr)
  BY <1>4 DEF WithLevTr
<1> QED
  BY <1>1, <1>3, <1>5, AddLinked DEF AddAtLevTr, s1, s2

\* The record that ObtainAndAddLinked leaves is sound, too.
LEMMA ObtainAndAddSound ==
    ASSUME NEW s, Sound(s), Live(s), NEW ctx \in Contexts,
           NEW L \in SUBSET LevTrs, IsFiniteSet(L),
           NEW V, IsFiniteSet(V), \A v \in V : v.lt \in L,
           V \subseteq [lt : LevTrs, code : Codes, val : Vals, attr : BOOLEAN],
           NEW mode
    PROVE  Sound(AddAtLevTr(ObtainLevTrs(Load(s, ctx), L), ctx, V, mode))
<1> DEFINE s1 == Load(s, ctx)
           s2 == ObtainLevTrs(s1, L)
<1>1. Sound(s1) /\ Live(s1)
  BY LoadSound
<1> HIDE DEF s1
<1>2. /\ Sound(s2) /\ Live(s2)
      /\ s2.err = "ok" => \A l \in L : \E c \in s2.cache : c.lt = l
  BY <1>1, ObtainLevTrsSound
<1> HIDE DEF s2
<1>3. s2.err = "ok" => \A v \in V : \E c \in s2.cache : c.lt = v.lt
  BY <1>2
<1> QED
  BY <1>2, <1>3, AddAtLevTrSound DEF s1, s2

LEMMA InsertAtLinked ==
    ASSUME NEW s, Sound(s), Live(s), Leveled(s), Linked(s),
           NEW dt \in Datetimes \cup {NoDatetime},
           NEW lt \in LevTrs \cup {NoLevTr},
           NEW V \in SUBSET Var, IsFiniteSet(V), NEW mode
    PROVE  Linked(InsertAt(s, dt, lt, V, mode))
<1> DEFINE s1 == Load(s, dt)
           W == AtLevTr(lt, V)
           s3 == AddAtLevTr(ObtainLevTrs(s1, {lt}), dt, W, mode)
<1>1. CASE dt = NoDatetime
  BY <1>1, ThrowLinked DEF InsertAt, Sound, Outcomes
<1>2. CASE dt # NoDatetime /\ lt = NoLevTr
  <2>1. InsertAt(s, dt, lt, V, mode) = Throw(s1, "usage")
    BY <1>2 DEF InsertAt
  <2>2. Good(s1) /\ Linked(s1)
    BY <1>2, LoadSound, LoadLinked DEF Sound, Contexts
  <2> HIDE DEF s1
  <2> QED
    BY <2>1, <2>2, ThrowLinked DEF Outcomes
<1>3. CASE dt # NoDatetime /\ lt # NoLevTr
  <2>1. InsertAt(s, dt, lt, V, mode) = WritePending(s3)
    BY <1>3 DEF InsertAt
  <2>2. IsFiniteSet({lt}) /\ {lt} \in SUBSET LevTrs /\ dt \in Contexts
    BY <1>3, FS_Singleton DEF Contexts
  <2>3. /\ W \subseteq [lt : {lt}, code : Codes, val : Vals, attr : BOOLEAN]
        /\ IsFiniteSet(W)
    BY AtLevTrType
  <2> HIDE DEF W
  <2>4. /\ \A w \in W : w.lt \in {lt}
        /\ W \subseteq [lt : LevTrs, code : Codes, val : Vals, attr : BOOLEAN]
    BY <2>2, <2>3
  <2>5. Linked(s3)
    BY <2>2, <2>4, ObtainAndAddLinked
  <2>6. Sound(s3)
    BY <2>2, <2>3, <2>4, ObtainAndAddSound
  <2> HIDE DEF s3
  <2> QED
    BY <2>1, <2>5, <2>6, WritePendingLinked
<1> QED
  BY <1>1, <1>2, <1>3

LEMMA InsertDataLinked ==
    ASSUME NEW s, Sound(s), Leveled(s), Linked(s), NEW key \in Stations \cup {NoKey},
           NEW id \in RowIds \cup {MissingId},
           NEW dt \in Datetimes \cup {NoDatetime},
           NEW lt \in LevTrs \cup {NoLevTr},
           NEW V \in SUBSET Var, IsFiniteSet(V),
           NEW canReplace \in BOOLEAN, NEW canAdd \in BOOLEAN
    PROVE  Linked(InsertDataCall(s, key, id, dt, lt, V, canReplace, canAdd))
<1>1. Linked(Throw(s, "empty"))
  BY ThrowLinked DEF Sound, Outcomes
<1> QED
  BY <1>1, GetStationSound, GetStationLeveled, GetStationLinked, InsertAtLinked
     DEF InsertDataCall

LEMMA AddMsgToBatchLinked ==
    ASSUME NEW s, Sound(s), Leveled(s), Linked(s), NEW m, MessageType(m), NEW o
    PROVE  Linked(AddMsgToBatch(s, m, o))
<1>1. CASE m.key = NoKey
  BY <1>1, ThrowLinked DEF AddMsgToBatch, Sound, Outcomes
<1>2. CASE m.key # NoKey
  <2> DEFINE s1 == GetStation(s, m.key, MissingId, TRUE)
             s2 == AddMsgStation(s1, m, o)
             L == {d.lt : d \in m.data}
             f == [d \in m.data |-> d.lt]
  <2>1. AddMsgToBatch(s, m, o) = AddMsgData(s2, m, o)
    BY <1>2 DEF AddMsgToBatch
  <2>2. Sound(s1) /\ Live(s1) /\ Leveled(s1) /\ Linked(s1)
    BY <1>2, GetStationSound, GetStationLeveled, GetStationLinked DEF MessageType
  <2> HIDE DEF s1
  <2>3. Sound(s2) /\ Live(s2) /\ Leveled(s2) /\ Linked(s2)
    BY <2>2, AddMsgStationSound, AddStationVarsLeveled, AddStationVarsLinked
       DEF AddMsgStation
  <2> HIDE DEF s2
  <2>4. L \in SUBSET LevTrs /\ \A d \in m.data : d.lt \in L
    BY DEF MessageType
  <2>5. IsFiniteSet(L)
    <3>1. DOMAIN f = m.data /\ L = {f[d] : d \in m.data}
      OBVIOUS
    <3>2. IsFiniteSet(m.data)
      BY DEF MessageType
    <3> HIDE DEF f, L
    <3> QED
      BY <3>1, <3>2, ImageFinite
  <2>6. AddMsgData(s2, m, o) =
            IF m.data = {} THEN s2
            ELSE IF m.dt = NoDatetime THEN Throw(s2, "notfound")
            ELSE AddAtLevTr(ObtainLevTrs(Load(s2, m.dt), L), m.dt, m.data, ImportMode(o))
    BY DEF AddMsgData
  <2> HIDE DEF L
  <2>7. Linked(Throw(s2, "notfound"))
    BY <2>3, ThrowLinked DEF Sound, Outcomes
  <2>8. m.dt # NoDatetime => m.dt \in Contexts
    BY DEF MessageType, Contexts
  <2> QED
    BY <2>1, <2>3, <2>4, <2>5, <2>6, <2>7, <2>8, ObtainAndAddLinked
<1> QED
  BY <1>1, <1>2

LEMMA SetWriteAttrsLinked ==
    ASSUME NEW s, Sound(s), Linked(s), NEW b
    PROVE  Linked(SetWriteAttrs(s, b))
<1>1. LET t == SetWriteAttrs(s, b)
      IN  /\ t.station = s.station /\ t.levtr = s.levtr /\ t.rows = s.rows
          /\ t.err = s.err /\ t.last \in {s.last, NoStation}
  BY DEF SetWriteAttrs, Sound, Good, Typed
<1> QED
  BY <1>1, NoStationAssumption DEF Linked, Cached

LEMMA ImportMessageLinked ==
    ASSUME NEW s, Sound(s), Leveled(s), Linked(s), NEW m, MessageType(m),
           NEW o \in ImportOptions
    PROVE  Linked(ImportMessageCall(s, m, o))
<1> DEFINE s1 == SetWriteAttrs(s, o.importAttributes)
<1>1. Sound(s1) /\ Leveled(s1) /\ Linked(s1)
  BY SetWriteAttrsSound, SetWriteAttrsLeveled, SetWriteAttrsLinked DEF ImportOptions
<1> HIDE DEF s1
<1> QED
  BY <1>1, AddMsgToBatchSound, AddMsgToBatchLinked, WritePendingLinked
     DEF ImportMessageCall, s1

LEMMA ImportMessagesLinked ==
    ASSUME NEW s, Sound(s), Leveled(s), Linked(s), NEW m1, MessageType(m1),
           NEW m2, MessageType(m2), NEW o \in ImportOptions
    PROVE  Linked(ImportMessagesCall(s, m1, m2, o))
<1> DEFINE s1 == SetWriteAttrs(s, o.importAttributes)
           s2 == AddMsgToBatch(s1, m1, o)
<1>1. Sound(s1) /\ Leveled(s1) /\ Linked(s1)
  BY SetWriteAttrsSound, SetWriteAttrsLeveled, SetWriteAttrsLinked DEF ImportOptions
<1> HIDE DEF s1
<1>2. Sound(s2) /\ Leveled(s2) /\ Linked(s2)
  BY <1>1, AddMsgToBatchSound, AddMsgToBatchLeveled, AddMsgToBatchLinked
<1> HIDE DEF s2
<1> QED
  BY <1>2, AddMsgToBatchSound, AddMsgToBatchLinked, WritePendingLinked
     DEF ImportMessagesCall, s1, s2

----------------------------------------------------------------------------
(* Each action                                                             *)

\* Linked(Here), without the record of module Batch.
CacheLinked ==
    /\ Filed(station, rows)
    /\ last \in CachedStation => /\ HasRow(last, station)
                                 /\ Knows(last, rows)
                                 /\ QueueFits(last, levtr)

\* The inductive invariant behind CacheMirrorsDb and NoSqlError: values are of
\* stations that exist, in the tables that a rollback brings back too, and
\* outside a transaction no station is cached.
CacheInv ==
    /\ LevelInv
    /\ CacheLinked
    /\ res # "sql"
    /\ Filed(saved.station, saved.rows)
    /\ fired => last = NoStation

\* What each action adds to LevelInv'.
CacheGoal ==
    /\ CacheLinked'
    /\ res' # "sql"
    /\ Filed(saved'.station, saved'.rows)
    /\ fired' => last' = NoStation

LEMMA HereLinked == CacheLinked <=> Linked(Here)
BY DEF CacheLinked, Linked, Cached, Here

\* What a call that throws leaves in the queue is queued for the same keys.
LEMMA AbandonLinked ==
    ASSUME NEW L \in CachedStation, NEW S, NEW R, NEW T,
           HasRow(L, S), Knows(L, R), QueueFits(L, T)
    PROVE  /\ HasRow(Abandon(L), S) /\ Knows(Abandon(L), R)
           /\ QueueFits(Abandon(L), T)
<1> DEFINE Q == {[q EXCEPT !.val = Garbage] : q \in L.queue}
<1>1. L # NoStation
  BY NoStationAssumption
<1>2. Abandon(L) = [L EXCEPT !.queue = Q]
  BY <1>1 DEF Abandon
<1>3. \A q \in Q : \E p \in L.queue :
         q.id = p.id /\ q.ctx = p.ctx /\ q.lt = p.lt /\ q.code = p.code
  <2> SUFFICES ASSUME NEW p \in L.queue
               PROVE  LET q == [p EXCEPT !.val = Garbage]
                      IN  q.id = p.id /\ q.ctx = p.ctx /\ q.lt = p.lt /\ q.code = p.code
    OBVIOUS
  <2>1. p \in Datum
    BY DEF CachedStation
  <2> QED
    BY <2>1 DEF Datum
<1> HIDE DEF Q
<1>4. LET K == Abandon(L)
      IN  /\ K.id = L.id /\ K.key = L.key /\ K.isNew = L.isNew
          /\ K.loaded = L.loaded /\ K.ids = L.ids /\ K.queue = Q
  BY <1>2 DEF CachedStation
<1>5. QueueFits(Abandon(L), T)
  <2> SUFFICES ASSUME NEW q \in Q
               PROVE  /\ q.ctx \in L.loaded
                      /\ q.id = MissingId => \A i \in L.ids : ~SameKey(i, q)
                      /\ q.ctx # StationCtx => q.lt \in IdsOf(T)
    BY <1>4 DEF QueueFits
  <2>1. PICK p \in L.queue :
           q.id = p.id /\ q.ctx = p.ctx /\ q.lt = p.lt /\ q.code = p.code
    BY <1>3
  <2>2. \A i : SameKey(i, q) <=> SameKey(i, p)
    BY <2>1 DEF SameKey
  <2> QED
    BY <2>1, <2>2 DEF QueueFits
<1> QED
  BY <1>4, <1>5 DEF HasRow, Knows

\* A call that computes a sound and linked record.
LEMMA CallLinked ==
    ASSUME CacheInv, NEW s, Sound(s), Linked(s), Call(s)
    PROVE  CacheGoal
<1>1. /\ station' = s.station /\ levtr' = s.levtr /\ rows' = s.rows
      /\ res' = s.err /\ last' \in {s.last, Abandon(s.last)}
      /\ ~fired' /\ saved' = saved
  BY DEF Call, Return
<1>2. CASE s.last = NoStation
  <2>1. last' = NoStation
    BY <1>1, <1>2 DEF Abandon
  <2> QED
    BY <1>1, <2>1, NoStationAssumption DEF CacheInv, CacheGoal, CacheLinked, Linked
<1>3. CASE s.last # NoStation
  <2>1. s.last \in CachedStation
    BY <1>3 DEF Sound, Good, Typed
  <2>2. HasRow(s.last, s.station) /\ Knows(s.last, s.rows) /\ QueueFits(s.last, s.levtr)
    BY <2>1 DEF Linked, Cached
  <2>3. /\ HasRow(last', s.station) /\ Knows(last', s.rows)
        /\ QueueFits(last', s.levtr)
    BY <1>1, <2>1, <2>2, AbandonLinked
  <2> QED
    BY <1>1, <2>3 DEF CacheInv, CacheGoal, CacheLinked, Linked
<1> QED
  BY <1>2, <1>3

\* An action that forgets the cached station, or finds and leaves none.
LEMMA ForgottenLinked ==
    ASSUME Filed(station', rows'), Filed(saved'.station, saved'.rows),
           res' # "sql", last' = NoStation
    PROVE  CacheGoal
BY NoStationAssumption DEF CacheGoal, CacheLinked

LEMMA DeleteLinked ==
    ASSUME CacheInv, NEW D, DeleteRows(D)
    PROVE  CacheGoal
<1>1. Filed(station', rows')
  BY DEF DeleteRows, CacheInv, CacheLinked, Filed
<1> QED
  BY <1>1, ForgottenLinked DEF DeleteRows, CacheInv

\* Attributes have no part in what is known of a row.
LEMMA SetAttrsLinked ==
    ASSUME CacheInv, NEW ofStation, NEW id, NEW b, SetAttrs(ofStation, id, b)
    PROVE  CacheGoal
<1> DEFINE new(r) == IF r.id = id /\ (r.ctx = StationCtx) = ofStation
                     THEN [r EXCEPT !.attr = b] ELSE r
<1>1. /\ rows' = {new(r) : r \in rows} /\ ~fired' /\ res' = "ok"
      /\ station' = station /\ levtr' = levtr /\ last' = last /\ saved' = saved
  BY DEF SetAttrs
<1>2. \A r \in rows : /\ new(r).st = r.st /\ new(r).ctx = r.ctx
                      /\ IdOf(new(r)) = IdOf(r)
  <2> TAKE r \in rows
  <2>1. r \in DataRow
    BY DEF CacheInv, LevelInv, Inv, TypeOK
  <2>2. LET n == [r EXCEPT !.attr = b]
        IN  n.st = r.st /\ n.ctx = r.ctx /\ IdOf(n) = IdOf(r)
    BY <2>1 DEF DataRow, IdOf
  <2> QED
    BY <2>2
<1> HIDE DEF new
<1>3. Filed(station', rows')
  BY <1>1, <1>2 DEF Filed, CacheInv, CacheLinked
<1>4. ASSUME Knows(last, rows) PROVE Knows(last, rows')
  <2>1. ASSUME NEW i \in last.ids PROVE \E r \in rows' : r.st = last.id /\ i = IdOf(r)
    <3>1. PICK r \in rows : r.st = last.id /\ i = IdOf(r)
      BY <1>4 DEF Knows
    <3> QED
      BY <1>1, <1>2, <3>1
  <2>2. ASSUME NEW n \in rows'
        PROVE  \E r \in rows : n.st = r.st /\ n.ctx = r.ctx /\ IdOf(n) = IdOf(r)
    BY <1>1, <1>2
  <2> QED
    BY <1>4, <2>1, <2>2 DEF Knows
<1> QED
  BY <1>1, <1>3, <1>4 DEF CacheInv, CacheLinked, CacheGoal

\* A vacuum removes no station that has a value left.
LEMMA VacuumLinked ==
    ASSUME CacheInv, Vacuum
    PROVE  CacheGoal
<1> DEFINE live == {r.st : r \in {x \in rows : x.ctx # StationCtx}}
<1>1. /\ fired /\ last' = last /\ res' = "ok"
      /\ rows' = {r \in rows : r.st \in live}
      /\ station' = {r \in station : r.id \in live}
      /\ saved'.station = station' /\ saved'.rows = rows'
  BY DEF Vacuum
<1> HIDE DEF live
<1>2. Filed(station', rows')
  BY <1>1 DEF CacheInv, CacheLinked, Filed, IdsOf
<1> QED
  BY <1>1, <1>2, ForgottenLinked DEF CacheInv

LEMMA NextLinked ==
    ASSUME CacheInv, [Next]_vars
    PROVE  CacheGoal
<1>0. Sound(Here) /\ Leveled(Here) /\ Linked(Here)
  BY HereLinked
     DEF CacheInv, LevelInv, Inv, Leveled, LevTrCacheMirrorsDb, UniqueLevels, Here
<1>1. ASSUME NEW ref \in StationRef, NEW V \in StationVarSets,
             NEW cr \in BOOLEAN, NEW ca \in BOOLEAN,
             InsertStationData(ref[1], ref[2], V, cr, ca)
      PROVE  CacheGoal
  <2>1. ref[1] \in Stations \cup {NoKey} /\ ref[2] \in RowIds \cup {MissingId}
    BY MaxIdAssumption DEF StationRef, Ids, RowIds, MissingId
  <2>2. V \in SUBSET Var /\ IsFiniteSet(V)
    BY VarSetsAssumption
  <2> DEFINE s == InsertStationDataCall(Here, ref[1], ref[2], V, cr, ca)
  <2>3. Sound(s) /\ Linked(s)
    BY <1>0, <2>1, <2>2, InsertStationDataSound, InsertStationDataLinked
  <2>4. Call(s)
    BY <1>1 DEF InsertStationData
  <2> HIDE DEF s
  <2> QED
    BY <2>3, <2>4, CallLinked
<1>2. ASSUME NEW ref \in StationRef, NEW V \in VarSets,
             NEW cr \in BOOLEAN, NEW ca \in BOOLEAN,
             NEW dt \in Datetimes \cup {NoDatetime},
             NEW lt \in LevTrs \cup {NoLevTr},
             InsertData(ref[1], ref[2], dt, lt, V, cr, ca)
      PROVE  CacheGoal
  <2>1. ref[1] \in Stations \cup {NoKey} /\ ref[2] \in RowIds \cup {MissingId}
    BY MaxIdAssumption DEF StationRef, Ids, RowIds, MissingId
  <2>2. V \in SUBSET Var /\ IsFiniteSet(V)
    BY VarSetsAssumption
  <2> DEFINE s == InsertDataCall(Here, ref[1], ref[2], dt, lt, V, cr, ca)
  <2>3. Sound(s) /\ Linked(s)
    BY <1>0, <2>1, <2>2, InsertDataSound, InsertDataLinked
  <2>4. Call(s)
    BY <1>2 DEF InsertData
  <2> HIDE DEF s
  <2> QED
    BY <2>3, <2>4, CallLinked
<1>3. ASSUME NEW m \in Messages, NEW o \in ImportOptions, ImportMessage(m, o)
      PROVE  CacheGoal
  <2>1. MessageType(m)
    BY MessagesAssumption DEF MessageType
  <2>2. Sound(ImportMessageCall(Here, m, o)) /\ Linked(ImportMessageCall(Here, m, o))
    BY <1>0, <2>1, ImportMessageSound, ImportMessageLinked
  <2> QED
    BY <1>3, <2>2, CallLinked DEF ImportMessage
<1>4. ASSUME NEW m \in Messages, NEW o \in ImportOptions,
             NEW m2 \in Messages, ImportMessages(m, m2, o)
      PROVE  CacheGoal
  <2>1. MessageType(m) /\ MessageType(m2)
    BY MessagesAssumption DEF MessageType
  <2>2. /\ Sound(ImportMessagesCall(Here, m, m2, o))
        /\ Linked(ImportMessagesCall(Here, m, m2, o))
    BY <1>0, <2>1, ImportMessagesSound, ImportMessagesLinked
  <2> QED
    BY <1>4, <2>2, CallLinked DEF ImportMessages
<1>5. ASSUME NEW q \in Queries, RemoveStationData(q) \/ RemoveData(q)
      PROVE  CacheGoal
  BY <1>5, DeleteLinked DEF RemoveStationData, RemoveData
<1>6. ASSUME NEW id \in Ids, RemoveStationDataById(id) \/ RemoveDataById(id)
      PROVE  CacheGoal
  BY <1>6, DeleteLinked DEF RemoveStationDataById, RemoveDataById
<1>7. ASSUME NEW id \in AttrTargets, NEW b \in BOOLEAN,
             AttrInsert(b, id) \/ AttrRemove(b, id)
      PROVE  CacheGoal
  BY <1>7, SetAttrsLinked DEF AttrInsert, AttrRemove
<1>8. CASE RemoveAll
  BY <1>8, ForgottenLinked DEF RemoveAll, CacheInv, Filed
<1>9. CASE Begin
  BY <1>9, ForgottenLinked DEF Begin, Tables, CacheInv, CacheLinked
<1>10. CASE Commit
  BY <1>10, ForgottenLinked DEF Commit, Tables, CacheInv, CacheLinked
<1>11. CASE Rollback
  BY <1>11, ForgottenLinked DEF Rollback, CacheInv
<1>12. CASE Vacuum
  BY <1>12, VacuumLinked
<1>13. CASE UNCHANGED vars
  BY <1>13 DEF vars, CacheInv, CacheGoal, CacheLinked
<1> QED
  BY <1>1, <1>2, <1>3, <1>4, <1>5, <1>6, <1>7, <1>8, <1>9, <1>10, <1>11,
     <1>12, <1>13 DEF Next

LEMMA InitCacheInv == Init => CacheInv
BY InitLevelInv, NoStationAssumption DEF Init, CacheInv, CacheLinked, Filed

LEMMA NextCacheInv == CacheInv /\ [Next]_vars => CacheInv'
<1> SUFFICES ASSUME CacheInv, [Next]_vars PROVE CacheInv'
  OBVIOUS
<1>1. LevelInv'
  BY NextLevelInv DEF CacheInv
<1> QED
  BY <1>1, NextLinked DEF CacheInv, CacheGoal, Filed

\* What is known says what CacheMirrorsDb does.
LEMMA InvMirrors == CacheInv => CacheMirrorsDb
<1> SUFFICES ASSUME CacheInv, last # NoStation PROVE CacheMirrorsDb
  BY DEF CacheMirrorsDb
<1>1. last \in CachedStation /\ HasRow(last, station) /\ Knows(last, rows)
  BY DEF CacheInv, CacheLinked, LevelInv, Inv, TypeOK
<1>2. last.id = MissingId => \A r \in station : r.key # last.key
  BY <1>1 DEF CacheInv, LevelInv, Inv, Sound, KnowsStation, Here
<1>3. \A r : IdOf(r).ctx = r.ctx
  BY DEF IdOf
<1>4. ASSUME NEW ctx \in last.loaded
      PROVE  {i \in last.ids : i.ctx = ctx} =
             {IdOf(r) : r \in {x \in rows : x.st = last.id /\ x.ctx = ctx}}
  <2>1. ASSUME NEW i \in last.ids, i.ctx = ctx
        PROVE  \E r \in rows : r.st = last.id /\ r.ctx = ctx /\ i = IdOf(r)
    <3>1. PICK r \in rows : r.st = last.id /\ i = IdOf(r)
      BY <1>1 DEF Knows
    <3> QED
      BY <1>3, <2>1, <3>1
  <2>2. ASSUME NEW r \in rows, r.st = last.id, r.ctx = ctx
        PROVE  IdOf(r) \in last.ids /\ IdOf(r).ctx = ctx
    BY <1>1, <1>3, <1>4, <2>2 DEF Knows
  <2> QED
    BY <2>1, <2>2
<1> QED
  BY <1>1, <1>2, <1>4 DEF CacheMirrorsDb, HasRow, Knows, IdOf

----------------------------------------------------------------------------
(* What the program can rely on                                            *)

\* Whatever calls a program makes, with whatever arguments, and whichever of
\* them throw halfway through batch.cc, what the batch has cached of a station
\* (its id, the contexts it has loaded and the ids of the values in them) is
\* what the tables hold: removals, rollbacks and calls that leave a queue
\* behind included.
THEOREM CacheTruthful == Spec => []CacheMirrorsDb
BY InvMirrors, InitCacheInv, NextCacheInv, PTL DEF Spec

\* So no call ends in an error of the database: what write_pending
\* (batch.cc:187-261) inserts is never there already, and is filed under a
\* station and a level that are.
THEOREM NothingIsRefused == Spec => []NoSqlError
<1>1. CacheInv => NoSqlError
  BY DEF CacheInv, NoSqlError
<1> QED
  BY <1>1, InitCacheInv, NextCacheInv, PTL DEF Spec

----------------------------------------------------------------------------
(***************************************************************************)
(* What calls do to rows. No row changes place: of its id, station,        *)
(* context, level and code, only removals take any away. If nothing is     *)
(* queued but inserts no row changes at all. And no two rows of a table    *)
(* have the same id: that a new row gets the rank of its datum in the      *)
(* queue, after the last row, gives every datum an id of its own.          *)
(***************************************************************************)

SamePlace(r, x) == /\ x.id = r.id /\ x.st = r.st /\ x.ctx = r.ctx
                   /\ x.lt = r.lt /\ x.code = r.code

\* The primary keys.
UniqueRows(R) == \A a, b \in R : SameTable(a, b) /\ a.id = b.id => a = b
UniqueIds(T) == \A a, b \in T : a.id = b.id => a = b

OneQueued(L) == \A p, q \in L.queue : SameKey(p, q) => p = q
OnlyInserts(s) == s.last \in CachedStation => Updates(s.last) = {}

\* The foreign key of measured values.
LevelsFiled(R, T) == \A r \in R : r.ctx # StationCtx => r.lt \in IdsOf(T)

Keyed(s) == /\ UniqueRows(s.rows) /\ LevelsFiled(s.rows, s.levtr)
            /\ s.last \in CachedStation => OneQueued(s.last)
            /\ s.cache \subseteq s.levtr /\ UniqueIds(s.levtr)

\* What a step that queues in the given mode may do.
Tame(s, t, mode) ==
    /\ \A r \in s.rows : \E x \in t.rows : SamePlace(r, x)
    /\ mode # "UPDATE" /\ OnlyInserts(s) => s.rows \subseteq t.rows /\ OnlyInserts(t)
    /\ Keyed(s) => Keyed(t)

LEMMA TameThenTame ==
    ASSUME NEW s, NEW t, NEW u, NEW mode, Tame(s, t, mode), Tame(t, u, mode)
    PROVE  Tame(s, u, mode)
BY DEF Tame, SamePlace

\* Steps that leave rows and levels alone, and queue nothing.
LEMMA QuietTame ==
    ASSUME NEW s, NEW t, NEW mode, t.rows = s.rows, SameLevels(s, t),
           t.last \in CachedStation =>
              t.last.queue = {} \/ (s.last \in CachedStation /\ t.last.queue = s.last.queue)
    PROVE  Tame(s, t, mode)
BY DEF Tame, SamePlace, SameLevels, Keyed, OneQueued, OnlyInserts, Updates

LEMMA ThrowTame ==
    ASSUME NEW s, Good(s), NEW kind, NEW mode
    PROVE  Tame(s, Throw(s, kind), mode)
<1>1. LET t == Throw(s, kind)
      IN  t.rows = s.rows /\ t.last = s.last /\ SameLevels(s, t)
  BY DEF Throw, Good, Typed, SameLevels
<1> QED
  BY <1>1, QuietTame

LEMMA InsertStationTame ==
    ASSUME NEW s, Good(s), s.last \in CachedStation, NEW mode
    PROVE  Tame(s, InsertStation(s), mode)
<1>1. PICK N, i : \/ InsertStation(s) = s \/ InsertStation(s) = Throw(s, "sql")
                  \/ InsertStation(s) = [s EXCEPT !.station = N, !.last.id = i]
  BY DEF InsertStation
<1>2. ASSUME InsertStation(s) = [s EXCEPT !.station = N, !.last.id = i]
      PROVE  Tame(s, InsertStation(s), mode)
  <2>1. LET t == InsertStation(s)
        IN  t.rows = s.rows /\ SameLevels(s, t) /\ t.last.queue = s.last.queue
    BY <1>2 DEF Good, Typed, SameLevels, CachedStation
  <2> QED
    BY <2>1, QuietTame
<1>3. Tame(s, s, mode)
  BY QuietTame DEF SameLevels
<1>4. Tame(s, Throw(s, "sql"), mode)
  BY ThrowTame
<1> QED
  BY <1>1, <1>2, <1>3, <1>4, Zenon

----------------------------------------------------------------------------
(* Ids of new rows                                                         *)

\* A set that has all of another one and something else has more.
LEMMA StrictlyMore ==
    ASSUME NEW P, NEW Q, P \subseteq Q, NEW q \in Q, q \notin P, IsFiniteSet(Q)
    PROVE  /\ Cardinality(P) \in Nat /\ Cardinality(Q) \in Nat
           /\ Cardinality(P) < Cardinality(Q)
<1>1. IsFiniteSet(P) /\ Cardinality(P) <= Cardinality(Q) /\ Cardinality(P) # Cardinality(Q)
  BY FS_Subset
<1> QED
  BY <1>1, FS_CardinalityType

\* The order of the queue is total on what is queued for one table.
LEMMA BeforeOrders ==
    ASSUME NEW p \in Datum, NEW q \in Datum, NEW r \in Datum
    PROVE  /\ ~(Before(p, q) /\ Before(q, p)) /\ ~Before(p, p)
           /\ Before(p, q) /\ Before(q, r) => Before(p, r)
           /\ SameTable(p, q) /\ ~SameKey(p, q) => Before(p, q) \/ Before(q, p)
<1>1. ASSUME NEW d \in Datum
      PROVE  (d.ctx # StationCtx => d.ctx \in Nat) /\ d.lt \in Nat /\ d.code \in Nat
  <2>1. d.ctx \in Datetimes \cup {StationCtx} /\ d.lt \in (Nat \ {0}) \cup {0} /\ d.code \in Codes
    BY <1>1 DEF Datum, Contexts, RowIds, MissingId
  <2>2. d.code \in Nat
    BY <2>1, OrderAssumption
  <2>3. d.ctx \in Datetimes => d.ctx \in Nat
    BY OrderAssumption
  <2> QED
    BY <2>1, <2>2, <2>3
<1> QED
  BY <1>1 DEF Before, SameTable, SameKey

\* The rank of a datum among those queued for its table.
Rank(s, q) == {p \in Inserts(s.last) : SameTable(p, q) /\ (p = q \/ Before(p, q))}

LEMMA RankFinite ==
    ASSUME NEW s, Good(s), s.last \in CachedStation, NEW q
    PROVE  IsFiniteSet(Rank(s, q))
<1>1. Rank(s, q) \in SUBSET s.last.queue /\ IsFiniteSet(s.last.queue)
  BY DEF Rank, Inserts, Good, Finite
<1> QED
  BY <1>1, FS_Subset

LEMMA RankOrders ==
    ASSUME NEW s, Good(s), s.last \in CachedStation,
           NEW p \in Inserts(s.last), NEW q \in Inserts(s.last),
           SameTable(p, q), Before(p, q)
    PROVE  Cardinality(Rank(s, p)) \in Nat /\ Cardinality(Rank(s, q)) \in Nat
           /\ Cardinality(Rank(s, p)) < Cardinality(Rank(s, q))
<1>1. Inserts(s.last) \subseteq Datum
  BY DEF Inserts, CachedStation
<1>2. Rank(s, p) \subseteq Rank(s, q)
  <2> SUFFICES ASSUME NEW d \in Rank(s, p) PROVE d \in Rank(s, q)
    OBVIOUS
  <2>1. d \in Inserts(s.last) /\ SameTable(d, p) /\ (d = p \/ Before(d, p))
    BY DEF Rank
  <2>2. Before(d, q)
    BY <1>1, <2>1, BeforeOrders
  <2>3. SameTable(d, q)
    BY <2>1 DEF SameTable
  <2> QED
    BY <2>1, <2>2, <2>3 DEF Rank
<1>3. q \in Rank(s, q) /\ q \notin Rank(s, p)
  BY <1>1, BeforeOrders DEF Rank, SameTable
<1> QED
  BY <1>2, <1>3, RankFinite, StrictlyMore

LEMMA NewIdsDiffer ==
    ASSUME NEW s, Good(s), s.last \in CachedStation, OneQueued(s.last),
           NEW p \in Inserts(s.last), NEW q \in Inserts(s.last), SameTable(p, q), p # q
    PROVE  NewRowId(s, p) # NewRowId(s, q)
<1>1. p \in Datum /\ q \in Datum /\ ~SameKey(p, q)
  BY DEF Inserts, CachedStation, OneQueued
<1>2. Before(p, q) \/ Before(q, p)
  BY <1>1, BeforeOrders
<1>3. /\ Cardinality(Rank(s, p)) # Cardinality(Rank(s, q))
      /\ Cardinality(Rank(s, p)) \in Nat /\ Cardinality(Rank(s, q)) \in Nat
  <2>1. CASE Before(p, q)
    BY <2>1, RankOrders
  <2>2. CASE Before(q, p)
    <3>1. SameTable(q, p)
      BY DEF SameTable
    <3> QED
      BY <2>2, <3>1, RankOrders
  <2> QED
    BY <1>2, <2>1, <2>2
<1> DEFINE T(d) == {r.id : r \in {x \in s.rows : SameTable(x, d)}}
<1>4. T(p) = T(q)
  BY DEF SameTable
<1>5. NewRowId(s, p) = Top(T(p)) + Cardinality(Rank(s, p))
      /\ NewRowId(s, q) = Top(T(q)) + Cardinality(Rank(s, q))
  BY DEF NewRowId, Rank
<1>6. Top(T(p)) \in Nat
  <2>1. IsFiniteSet({x \in s.rows : SameTable(x, p)})
    BY FS_Subset DEF Good, Finite
  <2>2. \A r \in {x \in s.rows : SameTable(x, p)} : r.id \in RowIds
    BY DEF Good, Typed, DataRow
  <2>3. T(p) = IdsOf({x \in s.rows : SameTable(x, p)})
    BY DEF IdsOf
  <2>4. IsFiniteSet(T(p)) /\ T(p) \in SUBSET Nat
    <3> HIDE DEF T
    <3> QED
      BY <2>1, <2>2, <2>3, IdsFinite
  <2> HIDE DEF T
  <2> QED
    BY <2>4, TopType
<1> HIDE DEF T
<1> QED
  BY <1>3, <1>4, <1>5, <1>6

\* And they are those of no row.
LEMMA NewIdIsNew ==
    ASSUME NEW s, Good(s), s.last \in CachedStation,
           NEW q \in Inserts(s.last), NEW r \in s.rows, SameTable(r, q)
    PROVE  NewRowId(s, q) # r.id
<1> DEFINE R == {x \in s.rows : SameTable(x, q)}
           T == {x.id : x \in R}
<1>1. NewRowId(s, q) = Top(T) + Cardinality(Rank(s, q))
  BY DEF NewRowId, Rank
<1>2. r.id \in T
  OBVIOUS
<1>3. IsFiniteSet(T) /\ T \in SUBSET Nat
  <2>1. IsFiniteSet(R)
    BY FS_Subset DEF Good, Finite
  <2>2. \A x \in R : x.id \in RowIds
    BY DEF Good, Typed, DataRow
  <2>3. T = IdsOf(R)
    BY DEF IdsOf
  <2> HIDE DEF R, T
  <2> QED
    BY <2>1, <2>2, <2>3, IdsFinite
<1>4. Cardinality(Rank(s, q)) \in Nat /\ Cardinality(Rank(s, q)) # 0
  <2>1. q \in Rank(s, q)
    BY DEF Rank, SameTable
  <2> QED
    BY <2>1, RankFinite, FS_CardinalityType, FS_EmptySet
<1> HIDE DEF T
<1>5. Top(T) \in Nat /\ r.id <= Top(T) /\ r.id \in Nat
  BY <1>2, <1>3, TopType
<1> QED
  BY <1>1, <1>4, <1>5


LEMMA InsertRowsTame ==
    ASSUME NEW s, Good(s), s.last \in CachedStation, NEW mode
    PROVE  Tame(s, InsertRows(s), mode)
<1> DEFINE row(q) == [id |-> NewRowId(s, q), st |-> s.last.id, ctx |-> q.ctx,
                      lt |-> q.lt, code |-> q.code, val |-> q.val,
                      attr |-> q.attr /\ s.attrs]
           new == {row(q) : q \in Inserts(s.last)}
           t == InsertRows(s)
<1>1. CASE s.err # "ok"
  <2>1. t = s
    BY <1>1 DEF InsertRows
  <2> QED
    BY <2>1, QuietTame DEF SameLevels
<1>2. CASE s.err = "ok" /\ BreaksConstraint(s)
  <2>1. t = Throw(s, "sql")
    BY <1>2 DEF InsertRows
  <2> QED
    BY <2>1, ThrowTame
<1>3. CASE s.err = "ok" /\ ~BreaksConstraint(s)
  <2>1. PICK I : t = [s EXCEPT !.rows = @ \cup new, !.last.ids = I]
    BY <1>3 DEF InsertRows
  <2>2. \A q \in Inserts(s.last) : /\ row(q).id = NewRowId(s, q) /\ row(q).ctx = q.ctx
                                   /\ row(q).lt = q.lt
    OBVIOUS
  <2>3. \A a \in new : \E q \in Inserts(s.last) : a = row(q)
    OBVIOUS
  <2> HIDE DEF row, new
  <2>4. /\ t.rows = s.rows \cup new /\ SameLevels(s, t)
        /\ t.last.queue = s.last.queue
    BY <2>1 DEF Good, Typed, CachedStation, SameLevels
  <2> HIDE DEF t
  <2>5. ASSUME Keyed(s)
        PROVE  UniqueRows(t.rows)
    <3> SUFFICES ASSUME NEW a \in t.rows, NEW b \in t.rows, SameTable(a, b), a.id = b.id
                 PROVE  a = b
      BY DEF UniqueRows
    <3>1. CASE a \in s.rows /\ b \in s.rows
      BY <2>5, <3>1 DEF Keyed, UniqueRows
    <3>2. ASSUME a \in new, b \in new
          PROVE  a = b
      <4>1. PICK p \in Inserts(s.last), q \in Inserts(s.last) : a = row(p) /\ b = row(q)
        BY <2>3, <3>2
      <4>2. SameTable(p, q) /\ NewRowId(s, p) = NewRowId(s, q)
        BY <2>2, <4>1 DEF SameTable
      <4>3. p = q
        BY <2>5, <4>2, NewIdsDiffer DEF Keyed
      <4> QED
        BY <4>1, <4>3
    <3>3. ASSUME NEW x \in s.rows, NEW y \in new, SameTable(x, y), x.id = y.id
          PROVE  FALSE
      <4>1. PICK q \in Inserts(s.last) : y = row(q)
        BY <2>3
      <4>2. SameTable(x, q) /\ NewRowId(s, q) = x.id
        BY <2>2, <3>3, <4>1 DEF SameTable
      <4> QED
        BY <4>2, NewIdIsNew
    <3>4. SameTable(b, a)
      BY DEF SameTable
    <3> QED
      BY <2>4, <3>1, <3>2, <3>3, <3>4
  <2>5a. \A a \in new : a.ctx # StationCtx => a.lt \in IdsOf(s.levtr)
    BY <1>3, <2>2, <2>3 DEF BreaksConstraint
  <2>6. Keyed(s) => Keyed(t)
    BY <2>4, <2>5, <2>5a DEF Keyed, LevelsFiled, SameLevels, OneQueued
  <2>7. OnlyInserts(s) => OnlyInserts(t)
    BY <2>4 DEF OnlyInserts, Updates
  <2>8. \A r \in s.rows : r \in t.rows /\ SamePlace(r, r)
    BY <2>4 DEF SamePlace
  <2>9. Tame(s, t, mode)
    BY <2>6, <2>7, <2>8 DEF Tame
  <2> QED
    BY <2>9 DEF t
<1> QED
  BY <1>1, <1>2, <1>3

LEMMA UpdateRowsTame ==
    ASSUME NEW s, Good(s), s.last \in CachedStation, NEW mode
    PROVE  Tame(s, UpdateRows(s), mode)
<1> DEFINE hits(r) == {q \in Updates(s.last) : SameTable(q, r) /\ q.id = r.id}
           updated(r) == IF hits(r) = {} THEN r
                         ELSE LET q == CHOOSE q \in hits(r) : TRUE IN
                              [r EXCEPT !.val = q.val,
                                        !.attr = q.attr /\ s.attrs]
           t == UpdateRows(s)
<1>1. CASE s.err # "ok"
  <2>1. t = s
    BY <1>1 DEF UpdateRows
  <2> QED
    BY <2>1, QuietTame DEF SameLevels
<1>2. CASE s.err = "ok"
  <2>1. t = [s EXCEPT !.rows = {updated(r) : r \in s.rows}, !.last.queue = {}]
    BY <1>2 DEF UpdateRows
  <2>2. ASSUME NEW r \in s.rows
        PROVE  SamePlace(r, updated(r))
    <3>1. r \in DataRow
      BY DEF Good, Typed
    <3>2. \E x, y : updated(r) \in {r, [r EXCEPT !.val = x, !.attr = y]}
      OBVIOUS
    <3> HIDE DEF updated
    <3> QED
      BY <3>1, <3>2 DEF SamePlace, DataRow
  <2>3. Updates(s.last) = {} => \A r \in s.rows : updated(r) = r
    OBVIOUS
  <2>4. \A a \in {updated(r) : r \in s.rows} : \E r \in s.rows : a = updated(r)
    OBVIOUS
  <2>5. \A r \in s.rows : updated(r) \in {updated(x) : x \in s.rows}
    OBVIOUS
  <2> HIDE DEF updated, hits
  <2>6. /\ t.rows = {updated(r) : r \in s.rows} /\ SameLevels(s, t)
        /\ t.last.queue = {}
    BY <2>1 DEF Good, Typed, CachedStation, SameLevels
  <2> HIDE DEF t
  <2>7. Keyed(s) => UniqueRows(t.rows)
    <3> SUFFICES ASSUME Keyed(s), NEW a \in t.rows, NEW b \in t.rows,
                        SameTable(a, b), a.id = b.id
                 PROVE  a = b
      BY DEF UniqueRows
    <3>1. PICK x \in s.rows, y \in s.rows : a = updated(x) /\ b = updated(y)
      BY <2>4, <2>6
    <3>2. SameTable(x, y) /\ x.id = y.id
      BY <2>2, <3>1 DEF SamePlace, SameTable
    <3>3. x = y
      BY <3>2 DEF Keyed, UniqueRows
    <3> QED
      BY <3>1, <3>3
  <2>7a. \A a \in t.rows : \E r \in s.rows : SamePlace(r, a)
    BY <2>2, <2>4, <2>6
  <2>8. Keyed(s) => Keyed(t)
    BY <2>6, <2>7, <2>7a DEF Keyed, LevelsFiled, SamePlace, SameLevels, OneQueued
  <2>9. \A r \in s.rows : \E x \in t.rows : SamePlace(r, x)
    BY <2>2, <2>5, <2>6
  <2>10. OnlyInserts(t) /\ (OnlyInserts(s) => s.rows \subseteq t.rows)
    BY <2>3, <2>5, <2>6 DEF OnlyInserts, Updates
  <2>11. Tame(s, t, mode)
    BY <2>8, <2>9, <2>10 DEF Tame
  <2> QED
    BY <2>11 DEF t
<1> QED
  BY <1>1, <1>2

LEMMA WritePendingTame ==
    ASSUME NEW s, Good(s), NEW mode
    PROVE  Tame(s, WritePending(s), mode)
<1>1. CASE s.err # "ok" \/ s.last = NoStation
  <2>1. WritePending(s) = s
    BY <1>1 DEF WritePending
  <2> QED
    BY <2>1, QuietTame DEF SameLevels
<1>2. CASE s.err = "ok" /\ s.last # NoStation
  <2> DEFINE s1 == InsertStation(s)
             s2 == InsertRows(s1)
  <2>1. s.last \in CachedStation
    BY <1>2 DEF Good, Typed
  <2>2. Good(s1) /\ s1.last \in CachedStation /\ Tame(s, s1, mode)
        /\ (s1.err = "ok" => s1.last.id \in RowIds)
    BY <2>1, InsertStationGood, InsertStationTame
  <2> HIDE DEF s1
  <2>3. Good(s2) /\ s2.last \in CachedStation /\ Tame(s1, s2, mode)
    BY <2>2, InsertRowsGood, InsertRowsTame
  <2> HIDE DEF s2
  <2>4. Tame(s2, UpdateRows(s2), mode)
    BY <2>3, UpdateRowsTame
  <2>5. WritePending(s) = UpdateRows(s2)
    BY <1>2 DEF WritePending, s1, s2
  <2>6. Tame(s, s2, mode)
    BY <2>2, <2>3, TameThenTame
  <2> QED
    BY <2>4, <2>5, <2>6, TameThenTame
<1> QED
  BY <1>1, <1>2

----------------------------------------------------------------------------
(* The station and what is queued                                          *)

LEMMA NewStationTame ==
    ASSUME NEW s, Good(s), NEW key \in Stations, NEW mode
    PROVE  Tame(s, NewStation(s, key), mode)
<1> DEFINE s1 == WritePending(s)
<1>1. Good(s1) /\ Tame(s, s1, mode)
  BY WritePendingGood, WritePendingTame
<1>2. NewStation(s, key) = IF s1.err # "ok" THEN s1 ELSE [s1 EXCEPT !.last = Fresh(key)]
  BY DEF NewStation, CacheStation
<1> HIDE DEF s1
<1>3. Tame(s1, NewStation(s, key), mode)
  <2>1. CASE s1.err # "ok"
    <3>1. NewStation(s, key) = s1
      BY <1>2, <2>1
    <3> QED
      BY <3>1, QuietTame DEF SameLevels
  <2>2. CASE s1.err = "ok"
    <3>1. LET t == NewStation(s, key)
          IN  t.rows = s1.rows /\ SameLevels(s1, t) /\ t.last.queue = {}
      BY <1>1, <1>2, <2>2 DEF SameLevels, Good, Typed, Fresh
    <3> QED
      BY <3>1, QuietTame
  <2> QED
    BY <2>1, <2>2
<1> QED
  BY <1>1, <1>3, TameThenTame

LEMMA SetStationIdTame ==
    ASSUME NEW s, Live(s), NEW id, NEW mode
    PROVE  Tame(s, SetStationId(s, id), mode)
<1>1. LET t == SetStationId(s, id)
      IN  /\ t.rows = s.rows /\ SameLevels(s, t)
          /\ t = s \/ (s.last \in CachedStation /\ t.last.queue = s.last.queue)
  BY DEF SetStationId, SameLevels, Live, Good, Typed, CachedStation
<1> QED
  BY <1>1, QuietTame

LEMMA FindStationTame ==
    ASSUME NEW s, Live(s), NEW canAdd, NEW mode
    PROVE  Tame(s, FindStation(s, canAdd), mode)
<1>1. PICK id : \/ FindStation(s, canAdd) = s
                \/ FindStation(s, canAdd) = Throw(s, "sql")
                \/ FindStation(s, canAdd) = Throw(s, "notfound")
                \/ (s.err = "ok" /\ FindStation(s, canAdd) = [s EXCEPT !.last.loaded = {StationCtx}])
                \/ FindStation(s, canAdd) = SetStationId(s, id)
  BY DEF FindStation
<1>2. ASSUME s.err = "ok", FindStation(s, canAdd) = [s EXCEPT !.last.loaded = {StationCtx}]
      PROVE  Tame(s, FindStation(s, canAdd), mode)
  <2>1. LET t == FindStation(s, canAdd)
        IN  /\ t.rows = s.rows /\ SameLevels(s, t)
            /\ s.last \in CachedStation /\ t.last.queue = s.last.queue
    BY <1>2 DEF SameLevels, Live, Good, Typed, CachedStation
  <2> QED
    BY <2>1, QuietTame
<1>3. Tame(s, s, mode)
  BY QuietTame DEF SameLevels
<1>4. Tame(s, Throw(s, "sql"), mode) /\ Tame(s, Throw(s, "notfound"), mode)
      /\ Tame(s, SetStationId(s, id), mode)
  BY ThrowTame, SetStationIdTame DEF Live
<1> QED
  BY <1>1, <1>2, <1>3, <1>4, Zenon


LEMMA GetStationTame ==
    ASSUME NEW s, Good(s), NEW key \in Stations \cup {NoKey},
           NEW id \in RowIds \cup {MissingId}, NEW canAdd \in BOOLEAN, NEW mode
    PROVE  Tame(s, GetStation(s, key, id, canAdd), mode)
<1>0. Tame(s, s, mode)
  BY QuietTame DEF SameLevels
<1>1. ASSUME key \in Stations
      PROVE  Tame(s, GetStationByKey(s, key, canAdd), mode)
  <2> DEFINE s1 == NewStation(s, key)
  <2>1. Live(s1) /\ Tame(s, s1, mode)
    BY <1>1, NewStationGood, NewStationTame
  <2>2. GetStationByKey(s, key, canAdd) =
            IF HaveStation(s, key) THEN s ELSE FindStation(s1, canAdd)
    BY DEF GetStationByKey
  <2> HIDE DEF s1
  <2>3. Tame(s, FindStation(s1, canAdd), mode)
    BY <2>1, FindStationTame, TameThenTame
  <2> QED
    BY <1>0, <2>2, <2>3
<1>2. Tame(s, GetStationById(s, id), mode)
  <2> DEFINE found == {r \in s.station : r.id = id}
             k == (CHOOSE r \in found : TRUE).key
             s1 == NewStation(s, k)
  <2>1. CASE id = MissingId \/ found = {}
    <3>1. GetStationById(s, id) \in {s, Throw(s, "usage"), Throw(s, "notfound")}
      BY <2>1 DEF GetStationById
    <3>2. Tame(s, Throw(s, "usage"), mode) /\ Tame(s, Throw(s, "notfound"), mode)
      BY ThrowTame
    <3> QED
      BY <1>0, <3>1, <3>2
  <2>2. CASE id # MissingId /\ found # {}
    <3>1. k \in Stations
      <4>1. (CHOOSE r \in found : TRUE) \in StationRow
        BY <2>2 DEF Good, Typed
      <4> QED
        BY <4>1 DEF StationRow
    <3>2. GetStationById(s, id) \in {s, SetStationId(s1, id)}
      BY <2>2 DEF GetStationById
    <3> HIDE DEF k
    <3>3. Live(s1) /\ Tame(s, s1, mode)
      BY <3>1, NewStationGood, NewStationTame
    <3> HIDE DEF s1
    <3>4. Tame(s, SetStationId(s1, id), mode)
      BY <3>3, SetStationIdTame, TameThenTame
    <3> QED
      BY <1>0, <3>2, <3>4
  <2> QED
    BY <2>1, <2>2
<1> QED
  BY <1>0, <1>1, <1>2 DEF GetStation

LEMMA LoadTame ==
    ASSUME NEW s, Live(s), NEW ctx, NEW mode
    PROVE  Tame(s, Load(s, ctx), mode)
<1>1. PICK D, I : \/ Load(s, ctx) = s
                  \/ s.err = "ok" /\ Load(s, ctx) = [s EXCEPT !.last.loaded = D, !.last.ids = I]
  BY DEF Load
<1> DEFINE t == Load(s, ctx)
<1>2. SameLevels(s, t)
  BY LoadLevels DEF Live
<1>3. t.rows = s.rows
  BY <1>1 DEF Live, Good, Typed
<1>4. t = s \/ (s.last \in CachedStation /\ t.last.queue = s.last.queue)
  <2> SUFFICES ASSUME s.err = "ok", t = [s EXCEPT !.last.loaded = D, !.last.ids = I]
               PROVE  s.last \in CachedStation /\ t.last.queue = s.last.queue
    BY <1>1
  <2> HIDE DEF t
  <2>1. s.last \in CachedStation
    BY DEF Live
  <2>2. t.last = [s.last EXCEPT !.loaded = D, !.ids = I]
    BY DEF Live, Good, Typed
  <2> QED
    BY <2>1, <2>2 DEF CachedStation
<1> HIDE DEF t
<1>5. Tame(s, t, mode)
  BY <1>2, <1>3, <1>4, QuietTame
<1> QED
  BY <1>5 DEF t

UpdateModes == {"UPDATE", "ERROR", "IGNORE"}

\* No two variables of a call are of the same level and code.
Distinct(V) == \A a, b \in V : a.lt = b.lt /\ a.code = b.code => a = b

\* One of them takes the place of what is queued for the same value, and an
\* update is queued only where a value may be replaced.
LEMMA AddTame ==
    ASSUME NEW s, Live(s), NEW ctx, s.err = "ok" => ctx \in Contexts,
           NEW V, s.err = "ok" => V \in SUBSET Item,
           s.err = "ok" /\ Keyed(s) => Distinct(V),
           NEW mode \in UpdateModes
    PROVE  Tame(s, Add(s, ctx, V, mode), mode)
<1> DEFINE item(v, id) == [id |-> id, ctx |-> ctx, lt |-> v.lt, code |-> v.code,
                           val |-> v.val, attr |-> v.attr]
           match(v) == {i \in s.last.ids : SameKey(i, item(v, MissingId))}
           clashes == {v \in V : mode = "ERROR" /\ match(v) # {}}
           taken == {v \in V : /\ mode = "IGNORE" => match(v) = {}
                               /\ \A w \in clashes :
                                    Before(item(v, MissingId), item(w, MissingId))}
           one(v) == item(v, IF match(v) = {} THEN MissingId
                             ELSE (CHOOSE i \in match(v) : TRUE).id)
           queued == {one(v) : v \in taken}
           replaced == {q \in s.last.queue : \E p \in queued : SameKey(p, q)}
           t == [s EXCEPT !.last.queue = (@ \ replaced) \cup queued,
                          !.err = IF clashes = {} THEN @ ELSE "exists"]
<1>1. CASE s.err # "ok"
  <2>1. Add(s, ctx, V, mode) = s
    BY <1>1 DEF Add
  <2> QED
    BY <2>1, QuietTame DEF SameLevels
<1>2. CASE s.err = "ok"
  <2>0. Good(s) /\ s.last \in CachedStation
    BY <1>2 DEF Live
  <2>1. Add(s, ctx, V, mode) = t
    BY <1>2 DEF Add
  <2>2. \A v \in V : one(v).ctx = ctx /\ one(v).lt = v.lt /\ one(v).code = v.code
    OBVIOUS
  <2>3. ASSUME mode # "UPDATE", NEW v \in taken
        PROVE  one(v).id = MissingId
    <3>1. CASE mode = "IGNORE"
      BY <2>3, <3>1
    <3>2. CASE mode = "ERROR"
      <4>1. ~Before(item(v, MissingId), item(v, MissingId))
        <5>1. item(v, MissingId) \in Datum
          BY <1>2, <2>3 DEF Item, Datum, Contexts
        <5> HIDE DEF item
        <5> QED
          BY <5>1, BeforeOrders
      <4>2. v \notin clashes
        BY <2>3, <4>1
      <4>3. match(v) = {}
        BY <2>3, <3>2, <4>2
      <4> QED
        BY <4>3
    <3> QED
      BY <2>3, <3>1, <3>2 DEF UpdateModes
  <2>4. \A q \in queued : \E v \in taken : q = one(v)
    OBVIOUS
  <2>5. taken \subseteq V
    OBVIOUS
  <2>6. \A q \in s.last.queue : q \in replaced <=> \E p \in queued : SameKey(p, q)
    OBVIOUS
  <2> HIDE DEF one, match, item, taken, queued, clashes, replaced
  <2>7. /\ t.rows = s.rows /\ SameLevels(s, t)
        /\ t.last.queue = (s.last.queue \ replaced) \cup queued
    BY <2>0 DEF Good, Typed, CachedStation, SameLevels
  <2> HIDE DEF t
  <2>8. ASSUME Keyed(s), NEW p \in t.last.queue, NEW q \in t.last.queue,
               SameKey(p, q)
        PROVE  p = q
    <3>1. CASE p \in queued /\ q \in queued
      <4>1. PICK v \in taken, w \in taken : p = one(v) /\ q = one(w)
        BY <2>4, <3>1
      <4>2. v.lt = w.lt /\ v.code = w.code
        BY <2>2, <2>5, <2>8, <4>1 DEF SameKey
      <4>3. v \in V /\ w \in V /\ Distinct(V)
        BY <1>2, <2>5, <2>8, <4>1
      <4>4. v = w
        BY <4>2, <4>3 DEF Distinct
      <4> QED
        BY <4>1, <4>4
    <3>2. CASE p \notin queued /\ q \notin queued
      BY <2>0, <2>7, <2>8, <3>2 DEF Keyed, OneQueued
    <3>3. CASE p \in queued /\ q \notin queued
      BY <2>6, <2>7, <2>8, <3>3
    <3>4. CASE p \notin queued /\ q \in queued
      <4>1. SameKey(q, p)
        BY <2>8 DEF SameKey
      <4> QED
        BY <2>6, <2>7, <3>4, <4>1
    <3> QED
      BY <3>1, <3>2, <3>3, <3>4
  <2>9. Keyed(s) => Keyed(t)
    BY <2>0, <2>7, <2>8 DEF Keyed, SameLevels, OneQueued
  <2>10. mode # "UPDATE" /\ OnlyInserts(s) => OnlyInserts(t)
    BY <2>0, <2>3, <2>4, <2>7 DEF OnlyInserts, Updates
  <2>11. \A r \in s.rows : r \in t.rows /\ SamePlace(r, r)
    BY <2>7 DEF SamePlace
  <2>12. Tame(s, t, mode)
    BY <2>7, <2>9, <2>10, <2>11 DEF Tame
  <2> QED
    BY <2>1, <2>12
<1> QED
  BY <1>1, <1>2


\* New levels are numbered in order after those in the table.
LEMMA ObtainLevTrsTame ==
    ASSUME NEW s, Live(s), NEW L \in SUBSET LevTrs, IsFiniteSet(L), NEW mode
    PROVE  Tame(s, ObtainLevTrs(s, L), mode)
<1> DEFINE uncached == {l \in L : \A c \in s.cache : c.lt # l}
           onDb == {r \in s.levtr : r.lt \in uncached}
           missing == {l \in uncached : \A r \in onDb : r.lt # l}
           upTo(l) == {m \in missing : m <= l}
           idOf(l) == Top(IdsOf(s.levtr)) + Cardinality(upTo(l))
           new == {[id |-> idOf(l), lt |-> l] : l \in missing}
           t == [s EXCEPT !.levtr = @ \cup new, !.cache = @ \cup onDb \cup new]
<1>1. CASE s.err # "ok"
  <2>1. ObtainLevTrs(s, L) = s
    BY <1>1 DEF ObtainLevTrs
  <2> QED
    BY <2>1, QuietTame DEF SameLevels
<1>2. CASE s.err = "ok"
  <2>1. ObtainLevTrs(s, L) = t
    BY <1>2 DEF ObtainLevTrs
  <2>2. onDb \subseteq s.levtr
    OBVIOUS
  <2>3. missing \subseteq Nat /\ IsFiniteSet(missing)
    <3>1. missing \subseteq L
      OBVIOUS
    <3>2. L \subseteq Nat
      BY OrderAssumption
    <3> QED
      BY <3>1, <3>2, FS_Subset
  <2>4. Top(IdsOf(s.levtr)) \in Nat /\ \A r \in s.levtr : r.id \in Nat /\ r.id <= Top(IdsOf(s.levtr))
    <3>1. \A r \in s.levtr : r.id \in RowIds
      BY DEF Live, Good, Typed, LevTrRow
    <3>2. IsFiniteSet(IdsOf(s.levtr)) /\ IdsOf(s.levtr) \in SUBSET Nat
      BY <3>1, IdsFinite DEF Live, Good, Finite
    <3>3. \A r \in s.levtr : r.id \in IdsOf(s.levtr)
      BY DEF IdsOf
    <3> QED
      BY <3>2, <3>3, TopType
  <2>5. \A l \in missing : upTo(l) \in SUBSET missing /\ l \in upTo(l)
    BY <2>3
  <2>6. \A l, m \in missing : m < l => upTo(m) \subseteq upTo(l) /\ l \notin upTo(m)
    BY <2>3
  <2>7. \A a \in new : \E l \in missing : a = [id |-> idOf(l), lt |-> l]
    OBVIOUS
  <2> HIDE DEF missing, onDb, upTo, new
  <2>8. \A l \in missing : Cardinality(upTo(l)) \in Nat /\ Cardinality(upTo(l)) # 0
    BY <2>3, <2>5, FS_Subset, FS_CardinalityType, FS_EmptySet
  <2>9. ASSUME NEW l \in missing, NEW m \in missing, m < l
        PROVE  Cardinality(upTo(m)) # Cardinality(upTo(l))
    <3>1. IsFiniteSet(upTo(l)) /\ upTo(m) \subseteq upTo(l) /\ l \in upTo(l) /\ l \notin upTo(m)
      BY <2>3, <2>5, <2>6, <2>9, FS_Subset
    <3>2. Cardinality(upTo(m)) < Cardinality(upTo(l))
      BY <3>1, StrictlyMore
    <3> QED
      BY <2>8, <3>2
  <2>10. \A l, m \in missing : idOf(l) = idOf(m) => l = m
    <3> SUFFICES ASSUME NEW l \in missing, NEW m \in missing, idOf(l) = idOf(m), l # m
                 PROVE  FALSE
      OBVIOUS
    <3>1. Cardinality(upTo(m)) # Cardinality(upTo(l))
      <4>1. l < m \/ m < l
        BY <2>3
      <4> QED
        BY <2>9, <4>1
    <3> QED
      BY <2>4, <2>8, <3>1
  <2>11. \A l \in missing, r \in s.levtr : idOf(l) # r.id
    BY <2>4, <2>8
  <2> HIDE DEF idOf
  <2>12. /\ t.rows = s.rows /\ t.last = s.last
         /\ t.levtr = s.levtr \cup new /\ t.cache = s.cache \cup onDb \cup new
    BY DEF Live, Good, Typed
  <2> HIDE DEF t
  <2>13. Keyed(s) => UniqueIds(t.levtr)
    <3> SUFFICES ASSUME Keyed(s), NEW a \in t.levtr, NEW b \in t.levtr, a.id = b.id
                 PROVE  a = b
      BY DEF UniqueIds
    <3>1. \A x \in new : \E l \in missing : x = [id |-> idOf(l), lt |-> l] /\ x.id = idOf(l)
      BY <2>7
    <3>2. CASE a \in s.levtr /\ b \in s.levtr
      BY <3>2 DEF Keyed, UniqueIds
    <3>3. CASE a \in new /\ b \in new
      BY <2>10, <3>1, <3>3
    <3>4. CASE a \in s.levtr /\ b \in new
      BY <2>11, <3>1, <3>4
    <3>5. CASE a \in new /\ b \in s.levtr
      BY <2>11, <3>1, <3>5
    <3> QED
      BY <2>12, <3>2, <3>3, <3>4, <3>5
  <2>14. Keyed(s) => Keyed(t)
    BY <2>2, <2>12, <2>13 DEF Keyed, LevelsFiled, IdsOf
  <2>15. OnlyInserts(s) => OnlyInserts(t)
    BY <2>12 DEF OnlyInserts
  <2>16. \A r \in s.rows : r \in t.rows /\ SamePlace(r, r)
    BY <2>12 DEF SamePlace
  <2>17. Tame(s, t, mode)
    BY <2>12, <2>14, <2>15, <2>16 DEF Tame
  <2> QED
    BY <2>1, <2>17
<1> QED
  BY <1>1, <1>2

\* Two levels have two ids, so what differs in level still does.
LEMMA WithLevTrDistinct ==
    ASSUME NEW s, Keyed(s), NEW V, Distinct(V), \A v \in V : \E c \in s.cache : c.lt = v.lt
    PROVE  Distinct(WithLevTr(s, V))
<1> DEFINE c(v) == CHOOSE c \in s.cache : c.lt = v.lt
           at(v) == [lt |-> LevTrId(s, v.lt), code |-> v.code, val |-> v.val, attr |-> v.attr]
<1>1. \A v \in V : c(v) \in s.levtr /\ c(v).lt = v.lt /\ at(v).lt = c(v).id /\ at(v).code = v.code
  BY DEF Keyed, LevTrId
<1>2. \A a \in WithLevTr(s, V) : \E v \in V : a = at(v)
  BY DEF WithLevTr
<1> HIDE DEF c, at
<1> SUFFICES ASSUME NEW a \in WithLevTr(s, V), NEW b \in WithLevTr(s, V),
                    a.lt = b.lt, a.code = b.code
             PROVE  a = b
  BY DEF Distinct
<1>3. PICK v \in V, w \in V : a = at(v) /\ b = at(w)
  BY <1>2
<1>4. c(v).id = c(w).id /\ v.code = w.code
  BY <1>1, <1>3
<1>5. c(v) = c(w)
  BY <1>1, <1>4 DEF Keyed, UniqueIds
<1>6. v = w
  BY <1>1, <1>4, <1>5 DEF Distinct
<1> QED
  BY <1>3, <1>6

LEMMA AtLevTrDistinct ==
    ASSUME NEW V, \A a, b \in V : a.code = b.code => a = b, NEW lt
    PROVE  Distinct(AtLevTr(lt, V))
BY DEF Distinct, AtLevTr

----------------------------------------------------------------------------
(* Calls                                                                   *)

CodesOnce(V) == \A a, b \in V : a.code = b.code => a = b

LEMMA AddStationVarsTame ==
    ASSUME NEW s, Live(s), NEW V \in SUBSET Var, IsFiniteSet(V), CodesOnce(V),
           NEW mode \in UpdateModes
    PROVE  Tame(s, AddStationVars(s, V, mode), mode)
<1> DEFINE s1 == Load(s, StationCtx)
           W == AtLevTr(MissingId, V)
<1>1. Live(s1) /\ Tame(s, s1, mode)
  BY LoadLive, LoadTame DEF Contexts
<1>2. W \in SUBSET Item /\ Distinct(W)
  BY AtLevTrType, AtLevTrDistinct DEF Item, CodesOnce
<1> HIDE DEF s1, W
<1>3. Tame(s1, Add(s1, StationCtx, W, mode), mode)
  BY <1>1, <1>2, AddTame DEF Contexts
<1> QED
  BY <1>1, <1>3, TameThenTame DEF AddStationVars, s1, W

LEMMA InsertStationDataTame ==
    ASSUME NEW s, Sound(s), NEW key \in Stations \cup {NoKey},
           NEW id \in RowIds \cup {MissingId},
           NEW V \in SUBSET Var, IsFiniteSet(V), CodesOnce(V),
           NEW canReplace \in BOOLEAN, NEW canAdd \in BOOLEAN
    PROVE  Tame(s, InsertStationDataCall(s, key, id, V, canReplace, canAdd), ModeOf(canReplace))
<1> DEFINE mode == ModeOf(canReplace)
           s1 == GetStation(s, key, id, canAdd)
           s2 == AddStationVars(s1, V, mode)
<1>1. mode \in UpdateModes
  BY DEF ModeOf, UpdateModes
<1>2. InsertStationDataCall(s, key, id, V, canReplace, canAdd) = WritePending(s2)
  BY DEF InsertStationDataCall
<1> HIDE DEF mode
<1>3. Sound(s1) /\ Live(s1) /\ Tame(s, s1, mode)
  BY GetStationSound, GetStationTame DEF Sound
<1> HIDE DEF s1
<1>4. Sound(s2) /\ Tame(s1, s2, mode)
  BY <1>1, <1>3, AddStationVarsSound, AddStationVarsTame
<1> HIDE DEF s2
<1>5. Tame(s2, WritePending(s2), mode)
  BY <1>4, WritePendingTame DEF Sound
<1>6. Tame(s, s2, mode)
  BY <1>3, <1>4, TameThenTame
<1>7. Tame(s, WritePending(s2), mode)
  BY <1>5, <1>6, TameThenTame
<1> QED
  BY <1>2, <1>7 DEF mode

LEMMA ObtainAndAddTame ==
    ASSUME NEW s, Sound(s), Live(s), NEW ctx \in Contexts,
           NEW L \in SUBSET LevTrs, IsFiniteSet(L),
           NEW V, IsFiniteSet(V), Distinct(V), \A v \in V : v.lt \in L,
           V \subseteq [lt : LevTrs, code : Codes, val : Vals, attr : BOOLEAN],
           NEW mode \in UpdateModes
    PROVE  Tame(s, AddAtLevTr(ObtainLevTrs(Load(s, ctx), L), ctx, V, mode), mode)
<1> DEFINE s1 == Load(s, ctx)
           s2 == ObtainLevTrs(s1, L)
           W == WithLevTr(s2, V)
<1>1. Sound(s1) /\ Live(s1) /\ Tame(s, s1, mode)
  BY LoadSound, LoadTame
<1> HIDE DEF s1
<1>2. /\ Live(s2) /\ Tame(s1, s2, mode)
      /\ s2.err = "ok" => \A l \in L : \E c \in s2.cache : c.lt = l
  BY <1>1, ObtainLevTrsSound, ObtainLevTrsTame
<1> HIDE DEF s2
<1>3. s2.err = "ok" => \A v \in V : \E c \in s2.cache : c.lt = v.lt
  BY <1>2
<1>4. s2.err = "ok" => W \in SUBSET Item
  BY <1>2, <1>3, WithLevTrType DEF Live
<1>5. s2.err = "ok" /\ Keyed(s2) => Distinct(W)
  BY <1>3, WithLevTrDistinct
<1> HIDE DEF W
<1>6. Tame(s2, Add(s2, ctx, W, mode), mode)
  BY <1>2, <1>4, <1>5, AddTame
<1>7. Tame(s, s2, mode)
  BY <1>1, <1>2, TameThenTame
<1> QED
  BY <1>6, <1>7, TameThenTame DEF AddAtLevTr, s1, s2, W


LEMMA InsertAtTame ==
    ASSUME NEW s, Sound(s), Live(s), NEW dt \in Datetimes \cup {NoDatetime},
           NEW lt \in LevTrs \cup {NoLevTr},
           NEW V \in SUBSET Var, IsFiniteSet(V), CodesOnce(V), NEW mode \in UpdateModes
    PROVE  Tame(s, InsertAt(s, dt, lt, V, mode), mode)
<1> DEFINE s1 == Load(s, dt)
           W == AtLevTr(lt, V)
           s3 == AddAtLevTr(ObtainLevTrs(s1, {lt}), dt, W, mode)
<1>1. CASE dt = NoDatetime
  <2>1. InsertAt(s, dt, lt, V, mode) = Throw(s, "usage")
    BY <1>1 DEF InsertAt
  <2> QED
    BY <2>1, ThrowTame DEF Sound
<1>2. CASE dt # NoDatetime /\ lt = NoLevTr
  <2>1. InsertAt(s, dt, lt, V, mode) = Throw(s1, "usage")
    BY <1>2 DEF InsertAt
  <2>2. Good(s1) /\ Tame(s, s1, mode)
    BY <1>2, LoadSound, LoadTame DEF Sound, Contexts
  <2> HIDE DEF s1
  <2> QED
    BY <2>1, <2>2, ThrowTame, TameThenTame
<1>3. CASE dt # NoDatetime /\ lt # NoLevTr
  <2>1. InsertAt(s, dt, lt, V, mode) = WritePending(s3)
    BY <1>3 DEF InsertAt
  <2>2. IsFiniteSet({lt}) /\ {lt} \in SUBSET LevTrs /\ dt \in Contexts
    BY <1>3, FS_Singleton DEF Contexts
  <2>3. /\ W \subseteq [lt : {lt}, code : Codes, val : Vals, attr : BOOLEAN]
        /\ IsFiniteSet(W) /\ Distinct(W)
    BY AtLevTrType, AtLevTrDistinct DEF CodesOnce
  <2> HIDE DEF W
  <2>4. /\ \A w \in W : w.lt \in {lt}
        /\ W \subseteq [lt : LevTrs, code : Codes, val : Vals, attr : BOOLEAN]
    BY <2>2, <2>3
  <2>5. Tame(s, s3, mode)
    BY <2>2, <2>3, <2>4, ObtainAndAddTame
  <2>6. Sound(s3)
    BY <2>2, <2>3, <2>4, ObtainAndAddSound
  <2> HIDE DEF s3
  <2>7. Tame(s3, WritePending(s3), mode)
    BY <2>6, WritePendingTame DEF Sound
  <2> QED
    BY <2>1, <2>5, <2>7, TameThenTame
<1> QED
  BY <1>1, <1>2, <1>3

LEMMA InsertDataTame ==
    ASSUME NEW s, Sound(s), NEW key \in Stations \cup {NoKey},
           NEW id \in RowIds \cup {MissingId},
           NEW dt \in Datetimes \cup {NoDatetime},
           NEW lt \in LevTrs \cup {NoLevTr},
           NEW V \in SUBSET Var, IsFiniteSet(V), CodesOnce(V),
           NEW canReplace \in BOOLEAN, NEW canAdd \in BOOLEAN
    PROVE  Tame(s, InsertDataCall(s, key, id, dt, lt, V, canReplace, canAdd), ModeOf(canReplace))
<1> DEFINE mode == ModeOf(canReplace)
           s1 == GetStation(s, key, id, canAdd)
<1>1. mode \in UpdateModes
  BY DEF ModeOf, UpdateModes
<1>2. InsertDataCall(s, key, id, dt, lt, V, canReplace, canAdd) =
          IF V = {} THEN Throw(s, "empty") ELSE InsertAt(s1, dt, lt, V, mode)
  BY DEF InsertDataCall
<1> HIDE DEF mode
<1>3. Sound(s1) /\ Live(s1) /\ Tame(s, s1, mode)
  BY GetStationSound, GetStationTame DEF Sound
<1> HIDE DEF s1
<1>4. Tame(s1, InsertAt(s1, dt, lt, V, mode), mode)
  BY <1>1, <1>3, InsertAtTame
<1>5. Tame(s, InsertAt(s1, dt, lt, V, mode), mode)
  BY <1>3, <1>4, TameThenTame
<1>6. Tame(s, Throw(s, "empty"), mode)
  BY ThrowTame DEF Sound
<1> QED
  BY <1>2, <1>5, <1>6 DEF mode

LEMMA AddMsgToBatchTame ==
    ASSUME NEW s, Sound(s), NEW m, MessageType(m), NEW o
    PROVE  Tame(s, AddMsgToBatch(s, m, o), ImportMode(o))
<1> DEFINE mode == ImportMode(o)
<1>0. mode \in UpdateModes
  BY DEF ImportMode, UpdateModes
<1> HIDE DEF mode
<1>1. CASE m.key = NoKey
  <2>1. AddMsgToBatch(s, m, o) = Throw(s, "notfound")
    BY <1>1 DEF AddMsgToBatch
  <2> QED
    BY <2>1, ThrowTame DEF Sound
<1>2. CASE m.key # NoKey
  <2> DEFINE s1 == GetStation(s, m.key, MissingId, TRUE)
             s2 == AddMsgStation(s1, m, o)
             L == {d.lt : d \in m.data}
             f == [d \in m.data |-> d.lt]
  <2>1. AddMsgToBatch(s, m, o) = AddMsgData(s2, m, o)
    BY <1>2 DEF AddMsgToBatch
  <2>2. Sound(s1) /\ Live(s1) /\ Tame(s, s1, mode)
    BY <1>2, GetStationSound, GetStationTame DEF MessageType, Sound
  <2> HIDE DEF s1
  <2>3. Sound(s2) /\ Live(s2)
    BY <2>2, AddMsgStationSound
  <2>4. Tame(s1, s2, mode)
    <3>1. s2 = s1 \/ s2 = AddStationVars(s1, m.svars, mode)
      BY DEF AddMsgStation, mode
    <3>2. Tame(s1, s1, mode)
      BY QuietTame DEF SameLevels
    <3>3. m.svars \in SUBSET Var /\ IsFiniteSet(m.svars) /\ CodesOnce(m.svars)
      BY DEF MessageType, CodesOnce
    <3> QED
      BY <1>0, <2>2, <3>1, <3>2, <3>3, AddStationVarsTame
  <2> HIDE DEF s2
  <2>5. L \in SUBSET LevTrs /\ \A d \in m.data : d.lt \in L
    BY DEF MessageType
  <2>6. IsFiniteSet(L)
    <3>1. DOMAIN f = m.data /\ L = {f[d] : d \in m.data}
      OBVIOUS
    <3>2. IsFiniteSet(m.data)
      BY DEF MessageType
    <3> HIDE DEF f, L
    <3> QED
      BY <3>1, <3>2, ImageFinite
  <2>7. AddMsgData(s2, m, o) =
            IF m.data = {} THEN s2
            ELSE IF m.dt = NoDatetime THEN Throw(s2, "notfound")
            ELSE AddAtLevTr(ObtainLevTrs(Load(s2, m.dt), L), m.dt, m.data, mode)
    BY DEF AddMsgData, mode
  <2> HIDE DEF L
  <2>8. Tame(s2, AddMsgData(s2, m, o), mode)
    <3>1. Tame(s2, Throw(s2, "notfound"), mode) /\ Tame(s2, s2, mode)
      BY <2>3, ThrowTame, QuietTame DEF Sound, SameLevels
    <3>2. m.dt # NoDatetime => m.dt \in Contexts
      BY DEF MessageType, Contexts
    <3>3. Distinct(m.data) /\ IsFiniteSet(m.data)
          /\ m.data \subseteq [lt : LevTrs, code : Codes, val : Vals, attr : BOOLEAN]
      BY DEF MessageType, Distinct
    <3>4. m.dt # NoDatetime =>
            Tame(s2, AddAtLevTr(ObtainLevTrs(Load(s2, m.dt), L), m.dt, m.data, mode), mode)
      BY <1>0, <2>3, <2>5, <2>6, <3>2, <3>3, ObtainAndAddTame
    <3> QED
      BY <2>7, <3>1, <3>4
  <2>9. Tame(s, s2, mode)
    BY <2>2, <2>4, TameThenTame
  <2> QED
    BY <2>1, <2>8, <2>9, TameThenTame DEF mode
<1> QED
  BY <1>1, <1>2 DEF mode

LEMMA SetWriteAttrsTame ==
    ASSUME NEW s, Sound(s), NEW b, NEW mode
    PROVE  Tame(s, SetWriteAttrs(s, b), mode)
<1>1. LET t == SetWriteAttrs(s, b)
      IN  t.rows = s.rows /\ SameLevels(s, t) /\ t.last \in {s.last, NoStation}
  BY DEF SetWriteAttrs, Sound, Good, Typed, SameLevels
<1> QED
  BY <1>1, QuietTame, NoStationAssumption

LEMMA ImportMessageTame ==
    ASSUME NEW s, Sound(s), NEW m, MessageType(m), NEW o \in ImportOptions
    PROVE  Tame(s, ImportMessageCall(s, m, o), ImportMode(o))
<1> DEFINE mode == ImportMode(o)
           s1 == SetWriteAttrs(s, o.importAttributes)
           s2 == AddMsgToBatch(s1, m, o)
<1>1. Sound(s1) /\ Tame(s, s1, mode)
  BY SetWriteAttrsSound, SetWriteAttrsTame DEF ImportOptions
<1> HIDE DEF s1
<1>2. Sound(s2) /\ Tame(s1, s2, mode)
  BY <1>1, AddMsgToBatchSound, AddMsgToBatchTame
<1> HIDE DEF s2
<1>3. Tame(s2, WritePending(s2), mode)
  BY <1>2, WritePendingTame DEF Sound
<1>4. ImportMessageCall(s, m, o) = WritePending(s2)
  BY DEF ImportMessageCall, s1, s2
<1> HIDE DEF mode
<1>5. Tame(s, s2, mode)
  BY <1>1, <1>2, TameThenTame
<1> QED
  BY <1>3, <1>4, <1>5, TameThenTame DEF mode

LEMMA ImportMessagesTame ==
    ASSUME NEW s, Sound(s), NEW m1, MessageType(m1), NEW m2, MessageType(m2),
           NEW o \in ImportOptions
    PROVE  Tame(s, ImportMessagesCall(s, m1, m2, o), ImportMode(o))
<1> DEFINE mode == ImportMode(o)
           s1 == SetWriteAttrs(s, o.importAttributes)
           s2 == AddMsgToBatch(s1, m1, o)
           s3 == AddMsgToBatch(s2, m2, o)
<1>1. Sound(s1) /\ Tame(s, s1, mode)
  BY SetWriteAttrsSound, SetWriteAttrsTame DEF ImportOptions
<1> HIDE DEF s1
<1>2. Sound(s2) /\ Tame(s1, s2, mode)
  BY <1>1, AddMsgToBatchSound, AddMsgToBatchTame
<1> HIDE DEF s2
<1>3. Sound(s3) /\ Tame(s2, s3, mode)
  BY <1>2, AddMsgToBatchSound, AddMsgToBatchTame
<1> HIDE DEF s3
<1>4. Tame(s3, WritePending(s3), mode)
  BY <1>3, WritePendingTame DEF Sound
<1>5. ImportMessagesCall(s, m1, m2, o) = WritePending(s3)
  BY DEF ImportMessagesCall, s1, s2, s3
<1> HIDE DEF mode
<1>6. Tame(s, s3, mode)
  BY <1>1, <1>2, <1>3, TameThenTame
<1> QED
  BY <1>4, <1>5, <1>6, TameThenTame DEF mode


----------------------------------------------------------------------------
(* Actions                                                                 *)

\* The keys of the tables that are in use, and of those a rollback brings back.
KeysInv ==
    /\ UniqueRows(rows) /\ UniqueIds(levtr) /\ LevelsFiled(rows, levtr)
    /\ last \in CachedStation => OneQueued(last)
    /\ UniqueRows(saved.rows) /\ UniqueIds(saved.levtr)
    /\ LevelsFiled(saved.rows, saved.levtr)

KeyedInv == CacheInv /\ KeysInv

AddsOnly == last \in CachedStation => Updates(last) = {}

\* A call that queues in the given mode.
TameStep(mode) ==
    /\ \A r \in rows : \E x \in rows' : SamePlace(r, x)
    /\ mode # "UPDATE" /\ AddsOnly => rows \subseteq rows' /\ AddsOnly'
    /\ KeysInv => KeysInv'

LEMMA AbandonKeys ==
    ASSUME NEW L \in CachedStation
    PROVE  /\ OneQueued(L) => OneQueued(Abandon(L))
           /\ Updates(L) = {} => Updates(Abandon(L)) = {}
<1> DEFINE f(q) == [q EXCEPT !.val = Garbage]
           Q == {f(q) : q \in L.queue}
<1>1. L # NoStation
  BY NoStationAssumption
<1>2. Abandon(L).queue = Q
  BY <1>1 DEF Abandon, CachedStation
<1>3. \A q \in L.queue : /\ f(q).id = q.id /\ f(q).ctx = q.ctx
                         /\ f(q).lt = q.lt /\ f(q).code = q.code
  BY DEF CachedStation, Datum
<1>4. \A a \in Q : \E q \in L.queue : a = f(q)
  OBVIOUS
<1> HIDE DEF f, Q
<1>5. ASSUME OneQueued(L), NEW a \in Q, NEW b \in Q, SameKey(a, b)
      PROVE  a = b
  <2>1. PICK p \in L.queue, q \in L.queue : a = f(p) /\ b = f(q)
    BY <1>4
  <2>2. SameKey(p, q)
    BY <1>3, <1>5, <2>1 DEF SameKey
  <2> QED
    BY <1>5, <2>1, <2>2 DEF OneQueued
<1>6. OneQueued(L) => OneQueued(Abandon(L))
  BY <1>2, <1>5 DEF OneQueued
<1>7. Updates(L) = {} => Updates(Abandon(L)) = {}
  BY <1>2, <1>3, <1>4 DEF Updates
<1> QED
  BY <1>6, <1>7

LEMMA CallTame ==
    ASSUME CacheInv, NEW s, Sound(s), NEW mode, Tame(Here, s, mode), Call(s)
    PROVE  TameStep(mode)
<1>1. /\ levtr' = s.levtr /\ rows' = s.rows /\ saved' = saved
      /\ last' \in {s.last, Abandon(s.last)}
  BY DEF Call, Return
<1>2. s.last \in CachedStation \/ s.last = NoStation
  BY DEF Sound, Good, Typed
<1>3. last' \in CachedStation =>
          /\ s.last \in CachedStation
          /\ OneQueued(s.last) => OneQueued(last')
          /\ Updates(s.last) = {} => Updates(last') = {}
  <2>1. CASE s.last = NoStation
    <3>1. last' = NoStation
      BY <1>1, <2>1 DEF Abandon
    <3> QED
      BY <3>1, NoStationAssumption
  <2>2. CASE s.last \in CachedStation
    BY <1>1, <2>2, AbandonKeys
  <2> QED
    BY <1>2, <2>1, <2>2
<1>4. /\ Keyed(Here) <=> /\ UniqueRows(rows) /\ UniqueIds(levtr) /\ LevelsFiled(rows, levtr)
                         /\ last \in CachedStation => OneQueued(last)
      /\ OnlyInserts(Here) <=> AddsOnly
  BY DEF Keyed, Here, OnlyInserts, AddsOnly, CacheInv, LevelInv, LevTrCacheMirrorsDb
<1>5. \A r \in rows : \E x \in rows' : SamePlace(r, x)
  BY <1>1 DEF Tame, Here
<1>6. mode # "UPDATE" /\ AddsOnly => rows \subseteq rows' /\ AddsOnly'
  BY <1>1, <1>3, <1>4 DEF Tame, Here, OnlyInserts, AddsOnly
<1>7. KeysInv => KeysInv'
  <2> SUFFICES ASSUME KeysInv PROVE KeysInv'
    OBVIOUS
  <2>1. Keyed(s)
    BY <1>4 DEF KeysInv, Tame
  <2>2. /\ UniqueRows(rows') /\ UniqueIds(levtr') /\ LevelsFiled(rows', levtr')
        /\ last' \in CachedStation => OneQueued(last')
    BY <1>1, <1>3, <2>1 DEF Keyed
  <2>3. /\ UniqueRows(saved'.rows) /\ UniqueIds(saved'.levtr)
        /\ LevelsFiled(saved'.rows, saved'.levtr)
    BY <1>1 DEF KeysInv
  <2> QED
    BY <2>2, <2>3 DEF KeysInv, UniqueRows, UniqueIds, LevelsFiled, IdsOf, OneQueued
<1> QED
  BY <1>5, <1>6, <1>7 DEF TameStep

LEMMA InsertStationDataStep ==
    ASSUME CacheInv, NEW ref \in StationRef, NEW V \in StationVarSets,
           NEW cr \in BOOLEAN, NEW ca \in BOOLEAN,
           InsertStationData(ref[1], ref[2], V, cr, ca)
    PROVE  TameStep(ModeOf(cr))
<1>0. Sound(Here)
  BY DEF CacheInv, LevelInv, Inv
<1>1. ref[1] \in Stations \cup {NoKey} /\ ref[2] \in RowIds \cup {MissingId}
  BY MaxIdAssumption DEF StationRef, Ids, RowIds, MissingId
<1>2. V \in SUBSET Var /\ IsFiniteSet(V) /\ CodesOnce(V)
  BY VarSetsAssumption DEF CodesOnce
<1> DEFINE s == InsertStationDataCall(Here, ref[1], ref[2], V, cr, ca)
<1>3. Sound(s) /\ Tame(Here, s, ModeOf(cr))
  BY <1>0, <1>1, <1>2, InsertStationDataSound, InsertStationDataTame
<1>4. Call(s)
  BY DEF InsertStationData
<1> HIDE DEF s
<1> QED
  BY <1>3, <1>4, CallTame

LEMMA InsertDataStep ==
    ASSUME CacheInv, NEW ref \in StationRef, NEW V \in VarSets,
           NEW cr \in BOOLEAN, NEW ca \in BOOLEAN,
           NEW dt \in Datetimes \cup {NoDatetime}, NEW lt \in LevTrs \cup {NoLevTr},
           InsertData(ref[1], ref[2], dt, lt, V, cr, ca)
    PROVE  TameStep(ModeOf(cr))
<1>0. Sound(Here)
  BY DEF CacheInv, LevelInv, Inv
<1>1. ref[1] \in Stations \cup {NoKey} /\ ref[2] \in RowIds \cup {MissingId}
  BY MaxIdAssumption DEF StationRef, Ids, RowIds, MissingId
<1>2. V \in SUBSET Var /\ IsFiniteSet(V) /\ CodesOnce(V)
  BY VarSetsAssumption DEF CodesOnce
<1> DEFINE s == InsertDataCall(Here, ref[1], ref[2], dt, lt, V, cr, ca)
<1>3. Sound(s) /\ Tame(Here, s, ModeOf(cr))
  BY <1>0, <1>1, <1>2, InsertDataSound, InsertDataTame
<1>4. Call(s)
  BY DEF InsertData
<1> HIDE DEF s
<1> QED
  BY <1>3, <1>4, CallTame

LEMMA ImportMessageStep ==
    ASSUME CacheInv, NEW m \in Messages, NEW o \in ImportOptions, ImportMessage(m, o)
    PROVE  TameStep(ImportMode(o))
<1>0. Sound(Here)
  BY DEF CacheInv, LevelInv, Inv
<1>1. MessageType(m)
  BY MessagesAssumption DEF MessageType
<1>2. Sound(ImportMessageCall(Here, m, o)) /\ Tame(Here, ImportMessageCall(Here, m, o), ImportMode(o))
  BY <1>0, <1>1, ImportMessageSound, ImportMessageTame
<1> QED
  BY <1>2, CallTame DEF ImportMessage

LEMMA ImportMessagesStep ==
    ASSUME CacheInv, NEW m \in Messages, NEW o \in ImportOptions, NEW m2 \in Messages,
           ImportMessages(m, m2, o)
    PROVE  TameStep(ImportMode(o))
<1>0. Sound(Here)
  BY DEF CacheInv, LevelInv, Inv
<1>1. MessageType(m) /\ MessageType(m2)
  BY MessagesAssumption DEF MessageType
<1>2. /\ Sound(ImportMessagesCall(Here, m, m2, o))
      /\ Tame(Here, ImportMessagesCall(Here, m, m2, o), ImportMode(o))
  BY <1>0, <1>1, ImportMessagesSound, ImportMessagesTame
<1> QED
  BY <1>2, CallTame DEF ImportMessages

\* Attributes are no part of the place of a row, nor of its value.
LEMMA SetAttrsStep ==
    ASSUME TypeOK, NEW ofStation, NEW id, NEW b, SetAttrs(ofStation, id, b)
    PROVE  /\ \A r \in rows : \E x \in rows' : SamePlace(r, x) /\ x.val = r.val
           /\ \A x \in rows' : \E r \in rows : SamePlace(r, x)
           /\ UniqueRows(rows) => UniqueRows(rows')
<1> DEFINE new(r) == IF r.id = id /\ (r.ctx = StationCtx) = ofStation
                     THEN [r EXCEPT !.attr = b] ELSE r
<1>1. rows' = {new(r) : r \in rows}
  BY DEF SetAttrs
<1>2. \A r \in rows : SamePlace(r, new(r)) /\ new(r).val = r.val
  <2> TAKE r \in rows
  <2>1. r \in DataRow
    BY DEF TypeOK
  <2>2. LET n == [r EXCEPT !.attr = b] IN SamePlace(r, n) /\ n.val = r.val
    BY <2>1 DEF DataRow, SamePlace
  <2>3. SamePlace(r, r)
    BY DEF SamePlace
  <2> QED
    BY <2>2, <2>3
<1> HIDE DEF new
<1>3. ASSUME UniqueRows(rows), NEW a \in rows', NEW c \in rows', SameTable(a, c), a.id = c.id
      PROVE  a = c
  <2>1. PICK p \in rows, q \in rows : a = new(p) /\ c = new(q)
    BY <1>1
  <2>2. SameTable(p, q) /\ p.id = q.id
    BY <1>2, <1>3, <2>1 DEF SamePlace, SameTable
  <2>3. p = q
    BY <1>3, <2>2 DEF UniqueRows
  <2> QED
    BY <2>1, <2>3
<1>4. UniqueRows(rows) => UniqueRows(rows')
  BY <1>3 DEF UniqueRows
<1> QED
  BY <1>1, <1>2, <1>4

\* An action that adds no row, and forgets or keeps the cached station.
LEMMA FewerKeys ==
    ASSUME KeysInv, UniqueRows(rows'), UniqueIds(levtr'), LevelsFiled(rows', levtr'),
           UniqueRows(saved'.rows), UniqueIds(saved'.levtr),
           LevelsFiled(saved'.rows, saved'.levtr),
           last' \in {last, NoStation}
    PROVE  KeysInv'
<1>1. last' \in CachedStation => OneQueued(last')
  BY NoStationAssumption DEF KeysInv
<1> QED
  BY <1>1 DEF KeysInv, UniqueRows, UniqueIds, LevelsFiled, IdsOf, OneQueued

LEMMA DeleteKeys ==
    ASSUME KeysInv, NEW D, DeleteRows(D)
    PROVE  KeysInv'
<1>1. rows' \subseteq rows /\ levtr' = levtr /\ saved' = saved /\ last' = NoStation
  BY DEF DeleteRows
<1>2. UniqueRows(rows') /\ LevelsFiled(rows', levtr')
  BY <1>1 DEF KeysInv, UniqueRows, LevelsFiled
<1> QED
  BY <1>1, <1>2, FewerKeys DEF KeysInv

LEMMA SetAttrsKeys ==
    ASSUME TypeOK, KeysInv, NEW ofStation, NEW id, NEW b, SetAttrs(ofStation, id, b)
    PROVE  KeysInv'
<1>0. levtr' = levtr /\ saved' = saved /\ last' = last
  BY DEF SetAttrs
<1>1. UniqueRows(rows')
  BY SetAttrsStep DEF KeysInv
<1>2. LevelsFiled(rows', levtr')
  BY <1>0, SetAttrsStep DEF KeysInv, LevelsFiled, SamePlace
<1> QED
  BY <1>0, <1>1, <1>2, FewerKeys DEF KeysInv

LEMMA NextKeys ==
    ASSUME KeyedInv, [Next]_vars
    PROVE  KeysInv'
<1>0. CacheInv /\ KeysInv /\ TypeOK
  BY DEF KeyedInv, CacheInv, LevelInv, Inv
<1>1. ASSUME NEW ref \in StationRef, NEW V \in StationVarSets,
             NEW cr \in BOOLEAN, NEW ca \in BOOLEAN,
             InsertStationData(ref[1], ref[2], V, cr, ca)
      PROVE  KeysInv'
  BY <1>0, <1>1, InsertStationDataStep DEF TameStep
<1>2. ASSUME NEW ref \in StationRef, NEW V \in VarSets,
             NEW cr \in BOOLEAN, NEW ca \in BOOLEAN,
             NEW dt \in Datetimes \cup {NoDatetime},
             NEW lt \in LevTrs \cup {NoLevTr},
             InsertData(ref[1], ref[2], dt, lt, V, cr, ca)
      PROVE  KeysInv'
  BY <1>0, <1>2, InsertDataStep DEF TameStep
<1>3. ASSUME NEW m \in Messages, NEW o \in ImportOptions,
             \/ ImportMessage(m, o)
             \/ \E m2 \in Messages : ImportMessages(m, m2, o)
      PROVE  KeysInv'
  BY <1>0, <1>3, ImportMessageStep, ImportMessagesStep DEF TameStep
<1>4. ASSUME NEW D, DeleteRows(D) PROVE KeysInv'
  BY <1>0, <1>4, DeleteKeys
<1>5. ASSUME NEW q \in Queries, RemoveStationData(q) \/ RemoveData(q)
      PROVE  KeysInv'
  BY <1>4, <1>5 DEF RemoveStationData, RemoveData
<1>6. ASSUME NEW id \in Ids, RemoveStationDataById(id) \/ RemoveDataById(id)
      PROVE  KeysInv'
  BY <1>4, <1>6 DEF RemoveStationDataById, RemoveDataById
<1>7. ASSUME NEW id \in AttrTargets, NEW b \in BOOLEAN,
             AttrInsert(b, id) \/ AttrRemove(b, id)
      PROVE  KeysInv'
  BY <1>0, <1>7, SetAttrsKeys DEF AttrInsert, AttrRemove
<1>8. CASE RemoveAll
  BY <1>0, <1>8, FewerKeys DEF RemoveAll, KeysInv, UniqueRows, UniqueIds, LevelsFiled
<1>9. CASE Begin
  BY <1>0, <1>9, FewerKeys DEF Begin, Tables, KeysInv
<1>10. CASE Commit
  BY <1>0, <1>10, FewerKeys DEF Commit, Tables, KeysInv
<1>11. CASE Rollback
  BY <1>0, <1>11, FewerKeys DEF Rollback, KeysInv
<1>12. CASE Vacuum
  <2>1. /\ levtr' \subseteq levtr /\ rows' \subseteq rows /\ last' = last
        /\ saved'.levtr = levtr' /\ saved'.rows = rows'
    BY <1>12 DEF Vacuum
  <2>2. UniqueRows(rows') /\ UniqueIds(levtr')
    BY <1>0, <2>1 DEF KeysInv, UniqueRows, UniqueIds
  <2>3. LevelsFiled(rows', levtr')
    BY <1>0, <1>12 DEF Vacuum, KeysInv, LevelsFiled, IdsOf
  <2> QED
    BY <1>0, <2>1, <2>2, <2>3, FewerKeys
<1>13. CASE UNCHANGED vars
  BY <1>0, <1>13, FewerKeys DEF vars, KeysInv
<1> QED
  BY <1>1, <1>2, <1>3, <1>5, <1>6, <1>7, <1>8, <1>9, <1>10, <1>11,
     <1>12, <1>13 DEF Next

LEMMA InitKeyedInv == Init => KeyedInv
BY InitCacheInv, NoStationAssumption DEF Init, KeyedInv, KeysInv, UniqueRows, UniqueIds, LevelsFiled

LEMMA NextKeyedInv == KeyedInv /\ [Next]_vars => KeyedInv'
BY NextCacheInv, NextKeys DEF KeyedInv

----------------------------------------------------------------------------
(* For the modules that build on transactions                              *)

\* Tables found by a program are as good as those it makes.
LEMMA ConsistentKeyed ==
    ASSUME NEW t, Consistent(t),
           station = t.station, levtr = t.levtr, rows = t.rows, saved = t,
           last = NoStation, cache = {}, wattrs = TRUE, res = "ok",
           fired \in BOOLEAN, begun \in Nat
    PROVE  KeyedInv
<1>1. TypeOK
  BY DEF TypeOK, Consistent, Outcomes
<1>2. Typed(Here)
  BY <1>1 DEF TypeOK, Here, Typed, Outcomes
<1>3. /\ IsFiniteSet(station) /\ IsFiniteSet(levtr) /\ IsFiniteSet(rows)
      /\ UniqueKeys(station) /\ UniqueLevels(levtr) /\ UniqueIds(levtr)
      /\ UniqueRows(rows) /\ Filed(station, rows) /\ LevelsFiled(rows, levtr)
  BY DEF Consistent, UniqueKeys, UniqueLevels, UniqueIds, UniqueRows, Filed, LevelsFiled
<1>4. Sound(Here)
  BY <1>2, <1>3, NoStationAssumption DEF Here, Sound, Good, Finite, KnowsStation
<1>5. LevelInv
  <2>1. Inv
    BY <1>1, <1>3, <1>4 DEF Inv
  <2>2. LevTrCacheMirrorsDb
    BY DEF LevTrCacheMirrorsDb, Consistent
  <2> QED
    BY <1>3, <2>1, <2>2 DEF LevelInv
<1> QED
  BY <1>3, <1>5, NoStationAssumption DEF KeyedInv, CacheInv, CacheLinked, KeysInv

\* Levels of results are read into the cache.
LEMMA ReadLevelsKeyed ==
    ASSUME KeyedInv, ~fired, cache' \subseteq cache \cup levtr, res' \in {res, "ok"},
           UNCHANGED <<station, levtr, rows, last, wattrs, fired, saved, begun>>
    PROVE  KeyedInv'
<1>1. Inv /\ LevTrCacheMirrorsDb /\ TypeOK
  BY DEF KeyedInv, CacheInv, LevelInv, Inv
<1>2. TypeOK' /\ LevTrCacheMirrorsDb'
  BY <1>1 DEF TypeOK, LevTrCacheMirrorsDb, Outcomes
<1>3. Inv'
  BY <1>1, <1>2, InvTables, TablesInv
<1>4. LevelInv'
  BY <1>2, <1>3 DEF KeyedInv, CacheInv, LevelInv, UniqueLevels
<1>5. CacheInv'
  BY <1>4 DEF KeyedInv, CacheInv, CacheLinked, Filed, HasRow, Knows, QueueFits, IdsOf
<1> QED
  BY <1>5 DEF KeyedInv, KeysInv, UniqueRows, UniqueIds, LevelsFiled, IdsOf, OneQueued

LEMMA DeleteKeyed ==
    ASSUME KeyedInv, NEW D, DeleteRows(D)
    PROVE  KeyedInv'
<1>1. Inv /\ CacheInv /\ KeysInv /\ LevelInv
  BY DEF KeyedInv, CacheInv, LevelInv
<1>2. Inv'
  BY <1>1, DeleteInv
<1>3. LevelInv'
  BY <1>1, <1>2, SameLevelsGoal DEF DeleteRows, LevelInv, LevelGoal, UniqueLevels
<1>4. CacheInv'
  BY <1>1, <1>3, DeleteLinked DEF CacheInv, CacheGoal, Filed
<1> QED
  BY <1>1, <1>4, DeleteKeys DEF KeyedInv

----------------------------------------------------------------------------
(* Ids                                                                     *)

\* Whatever is queued, refused or rolled back, the row that an id names stays
\* the only one of its table, and the level that a value is filed under is there:
\* what a program reads or changes by row id is one value. (The ids that
\* insert_new hands out, batch.cc:194-201 and 244-252, are those that the known
\* ids go by afterwards.)
THEOREM RowIdsNameOneRow ==
    Spec => [](UniqueRows(rows) /\ UniqueIds(levtr) /\ LevelsFiled(rows, levtr))
<1>1. KeyedInv => UniqueRows(rows) /\ UniqueIds(levtr) /\ LevelsFiled(rows, levtr)
  BY DEF KeyedInv, KeysInv
<1> QED
  BY <1>1, InitKeyedInv, NextKeyedInv, PTL DEF Spec


----------------------------------------------------------------------------
(* Station values and imports                                              *)

StationRows(R) == {r \in R : r.ctx = StationCtx}

OnlyMeasured(s) == s.last \in CachedStation => \A q \in s.last.queue : q.ctx # StationCtx

\* An insert of measured values adds no row to station_data.
LEMMA InsertRowsMeasured ==
    ASSUME NEW s, Good(s), s.last \in CachedStation, OnlyMeasured(s)
    PROVE  LET t == InsertRows(s)
           IN  StationRows(t.rows) = StationRows(s.rows) /\ OnlyMeasured(t)
<1> DEFINE row(q) == [id |-> NewRowId(s, q), st |-> s.last.id, ctx |-> q.ctx,
                      lt |-> q.lt, code |-> q.code, val |-> q.val,
                      attr |-> q.attr /\ s.attrs]
           new == {row(q) : q \in Inserts(s.last)}
           t == InsertRows(s)
<1>1. CASE s.err # "ok"
  BY <1>1 DEF InsertRows
<1>2. CASE s.err = "ok" /\ BreaksConstraint(s)
  <2>1. t = [s EXCEPT !.err = "sql"]
    BY <1>2 DEF InsertRows, Throw
  <2>2. t.rows = s.rows /\ t.last = s.last
    BY <2>1 DEF Good, Typed
  <2> HIDE DEF t
  <2>3. StationRows(t.rows) = StationRows(s.rows) /\ OnlyMeasured(t)
    BY <2>2 DEF OnlyMeasured
  <2> QED
    BY <2>3 DEF t
<1>3. CASE s.err = "ok" /\ ~BreaksConstraint(s)
  <2>1. PICK I : t = [s EXCEPT !.rows = @ \cup new, !.last.ids = I]
    BY <1>3 DEF InsertRows
  <2>2. \A q \in Inserts(s.last) : row(q).ctx = q.ctx
    OBVIOUS
  <2>3. \A a \in new : \E q \in Inserts(s.last) : a = row(q)
    OBVIOUS
  <2> HIDE DEF row, new
  <2>4. t.rows = s.rows \cup new /\ t.last.queue = s.last.queue
    BY <2>1 DEF Good, Typed, CachedStation
  <2> HIDE DEF t
  <2>5. \A a \in new : a.ctx # StationCtx
    BY <2>2, <2>3 DEF OnlyMeasured, Inserts
  <2>6. StationRows(t.rows) = StationRows(s.rows) /\ OnlyMeasured(t)
    BY <2>4, <2>5 DEF StationRows, OnlyMeasured
  <2> QED
    BY <2>6 DEF t
<1> QED
  BY <1>1, <1>2, <1>3

\* An update of measured values changes no row of station_data.
LEMMA UpdateRowsMeasured ==
    ASSUME NEW s, Good(s), s.last \in CachedStation, OnlyMeasured(s)
    PROVE  LET t == UpdateRows(s)
           IN  StationRows(t.rows) = StationRows(s.rows) /\ OnlyMeasured(t)
<1> DEFINE hits(r) == {q \in Updates(s.last) : SameTable(q, r) /\ q.id = r.id}
           updated(r) == IF hits(r) = {} THEN r
                         ELSE LET q == CHOOSE q \in hits(r) : TRUE IN
                              [r EXCEPT !.val = q.val, !.attr = q.attr /\ s.attrs]
           t == UpdateRows(s)
<1>1. CASE s.err # "ok"
  BY <1>1 DEF UpdateRows
<1>2. CASE s.err = "ok"
  <2>1. t = [s EXCEPT !.rows = {updated(r) : r \in s.rows}, !.last.queue = {}]
    BY <1>2 DEF UpdateRows
  <2>2. \A r \in s.rows : r.ctx = StationCtx => updated(r) = r
    <3> TAKE r \in s.rows
    <3>1. r.ctx = StationCtx => hits(r) = {}
      BY DEF SameTable, OnlyMeasured, Updates
    <3> HIDE DEF hits
    <3> QED
      BY <3>1
  <2>3. \A r \in s.rows : updated(r).ctx = r.ctx
    BY DEF Good, Typed, DataRow
  <2>4. \A a \in {updated(r) : r \in s.rows} : \E r \in s.rows : a = updated(r)
    OBVIOUS
  <2>5. \A r \in s.rows : updated(r) \in {updated(x) : x \in s.rows}
    OBVIOUS
  <2> HIDE DEF updated
  <2>6. t.rows = {updated(r) : r \in s.rows} /\ t.last.queue = {}
    BY <2>1 DEF Good, Typed, CachedStation
  <2> HIDE DEF t
  <2>7. ASSUME NEW a \in t.rows, a.ctx = StationCtx
        PROVE  a \in s.rows
    BY <2>2, <2>3, <2>4, <2>6, <2>7
  <2>8. ASSUME NEW r \in s.rows, r.ctx = StationCtx
        PROVE  r \in t.rows
    BY <2>2, <2>5, <2>6, <2>8
  <2>9. StationRows(t.rows) = StationRows(s.rows) /\ OnlyMeasured(t)
    BY <2>6, <2>7, <2>8 DEF StationRows, OnlyMeasured
  <2> QED
    BY <2>9 DEF t
<1> QED
  BY <1>1, <1>2

LEMMA WritePendingMeasured ==
    ASSUME NEW s, Sound(s), OnlyMeasured(s)
    PROVE  LET t == WritePending(s)
           IN  StationRows(t.rows) = StationRows(s.rows) /\ OnlyMeasured(t)
<1>1. CASE s.err # "ok" \/ s.last = NoStation
  BY <1>1 DEF WritePending
<1>2. CASE s.err = "ok" /\ s.last # NoStation
  <2> DEFINE s1 == InsertStation(s)
             s2 == InsertRows(s1)
  <2>1. WritePending(s) = UpdateRows(s2)
    BY <1>2 DEF WritePending
  <2>2. s.last \in CachedStation
    BY <1>2 DEF Sound, Good, Typed
  <2>3. Good(s1) /\ s1.last \in CachedStation /\ (s1.err = "ok" => s1.last.id \in RowIds)
    BY <2>2, InsertStationGood DEF Sound
  <2>4. s1.rows = s.rows /\ s1.last.queue = s.last.queue
    BY <2>2 DEF InsertStation, Throw, Sound, Good, Typed, CachedStation
  <2> HIDE DEF s1
  <2>5. OnlyMeasured(s1)
    BY <2>2, <2>4 DEF OnlyMeasured
  <2>6. /\ Good(s2) /\ s2.last \in CachedStation
        /\ StationRows(s2.rows) = StationRows(s1.rows) /\ OnlyMeasured(s2)
    BY <2>3, <2>5, InsertRowsGood, InsertRowsMeasured
  <2> HIDE DEF s2
  <2> QED
    BY <2>1, <2>4, <2>6, UpdateRowsMeasured
<1> QED
  BY <1>1, <1>2

\* A station that has a row is found, and it is not a new one without a row.
LEMMA GetStationStored ==
    ASSUME NEW s, Sound(s), Linked(s), s.err = "ok", OnlyMeasured(s), NEW key \in Stations,
           NEW x \in s.station, x.key = key
    PROVE  LET t == GetStation(s, key, MissingId, TRUE)
           IN  /\ StationRows(t.rows) = StationRows(s.rows) /\ OnlyMeasured(t)
               /\ s.station \subseteq t.station
               /\ t.err = "ok" => t.last \in CachedStation /\ t.last.id # MissingId
<1> DEFINE t == GetStation(s, key, MissingId, TRUE)
           w == WritePending(s)
           n == NewStation(s, key)
<1>1. t = IF HaveStation(s, key) THEN s ELSE FindStation(n, TRUE)
  BY SentinelAssumption DEF GetStation, GetStationByKey
<1>2. CASE HaveStation(s, key)
  <2>1. t = s /\ s.last \in CachedStation /\ s.last.key = key
    BY <1>1, <1>2 DEF HaveStation, Sound, Good, Typed
  <2>2. s.last.id # MissingId
    BY <2>1 DEF Sound, KnowsStation
  <2> QED
    BY <2>1, <2>2
<1>3. CASE ~HaveStation(s, key)
  <2>1. /\ Good(w) /\ w.err = "ok" /\ s.station \subseteq w.station
        /\ StationRows(w.rows) = StationRows(s.rows)
    BY WritePendingSound, WritePendingLinked, WritePendingKeepsStations,
       WritePendingMeasured DEF Sound
  <2>2. n = [w EXCEPT !.last = Fresh(key)]
    BY <2>1 DEF NewStation, CacheStation
  <2> HIDE DEF w
  <2>3. /\ n.station = w.station /\ n.rows = w.rows /\ n.err = "ok" /\ n.last = Fresh(key)
    BY <2>1, <2>2 DEF Good, Typed
  <2>4. /\ Live(n) /\ UniqueKeys(n.station)
    BY NewStationSound
  <2> HIDE DEF n
  <2> DEFINE found == LookupStation(n, n.last.key)
             id == (CHOOSE r \in found : TRUE).id
  <2>5. x \in found
    BY <2>1, <2>3 DEF LookupStation, Fresh
  <2>6. \A a, b \in found : a = b
    BY <2>4 DEF LookupStation, UniqueKeys
  <2>7. t = SetStationId(n, id)
    BY <1>1, <1>3, <2>3, <2>5, <2>6 DEF FindStation
  <2>8. id = x.id
    BY <2>5, <2>6
  <2>9. x.id # MissingId /\ x.id \in RowIds
    BY DEF Sound, Good, Typed, StationRow, RowIds, MissingId
  <2> HIDE DEF id, found
  <2>10. t = [n EXCEPT !.last.id = id, !.last.isNew = FALSE]
    BY <2>3, <2>7 DEF SetStationId
  <2>11. n.last \in CachedStation /\ n.last.queue = {}
    BY <2>3, <2>4 DEF Live, Fresh
  <2>12. /\ t.rows = n.rows /\ t.station = n.station /\ t.last.queue = {}
         /\ t.last.id = id
    <3>1. t = [n EXCEPT !.last = [n.last EXCEPT !.id = id, !.isNew = FALSE]]
      BY <2>10
    <3> DEFINE L == [n.last EXCEPT !.id = id, !.isNew = FALSE]
    <3>2. L.queue = {} /\ L.id = id
      BY <2>11 DEF CachedStation
    <3> HIDE DEF L
    <3>3. t = [n EXCEPT !.last = L]
      BY <3>1 DEF L
    <3> HIDE DEF t
    <3>4. t.rows = n.rows /\ t.station = n.station /\ t.last = L
      BY <2>4, <3>3 DEF Live, Good, Typed
    <3> QED
      BY <3>2, <3>4
  <2>13. Live(t)
    BY GetStationGood DEF Sound, RowIds
  <2> HIDE DEF t
  <2>14. /\ StationRows(t.rows) = StationRows(s.rows) /\ OnlyMeasured(t)
         /\ s.station \subseteq t.station
         /\ t.err = "ok" => t.last \in CachedStation /\ t.last.id # MissingId
    BY <2>1, <2>3, <2>8, <2>9, <2>12, <2>13 DEF OnlyMeasured, Live
  <2> QED
    BY <2>14 DEF t
<1> QED
  BY <1>2, <1>3

\* What a message queues for measured values.
LEMMA AddMsgDataMeasured ==
    ASSUME NEW s, Sound(s), Live(s), OnlyMeasured(s), NEW m, MessageType(m), NEW o
    PROVE  LET t == AddMsgData(s, m, o)
           IN  /\ t.rows = s.rows /\ t.station = s.station /\ OnlyMeasured(t)
<1> DEFINE L == {d.lt : d \in m.data}
           s1 == Load(s, m.dt)
           s2 == ObtainLevTrs(s1, L)
           t == AddMsgData(s, m, o)
<1>1. CASE m.data = {}
  BY <1>1 DEF AddMsgData
<1>2. CASE m.data # {} /\ m.dt = NoDatetime
  <2>1. t = Throw(s, "notfound")
    BY <1>2 DEF AddMsgData
  <2>2. t.rows = s.rows /\ t.station = s.station /\ t.last = s.last
    BY <2>1 DEF Throw, Sound, Good, Typed
  <2> HIDE DEF t
  <2>3. OnlyMeasured(t)
    BY <2>2 DEF OnlyMeasured
  <2> QED
    BY <2>2, <2>3 DEF t
<1>3. CASE m.data # {} /\ m.dt # NoDatetime
  <2>1. t = Add(s2, m.dt, WithLevTr(s2, m.data), ImportMode(o))
    BY <1>3 DEF AddMsgData, AddAtLevTr
  <2>2. m.dt \in Contexts /\ m.dt # StationCtx
    BY <1>3, SentinelAssumption DEF MessageType, Contexts
  <2>3. Live(s1) /\ s1.err = s.err /\ Good(s)
    BY <2>2, LoadLive DEF Live
  <2>4. s1.rows = s.rows /\ s1.station = s.station
        /\ (s.err = "ok" => s1.last.queue = s.last.queue)
    BY <2>3 DEF Load, Live, Good, Typed, CachedStation
  <2>5. s2.rows = s1.rows /\ s2.station = s1.station /\ s2.last = s1.last
        /\ s2.err = s1.err
    BY <2>3 DEF ObtainLevTrs, Live, Good, Typed
  <2>6. s.err # "ok" => s1 = s /\ s2 = s
    BY DEF Load, ObtainLevTrs
  <2>7. Live(s2)
    <3>1. L \in SUBSET LevTrs /\ IsFiniteSet(L)
      <4>1. L \in SUBSET LevTrs
        BY DEF MessageType
      <4>2. IsFiniteSet(L)
        <5> DEFINE f == [d \in m.data |-> d.lt]
        <5>1. DOMAIN f = m.data /\ L = {f[d] : d \in m.data}
          OBVIOUS
        <5>2. IsFiniteSet(m.data)
          BY DEF MessageType
        <5> HIDE DEF f, L
        <5> QED
          BY <5>1, <5>2, ImageFinite
      <4> QED
        BY <4>1, <4>2
    <3> QED
      BY <2>3, <3>1, ObtainLevTrsLive
  <2> HIDE DEF s1, s2
  <2>8. CASE s.err # "ok"
    <3>1. t = s
      BY <2>1, <2>6, <2>8 DEF Add
    <3> QED
      BY <3>1
  <2>9. CASE s.err = "ok"
    <3> DEFINE V == WithLevTr(s2, m.data)
    <3>1. PICK Q, e : /\ t = [s2 EXCEPT !.last.queue = Q, !.err = e]
                      /\ \A q \in Q : q \in s2.last.queue \/ q.ctx = m.dt
      <4> DEFINE mode == ImportMode(o)
                 item(v, id) == [id |-> id, ctx |-> m.dt, lt |-> v.lt, code |-> v.code,
                                 val |-> v.val, attr |-> v.attr]
                 match(v) == {i \in s2.last.ids : SameKey(i, item(v, MissingId))}
                 clashes == {v \in V : mode = "ERROR" /\ match(v) # {}}
                 taken == {v \in V : /\ mode = "IGNORE" => match(v) = {}
                                     /\ \A w \in clashes :
                                          Before(item(v, MissingId), item(w, MissingId))}
                 new(v) == item(v, IF match(v) = {} THEN MissingId
                                   ELSE (CHOOSE i \in match(v) : TRUE).id)
                 queued == {new(v) : v \in taken}
                 replaced == {q \in s2.last.queue : \E p \in queued : SameKey(p, q)}
                 Q == (s2.last.queue \ replaced) \cup queued
                 e == IF clashes = {} THEN s2.err ELSE "exists"
      <4>1. t = [s2 EXCEPT !.last.queue = Q, !.err = e]
        BY <2>1, <2>3, <2>5, <2>9 DEF Add
      <4>2. \A v : new(v).ctx = m.dt
        OBVIOUS
      <4>3. \A q \in queued : \E v \in taken : q = new(v)
        OBVIOUS
      <4> HIDE DEF new, taken, e, replaced
      <4>4. \A q \in queued : q.ctx = m.dt
        BY <4>2, <4>3
      <4> HIDE DEF queued
      <4>5. \A q \in Q : q \in s2.last.queue \/ q.ctx = m.dt
        BY <4>4
      <4> QED
        BY <4>1, <4>5
    <3>2. s2.last \in CachedStation
      BY <2>3, <2>5, <2>7, <2>9 DEF Live
    <3>3. t.rows = s2.rows /\ t.station = s2.station /\ t.last.queue = Q
      BY <2>7, <3>1, <3>2 DEF Live, Good, Typed, CachedStation
    <3>4. s.last \in CachedStation
      BY <2>9 DEF Live
    <3> HIDE DEF t
    <3>5. OnlyMeasured(t)
      BY <2>2, <2>4, <2>5, <2>9, <3>1, <3>3, <3>4 DEF OnlyMeasured
    <3> QED
      BY <2>4, <2>5, <3>3, <3>5 DEF t
  <2> QED
    BY <2>8, <2>9
<1> QED
  BY <1>1, <1>2, <1>3

\* An import into a station that has a row, without its station values.
LEMMA ImportMeasured ==
    ASSUME NEW s, Sound(s), Linked(s), s.err = "ok", OnlyMeasured(s), NEW m, MessageType(m),
           NEW o \in ImportOptions, ~o.updateStation,
           NEW x \in s.station, x.key = m.key
    PROVE  LET t == ImportMessageCall(s, m, o)
           IN  StationRows(t.rows) = StationRows(s.rows) /\ s.station \subseteq t.station
<1> DEFINE s0 == SetWriteAttrs(s, o.importAttributes)
           s1 == GetStation(s0, m.key, MissingId, TRUE)
           s2 == AddMsgStation(s1, m, o)
           s3 == AddMsgData(s2, m, o)
           t == ImportMessageCall(s, m, o)
<1>0. m.key \in Stations
  BY DEF Sound, Good, Typed, StationRow
<1>1. t = WritePending(s3)
  BY <1>0, SentinelAssumption DEF ImportMessageCall, AddMsgToBatch
<1>2. /\ s0.rows = s.rows /\ s0.station = s.station /\ s0.err = "ok"
      /\ s0.last \in {s.last, NoStation}
  BY DEF SetWriteAttrs, Sound, Good, Typed
<1>3. Sound(s0) /\ Linked(s0)
  BY SetWriteAttrsSound, SetWriteAttrsLinked DEF ImportOptions
<1> HIDE DEF s0
<1>4. OnlyMeasured(s0)
  BY <1>2, NoStationAssumption DEF OnlyMeasured
<1>5. /\ StationRows(s1.rows) = StationRows(s.rows) /\ OnlyMeasured(s1)
      /\ s.station \subseteq s1.station
      /\ s1.err = "ok" => s1.last \in CachedStation /\ s1.last.id # MissingId
  BY <1>0, <1>2, <1>3, <1>4, GetStationStored
<1>6. Sound(s1) /\ Live(s1)
  BY <1>0, <1>3, GetStationSound DEF RowIds
<1> HIDE DEF s1
<1>7. s2 = s1
  BY <1>5 DEF AddMsgStation
<1>8. s3.rows = s1.rows /\ s3.station = s1.station /\ OnlyMeasured(s3)
  BY <1>5, <1>6, <1>7, AddMsgDataMeasured
<1>9. Sound(s3)
  BY <1>6, <1>7, AddMsgDataSound
<1> HIDE DEF s3
<1> QED
  BY <1>1, <1>5, <1>8, <1>9, WritePendingMeasured, WritePendingKeepsStations DEF Sound

\* An import that is not told to update stations changes no station value of a
\* station that is stored: also not when an earlier call of the transaction has
\* created it and the batch still has it as a new one (import.cc:48), since it has a
\* row id by then.
THEOREM StationsAreLeftAlone == Spec => StationValuesKept
<1>1. ASSUME CacheInv, NEW m \in Messages,
             NEW o \in [overwrite : BOOLEAN, updateStation : {FALSE},
                        importAttributes : BOOLEAN],
             last # NoStation => last.queue = {},
             m.key \in {r.key : r \in station}, ImportMessage(m, o)
      PROVE  StationValues(m.key)' = StationValues(m.key)
  <2> DEFINE t == ImportMessageCall(Here, m, o)
  <2>1. Sound(Here) /\ Linked(Here) /\ Here.err = "ok"
    BY <1>1, HereLinked DEF CacheInv, LevelInv, Inv, Here
  <2>2. MessageType(m)
    BY MessagesAssumption DEF MessageType
  <2>3. o \in ImportOptions /\ ~o.updateStation
    BY DEF ImportOptions
  <2>4. PICK x \in station : x.key = m.key
    BY <1>1
  <2>5. OnlyMeasured(Here)
    BY <1>1, NoStationAssumption DEF OnlyMeasured, Here
  <2>6. x \in Here.station
    BY DEF Here
  <2>7. StationRows(t.rows) = StationRows(Here.rows) /\ Here.station \subseteq t.station
    BY <2>1, <2>2, <2>3, <2>4, <2>5, <2>6, ImportMeasured
  <2>8. UniqueKeys(t.station)
    BY <2>1, <2>2, <2>3, ImportMessageSound DEF Sound
  <2>9. rows' = t.rows /\ station' = t.station
    BY <1>1 DEF ImportMessage, Call, Return
  <2> HIDE DEF t
  <2>10. StationRows(rows') = StationRows(rows) /\ station \subseteq station'
         /\ UniqueKeys(station')
    BY <2>7, <2>8, <2>9 DEF Here
  <2>11. \A i : [id |-> i, key |-> m.key] \in station' <=> [id |-> i, key |-> m.key] \in station
    BY <2>4, <2>10 DEF UniqueKeys
  <2> QED
    BY <2>10, <2>11 DEF StationValues, StationRows
<1>2. CacheInv => \A m \in Messages,
                     o \in [overwrite : BOOLEAN, updateStation : {FALSE},
                            importAttributes : BOOLEAN] :
                     /\ last # NoStation => last.queue = {}
                     /\ m.key \in {r.key : r \in station}
                     /\ ImportMessage(m, o)
                     => StationValues(m.key)' = StationValues(m.key)
  BY <1>1
<1> QED
  BY <1>2, InitCacheInv, NextCacheInv, PTL DEF Spec, StationValuesKept

----------------------------------------------------------------------------
(***************************************************************************)
(* The archive.  From here on: the batch, with its cache, its queue and    *)
(* its row ids, does what the archive does, whatever is called and         *)
(* whichever calls throw.                                                  *)
(***************************************************************************)

\* The slot and the contents of a row or queued value x of the station of key k.
Value(T, k, x) == [key |-> k, ctx |-> x.ctx, lt |-> LtOf(T, x.lt),
                   code |-> x.code, val |-> x.val, attr |-> x.attr]

\* The state of the archive that record s stands for.
Abs(s) == [stations |-> KeysIn(s), content |-> ValuesIn(s),
           left |-> IF s.last = NoStation THEN [key |-> NoStation, values |-> {}]
                    ELSE [key |-> s.last.key,
                          values |-> {Value(s, s.last.key, q) : q \in s.last.queue}],
           keep |-> s.attrs]

\* Station values have no level; the level of the others is in table T.
Placed(x, T) == IF x.ctx = StationCtx THEN x.lt = MissingId ELSE x.lt \in IdsOf(T)

OneSlot(R) == \A a, b \in R : a.st = b.st /\ SameKey(a, b) => a = b

NoLevel(X) == \A x \in X : x.ctx = StationCtx => x.lt = MissingId

SlottedTables(T) == UniqueIds(T.station) /\ OneSlot(T.rows) /\ NoLevel(T.rows)

\* A queued update is of a row known to have its slot; a station without a row is
\* held as a new one.
QueuesKnown(L) ==
    /\ NoLevel(L.queue)
    /\ \A q \in Updates(L) : \E i \in L.ids : i.id = q.id /\ SameKey(i, q)
    /\ L.id = MissingId => L.isNew

Slotted(s) == SlottedTables(s) /\ (s.last \in CachedStation => QueuesKnown(s.last))

Whole(s) == Sound(s) /\ Leveled(s) /\ Linked(s) /\ Keyed(s) /\ Slotted(s)

----------------------------------------------------------------------------
(* What rows stand for                                                     *)

LEMMA KeyIs ==
    ASSUME NEW T, UniqueIds(T.station), NEW r \in T.station
    PROVE  KeyOf(T, r.id) = r.key
BY DEF KeyOf, UniqueIds

LEMMA LtIs ==
    ASSUME NEW T, T.levtr \subseteq LevTrRow, UniqueIds(T.levtr), NEW r \in T.levtr
    PROVE  LtOf(T, r.id) = r.lt
<1>1. r.id # MissingId
  BY DEF LevTrRow, RowIds, MissingId
<1> QED
  BY <1>1 DEF LtOf, UniqueIds

LEMMA LtMissing ==
    ASSUME NEW T, NEW x, x.lt = MissingId
    PROVE  LtOf(T, x.lt) = NoLevTr
BY DEF LtOf

\* Levels that are added to the table, or taken away from it, change nothing of
\* those that stay.
LEMMA ValueStays ==
    ASSUME NEW T, NEW U, T.levtr \subseteq LevTrRow, U.levtr \subseteq LevTrRow,
           UniqueIds(T.levtr), UniqueIds(U.levtr),
           NEW x, Placed(x, T.levtr \cap U.levtr)
    PROVE  \A k : Value(T, k, x) = Value(U, k, x)
<1>1. CASE x.ctx = StationCtx
  BY <1>1, LtMissing DEF Placed, Value
<1>2. CASE x.ctx # StationCtx
  <2>1. PICK l \in T.levtr : l \in U.levtr /\ l.id = x.lt
    BY <1>2 DEF Placed, IdsOf
  <2>2. LtOf(T, x.lt) = l.lt /\ LtOf(U, x.lt) = l.lt
    BY <2>1, LtIs
  <2> QED
    BY <2>2 DEF Value
<1> QED
  BY <1>1, <1>2

\* Two values are in one slot of the archive if they are of one station, context,
\* row of levtr and code.
LEMMA SlotIs ==
    ASSUME NEW T, T.levtr \subseteq LevTrRow, UniqueIds(T.levtr), UniqueLevels(T.levtr),
           NEW x, NEW y, Placed(x, T.levtr), Placed(y, T.levtr), NEW k, NEW l
    PROVE  A!SameSlot(Value(T, k, x), Value(T, l, y)) <=> k = l /\ SameKey(x, y)
<1>1. A!SameSlot(Value(T, k, x), Value(T, l, y))
        <=> /\ k = l /\ x.ctx = y.ctx /\ LtOf(T, x.lt) = LtOf(T, y.lt)
            /\ x.code = y.code
  BY DEF A!SameSlot, Value
<1>2. ASSUME x.ctx = y.ctx, LtOf(T, x.lt) = LtOf(T, y.lt)
      PROVE  x.lt = y.lt
  <2>1. CASE x.ctx = StationCtx
    BY <1>2, <2>1 DEF Placed
  <2>2. CASE x.ctx # StationCtx
    <3>1. PICK a \in T.levtr, b \in T.levtr : a.id = x.lt /\ b.id = y.lt
      BY <1>2, <2>2 DEF Placed, IdsOf
    <3>2. LtOf(T, x.lt) = a.lt /\ LtOf(T, y.lt) = b.lt
      BY <3>1, LtIs
    <3> QED
      BY <1>2, <3>1, <3>2 DEF UniqueLevels
  <2> QED
    BY <2>1, <2>2
<1> QED
  BY <1>1, <1>2 DEF SameKey

LEMMA WholeParts ==
    ASSUME NEW s, Whole(s)
    PROVE  /\ s.levtr \subseteq LevTrRow /\ s.station \subseteq StationRow
           /\ s.rows \subseteq DataRow
           /\ UniqueIds(s.levtr) /\ UniqueLevels(s.levtr)
           /\ UniqueIds(s.station) /\ UniqueKeys(s.station)
           /\ UniqueRows(s.rows) /\ OneSlot(s.rows)
           /\ \A r \in s.rows : Placed(r, s.levtr) /\ r.st \in IdsOf(s.station)
           /\ s.last # NoStation => s.last \in CachedStation
           /\ s.last \in CachedStation => /\ OneQueued(s.last) /\ QueuesKnown(s.last)
                                          /\ \A q \in s.last.queue : Placed(q, s.levtr)
<1>1. Typed(s)
  BY DEF Whole, Sound, Good
<1>2. \A r \in s.rows : Placed(r, s.levtr) /\ r.st \in IdsOf(s.station)
  BY DEF Whole, Linked, Filed, Keyed, LevelsFiled, Slotted, SlottedTables, NoLevel, Placed
<1>3. ASSUME s.last \in CachedStation
      PROVE  OneQueued(s.last) /\ QueuesKnown(s.last)
             /\ \A q \in s.last.queue : Placed(q, s.levtr)
  BY <1>3 DEF Whole, Linked, Cached, Keyed, Slotted, QueuesKnown, QueueFits, NoLevel, Placed
<1>4. /\ UniqueIds(s.levtr) /\ UniqueLevels(s.levtr)
      /\ UniqueIds(s.station) /\ UniqueKeys(s.station)
      /\ UniqueRows(s.rows) /\ OneSlot(s.rows)
  BY DEF Whole, Sound, Leveled, Keyed, Slotted, SlottedTables
<1> QED
  BY <1>1, <1>2, <1>3, <1>4 DEF Typed

LEMMA ValuesAre ==
    ASSUME NEW T
    PROVE  ValuesIn(T) = {Value(T, KeyOf(T, r.st), r) : r \in T.rows}
BY DEF ValuesIn, Value

\* The values of a station are those of the rows with its id.
LEMMA OfStation ==
    ASSUME NEW T, UniqueIds(T.station), UniqueKeys(T.station), NEW x \in T.station,
           NEW id \in IdsOf(T.station)
    PROVE  id = x.id <=> KeyOf(T, id) = x.key
<1>1. PICK y \in T.station : y.id = id
  BY DEF IdsOf
<1>2. KeyOf(T, id) = y.key
  BY <1>1, KeyIs
<1> QED
  BY <1>1, <1>2 DEF UniqueIds, UniqueKeys

----------------------------------------------------------------------------
(* Writing what is queued                                                  *)

\* Row r holds what was queued as q for the station of row id.
Holds(r, id, q, keep) == /\ r.st = id /\ SameKey(r, q)
                         /\ r.val = q.val /\ r.attr = (q.attr /\ keep)

\* Between s and t the queue Q of the station of row id was written.
Written(R, S, id, Q, keep) ==
    /\ \A r \in S : \/ r \in R /\ \A q \in Q : ~(r.st = id /\ SameKey(r, q))
                    \/ \E q \in Q : Holds(r, id, q, keep)
    /\ \A r \in R : (\A q \in Q : ~(r.st = id /\ SameKey(r, q))) => r \in S
    /\ \A q \in Q : \E r \in S : Holds(r, id, q, keep)

\* The inserts: rows are added, all of slots that were free.
LEMMA InsertRowsWritten ==
    ASSUME NEW s, Sound(s), Linked(s), Keyed(s), Slotted(s), s.err = "ok",
           s.last \in CachedStation, s.last.id \in RowIds
    PROVE  LET t == InsertRows(s)
           IN  /\ Written(s.rows, t.rows, s.last.id, Inserts(s.last), s.attrs)
               /\ SlottedTables(t) /\ t.station = s.station /\ t.levtr = s.levtr
               /\ s.rows \subseteq t.rows
               /\ t.last.queue = s.last.queue /\ t.last.key = s.last.key
               /\ t.last.id = s.last.id /\ t.last.isNew = s.last.isNew
               /\ t.attrs = s.attrs
<1> DEFINE row(q) == [id |-> NewRowId(s, q), st |-> s.last.id, ctx |-> q.ctx,
                      lt |-> q.lt, code |-> q.code, val |-> q.val,
                      attr |-> q.attr /\ s.attrs]
           new == {row(q) : q \in Inserts(s.last)}
           t == InsertRows(s)
<1>1. PICK I : t = [s EXCEPT !.rows = @ \cup new, !.last.ids = I]
  BY NothingRefused DEF InsertRows
<1>2. \A q \in Inserts(s.last) : row(q) \in new /\ Holds(row(q), s.last.id, q, s.attrs)
                                 /\ row(q).ctx = q.ctx /\ row(q).lt = q.lt
  BY DEF Holds, SameKey
<1>3. \A a \in new : \E q \in Inserts(s.last) : a = row(q)
  OBVIOUS
<1>4. \A q \in Inserts(s.last), r \in s.rows : ~(r.st = s.last.id /\ SameKey(r, q))
  BY NothingRefused DEF BreaksConstraint
<1> HIDE DEF row, new
<1>5. /\ t.rows = s.rows \cup new /\ t.station = s.station /\ t.levtr = s.levtr
      /\ t.last.queue = s.last.queue /\ t.last.key = s.last.key
      /\ t.last.id = s.last.id /\ t.last.isNew = s.last.isNew /\ t.attrs = s.attrs
  BY <1>1 DEF Sound, Good, Typed, CachedStation
<1> HIDE DEF t
<1>6. Written(s.rows, t.rows, s.last.id, Inserts(s.last), s.attrs)
  BY <1>2, <1>3, <1>4, <1>5 DEF Written
<1>7. OneSlot(t.rows)
  <2> SUFFICES ASSUME NEW a \in t.rows, NEW b \in t.rows, a.st = b.st, SameKey(a, b)
               PROVE  a = b
    BY DEF OneSlot
  <2>1. CASE a \in s.rows /\ b \in s.rows
    BY <2>1 DEF Slotted, SlottedTables, OneSlot
  <2>2. ASSUME a \in new, b \in new
        PROVE  a = b
    <3>1. PICK p \in Inserts(s.last), q \in Inserts(s.last) : a = row(p) /\ b = row(q)
      BY <1>3, <2>2
    <3>2. SameKey(p, q)
      BY <1>2, <3>1 DEF Holds, SameKey
    <3>3. p = q
      BY <3>2 DEF Keyed, OneQueued, Inserts
    <3> QED
      BY <3>1, <3>3
  <2>3. ASSUME NEW x \in s.rows, NEW y \in new, x.st = y.st
        PROVE  ~SameKey(x, y) /\ ~SameKey(y, x)
    <3>1. PICK q \in Inserts(s.last) : y = row(q)
      BY <1>3
    <3>2. y.st = s.last.id /\ SameKey(y, q)
      BY <1>2, <3>1 DEF Holds
    <3> QED
      BY <1>4, <2>3, <3>2 DEF SameKey
  <2> QED
    BY <1>5, <2>1, <2>2, <2>3
<1>8. NoLevel(t.rows)
  BY <1>2, <1>3, <1>5 DEF Slotted, SlottedTables, NoLevel, QueuesKnown, Inserts
<1>9. SlottedTables(t) /\ s.rows \subseteq t.rows
  BY <1>5, <1>7, <1>8 DEF Slotted, SlottedTables
<1> QED
  BY <1>5, <1>6, <1>9 DEF t

\* The updates: each changes the row of its slot.
LEMMA UpdateRowsWritten ==
    ASSUME NEW s, Good(s), s.err = "ok", s.last \in CachedStation,
           UniqueRows(s.rows), SlottedTables(s), OneQueued(s.last),
           \A q \in Updates(s.last) :
              \E r \in s.rows : r.st = s.last.id /\ r.id = q.id /\ SameKey(r, q)
    PROVE  LET t == UpdateRows(s)
           IN  /\ Written(s.rows, t.rows, s.last.id, Updates(s.last), s.attrs)
               /\ SlottedTables(t) /\ t.station = s.station /\ t.levtr = s.levtr
               /\ t.last.queue = {} /\ t.last.key = s.last.key
               /\ t.last.id = s.last.id /\ t.last.isNew = s.last.isNew
               /\ t.attrs = s.attrs
<1> DEFINE hits(r) == {q \in Updates(s.last) : SameTable(q, r) /\ q.id = r.id}
           changed(r, q) == [r EXCEPT !.val = q.val, !.attr = q.attr /\ s.attrs]
           updated(r) == IF hits(r) = {} THEN r
                         ELSE LET q == CHOOSE q \in hits(r) : TRUE IN
                              [r EXCEPT !.val = q.val, !.attr = q.attr /\ s.attrs]
           t == UpdateRows(s)
           id == s.last.id
<1>1. t = [s EXCEPT !.rows = {updated(r) : r \in s.rows}, !.last.queue = {}]
  BY DEF UpdateRows
<1>2. ASSUME NEW r \in s.rows, NEW q \in Updates(s.last)
      PROVE  q \in hits(r) <=> r.st = id /\ SameKey(r, q)
  <2>1. PICK x \in s.rows : x.st = id /\ x.id = q.id /\ SameKey(x, q)
    OBVIOUS
  <2>2. SameTable(x, q)
    BY <2>1 DEF SameKey, SameTable
  <2>3. ASSUME q \in hits(r)
        PROVE  r.st = id /\ SameKey(r, q)
    <3>1. SameTable(x, r) /\ x.id = r.id
      BY <2>1, <2>2, <2>3 DEF SameTable
    <3>2. x = r
      BY <3>1 DEF UniqueRows
    <3> QED
      BY <2>1, <3>2
  <2>4. ASSUME r.st = id, SameKey(r, q)
        PROVE  q \in hits(r)
    <3>1. x.st = r.st /\ SameKey(x, r)
      BY <2>1, <2>4 DEF SameKey
    <3>2. x = r
      BY <3>1 DEF SlottedTables, OneSlot
    <3> QED
      BY <2>1, <2>2, <3>2 DEF SameTable
  <2> QED
    BY <2>3, <2>4
<1>3. ASSUME NEW r \in s.rows, NEW q \in hits(r)
      PROVE  updated(r) = changed(r, q)
  <2>1. \A p \in hits(r) : p = q
    <3> SUFFICES ASSUME NEW p \in hits(r)
                 PROVE  p = q
      OBVIOUS
    <3>1. p \in Updates(s.last) /\ q \in Updates(s.last)
      BY <1>3
    <3>2. SameKey(r, p) /\ SameKey(r, q)
      BY <1>2, <3>1
    <3>3. SameKey(p, q)
      BY <3>2 DEF SameKey
    <3> QED
      BY <3>1, <3>3 DEF OneQueued, Updates
  <2>2. (CHOOSE p \in hits(r) : TRUE) = q
    BY <2>1
  <2> QED
    BY <2>2
<1>4. \A r \in s.rows : r \in DataRow
  BY DEF Good, Typed
<1>5. \A r \in s.rows : \A q :
         /\ changed(r, q).st = r.st /\ SameKey(changed(r, q), r)
         /\ changed(r, q).val = q.val
         /\ changed(r, q).attr = (q.attr /\ s.attrs)
  BY <1>4 DEF DataRow, SameKey
<1>6. \A r \in s.rows : hits(r) = {} => updated(r) = r
  OBVIOUS
<1>7. \A a \in {updated(r) : r \in s.rows} : \E r \in s.rows : a = updated(r)
  OBVIOUS
<1>8. \A r \in s.rows : updated(r) \in {updated(x) : x \in s.rows}
  OBVIOUS
<1>9. \A r \in s.rows : \A q \in hits(r) : q \in Updates(s.last)
  OBVIOUS
<1> HIDE DEF updated, changed, hits
<1>10. /\ t.rows = {updated(r) : r \in s.rows} /\ t.station = s.station
       /\ t.levtr = s.levtr /\ t.last.queue = {} /\ t.last.key = s.last.key
       /\ t.last.id = s.last.id /\ t.last.isNew = s.last.isNew /\ t.attrs = s.attrs
  BY <1>1 DEF Good, Typed, CachedStation
<1> HIDE DEF t
<1>11. ASSUME NEW r \in s.rows, NEW q \in Updates(s.last), r.st = id, SameKey(r, q)
       PROVE  Holds(updated(r), id, q, s.attrs)
  <2>1. updated(r) = changed(r, q)
    BY <1>2, <1>3, <1>11
  <2> QED
    BY <1>5, <1>11, <2>1 DEF Holds, SameKey
<1>12. ASSUME NEW r \in s.rows, \A q \in Updates(s.last) : ~(r.st = id /\ SameKey(r, q))
       PROVE  updated(r) = r
  BY <1>2, <1>6, <1>9, <1>12
<1>13. Written(s.rows, t.rows, id, Updates(s.last), s.attrs)
  <2>1. ASSUME NEW a \in t.rows
        PROVE  \/ a \in s.rows /\ \A q \in Updates(s.last) : ~(a.st = id /\ SameKey(a, q))
               \/ \E q \in Updates(s.last) : Holds(a, id, q, s.attrs)
    <3>1. PICK r \in s.rows : a = updated(r)
      BY <1>7, <1>10
    <3> QED
      BY <1>11, <1>12, <3>1
  <2>2. ASSUME NEW r \in s.rows, \A q \in Updates(s.last) : ~(r.st = id /\ SameKey(r, q))
        PROVE  r \in t.rows
    BY <1>8, <1>10, <1>12, <2>2
  <2>3. ASSUME NEW q \in Updates(s.last)
        PROVE  \E r \in t.rows : Holds(r, id, q, s.attrs)
    <3>1. PICK r \in s.rows : r.st = id /\ SameKey(r, q)
      OBVIOUS
    <3> QED
      BY <1>8, <1>10, <1>11, <3>1
  <2> QED
    BY <2>1, <2>2, <2>3 DEF Written
<1>14. \A r \in s.rows : updated(r).st = r.st /\ SameKey(updated(r), r)
  <2> SUFFICES ASSUME NEW r \in s.rows
               PROVE  updated(r).st = r.st /\ SameKey(updated(r), r)
    OBVIOUS
  <2>1. SameKey(r, r)
    BY DEF SameKey
  <2> QED
    BY <1>3, <1>5, <1>6, <2>1
<1>15. OneSlot(t.rows)
  <2> SUFFICES ASSUME NEW a \in t.rows, NEW b \in t.rows, a.st = b.st, SameKey(a, b)
               PROVE  a = b
    BY DEF OneSlot
  <2>1. PICK x \in s.rows, y \in s.rows : a = updated(x) /\ b = updated(y)
    BY <1>7, <1>10
  <2>2. x.st = y.st /\ SameKey(x, y)
    BY <1>14, <2>1 DEF SameKey
  <2>3. x = y
    BY <2>2 DEF SlottedTables, OneSlot
  <2> QED
    BY <2>1, <2>3
<1>16. NoLevel(t.rows)
  BY <1>7, <1>10, <1>14 DEF SlottedTables, NoLevel, SameKey
<1> QED
  BY <1>10, <1>13, <1>15, <1>16 DEF SlottedTables, t

\* What the inserts and then the updates of a queue write.
LEMMA WrittenInTurn ==
    ASSUME NEW R, NEW S, NEW T, NEW id, NEW P, NEW Q, NEW keep,
           \A p \in P, q \in Q : ~SameKey(p, q),
           Written(R, S, id, P, keep), Written(S, T, id, Q, keep)
    PROVE  Written(R, T, id, P \cup Q, keep)
<1>1. ASSUME NEW p \in P, NEW q \in Q, NEW r, Holds(r, id, p, keep)
      PROVE  ~SameKey(r, q)
  BY <1>1 DEF Holds, SameKey
<1>2. ASSUME NEW r \in T
      PROVE  \/ r \in R /\ \A q \in P \cup Q : ~(r.st = id /\ SameKey(r, q))
             \/ \E q \in P \cup Q : Holds(r, id, q, keep)
  BY DEF Written
<1>3. ASSUME NEW r \in R, \A q \in P \cup Q : ~(r.st = id /\ SameKey(r, q))
      PROVE  r \in T
  BY <1>3 DEF Written
<1>4. ASSUME NEW q \in P \cup Q
      PROVE  \E r \in T : Holds(r, id, q, keep)
  <2>1. CASE q \in Q
    BY <2>1 DEF Written
  <2>2. CASE q \in P
    <3>1. PICK r \in S : Holds(r, id, q, keep)
      BY <2>2 DEF Written
    <3>2. r \in T
      BY <1>1, <2>2, <3>1 DEF Written
    <3> QED
      BY <3>1, <3>2
  <2> QED
    BY <2>1, <2>2
<1> QED
  BY <1>2, <1>3, <1>4 DEF Written

LEMMA InsertStationWrites ==
    ASSUME NEW s, Whole(s), s.err = "ok", s.last \in CachedStation
    PROVE  LET t == InsertStation(s)
           IN  /\ t.station = s.station \cup {[id |-> t.last.id, key |-> s.last.key]}
               /\ t.rows = s.rows /\ t.levtr = s.levtr /\ t.attrs = s.attrs
               /\ t.last.queue = s.last.queue /\ t.last.key = s.last.key
               /\ Slotted(t)
<1> DEFINE new == Top(IdsOf(s.station)) + 1
           row == [id |-> new, key |-> s.last.key]
           t == [s EXCEPT !.station = @ \cup {row}, !.last.id = new]
<1>1. CASE s.last.id # MissingId
  <2>1. InsertStation(s) = s
    BY <1>1 DEF InsertStation
  <2>2. [id |-> s.last.id, key |-> s.last.key] \in s.station
    BY <1>1 DEF Whole, Linked, Cached, HasRow
  <2> QED
    BY <2>1, <2>2 DEF Whole
<1>2. CASE s.last.id = MissingId
  <2>1. InsertStation(s) = t
    BY <1>2 DEF InsertStation, Whole, Sound, KnowsStation
  <2>2. /\ t.station = s.station \cup {row} /\ t.rows = s.rows
        /\ t.levtr = s.levtr /\ t.attrs = s.attrs
        /\ t.last.id = new /\ t.last.key = s.last.key
        /\ t.last.ids = s.last.ids /\ t.last.queue = s.last.queue
    BY DEF Whole, Sound, Good, Typed, CachedStation
  <2>3. new \in Nat \ {0} /\ \A i \in IdsOf(s.station) : i # new
    <3>1. IsFiniteSet(IdsOf(s.station)) /\ IdsOf(s.station) \in SUBSET Nat
      BY IdsFinite DEF Whole, Sound, Good, Typed, Finite, StationRow
    <3> QED
      BY <3>1, TopType
  <2> HIDE DEF new, t
  <2>4. UniqueIds(t.station)
    BY <2>2, <2>3 DEF UniqueIds, IdsOf, Whole, Slotted, SlottedTables
  <2>5. QueuesKnown(t.last)
    BY <2>2, <2>3 DEF QueuesKnown, MissingId, Whole, Slotted, Updates
  <2> QED
    BY <2>1, <2>2, <2>4, <2>5 DEF Whole, Slotted, SlottedTables
<1> QED
  BY <1>1, <1>2

LEMMA WritePendingWrites ==
    ASSUME NEW s, Whole(s), s.err = "ok", s.last \in CachedStation
    PROVE  LET t == WritePending(s)
           IN  /\ t.station = s.station \cup {[id |-> t.last.id, key |-> s.last.key]}
               /\ Written(s.rows, t.rows, t.last.id, s.last.queue, s.attrs)
               /\ t.levtr = s.levtr /\ t.attrs = s.attrs
               /\ t.last \in CachedStation
               /\ t.last.queue = {} /\ t.last.key = s.last.key
               /\ Slotted(t)
<1> DEFINE s1 == InsertStation(s)
           s2 == InsertRows(s1)
           t == UpdateRows(s2)
<1>1. s.last # NoStation /\ WritePending(s) = t
  BY NoStationAssumption DEF WritePending
<1>2. /\ Sound(s1) /\ Linked(s1) /\ s1.err = "ok"
      /\ s1.last \in CachedStation /\ s1.last.id \in RowIds
  BY InsertStationLinked, InsertStationSound, InsertStationGood DEF Whole, Sound
<1>3. /\ s1.station = s.station \cup {[id |-> s1.last.id, key |-> s.last.key]}
      /\ s1.rows = s.rows /\ s1.levtr = s.levtr /\ s1.attrs = s.attrs
      /\ s1.last.queue = s.last.queue /\ s1.last.key = s.last.key
      /\ Slotted(s1)
  BY InsertStationWrites
<1>4. Keyed(s1)
  BY InsertStationTame DEF Tame, Whole, Sound
<1> HIDE DEF s1
<1>5. Good(s2) /\ s2.last \in CachedStation /\ s2.err = "ok"
  BY <1>2, InsertRowsGood, InsertRowsLinked DEF Sound
<1>6. /\ Written(s1.rows, s2.rows, s1.last.id, Inserts(s1.last), s1.attrs)
      /\ SlottedTables(s2) /\ s2.station = s1.station /\ s2.levtr = s1.levtr
      /\ s1.rows \subseteq s2.rows
      /\ s2.last.queue = s1.last.queue /\ s2.last.key = s1.last.key
      /\ s2.last.id = s1.last.id /\ s2.attrs = s1.attrs
  BY <1>2, <1>3, <1>4, InsertRowsWritten
<1>7. Keyed(s2)
  BY <1>2, <1>4, InsertRowsTame DEF Tame, Sound
<1> HIDE DEF s2
<1>8. ASSUME NEW q \in Updates(s2.last)
      PROVE  \E r \in s2.rows : r.st = s2.last.id /\ r.id = q.id /\ SameKey(r, q)
  <2>1. PICK i \in s1.last.ids : i.id = q.id /\ SameKey(i, q)
    BY <1>2, <1>3, <1>6 DEF Slotted, QueuesKnown, Updates
  <2>2. PICK r \in s1.rows : r.st = s1.last.id /\ i = IdOf(r)
    BY <1>2, <2>1 DEF Linked, Cached, Knows
  <2> QED
    BY <1>6, <2>1, <2>2 DEF IdOf, SameKey
<1>9. UniqueRows(s2.rows) /\ OneQueued(s2.last)
  BY <1>5, <1>7 DEF Keyed
<1>10. /\ Written(s2.rows, t.rows, s2.last.id, Updates(s2.last), s2.attrs)
       /\ SlottedTables(t) /\ t.station = s2.station /\ t.levtr = s2.levtr
       /\ t.last.queue = {} /\ t.last.key = s2.last.key
       /\ t.last.id = s2.last.id /\ t.attrs = s2.attrs
  BY <1>5, <1>6, <1>8, <1>9, UpdateRowsWritten
<1>11. t.last \in CachedStation
  BY <1>5, UpdateRowsGood
<1> HIDE DEF t
<1>12. Written(s.rows, t.rows, t.last.id, s.last.queue, s.attrs)
  <2>1. Inserts(s1.last) \cup Updates(s2.last) = s.last.queue
    BY <1>3, <1>6 DEF Inserts, Updates
  <2>2. \A p \in Inserts(s1.last), q \in Updates(s2.last) : ~SameKey(p, q)
    BY <1>6, <1>9 DEF OneQueued, Inserts, Updates
  <2> QED
    BY <1>3, <1>6, <1>10, <2>1, <2>2, WrittenInTurn
<1>13. QueuesKnown(t.last)
  BY <1>2, <1>6, <1>10 DEF QueuesKnown, NoLevel, Updates, RowIds, MissingId
<1> QED
  BY <1>1, <1>3, <1>6, <1>10, <1>11, <1>12, <1>13 DEF Slotted

LEMMA WritePendingWhole ==
    ASSUME NEW s, Whole(s)
    PROVE  Whole(WritePending(s)) /\ WritePending(s).err = s.err
<1> DEFINE t == WritePending(s)
<1>1. Sound(t) /\ Leveled(t) /\ Linked(t) /\ t.err = s.err
  BY WritePendingSound, WritePendingLeveled, WritePendingLinked DEF Whole
<1>2. Keyed(t)
  BY WritePendingTame DEF Tame, Whole, Sound
<1>3. Slotted(t)
  <2>1. CASE s.err # "ok" \/ s.last = NoStation
    BY <2>1 DEF WritePending, Whole
  <2>2. CASE s.err = "ok" /\ s.last # NoStation
    BY <2>2, WholeParts, WritePendingWrites
  <2> QED
    BY <2>1, <2>2
<1> QED
  BY <1>1, <1>2, <1>3 DEF Whole

LEMMA KeyStays ==
    ASSUME NEW T, NEW U, UniqueIds(T.station), UniqueIds(U.station),
           NEW id, \E x \in T.station \cap U.station : x.id = id
    PROVE  KeyOf(U, id) = KeyOf(T, id)
BY KeyIs

\* The values in the queue, and as they are written.
InQueue(s) == {Value(s, s.last.key, q) : q \in s.last.queue}

Sent(s) == {[x EXCEPT !.attr = @ /\ s.attrs] : x \in InQueue(s)}

\* What is written: the contents of the archive after a flush.
LEMMA ContentWritten ==
    ASSUME NEW s, Whole(s), s.last \in CachedStation, NEW t,
           t.station = s.station \cup {[id |-> t.last.id, key |-> s.last.key]},
           UniqueIds(t.station), UniqueKeys(t.station), t.station \subseteq StationRow,
           t.levtr = s.levtr,
           Written(s.rows, t.rows, t.last.id, s.last.queue, s.attrs)
    PROVE  ValuesIn(t) = A!Put(ValuesIn(s), Sent(s))
<1> DEFINE Q == s.last.queue
           k == s.last.key
           id == t.last.id
           row == [id |-> t.last.id, key |-> s.last.key]
           W(q) == [Value(s, k, q) EXCEPT !.attr = @ /\ s.attrs]
           X == {W(q) : q \in Q}
           V(r) == Value(s, KeyOf(s, r.st), r)
<1>1. Sent(s) = X
  BY DEF Sent, InQueue
<1>1a. row \in t.station /\ row.id = id /\ row.key = k
  OBVIOUS
<1> HIDE DEF row
<1>2. \A T, U, j, x : T.levtr = U.levtr => Value(T, j, x) = Value(U, j, x)
  BY DEF Value, LtOf
<1>3. \A r \in s.rows : KeyOf(t, r.st) = KeyOf(s, r.st)
  <2> SUFFICES ASSUME NEW r \in s.rows
               PROVE  KeyOf(t, r.st) = KeyOf(s, r.st)
    OBVIOUS
  <2>1. \E x \in s.station \cap t.station : x.id = r.st
    BY WholeParts DEF IdsOf
  <2> QED
    BY <2>1, WholeParts, KeyStays
<1>4. \A r \in s.rows : Value(t, KeyOf(t, r.st), r) = V(r)
  BY <1>2, <1>3
<1>5. ASSUME NEW r, NEW q \in Q, Holds(r, id, q, s.attrs)
      PROVE  Value(t, KeyOf(t, r.st), r) = W(q)
  <2>1. r.st = id /\ SameKey(r, q) /\ r.val = q.val /\ r.attr = (q.attr /\ s.attrs)
    BY <1>5 DEF Holds
  <2>2. KeyOf(t, r.st) = k
    BY <1>1a, <2>1, KeyIs
  <2>3. W(q) = [key |-> k, ctx |-> q.ctx, lt |-> LtOf(s, q.lt), code |-> q.code,
                val |-> q.val, attr |-> q.attr /\ s.attrs]
    BY DEF Value
  <2>4. Value(t, k, r) = [key |-> k, ctx |-> r.ctx, lt |-> LtOf(s, r.lt), code |-> r.code,
                          val |-> r.val, attr |-> r.attr]
    BY DEF Value, LtOf
  <2> QED
    BY <2>1, <2>2, <2>3, <2>4 DEF SameKey
<1>6. \A c, q : A!SameSlot(c, W(q)) <=> A!SameSlot(c, Value(s, k, q))
  BY DEF A!SameSlot, Value
<1>7. ASSUME NEW r \in s.rows, NEW q \in Q
      PROVE  A!SameSlot(V(r), W(q)) <=> r.st = id /\ SameKey(r, q)
  <2>1. A!SameSlot(V(r), Value(s, k, q)) <=> KeyOf(s, r.st) = k /\ SameKey(r, q)
    <3>1. Placed(r, s.levtr) /\ Placed(q, s.levtr)
      BY WholeParts
    <3>2. s.levtr \subseteq LevTrRow /\ UniqueIds(s.levtr) /\ UniqueLevels(s.levtr)
      BY WholeParts
    <3> QED
      BY <3>1, <3>2, SlotIs
  <2>2. r.st \in IdsOf(t.station)
    BY WholeParts DEF IdsOf
  <2>3. r.st = row.id <=> KeyOf(t, r.st) = row.key
    BY <1>1a, <2>2, OfStation
  <2> HIDE DEF V, W
  <2> QED
    BY <1>1a, <1>3, <1>6, <2>1, <2>3
<1>8. ValuesIn(s) = {V(r) : r \in s.rows}
  BY ValuesAre
<1>9. ValuesIn(t) = {Value(t, KeyOf(t, r.st), r) : r \in t.rows}
  BY ValuesAre
<1>10. ASSUME NEW c \in ValuesIn(t)
       PROVE  c \in X \/ (c \in ValuesIn(s) /\ \A q \in Q : ~A!SameSlot(c, W(q)))
  <2>1. PICK r \in t.rows : c = Value(t, KeyOf(t, r.st), r)
    BY <1>9
  <2>2. CASE r \in s.rows /\ \A q \in Q : ~(r.st = id /\ SameKey(r, q))
    <3>1. c = V(r)
      BY <1>4, <2>1, <2>2
    <3> HIDE DEF V, W
    <3> QED
      BY <1>7, <1>8, <2>2, <3>1
  <2>3. CASE \E q \in Q : Holds(r, id, q, s.attrs)
    BY <1>5, <2>1, <2>3
  <2> QED
    BY <2>2, <2>3 DEF Written
<1>11. ASSUME NEW q \in Q
       PROVE  W(q) \in ValuesIn(t)
  <2>1. PICK r \in t.rows : Holds(r, id, q, s.attrs)
    BY DEF Written
  <2>2. W(q) = Value(t, KeyOf(t, r.st), r)
    BY <1>5, <2>1
  <2> HIDE DEF W
  <2> QED
    BY <1>9, <2>2
<1>12. ASSUME NEW c \in ValuesIn(s), \A q \in Q : ~A!SameSlot(c, W(q))
       PROVE  c \in ValuesIn(t)
  <2>1. PICK r \in s.rows : c = V(r)
    BY <1>8
  <2>2. r \in t.rows
    BY <1>7, <1>12, <2>1 DEF Written
  <2> QED
    BY <1>4, <1>9, <2>1, <2>2
<1>13. A!Put(ValuesIn(s), X) = {c \in ValuesIn(s) : \A x \in X : ~A!SameSlot(c, x)} \cup X
  BY DEF A!Put
<1>14. \A c : (\A x \in X : ~A!SameSlot(c, x)) <=> \A q \in Q : ~A!SameSlot(c, W(q))
  OBVIOUS
<1>15. ValuesIn(t) = A!Put(ValuesIn(s), X)
  <2>1. \A q \in Q : W(q) \in X
    OBVIOUS
  <2>2. \A x \in X : \E q \in Q : x = W(q)
    OBVIOUS
  <2> HIDE DEF X, W
  <2> QED
    BY <1>10, <1>11, <1>12, <1>13, <1>14, <2>1, <2>2
<1> QED
  BY <1>1, <1>15

LEMMA FlushIs ==
    ASSUME NEW s, Whole(s), s.err = "ok"
    PROVE  Abs(WritePending(s)) = A!Flush(Abs(s))
<1> DEFINE t == WritePending(s)
<1>1. CASE s.last = NoStation
  <2>1. t = s
    BY <1>1 DEF WritePending
  <2>2. Abs(s).left.key = NoStation
    BY <1>1 DEF Abs
  <2> QED
    BY <2>1, <2>2 DEF A!Flush
<1>2. CASE s.last # NoStation
  <2>1. s.last \in CachedStation /\ s.last.key # NoStation
    BY <1>2, WholeParts, NobodyAssumption DEF CachedStation
  <2>2. /\ t.station = s.station \cup {[id |-> t.last.id, key |-> s.last.key]}
        /\ Written(s.rows, t.rows, t.last.id, s.last.queue, s.attrs)
        /\ t.levtr = s.levtr /\ t.attrs = s.attrs
        /\ t.last \in CachedStation
        /\ t.last.queue = {} /\ t.last.key = s.last.key
    BY <2>1, WritePendingWrites
  <2>3. UniqueIds(t.station) /\ UniqueKeys(t.station) /\ t.station \subseteq StationRow
    BY WritePendingWhole, WholeParts
  <2> HIDE DEF t
  <2>4. ValuesIn(t) = A!Put(ValuesIn(s), Sent(s))
    BY <2>1, <2>2, <2>3, ContentWritten
  <2>5. KeysIn(t) = KeysIn(s) \cup {s.last.key}
    <3> DEFINE row == [id |-> t.last.id, key |-> s.last.key]
    <3>1. row.key = s.last.key
      OBVIOUS
    <3> HIDE DEF row
    <3>2. {r.key : r \in s.station \cup {row}} = {r.key : r \in s.station} \cup {row.key}
      OBVIOUS
    <3> QED
      BY <2>2, <3>1, <3>2 DEF KeysIn, row
  <2>6. t.last # NoStation
    BY <2>2, NoStationAssumption
  <2>7. Abs(t) = [stations |-> KeysIn(s) \cup {s.last.key}, content |-> ValuesIn(t),
                  left |-> [key |-> s.last.key, values |-> {}], keep |-> s.attrs]
    BY <2>2, <2>5, <2>6 DEF Abs
  <2>8. Abs(s) = [stations |-> KeysIn(s), content |-> ValuesIn(s),
                  left |-> [key |-> s.last.key, values |-> InQueue(s)],
                  keep |-> s.attrs]
    BY <1>2 DEF Abs, InQueue
  <2> DEFINE a == Abs(s)
             sent == {[x EXCEPT !.attr = @ /\ a.keep] : x \in a.left.values}
  <2>9. sent = Sent(s)
    BY <2>8 DEF Sent
  <2>10. A!Flush(a) = [a EXCEPT !.stations = @ \cup {a.left.key},
                                !.content = A!Put(@, sent), !.left.values = {}]
    BY <2>1, <2>8 DEF A!Flush
  <2>10a. /\ a.stations = KeysIn(s) /\ a.content = ValuesIn(s)
          /\ a.left = [key |-> s.last.key, values |-> InQueue(s)]
          /\ a.keep = s.attrs
          /\ a = [stations |-> a.stations, content |-> a.content, left |-> a.left,
                  keep |-> a.keep]
    BY <2>8
  <2> HIDE DEF a, sent
  <2>11. A!Flush(a) = [stations |-> KeysIn(s) \cup {s.last.key},
                       content |-> A!Put(ValuesIn(s), Sent(s)),
                       left |-> [key |-> s.last.key, values |-> {}], keep |-> s.attrs]
    <3> DEFINE put == A!Put(a.content, sent)
    <3>1. put = A!Put(ValuesIn(s), Sent(s))
      BY <2>9, <2>10a
    <3>2. A!Flush(a) = [a EXCEPT !.stations = @ \cup {a.left.key},
                                 !.content = put, !.left.values = {}]
      BY <2>10
    <3> HIDE DEF put
    <3>3. A!Flush(a) = [stations |-> a.stations \cup {a.left.key}, content |-> put,
                        left |-> [a.left EXCEPT !.values = {}], keep |-> a.keep]
      BY <2>10a, <3>2
    <3>4. [a.left EXCEPT !.values = {}] = [key |-> s.last.key, values |-> {}]
      BY <2>10a
    <3> QED
      BY <2>10a, <3>1, <3>3, <3>4
  <2> QED
    BY <2>4, <2>7, <2>11 DEF t, a
<1> QED
  BY <1>1, <1>2

----------------------------------------------------------------------------
(* The station                                                             *)

\* What the archive does not see.
LEMMA AbsSame ==
    ASSUME NEW s, NEW t, t.station = s.station, t.rows = s.rows, t.levtr = s.levtr,
           t.attrs = s.attrs, t.last = NoStation <=> s.last = NoStation,
           s.last # NoStation => t.last.key = s.last.key /\ t.last.queue = s.last.queue
    PROVE  Abs(t) = Abs(s)
<1>1. KeysIn(t) = KeysIn(s)
  BY DEF KeysIn
<1>2. \A k, x : Value(t, k, x) = Value(s, k, x)
  BY DEF Value, LtOf
<1>3. \A id : KeyOf(t, id) = KeyOf(s, id)
  BY DEF KeyOf
<1>4. ValuesIn(t) = ValuesIn(s)
  BY <1>2, <1>3, ValuesAre
<1>5. s.last # NoStation =>
         {Value(t, t.last.key, q) : q \in t.last.queue} =
         {Value(s, s.last.key, q) : q \in s.last.queue}
  BY <1>2
<1> QED
  BY <1>1, <1>4, <1>5 DEF Abs

LEMMA ThrowIs ==
    ASSUME NEW s, Good(s), NEW kind
    PROVE  Abs(Throw(s, kind)) = Abs(s)
<1>1. /\ Throw(s, kind).station = s.station /\ Throw(s, kind).rows = s.rows
      /\ Throw(s, kind).levtr = s.levtr /\ Throw(s, kind).attrs = s.attrs
      /\ Throw(s, kind).last = s.last
  BY DEF Throw, Good, Typed
<1> QED
  BY <1>1, AbsSame

LEMMA ThrowWhole ==
    ASSUME NEW s, Whole(s), NEW kind \in Outcomes \ {"sql", "ok"}
    PROVE  /\ Whole(Throw(s, kind)) /\ Abs(Throw(s, kind)) = Abs(s)
           /\ Throw(s, kind).err # "ok" /\ Throw(s, kind).last = s.last
           /\ s.err # "ok" => Throw(s, kind) = s
<1> DEFINE t == Throw(s, kind)
<1>1. Good(s)
  BY DEF Whole, Sound
<1>2. Sound(t) /\ Linked(t) /\ Keyed(t)
  BY <1>1, ThrowSound, ThrowLinked, ThrowTame DEF Whole, Tame
<1>3. /\ t.station = s.station /\ t.rows = s.rows /\ t.levtr = s.levtr
      /\ t.last = s.last /\ t.cache = s.cache /\ t.err # "ok"
      /\ s.err # "ok" => t = s
  BY <1>1 DEF Throw, Good, Typed
<1> HIDE DEF t
<1>4. Leveled(t) /\ Slotted(t)
  BY <1>3 DEF Whole, Leveled, Slotted, SlottedTables
<1> QED
  BY <1>1, <1>2, <1>3, <1>4, ThrowIs DEF t, Whole

LEMMA NewStationIs ==
    ASSUME NEW s, Whole(s), s.err = "ok", NEW key \in Stations
    PROVE  LET t == NewStation(s, key)
           IN  /\ t.err = "ok" /\ t.last = Fresh(key) /\ SlottedTables(t)
               /\ Abs(t) = [A!Flush(Abs(s)) EXCEPT !.left = [key |-> key, values |-> {}]]
<1> DEFINE u == WritePending(s)
           t == [u EXCEPT !.last = Fresh(key)]
<1>1. Whole(u) /\ u.err = "ok" /\ Abs(u) = A!Flush(Abs(s))
  BY WritePendingWhole, FlushIs
<1> HIDE DEF u
<1>2. NewStation(s, key) = t
  BY <1>1 DEF NewStation, CacheStation, u
<1>3. /\ t.station = u.station /\ t.rows = u.rows /\ t.levtr = u.levtr
      /\ t.attrs = u.attrs /\ t.err = u.err /\ t.last = Fresh(key)
  BY <1>1 DEF Whole, Sound, Good, Typed
<1> HIDE DEF t
<1>4. t.last.key = key /\ t.last.queue = {} /\ t.last # NoStation
  BY <1>3, NoStationAssumption, FreshType DEF Fresh
<1>5. KeysIn(t) = KeysIn(u) /\ ValuesIn(t) = ValuesIn(u)
  <2>1. KeysIn(t) = KeysIn(u)
    BY <1>3 DEF KeysIn
  <2>2. \A k, x : Value(t, k, x) = Value(u, k, x)
    BY <1>3 DEF Value, LtOf
  <2>3. \A id : KeyOf(t, id) = KeyOf(u, id)
    BY <1>3 DEF KeyOf
  <2> QED
    BY <1>3, <2>1, <2>2, <2>3, ValuesAre
<1>6. Abs(t) = [stations |-> KeysIn(u), content |-> ValuesIn(u),
                left |-> [key |-> key, values |-> {}], keep |-> u.attrs]
  BY <1>3, <1>4, <1>5 DEF Abs
<1>7. Abs(t) = [Abs(u) EXCEPT !.left = [key |-> key, values |-> {}]]
  <2>1. PICK x : Abs(u) = [stations |-> KeysIn(u), content |-> ValuesIn(u),
                           left |-> x, keep |-> u.attrs]
    BY DEF Abs
  <2>2. [Abs(u) EXCEPT !.left = [key |-> key, values |-> {}]] =
        [stations |-> KeysIn(u), content |-> ValuesIn(u),
         left |-> [key |-> key, values |-> {}], keep |-> u.attrs]
    BY <2>1
  <2> QED
    BY <1>6, <2>2, Zenon
<1>8. SlottedTables(t)
  BY <1>1, <1>3 DEF Whole, Slotted, SlottedTables
<1> QED
  BY <1>1, <1>2, <1>3, <1>7, <1>8

LEMMA SetStationIdIs ==
    ASSUME NEW s, Good(s), s.err = "ok", s.last \in CachedStation, s.last.queue = {},
           SlottedTables(s), NEW id \in RowIds
    PROVE  LET t == SetStationId(s, id)
           IN  t.err = "ok" /\ t.last.key = s.last.key /\ Slotted(t) /\ Abs(t) = Abs(s)
<1> DEFINE t == SetStationId(s, id)
<1>1. t = [s EXCEPT !.last.id = id, !.last.isNew = FALSE]
  BY DEF SetStationId
<1>2. /\ t.station = s.station /\ t.rows = s.rows /\ t.levtr = s.levtr
      /\ t.attrs = s.attrs /\ t.err = s.err
      /\ t.last \in CachedStation
      /\ t.last.key = s.last.key /\ t.last.queue = {} /\ t.last.id = id
  <2>1. t.last = [s.last EXCEPT !.id = id, !.isNew = FALSE]
    BY <1>1 DEF Good, Typed
  <2>2. t.last \in CachedStation
    BY <2>1 DEF CachedStation
  <2> QED
    BY <1>1, <2>1, <2>2 DEF Good, Typed, CachedStation
<1> HIDE DEF t
<1>3. Slotted(t)
  BY <1>2 DEF Slotted, SlottedTables, QueuesKnown, NoLevel, Updates, RowIds, MissingId
<1>4. Abs(t) = Abs(s)
  BY <1>2, NoStationAssumption, AbsSame
<1> QED
  BY <1>2, <1>3, <1>4 DEF t

LEMMA FindStationIs ==
    ASSUME NEW s, Good(s), s.err = "ok", UniqueKeys(s.station), NEW key \in Stations,
           s.last = Fresh(key), SlottedTables(s), NEW canAdd \in BOOLEAN
    PROVE  LET t == FindStation(s, canAdd)
           IN  /\ canAdd => t.err = "ok"
               /\ t.err = "ok" => t.last.key = key
               /\ Slotted(t) /\ Abs(t) = Abs(s)
<1> DEFINE found == LookupStation(s, s.last.key)
           n == [s EXCEPT !.last.loaded = {StationCtx}]
<1>0. /\ s.last \in CachedStation /\ s.last.queue = {} /\ s.last.key = key
      /\ s.last.id = MissingId /\ s.last.isNew = TRUE
  BY FreshType DEF Fresh
<1>1. CASE found = {}
  <2>1. FindStation(s, canAdd) = IF canAdd THEN n ELSE Throw(s, "notfound")
    BY <1>1 DEF FindStation
  <2>2. /\ n.station = s.station /\ n.rows = s.rows /\ n.levtr = s.levtr
        /\ n.attrs = s.attrs /\ n.err = s.err /\ n.last # NoStation
        /\ n.last.key = key /\ n.last.queue = {} /\ n.last.isNew = TRUE
    <3>1. n.last = [s.last EXCEPT !.loaded = {StationCtx}]
      BY DEF Good, Typed
    <3>2. n.last \in CachedStation
      BY <1>0, <3>1 DEF CachedStation, Contexts
    <3> QED
      BY <1>0, <3>1, <3>2, NoStationAssumption DEF Good, Typed, CachedStation
  <2> HIDE DEF n
  <2>3. Slotted(n)
    BY <2>2 DEF Slotted, SlottedTables, QueuesKnown, NoLevel, Updates
  <2>4. Abs(n) = Abs(s)
    BY <1>0, <2>2, NoStationAssumption, AbsSame
  <2>5. CASE canAdd
    BY <2>1, <2>2, <2>3, <2>4, <2>5
  <2>6. CASE ~canAdd
    <3>1. Throw(s, "notfound").err # "ok"
      BY DEF Throw, Good, Typed
    <3>2. /\ Throw(s, "notfound").station = s.station /\ Throw(s, "notfound").rows = s.rows
          /\ Throw(s, "notfound").last = s.last
      BY DEF Throw, Good, Typed
    <3>3. Slotted(Throw(s, "notfound"))
      BY <1>0, <3>2 DEF Slotted, SlottedTables, QueuesKnown, NoLevel, Updates
    <3> QED
      BY <2>1, <2>6, <3>1, <3>3, ThrowIs
  <2> QED
    BY <2>5, <2>6
<1>2. CASE found # {}
  <2> DEFINE r == CHOOSE r \in found : TRUE
  <2>1. FindStation(s, canAdd) = SetStationId(s, r.id)
    BY <1>2 DEF FindStation, LookupStation, UniqueKeys
  <2>2. r \in s.station
    BY <1>2 DEF LookupStation
  <2> HIDE DEF r
  <2>3. r.id \in RowIds
    BY <2>2 DEF Good, Typed, StationRow
  <2> QED
    BY <1>0, <2>1, <2>3, SetStationIdIs
<1> QED
  BY <1>1, <1>2

LEMMA GetStationByKeyIs ==
    ASSUME NEW s, Whole(s), s.err = "ok", NEW key \in Stations, NEW canAdd \in BOOLEAN
    PROVE  LET t == GetStationByKey(s, key, canAdd)
           IN  /\ canAdd => t.err = "ok"
               /\ t.err = "ok" => t.last.key = key
               /\ Slotted(t) /\ Abs(t) = A!Switch(Abs(s), key)
<1>0. Abs(s).left.key = key <=> HaveStation(s, key)
  BY NobodyAssumption DEF Abs, HaveStation
<1>1. CASE HaveStation(s, key)
  <2>1. GetStationByKey(s, key, canAdd) = s
    BY <1>1 DEF GetStationByKey
  <2>2. A!Switch(Abs(s), key) = Abs(s)
    BY <1>0, <1>1 DEF A!Switch
  <2> QED
    BY <1>1, <2>1, <2>2 DEF HaveStation, Whole
<1>2. CASE ~HaveStation(s, key)
  <2> DEFINE u == NewStation(s, key)
  <2>1. /\ u.err = "ok" /\ u.last = Fresh(key) /\ SlottedTables(u)
        /\ Abs(u) = [A!Flush(Abs(s)) EXCEPT !.left = [key |-> key, values |-> {}]]
    BY NewStationIs
  <2>2. Good(u) /\ UniqueKeys(u.station)
    BY NewStationSound DEF Whole, Live
  <2>3. GetStationByKey(s, key, canAdd) = FindStation(u, canAdd)
    BY <1>2 DEF GetStationByKey
  <2>4. Abs(u) = A!Switch(Abs(s), key)
    BY <1>0, <1>2, <2>1 DEF A!Switch
  <2> HIDE DEF u
  <2> QED
    BY <2>1, <2>2, <2>3, <2>4, FindStationIs
<1> QED
  BY <1>1, <1>2

\* The station of a row id is the one cached if it has that id.
LEMMA IdOfLast ==
    ASSUME NEW s, Whole(s), s.last \in CachedStation, NEW r \in s.station
    PROVE  s.last.key = r.key <=> s.last.id = r.id
<1>1. CASE s.last.id = MissingId
  <2>1. s.last.key # r.key
    BY <1>1 DEF Whole, Sound, KnowsStation
  <2>2. r.id # MissingId
    BY WholeParts DEF StationRow, RowIds, MissingId
  <2> QED
    BY <1>1, <2>1, <2>2
<1>2. CASE s.last.id # MissingId
  <2> DEFINE row == [id |-> s.last.id, key |-> s.last.key]
  <2>1. row \in s.station
    BY <1>2 DEF Whole, Linked, Cached, HasRow
  <2>2. row.id = s.last.id /\ row.key = s.last.key
    OBVIOUS
  <2> HIDE DEF row
  <2> QED
    BY <2>1, <2>2, WholeParts DEF UniqueIds, UniqueKeys
<1> QED
  BY <1>1, <1>2

LEMMA GetStationByIdIs ==
    ASSUME NEW s, Whole(s), s.err = "ok", NEW id \in RowIds \cup {MissingId}
    PROVE  LET t == GetStationById(s, id)
           IN  /\ Slotted(t)
               /\ \/ t.err # "ok" /\ Abs(t) = Abs(s)
                  \/ /\ t.err = "ok"
                     /\ \E k \in Stations : t.last.key = k /\ Abs(t) = A!Switch(Abs(s), k)
<1> DEFINE found == {r \in s.station : r.id = id}
           r == CHOOSE r \in found : TRUE
           t == GetStationById(s, id)
<1>1. CASE t \in {Throw(s, "usage"), Throw(s, "notfound")}
  BY <1>1, ThrowWhole DEF Outcomes, Whole
<1>2. CASE t \notin {Throw(s, "usage"), Throw(s, "notfound")}
  <2>1. id # MissingId
    BY <1>2 DEF GetStationById
  <2>2. CASE s.last # NoStation /\ s.last.id = id
    <3>1. t = s
      BY <2>1, <2>2 DEF GetStationById
    <3>2. s.last.key \in Stations /\ Abs(s).left.key = s.last.key
      BY <2>2, WholeParts DEF CachedStation, Abs
    <3>3. A!Switch(Abs(s), s.last.key) = Abs(s)
      BY <3>2 DEF A!Switch
    <3> QED
      BY <3>1, <3>2, <3>3 DEF Whole
  <2>3. CASE ~(s.last # NoStation /\ s.last.id = id)
    <3>1. found # {} /\ t = SetStationId(NewStation(s, r.key), id)
      BY <1>2, <2>1, <2>3 DEF GetStationById
    <3>2. r \in s.station /\ r.id = id
      BY <3>1
    <3> HIDE DEF r
    <3>3. r.key \in Stations /\ id \in RowIds
      BY <3>2, <2>1, WholeParts DEF StationRow
    <3> DEFINE u == NewStation(s, r.key)
    <3>4. /\ u.err = "ok" /\ u.last = Fresh(r.key) /\ SlottedTables(u)
          /\ Abs(u) = [A!Flush(Abs(s)) EXCEPT !.left = [key |-> r.key, values |-> {}]]
      BY <3>3, NewStationIs
    <3>5. Good(u)
      BY <3>3, NewStationSound DEF Whole, Live
    <3>6. Abs(s).left.key # r.key
      BY <2>3, <3>2, <3>3, IdOfLast, WholeParts, NobodyAssumption DEF Abs
    <3>7. Abs(u) = A!Switch(Abs(s), r.key)
      BY <3>4, <3>6 DEF A!Switch
    <3>8. u.last \in CachedStation /\ u.last.queue = {} /\ u.last.key = r.key
      BY <3>3, <3>4, FreshType DEF Fresh
    <3> HIDE DEF u
    <3>9. t = SetStationId(u, id)
      BY <3>1 DEF u
    <3>10. t.err = "ok" /\ t.last.key = r.key /\ Slotted(t) /\ Abs(t) = Abs(u)
      BY <3>3, <3>4, <3>5, <3>8, <3>9, SetStationIdIs
    <3> QED
      BY <3>3, <3>7, <3>10
  <2> QED
    BY <2>2, <2>3
<1> QED
  BY <1>1, <1>2

LEMMA GetStationWhole ==
    ASSUME NEW s, Whole(s), s.err = "ok", NEW key \in Stations \cup {NoKey},
           NEW id \in RowIds \cup {MissingId}, NEW canAdd \in BOOLEAN
    PROVE  LET t == GetStation(s, key, id, canAdd)
           IN  /\ Whole(t) /\ Live(t)
               /\ key \in Stations /\ canAdd => t.err = "ok"
               /\ \/ t.err # "ok" /\ Abs(t) = Abs(s)
                  \/ \E k \in Stations : /\ Abs(t) = A!Switch(Abs(s), k)
                                         /\ t.err = "ok" => t.last.key = k
                                         /\ key \in Stations => k = key
<1> DEFINE t == GetStation(s, key, id, canAdd)
<1>1. Sound(t) /\ Live(t) /\ Leveled(t) /\ Linked(t)
  BY GetStationSound, GetStationLeveled, GetStationLinked DEF Whole
<1>2. Keyed(t)
  BY GetStationTame DEF Tame, Whole, Sound
<1>3. CASE key \in Stations
  <2>1. t = GetStationByKey(s, key, canAdd)
    BY <1>3, SentinelAssumption DEF GetStation
  <2>2. /\ canAdd => t.err = "ok"
        /\ t.err = "ok" => t.last.key = key
        /\ Slotted(t) /\ Abs(t) = A!Switch(Abs(s), key)
    BY <1>3, <2>1, GetStationByKeyIs
  <2> HIDE DEF t
  <2> QED
    BY <1>1, <1>2, <1>3, <2>2 DEF Whole, t
<1>4. CASE key \notin Stations
  <2>1. t = GetStationById(s, id)
    BY <1>4 DEF GetStation
  <2>2. /\ Slotted(t)
        /\ \/ t.err # "ok" /\ Abs(t) = Abs(s)
           \/ /\ t.err = "ok"
              /\ \E k \in Stations : t.last.key = k /\ Abs(t) = A!Switch(Abs(s), k)
    BY <2>1, GetStationByIdIs
  <2> HIDE DEF t
  <2> QED
    BY <1>1, <1>2, <1>4, <2>2 DEF Whole, t
<1> QED
  BY <1>3, <1>4

----------------------------------------------------------------------------
(* What is loaded and obtained                                             *)

\* What is known of the rows of a context does not show.
LEMMA LoadWhole ==
    ASSUME NEW s, Whole(s), Live(s), NEW ctx, s.err = "ok" => ctx \in Contexts
    PROVE  LET t == Load(s, ctx)
           IN  /\ Whole(t) /\ Live(t) /\ t.err = s.err /\ Abs(t) = Abs(s)
               /\ t.err = "ok" => /\ t.last.key = s.last.key /\ t.last.id = s.last.id
                                  /\ ctx \in t.last.loaded
<1> DEFINE t == Load(s, ctx)
<1>1. CASE s.err # "ok" \/ ctx \in s.last.loaded
  <2>1. t = s
    BY <1>1 DEF Load
  <2> QED
    BY <1>1, <2>1
<1>2. CASE s.err = "ok" /\ ctx \notin s.last.loaded
  <2>0. Good(s) /\ s.last \in CachedStation
    BY <1>2 DEF Live
  <2>1. \E D, I : t = [s EXCEPT !.last.loaded = D, !.last.ids = @ \cup I]
    BY <1>2 DEF Load
  <2>2. PICK D, I : t = [s EXCEPT !.last.loaded = D, !.last.ids = @ \cup I]
    BY <2>1
  <2>3. /\ t.station = s.station /\ t.rows = s.rows /\ t.levtr = s.levtr
        /\ t.attrs = s.attrs
        /\ t.last.key = s.last.key /\ t.last.id = s.last.id
        /\ t.last.isNew = s.last.isNew /\ t.last.queue = s.last.queue
        /\ s.last.ids \subseteq t.last.ids
    <3>1. t.last = [s.last EXCEPT !.loaded = D, !.ids = @ \cup I]
      BY <2>0, <2>2 DEF Good, Typed
    <3> QED
      BY <2>0, <2>2, <3>1 DEF Good, Typed, CachedStation
  <2>4. Sound(t) /\ Live(t) /\ Linked(t) /\ t.err = s.err /\ ctx \in t.last.loaded
    BY <1>2, LoadSound, LoadLinked DEF Whole
  <2>5. Leveled(t) /\ Keyed(t)
    BY LoadLevels, SameLeveled, LoadTame DEF Whole, Tame, Live
  <2> HIDE DEF t
  <2>6. t.last \in CachedStation
    BY <1>2, <2>4 DEF Live
  <2>7. Slotted(t)
    BY <2>0, <2>3, <2>6 DEF Whole, Slotted, SlottedTables, QueuesKnown, Updates
  <2>8. Abs(t) = Abs(s)
    BY <2>0, <2>3, <2>6, NoStationAssumption, AbsSame
  <2> QED
    BY <2>3, <2>4, <2>5, <2>7, <2>8 DEF Whole, t
<1> QED
  BY <1>1, <1>2

\* Nor do new levels.
LEMMA ObtainLevTrsWhole ==
    ASSUME NEW s, Whole(s), Live(s), NEW L \in SUBSET LevTrs, IsFiniteSet(L)
    PROVE  LET t == ObtainLevTrs(s, L)
           IN  /\ Whole(t) /\ Live(t) /\ t.err = s.err /\ Abs(t) = Abs(s)
               /\ t.last = s.last
               /\ t.err = "ok" => \A l \in L : \E c \in t.cache : c.lt = l
<1> DEFINE t == ObtainLevTrs(s, L)
<1>1. /\ Sound(t) /\ Live(t) /\ t.err = s.err
      /\ t.err = "ok" => \A l \in L : \E c \in t.cache : c.lt = l
  BY ObtainLevTrsSound DEF Whole
<1>2. Leveled(t) /\ Linked(t) /\ t.last = s.last /\ Keyed(t)
  <2>1. Tame(s, t, "UPDATE")
    BY ObtainLevTrsTame
  <2> QED
    BY <2>1, ObtainLevTrsLeveled, ObtainLevTrsLinked DEF Whole, Tame, Sound
<1>3. /\ t.station = s.station /\ t.rows = s.rows /\ t.attrs = s.attrs
      /\ s.levtr \subseteq t.levtr
  <2>1. CASE s.err # "ok"
    BY <2>1 DEF ObtainLevTrs
  <2>2. CASE s.err = "ok"
    <3>1. \E N, C : t = [s EXCEPT !.levtr = @ \cup N, !.cache = C]
      BY <2>2 DEF ObtainLevTrs
    <3> QED
      BY <3>1 DEF Live, Good, Typed
  <2> QED
    BY <2>1, <2>2
<1> HIDE DEF t
<1>4. Slotted(t)
  BY <1>2, <1>3 DEF Whole, Slotted, SlottedTables
<1>5. Whole(t)
  BY <1>1, <1>2, <1>4 DEF Whole
<1>6. s.levtr \cap t.levtr = s.levtr
  BY <1>3
<1>7. \A x, k : Placed(x, s.levtr) => Value(s, k, x) = Value(t, k, x)
  <2> SUFFICES ASSUME NEW x, NEW k, Placed(x, s.levtr)
               PROVE  Value(s, k, x) = Value(t, k, x)
    OBVIOUS
  <2>1. /\ s.levtr \subseteq LevTrRow /\ t.levtr \subseteq LevTrRow
        /\ UniqueIds(s.levtr) /\ UniqueIds(t.levtr)
    BY <1>5, WholeParts
  <2>2. Placed(x, s.levtr \cap t.levtr)
    BY <1>6
  <2> QED
    BY <2>1, <2>2, ValueStays
<1>8. \A id : KeyOf(t, id) = KeyOf(s, id)
  BY <1>3 DEF KeyOf
<1>9. \A r \in s.rows : Value(t, KeyOf(t, r.st), r) = Value(s, KeyOf(s, r.st), r)
  BY <1>7, <1>8, WholeParts
<1>10. ValuesIn(t) = ValuesIn(s)
  BY <1>3, <1>9, ValuesAre
<1>11. s.last # NoStation =>
         {Value(t, t.last.key, q) : q \in t.last.queue} =
         {Value(s, s.last.key, q) : q \in s.last.queue}
  <2> SUFFICES ASSUME s.last # NoStation
               PROVE  {Value(t, s.last.key, q) : q \in s.last.queue} =
                      {Value(s, s.last.key, q) : q \in s.last.queue}
    BY <1>2
  <2>1. \A q \in s.last.queue : Value(t, s.last.key, q) = Value(s, s.last.key, q)
    BY <1>7, WholeParts
  <2> QED
    BY <2>1
<1>12. KeysIn(t) = KeysIn(s)
  BY <1>3 DEF KeysIn
<1>13. Abs(t) = Abs(s)
  BY <1>2, <1>3, <1>10, <1>11, <1>12 DEF Abs
<1> QED
  BY <1>1, <1>2, <1>5, <1>13 DEF t

----------------------------------------------------------------------------
(* What is queued                                                          *)

\* What is queued, or known, is of the slot of variable v.
OfSlot(q, ctx, v) == q.ctx = ctx /\ q.lt = v.lt /\ q.code = v.code

ItemOf(q, ctx, v) == OfSlot(q, ctx, v) /\ q.val = v.val /\ q.attr = v.attr

\* Some variable known to be on the database has the slot of v.
IsKnown(s, ctx, v) == \E i \in s.last.ids : OfSlot(i, ctx, v)

\* Variables W of V are queued, over what was queued in their slots.
Queues(s, t, ctx, W) ==
    \E Q : /\ t.last.queue = {q \in s.last.queue : \A v \in W : ~OfSlot(q, ctx, v)} \cup Q
           /\ \A q \in Q : /\ \E v \in W : ItemOf(q, ctx, v)
                           /\ q.id # MissingId =>
                                 \E i \in s.last.ids : i.id = q.id /\ SameKey(i, q)
           /\ \A v \in W : \E q \in Q : ItemOf(q, ctx, v)

\* Which variables add queues in each mode, and when it throws.
Picks(s, t, ctx, V, W, mode) ==
    /\ W \subseteq V /\ t.err \in {"ok", "exists"}
    /\ mode = "UPDATE" => W = V /\ t.err = "ok"
    /\ mode = "IGNORE" => W = {v \in V : ~IsKnown(s, ctx, v)} /\ t.err = "ok"
    /\ mode = "ERROR" /\ t.err = "ok" => W = V /\ \A v \in V : ~IsKnown(s, ctx, v)
    /\ mode = "ERROR" /\ t.err # "ok" => /\ \A v \in W : ~IsKnown(s, ctx, v)
                                         /\ \E v \in V : IsKnown(s, ctx, v)

LEMMA AddShape ==
    ASSUME NEW s, Good(s), s.err = "ok", s.last \in CachedStation, NEW ctx \in Contexts,
           NEW V \in SUBSET Item, NEW mode \in UpdateModes
    PROVE  LET t == Add(s, ctx, V, mode)
           IN  /\ t.station = s.station /\ t.rows = s.rows /\ t.levtr = s.levtr
               /\ t.cache = s.cache /\ t.attrs = s.attrs
               /\ t.last.key = s.last.key /\ t.last.id = s.last.id
               /\ t.last.isNew = s.last.isNew /\ t.last.ids = s.last.ids
               /\ t.last.loaded = s.last.loaded
               /\ \E W : Picks(s, t, ctx, V, W, mode) /\ Queues(s, t, ctx, W)
<1> DEFINE item(v, id) == [id |-> id, ctx |-> ctx, lt |-> v.lt, code |-> v.code,
                           val |-> v.val, attr |-> v.attr]
           match(v) == {i \in s.last.ids : SameKey(i, item(v, MissingId))}
           clashes == {v \in V : mode = "ERROR" /\ match(v) # {}}
           taken == {v \in V : /\ mode = "IGNORE" => match(v) = {}
                               /\ \A w \in clashes :
                                    Before(item(v, MissingId), item(w, MissingId))}
           one(v) == item(v, IF match(v) = {} THEN MissingId
                             ELSE (CHOOSE i \in match(v) : TRUE).id)
           queued == {one(v) : v \in taken}
           replaced == {q \in s.last.queue : \E p \in queued : SameKey(p, q)}
           t == [s EXCEPT !.last.queue = (@ \ replaced) \cup queued,
                          !.err = IF clashes = {} THEN @ ELSE "exists"]
<1>1. Add(s, ctx, V, mode) = t
  BY DEF Add
<1>2. \A v \in V : \A i : SameKey(i, item(v, MissingId)) <=> OfSlot(i, ctx, v)
  BY DEF SameKey, OfSlot
<1>3. \A v \in V : match(v) # {} <=> IsKnown(s, ctx, v)
  BY <1>2 DEF IsKnown
<1>4. \A v \in V : ItemOf(one(v), ctx, v)
  BY DEF ItemOf, OfSlot
<1>5. ASSUME NEW v \in V, one(v).id # MissingId
      PROVE  \E i \in s.last.ids : i.id = one(v).id /\ SameKey(i, one(v))
  <2>1. match(v) # {}
    BY <1>5
  <2> DEFINE i == CHOOSE i \in match(v) : TRUE
  <2>2. i \in match(v)
    BY <2>1
  <2>3. one(v).id = i.id
    BY <2>1
  <2> HIDE DEF i
  <2>4. i \in s.last.ids /\ OfSlot(i, ctx, v)
    BY <1>2, <2>2
  <2>5. SameKey(i, one(v))
    BY <1>4, <2>4 DEF ItemOf, OfSlot, SameKey
  <2> QED
    BY <2>3, <2>4, <2>5
<1>6. \A v \in V : item(v, MissingId) \in Datum
  BY DEF Datum, Item
<1>7. ASSUME NEW v \in taken, mode = "ERROR"
      PROVE  ~IsKnown(s, ctx, v)
  <2>1. SUFFICES ASSUME match(v) # {}
                 PROVE  FALSE
    BY <1>3
  <2>2. v \in clashes
    BY <1>7, <2>1
  <2>3. Before(item(v, MissingId), item(v, MissingId))
    BY <2>2
  <2> QED
    BY <1>6, <2>3, BeforeOrders
<1>8. Picks(s, t, ctx, V, taken, mode)
  <2>1. t.err = IF clashes = {} THEN "ok" ELSE "exists"
    BY DEF Good, Typed
  <2>2. mode # "ERROR" => clashes = {}
    OBVIOUS
  <2>3. mode = "UPDATE" => taken = V
    BY <2>2
  <2>4. mode = "IGNORE" => taken = {v \in V : ~IsKnown(s, ctx, v)}
    BY <1>3, <2>2
  <2>5. mode = "ERROR" /\ clashes = {} => taken = V /\ \A v \in V : ~IsKnown(s, ctx, v)
    BY <1>3
  <2>6. mode = "ERROR" /\ clashes # {} => \E v \in V : IsKnown(s, ctx, v)
    BY <1>3
  <2>7. taken \subseteq V
    OBVIOUS
  <2> HIDE DEF taken, clashes, t
  <2> QED
    BY <1>7, <2>1, <2>2, <2>3, <2>4, <2>5, <2>6, <2>7 DEF Picks
<1>9. /\ t.station = s.station /\ t.rows = s.rows /\ t.levtr = s.levtr
      /\ t.cache = s.cache /\ t.attrs = s.attrs
      /\ t.last = [s.last EXCEPT !.queue = (@ \ replaced) \cup queued]
  BY DEF Good, Typed
<1>10. \A v \in taken : v \in V /\ one(v) \in queued
  OBVIOUS
<1>11. \A q \in queued : \E v \in taken : q = one(v)
  OBVIOUS
<1> HIDE DEF t, one, taken, queued
<1>12. \A q : q \in replaced <=> q \in s.last.queue /\ \E v \in taken : OfSlot(q, ctx, v)
  <2> SUFFICES ASSUME NEW q
               PROVE  (\E p \in queued : SameKey(p, q)) <=> \E v \in taken : OfSlot(q, ctx, v)
    OBVIOUS
  <2>1. \A v \in taken : SameKey(one(v), q) <=> OfSlot(q, ctx, v)
    BY <1>4, <1>10 DEF ItemOf, OfSlot, SameKey
  <2> QED
    BY <1>10, <1>11, <2>1
<1> HIDE DEF replaced
<1>13. /\ t.last.key = s.last.key /\ t.last.id = s.last.id
       /\ t.last.isNew = s.last.isNew /\ t.last.ids = s.last.ids
       /\ t.last.loaded = s.last.loaded
       /\ t.last.queue = (s.last.queue \ replaced) \cup queued
  BY <1>9 DEF CachedStation
<1>14. s.last.queue \ replaced = {q \in s.last.queue : \A v \in taken : ~OfSlot(q, ctx, v)}
  BY <1>12
<1>15. Queues(s, t, ctx, taken)
  <2>1. t.last.queue = {q \in s.last.queue : \A v \in taken : ~OfSlot(q, ctx, v)} \cup queued
    BY <1>13, <1>14
  <2>2. ASSUME NEW q \in queued
        PROVE  /\ \E v \in taken : ItemOf(q, ctx, v)
               /\ q.id # MissingId => \E i \in s.last.ids : i.id = q.id /\ SameKey(i, q)
    BY <1>4, <1>5, <1>10, <1>11
  <2>3. \A v \in taken : \E q \in queued : ItemOf(q, ctx, v)
    BY <1>4, <1>10
  <2> QED
    BY <2>1, <2>2, <2>3 DEF Queues
<1> QED
  BY <1>1, <1>8, <1>9, <1>13, <1>15

\* A variable v of a call, in context ctx.
At(ctx, v) == [ctx |-> ctx, lt |-> v.lt, code |-> v.code, val |-> v.val,
               attr |-> v.attr]

\* Its slot, for the station cached.
Slot(s, ctx, v) == Value(s, s.last.key, At(ctx, v))

Slots(s, ctx, V) == {Slot(s, ctx, v) : v \in V}

LEMMA AtIs ==
    ASSUME NEW ctx, NEW v
    PROVE  /\ \A q : /\ OfSlot(q, ctx, v) <=> SameKey(q, At(ctx, v))
                     /\ ItemOf(q, ctx, v) => \A T, k : Value(T, k, q) = Value(T, k, At(ctx, v))
           /\ \A T : Placed(At(ctx, v), T) <=>
                     IF ctx = StationCtx THEN v.lt = MissingId ELSE v.lt \in IdsOf(T)
BY DEF At, OfSlot, ItemOf, SameKey, Placed, Value

\* In a context that is loaded, what is known is what is there.
LEMMA KnownIsTaken ==
    ASSUME NEW s, Whole(s), s.last \in CachedStation, NEW ctx \in s.last.loaded,
           NEW v, Placed(At(ctx, v), s.levtr)
    PROVE  IsKnown(s, ctx, v) <=> \E c \in ValuesIn(s) : A!SameSlot(c, Slot(s, ctx, v))
<1> DEFINE V(r) == Value(s, KeyOf(s, r.st), r)
<1>1. ValuesIn(s) = {V(r) : r \in s.rows}
  BY ValuesAre
<1>2. ASSUME NEW r \in s.rows
      PROVE  A!SameSlot(V(r), Slot(s, ctx, v)) <=> r.st = s.last.id /\ OfSlot(r, ctx, v)
  <2>1. /\ s.levtr \subseteq LevTrRow /\ UniqueIds(s.levtr) /\ UniqueLevels(s.levtr)
        /\ Placed(r, s.levtr)
    BY WholeParts
  <2>2. A!SameSlot(V(r), Slot(s, ctx, v))
          <=> KeyOf(s, r.st) = s.last.key /\ SameKey(r, At(ctx, v))
    BY <2>1, SlotIs DEF Slot
  <2>3. PICK x \in s.station : x.id = r.st
    BY WholeParts DEF IdsOf
  <2>4. KeyOf(s, r.st) = x.key
    BY <2>3, KeyIs, WholeParts
  <2>5. s.last.key = x.key <=> s.last.id = x.id
    BY IdOfLast
  <2> QED
    BY <2>2, <2>3, <2>4, <2>5, AtIs
<1>3. Knows(s.last, s.rows)
  BY DEF Whole, Linked, Cached
<1>4. ASSUME NEW i \in s.last.ids, OfSlot(i, ctx, v)
      PROVE  \E r \in s.rows : r.st = s.last.id /\ OfSlot(r, ctx, v)
  <2>1. PICK r \in s.rows : r.st = s.last.id /\ i = IdOf(r)
    BY <1>3 DEF Knows
  <2>2. OfSlot(r, ctx, v)
    BY <1>4, <2>1 DEF OfSlot, IdOf
  <2> QED
    BY <2>1, <2>2
<1>5. ASSUME NEW r \in s.rows, r.st = s.last.id, OfSlot(r, ctx, v)
      PROVE  IdOf(r) \in s.last.ids /\ OfSlot(IdOf(r), ctx, v)
  <2>1. r.ctx \in s.last.loaded
    BY <1>5 DEF OfSlot
  <2> QED
    BY <1>3, <1>5, <2>1 DEF Knows, OfSlot, IdOf
<1> HIDE DEF V
<1> QED
  BY <1>1, <1>2, <1>4, <1>5 DEF IsKnown

\* Variables queued take the place of what was queued in their slots.
LEMMA QueuedIs ==
    ASSUME NEW s, Whole(s), s.last \in CachedStation, NEW ctx, NEW W,
           \A v \in W : Placed(At(ctx, v), s.levtr),
           NEW t, Queues(s, t, ctx, W)
    PROVE  {Value(s, s.last.key, q) : q \in t.last.queue}
             = A!Put(InQueue(s), Slots(s, ctx, W))
<1> DEFINE k == s.last.key
           V(q) == Value(s, k, q)
<1>1. PICK Q :
        /\ t.last.queue = {q \in s.last.queue : \A v \in W : ~OfSlot(q, ctx, v)} \cup Q
        /\ \A q \in Q : \E v \in W : ItemOf(q, ctx, v)
        /\ \A v \in W : \E q \in Q : ItemOf(q, ctx, v)
  BY DEF Queues
<1>2. ASSUME NEW q \in s.last.queue, NEW v \in W
      PROVE  A!SameSlot(V(q), Slot(s, ctx, v)) <=> OfSlot(q, ctx, v)
  <2>1. /\ s.levtr \subseteq LevTrRow /\ UniqueIds(s.levtr) /\ UniqueLevels(s.levtr)
        /\ Placed(q, s.levtr)
    BY WholeParts
  <2>2. A!SameSlot(V(q), Slot(s, ctx, v)) <=> SameKey(q, At(ctx, v))
    BY <2>1, SlotIs DEF Slot
  <2> QED
    BY <2>2, AtIs
<1>3. \A q, v : ItemOf(q, ctx, v) => V(q) = Slot(s, ctx, v)
  BY AtIs DEF Slot
<1>4. A!Put(InQueue(s), Slots(s, ctx, W)) =
        {c \in InQueue(s) : \A x \in Slots(s, ctx, W) : ~A!SameSlot(c, x)}
          \cup Slots(s, ctx, W)
  BY DEF A!Put
<1>5. InQueue(s) = {V(q) : q \in s.last.queue}
  BY DEF InQueue
<1>6. \A c : (\A x \in Slots(s, ctx, W) : ~A!SameSlot(c, x))
               <=> \A v \in W : ~A!SameSlot(c, Slot(s, ctx, v))
  BY DEF Slots
<1>7. \A x : x \in Slots(s, ctx, W) <=> \E v \in W : x = Slot(s, ctx, v)
  BY DEF Slots
<1> HIDE DEF V
<1>8. ASSUME NEW q \in t.last.queue
      PROVE  V(q) \in A!Put(InQueue(s), Slots(s, ctx, W))
  <2>1. CASE q \in Q
    BY <1>1, <1>3, <1>4, <1>7, <2>1
  <2>2. CASE q \in s.last.queue /\ \A v \in W : ~OfSlot(q, ctx, v)
    BY <1>2, <1>4, <1>5, <1>6, <2>2
  <2> QED
    BY <1>1, <2>1, <2>2
<1>9. ASSUME NEW x \in A!Put(InQueue(s), Slots(s, ctx, W))
      PROVE  \E q \in t.last.queue : x = V(q)
  <2>1. CASE x \in Slots(s, ctx, W)
    <3>1. PICK v \in W : x = Slot(s, ctx, v)
      BY <1>7, <2>1
    <3>2. PICK q \in Q : ItemOf(q, ctx, v)
      BY <1>1
    <3> QED
      BY <1>1, <1>3, <3>1, <3>2
  <2>2. CASE x \in InQueue(s) /\ \A y \in Slots(s, ctx, W) : ~A!SameSlot(x, y)
    <3>1. PICK q \in s.last.queue : x = V(q)
      BY <1>5, <2>2
    <3>2. \A v \in W : ~OfSlot(q, ctx, v)
      BY <1>2, <1>6, <2>2, <3>1
    <3> QED
      BY <1>1, <3>1, <3>2
  <2> QED
    BY <1>4, <2>1, <2>2
<1> QED
  BY <1>8, <1>9 DEF V

\* Add does nothing that shows but queue.
LEMMA AddWhole ==
    ASSUME NEW s, Whole(s), Live(s), s.err = "ok", NEW ctx \in s.last.loaded,
           NEW V \in SUBSET Item, IsFiniteSet(V), Distinct(V),
           \A v \in V : Placed(At(ctx, v), s.levtr), NEW mode \in UpdateModes
    PROVE  LET t == Add(s, ctx, V, mode) IN Whole(t) /\ Live(t)
<1> DEFINE t == Add(s, ctx, V, mode)
<1>0. s.last \in CachedStation /\ ctx \in Contexts /\ Good(s)
  BY DEF Live, CachedStation
<1>1. Sound(t) /\ Live(t)
  BY <1>0, AddSound DEF Whole
<1>2. Leveled(t)
  BY <1>0, AddLevels, SameLeveled DEF Whole
<1>3. Linked(t)
  <2>1. ctx # StationCtx => \A v \in V : v.lt \in IdsOf(s.levtr)
    BY AtIs
  <2> QED
    BY <2>1, AddLinked DEF Whole
<1>4. Keyed(t)
  <2>1. Tame(s, t, mode)
    BY <1>0, AddTame
  <2> QED
    BY <2>1 DEF Tame, Whole
<1>5. /\ t.station = s.station /\ t.rows = s.rows
      /\ t.last.id = s.last.id /\ t.last.isNew = s.last.isNew /\ t.last.ids = s.last.ids
      /\ \E W : Picks(s, t, ctx, V, W, mode) /\ Queues(s, t, ctx, W)
  BY <1>0, AddShape
<1> HIDE DEF t
<1>6. PICK W : W \subseteq V /\ Queues(s, t, ctx, W)
  BY <1>5 DEF Picks
<1>7. PICK Q :
        /\ t.last.queue = {q \in s.last.queue : \A v \in W : ~OfSlot(q, ctx, v)} \cup Q
        /\ \A q \in Q : /\ \E v \in W : ItemOf(q, ctx, v)
                        /\ q.id # MissingId =>
                              \E i \in s.last.ids : i.id = q.id /\ SameKey(i, q)
  BY <1>6 DEF Queues
<1>8. QueuesKnown(s.last)
  BY <1>0, WholeParts
<1>9. NoLevel(t.last.queue)
  <2>1. \A q \in Q : q.ctx = StationCtx => q.lt = MissingId
    <3> SUFFICES ASSUME NEW q \in Q, q.ctx = StationCtx
                 PROVE  q.lt = MissingId
      OBVIOUS
    <3>1. PICK v \in W : OfSlot(q, ctx, v)
      BY <1>7 DEF ItemOf
    <3>2. Placed(At(ctx, v), s.levtr)
      BY <1>6
    <3> QED
      BY <3>1, <3>2, AtIs DEF OfSlot
  <2> QED
    BY <1>7, <1>8, <2>1 DEF QueuesKnown, NoLevel
<1>10. \A q \in Updates(t.last) : \E i \in t.last.ids : i.id = q.id /\ SameKey(i, q)
  BY <1>5, <1>7, <1>8 DEF QueuesKnown, Updates
<1>11. Slotted(t)
  BY <1>5, <1>8, <1>9, <1>10 DEF Whole, Slotted, SlottedTables, QueuesKnown
<1> QED
  BY <1>1, <1>2, <1>3, <1>4, <1>11 DEF Whole, t

\* What add has the archive queue, in each of its modes.
Takes(t, a, X, mode) ==
    /\ t.err \in {"ok", "exists"}
    /\ mode = "UPDATE" => t.err = "ok" /\ Abs(t) = A!Queue(a, X)
    /\ mode = "IGNORE" => t.err = "ok" /\ Abs(t) = A!Queue(a, A!Free(a, X))
    /\ mode = "ERROR" =>
          \/ t.err = "ok" /\ A!Free(a, X) = X /\ Abs(t) = A!Queue(a, X)
          \/ /\ t.err # "ok" /\ A!Free(a, X) # X
             /\ \E Y \in SUBSET A!Free(a, X) : Abs(t) = A!Queue(a, Y)

LEMMA AddIs ==
    ASSUME NEW s, Whole(s), Live(s), s.err = "ok", NEW ctx \in s.last.loaded,
           NEW V \in SUBSET Item, IsFiniteSet(V),
           \A v \in V : Placed(At(ctx, v), s.levtr), NEW mode \in UpdateModes
    PROVE  LET t == Add(s, ctx, V, mode)
           IN  t.last.key = s.last.key /\ Takes(t, Abs(s), Slots(s, ctx, V), mode)
<1> DEFINE t == Add(s, ctx, V, mode)
           a == Abs(s)
           X == Slots(s, ctx, V)
<1>0. s.last \in CachedStation /\ ctx \in Contexts /\ Good(s) /\ s.last # NoStation
  BY NoStationAssumption DEF Live, CachedStation
<1>1. /\ t.station = s.station /\ t.rows = s.rows /\ t.levtr = s.levtr
      /\ t.attrs = s.attrs /\ t.last.key = s.last.key /\ t.last.id = s.last.id
      /\ t.last.isNew = s.last.isNew
      /\ \E W : Picks(s, t, ctx, V, W, mode) /\ Queues(s, t, ctx, W)
  BY <1>0, AddShape
<1>2. PICK W : Picks(s, t, ctx, V, W, mode) /\ Queues(s, t, ctx, W)
  BY <1>1
<1>3. W \subseteq V
  BY <1>2 DEF Picks
<1>4. t.last # NoStation
  BY <1>0, AddGood, NoStationAssumption, Zenon
<1> HIDE DEF t
<1>5. Abs(t) = A!Queue(a, Slots(s, ctx, W))
  <2>1. {Value(s, s.last.key, q) : q \in t.last.queue} = A!Put(InQueue(s), Slots(s, ctx, W))
    BY <1>0, <1>2, <1>3, QueuedIs
  <2>2. \A k, x : Value(t, k, x) = Value(s, k, x)
    BY <1>1 DEF Value, LtOf
  <2>3. \A id : KeyOf(t, id) = KeyOf(s, id)
    BY <1>1 DEF KeyOf
  <2>4. ValuesIn(t) = ValuesIn(s) /\ KeysIn(t) = KeysIn(s)
    <3>1. ValuesIn(t) = {Value(t, KeyOf(t, r.st), r) : r \in t.rows}
      BY ValuesAre
    <3>2. ValuesIn(s) = {Value(s, KeyOf(s, r.st), r) : r \in s.rows}
      BY ValuesAre
    <3> QED
      BY <1>1, <2>2, <2>3, <3>1, <3>2 DEF KeysIn
  <2>5. {Value(t, t.last.key, q) : q \in t.last.queue} = A!Put(InQueue(s), Slots(s, ctx, W))
    BY <1>1, <2>1, <2>2
  <2> DEFINE put == A!Put(InQueue(s), Slots(s, ctx, W))
  <2>6. Abs(t) = [stations |-> KeysIn(s), content |-> ValuesIn(s),
                  left |-> [key |-> s.last.key, values |-> put], keep |-> s.attrs]
    BY <1>1, <1>4, <2>4, <2>5 DEF Abs
  <2>7. a = [stations |-> KeysIn(s), content |-> ValuesIn(s),
             left |-> [key |-> s.last.key, values |-> InQueue(s)], keep |-> s.attrs]
    BY <1>0 DEF Abs, InQueue
  <2>8. A!Queue(a, Slots(s, ctx, W)) =
          [a EXCEPT !.left.values = A!Put(@, Slots(s, ctx, W))]
    BY DEF A!Queue
  <2>9. a.left.values = InQueue(s)
    BY <2>7
  <2> HIDE DEF a
  <2>10. A!Queue(a, Slots(s, ctx, W)) =  [a EXCEPT !.left.values = put]
    BY <2>8, <2>9
  <2> HIDE DEF put
  <2> QED
    BY <2>6, <2>7, <2>10
<1>6. A!Free(a, X) = {x \in X : \A c \in ValuesIn(s) : ~A!SameSlot(c, x)}
  BY DEF A!Free, Abs
<1>7. \A v \in V : IsKnown(s, ctx, v) <=> \E c \in ValuesIn(s) : A!SameSlot(c, Slot(s, ctx, v))
  BY <1>0, KnownIsTaken
<1>8. A!Free(a, X) = Slots(s, ctx, {v \in V : ~IsKnown(s, ctx, v)})
  BY <1>6, <1>7 DEF Slots
<1>9. ASSUME \A v \in W : ~IsKnown(s, ctx, v)
      PROVE  Slots(s, ctx, W) \subseteq A!Free(a, X)
  BY <1>3, <1>8, <1>9 DEF Slots
<1>10. ASSUME NEW v \in V, IsKnown(s, ctx, v)
       PROVE  A!Free(a, X) # X
  <2>1. Slot(s, ctx, v) \in X
    BY DEF Slots
  <2>2. Slot(s, ctx, v) \notin A!Free(a, X)
    BY <1>6, <1>7, <1>10
  <2> QED
    BY <2>1, <2>2
<1> HIDE DEF a
<1>11. mode = "UPDATE" => t.err = "ok" /\ Abs(t) = A!Queue(a, X)
  BY <1>2, <1>5 DEF Picks
<1>12. mode = "IGNORE" => t.err = "ok" /\ Abs(t) = A!Queue(a, A!Free(a, X))
  BY <1>2, <1>5, <1>8 DEF Picks
<1>13. ASSUME mode = "ERROR", t.err = "ok"
       PROVE  A!Free(a, X) = X /\ Abs(t) = A!Queue(a, X)
  <2>1. W = V /\ \A v \in V : ~IsKnown(s, ctx, v)
    BY <1>2, <1>13 DEF Picks
  <2>2. {v \in V : ~IsKnown(s, ctx, v)} = V
    BY <2>1
  <2> QED
    BY <1>5, <1>8, <2>1, <2>2
<1>14. ASSUME mode = "ERROR", t.err # "ok"
       PROVE  A!Free(a, X) # X /\ \E Y \in SUBSET A!Free(a, X) : Abs(t) = A!Queue(a, Y)
  <2>1. (\A v \in W : ~IsKnown(s, ctx, v)) /\ \E v \in V : IsKnown(s, ctx, v)
    BY <1>2, <1>14 DEF Picks
  <2> QED
    BY <1>5, <1>9, <1>10, <2>1
<1>15. t.err \in {"ok", "exists"}
  BY <1>2 DEF Picks
<1> QED
  BY <1>1, <1>11, <1>12, <1>13, <1>14, <1>15 DEF t, a, Takes

SlotsOf(k, ctx, V) == {InSlot(k, ctx, x) : x \in V}

StationSlots(k, V) == SlotsOf(k, StationCtx, AtLevTr(NoLevTr, V))

\* Values of a station are queued without a level.
LEMMA AddStationVarsIs ==
    ASSUME NEW s, Whole(s), Live(s), s.err = "ok", NEW V \in SUBSET Var, IsFiniteSet(V),
           CodesOnce(V), NEW mode \in UpdateModes
    PROVE  LET t == AddStationVars(s, V, mode)
           IN  /\ Whole(t) /\ Live(t) /\ t.last.key = s.last.key
               /\ Takes(t, Abs(s), StationSlots(s.last.key, V), mode)
<1> DEFINE u == Load(s, StationCtx)
           W == AtLevTr(MissingId, V)
           k == s.last.key
<1>1. /\ Whole(u) /\ Live(u) /\ u.err = "ok" /\ Abs(u) = Abs(s)
      /\ u.last.key = k /\ StationCtx \in u.last.loaded
  BY LoadWhole DEF Contexts
<1>2. W \in SUBSET Item /\ IsFiniteSet(W) /\ Distinct(W)
  BY AtLevTrType, AtLevTrDistinct DEF Item, CodesOnce
<1>3. \A w \in W : w.lt = MissingId
  BY DEF AtLevTr
<1>4. \A w \in W : Placed(At(StationCtx, w), u.levtr)
  BY <1>3, AtIs
<1>5. Slots(u, StationCtx, W) = StationSlots(k, V)
  <2> DEFINE w(x) == [lt |-> MissingId, code |-> x.code, val |-> x.val, attr |-> x.attr]
             y(x) == [lt |-> NoLevTr, code |-> x.code, val |-> x.val, attr |-> x.attr]
  <2>1. \A x \in V : Slot(u, StationCtx, w(x)) = InSlot(k, StationCtx, y(x))
    BY <1>1 DEF Slot, Value, At, InSlot, LtOf
  <2>2. W = {w(x) : x \in V} /\ AtLevTr(NoLevTr, V) = {y(x) : x \in V}
    BY DEF AtLevTr
  <2> HIDE DEF w, y, W
  <2> QED
    BY <2>1, <2>2 DEF Slots, StationSlots, SlotsOf
<1> HIDE DEF u, W
<1>6. Whole(Add(u, StationCtx, W, mode)) /\ Live(Add(u, StationCtx, W, mode))
  BY <1>1, <1>2, <1>4, AddWhole
<1>7. /\ Add(u, StationCtx, W, mode).last.key = u.last.key
      /\ Takes(Add(u, StationCtx, W, mode), Abs(u), Slots(u, StationCtx, W), mode)
  BY <1>1, <1>2, <1>4, AddIs
<1> QED
  BY <1>1, <1>5, <1>6, <1>7 DEF AddStationVars, u, W

\* Measured values are queued at the row of their level, which has that level.
LEMMA ObtainAndAddIs ==
    ASSUME NEW s, Whole(s), Live(s), s.err = "ok", NEW dt \in Datetimes,
           NEW L \in SUBSET LevTrs, IsFiniteSet(L),
           NEW V, IsFiniteSet(V), Distinct(V), \A v \in V : v.lt \in L,
           V \subseteq [lt : LevTrs, code : Codes, val : Vals, attr : BOOLEAN],
           NEW mode \in UpdateModes
    PROVE  LET t == AddAtLevTr(ObtainLevTrs(Load(s, dt), L), dt, V, mode)
           IN  /\ Whole(t) /\ Live(t) /\ t.last.key = s.last.key
               /\ Takes(t, Abs(s), SlotsOf(s.last.key, dt, V), mode)
<1> DEFINE s1 == Load(s, dt)
           u == ObtainLevTrs(s1, L)
           W == WithLevTr(u, V)
           k == s.last.key
<1>1. /\ Whole(s1) /\ Live(s1) /\ s1.err = "ok" /\ Abs(s1) = Abs(s)
      /\ s1.last.key = k /\ dt \in s1.last.loaded
  BY LoadWhole DEF Contexts
<1> HIDE DEF s1
<1>2. /\ Whole(u) /\ Live(u) /\ u.err = "ok" /\ Abs(u) = Abs(s)
      /\ u.last.key = k /\ dt \in u.last.loaded
      /\ \A l \in L : \E c \in u.cache : c.lt = l
  BY <1>1, ObtainLevTrsWhole
<1> HIDE DEF u
<1>3. \A v \in V : \E c \in u.cache : c.lt = v.lt
  BY <1>2
<1>4. W \in SUBSET Item /\ IsFiniteSet(W)
  BY <1>2, <1>3, WithLevTrType DEF Live
<1>5. Distinct(W)
  BY <1>2, <1>3, WithLevTrDistinct DEF Whole
<1> DEFINE w(x) == [lt |-> LevTrId(u, x.lt), code |-> x.code, val |-> x.val,
                    attr |-> x.attr]
<1>6. W = {w(x) : x \in V}
  BY DEF WithLevTr
<1>7. \A x \in V : LevTrId(u, x.lt) \in IdsOf(u.levtr) /\ LtOf(u, LevTrId(u, x.lt)) = x.lt
  <2> SUFFICES ASSUME NEW x \in V
               PROVE  LevTrId(u, x.lt) \in IdsOf(u.levtr) /\ LtOf(u, LevTrId(u, x.lt)) = x.lt
    OBVIOUS
  <2> DEFINE c == CHOOSE c \in u.cache : c.lt = x.lt
  <2>1. c \in u.cache /\ c.lt = x.lt
    BY <1>3
  <2>2. LevTrId(u, x.lt) = c.id
    BY DEF LevTrId
  <2> HIDE DEF c
  <2>3. c \in u.levtr
    BY <1>2, <2>1 DEF Whole, Keyed
  <2>4. LtOf(u, c.id) = c.lt
    BY <1>2, <2>3, LtIs, WholeParts
  <2> QED
    BY <2>1, <2>2, <2>3, <2>4 DEF IdsOf
<1>8. \A x \in W : Placed(At(dt, x), u.levtr)
  <2>1. \A x \in V : w(x).lt \in IdsOf(u.levtr)
    BY <1>7
  <2>2. dt # StationCtx
    BY SentinelAssumption
  <2> HIDE DEF w, W
  <2> QED
    BY <1>6, <2>1, <2>2, AtIs
<1>9. Slots(u, dt, W) = SlotsOf(k, dt, V)
  <2>1. \A x \in V : Slot(u, dt, w(x)) = InSlot(k, dt, x)
    BY <1>2, <1>7 DEF Slot, Value, At, InSlot
  <2> HIDE DEF w, W
  <2> QED
    BY <1>6, <2>1 DEF Slots, SlotsOf
<1> HIDE DEF W
<1>10. Whole(Add(u, dt, W, mode)) /\ Live(Add(u, dt, W, mode))
  BY <1>2, <1>4, <1>5, <1>8, AddWhole
<1>11. /\ Add(u, dt, W, mode).last.key = u.last.key
       /\ Takes(Add(u, dt, W, mode), Abs(u), Slots(u, dt, W), mode)
  BY <1>2, <1>4, <1>8, AddIs
<1> QED
  BY <1>2, <1>9, <1>10, <1>11 DEF AddAtLevTr, u, s1, W

----------------------------------------------------------------------------
(* Inserts                                                                 *)

\* The call is refused for lack of a station, or before it looks for one.
Refused(t, a) == /\ t.err # "ok"
                 /\ Abs(t) = a \/ \E k \in Stations : Abs(t) = A!Switch(a, k)

\* The call writes the values X of the station of key k, or finds a slot taken.
StoredOrTaken(t, a, k, X, mode) ==
    LET b == A!Switch(a, k) IN
    \/ /\ t.err = "ok" /\ Abs(t) = A!Flush(A!Queue(b, X))
       /\ mode = "UPDATE" \/ A!Free(b, X) = X
    \/ /\ t.err # "ok" /\ A!Free(b, X) # X
       /\ \E Y \in SUBSET A!Free(b, X) : Abs(t) = A!Queue(b, Y)

LEMMA ThrownStays ==
    ASSUME NEW s, s.err # "ok", NEW V, NEW mode, NEW ctx, NEW L, NEW kind
    PROVE  /\ Throw(s, kind) = s /\ Load(s, ctx) = s /\ WritePending(s) = s
           /\ AddStationVars(s, V, mode) = s
           /\ AddAtLevTr(ObtainLevTrs(s, L), ctx, V, mode) = s
<1>1. /\ Throw(s, kind) = s /\ Load(s, ctx) = s /\ Load(s, StationCtx) = s
      /\ WritePending(s) = s /\ ObtainLevTrs(s, L) = s
  BY DEF Throw, Load, WritePending, ObtainLevTrs
<1>2. \A c, W : Add(s, c, W, mode) = s
  BY DEF Add
<1> QED
  BY <1>1, <1>2 DEF AddStationVars, AddAtLevTr

\* What is queued is written at the end of the call, unless it has thrown.
LEMMA WrittenIs ==
    ASSUME NEW s, Whole(s), NEW a, NEW k, NEW X, NEW mode \in {"UPDATE", "ERROR"},
           Takes(s, A!Switch(a, k), X, mode)
    PROVE  Whole(WritePending(s)) /\ StoredOrTaken(WritePending(s), a, k, X, mode)
<1>1. Whole(WritePending(s)) /\ WritePending(s).err = s.err
  BY WritePendingWhole
<1>2. CASE s.err = "ok"
  <2>1. Abs(WritePending(s)) = A!Flush(Abs(s))
    BY <1>2, FlushIs
  <2> QED
    BY <1>1, <1>2, <2>1 DEF Takes, StoredOrTaken
<1>3. CASE s.err # "ok"
  <2>1. WritePending(s) = s
    BY <1>3 DEF WritePending
  <2> QED
    BY <1>1, <1>3, <2>1 DEF Takes, StoredOrTaken
<1> QED
  BY <1>2, <1>3

LEMMA InsertStationDataIs ==
    ASSUME NEW s, Whole(s), s.err = "ok", NEW key \in Stations \cup {NoKey},
           NEW id \in RowIds \cup {MissingId},
           NEW V \in SUBSET Var, IsFiniteSet(V), CodesOnce(V),
           NEW canReplace \in BOOLEAN, NEW canAdd \in BOOLEAN
    PROVE  LET t == InsertStationDataCall(s, key, id, V, canReplace, canAdd)
           IN  /\ Whole(t)
               /\ \/ Refused(t, Abs(s))
                  \/ \E k \in Stations :
                       StoredOrTaken(t, Abs(s), k, StationSlots(k, V), ModeOf(canReplace))
<1> DEFINE mode == ModeOf(canReplace)
           s1 == GetStation(s, key, id, canAdd)
           s2 == AddStationVars(s1, V, mode)
           t == WritePending(s2)
<1>1. InsertStationDataCall(s, key, id, V, canReplace, canAdd) = t
  BY DEF InsertStationDataCall
<1>2. mode \in {"UPDATE", "ERROR"} /\ mode \in UpdateModes
  BY DEF ModeOf, UpdateModes
<1>3. /\ Whole(s1) /\ Live(s1)
      /\ \/ s1.err # "ok" /\ Abs(s1) = Abs(s)
         \/ \E k \in Stations : Abs(s1) = A!Switch(Abs(s), k)
                                /\ (s1.err = "ok" => s1.last.key = k)
  BY GetStationWhole
<1> HIDE DEF s1, mode
<1>4. CASE s1.err # "ok"
  <2>1. t = s1
    BY <1>4, ThrownStays
  <2> QED
    BY <1>1, <1>3, <1>4, <2>1 DEF Refused
<1>5. CASE s1.err = "ok"
  <2>1. PICK k \in Stations : Abs(s1) = A!Switch(Abs(s), k) /\ s1.last.key = k
    BY <1>3, <1>5
  <2>2. Whole(s2) /\ Takes(s2, Abs(s1), StationSlots(s1.last.key, V), mode)
    BY <1>2, <1>3, <1>5, AddStationVarsIs
  <2> HIDE DEF s2
  <2>3. Whole(t) /\ StoredOrTaken(t, Abs(s), k, StationSlots(k, V), mode)
    BY <1>2, <2>1, <2>2, WrittenIs
  <2> QED
    BY <1>1, <2>3 DEF mode
<1> QED
  BY <1>4, <1>5

LEMMA InsertAtIs ==
    ASSUME NEW s, Whole(s), Live(s), s.err = "ok", NEW a, NEW k \in Stations,
           Abs(s) = A!Switch(a, k), s.last.key = k,
           NEW dt \in Datetimes \cup {NoDatetime}, NEW lt \in LevTrs \cup {NoLevTr},
           NEW V \in SUBSET Var, IsFiniteSet(V), CodesOnce(V),
           NEW mode \in {"UPDATE", "ERROR"}
    PROVE  LET t == InsertAt(s, dt, lt, V, mode)
           IN  /\ Whole(t)
               /\ \/ Refused(t, a)
                  \/ /\ dt \in Datetimes /\ lt \in LevTrs
                     /\ StoredOrTaken(t, a, k, SlotsOf(k, dt, AtLevTr(lt, V)), mode)
<1> DEFINE t == InsertAt(s, dt, lt, V, mode)
<1>0. "usage" \in Outcomes \ {"sql", "ok"}
  BY DEF Outcomes
<1>1. CASE dt = NoDatetime
  <2>1. t = Throw(s, "usage")
    BY <1>1 DEF InsertAt
  <2>2. Whole(t) /\ Abs(t) = Abs(s) /\ t.err # "ok"
    BY <1>0, <2>1, ThrowWhole
  <2> QED
    BY <2>2 DEF Refused
<1>2. CASE dt # NoDatetime /\ lt = NoLevTr
  <2> DEFINE u == Load(s, dt)
  <2>1. t = Throw(u, "usage")
    BY <1>2 DEF InsertAt
  <2>2. Whole(u) /\ Abs(u) = Abs(s)
    BY <1>2, LoadWhole DEF Contexts
  <2> HIDE DEF u
  <2>3. Whole(t) /\ Abs(t) = Abs(s) /\ t.err # "ok"
    BY <1>0, <2>1, <2>2, ThrowWhole
  <2> QED
    BY <2>3 DEF Refused
<1>3. CASE dt # NoDatetime /\ lt # NoLevTr
  <2> DEFINE W == AtLevTr(lt, V)
             u == AddAtLevTr(ObtainLevTrs(Load(s, dt), {lt}), dt, W, mode)
  <2>1. t = WritePending(u)
    BY <1>3 DEF InsertAt
  <2>2. dt \in Datetimes /\ lt \in LevTrs /\ {lt} \in SUBSET LevTrs /\ IsFiniteSet({lt})
    BY <1>3, FS_Singleton
  <2>3. /\ W \subseteq [lt : LevTrs, code : Codes, val : Vals, attr : BOOLEAN]
        /\ IsFiniteSet(W) /\ \A v \in W : v.lt \in {lt}
    <3>1. W \subseteq [lt : {lt}, code : Codes, val : Vals, attr : BOOLEAN] /\ IsFiniteSet(W)
      BY AtLevTrType
    <3> HIDE DEF W
    <3> QED
      BY <2>2, <3>1
  <2>4. Distinct(W)
    BY AtLevTrDistinct DEF CodesOnce
  <2>5. mode \in UpdateModes
    BY DEF UpdateModes
  <2> HIDE DEF W
  <2>6. Whole(u) /\ Takes(u, Abs(s), SlotsOf(s.last.key, dt, W), mode)
    BY <2>2, <2>3, <2>4, <2>5, ObtainAndAddIs
  <2> HIDE DEF u
  <2>7. Whole(t) /\ StoredOrTaken(t, a, k, SlotsOf(k, dt, W), mode)
    BY <2>1, <2>6, WrittenIs
  <2> QED
    BY <2>2, <2>7 DEF W
<1> QED
  BY <1>1, <1>2, <1>3

\* How insert_data ends, from archive a: refused, or with the variables stored.
DataStored(t, a, dt, lt, V, mode) ==
    \/ Refused(t, a)
    \/ \E k \in Stations :
          /\ dt \in Datetimes /\ lt \in LevTrs
          /\ StoredOrTaken(t, a, k, SlotsOf(k, dt, AtLevTr(lt, V)), mode)

LEMMA InsertDataIs ==
    ASSUME NEW s, Whole(s), s.err = "ok", NEW key \in Stations \cup {NoKey},
           NEW id \in RowIds \cup {MissingId},
           NEW dt \in Datetimes \cup {NoDatetime}, NEW lt \in LevTrs \cup {NoLevTr},
           NEW V \in SUBSET Var, IsFiniteSet(V), CodesOnce(V),
           NEW canReplace \in BOOLEAN, NEW canAdd \in BOOLEAN
    PROVE  LET t == InsertDataCall(s, key, id, dt, lt, V, canReplace, canAdd)
           IN  Whole(t) /\ DataStored(t, Abs(s), dt, lt, V, ModeOf(canReplace))
<1> DEFINE mode == ModeOf(canReplace)
           s1 == GetStation(s, key, id, canAdd)
           t == InsertDataCall(s, key, id, dt, lt, V, canReplace, canAdd)
<1>1. CASE V = {}
  <2>1. t = Throw(s, "empty")
    BY <1>1 DEF InsertDataCall
  <2>2. Whole(t) /\ Abs(t) = Abs(s) /\ t.err # "ok"
    BY <2>1, ThrowWhole DEF Outcomes
  <2> HIDE DEF t
  <2>3. Refused(t, Abs(s))
    BY <2>2 DEF Refused
  <2> QED
    BY <2>2, <2>3 DEF DataStored, t
<1>2. CASE V # {}
  <2>1. t = InsertAt(s1, dt, lt, V, mode)
    BY <1>2 DEF InsertDataCall
  <2>2. mode \in {"UPDATE", "ERROR"}
    BY DEF ModeOf
  <2>3. /\ Whole(s1) /\ Live(s1)
        /\ \/ s1.err # "ok" /\ Abs(s1) = Abs(s)
           \/ \E k \in Stations : Abs(s1) = A!Switch(Abs(s), k)
                                  /\ (s1.err = "ok" => s1.last.key = k)
    BY GetStationWhole
  <2> HIDE DEF s1, mode, t
  <2>4. CASE s1.err # "ok"
    <3>1. /\ Throw(s1, "usage") = s1 /\ Load(s1, dt) = s1 /\ WritePending(s1) = s1
          /\ AddAtLevTr(ObtainLevTrs(s1, {lt}), dt, AtLevTr(lt, V), mode) = s1
      BY <2>4, ThrownStays
    <3>2. t = s1
      BY <2>1, <3>1 DEF InsertAt
    <3>3. Whole(t) /\ Refused(t, Abs(s))
      BY <2>3, <2>4, <3>2 DEF Refused
    <3> QED
      BY <3>3 DEF DataStored, t
  <2>5. CASE s1.err = "ok"
    <3>1. PICK k \in Stations : Abs(s1) = A!Switch(Abs(s), k) /\ s1.last.key = k
      BY <2>3, <2>5
    <3>2. /\ Whole(t)
          /\ \/ Refused(t, Abs(s))
             \/ /\ dt \in Datetimes /\ lt \in LevTrs
                /\ StoredOrTaken(t, Abs(s), k, SlotsOf(k, dt, AtLevTr(lt, V)), mode)
      BY <2>1, <2>2, <2>3, <2>5, <3>1, InsertAtIs
    <3>3. DataStored(t, Abs(s), dt, lt, V, mode)
      BY <3>2 DEF DataStored
    <3> QED
      BY <3>2, <3>3 DEF t, mode
  <2> QED
    BY <2>4, <2>5
<1> QED
  BY <1>1, <1>2

----------------------------------------------------------------------------
(* Messages                                                                *)

IsArchive(a) ==
    a = [stations |-> a.stations, content |-> a.content,
         left |-> [key |-> a.left.key, values |-> a.left.values], keep |-> a.keep]

LEMMA AbsIsArchive ==
    ASSUME NEW s
    PROVE  IsArchive(Abs(s))
<1>1. \E S, C, k, W, b : Abs(s) = [stations |-> S, content |-> C,
                                   left |-> [key |-> k, values |-> W], keep |-> b]
  BY DEF Abs
<1> QED
  BY <1>1 DEF IsArchive

LEMMA QueueParts ==
    ASSUME NEW a, IsArchive(a), NEW X
    PROVE  A!Queue(a, X) = [stations |-> a.stations, content |-> a.content,
                            left |-> [key |-> a.left.key,
                                      values |-> A!Put(a.left.values, X)],
                            keep |-> a.keep]
<1> DEFINE put == A!Put(a.left.values, X)
<1>1. A!Queue(a, X) = [a EXCEPT !.left.values = put]
  BY DEF A!Queue
<1> HIDE DEF put
<1>2. [a EXCEPT !.left.values = put] =
        [stations |-> a.stations, content |-> a.content,
         left |-> [key |-> a.left.key, values |-> put], keep |-> a.keep]
  BY DEF IsArchive
<1> QED
  BY <1>1, <1>2 DEF put

LEMMA QueueNothing ==
    ASSUME NEW a, IsArchive(a)
    PROVE  A!Queue(a, {}) = a
<1>1. A!Put(a.left.values, {}) = a.left.values
  BY DEF A!Put
<1> QED
  BY <1>1, QueueParts DEF IsArchive

\* Values of different slots queued in turn are queued together.
LEMMA QueueTwice ==
    ASSUME NEW a, IsArchive(a), NEW X, NEW Y, \A x \in X, y \in Y : ~A!SameSlot(x, y)
    PROVE  A!Queue(A!Queue(a, X), Y) = A!Queue(a, X \cup Y)
<1> DEFINE C == a.left.values
           b == A!Queue(a, X)
<1>1. A!Put(A!Put(C, X), Y) = A!Put(C, X \cup Y)
  BY DEF A!Put
<1>2. b = [stations |-> a.stations, content |-> a.content,
           left |-> [key |-> a.left.key, values |-> A!Put(C, X)], keep |-> a.keep]
  BY QueueParts
<1> HIDE DEF b
<1>3. IsArchive(b) /\ b.stations = a.stations /\ b.content = a.content
      /\ b.left.key = a.left.key /\ b.left.values = A!Put(C, X) /\ b.keep = a.keep
  BY <1>2 DEF IsArchive
<1>4. A!Queue(b, Y) = [stations |-> a.stations, content |-> a.content,
                       left |-> [key |-> a.left.key,
                                 values |-> A!Put(A!Put(C, X), Y)], keep |-> a.keep]
  BY <1>3, QueueParts
<1>5. A!Queue(a, X \cup Y) = [stations |-> a.stations, content |-> a.content,
                              left |-> [key |-> a.left.key,
                                        values |-> A!Put(C, X \cup Y)], keep |-> a.keep]
  BY QueueParts
<1> QED
  BY <1>1, <1>4, <1>5 DEF b

\* What message m has for the archive.
InMessage(m) ==
    [key |-> m.key, svalues |-> StationSlots(m.key, m.svars),
     values |-> SlotsOf(m.key, m.dt, m.data),
     complete |-> m.dt # NoDatetime \/ m.data = {}]

LEMMA MessagesAre ==
    ArchiveImports = {InMessage(m) : m \in {x \in Messages : x.key # NoKey}}
BY DEF ArchiveImports, InMessage, StationSlots, SlotsOf

\* Those of X that an import queues.
Allowed(a, X, over) == IF over THEN X ELSE A!Free(a, X)

Wanted(a, m, update) == IF update \/ m.key \notin a.stations
                        THEN StationSlots(m.key, m.svars) ELSE {}

LEMMA NothingAllowed ==
    ASSUME NEW a, NEW over
    PROVE  Allowed(a, {}, over) = {}
BY DEF Allowed, A!Free

LEMMA TakesAllowed ==
    ASSUME NEW t, NEW a, NEW X, NEW o, Takes(t, a, X, ImportMode(o))
    PROVE  t.err = "ok" /\ Abs(t) = A!Queue(a, Allowed(a, X, o.overwrite))
BY DEF Takes, ImportMode, Allowed

LEMMA ImportModes ==
    ASSUME NEW o
    PROVE  ImportMode(o) \in UpdateModes
BY DEF ImportMode, UpdateModes

\* A station cached without an id is not in the archive, and only that one.
LEMMA NewIsUnknown ==
    ASSUME NEW s, Whole(s), s.last \in CachedStation
    PROVE  (s.last.isNew /\ s.last.id = MissingId) <=> s.last.key \notin KeysIn(s)
<1>1. CASE s.last.id = MissingId
  <2>1. s.last.isNew
    BY <1>1, WholeParts DEF QueuesKnown
  <2>2. s.last.key \notin KeysIn(s)
    BY <1>1 DEF Whole, Sound, KnowsStation, KeysIn
  <2> QED
    BY <1>1, <2>1, <2>2
<1>2. CASE s.last.id # MissingId
  <2> DEFINE row == [id |-> s.last.id, key |-> s.last.key]
  <2>1. row \in s.station
    BY <1>2 DEF Whole, Linked, Cached, HasRow
  <2>2. row.key = s.last.key
    OBVIOUS
  <2> HIDE DEF row
  <2> QED
    BY <1>2, <2>1, <2>2 DEF KeysIn
<1> QED
  BY <1>1, <1>2

LEMMA AddMsgStationIs ==
    ASSUME NEW s, Whole(s), Live(s), s.err = "ok", NEW m, MessageType(m),
           s.last.key = m.key, NEW o \in ImportOptions
    PROVE  LET t == AddMsgStation(s, m, o)
           IN  /\ Whole(t) /\ Live(t) /\ t.err = "ok" /\ t.last.key = m.key
               /\ Abs(t) = A!Queue(Abs(s), Allowed(Abs(s), Wanted(Abs(s), m, o.updateStation),
                                                   o.overwrite))
<1> DEFINE t == AddMsgStation(s, m, o)
           a == Abs(s)
           asked == o.updateStation \/ (s.last.isNew /\ s.last.id = MissingId)
<1>1. a.stations = KeysIn(s)
  BY DEF Abs
<1>2. asked <=> o.updateStation \/ m.key \notin a.stations
  BY <1>1, NewIsUnknown DEF Live
<1>3. CASE m.svars # {} /\ asked
  <2>1. t = AddStationVars(s, m.svars, ImportMode(o))
    BY <1>3 DEF AddMsgStation
  <2>2. CodesOnce(m.svars) /\ m.svars \in SUBSET Var /\ IsFiniteSet(m.svars)
    BY DEF MessageType, CodesOnce
  <2>3. /\ Whole(t) /\ Live(t) /\ t.last.key = m.key
        /\ Takes(t, a, StationSlots(m.key, m.svars), ImportMode(o))
    BY <2>1, <2>2, ImportModes, AddStationVarsIs
  <2>4. Wanted(a, m, o.updateStation) = StationSlots(m.key, m.svars)
    BY <1>2, <1>3 DEF Wanted
  <2> HIDE DEF t, a
  <2> QED
    BY <2>3, <2>4, TakesAllowed DEF t, a
<1>4. CASE ~(m.svars # {} /\ asked)
  <2>1. t = s
    BY <1>4 DEF AddMsgStation
  <2>2. Wanted(a, m, o.updateStation) = {}
    <3>1. m.svars = {} => StationSlots(m.key, m.svars) = {}
      BY DEF StationSlots, SlotsOf, AtLevTr
    <3> QED
      BY <1>2, <1>4, <3>1 DEF Wanted
  <2> QED
    BY <2>1, <2>2, NothingAllowed, QueueNothing, AbsIsArchive
<1> QED
  BY <1>3, <1>4

LEMMA AddMsgDataIs ==
    ASSUME NEW s, Whole(s), Live(s), s.err = "ok", NEW m, MessageType(m),
           s.last.key = m.key, NEW o \in ImportOptions
    PROVE  LET t == AddMsgData(s, m, o)
               X == SlotsOf(m.key, m.dt, m.data)
           IN  /\ Whole(t) /\ Live(t)
               /\ IF m.dt # NoDatetime \/ m.data = {}
                  THEN /\ t.err = "ok"
                       /\ Abs(t) = A!Queue(Abs(s), Allowed(Abs(s), X, o.overwrite))
                  ELSE t.err # "ok" /\ Abs(t) = Abs(s)
<1> DEFINE t == AddMsgData(s, m, o)
           X == SlotsOf(m.key, m.dt, m.data)
<1>1. CASE m.data = {}
  <2>1. t = s
    BY <1>1 DEF AddMsgData
  <2>2. X = {}
    BY <1>1 DEF SlotsOf
  <2> QED
    BY <1>1, <2>1, <2>2, NothingAllowed, QueueNothing, AbsIsArchive
<1>2. CASE m.data # {} /\ m.dt = NoDatetime
  <2>1. t = Throw(s, "notfound")
    BY <1>2 DEF AddMsgData
  <2>2. Whole(t) /\ Abs(t) = Abs(s) /\ t.err # "ok"
    BY <2>1, ThrowWhole DEF Outcomes
  <2>3. Live(t)
    BY <2>2 DEF Live, Whole, Sound
  <2> QED
    BY <1>2, <2>2, <2>3
<1>3. CASE m.data # {} /\ m.dt # NoDatetime
  <2> DEFINE L == {d.lt : d \in m.data}
             D == m.data
  <2>1. t = AddAtLevTr(ObtainLevTrs(Load(s, m.dt), L), m.dt, D, ImportMode(o))
    BY <1>3 DEF AddMsgData
  <2>2. D \subseteq [lt : LevTrs, code : Codes, val : Vals, attr : BOOLEAN] /\ IsFiniteSet(D)
    BY DEF MessageType
  <2>3. L \in SUBSET LevTrs /\ IsFiniteSet(L) /\ \A v \in D : v.lt \in L
    <3> DEFINE f == [d \in D |-> d.lt]
    <3>1. DOMAIN f = D /\ L = {f[d] : d \in D}
      OBVIOUS
    <3>2. L \in SUBSET LevTrs /\ \A v \in D : v.lt \in L
      BY <2>2
    <3> HIDE DEF f, D, L
    <3>3. IsFiniteSet({f[d] : d \in D})
      BY <2>2, <3>1, ImageFinite
    <3> QED
      BY <3>1, <3>2, <3>3
  <2>4. Distinct(D) /\ m.dt \in Datetimes
    BY <1>3 DEF MessageType, Distinct
  <2> HIDE DEF L, D
  <2>5. /\ Whole(t) /\ Live(t)
        /\ Takes(t, Abs(s), SlotsOf(m.key, m.dt, D), ImportMode(o))
    BY <2>1, <2>2, <2>3, <2>4, ImportModes, ObtainAndAddIs
  <2> HIDE DEF t
  <2>6. t.err = "ok" /\ Abs(t) = A!Queue(Abs(s), Allowed(Abs(s), SlotsOf(m.key, m.dt, D), o.overwrite))
    BY <2>5, TakesAllowed
  <2> QED
    BY <1>3, <2>5, <2>6 DEF t, D
<1> QED
  BY <1>1, <1>2, <1>3

\* The values of a message are queued in two parts.
LEMMA QueueMessageIs ==
    ASSUME NEW a, NEW m, IsArchive(A!Switch(a, m.key)), NEW over, NEW update,
           NEW n, n.key = m.key, n.svalues = StationSlots(m.key, m.svars),
           \A x \in n.values : x.ctx # StationCtx
    PROVE  LET b == A!Switch(a, m.key)
               c == A!Queue(b, Allowed(b, Wanted(b, m, update), over))
           IN  A!QueueMessage(a, n, over, update)
                 = A!Queue(c, Allowed(c, n.values, over))
<1> DEFINE b == A!Switch(a, m.key)
           W == Wanted(b, m, update)
           c == A!Queue(b, Allowed(b, W, over))
           X == n.values \cup W
<1>1. A!QueueMessage(a, n, over, update) = A!Queue(b, IF over THEN X ELSE A!Free(b, X))
  BY DEF A!QueueMessage, Wanted
<1>2. c.content = b.content
  <2>1. PICK Y : c = A!Queue(b, Y)
    OBVIOUS
  <2> HIDE DEF b, c
  <2> QED
    BY <2>1, QueueParts DEF b
<1>3. Allowed(c, n.values, over) = Allowed(b, n.values, over)
  BY <1>2 DEF Allowed, A!Free
<1>4. (IF over THEN X ELSE A!Free(b, X)) = Allowed(b, W, over) \cup Allowed(b, n.values, over)
  BY DEF Allowed, A!Free
<1>5. \A x \in W : x.ctx = StationCtx
  BY DEF Wanted, StationSlots, SlotsOf, InSlot
<1>6. \A x \in Allowed(b, W, over), y \in Allowed(b, n.values, over) : ~A!SameSlot(x, y)
  BY <1>5 DEF Allowed, A!Free, A!SameSlot
<1> DEFINE P == Allowed(b, W, over)
           Q == Allowed(b, n.values, over)
<1> HIDE DEF b, W, X, P, Q
<1>7. A!Queue(A!Queue(b, P), Q) = A!Queue(b, P \cup Q)
  BY <1>6, QueueTwice DEF P, Q, b
<1> QED
  BY <1>1, <1>3, <1>4, <1>7 DEF P, Q, b, W

\* A message that has no data, or a datetime, is imported whole; of another one,
\* only what it has for the station is queued.
LEMMA AddMsgToBatchIs ==
    ASSUME NEW s, Whole(s), s.err = "ok", NEW m, MessageType(m), NEW o \in ImportOptions
    PROVE  LET t == AddMsgToBatch(s, m, o)
               n == InMessage(m)
           IN  /\ Whole(t)
               /\ \/ t.err # "ok" /\ Abs(t) = Abs(s)
                  \/ /\ t.err = "ok" /\ m.key # NoKey /\ n.complete
                     /\ Abs(t) = A!QueueMessage(Abs(s), n, o.overwrite, o.updateStation)
                  \/ /\ t.err # "ok" /\ m.key # NoKey
                     /\ Abs(t) = A!QueueMessage(Abs(s), [n EXCEPT !.values = {}],
                                                o.overwrite, o.updateStation)
<1> DEFINE t == AddMsgToBatch(s, m, o)
           n == InMessage(m)
<1>1. CASE m.key = NoKey
  <2>1. t = Throw(s, "notfound")
    BY <1>1 DEF AddMsgToBatch
  <2> QED
    BY <2>1, ThrowWhole DEF Outcomes
<1>2. CASE m.key # NoKey
  <2> DEFINE s1 == GetStation(s, m.key, MissingId, TRUE)
             s2 == AddMsgStation(s1, m, o)
             b == A!Switch(Abs(s), m.key)
             c == A!Queue(b, Allowed(b, Wanted(b, m, o.updateStation), o.overwrite))
             X == SlotsOf(m.key, m.dt, m.data)
  <2>1. t = AddMsgData(s2, m, o)
    BY <1>2 DEF AddMsgToBatch
  <2>2. m.key \in Stations
    BY <1>2 DEF MessageType
  <2>3. /\ Whole(s1) /\ Live(s1) /\ s1.err = "ok"
        /\ Abs(s1) = b /\ s1.last.key = m.key
    <3>1. MissingId \in RowIds \cup {MissingId} /\ TRUE \in BOOLEAN
      OBVIOUS
    <3>2. /\ Whole(s1) /\ Live(s1) /\ s1.err = "ok"
          /\ \/ s1.err # "ok" /\ Abs(s1) = Abs(s)
             \/ \E k \in Stations : /\ Abs(s1) = A!Switch(Abs(s), k)
                                    /\ s1.err = "ok" => s1.last.key = k
                                    /\ m.key \in Stations => k = m.key
      BY <2>2, <3>1, GetStationWhole
    <3> HIDE DEF s1
    <3> QED
      BY <2>2, <3>2
  <2> HIDE DEF s1
  <2>4. /\ Whole(s2) /\ Live(s2) /\ s2.err = "ok" /\ s2.last.key = m.key
        /\ Abs(s2) = c
    BY <2>3, AddMsgStationIs
  <2>5. IsArchive(b)
    BY <2>3, AbsIsArchive
  <2> HIDE DEF s2, b, c
  <2>6. /\ Whole(t)
        /\ IF m.dt # NoDatetime \/ m.data = {}
           THEN t.err = "ok" /\ Abs(t) = A!Queue(c, Allowed(c, X, o.overwrite))
           ELSE t.err # "ok" /\ Abs(t) = c
    BY <2>1, <2>4, AddMsgDataIs
  <2> HIDE DEF t
  <2>7. /\ n.key = m.key /\ n.svalues = StationSlots(m.key, m.svars) /\ n.values = X
        /\ n.complete <=> (m.dt # NoDatetime \/ m.data = {})
    BY DEF InMessage
  <2>8. CASE m.dt # NoDatetime \/ m.data = {}
    <3>1. \A x \in n.values : x.ctx # StationCtx
      BY <2>7, <2>8, SentinelAssumption DEF MessageType, SlotsOf, InSlot
    <3>2. A!QueueMessage(Abs(s), n, o.overwrite, o.updateStation)
            = A!Queue(c, Allowed(c, n.values, o.overwrite))
      BY <2>5, <2>7, <3>1, QueueMessageIs DEF b, c
    <3> QED
      BY <1>2, <2>6, <2>7, <2>8, <3>2 DEF t
  <2>9. CASE ~(m.dt # NoDatetime \/ m.data = {})
    <3> DEFINE p == [n EXCEPT !.values = {}]
    <3>1. p.key = m.key /\ p.svalues = StationSlots(m.key, m.svars) /\ p.values = {}
      BY DEF InMessage
    <3> HIDE DEF p
    <3>2. A!QueueMessage(Abs(s), p, o.overwrite, o.updateStation)
            = A!Queue(c, Allowed(c, p.values, o.overwrite))
      BY <2>5, <3>1, QueueMessageIs DEF b, c
    <3>3. A!Queue(c, Allowed(c, p.values, o.overwrite)) = c
      BY <2>4, <3>1, NothingAllowed, QueueNothing, AbsIsArchive
    <3> QED
      BY <1>2, <2>6, <2>9, <3>2, <3>3 DEF t, p
  <2> QED
    BY <2>8, <2>9
<1> QED
  BY <1>1, <1>2

LEMMA Forgotten ==
    ASSUME NEW a, IsArchive(a), NEW k, NEW n
    PROVE  [a EXCEPT !.keep = k, !.left = n] =
             [stations |-> a.stations, content |-> a.content, left |-> n, keep |-> k]
<1> DEFINE b == [a EXCEPT !.keep = k]
<1>1. [a EXCEPT !.keep = k, !.left = n] = [b EXCEPT !.left = n]
  OBVIOUS
<1>2. b = [stations |-> a.stations, content |-> a.content, left |-> a.left, keep |-> k]
  BY DEF IsArchive
<1> HIDE DEF b
<1> QED
  BY <1>1, <1>2

\* Changing write_attrs forgets what is queued.
LEMMA SetWriteAttrsIs ==
    ASSUME NEW s, Whole(s), NEW b \in BOOLEAN
    PROVE  LET t == SetWriteAttrs(s, b)
           IN  Whole(t) /\ t.err = s.err /\ Abs(t) = A!Keeping(Abs(s), b)
<1> DEFINE t == SetWriteAttrs(s, b)
<1>1. Sound(t) /\ Leveled(t) /\ Linked(t)
  BY SetWriteAttrsSound, SetWriteAttrsLeveled, SetWriteAttrsLinked DEF Whole
<1>2. Keyed(t)
  <2>1. Tame(s, t, "UPDATE")
    BY SetWriteAttrsTame DEF Whole
  <2> QED
    BY <2>1 DEF Tame, Whole
<1>3. /\ t.station = s.station /\ t.levtr = s.levtr /\ t.rows = s.rows
      /\ t.err = s.err /\ t.attrs = b
      /\ t.last = IF s.attrs = b THEN s.last ELSE NoStation
  BY DEF SetWriteAttrs, Whole, Sound, Good, Typed
<1> HIDE DEF t
<1>4. Slotted(t)
  BY <1>3, NoStationAssumption DEF Whole, Slotted, SlottedTables
<1>5. Abs(t) = A!Keeping(Abs(s), b)
  <2>1. Abs(s).keep = s.attrs
    BY DEF Abs
  <2>2. CASE s.attrs = b
    <3>1. Abs(t) = Abs(s)
      BY <1>3, <2>2, AbsSame
    <3> QED
      BY <2>1, <2>2, <3>1 DEF A!Keeping
  <2>3. CASE s.attrs # b
    <3> DEFINE none == [key |-> NoStation, values |-> {}]
    <3>1. \A k, x : Value(t, k, x) = Value(s, k, x)
      BY <1>3 DEF Value, LtOf
    <3>2. \A id : KeyOf(t, id) = KeyOf(s, id)
      BY <1>3 DEF KeyOf
    <3>3. ValuesIn(t) = {Value(t, KeyOf(t, r.st), r) : r \in t.rows}
      BY ValuesAre
    <3>4. ValuesIn(s) = {Value(s, KeyOf(s, r.st), r) : r \in s.rows}
      BY ValuesAre
    <3>5. KeysIn(t) = KeysIn(s) /\ ValuesIn(t) = ValuesIn(s)
      BY <1>3, <3>1, <3>2, <3>3, <3>4 DEF KeysIn
    <3>6. Abs(t) = [stations |-> KeysIn(s), content |-> ValuesIn(s), left |-> none,
                    keep |-> b]
      BY <1>3, <2>3, <3>5 DEF Abs
    <3>7. PICK x : Abs(s) = [stations |-> KeysIn(s), content |-> ValuesIn(s), left |-> x,
                             keep |-> s.attrs]
      BY DEF Abs
    <3>8. A!Keeping(Abs(s), b) = [Abs(s) EXCEPT !.keep = b, !.left = none]
      BY <2>1, <2>3 DEF A!Keeping, A!Nothing
    <3>9. A!Keeping(Abs(s), b) = [stations |-> KeysIn(s), content |-> ValuesIn(s),
                                  left |-> none, keep |-> b]
      <4> HIDE DEF none
      <4>1. Abs(s).stations = KeysIn(s) /\ Abs(s).content = ValuesIn(s)
        BY <3>7
      <4>2. [Abs(s) EXCEPT !.keep = b, !.left = none] =
              [stations |-> Abs(s).stations, content |-> Abs(s).content,
               left |-> none, keep |-> b]
        BY AbsIsArchive, Forgotten
      <4> QED
        BY <3>8, <4>1, <4>2
    <3> QED
      BY <3>6, <3>9, Zenon
  <2> QED
    BY <2>2, <2>3
<1> QED
  BY <1>1, <1>2, <1>3, <1>4, <1>5 DEF t, Whole

\* A message that is not imported whole.
Part(m) == [InMessage(m) EXCEPT !.values = {}]

Imported(a, m, o) == A!QueueMessage(a, InMessage(m), o.overwrite, o.updateStation)
ImportedPart(a, m, o) == A!QueueMessage(a, Part(m), o.overwrite, o.updateStation)

IsWhole(m) == m.key # NoKey /\ InMessage(m).complete

\* What an import that throws has queued.
LeftBy(b, a, m, o) == b = a \/ (m.key # NoKey /\ b = ImportedPart(a, m, o))

LEMMA AddMsgIs ==
    ASSUME NEW s, Whole(s), s.err = "ok", NEW m, MessageType(m), NEW o \in ImportOptions
    PROVE  LET t == AddMsgToBatch(s, m, o)
           IN  /\ Whole(t)
               /\ \/ t.err = "ok" /\ IsWhole(m) /\ Abs(t) = Imported(Abs(s), m, o)
                  \/ t.err # "ok" /\ LeftBy(Abs(t), Abs(s), m, o)
BY AddMsgToBatchIs DEF IsWhole, Imported, LeftBy, ImportedPart, Part

LEMMA ImportMessageIs ==
    ASSUME NEW s, Whole(s), s.err = "ok", NEW m, MessageType(m), NEW o \in ImportOptions
    PROVE  LET t == ImportMessageCall(s, m, o)
               a == A!Keeping(Abs(s), o.importAttributes)
           IN  /\ Whole(t)
               /\ \/ t.err = "ok" /\ IsWhole(m) /\ Abs(t) = A!Flush(Imported(a, m, o))
                  \/ t.err # "ok" /\ LeftBy(Abs(t), a, m, o)
<1> DEFINE s1 == SetWriteAttrs(s, o.importAttributes)
           s2 == AddMsgToBatch(s1, m, o)
           a == A!Keeping(Abs(s), o.importAttributes)
<1>1. ImportMessageCall(s, m, o) = WritePending(s2)
  BY DEF ImportMessageCall
<1>2. Whole(s1) /\ s1.err = "ok" /\ Abs(s1) = a
  BY SetWriteAttrsIs DEF ImportOptions
<1> HIDE DEF s1, a
<1>3. /\ Whole(s2)
      /\ \/ s2.err = "ok" /\ IsWhole(m) /\ Abs(s2) = Imported(a, m, o)
         \/ s2.err # "ok" /\ LeftBy(Abs(s2), a, m, o)
  BY <1>2, AddMsgIs
<1> HIDE DEF s2
<1>4. Whole(WritePending(s2)) /\ WritePending(s2).err = s2.err
  BY <1>3, WritePendingWhole
<1>5. CASE s2.err = "ok"
  BY <1>1, <1>3, <1>4, <1>5, FlushIs DEF a
<1>6. CASE s2.err # "ok"
  <2>1. WritePending(s2) = s2
    BY <1>6 DEF WritePending
  <2> QED
    BY <1>1, <1>3, <1>6, <2>1 DEF a
<1> QED
  BY <1>5, <1>6

LEMMA ImportMessagesIs ==
    ASSUME NEW s, Whole(s), s.err = "ok", NEW m, MessageType(m), NEW n, MessageType(n),
           NEW o \in ImportOptions
    PROVE  LET t == ImportMessagesCall(s, m, n, o)
               a == A!Keeping(Abs(s), o.importAttributes)
               b == Imported(a, m, o)
           IN  /\ Whole(t)
               /\ \/ /\ t.err = "ok" /\ IsWhole(m) /\ IsWhole(n)
                     /\ Abs(t) = A!Flush(Imported(b, n, o))
                  \/ t.err # "ok" /\ LeftBy(Abs(t), a, m, o)
                  \/ t.err # "ok" /\ IsWhole(m) /\ LeftBy(Abs(t), b, n, o)
<1> DEFINE s1 == SetWriteAttrs(s, o.importAttributes)
           s2 == AddMsgToBatch(s1, m, o)
           s3 == AddMsgToBatch(s2, n, o)
           a == A!Keeping(Abs(s), o.importAttributes)
           b == Imported(a, m, o)
<1>1. ImportMessagesCall(s, m, n, o) = WritePending(s3)
  BY DEF ImportMessagesCall
<1>2. Whole(s1) /\ s1.err = "ok" /\ Abs(s1) = a
  BY SetWriteAttrsIs DEF ImportOptions
<1> HIDE DEF s1
<1>3. /\ Whole(s2)
      /\ \/ s2.err = "ok" /\ IsWhole(m) /\ Abs(s2) = b
         \/ s2.err # "ok" /\ LeftBy(Abs(s2), a, m, o)
  BY <1>2, AddMsgIs
<1> HIDE DEF s2
<1>4. CASE s2.err = "ok"
  <2>1. /\ Whole(s3)
        /\ \/ s3.err = "ok" /\ IsWhole(n) /\ Abs(s3) = Imported(b, n, o)
           \/ s3.err # "ok" /\ LeftBy(Abs(s3), b, n, o)
    BY <1>3, <1>4, AddMsgIs
  <2> HIDE DEF s3, a, b
  <2>2. Whole(WritePending(s3)) /\ WritePending(s3).err = s3.err
    BY <2>1, WritePendingWhole
  <2>3. CASE s3.err = "ok"
    BY <1>1, <1>3, <1>4, <2>1, <2>2, <2>3, FlushIs DEF a, b
  <2>4. CASE s3.err # "ok"
    <3>1. WritePending(s3) = s3
      BY <2>4 DEF WritePending
    <3> QED
      BY <1>1, <1>3, <1>4, <2>1, <2>4, <3>1 DEF a, b
  <2> QED
    BY <2>3, <2>4
<1>5. CASE s2.err # "ok"
  <2>1. s3 = s2
    <3>1. \A kind : Throw(s2, kind) = s2
      BY <1>5, ThrownStays
    <3>2. GetStation(s2, n.key, MissingId, TRUE) = s2 /\ AddMsgStation(s2, n, o) = s2
      BY <1>5 DEF GetStation, AddMsgStation
    <3>3. \A L, mode :
             AddAtLevTr(ObtainLevTrs(Load(s2, n.dt), L), n.dt, n.data, mode) = s2
      BY <1>5, ThrownStays
    <3> QED
      BY <3>1, <3>2, <3>3 DEF AddMsgToBatch, AddMsgData
  <2>2. WritePending(s2) = s2
    BY <1>5 DEF WritePending
  <2> QED
    BY <1>1, <1>3, <1>5, <2>1, <2>2
<1> QED
  BY <1>4, <1>5

----------------------------------------------------------------------------
(* The steps                                                               *)

\* The state of the archive, before a step and after it.
LEMMA NowIs == A!Now = Abs(Here)
<1>1. KeysIn(Tables) = KeysIn(Here) /\ ValuesIn(Tables) = ValuesIn(Here)
  BY DEF KeysIn, ValuesIn, KeyOf, LtOf, Tables, Here
<1>2. \A x : LtOf(Tables, x) = LtOf(Here, x)
  BY DEF LtOf, Tables, Here
<1>3. Queued = {Value(Here, last.key, q) : q \in last.queue}
  BY <1>2 DEF Queued, Value
<1> QED
  BY <1>1, <1>3 DEF A!Now, Abs, Here

LEMMA NextIs ==
    ASSUME NEW t, t.station = station', t.levtr = levtr', t.rows = rows',
           t.last = last', t.attrs = wattrs'
    PROVE  A!Now' = Abs(t)
<1>1. KeysIn(Tables)' = KeysIn(t)
  BY DEF KeysIn, Tables
<1>2. ValuesIn(Tables)' = ValuesIn(t)
  BY DEF ValuesIn, KeyOf, LtOf, Tables
<1>3. Queued' = {Value(t, last'.key, q) : q \in last'.queue}
  BY DEF Queued, Value, LtOf, Tables
<1> QED
  BY <1>1, <1>2, <1>3 DEF A!Now, Abs

LEMMA BecomesIs ==
    ASSUME NEW a, IsArchive(a), ~fired, fired' = fired, saved' = saved
    PROVE  A!Becomes(a) <=> A!Now' = a
<1>1. A!Now' = a <=> /\ KeysIn(Tables)' = a.stations /\ ValuesIn(Tables)' = a.content
                     /\ (IF last = NoStation THEN [key |-> NoStation, values |-> {}]
                         ELSE [key |-> last.key, values |-> Queued])' = a.left
                     /\ wattrs' = a.keep
  BY DEF A!Now, IsArchive
<1>2. [stations |-> KeysIn(saved), content |-> ValuesIn(saved)]'
        = [stations |-> KeysIn(saved), content |-> ValuesIn(saved)]
  BY DEF KeysIn, ValuesIn, KeyOf, LtOf
<1> QED
  BY <1>1, <1>2 DEF A!Becomes

\* What is left by a call that throws may lose its values.
LEMMA AbandonIs ==
    ASSUME NEW s, Whole(s), s.last \in CachedStation, NEW t,
           t.station = s.station, t.levtr = s.levtr, t.rows = s.rows, t.attrs = s.attrs,
           t.last = Abandon(s.last)
    PROVE  /\ QueuesKnown(t.last)
           /\ Abs(t) = [Abs(s) EXCEPT !.left.values = {[x EXCEPT !.val = Garbage] : x \in @}]
<1> DEFINE L == s.last
           f(q) == [q EXCEPT !.val = Garbage]
           Q == {f(q) : q \in L.queue}
           k == s.last.key
<1>1. L # NoStation
  BY NoStationAssumption
<1>2. t.last = [L EXCEPT !.queue = Q]
  BY <1>1 DEF Abandon
<1>3. \A q \in L.queue : /\ f(q).id = q.id /\ SameKey(f(q), q) /\ f(q).attr = q.attr
                         /\ f(q).val = Garbage
  BY DEF CachedStation, Datum, SameKey
<1>4. \A p \in Q : \E q \in L.queue : p = f(q)
  OBVIOUS
<1>5. \A q \in L.queue : f(q) \in Q
  OBVIOUS
<1> HIDE DEF f, Q
<1>6. /\ t.last.queue = Q /\ t.last.key = k /\ t.last.id = L.id
      /\ t.last.ids = L.ids /\ t.last.isNew = L.isNew
  BY <1>2 DEF CachedStation
<1>7. QueuesKnown(L)
  BY WholeParts
<1>8. QueuesKnown(t.last)
  <2>1. NoLevel(Q)
    BY <1>3, <1>4, <1>7 DEF QueuesKnown, NoLevel, SameKey
  <2>2. ASSUME NEW p \in Q, p.id # MissingId
        PROVE  \E i \in L.ids : i.id = p.id /\ SameKey(i, p)
    <3>1. PICK q \in L.queue : p = f(q)
      BY <1>4
    <3>2. p.id = q.id /\ SameKey(p, q)
      BY <1>3, <3>1
    <3>3. PICK i \in L.ids : i.id = q.id /\ SameKey(i, q)
      BY <1>7, <2>2, <3>2 DEF QueuesKnown, Updates
    <3> QED
      BY <3>2, <3>3 DEF SameKey
  <2> QED
    BY <1>6, <1>7, <2>1, <2>2 DEF QueuesKnown, Updates
<1>9. Abs(t) = [Abs(s) EXCEPT !.left.values = {[x EXCEPT !.val = Garbage] : x \in @}]
  <2> DEFINE lost == {[x EXCEPT !.val = Garbage] : x \in InQueue(s)}
  <2>1. \A q \in L.queue : Value(t, k, f(q)) = [Value(s, k, q) EXCEPT !.val = Garbage]
    <3> SUFFICES ASSUME NEW q \in L.queue
                 PROVE  Value(t, k, f(q)) = [Value(s, k, q) EXCEPT !.val = Garbage]
      OBVIOUS
    <3>1. LtOf(t, q.lt) = LtOf(s, q.lt)
      BY DEF LtOf
    <3>2. [Value(s, k, q) EXCEPT !.val = Garbage] =
            [key |-> k, ctx |-> q.ctx, lt |-> LtOf(s, q.lt), code |-> q.code,
             val |-> Garbage, attr |-> q.attr]
      BY DEF Value
    <3>3. f(q).ctx = q.ctx /\ f(q).lt = q.lt /\ f(q).code = q.code
          /\ f(q).val = Garbage /\ f(q).attr = q.attr
      BY <1>3 DEF SameKey
    <3> QED
      BY <3>1, <3>2, <3>3 DEF Value
  <2>2. InQueue(s) = {Value(s, k, q) : q \in L.queue}
    BY DEF InQueue
  <2>3. {Value(t, t.last.key, p) : p \in t.last.queue} = lost
    <3>1. ASSUME NEW p \in Q
          PROVE  Value(t, k, p) \in lost
      BY <1>4, <2>1, <2>2
    <3>2. ASSUME NEW x \in InQueue(s)
          PROVE  \E p \in Q : [x EXCEPT !.val = Garbage] = Value(t, k, p)
      BY <1>5, <2>1, <2>2
    <3>3. \A y \in lost : \E x \in InQueue(s) : y = [x EXCEPT !.val = Garbage]
      OBVIOUS
    <3> HIDE DEF lost
    <3>4. \A y \in lost : \E p \in Q : y = Value(t, k, p)
      BY <3>2, <3>3
    <3>5. {Value(t, k, p) : p \in Q} = lost
      BY <3>1, <3>4
    <3> QED
      BY <1>6, <3>5
  <2>4. ValuesIn(t) = ValuesIn(s) /\ KeysIn(t) = KeysIn(s)
    BY DEF ValuesIn, KeysIn, KeyOf, LtOf
  <2>5. t.last # NoStation
    BY AbandonType, NoStationAssumption DEF Whole, Sound, Good, Finite
  <2>6. Abs(t) = [stations |-> KeysIn(s), content |-> ValuesIn(s),
                  left |-> [key |-> k, values |-> lost], keep |-> s.attrs]
    BY <1>6, <2>3, <2>4, <2>5 DEF Abs
  <2>7. Abs(s) = [stations |-> KeysIn(s), content |-> ValuesIn(s),
                  left |-> [key |-> k, values |-> InQueue(s)], keep |-> s.attrs]
    BY <1>1 DEF Abs, InQueue
  <2> DEFINE a == Abs(s)
             W == {[x EXCEPT !.val = Garbage] : x \in a.left.values}
  <2>8. W = lost
    BY <2>7
  <2>9. [a EXCEPT !.left.values = {[x EXCEPT !.val = Garbage] : x \in @}]
          = [a EXCEPT !.left.values = W]
    OBVIOUS
  <2> HIDE DEF lost, W, a
  <2>10. [a EXCEPT !.left.values = W] =
           [stations |-> KeysIn(s), content |-> ValuesIn(s),
            left |-> [key |-> k, values |-> lost], keep |-> s.attrs]
    BY <2>7, <2>8 DEF a
  <2> QED
    BY <2>6, <2>9, <2>10 DEF a
<1> QED
  BY <1>8, <1>9

\* A call that computes s is the step of the archive to what s stands for.
LEMMA CallActs ==
    ASSUME NEW s, Whole(s), Call(s)
    PROVE  /\ s.err = "ok" => A!Becomes(Abs(s))
           /\ s.err # "ok" => A!LeaveBehind(Abs(s))
           /\ Slotted(Here)'
<1> DEFINE t == [station |-> s.station, levtr |-> s.levtr, rows |-> s.rows,
                 last |-> last', cache |-> s.cache, attrs |-> s.attrs, err |-> "ok"]
<1>1. /\ station' = s.station /\ levtr' = s.levtr /\ rows' = s.rows
      /\ cache' = s.cache /\ wattrs' = s.attrs
      /\ last' = s.last \/ (s.err # "ok" /\ last' = Abandon(s.last))
      /\ ~fired /\ fired' = fired /\ saved' = saved
  BY DEF Call, Return
<1>2. Here' = t
  BY <1>1 DEF Here
<1>3. /\ t.station = s.station /\ t.levtr = s.levtr /\ t.rows = s.rows
      /\ t.attrs = s.attrs /\ t.last = last'
  OBVIOUS
<1> HIDE DEF t
<1>4. A!Now' = Abs(t)
  BY <1>1, <1>3, NextIs
<1>5. IsArchive(Abs(t))
  BY AbsIsArchive
<1>6. SlottedTables(t)
  BY <1>3 DEF Whole, Slotted, SlottedTables
<1>7. CASE last' = s.last
  <2>1. Abs(t) = Abs(s)
    BY <1>3, <1>7, AbsSame
  <2>2. A!Becomes(Abs(s))
    BY <1>1, <1>4, <1>5, <2>1, BecomesIs
  <2>3. Slotted(t)
    BY <1>3, <1>6, <1>7 DEF Whole, Slotted
  <2> QED
    BY <1>2, <2>2, <2>3 DEF A!LeaveBehind, Slotted, SlottedTables, QueuesKnown, UniqueIds,
                            OneSlot, NoLevel, Updates
<1>8. CASE last' # s.last
  <2>1. s.err # "ok" /\ t.last = Abandon(s.last)
    BY <1>1, <1>3, <1>8
  <2>2. s.last \in CachedStation
    BY <1>1, <1>8, WholeParts DEF Abandon
  <2>3. /\ QueuesKnown(t.last)
        /\ Abs(t) = [Abs(s) EXCEPT !.left.values = {[x EXCEPT !.val = Garbage] : x \in @}]
    BY <1>3, <2>1, <2>2, AbandonIs
  <2>4. A!Becomes([Abs(s) EXCEPT !.left.values = {[x EXCEPT !.val = Garbage] : x \in @}])
    BY <1>1, <1>4, <1>5, <2>3, BecomesIs
  <2>5. Slotted(t)
    BY <1>6, <2>3 DEF Slotted
  <2> QED
    BY <1>2, <2>1, <2>4, <2>5 DEF A!LeaveBehind, Slotted, SlottedTables, QueuesKnown,
                                  UniqueIds, OneSlot, NoLevel, Updates
<1> QED
  BY <1>7, <1>8

\* The inductive invariant behind the refinement: no slot is filled twice, in the
\* tables and in those that a rollback brings back, and what is queued as an update
\* is an update of the row of its slot.
ArchiveInv == KeyedInv /\ Slotted(Here) /\ SlottedTables(saved)

LEMMA HereWhole ==
    ASSUME KeyedInv, Slotted(Here)
    PROVE  Whole(Here) /\ Here.err = "ok"
<1>1. Inv /\ LevelInv /\ CacheLinked /\ KeysInv
  BY DEF KeyedInv, CacheInv, LevelInv
<1>2. Sound(Here) /\ Linked(Here)
  BY <1>1, HereLinked DEF Inv
<1>3. Leveled(Here) /\ Keyed(Here)
  BY <1>1 DEF LevelInv, LevTrCacheMirrorsDb, Leveled, Keyed, KeysInv, UniqueLevels, Here
<1> QED
  BY <1>2, <1>3 DEF Whole, Here

LEMMA RefusedActs ==
    ASSUME NEW s, Refused(s, A!Now), s.err # "ok" => A!LeaveBehind(Abs(s))
    PROVE  A!Next
<1>1. A!LeaveBehind(Abs(s)) /\ (Abs(s) = A!Now \/ \E k \in Stations : Abs(s) = A!Switch(A!Now, k))
  BY DEF Refused
<1>2. A!RefuseStation
  BY <1>1 DEF A!RefuseStation
<1> QED
  BY <1>2 DEF A!Next

LEMMA StoredActs ==
    ASSUME NEW s, NEW c \in ArchiveInserts, NEW mode,
           StoredOrTaken(s, A!Now, c.key, c.values, mode),
           s.err = "ok" => A!Becomes(Abs(s)), s.err # "ok" => A!LeaveBehind(Abs(s))
    PROVE  A!Next
<1>1. A!Replace(c) \/ A!AddNew(c) \/ A!Refuse(c)
  <2> DEFINE b == A!Switch(A!Now, c.key)
  <2>1. CASE s.err = "ok"
    <3>1. A!Becomes(A!Flush(A!Queue(b, c.values)))
      BY <2>1 DEF StoredOrTaken
    <3> QED
      BY <3>1 DEF A!Replace
  <2>2. CASE s.err # "ok"
    <3>1. PICK Y \in SUBSET A!Free(b, c.values) : Abs(s) = A!Queue(b, Y)
      BY <2>2 DEF StoredOrTaken
    <3>2. A!LeaveBehind(A!Queue(b, Y)) /\ A!Free(b, c.values) # c.values
      BY <2>2, <3>1 DEF StoredOrTaken
    <3> QED
      BY <3>2 DEF A!Refuse
  <2> QED
    BY <2>1, <2>2
<1> QED
  BY <1>1 DEF A!Next

LEMMA InsertsAre ==
    ASSUME NEW k \in Stations
    PROVE  /\ \A V \in StationVarSets :
                [key |-> k, values |-> StationSlots(k, V)] \in ArchiveInserts
           /\ \A dt \in Datetimes, lt \in LevTrs, V \in VarSets :
                [key |-> k, values |-> SlotsOf(k, dt, AtLevTr(lt, V))] \in ArchiveInserts
<1> DEFINE P == {[key |-> j, values |-> StationSlots(j, V)] :
                   j \in Stations, V \in StationVarSets}
           Q == {[key |-> j, values |-> SlotsOf(j, dt, AtLevTr(lt, V))] :
                   j \in Stations, dt \in Datetimes, lt \in LevTrs, V \in VarSets}
<1>1. ArchiveInserts = P \cup Q
  BY DEF ArchiveInserts, StationSlots, SlotsOf
<1>2. \A V \in StationVarSets : [key |-> k, values |-> StationSlots(k, V)] \in P
  OBVIOUS
<1>3. \A dt \in Datetimes, lt \in LevTrs, V \in VarSets :
         [key |-> k, values |-> SlotsOf(k, dt, AtLevTr(lt, V))] \in Q
  OBVIOUS
<1> HIDE DEF P, Q
<1> QED
  BY <1>1, <1>2, <1>3

LEMMA InsertStationDataActs ==
    ASSUME KeyedInv, Slotted(Here), NEW ref \in StationRef, NEW V \in StationVarSets,
           NEW cr \in BOOLEAN, NEW ca \in BOOLEAN,
           InsertStationData(ref[1], ref[2], V, cr, ca)
    PROVE  A!Next /\ Slotted(Here)'
<1> DEFINE t == InsertStationDataCall(Here, ref[1], ref[2], V, cr, ca)
<1>1. ref[1] \in Stations \cup {NoKey} /\ ref[2] \in RowIds \cup {MissingId}
  BY DEF StationRef, Ids, RowIds
<1>2. V \in SUBSET Var /\ IsFiniteSet(V) /\ CodesOnce(V)
  BY VarSetsAssumption DEF CodesOnce
<1>3. Whole(Here) /\ Here.err = "ok"
  BY HereWhole
<1>4. /\ Whole(t)
      /\ \/ Refused(t, A!Now)
         \/ \E k \in Stations : StoredOrTaken(t, A!Now, k, StationSlots(k, V), ModeOf(cr))
  BY <1>1, <1>2, <1>3, NowIs, InsertStationDataIs
<1>5. Call(t)
  BY DEF InsertStationData
<1> HIDE DEF t
<1>6. /\ t.err = "ok" => A!Becomes(Abs(t))
      /\ t.err # "ok" => A!LeaveBehind(Abs(t))
      /\ Slotted(Here)'
  BY <1>4, <1>5, CallActs
<1>7. CASE Refused(t, A!Now)
  BY <1>6, <1>7, RefusedActs
<1>8. ASSUME NEW k \in Stations, StoredOrTaken(t, A!Now, k, StationSlots(k, V), ModeOf(cr))
      PROVE  A!Next
  <2> DEFINE c == [key |-> k, values |-> StationSlots(k, V)]
  <2>1. c \in ArchiveInserts /\ c.key = k /\ c.values = StationSlots(k, V)
    BY InsertsAre
  <2> HIDE DEF c
  <2> QED
    BY <1>6, <1>8, <2>1, StoredActs
<1> QED
  BY <1>4, <1>6, <1>7, <1>8

LEMMA InsertDataActs ==
    ASSUME KeyedInv, Slotted(Here), NEW ref \in StationRef, NEW V \in VarSets,
           NEW cr \in BOOLEAN, NEW ca \in BOOLEAN,
           NEW dt \in Datetimes \cup {NoDatetime}, NEW lt \in LevTrs \cup {NoLevTr},
           InsertData(ref[1], ref[2], dt, lt, V, cr, ca)
    PROVE  A!Next /\ Slotted(Here)'
<1> DEFINE t == InsertDataCall(Here, ref[1], ref[2], dt, lt, V, cr, ca)
<1>1. ref[1] \in Stations \cup {NoKey} /\ ref[2] \in RowIds \cup {MissingId}
  BY DEF StationRef, Ids, RowIds
<1>2. V \in SUBSET Var /\ IsFiniteSet(V) /\ CodesOnce(V)
  BY VarSetsAssumption DEF CodesOnce
<1>3. Whole(Here) /\ Here.err = "ok"
  BY HereWhole
<1>4. Whole(t) /\ DataStored(t, A!Now, dt, lt, V, ModeOf(cr))
  <2>1. Whole(t) /\ DataStored(t, Abs(Here), dt, lt, V, ModeOf(cr))
    BY <1>1, <1>2, <1>3, InsertDataIs
  <2> HIDE DEF t
  <2> QED
    BY <2>1, NowIs
<1>5. Call(t)
  BY DEF InsertData
<1> HIDE DEF t
<1>6. /\ t.err = "ok" => A!Becomes(Abs(t))
      /\ t.err # "ok" => A!LeaveBehind(Abs(t))
      /\ Slotted(Here)'
  BY <1>4, <1>5, CallActs
<1>7. CASE Refused(t, A!Now)
  BY <1>6, <1>7, RefusedActs
<1>8. ASSUME NEW k \in Stations, dt \in Datetimes, lt \in LevTrs,
             StoredOrTaken(t, A!Now, k, SlotsOf(k, dt, AtLevTr(lt, V)), ModeOf(cr))
      PROVE  A!Next
  <2> DEFINE c == [key |-> k, values |-> SlotsOf(k, dt, AtLevTr(lt, V))]
  <2>1. /\ c \in ArchiveInserts /\ c.key = k
        /\ c.values = SlotsOf(k, dt, AtLevTr(lt, V))
    BY <1>8, InsertsAre
  <2> HIDE DEF c
  <2> QED
    BY <1>6, <1>8, <2>1, StoredActs
<1> QED
  BY <1>4, <1>6, <1>7, <1>8 DEF DataStored

LEMMA ImportsAre ==
    ASSUME NEW m \in Messages
    PROVE  /\ IsWhole(m) => InMessage(m) \in A!Complete
           /\ m.key # NoKey => Part(m) \in {[n EXCEPT !.values = {}] : n \in ArchiveImports}
BY MessagesAre DEF A!Complete, IsWhole, Part

LEMMA ImportMessageActs ==
    ASSUME KeyedInv, Slotted(Here), NEW m \in Messages, NEW o \in ImportOptions,
           ImportMessage(m, o)
    PROVE  A!Next /\ Slotted(Here)'
<1> DEFINE t == ImportMessageCall(Here, m, o)
           a == A!Keeping(A!Now, o.importAttributes)
<1>1. MessageType(m)
  BY MessagesAssumption DEF MessageType
<1>2. Whole(Here) /\ Here.err = "ok"
  BY HereWhole
<1>3. /\ Whole(t)
      /\ \/ t.err = "ok" /\ IsWhole(m) /\ Abs(t) = A!Flush(Imported(a, m, o))
         \/ t.err # "ok" /\ LeftBy(Abs(t), a, m, o)
  BY <1>1, <1>2, NowIs, ImportMessageIs
<1>4. Call(t)
  BY DEF ImportMessage
<1> HIDE DEF t
<1>5. /\ t.err = "ok" => A!Becomes(Abs(t))
      /\ t.err # "ok" => A!LeaveBehind(Abs(t))
      /\ Slotted(Here)'
  BY <1>3, <1>4, CallActs
<1>6. /\ o.overwrite \in BOOLEAN /\ o.updateStation \in BOOLEAN
      /\ o.importAttributes \in BOOLEAN
  BY DEF ImportOptions
<1>7. CASE t.err = "ok"
  <2>1. A!Import(InMessage(m), o.overwrite, o.updateStation, o.importAttributes)
    BY <1>3, <1>5, <1>7 DEF A!Import, Imported
  <2> QED
    BY <1>3, <1>5, <1>6, <1>7, <2>1, ImportsAre DEF A!Next
<1>8. CASE t.err # "ok"
  <2>1. A!RefuseImport(o.overwrite, o.updateStation, o.importAttributes)
    <3>1. CASE Abs(t) = a
      BY <1>5, <1>8, <3>1 DEF A!RefuseImport
    <3>2. CASE m.key # NoKey /\ Abs(t) = ImportedPart(a, m, o)
      BY <1>5, <1>8, <3>2, ImportsAre DEF A!RefuseImport, ImportedPart
    <3> QED
      BY <1>3, <1>8, <3>1, <3>2 DEF LeftBy
  <2> QED
    BY <1>5, <1>6, <2>1 DEF A!Next
<1> QED
  BY <1>7, <1>8

LEMMA ImportMessagesActs ==
    ASSUME KeyedInv, Slotted(Here), NEW m \in Messages, NEW n \in Messages,
           NEW o \in ImportOptions, ImportMessages(m, n, o)
    PROVE  A!Next /\ Slotted(Here)'
<1> DEFINE t == ImportMessagesCall(Here, m, n, o)
           a == A!Keeping(A!Now, o.importAttributes)
           b == Imported(a, m, o)
<1>1. MessageType(m) /\ MessageType(n)
  BY MessagesAssumption DEF MessageType
<1>2. Whole(Here) /\ Here.err = "ok"
  BY HereWhole
<1>3. /\ Whole(t)
      /\ \/ /\ t.err = "ok" /\ IsWhole(m) /\ IsWhole(n)
            /\ Abs(t) = A!Flush(Imported(b, n, o))
         \/ t.err # "ok" /\ LeftBy(Abs(t), a, m, o)
         \/ t.err # "ok" /\ IsWhole(m) /\ LeftBy(Abs(t), b, n, o)
  BY <1>1, <1>2, NowIs, ImportMessagesIs
<1>4. Call(t)
  BY DEF ImportMessages
<1> HIDE DEF t
<1>5. /\ t.err = "ok" => A!Becomes(Abs(t))
      /\ t.err # "ok" => A!LeaveBehind(Abs(t))
      /\ Slotted(Here)'
  BY <1>3, <1>4, CallActs
<1>6. /\ o.overwrite \in BOOLEAN /\ o.updateStation \in BOOLEAN
      /\ o.importAttributes \in BOOLEAN
  BY DEF ImportOptions
<1>7. CASE t.err = "ok"
  <2>1. A!ImportTwo(InMessage(m), InMessage(n), o.overwrite, o.updateStation,
                    o.importAttributes)
    BY <1>3, <1>5, <1>7 DEF A!ImportTwo, Imported
  <2>2. InMessage(m) \in A!Complete /\ InMessage(n) \in A!Complete
    BY <1>3, <1>7, ImportsAre
  <2> QED
    BY <1>5, <1>6, <2>1, <2>2 DEF A!Next
<1>8. CASE t.err # "ok"
  <2>1. A!RefuseImport(o.overwrite, o.updateStation, o.importAttributes)
    <3> DEFINE after == {a} \cup {A!QueueMessage(a, x, o.overwrite, o.updateStation) :
                                    x \in A!Complete}
               part == {[x EXCEPT !.values = {}] : x \in ArchiveImports}
    <3>1. A!RefuseImport(o.overwrite, o.updateStation, o.importAttributes) <=>
            \E q \in after :
               \/ A!LeaveBehind(q)
               \/ \E x \in part :
                     A!LeaveBehind(A!QueueMessage(q, x, o.overwrite, o.updateStation))
      BY DEF A!RefuseImport
    <3>2. PICK q \in after, x \in Messages : LeftBy(Abs(t), q, x, o)
      <4>1. a \in after
        OBVIOUS
      <4>2. IsWhole(m) => b \in after
        BY ImportsAre DEF Imported
      <4> HIDE DEF after, a, b
      <4> QED
        BY <1>3, <1>8, <4>1, <4>2 DEF a, b
    <3>3. x.key # NoKey => Part(x) \in part
      BY ImportsAre
    <3> HIDE DEF after, part
    <3> QED
      BY <1>5, <1>8, <3>1, <3>2, <3>3 DEF LeftBy, ImportedPart
  <2> QED
    BY <1>5, <1>6, <2>1 DEF A!Next
<1> QED
  BY <1>7, <1>8

\* What the archive has after a step, in the tables and in those saved.
LEMMA TablesNext ==
    ASSUME NEW T, T.station = station', T.levtr = levtr', T.rows = rows'
    PROVE  KeysIn(Tables)' = KeysIn(T) /\ ValuesIn(Tables)' = ValuesIn(T)
<1>1. Tables'.station = T.station /\ Tables'.levtr = T.levtr /\ Tables'.rows = T.rows
  BY DEF Tables
<1> QED
  BY <1>1 DEF KeysIn, ValuesIn, KeyOf, LtOf

LEMMA SavedNext ==
    ASSUME NEW T, saved' = T
    PROVE  KeysIn(saved)' = KeysIn(T) /\ ValuesIn(saved)' = ValuesIn(T)
BY DEF KeysIn, ValuesIn, KeyOf, LtOf

LEMMA SameTables ==
    ASSUME NEW T, NEW U, T.station = U.station, T.levtr = U.levtr, T.rows = U.rows
    PROVE  KeysIn(T) = KeysIn(U) /\ ValuesIn(T) = ValuesIn(U)
BY DEF KeysIn, ValuesIn, KeyOf, LtOf

LEMMA SavedSlotted ==
    ASSUME NEW T, SlottedTables(T), saved'.station = T.station, saved'.rows = T.rows
    PROVE  SlottedTables(saved)'
BY DEF SlottedTables, UniqueIds, OneSlot, NoLevel

LEMMA NobodySlotted ==
    ASSUME NEW T, SlottedTables(T), T.station = station', T.rows = rows',
           last' = NoStation
    PROVE  Slotted(Here)'
BY NoStationAssumption DEF Slotted, SlottedTables, UniqueIds, OneSlot, NoLevel, Here

LEMMA DeleteRowsActs ==
    ASSUME KeyedInv, Slotted(Here), NEW D, DeleteRows(D)
    PROVE  A!Next /\ Slotted(Here)'
<1> DEFINE T == [station |-> station, levtr |-> levtr, rows |-> rows \ D]
<1>0. /\ ~fired /\ rows' = rows \ D /\ last' = NoStation
      /\ station' = station /\ levtr' = levtr /\ wattrs' = wattrs
      /\ fired' = fired /\ saved' = saved
  BY DEF DeleteRows
<1>1. T.station = station /\ T.levtr = levtr /\ T.rows = rows \ D
  OBVIOUS
<1> HIDE DEF T
<1>2. KeysIn(Tables)' = KeysIn(T) /\ ValuesIn(Tables)' = ValuesIn(T)
  BY <1>0, <1>1, TablesNext
<1>3. KeysIn(T) = KeysIn(Tables)
  BY <1>1 DEF KeysIn, Tables
<1>4. ValuesIn(T) \subseteq ValuesIn(Tables)
  BY <1>1 DEF ValuesIn, KeyOf, LtOf, Tables
<1>5. KeysIn(saved)' = KeysIn(saved) /\ ValuesIn(saved)' = ValuesIn(saved)
  BY <1>0, SavedNext
<1>6. A!Remove
  BY <1>0, <1>2, <1>3, <1>4, <1>5 DEF A!Remove, A!Nothing
<1>7. SlottedTables(T)
  BY <1>1 DEF Slotted, SlottedTables, UniqueIds, OneSlot, NoLevel, Here
<1>8. Slotted(Here)'
  BY <1>0, <1>1, <1>7, NobodySlotted
<1> QED
  BY <1>6, <1>8 DEF A!Next

LEMMA RemoveAllActs ==
    ASSUME RemoveAll
    PROVE  A!Next /\ Slotted(Here)'
<1> DEFINE T == [station |-> {}, levtr |-> {}, rows |-> {}]
           a == [A!Now EXCEPT !.stations = {}, !.content = {}, !.left = A!Nothing]
<1>1. /\ ~fired /\ rows' = {} /\ last' = NoStation /\ station' = {} /\ levtr' = {}
      /\ wattrs' = wattrs /\ fired' = fired /\ saved' = saved
  BY DEF RemoveAll
<1>2. KeysIn(Tables)' = KeysIn(T) /\ ValuesIn(Tables)' = ValuesIn(T)
  BY <1>1, TablesNext
<1>3. KeysIn(T) = {} /\ ValuesIn(T) = {}
  BY DEF KeysIn, ValuesIn
<1>4. KeysIn(saved)' = KeysIn(saved) /\ ValuesIn(saved)' = ValuesIn(saved)
  BY <1>1, SavedNext
<1>5. /\ a.stations = {} /\ a.content = {} /\ a.keep = wattrs
      /\ a.left = [key |-> NoStation, values |-> {}]
  BY DEF A!Now, A!Nothing
<1> HIDE DEF a
<1>6. A!Becomes(a)
  BY <1>1, <1>2, <1>3, <1>4, <1>5 DEF A!Becomes
<1>7. A!RemoveAll
  BY <1>6 DEF A!RemoveAll, a
<1>8. SlottedTables(T) /\ T.station = {} /\ T.rows = {}
  BY DEF SlottedTables, UniqueIds, OneSlot, NoLevel
<1>9. Slotted(Here)'
  BY <1>1, <1>8, NobodySlotted
<1> QED
  BY <1>7, <1>9 DEF A!Next

LEMMA BeginActs ==
    ASSUME KeyedInv, Slotted(Here), Begin
    PROVE  A!Next /\ Slotted(Here)' /\ SlottedTables(saved)'
<1>1. /\ fired /\ ~fired' /\ saved' = Tables /\ last' = NoStation /\ wattrs' = TRUE
      /\ station' = station /\ levtr' = levtr /\ rows' = rows
  BY DEF Begin, KeyedInv, CacheInv, LevelInv, Inv, TypeOK
<1>2. Tables.station = station /\ Tables.levtr = levtr /\ Tables.rows = rows
  BY DEF Tables
<1>3. KeysIn(Tables)' = KeysIn(Tables) /\ ValuesIn(Tables)' = ValuesIn(Tables)
  BY <1>1, <1>2, TablesNext
<1>4. KeysIn(saved)' = KeysIn(Tables) /\ ValuesIn(saved)' = ValuesIn(Tables)
  BY <1>1, SavedNext
<1>5. A!Open
  BY <1>1, <1>3, <1>4 DEF A!Open, A!Nothing
<1>6. SlottedTables(Tables)
  BY <1>2 DEF Slotted, SlottedTables, Here
<1>7. Slotted(Here)' /\ SlottedTables(saved)'
  BY <1>1, <1>2, <1>6, NobodySlotted, SavedSlotted
<1> QED
  BY <1>5, <1>7 DEF A!Next

LEMMA CommitActs ==
    ASSUME KeyedInv, Slotted(Here), Commit
    PROVE  A!Next /\ Slotted(Here)' /\ SlottedTables(saved)'
<1>1. /\ ~fired /\ fired' = TRUE /\ saved' = Tables /\ last' = NoStation
      /\ wattrs' = wattrs
      /\ station' = station /\ levtr' = levtr /\ rows' = rows
  BY DEF Commit
<1>2. Tables.station = station /\ Tables.levtr = levtr /\ Tables.rows = rows
  BY DEF Tables
<1>3. KeysIn(Tables)' = KeysIn(Tables) /\ ValuesIn(Tables)' = ValuesIn(Tables)
  BY <1>1, <1>2, TablesNext
<1>4. KeysIn(saved)' = KeysIn(Tables) /\ ValuesIn(saved)' = ValuesIn(Tables)
  BY <1>1, SavedNext
<1>5. A!Commit
  BY <1>1, <1>3, <1>4 DEF A!Commit, A!Nothing
<1>6. SlottedTables(Tables)
  BY <1>2 DEF Slotted, SlottedTables, Here
<1>7. Slotted(Here)' /\ SlottedTables(saved)'
  BY <1>1, <1>2, <1>6, NobodySlotted, SavedSlotted
<1> QED
  BY <1>5, <1>7 DEF A!Next

LEMMA RollbackActs ==
    ASSUME SlottedTables(saved), Rollback
    PROVE  A!Next /\ Slotted(Here)'
<1>1. /\ ~fired /\ fired' = TRUE /\ saved' = saved /\ last' = NoStation
      /\ wattrs' = wattrs
      /\ station' = saved.station /\ levtr' = saved.levtr /\ rows' = saved.rows
  BY DEF Rollback
<1>2. KeysIn(Tables)' = KeysIn(saved) /\ ValuesIn(Tables)' = ValuesIn(saved)
  BY <1>1, TablesNext
<1>3. KeysIn(saved)' = KeysIn(saved) /\ ValuesIn(saved)' = ValuesIn(saved)
  BY <1>1, SavedNext
<1>4. A!Rollback
  BY <1>1, <1>2, <1>3 DEF A!Rollback, A!Nothing
<1>5. Slotted(Here)'
  BY <1>1, NobodySlotted
<1> QED
  BY <1>4, <1>5 DEF A!Next

\* A step that leaves tables, cache and mode alone leaves the archive alone.
LEMMA StutterActs ==
    ASSUME UNCHANGED <<station, levtr, rows, last, wattrs, fired, saved>>
    PROVE  UNCHANGED A!avars
<1>1. KeysIn(Tables)' = KeysIn(Tables) /\ ValuesIn(Tables)' = ValuesIn(Tables)
  BY DEF KeysIn, ValuesIn, KeyOf, LtOf, Tables
<1>2. KeysIn(saved)' = KeysIn(saved) /\ ValuesIn(saved)' = ValuesIn(saved)
  BY SavedNext
<1>3. Queued' = Queued
  BY DEF Queued, LtOf, Tables
<1> QED
  BY <1>1, <1>2, <1>3 DEF A!avars

LEMMA StutterSlotted ==
    ASSUME Slotted(Here), UNCHANGED <<station, rows, last>>
    PROVE  Slotted(Here)'
BY DEF Slotted, SlottedTables, QueuesKnown, UniqueIds, OneSlot, NoLevel, Updates, Here

\* The row whose attributes change is the only one of its slot.
LEMMA SetAttrsActs ==
    ASSUME KeyedInv, Slotted(Here), NEW ofStation \in BOOLEAN, NEW id, NEW b \in BOOLEAN,
           SetAttrs(ofStation, id, b)
    PROVE  (A!Next \/ UNCHANGED A!avars) /\ Slotted(Here)'
<1> DEFINE hit(r) == r.id = id /\ (r.ctx = StationCtx) = ofStation
           new(r) == IF hit(r) THEN [r EXCEPT !.attr = b] ELSE r
           V(r) == Value(Here, KeyOf(Here, r.st), r)
           T == [station |-> station, levtr |-> levtr, rows |-> rows']
<1>0. /\ ~fired /\ rows' = {new(r) : r \in rows} /\ last' = last
      /\ station' = station /\ levtr' = levtr /\ wattrs' = wattrs
      /\ fired' = fired /\ saved' = saved
  BY DEF SetAttrs
<1>1. Whole(Here)
  BY HereWhole
<1>2. /\ rows \subseteq DataRow /\ UniqueRows(rows) /\ OneSlot(rows)
      /\ UniqueIds(station) /\ UniqueKeys(station)
      /\ \A r \in rows : Placed(r, levtr) /\ r.st \in IdsOf(station)
  BY <1>1, WholeParts DEF Here
<1>3. \A r \in rows : ~hit(r) => new(r) = r
  OBVIOUS
<1>4. \A r \in rows : hit(r) => new(r) = [r EXCEPT !.attr = b]
  OBVIOUS
<1>5. \A r \in rows : /\ new(r).st = r.st /\ SameKey(new(r), r) /\ new(r).ctx = r.ctx
                      /\ new(r).lt = r.lt /\ new(r).code = r.code
                      /\ new(r).val = r.val
  <2> TAKE r \in rows
  <2>1. r \in DataRow
    BY <1>2
  <2>2. LET n == [r EXCEPT !.attr = b]
        IN  /\ n.st = r.st /\ SameKey(n, r) /\ n.ctx = r.ctx
            /\ n.lt = r.lt /\ n.code = r.code /\ n.val = r.val
    BY <2>1 DEF DataRow, SameKey
  <2>3. SameKey(r, r)
    BY DEF SameKey
  <2> HIDE DEF hit
  <2> QED
    BY <2>2, <2>3, <1>3, <1>4
<1>6. \A x \in rows' : \E r \in rows : x = new(r)
  BY <1>0
<1>7. \A r \in rows : new(r) \in rows'
  BY <1>0
<1>8. \A r, q \in rows : hit(r) /\ hit(q) => r = q
  BY <1>2 DEF UniqueRows, SameTable
<1>9. \A r \in rows : hit(r) => new(r).attr = b
  BY <1>2, <1>4 DEF DataRow
<1> HIDE DEF new, hit
<1>10. SlottedTables(T)
  <2>1. OneSlot(rows')
    <3> SUFFICES ASSUME NEW x \in rows', NEW y \in rows', x.st = y.st, SameKey(x, y)
                 PROVE  x = y
      BY DEF OneSlot
    <3>1. PICK r \in rows, q \in rows : x = new(r) /\ y = new(q)
      BY <1>6
    <3>2. r.st = q.st /\ SameKey(r, q)
      BY <1>5, <3>1 DEF SameKey
    <3> QED
      BY <1>2, <3>1, <3>2 DEF OneSlot
  <2>2. NoLevel(rows')
    BY <1>5, <1>6 DEF Slotted, SlottedTables, NoLevel, Here
  <2> QED
    BY <1>2, <2>1, <2>2 DEF SlottedTables
<1>11. Slotted(Here)'
  <2>1. T.station = station' /\ T.rows = rows'
    BY <1>0
  <2> HIDE DEF T
  <2> QED
    BY <1>0, <1>10, <2>1
       DEF Slotted, SlottedTables, QueuesKnown, UniqueIds, OneSlot, NoLevel, Updates, Here
<1>12. CASE \A r \in rows : ~hit(r)
  <2>1. rows' = rows
    BY <1>0, <1>3, <1>6, <1>7, <1>12
  <2> QED
    BY <1>0, <1>11, <2>1, StutterActs
<1>13. ASSUME NEW r \in rows, hit(r)
       PROVE  A!ChangeAttrs
  <2> DEFINE c == V(r)
             d == [c EXCEPT !.attr = b]
             C == ValuesIn(Tables)
  <2>1. T.levtr = levtr /\ T.station = station /\ T.rows = rows'
    OBVIOUS
  <2>2. \A k, x : Value(T, k, x) = Value(Here, k, x) /\ KeyOf(T, k) = KeyOf(Here, k)
    BY <2>1 DEF Value, LtOf, KeyOf, Here
  <2>3. ValuesIn(T) = {V(x) : x \in rows'}
    BY <2>1, <2>2, ValuesAre
  <2>4. C = {V(x) : x \in rows}
    <3>1. ValuesIn(Here) = {V(x) : x \in rows}
      BY ValuesAre DEF Here
    <3>2. ValuesIn(Here) = ValuesIn(Tables)
      BY SameTables DEF Here, Tables
    <3> QED
      BY <3>1, <3>2
  <2>5. V(new(r)) = d
    BY <1>5, <1>9, <1>13 DEF Value
  <2>6. \A x \in rows : A!SameSlot(V(x), c) <=> x = r
    <3> TAKE x \in rows
    <3>1. Placed(x, Here.levtr) /\ Placed(r, Here.levtr)
      BY <1>2 DEF Here
    <3>2. Here.levtr \subseteq LevTrRow /\ UniqueIds(Here.levtr) /\ UniqueLevels(Here.levtr)
      BY <1>1, WholeParts
    <3>3. \A k, l : A!SameSlot(Value(Here, k, x), Value(Here, l, r)) <=> k = l /\ SameKey(x, r)
      BY <3>1, <3>2, SlotIs
    <3>4. KeyOf(Here, x.st) = KeyOf(Here, r.st) => x.st = r.st
      <4>1. PICK y \in Here.station : y.id = r.st
        BY <1>2 DEF IdsOf, Here
      <4>2. UniqueIds(Here.station) /\ UniqueKeys(Here.station) /\ x.st \in IdsOf(Here.station)
        BY <1>2 DEF Here
      <4>3. KeyOf(Here, y.id) = y.key
        BY <4>2, KeyIs
      <4> QED
        BY <4>1, <4>2, <4>3, OfStation
    <3>5. x.st = r.st /\ SameKey(x, r) => x = r
      BY <1>2 DEF OneSlot
    <3>6. SameKey(r, r)
      BY DEF SameKey
    <3> QED
      BY <3>3, <3>4, <3>5, <3>6
  <2>7. \A x : A!SameSlot(x, d) <=> A!SameSlot(x, c)
    BY DEF A!SameSlot, Value
  <2>8. c \in C
    BY <2>4
  <2> HIDE DEF c, d, C, V, T
  <2>9. ValuesIn(T) = A!Put(C, {d})
    <3>1. A!Put(C, {d}) = {x \in C : ~A!SameSlot(x, c)} \cup {d}
      BY <2>7 DEF A!Put
    <3>2. ASSUME NEW v \in ValuesIn(T)
          PROVE  v \in A!Put(C, {d})
      <4>1. PICK x \in rows' : v = V(x)
        BY <2>3
      <4>2. PICK q \in rows : x = new(q)
        BY <1>6
      <4>3. CASE q = r
        BY <2>5, <3>1, <4>1, <4>2, <4>3
      <4>4. CASE q # r
        <5>1. ~hit(q)
          BY <1>8, <1>13, <4>4
        <5>2. v = V(q)
          BY <1>3, <4>1, <4>2, <5>1
        <5> QED
          BY <2>4, <2>6, <3>1, <4>4, <5>2
      <4> QED
        BY <4>3, <4>4
    <3>3. ASSUME NEW v \in A!Put(C, {d})
          PROVE  v \in ValuesIn(T)
      <4>1. CASE v = d
        BY <1>7, <1>13, <2>3, <2>5, <4>1
      <4>2. CASE v # d
        <5>1. v \in C /\ ~A!SameSlot(v, c)
          BY <3>1, <4>2
        <5>2. PICK q \in rows : v = V(q)
          BY <2>4, <5>1
        <5>3. q # r
          BY <2>6, <5>1, <5>2
        <5>4. new(q) = q /\ q \in rows'
          BY <1>3, <1>7, <1>8, <1>13, <5>3
        <5> QED
          BY <2>3, <5>2, <5>4
      <4> QED
        BY <4>1, <4>2
    <3> QED
      BY <3>2, <3>3
  <2>10. KeysIn(Tables)' = KeysIn(T) /\ ValuesIn(Tables)' = ValuesIn(T)
    BY <1>0, <2>1, TablesNext
  <2>11. KeysIn(T) = KeysIn(Tables)
    BY <2>1 DEF KeysIn, Tables
  <2>12. KeysIn(saved)' = KeysIn(saved) /\ ValuesIn(saved)' = ValuesIn(saved)
    BY <1>0, SavedNext
  <2>13. Queued' = Queued
    BY <1>0 DEF Queued, LtOf, Tables
  <2>14. \E v \in C, e \in BOOLEAN :
            ValuesIn(Tables)' = A!Put(C, {[v EXCEPT !.attr = e]})
    BY <2>8, <2>9, <2>10 DEF d
  <2> QED
    BY <1>0, <2>10, <2>11, <2>12, <2>13, <2>14 DEF A!ChangeAttrs, C
<1> QED
  BY <1>11, <1>12, <1>13 DEF A!Next

\* Levels go that no value is filed under, and stations without measured values:
\* of the values that stay no part is lost.
LEMMA VacuumActs ==
    ASSUME KeyedInv, Slotted(Here), Vacuum
    PROVE  A!Next /\ Slotted(Here)' /\ SlottedTables(saved)'
<1> DEFINE used == {r.lt : r \in {x \in rows : x.ctx # StationCtx}}
           live == {r.st : r \in {x \in rows : x.ctx # StationCtx}}
           V(r) == Value(Here, KeyOf(Here, r.st), r)
           C == ValuesIn(Tables)
           kept == {c.key : c \in {x \in C : x.ctx # StationCtx}}
           T == [station |-> station', levtr |-> levtr', rows |-> rows']
<1>0. /\ fired /\ fired' = fired /\ last' = last /\ last = NoStation /\ wattrs' = wattrs
      /\ levtr' = {r \in levtr : r.id \in used}
      /\ rows' = {r \in rows : r.st \in live}
      /\ station' = {r \in station : r.id \in live}
      /\ saved' = T
  BY DEF Vacuum, KeyedInv, CacheInv
<1>1. /\ T.station = station' /\ T.levtr = levtr' /\ T.rows = rows'
      /\ Here.station = station /\ Here.levtr = levtr /\ Here.rows = rows
  BY DEF Here
<1>2. Whole(Here)
  BY HereWhole
<1>3. /\ levtr \subseteq LevTrRow /\ UniqueIds(levtr) /\ OneSlot(rows) /\ NoLevel(rows)
      /\ UniqueIds(station) /\ UniqueKeys(station)
      /\ \A r \in rows : Placed(r, levtr) /\ r.st \in IdsOf(station)
  BY <1>1, <1>2, WholeParts DEF Slotted, SlottedTables
<1>4. C = {V(r) : r \in rows}
  <2>1. ValuesIn(Here) = {V(r) : r \in rows}
    BY <1>1, ValuesAre
  <2>2. ValuesIn(Here) = ValuesIn(Tables)
    BY SameTables DEF Here, Tables
  <2> QED
    BY <2>1, <2>2
<1>5. \A r \in rows : V(r).ctx = r.ctx /\ V(r).key = KeyOf(Here, r.st)
  BY DEF Value
<1>6. \A id \in live : \E r \in rows : r.ctx # StationCtx /\ r.st = id
  OBVIOUS
<1>7. \A r \in rows : r.ctx # StationCtx => r.st \in live /\ r.lt \in used
  OBVIOUS
<1>8. \A k \in kept : \E c \in C : c.ctx # StationCtx /\ c.key = k
  OBVIOUS
<1>9. \A c \in C : c.ctx # StationCtx => c.key \in kept
  OBVIOUS
<1> HIDE DEF used, live, C, kept, T, V
<1>10. ASSUME NEW id \in IdsOf(station)
       PROVE  id \in live <=> KeyOf(Here, id) \in kept
  <2>1. ASSUME id \in live
        PROVE  KeyOf(Here, id) \in kept
    <3>1. PICK r \in rows : r.ctx # StationCtx /\ r.st = id
      BY <1>6, <2>1
    <3>2. V(r) \in C
      BY <1>4
    <3> QED
      BY <1>5, <1>9, <3>1, <3>2
  <2>2. ASSUME KeyOf(Here, id) \in kept
        PROVE  id \in live
    <3>1. PICK c \in C : c.ctx # StationCtx /\ c.key = KeyOf(Here, id)
      BY <1>8, <2>2
    <3>2. PICK r \in rows : c = V(r)
      BY <1>4
    <3>3. r.ctx # StationCtx /\ KeyOf(Here, r.st) = KeyOf(Here, id)
      BY <1>5, <3>1, <3>2
    <3>4. PICK x \in Here.station : x.id = id
      BY <1>1 DEF IdsOf
    <3>5. UniqueIds(Here.station) /\ UniqueKeys(Here.station) /\ r.st \in IdsOf(Here.station)
      BY <1>1, <1>3
    <3>6. KeyOf(Here, x.id) = x.key
      BY <3>5, KeyIs
    <3>7. r.st = x.id
      BY <3>3, <3>4, <3>5, <3>6, OfStation
    <3> QED
      BY <1>7, <3>3, <3>4, <3>7
  <2> QED
    BY <2>1, <2>2
<1>11. \A x \in station : KeyOf(Here, x.id) = x.key /\ x.id \in IdsOf(station)
  BY <1>1, <1>3, KeyIs DEF IdsOf
<1>12. KeysIn(T) = KeysIn(Tables) \cap kept
  <2>1. KeysIn(T) = {x.key : x \in station'} /\ KeysIn(Tables) = {x.key : x \in station}
    BY <1>1 DEF KeysIn, Tables
  <2>2. \A x \in station : x \in station' <=> x.key \in kept
    BY <1>0, <1>10, <1>11
  <2>3. station' \subseteq station
    BY <1>0
  <2> QED
    BY <2>1, <2>2, <2>3
<1>13. ASSUME NEW r \in rows'
       PROVE  r \in rows /\ Value(T, KeyOf(T, r.st), r) = V(r)
  <2>1. r \in rows /\ r.st \in live
    BY <1>0
  <2>2. PICK x \in station : x.id = r.st
    BY <1>3, <2>1 DEF IdsOf
  <2>3. x \in T.station /\ UniqueIds(T.station)
    BY <1>0, <1>1, <1>3, <2>1, <2>2 DEF UniqueIds
  <2>4. KeyOf(T, x.id) = x.key
    BY <2>3, KeyIs
  <2>5. KeyOf(T, r.st) = KeyOf(Here, r.st)
    BY <1>11, <2>2, <2>4
  <2>6. Placed(r, Here.levtr \cap T.levtr)
    <3>1. CASE r.ctx = StationCtx
      BY <1>3, <2>1, <3>1 DEF Placed
    <3>2. CASE r.ctx # StationCtx
      <4>1. PICK l \in levtr : l.id = r.lt
        BY <1>3, <2>1, <3>2 DEF Placed, IdsOf
      <4>2. l \in levtr'
        BY <1>0, <1>7, <2>1, <3>2, <4>1
      <4> QED
        BY <1>1, <3>2, <4>1, <4>2 DEF Placed, IdsOf
    <3> QED
      BY <3>1, <3>2
  <2>7. /\ Here.levtr \subseteq LevTrRow /\ T.levtr \subseteq LevTrRow
        /\ UniqueIds(Here.levtr) /\ UniqueIds(T.levtr)
    BY <1>0, <1>1, <1>3 DEF UniqueIds
  <2>8. \A k : Value(Here, k, r) = Value(T, k, r)
    BY <2>6, <2>7, ValueStays
  <2> QED
    BY <2>1, <2>5, <2>8 DEF V
<1>14. ValuesIn(T) = {c \in C : c.key \in kept}
  <2>1. ValuesIn(T) = {Value(T, KeyOf(T, r.st), r) : r \in rows'}
    BY <1>1, ValuesAre
  <2>2. \A r \in rows : r \in rows' <=> V(r).key \in kept
    BY <1>0, <1>3, <1>5, <1>10
  <2>3. ASSUME NEW v \in ValuesIn(T)
        PROVE  v \in C /\ v.key \in kept
    BY <1>4, <1>13, <2>1, <2>2
  <2>4. ASSUME NEW v \in C, v.key \in kept
        PROVE  v \in ValuesIn(T)
    BY <1>4, <1>13, <2>1, <2>2, <2>4
  <2> QED
    BY <2>3, <2>4
<1>15. KeysIn(Tables)' = KeysIn(T) /\ ValuesIn(Tables)' = ValuesIn(T)
  BY <1>1, TablesNext
<1>16. KeysIn(saved)' = KeysIn(T) /\ ValuesIn(saved)' = ValuesIn(T)
  BY <1>0, SavedNext
<1>17. A!Vacuum
  BY <1>0, <1>12, <1>14, <1>15, <1>16 DEF A!Vacuum, C, kept
<1>18. SlottedTables(T)
  BY <1>0, <1>1, <1>3 DEF SlottedTables, UniqueIds, OneSlot, NoLevel
<1>19. Slotted(Here)' /\ SlottedTables(saved)'
  BY <1>0, <1>1, <1>18, NobodySlotted, SavedSlotted
<1> QED
  BY <1>17, <1>19 DEF A!Next

\* What every action does to the tables that a rollback brings back, and to those
\* that it leaves.
SlottedGoal == Slotted(Here)' /\ SlottedTables(saved)'

LEMMA SavedStay ==
    ASSUME SlottedTables(saved), saved' = saved
    PROVE  SlottedTables(saved)'
BY SavedSlotted

\* Each action of a program is a step of the archive.
LEMMA NextActs ==
    ASSUME ArchiveInv, [Next]_vars
    PROVE  (A!Next \/ UNCHANGED A!avars) /\ SlottedGoal
<1> DEFINE Goal == (A!Next \/ UNCHANGED A!avars) /\ SlottedGoal
<1>0. KeyedInv /\ Slotted(Here) /\ SlottedTables(saved)
  BY DEF ArchiveInv
<1>a. saved' = saved => SlottedTables(saved)'
  BY <1>0, SavedStay
<1>1. ASSUME NEW ref \in StationRef, NEW V \in StationVarSets,
             NEW cr \in BOOLEAN, NEW ca \in BOOLEAN,
             InsertStationData(ref[1], ref[2], V, cr, ca)
      PROVE  Goal
  <2>1. A!Next /\ Slotted(Here)'
    BY <1>0, <1>1, InsertStationDataActs
  <2>2. saved' = saved
    BY <1>1 DEF InsertStationData, Call
  <2> QED
    BY <1>a, <2>1, <2>2 DEF SlottedGoal
<1>2. ASSUME NEW ref \in StationRef, NEW V \in VarSets,
             NEW cr \in BOOLEAN, NEW ca \in BOOLEAN,
             NEW dt \in Datetimes \cup {NoDatetime},
             NEW lt \in LevTrs \cup {NoLevTr},
             InsertData(ref[1], ref[2], dt, lt, V, cr, ca)
      PROVE  Goal
  <2>1. A!Next /\ Slotted(Here)'
    BY <1>0, <1>2, InsertDataActs
  <2>2. saved' = saved
    BY <1>2 DEF InsertData, Call
  <2> QED
    BY <1>a, <2>1, <2>2 DEF SlottedGoal
<1>3. ASSUME NEW m \in Messages, NEW o \in ImportOptions, ImportMessage(m, o)
      PROVE  Goal
  <2>1. A!Next /\ Slotted(Here)'
    BY <1>0, <1>3, ImportMessageActs
  <2>2. saved' = saved
    BY <1>3 DEF ImportMessage, Call
  <2> QED
    BY <1>a, <2>1, <2>2 DEF SlottedGoal
<1>4. ASSUME NEW m \in Messages, NEW o \in ImportOptions,
             NEW m2 \in Messages, ImportMessages(m, m2, o)
      PROVE  Goal
  <2>1. A!Next /\ Slotted(Here)'
    BY <1>0, <1>4, ImportMessagesActs
  <2>2. saved' = saved
    BY <1>4 DEF ImportMessages, Call
  <2> QED
    BY <1>a, <2>1, <2>2 DEF SlottedGoal
<1>5. ASSUME NEW D, DeleteRows(D)
      PROVE  Goal
  <2>1. A!Next /\ Slotted(Here)'
    BY <1>0, <1>5, DeleteRowsActs
  <2>2. saved' = saved
    BY <1>5 DEF DeleteRows
  <2> QED
    BY <1>a, <2>1, <2>2 DEF SlottedGoal
<1>6. ASSUME NEW q \in Queries, RemoveStationData(q) \/ RemoveData(q)
      PROVE  Goal
  BY <1>5, <1>6 DEF RemoveStationData, RemoveData
<1>7. ASSUME NEW id \in Ids, RemoveStationDataById(id) \/ RemoveDataById(id)
      PROVE  Goal
  BY <1>5, <1>7 DEF RemoveStationDataById, RemoveDataById
<1>8. ASSUME NEW id \in AttrTargets, NEW b \in BOOLEAN,
             AttrInsert(b, id) \/ AttrRemove(b, id)
      PROVE  Goal
  <2>1. PICK c \in BOOLEAN : SetAttrs(b, id, c)
    BY <1>8 DEF AttrInsert, AttrRemove
  <2>2. (A!Next \/ UNCHANGED A!avars) /\ Slotted(Here)'
    BY <1>0, <2>1, SetAttrsActs
  <2>3. saved' = saved
    BY <2>1 DEF SetAttrs
  <2> QED
    BY <1>a, <2>2, <2>3 DEF SlottedGoal
<1>9. CASE RemoveAll
  <2>1. saved' = saved
    BY <1>9 DEF RemoveAll
  <2> QED
    BY <1>a, <1>9, <2>1, RemoveAllActs DEF SlottedGoal
<1>10. CASE Begin
  BY <1>0, <1>10, BeginActs DEF SlottedGoal
<1>11. CASE Commit
  BY <1>0, <1>11, CommitActs DEF SlottedGoal
<1>12. CASE Rollback
  <2>1. saved' = saved
    BY <1>12 DEF Rollback
  <2> QED
    BY <1>0, <1>a, <1>12, <2>1, RollbackActs DEF SlottedGoal
<1>13. CASE Vacuum
  BY <1>0, <1>13, VacuumActs DEF SlottedGoal
<1>14. CASE UNCHANGED vars
  <2>1. UNCHANGED <<station, levtr, rows, last, wattrs, fired, saved>>
    BY <1>14 DEF vars
  <2> QED
    BY <1>0, <1>a, <2>1, StutterActs, StutterSlotted DEF SlottedGoal
<1> QED
  BY <1>1, <1>2, <1>3, <1>4, <1>6, <1>7, <1>8, <1>9, <1>10, <1>11, <1>12, <1>13,
     <1>14 DEF Next

LEMMA NextArchiveInv == ArchiveInv /\ [Next]_vars => ArchiveInv' /\ [A!Next]_A!avars
<1> SUFFICES ASSUME ArchiveInv, [Next]_vars
             PROVE  ArchiveInv' /\ (A!Next \/ UNCHANGED A!avars)
  OBVIOUS
<1>1. KeyedInv'
  BY NextKeyedInv DEF ArchiveInv
<1> QED
  BY <1>1, NextActs DEF ArchiveInv, SlottedGoal

LEMMA InitArchive == Init => ArchiveInv /\ A!Init
<1> SUFFICES ASSUME Init PROVE ArchiveInv /\ A!Init
  OBVIOUS
<1>1. SlottedTables(Here) /\ SlottedTables(saved)
  BY DEF Init, SlottedTables, UniqueIds, OneSlot, NoLevel, Here
<1>2. Here.last \notin CachedStation
  BY NoStationAssumption DEF Init, Here
<1>3. KeysIn(Tables) = {} /\ ValuesIn(Tables) = {} /\ KeysIn(saved) = {} /\ ValuesIn(saved) = {}
  BY DEF Init, KeysIn, ValuesIn, Tables
<1> QED
  BY <1>1, <1>2, <1>3, InitKeyedInv DEF Init, ArchiveInv, Slotted, A!Init, A!Nothing

\* Whatever the cache of the batch holds and whichever ids rows have, every call of
\* a transaction does to the values of the database what it promises: an insert or
\* import writes all its values, in the slots of their station, context, level and
\* code; a refused one stores none of its own, and leaves for the next accepted one
\* what it had queued for free slots; a rollback brings back the values that there
\* were at the start; a vacuum removes no measured value (batch.cc, transaction.cc,
\* import.cc).
THEOREM ImplementsTheArchive == Spec => ImplementsArchive
BY InitArchive, NextArchiveInv, PTL DEF Spec, ImplementsArchive, A!Spec
=============================================================================
