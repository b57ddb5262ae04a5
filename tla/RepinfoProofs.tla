--------------------------- MODULE RepinfoProofs ---------------------------
(***************************************************************************)
(* Theorems about Repinfo, for any reports and any files.                  *)
(***************************************************************************)
EXTENDS RepinfoProps, FiniteSetTheorems, WellFoundedInduction,
        NaturalsInduction, TLAPS

Typed(s) == /\ s \in [table : SUBSET ReportRow, cache : SUBSET Entry,
                      station : SUBSET StationRow,
                      last : CachedStation \cup {NoStation}, err : Outcomes]
            /\ IsFiniteSet(s.table)

\* An id stands for one name in the table.
Consistent(T) == \A a, b \in T : a.id = b.id => a.memo = b.memo

\* The cache may hold ids that the table lacks, or lack ids that it holds, but
\* gives no id another name.
Coherent(s) == \A c \in s.cache, r \in s.table : c.id = r.id => c.memo = r.memo

Filed(T, S) == \A st \in S : \E r \in T : r.id = st.rep /\ r.memo = st.memo

Base(s) == Typed(s) /\ Consistent(s.table) /\ Filed(s.table, s.station)

Sound(s) == Base(s) /\ Coherent(s)

\* No entry named by a file has got another name.
NoRename(s) == \A c \in s.cache : Kept(c) => c.newMemo = c.memo

\* The inductive invariant behind FiledUnderItsReport. What is inserted is filed
\* under an id of the cache, hence Coherent; the cache is read from the table,
\* hence Consistent; and a rollback brings back tables that are as good.
Inv == /\ TypeOK
       /\ Sound(Here)
       /\ IsFiniteSet(saved.table)
       /\ Consistent(saved.table)
       /\ Filed(saved.table, saved.station)

----------------------------------------------------------------------------
(* Numbers                                                                 *)

\* A set of numbers that is not empty has a smallest element.
LEMMA LeastType ==
    ASSUME NEW T \in SUBSET Nat, T # {}
    PROVE  Least(T) \in T /\ \A j \in T : Least(T) <= j
<1>1. PICK c \in T : \A b \in T : ~ (<<b, c>> \in OpToRel(<, Nat))
  BY WFMin, NatLessThanWellFounded
<1>2. \A b \in T : ~ (b < c)
  BY <1>1 DEF OpToRel
<1>3. \A b \in T : b \in Nat /\ c \in Nat
  OBVIOUS
<1>4. \A b \in T : c <= b
  BY <1>2, <1>3
<1> QED
  BY <1>4 DEF Least

\* A finite set of numbers that is not empty has a largest element.
LEMMA TopType ==
    ASSUME NEW T \in SUBSET Nat, IsFiniteSet(T)
    PROVE  /\ Top(T) \in Nat
           /\ \A j \in T : j <= Top(T)
           /\ T # {} => Top(T) \in T
<1>1. CASE T = {}
  BY <1>1 DEF Top
<1>2. CASE T # {}
  <2> DEFINE Above(x) == {y \in T : y > x}
             C == {Cardinality(Above(x)) : x \in T}
  <2>1. \A x \in T : IsFiniteSet(Above(x)) /\ Cardinality(Above(x)) \in Nat
    <3> TAKE x \in T
    <3>1. Above(x) \in SUBSET T
      OBVIOUS
    <3> HIDE DEF Above
    <3> QED
      BY <3>1, FS_Subset, FS_CardinalityType
  <2>2. C \in SUBSET Nat /\ C # {}
    BY <2>1, <1>2
  <2>3. Least(C) \in C /\ \A b \in C : Least(C) <= b
    <3> HIDE DEF C
    <3> QED
      BY <2>2, LeastType
  <2>4. PICK x \in T : Least(C) = Cardinality(Above(x))
    BY <2>3
  <2>5. ASSUME NEW y \in T, ~ (y <= x)
        PROVE  FALSE
    <3>1. x \in Nat /\ y \in Nat /\ y > x
      BY <2>5
    <3>2. Above(y) \in SUBSET Above(x) /\ Above(y) # Above(x)
      <4>1. y \in Above(x) /\ y \notin Above(y)
        BY <3>1
      <4>2. \A z \in Above(y) : z \in Above(x)
        BY <3>1
      <4> QED
        BY <4>1, <4>2
    <3>3. /\ Cardinality(Above(y)) <= Cardinality(Above(x))
          /\ Cardinality(Above(y)) # Cardinality(Above(x))
      <4> HIDE DEF Above
      <4> QED
        BY <3>2, <2>1, FS_Subset
    <3>4. Cardinality(Above(y)) \in C
      OBVIOUS
    <3> HIDE DEF Above, C
    <3> QED
      BY <3>3, <3>4, <2>1, <2>3, <2>4
  <2>6. \A j \in T : j <= x
    BY <2>5
  <2> HIDE DEF Above, C
  <2> QED
    BY <2>6, <1>2 DEF Top
<1> QED
  BY <1>1, <1>2

\* The image of a finite set is finite.
LEMMA ImageFinite ==
    ASSUME NEW S, IsFiniteSet(S), NEW f, DOMAIN f = S
    PROVE  IsFiniteSet({f[x] : x \in S})
<1> DEFINE T == {f[x] : x \in S}
           g == [x \in S |-> f[x]]
<1>1. g \in Surjection(S, T)
  BY DEF Surjection
<1> QED
  BY <1>1, FS_Surjection

\* The ids, and the priorities, of a finite table are finitely many numbers.
LEMMA ColumnsFinite ==
    ASSUME NEW T \in SUBSET ReportRow, IsFiniteSet(T)
    PROVE  /\ IdsOf(T) \in SUBSET Nat /\ IsFiniteSet(IdsOf(T))
           /\ {r.prio : r \in T} \in SUBSET Nat /\ IsFiniteSet({r.prio : r \in T})
<1> DEFINE f == [r \in T |-> r.id]
           g == [r \in T |-> r.prio]
<1>1. IsFiniteSet({f[r] : r \in T}) /\ IsFiniteSet({g[r] : r \in T})
  BY ImageFinite
<1>2. {f[r] : r \in T} = IdsOf(T) /\ {g[r] : r \in T} = {r.prio : r \in T}
  BY DEF IdsOf
<1> QED
  BY <1>1, <1>2 DEF IdsOf, ReportRow, RowIds

----------------------------------------------------------------------------
(* Cache, automatic entries, stations                                      *)

LEMMA ThrowSound ==
    ASSUME NEW s, Sound(s), NEW kind \in Outcomes
    PROVE  Sound(Throw(s, kind))
BY DEF Throw, Sound, Base, Typed, Coherent

\* What is read from a consistent table agrees with it.
LEMMA ReadCacheSound ==
    ASSUME NEW s, Base(s), s.err = "ok"
    PROVE  Sound(ReadCache(s))
<1>1. Read(s.table) \in SUBSET Entry
  BY NamesAssumption DEF Read, Base, Typed, Entry, ReportRow
<1>2. \A c \in Read(s.table), r \in s.table : c.id = r.id => c.memo = r.memo
  BY DEF Base, Consistent, Read
<1>3. /\ ReadCache(s).cache = Read(s.table) /\ ReadCache(s).table = s.table
      /\ ReadCache(s).station = s.station /\ Typed(ReadCache(s))
  BY <1>1 DEF ReadCache, Base, Typed
<1> QED
  BY <1>2, <1>3 DEF Sound, Base, Coherent

\* A new row is refused if its id is taken.
LEMMA InsertRowBase ==
    ASSUME NEW s, Base(s), NEW r \in ReportRow
    PROVE  /\ Base(InsertRow(s, r))
           /\ \/ InsertRow(s, r).err = "ok"
              \/ \E e \in Outcomes : InsertRow(s, r) = [s EXCEPT !.err = e]
<1>1. CASE s.err # "ok"
  BY <1>1 DEF InsertRow, Base, Typed
<1>2. CASE s.err = "ok" /\ Refused(s.table, r)
  BY <1>2 DEF InsertRow, Throw, Base, Typed, Outcomes
<1>3. CASE s.err = "ok" /\ ~Refused(s.table, r)
  <2>1. InsertRow(s, r) = [s EXCEPT !.table = s.table \cup {r}]
    BY <1>3 DEF InsertRow
  <2>2. IsFiniteSet(s.table \cup {r})
    BY FS_AddElement DEF Base, Typed
  <2>3. Consistent(s.table \cup {r})
    BY <1>3 DEF Refused, Consistent, Base
  <2>4. Filed(s.table \cup {r}, s.station)
    BY DEF Filed, Base
  <2> QED
    BY <1>3, <2>1, <2>2, <2>3, <2>4 DEF Base, Typed
<1> QED
  BY <1>1, <1>2, <1>3

LEMMA KeyType == ASSUME NEW n \in Names PROVE Key(n) \in Memos
BY NamesAssumption DEF Key

LEMMA ObtainIdSound ==
    ASSUME NEW s, Sound(s), NEW n \in Names
    PROVE  Sound(ObtainId(s, n))
<1> DEFINE r == AutoEntry(s, Key(n))
<1>1. r \in ReportRow
  <2>1. /\ Top(IdsOf(s.table)) \in Nat
        /\ Top({x.prio : x \in s.table}) \in Nat
    BY ColumnsFinite, TopType DEF Sound, Base, Typed
  <2> QED
    BY <2>1, KeyType DEF AutoEntry, ReportRow, RowIds
<1> HIDE DEF r
<1>2. Base(InsertRow(s, r))
  BY <1>1, InsertRowBase DEF Sound
<1>3. CASE InsertRow(s, r).err = "ok"
  BY <1>2, <1>3, ReadCacheSound DEF ObtainId, r
<1>4. CASE InsertRow(s, r).err # "ok"
  <2>1. PICK e \in Outcomes : InsertRow(s, r) = [s EXCEPT !.err = e]
    BY <1>1, <1>4, InsertRowBase DEF Sound
  <2>2. Sound([s EXCEPT !.err = e])
    BY DEF Sound, Base, Typed, Coherent
  <2> QED
    BY <1>4, <2>1, <2>2 DEF ObtainId, ReadCache, r
<1> QED
  BY <1>3, <1>4

\* A station is inserted under an id of the cache that the table has, and then
\* under the name that the table gives it.
LEMMA WritePendingSound ==
    ASSUME NEW s, Sound(s)
    PROVE  Sound(WritePending(s))
<1> DEFINE memo == Key(s.last.name)
           ids == IdsNamed(s, memo)
           id == CHOOSE i \in ids : TRUE
           st == [rep |-> id, memo |-> memo]
           t == [s EXCEPT !.station = s.station \cup {st}, !.last.stored = TRUE]
<1>1. CASE s.err # "ok" \/ s.last = NoStation \/ s.last.stored
  BY <1>1 DEF WritePending
<1>2. CASE /\ ~(s.err # "ok" \/ s.last = NoStation \/ s.last.stored)
           /\ ids = {} \/ id \notin IdsOf(s.table)
  <2>1. WritePending(s) = Throw(s, "sql")
    BY <1>2 DEF WritePending
  <2> QED
    BY <2>1, ThrowSound DEF Outcomes
<1>3. CASE /\ ~(s.err # "ok" \/ s.last = NoStation \/ s.last.stored)
           /\ ids # {} /\ id \in IdsOf(s.table)
  <2>1. WritePending(s) = t
    BY <1>3 DEF WritePending
  <2>2. s.last \in CachedStation
    BY <1>3 DEF Sound, Base, Typed
  <2>3. memo \in Memos
    BY <2>2, KeyType DEF CachedStation
  <2>4. id \in ids
    BY <1>3
  <2>5. PICK c \in s.cache : c.memo = memo /\ c.id = id
    BY <2>4 DEF IdsNamed
  <2>6. PICK r \in s.table : r.id = id
    BY <1>3 DEF IdsOf
  <2> HIDE DEF id, memo
  <2>7. r.memo = memo
    BY <2>5, <2>6 DEF Sound, Coherent
  <2>8. st \in StationRow
    BY <2>3, <2>6 DEF StationRow, ReportRow, Sound, Base, Typed
  <2>9. /\ t.table = s.table /\ t.cache = s.cache /\ t.err = s.err
        /\ t.station = s.station \cup {st}
        /\ Typed(t)
    BY <2>2, <2>8 DEF Sound, Base, Typed, CachedStation
  <2>10. Filed(t.table, t.station)
    BY <2>6, <2>7, <2>9 DEF Filed, Sound, Base
  <2> QED
    BY <2>1, <2>9, <2>10 DEF Sound, Base, Coherent
<1> QED
  BY <1>1, <1>2, <1>3

LEMMA GetStationSound ==
    ASSUME NEW s, Sound(s), NEW n \in Names, NEW canAdd \in BOOLEAN
    PROVE  Sound(GetStation(s, n, canAdd))
<1> DEFINE Live(t) == t.err = "ok" => t.last \in CachedStation
<1>1. ASSUME NEW t, Sound(t)
      PROVE  Sound(CacheStation(t, n)) /\ Live(CacheStation(t, n))
  BY <1>1 DEF CacheStation, CachedStation, Sound, Base, Typed, Coherent
<1>2. ASSUME NEW t, Sound(t), Live(t)
      PROVE  Sound(ObtainId(t, n)) /\ Live(ObtainId(t, n))
  <2>1. Sound(ObtainId(t, n))
    BY <1>2, ObtainIdSound
  <2>2. /\ ObtainId(t, n).last = t.last
        /\ t.err # "ok" => ObtainId(t, n).err # "ok"
    <3>1. t \in [table : SUBSET ReportRow, cache : SUBSET Entry,
                 station : SUBSET StationRow,
                 last : CachedStation \cup {NoStation}, err : Outcomes]
      BY <1>2 DEF Sound, Base, Typed
    <3> QED
      BY <3>1 DEF ObtainId, InsertRow, Throw, ReadCache
  <2> QED
    BY <2>1, <2>2, <1>2
<1>3. ASSUME NEW t, Sound(t), Live(t)
      PROVE  Sound(FindStation(t, canAdd))
  <2>1. Sound(Throw(t, "notfound"))
    BY <1>3, ThrowSound DEF Outcomes
  <2>2. CASE t.err # "ok"
    BY <1>3, <2>2 DEF FindStation
  <2>3. CASE t.err = "ok"
    <3>1. Sound([t EXCEPT !.last.stored = TRUE])
      BY <1>3, <2>3 DEF Sound, Base, Typed, Coherent, CachedStation
    <3> QED
      BY <1>3, <2>1, <3>1 DEF FindStation
  <2> QED
    BY <2>2, <2>3
<1> HIDE DEF Live
<1> QED
  BY <1>1, <1>2, <1>3, WritePendingSound DEF GetStation

----------------------------------------------------------------------------
(* Update                                                                  *)

LEMMA LinesReadType ==
    ASSUME NEW f \in Files
    PROVE  /\ LinesRead(f) \in SUBSET Nat /\ IsFiniteSet(LinesRead(f))
           /\ \A k \in LinesRead(f) : f[k] \in Line
<1>1. f \in Seq(Line \cup {BadLine}) /\ DOMAIN f = 1..Len(f) /\ Len(f) \in Nat
  BY FilesAssumption
<1>2. IsFiniteSet(1..Len(f))
  BY <1>1, FS_Interval
<1>3. IsFiniteSet(LinesRead(f))
  BY <1>1, <1>2, FS_Subset DEF LinesRead
<1>4. ASSUME NEW k \in LinesRead(f)
      PROVE  f[k] \in Line
  <2>1. k \in 1..Len(f) /\ k \in 1..k /\ f[k] # BadLine
    BY <1>1 DEF LinesRead
  <2> QED
    BY <1>1, <2>1
<1> QED
  BY <1>1, <1>3, <1>4 DEF LinesRead

\* Reading lines changes what is to become of entries, not what they are.
LEMMA ReadLinesSound ==
    ASSUME NEW s, Sound(s), NEW f \in Files
    PROVE  Sound(ReadLines(s, f))
<1> DEFINE at(c) == {k \in LinesRead(f) : f[k].id = c.id}
           named(c) == [c EXCEPT !.newMemo = Lower[f[Top(at(c))].name],
                                 !.newPrio = f[Top(at(c))].prio]
           entry(c) == IF at(c) = {} THEN c ELSE named(c)
<1>1. \A c \in s.cache : /\ entry(c) \in Entry
                          /\ entry(c).id = c.id /\ entry(c).memo = c.memo
  <2> TAKE c \in s.cache
  <2>1. c \in Entry
    BY DEF Sound, Base, Typed
  <2>2. CASE at(c) = {}
    BY <2>1, <2>2
  <2>3. CASE at(c) # {}
    <3>1. at(c) \in SUBSET Nat /\ IsFiniteSet(at(c))
      BY LinesReadType, FS_Subset
    <3>2. Top(at(c)) \in at(c)
      <4> HIDE DEF at
      <4> QED
        BY <2>3, <3>1, TopType
    <3>3. f[Top(at(c))] \in Line
      BY <3>2, LinesReadType
    <3>4. Lower[f[Top(at(c))].name] \in Memos /\ f[Top(at(c))].prio \in Nat
      BY <3>3, NamesAssumption DEF Line
    <3> HIDE DEF at
    <3> QED
      BY <2>1, <2>3, <3>4 DEF Entry
  <2> QED
    BY <2>2, <2>3
<1>2. ReadLines(s, f) = [s EXCEPT !.cache = {entry(c) : c \in s.cache}]
  BY DEF ReadLines
<1>3. Typed(ReadLines(s, f))
  <2> HIDE DEF entry
  <2> QED
    BY <1>1, <1>2 DEF Sound, Base, Typed
<1>4. Coherent([s EXCEPT !.cache = {entry(c) : c \in s.cache}])
  <2> HIDE DEF entry
  <2>1. [s EXCEPT !.cache = {entry(c) : c \in s.cache}].cache = {entry(c) : c \in s.cache}
    BY DEF Sound, Base, Typed
  <2> QED
    BY <1>1, <2>1 DEF Sound, Base, Typed, Coherent
<1> HIDE DEF entry
<1> QED
  BY <1>2, <1>3, <1>4 DEF Sound, Base, Typed

LEMMA CheckFileSound ==
    ASSUME NEW s, Sound(s), NEW f \in Files
    PROVE  /\ Sound(CheckFile(s, f))
           /\ CheckFile(s, f).err = "ok" => NoRename(CheckFile(s, f))
<1>1. Sound(Throw(s, "parse")) /\ Sound(Throw(s, "conflict"))
  BY ThrowSound DEF Outcomes
<1>2. Throw(s, "parse").err # "ok" /\ Throw(s, "conflict").err # "ok"
  BY DEF Throw, Sound, Base, Typed
<1> QED
  BY <1>1, <1>2 DEF CheckFile, NoRename

LEMMA CheckInUseSound ==
    ASSUME NEW s, Sound(s), s.err = "ok" => NoRename(s)
    PROVE  /\ Sound(CheckInUse(s))
           /\ CheckInUse(s).err = "ok" => NoRename(CheckInUse(s))
<1>1. Sound(Throw(s, "inuse"))
  BY ThrowSound DEF Outcomes
<1>2. Throw(s, "inuse").err # "ok"
  BY DEF Throw, Sound, Base, Typed
<1> QED
  BY <1>1, <1>2 DEF CheckInUse

\* What is written below any bound keeps the id and name of each row, and takes
\* away only stations of reports that go.
LEMMA WriteBeforeSound ==
    ASSUME NEW s, Sound(s), NoRename(s), NEW i
    PROVE  Sound(WriteBefore(s, i))
<1> DEFINE kept(r) == {c \in s.cache : Kept(c) /\ c.id = r.id /\ c.id < i}
           new(r) == IF kept(r) = {} THEN r
                     ELSE Renewed(r, CHOOSE c \in kept(r) : TRUE)
           left == {x \in s.table : ~Gone(s, x.id, i)}
           stay == {st \in s.station : ~Gone(s, st.rep, i)}
           t == [s EXCEPT !.table = {new(r) : r \in left}, !.station = stay]
<1>1. \A r \in s.table : /\ new(r) \in ReportRow
                          /\ new(r).id = r.id /\ new(r).memo = r.memo
  <2> TAKE r \in s.table
  <2>1. r \in ReportRow
    BY DEF Sound, Base, Typed
  <2>2. CASE kept(r) = {}
    BY <2>1, <2>2
  <2>3. CASE kept(r) # {}
    <3>1. PICK c \in s.cache : /\ c = (CHOOSE x \in kept(r) : TRUE)
                               /\ Kept(c) /\ c.id = r.id
      BY <2>3
    <3>2. c.newMemo = r.memo
      BY <3>1 DEF NoRename, Sound, Coherent
    <3>3. c \in Entry
      BY DEF Sound, Base, Typed
    <3>4. Renewed(r, c) \in ReportRow /\ Renewed(r, c).id = r.id
          /\ Renewed(r, c).memo = r.memo
      BY <2>1, <3>2, <3>3 DEF Renewed, ReportRow, Entry
    <3> HIDE DEF kept
    <3> QED
      BY <2>3, <3>1, <3>4
  <2> HIDE DEF kept
  <2> QED
    BY <2>2, <2>3
<1>2. WriteBefore(s, i) = t
  BY DEF WriteBefore, TableBefore
<1> HIDE DEF new
<1>3. IsFiniteSet({new(r) : r \in left})
  <2> DEFINE g == [r \in left |-> new(r)]
  <2>1. IsFiniteSet(left)
    BY FS_Subset DEF Sound, Base, Typed
  <2>2. IsFiniteSet({g[r] : r \in left})
    <3> HIDE DEF left
    <3> QED
      BY <2>1, ImageFinite
  <2>3. {g[r] : r \in left} = {new(r) : r \in left}
    OBVIOUS
  <2> QED
    BY <2>2, <2>3
<1>4. /\ t.table = {new(r) : r \in left} /\ t.station = stay
      /\ t.cache = s.cache
      /\ Typed(t)
  BY <1>1, <1>3 DEF Sound, Base, Typed
<1>5. Consistent(t.table) /\ Coherent(t)
  BY <1>1, <1>4 DEF Sound, Base, Consistent, Coherent
<1>6. Filed(t.table, t.station)
  <2> SUFFICES ASSUME NEW st \in stay
               PROVE  \E r \in t.table : r.id = st.rep /\ r.memo = st.memo
    BY <1>4 DEF Filed
  <2>1. PICK r \in s.table : r.id = st.rep /\ r.memo = st.memo
    BY DEF Filed, Sound, Base
  <2>2. r \in left
    BY <2>1
  <2> QED
    BY <1>1, <1>4, <2>1, <2>2
<1> HIDE DEF t
<1> QED
  BY <1>2, <1>4, <1>5, <1>6 DEF Sound, Base

LEMMA WriteEntriesSound ==
    ASSUME NEW s, Sound(s), s.err = "ok" => NoRename(s)
    PROVE  Sound(WriteEntries(s))
<1>1. ASSUME NEW i, s.err = "ok"
      PROVE  Sound(WriteBefore(s, i)) /\ Sound(Throw(WriteBefore(s, i), "sql"))
  BY <1>1, WriteBeforeSound, ThrowSound DEF Outcomes
<1> QED
  BY <1>1 DEF WriteEntries

\* New items have ids that the cache does not know; up to the first that is
\* refused, or to the end, no two of them nor of the table share an id.
LEMMA WithItemsSound ==
    ASSUME NEW s, Sound(s), NEW f \in Files, NEW n \in Nat,
           \A k \in NewLines(s, f) : k < n => ~Refused(WithItems(s, f, k), Item(f[k]))
    PROVE  Sound([s EXCEPT !.table = WithItems(s, f, n)])
<1> DEFINE before(k) == {j \in NewLines(s, f) : j < k}
           items == {Item(f[j]) : j \in before(n)}
           t == [s EXCEPT !.table = WithItems(s, f, n)]
<1>1. \A k : WithItems(s, f, k) = s.table \cup {Item(f[j]) : j \in before(k)}
  BY DEF WithItems
<1>2. NewLines(s, f) \in SUBSET Nat /\ IsFiniteSet(before(n))
  BY LinesReadType, FS_Subset DEF NewLines
<1>3. \A k \in NewLines(s, f) : /\ Item(f[k]) \in ReportRow
                                /\ Item(f[k]).id = f[k].id
                                /\ f[k].id \notin IdsOf(s.cache)
  BY LinesReadType, NamesAssumption DEF NewLines, Item, Line, ReportRow
<1>4. IsFiniteSet(s.table \cup items)
  <2> DEFINE g == [j \in before(n) |-> Item(f[j])]
  <2>1. IsFiniteSet({g[j] : j \in before(n)})
    <3> HIDE DEF before
    <3> QED
      BY <1>2, ImageFinite
  <2>2. {g[j] : j \in before(n)} = items
    OBVIOUS
  <2> HIDE DEF items
  <2> QED
    BY <2>1, <2>2, FS_Union DEF Sound, Base, Typed
<1>5. /\ t.table = s.table \cup items /\ t.cache = s.cache
      /\ t.station = s.station /\ t.err = s.err
      /\ Typed(t)
  <2>1. items \in SUBSET ReportRow
    BY <1>3
  <2>2. WithItems(s, f, n) = s.table \cup items
    BY <1>1
  <2> HIDE DEF items
  <2> QED
    BY <1>4, <2>1, <2>2 DEF Sound, Base, Typed
<1>6. ASSUME NEW a \in s.table, NEW j \in before(n)
      PROVE  a.id # Item(f[j]).id
  <2>1. a \in WithItems(s, f, j) /\ ~Refused(WithItems(s, f, j), Item(f[j]))
    BY <1>1
  <2> QED
    BY <2>1 DEF Refused
<1>7. ASSUME NEW j \in before(n), NEW k \in before(n), j < k
      PROVE  Item(f[j]).id # Item(f[k]).id
  <2>1. Item(f[j]) \in WithItems(s, f, k)
    BY <1>1, <1>7
  <2>2. ~Refused(WithItems(s, f, k), Item(f[k]))
    OBVIOUS
  <2> QED
    BY <2>1, <2>2 DEF Refused
<1>8. Consistent(s.table \cup items)
  <2> SUFFICES ASSUME NEW a \in s.table \cup items, NEW b \in s.table \cup items,
                      a.id = b.id
               PROVE  a.memo = b.memo
    BY DEF Consistent
  <2>1. CASE a \in s.table /\ b \in s.table
    BY <2>1 DEF Sound, Base, Consistent
  <2>2. CASE a \in items /\ b \in items
    <3>1. PICK j \in before(n) : a = Item(f[j])
      BY <2>2
    <3>2. PICK k \in before(n) : b = Item(f[k])
      BY <2>2
    <3>3. j \in Nat /\ k \in Nat
      BY <1>2
    <3>4. ~ (j < k) /\ ~ (k < j)
      BY <1>7, <3>1, <3>2
    <3>5. j = k
      BY <3>3, <3>4
    <3> QED
      BY <3>1, <3>2, <3>5
  <2>3. CASE a \in s.table /\ b \in items
    BY <1>6, <2>3
  <2>4. CASE a \in items /\ b \in s.table
    BY <1>6, <2>4
  <2> QED
    BY <2>1, <2>2, <2>3, <2>4
<1>9. Filed(s.table \cup items, s.station)
  BY DEF Filed, Sound, Base
<1>10. \A c \in s.cache, r \in s.table \cup items : c.id = r.id => c.memo = r.memo
  <2>1. \A c \in s.cache, j \in before(n) : c.id # Item(f[j]).id
    BY <1>3 DEF IdsOf
  <2> QED
    BY <2>1 DEF Sound, Coherent
<1> HIDE DEF t, items
<1>11. Sound(t)
  BY <1>5, <1>8, <1>9, <1>10 DEF Sound, Base, Coherent
<1> QED
  BY <1>11 DEF t

LEMMA InsertItemsSound ==
    ASSUME NEW s, Sound(s), NEW f \in Files
    PROVE  Sound(InsertItems(s, f))
<1> DEFINE stopped == {k \in NewLines(s, f) : Refused(WithItems(s, f, k), Item(f[k]))}
           m == Least(stopped)
<1>1. NewLines(s, f) \in SUBSET Nat /\ stopped \in SUBSET Nat
  BY LinesReadType DEF NewLines
<1>2. CASE s.err # "ok"
  BY <1>2 DEF InsertItems
<1>3. CASE s.err = "ok" /\ stopped # {}
  <2>1. m \in stopped /\ \A k \in stopped : m <= k
    <3> HIDE DEF stopped
    <3> QED
      BY <1>1, <1>3, LeastType
  <2>2. \A k \in NewLines(s, f) : k < m => k \notin stopped
    <3> HIDE DEF m
    <3> QED
      BY <1>1, <2>1
  <2>3. m \in Nat
    BY <1>1, <2>1
  <2> HIDE DEF m
  <2>4. Sound([s EXCEPT !.table = WithItems(s, f, m)])
    BY <2>2, <2>3, WithItemsSound
  <2>5. InsertItems(s, f) = Throw([s EXCEPT !.table = WithItems(s, f, m)], "sql")
    BY <1>3 DEF InsertItems, m
  <2> QED
    BY <2>4, <2>5, ThrowSound DEF Outcomes
<1>4. CASE s.err = "ok" /\ stopped = {}
  <2>1. Len(f) + 1 \in Nat
    BY FilesAssumption
  <2>2. Sound([s EXCEPT !.table = WithItems(s, f, Len(f) + 1)])
    BY <1>4, <2>1, WithItemsSound
  <2>3. InsertItems(s, f) = [s EXCEPT !.table = WithItems(s, f, Len(f) + 1)]
    BY <1>4 DEF InsertItems
  <2> QED
    BY <2>2, <2>3
<1> QED
  BY <1>2, <1>3, <1>4

LEMMA UpdateSound ==
    ASSUME NEW s, Sound(s), NEW f \in Files
    PROVE  Sound(UpdateCall(s, f))
<1> DEFINE s2 == CheckFile(ReadLines(s, f), f)
           s3 == CheckInUse(s2)
           s5 == InsertItems(WriteEntries(s3), f)
<1>1. Sound(s2) /\ (s2.err = "ok" => NoRename(s2))
  BY ReadLinesSound, CheckFileSound
<1> HIDE DEF s2
<1>2. Sound(s3) /\ (s3.err = "ok" => NoRename(s3))
  BY <1>1, CheckInUseSound
<1> HIDE DEF s3
<1>3. Sound(s5)
  BY <1>2, WriteEntriesSound, InsertItemsSound
<1> HIDE DEF s5
<1>4. Sound(ReadCache(s5))
  <2>1. CASE s5.err = "ok"
    BY <1>3, <2>1, ReadCacheSound DEF Sound
  <2>2. CASE s5.err # "ok"
    BY <1>3, <2>2 DEF ReadCache
  <2> QED
    BY <2>1, <2>2
<1> QED
  BY <1>4 DEF UpdateCall, s2, s3, s5

----------------------------------------------------------------------------
(* Actions                                                                 *)

LEMMA CallInv ==
    ASSUME Inv, NEW s, Sound(s), Call(s)
    PROVE  Inv'
<1>1. /\ table' = s.table /\ cache' = s.cache /\ station' = s.station
      /\ last' = s.last /\ res' = s.err
      /\ fired' = fired /\ saved' = saved /\ begun' = begun
  BY DEF Call
<1>2. TypeOK'
  BY <1>1 DEF Inv, TypeOK, Sound, Base, Typed
<1>3. Sound(Here)'
  BY <1>1 DEF Sound, Base, Typed, Coherent, Here, Outcomes
<1> QED
  BY <1>1, <1>2, <1>3 DEF Inv

\* Between transactions, and at the start of one, the cache is as read.
LEMMA FreshInv ==
    ASSUME NEW T \in SUBSET ReportRow, IsFiniteSet(T), Consistent(T),
           NEW S \in SUBSET StationRow, Filed(T, S)
    PROVE  /\ Read(T) \in SUBSET Entry
           /\ Sound([table |-> T, cache |-> Read(T), station |-> S,
                     last |-> NoStation, err |-> "ok"])
<1> DEFINE s == [table |-> T, cache |-> {}, station |-> S,
                 last |-> NoStation, err |-> "ok"]
           t == [table |-> T, cache |-> Read(T), station |-> S,
                 last |-> NoStation, err |-> "ok"]
<1>1. Base(s) /\ s.err = "ok"
  BY DEF Base, Typed, Outcomes
<1>2. ReadCache(s) = t
  BY DEF ReadCache
<1>3. Sound(t)
  BY <1>1, <1>2, ReadCacheSound
<1> QED
  BY <1>3 DEF Sound, Base, Typed

LEMMA InitInv == ASSUME Init PROVE Inv
<1>1. /\ InitialTable \in SUBSET ReportRow /\ IsFiniteSet(InitialTable)
      /\ Consistent(InitialTable)
      /\ Filed(InitialTable, {})
  BY InitialAssumption DEF Consistent, Filed
<1>2. /\ Read(InitialTable) \in SUBSET Entry
      /\ Sound([table |-> InitialTable, cache |-> Read(InitialTable),
                station |-> {}, last |-> NoStation, err |-> "ok"])
  BY <1>1, FreshInv
<1>3. Sound(Here)
  BY <1>2 DEF Init, Here
<1>4. TypeOK
  BY <1>1, <1>2 DEF Init, TypeOK, Outcomes
<1> QED
  BY <1>1, <1>3, <1>4 DEF Init, Inv

LEMMA NextInv == ASSUME Inv, [Next]_vars PROVE Inv'
<1> USE DEF Inv
<1>1. ASSUME NEW n \in Reports, NEW canAdd \in BOOLEAN, NEW complete \in BOOLEAN,
             Insert(n, canAdd, complete)
      PROVE  Inv'
  <2> DEFINE s == GetStation(Here, n, canAdd)
  <2>1. Sound(s)
    BY GetStationSound, NamesAssumption
  <2> HIDE DEF s
  <2>2. Sound(WritePending(s)) /\ Sound(Throw(s, "usage"))
    BY <2>1, WritePendingSound, ThrowSound DEF Outcomes
  <2>3. Call(WritePending(s)) \/ Call(Throw(s, "usage"))
    BY <1>1 DEF Insert, s
  <2> QED
    BY <2>2, <2>3, CallInv
<1>2. ASSUME NEW f \in Files, Update(f)
      PROVE  Inv'
  <2>1. Sound(UpdateCall(Here, f))
    BY UpdateSound
  <2> QED
    BY <1>2, <2>1, CallInv DEF Update
<1>3. CASE RemoveAll
  <2> DEFINE s == [Here EXCEPT !.station = {}, !.last = NoStation]
  <2>1. Base(s) /\ s.err = "ok"
    BY DEF Sound, Base, Typed, Here, Filed
  <2> HIDE DEF s
  <2>2. Sound(ReadCache(s))
    BY <2>1, ReadCacheSound
  <2> QED
    BY <1>3, <2>2, CallInv DEF RemoveAll, s
<1>4. /\ table \in SUBSET ReportRow /\ IsFiniteSet(table) /\ Consistent(table)
      /\ station \in SUBSET StationRow /\ Filed(table, station)
      /\ begun \in Nat
  BY DEF Sound, Base, Typed, Here, TypeOK
<1>5. /\ saved.table \in SUBSET ReportRow /\ IsFiniteSet(saved.table)
      /\ Consistent(saved.table)
      /\ saved.station \in SUBSET StationRow /\ Filed(saved.table, saved.station)
  BY DEF TypeOK
<1>6. CASE Begin
  <2>1. /\ table' = table /\ station' = station /\ cache' = Read(table)
        /\ last' = NoStation /\ fired' = FALSE /\ res' = "ok"
        /\ saved' = [table |-> table, station |-> station]
        /\ begun' = begun + 1
    BY <1>6 DEF Begin
  <2>2. Sound(Here)' /\ cache' \in SUBSET Entry
    BY <1>4, <2>1, FreshInv DEF Here
  <2>3. begun' \in Nat
    BY <1>4, <2>1
  <2>4. TypeOK'
    <3> HIDE DEF Inv
    <3> QED
      BY <1>4, <2>1, <2>2, <2>3 DEF TypeOK, Outcomes
  <2> QED
    BY <1>4, <2>1, <2>2, <2>4
<1>7. CASE Commit
  <2>1. /\ table' = table /\ station' = station /\ cache' = Read(table)
        /\ last' = NoStation /\ fired' = TRUE /\ res' = "ok"
        /\ saved' = saved /\ begun' = begun
    BY <1>7 DEF Commit
  <2>2. Sound(Here)' /\ cache' \in SUBSET Entry
    BY <1>4, <2>1, FreshInv DEF Here
  <2>3. TypeOK'
    BY <1>4, <2>1, <2>2 DEF TypeOK, Outcomes
  <2> QED
    BY <1>5, <2>1, <2>2, <2>3
<1>8. CASE Rollback
  <2>1. /\ table' = saved.table /\ station' = saved.station
        /\ cache' = Read(saved.table)
        /\ last' = NoStation /\ fired' = TRUE /\ res' = "ok"
        /\ saved' = saved /\ begun' = begun
    BY <1>8 DEF Rollback
  <2>2. Sound(Here)' /\ cache' \in SUBSET Entry
    BY <1>5, <2>1, FreshInv DEF Here
  <2>3. TypeOK'
    BY <1>5, <2>1, <2>2 DEF TypeOK, Outcomes
  <2> QED
    BY <1>5, <2>1, <2>2, <2>3
<1>9. CASE UNCHANGED vars
  BY <1>9 DEF vars, TypeOK, Sound, Base, Typed, Coherent, Here
<1> QED
  BY <1>1, <1>2, <1>3, <1>6, <1>7, <1>8, <1>9 DEF Next

\* No step of an update takes a station away once CheckInUse has passed.
LEMMA UpdateCallKeepsStations ==
    ASSUME NEW s, Sound(s), NEW f \in Files
    PROVE  UpdateCall(s, f).station = s.station
<1>1. \A t, kind : Sound(t) => Throw(t, kind).station = t.station
  BY DEF Throw, Sound, Base, Typed
<1> DEFINE s1 == ReadLines(s, f)
           s2 == CheckFile(s1, f)
           s3 == CheckInUse(s2)
           s4 == WriteEntries(s3)
           s5 == InsertItems(s4, f)
<1>2. Sound(s1) /\ s1.station = s.station
  <2>1. \A C : [s EXCEPT !.cache = C].station = s.station
    BY DEF Sound, Base, Typed
  <2>2. s1.station = s.station
    BY <2>1 DEF ReadLines
  <2> QED
    BY <2>2, ReadLinesSound
<1> HIDE DEF s1
<1>3. /\ Sound(s2) /\ (s2.err = "ok" => NoRename(s2))
      /\ s2.station = s1.station
  BY <1>1, <1>2, CheckFileSound DEF CheckFile
<1> HIDE DEF s2
<1>4. /\ Sound(s3) /\ (s3.err = "ok" => NoRename(s3))
      /\ s3.station = s2.station
  BY <1>1, <1>3, CheckInUseSound DEF CheckInUse
<1>5. s3.err = "ok" =>
         \A c \in s3.cache, st \in s3.station : ~(Doomed(c) /\ st.rep = c.id)
  <2>1. Throw(s2, "inuse").err # "ok"
    BY <1>3 DEF Throw, Sound, Base, Typed
  <2> QED
    BY <2>1 DEF CheckInUse
<1> HIDE DEF s3
<1>6. Sound(s4) /\ s4.station = s3.station
  <2>1. ASSUME NEW i, s3.err = "ok"
        PROVE  /\ WriteBefore(s3, i).station = s3.station
               /\ Throw(WriteBefore(s3, i), "sql").station = s3.station
    <3>1. {st \in s3.station : ~Gone(s3, st.rep, i)} = s3.station
      BY <1>5, <2>1 DEF Gone
    <3>2. WriteBefore(s3, i).station = s3.station
      BY <1>4, <3>1 DEF WriteBefore, Sound, Base, Typed
    <3>3. Sound(WriteBefore(s3, i))
      BY <1>4, <2>1, WriteBeforeSound
    <3> QED
      BY <1>1, <3>2, <3>3
  <2>2. s4.station = s3.station
    BY <2>1 DEF WriteEntries
  <2> QED
    BY <1>4, <2>2, WriteEntriesSound
<1> HIDE DEF s4
<1>7. Sound(s5) /\ s5.station = s4.station
  <2>1. \A T : /\ [s4 EXCEPT !.table = T].station = s4.station
               /\ Throw([s4 EXCEPT !.table = T], "sql").station = s4.station
    BY <1>6 DEF Throw, Sound, Base, Typed
  <2> QED
    BY <1>6, <2>1, InsertItemsSound DEF InsertItems
<1> HIDE DEF s5
<1>8. ReadCache(s5).station = s5.station
  BY <1>7 DEF ReadCache, Sound, Base, Typed
<1> QED
  BY <1>2, <1>3, <1>4, <1>6, <1>7, <1>8 DEF UpdateCall, s1, s2, s3, s4, s5

----------------------------------------------------------------------------
(* What the program can rely on                                            *)

\* Whatever files are loaded, refused or written halfway (repinfo.cc:201-340),
\* and whatever names are asked for, the entries of the table and of the cache
\* keep proper ids and priorities: no id handed out by insert_auto_entry or
\* taken from a file is MISSING_INT or out of the table's range.
THEOREM TableTyped == Spec => []TypeOK
<1>1. Inv => TypeOK
  BY DEF Inv
<1> QED
  BY <1>1, InitInv, NextInv, PTL DEF Spec

\* A station stays filed under the report it was inserted for, whatever files
\* repinfo.cc:291-340 has loaded since, refused, or written halfway, and though
\* ids of reports are given again: with any files, names and initial table.
THEOREM StationsStayFiled == Spec => []FiledUnderItsReport
<1>1. Inv => FiledUnderItsReport
  BY DEF Inv, Sound, Base, Filed, FiledUnderItsReport, Here
<1> QED
  BY <1>1, InitInv, NextInv, PTL DEF Spec

\* An update takes no station away, although the table deletes them on cascade:
\* the entries it deletes are those of which it has just seen that no station
\* refers to them, even when the cache is out of step with the table.
THEOREM UpdatesKeepStations == Spec => UpdateKeepsStations
<1>1. ASSUME Inv, [Next]_vars
      PROVE  [\A f \in Files : Update(f) => station' = station]_vars
  <2>1. ASSUME NEW f \in Files, Update(f)
        PROVE  station' = station
    BY <1>1, <2>1, UpdateCallKeepsStations DEF Inv, Update, Call, Here
  <2> QED
    BY <2>1
<1> QED
  BY <1>1, InitInv, NextInv, PTL DEF Spec, UpdateKeepsStations

----------------------------------------------------------------------------
(* The cache and the table                                                 *)

RowOf(c) == [id |-> c.id, memo |-> c.memo, prio |-> c.prio]

InStep(s) == {RowOf(c) : c \in s.cache} = s.table

\* A step that no statement of the database stops leaves the cache in step.
Steady(s, t) == /\ InStep(s) /\ t.err # "sql" => InStep(t)
                /\ s.err = "sql" => t.err = "sql"

LEMMA SteadyThenSteady ==
    ASSUME NEW s, NEW t, NEW u, Steady(s, t), Steady(t, u)
    PROVE  Steady(s, u)
BY DEF Steady

LEMMA QuietSteady ==
    ASSUME NEW s, NEW t, t.table = s.table, t.cache = s.cache,
           s.err = "sql" => t.err = "sql"
    PROVE  Steady(s, t)
BY DEF Steady, InStep

LEMMA ThrowSteady ==
    ASSUME NEW s, Sound(s), NEW kind
    PROVE  Steady(s, Throw(s, kind))
<1> DEFINE t == Throw(s, kind)
<1>1. t.table = s.table /\ t.cache = s.cache /\ (s.err = "sql" => t.err = "sql")
  BY DEF Throw, Sound, Base, Typed
<1> HIDE DEF t
<1>2. Steady(s, t)
  BY <1>1, QuietSteady
<1> QED
  BY <1>2 DEF t

LEMMA ReadInStep ==
    ASSUME NEW T \in SUBSET ReportRow
    PROVE  {RowOf(c) : c \in Read(T)} = T
<1> DEFINE entry(r) == [id |-> r.id, memo |-> r.memo, prio |-> r.prio,
                        newMemo |-> NoMemo, newPrio |-> 0]
<1>1. \A r \in T : RowOf(entry(r)) = r
  BY DEF RowOf, ReportRow
<1>2. Read(T) = {entry(r) : r \in T}
  BY DEF Read
<1> HIDE DEF entry
<1> QED
  BY <1>1, <1>2

LEMMA ReadCacheSteady ==
    ASSUME NEW s, Base(s)
    PROVE  /\ s.err = "ok" => InStep(ReadCache(s))
           /\ ReadCache(s).err = s.err /\ ReadCache(s).table = s.table
<1>1. s.err = "ok" => /\ ReadCache(s).cache = Read(s.table)
                      /\ ReadCache(s).table = s.table
  BY DEF ReadCache, Base, Typed
<1>2. s.table \in SUBSET ReportRow
  BY DEF Base, Typed
<1>3. ReadCache(s).err = s.err /\ ReadCache(s).table = s.table
  BY DEF ReadCache, Base, Typed
<1> QED
  BY <1>1, <1>2, <1>3, ReadInStep DEF InStep

\* An automatic entry is refused, or the cache is read with it.
LEMMA ObtainIdSteady ==
    ASSUME NEW s, Sound(s), NEW n \in Names
    PROVE  Steady(s, ObtainId(s, n))
<1> DEFINE r == AutoEntry(s, Key(n))
           t == ObtainId(s, n)
<1>1. CASE s.err # "ok" \/ Known(s, Key(n))
  <2>1. t = s
    BY <1>1 DEF ObtainId
  <2> QED
    BY <2>1, QuietSteady
<1>2. CASE s.err = "ok" /\ ~Known(s, Key(n))
  <2>1. r \in ReportRow
    <3>1. /\ Top(IdsOf(s.table)) \in Nat
          /\ Top({x.prio : x \in s.table}) \in Nat
      BY ColumnsFinite, TopType DEF Sound, Base, Typed
    <3> QED
      BY <3>1, KeyType DEF AutoEntry, ReportRow, RowIds
  <2>2. t = ReadCache(InsertRow(s, r))
    BY <1>2 DEF ObtainId
  <2> HIDE DEF r, t
  <2> DEFINE i == InsertRow(s, r)
  <2>3. Base(i)
    BY <2>1, InsertRowBase DEF Sound
  <2>4. i.err \in {"ok", "sql"}
    BY <1>2 DEF InsertRow, Throw, Sound, Base, Typed
  <2> HIDE DEF i
  <2>5. /\ i.err = "ok" => InStep(ReadCache(i))
        /\ ReadCache(i).err = i.err
    BY <2>3, ReadCacheSteady
  <2>6. t = ReadCache(i)
    BY <2>2 DEF i
  <2>7. Steady(s, t)
    BY <1>2, <2>4, <2>5, <2>6 DEF Steady
  <2> QED
    BY <2>7 DEF t
<1> QED
  BY <1>1, <1>2

LEMMA WritePendingSteady ==
    ASSUME NEW s, Sound(s)
    PROVE  Steady(s, WritePending(s))
<1> DEFINE t == WritePending(s)
<1>1. t.table = s.table /\ t.cache = s.cache
  BY DEF WritePending, Throw, Sound, Base, Typed
<1>2. s.err = "sql" => t.err = "sql"
  BY DEF WritePending
<1> HIDE DEF t
<1>3. Steady(s, t)
  BY <1>1, <1>2, QuietSteady
<1> QED
  BY <1>3 DEF t

LEMMA GetStationSteady ==
    ASSUME NEW s, Sound(s), NEW n \in Names, NEW canAdd \in BOOLEAN
    PROVE  Steady(s, GetStation(s, n, canAdd))
<1> DEFINE s1 == WritePending(s)
           s2 == CacheStation(s1, n)
           s3 == ObtainId(s2, n)
           s4 == FindStation(s3, canAdd)
<1>1. Sound(s1) /\ Steady(s, s1)
  BY WritePendingSound, WritePendingSteady
<1> HIDE DEF s1
<1>2. Sound(s2) /\ s2.table = s1.table /\ s2.cache = s1.cache
      /\ (s1.err = "sql" => s2.err = "sql")
  BY <1>1 DEF CacheStation, CachedStation, Sound, Base, Typed, Coherent
<1> HIDE DEF s2
<1>3. Steady(s1, s2)
  BY <1>2, QuietSteady
<1>4. Sound(s3) /\ Steady(s2, s3)
  BY <1>2, ObtainIdSound, ObtainIdSteady
<1> HIDE DEF s3
<1>5. s4.table = s3.table /\ s4.cache = s3.cache /\ (s3.err = "sql" => s4.err = "sql")
  BY <1>4 DEF FindStation, Throw, Sound, Base, Typed
<1> HIDE DEF s4
<1>6. Steady(s3, s4)
  BY <1>5, QuietSteady
<1>7. Steady(s, s4)
  BY <1>1, <1>3, <1>4, <1>6, SteadyThenSteady
<1>8. Steady(s, s)
  BY QuietSteady
<1>9. GetStation(s, n, canAdd) = s \/ GetStation(s, n, canAdd) = s4
  BY DEF GetStation, s1, s2, s3, s4
<1> QED
  BY <1>7, <1>8, <1>9

\* Reading a file tells the cache what is to become of its entries.
LEMMA ReadLinesSteady ==
    ASSUME NEW s, Sound(s), NEW f \in Files
    PROVE  Steady(s, ReadLines(s, f))
<1> DEFINE at(c) == {k \in LinesRead(f) : f[k].id = c.id}
           named(c) == [c EXCEPT !.newMemo = Lower[f[Top(at(c))].name],
                                 !.newPrio = f[Top(at(c))].prio]
           entry(c) == IF at(c) = {} THEN c ELSE named(c)
           t == ReadLines(s, f)
<1>1. t = [s EXCEPT !.cache = {entry(c) : c \in s.cache}]
  BY DEF ReadLines
<1>2. \A c \in s.cache : RowOf(entry(c)) = RowOf(c)
  <2> TAKE c \in s.cache
  <2>1. c \in Entry
    BY DEF Sound, Base, Typed
  <2>2. \A x, y : RowOf([c EXCEPT !.newMemo = x, !.newPrio = y]) = RowOf(c)
    BY <2>1 DEF RowOf, Entry
  <2> HIDE DEF at
  <2> QED
    BY <2>2
<1> HIDE DEF entry
<1>3. t.table = s.table /\ t.err = s.err /\ t.cache = {entry(c) : c \in s.cache}
  BY <1>1 DEF Sound, Base, Typed
<1> HIDE DEF t
<1>4. {RowOf(c) : c \in t.cache} = {RowOf(c) : c \in s.cache}
  BY <1>2, <1>3
<1>5. Steady(s, t)
  BY <1>3, <1>4 DEF Steady, InStep
<1> QED
  BY <1>5 DEF t

\* Once the checks have passed an update is written whole, and the cache read
\* again, or a statement is refused.
LEMMA UpdateSteady ==
    ASSUME NEW s, Sound(s), NEW f \in Files
    PROVE  Steady(s, UpdateCall(s, f))
<1> DEFINE s1 == ReadLines(s, f)
           s2 == CheckFile(s1, f)
           s3 == CheckInUse(s2)
           s4 == WriteEntries(s3)
           s5 == InsertItems(s4, f)
<1>1. Sound(s1) /\ Steady(s, s1)
  BY ReadLinesSound, ReadLinesSteady
<1> HIDE DEF s1
<1>2. Sound(s2) /\ (s2.err = "ok" => NoRename(s2))
  BY <1>1, CheckFileSound
<1>3. Steady(s1, s2)
  <2>1. s2 \in {s1, Throw(s1, "parse"), Throw(s1, "conflict")}
    BY DEF CheckFile
  <2> HIDE DEF s2
  <2>2. Steady(s1, s1)
    BY QuietSteady
  <2> QED
    BY <1>1, <2>1, <2>2, ThrowSteady
<1> HIDE DEF s2
<1>4. Sound(s3) /\ (s3.err = "ok" => NoRename(s3))
  BY <1>2, CheckInUseSound
<1>5. Steady(s2, s3)
  <2>1. s3 \in {s2, Throw(s2, "inuse")}
    BY DEF CheckInUse
  <2> HIDE DEF s3
  <2>2. Steady(s2, s2)
    BY QuietSteady
  <2> QED
    BY <1>2, <2>1, <2>2, ThrowSteady
<1> HIDE DEF s3
<1>6. UpdateCall(s, f) = ReadCache(s5)
  BY DEF UpdateCall, s1, s2, s3
<1>7. Steady(s3, ReadCache(s5))
  <2>1. CASE s3.err # "ok"
    <3>1. s4 = s3 /\ s5 = s3 /\ ReadCache(s3) = s3
      BY <2>1 DEF WriteEntries, InsertItems, ReadCache
    <3> QED
      BY <3>1, QuietSteady
  <2>2. CASE s3.err = "ok"
    <3>1. \A i : WriteBefore(s3, i).err = "ok" /\ Throw(WriteBefore(s3, i), "sql").err = "sql"
      BY <1>4, <2>2 DEF WriteBefore, Throw, Sound, Base, Typed
    <3>2. Sound(s4) /\ s4.err \in {"ok", "sql"}
      BY <1>4, <2>2, <3>1, WriteEntriesSound DEF WriteEntries
    <3> HIDE DEF s4
    <3>3. \A T : /\ [s4 EXCEPT !.table = T].err = s4.err
                 /\ s4.err = "ok" => Throw([s4 EXCEPT !.table = T], "sql").err = "sql"
      BY <3>2 DEF Throw, Sound, Base, Typed
    <3>4. Sound(s5) /\ s5.err \in {"ok", "sql"}
      BY <3>2, <3>3, InsertItemsSound DEF InsertItems
    <3> HIDE DEF s5
    <3> QED
      BY <2>2, <3>4, ReadCacheSteady DEF Steady, Sound
  <2> QED
    BY <2>1, <2>2
<1> QED
  BY <1>1, <1>3, <1>5, <1>6, <1>7, SteadyThenSteady

LEMMA CallSteady ==
    ASSUME NEW s, Steady(Here, s), Call(s)
    PROVE  CacheMirrorsTable /\ res' # "sql" => CacheMirrorsTable'
<1>1. table' = s.table /\ cache' = s.cache /\ res' = s.err
  BY DEF Call
<1>2. CacheMirrorsTable <=> InStep(Here)
  BY DEF CacheMirrorsTable, InStep, RowOf, Here
<1>3. CacheMirrorsTable' <=> InStep(s)
  BY <1>1 DEF CacheMirrorsTable, InStep, RowOf
<1> QED
  BY <1>1, <1>2, <1>3 DEF Steady

\* Only a statement that is refused halfway through an update takes the cache out of
\* step with the table: an automatic entry is read back, a file refused by a check
\* changes only what is to become of entries, and a rollback reads again what it
\* brings back (repinfo.cc:60-73, 201-340).
THEOREM CacheMirrors == Spec => CacheStaysInStep
<1>1. ASSUME Inv, [Next]_vars
      PROVE  [CacheMirrorsTable /\ res' # "sql" => CacheMirrorsTable']_vars
  <2> DEFINE Goal == CacheMirrorsTable /\ res' # "sql" => CacheMirrorsTable'
  <2>0. Sound(Here) /\ TypeOK
    BY <1>1 DEF Inv
  <2>1. ASSUME NEW n \in Reports, NEW a \in BOOLEAN, NEW c \in BOOLEAN, Insert(n, a, c)
        PROVE  Goal
    <3> DEFINE g == GetStation(Here, n, a)
               t == IF c THEN WritePending(g) ELSE Throw(g, "usage")
    <3>1. n \in Names
      BY NamesAssumption
    <3>2. Sound(g) /\ Steady(Here, g)
      BY <2>0, <3>1, GetStationSound, GetStationSteady
    <3>3. Call(t)
      BY <2>1 DEF Insert
    <3> HIDE DEF g
    <3>4. Steady(g, t)
      BY <3>2, WritePendingSteady, ThrowSteady
    <3> HIDE DEF t
    <3>5. Steady(Here, t)
      BY <3>2, <3>4, SteadyThenSteady
    <3> QED
      BY <3>3, <3>5, CallSteady
  <2>2. ASSUME NEW f \in Files, Update(f)
        PROVE  Goal
    <3>1. Steady(Here, UpdateCall(Here, f)) /\ Call(UpdateCall(Here, f))
      BY <2>0, <2>2, UpdateSteady DEF Update
    <3> QED
      BY <3>1, CallSteady
  <2>3. CASE RemoveAll
    <3> DEFINE e == [Here EXCEPT !.station = {}, !.last = NoStation]
    <3>1. Base(e) /\ e.err = "ok"
      BY <2>0 DEF Sound, Base, Typed, Here, Filed
    <3>2. table' = ReadCache(e).table /\ cache' = ReadCache(e).cache
      BY <2>3 DEF RemoveAll, Call
    <3> HIDE DEF e
    <3>3. InStep(ReadCache(e))
      BY <3>1, ReadCacheSteady
    <3> QED
      BY <3>2, <3>3 DEF InStep, CacheMirrorsTable, RowOf
  <2>4. CASE Begin
    BY <2>0, <2>4, ReadInStep DEF Begin, CacheMirrorsTable, RowOf, TypeOK
  <2>5. CASE Commit
    BY <2>0, <2>5, ReadInStep DEF Commit, CacheMirrorsTable, RowOf, TypeOK
  <2>6. CASE Rollback
    <3>1. saved.table \in SUBSET ReportRow /\ table' = saved.table /\ cache' = Read(saved.table)
      BY <2>0, <2>6 DEF Rollback, TypeOK
    <3> QED
      BY <3>1, ReadInStep DEF CacheMirrorsTable, RowOf
  <2> QED
    BY <1>1, <2>1, <2>2, <2>3, <2>4, <2>5, <2>6 DEF Next
<1> QED
  BY <1>1, InitInv, NextInv, PTL DEF Spec, CacheStaysInStep

----------------------------------------------------------------------------
(* What an update writes                                                   *)

\* The lines for an id, and what the last of them says.
At(f, id) == {k \in LinesRead(f) : f[k].id = id}
LastLine(f, id) == f[Top(At(f, id))]

LEMMA LastLineType ==
    ASSUME NEW f \in Files, NEW id, At(f, id) # {}
    PROVE  /\ Top(At(f, id)) \in LinesRead(f) /\ LastLine(f, id).id = id
           /\ \A k \in LinesRead(f) : f[k].id = id => k <= Top(At(f, id))
<1>1. At(f, id) \in SUBSET Nat /\ IsFiniteSet(At(f, id))
  <2>1. At(f, id) \in SUBSET LinesRead(f)
    BY DEF At
  <2> QED
    BY <2>1, LinesReadType, FS_Subset
<1>2. Top(At(f, id)) \in At(f, id) /\ \A j \in At(f, id) : j <= Top(At(f, id))
  BY <1>1, TopType
<1> QED
  BY <1>2 DEF At, LastLine

\* The rows of a file are the items of the last line of each id.
LEMMA RowsOfFile ==
    ASSUME NEW f \in Files
    PROVE  /\ \A id : At(f, id) # {} => Item(LastLine(f, id)) \in RowsOf(f)
           /\ \A r \in RowsOf(f) : \E k \in LinesRead(f) :
                 /\ r = Item(f[k]) /\ f[k] = LastLine(f, f[k].id)
                 /\ At(f, f[k].id) # {}
           /\ \A k \in LinesRead(f) :
                 (\A j \in LinesRead(f) : f[j].id = f[k].id => j <= k)
                 => Item(f[k]) \in RowsOf(f)
<1>1. \A k \in LinesRead(f) :
         (\A j \in LinesRead(f) : f[j].id = f[k].id => j <= k) => Item(f[k]) \in RowsOf(f)
  BY DEF RowsOf
<1>2. ASSUME NEW id, At(f, id) # {}
      PROVE  Item(LastLine(f, id)) \in RowsOf(f)
  BY <1>1, <1>2, LastLineType DEF LastLine
<1>3. ASSUME NEW r \in RowsOf(f)
      PROVE  \E k \in LinesRead(f) : /\ r = Item(f[k]) /\ f[k] = LastLine(f, f[k].id)
                                     /\ At(f, f[k].id) # {}
  <2>1. PICK k \in LinesRead(f) : /\ r = Item(f[k])
                                  /\ \A j \in LinesRead(f) : f[j].id = f[k].id => j <= k
    BY DEF RowsOf
  <2>2. At(f, f[k].id) # {}
    BY DEF At
  <2> DEFINE m == Top(At(f, f[k].id))
  <2>3. m \in LinesRead(f) /\ f[m].id = f[k].id /\ k <= m
    BY <2>2, LastLineType DEF LastLine
  <2>4. k \in Nat /\ m \in Nat
    BY <2>3, LinesReadType
  <2>5. m = k
    <3> HIDE DEF m
    <3> QED
      BY <2>1, <2>3, <2>4
  <2> QED
    BY <2>1, <2>2, <2>5 DEF LastLine
<1> QED
  BY <1>1, <1>2, <1>3

\* The values an entry gets: those of the last line for its id.
Told(f, c) == IF At(f, c.id) = {} THEN c.newMemo = NoMemo
              ELSE /\ c.newMemo = Lower[LastLine(f, c.id).name]
                   /\ c.newPrio = LastLine(f, c.id).prio

LEMMA ReadLinesTells ==
    ASSUME NEW s, Sound(s), s.cache = Read(s.table), NEW f \in Files
    PROVE  /\ ReadLines(s, f).table = s.table
           /\ ReadLines(s, f).err = s.err
           /\ IdsOf(ReadLines(s, f).cache) = IdsOf(s.table)
           /\ \A c \in ReadLines(s, f).cache :
                 /\ Told(f, c)
                 /\ \E r \in s.table : c.id = r.id /\ c.memo = r.memo
<1> DEFINE fresh(r) == [id |-> r.id, memo |-> r.memo, prio |-> r.prio,
                        newMemo |-> NoMemo, newPrio |-> 0]
           named(c) == [c EXCEPT !.newMemo = Lower[LastLine(f, c.id).name],
                                 !.newPrio = LastLine(f, c.id).prio]
           entry(c) == IF At(f, c.id) = {} THEN c ELSE named(c)
           t == ReadLines(s, f)
<1>1. t = [s EXCEPT !.cache = {entry(c) : c \in s.cache}]
  BY DEF ReadLines, At, LastLine
<1>2. \A r : LET c == entry(fresh(r)) IN c.id = r.id /\ c.memo = r.memo /\ Told(f, c)
  <2> TAKE r
  <2>1. CASE At(f, r.id) = {}
    BY <2>1 DEF Told
  <2>2. CASE At(f, r.id) # {}
    <3>1. entry(fresh(r)) = [id |-> r.id, memo |-> r.memo, prio |-> r.prio,
                             newMemo |-> Lower[LastLine(f, r.id).name],
                             newPrio |-> LastLine(f, r.id).prio]
      BY <2>2
    <3> HIDE DEF entry, fresh
    <3> QED
      BY <2>2, <3>1 DEF Told
  <2> QED
    BY <2>1, <2>2
<1>3. s.cache = {fresh(r) : r \in s.table}
  BY DEF Read
<1> HIDE DEF entry, fresh
<1>4. t.table = s.table /\ t.err = s.err /\ t.cache = {entry(fresh(r)) : r \in s.table}
  BY <1>1, <1>3 DEF Sound, Base, Typed
<1> HIDE DEF t
<1>5. IdsOf(t.cache) = IdsOf(s.table)
  BY <1>2, <1>4 DEF IdsOf
<1>6. \A c \in t.cache : Told(f, c) /\ \E r \in s.table : c.id = r.id /\ c.memo = r.memo
  BY <1>2, <1>4
<1> QED
  BY <1>4, <1>5, <1>6 DEF t

\* Past the last id, every entry a file names has its new values, and the others
\* are gone.
LEMMA EntriesWritten ==
    ASSUME NEW s, Sound(s), NEW f \in Files,
           IdsOf(s.cache) = IdsOf(s.table),
           \A c \in s.cache : Told(f, c) /\ c.memo # NoMemo,
           \A r \in RowsOf(f) : r.memo # NoMemo
    PROVE  TableBefore(s, Top(IdsOf(s.cache)) + 1) =
             {Item(LastLine(f, id)) : id \in {i \in IdsOf(s.table) : At(f, i) # {}}}
<1> DEFINE n == Top(IdsOf(s.cache)) + 1
           kept(r) == {c \in s.cache : Kept(c) /\ c.id = r.id /\ c.id < n}
           new(r) == IF kept(r) = {} THEN r ELSE Renewed(r, CHOOSE c \in kept(r) : TRUE)
           left == {x \in s.table : ~Gone(s, x.id, n)}
<1>1. n \in Nat /\ \A c \in s.cache : c.id \in Nat /\ c.id < n
  <2>1. IdsOf(s.cache) \in SUBSET Nat /\ IsFiniteSet(IdsOf(s.cache))
    BY ColumnsFinite DEF Sound, Base, Typed
  <2>2. Top(IdsOf(s.cache)) \in Nat /\ \A i \in IdsOf(s.cache) : i <= Top(IdsOf(s.cache))
    BY <2>1, TopType
  <2>3. \A c \in s.cache : c.id \in IdsOf(s.cache)
    BY DEF IdsOf
  <2> QED
    BY <2>1, <2>2, <2>3
<1> HIDE DEF n
<1>2. \A id : At(f, id) # {} =>
         Lower[LastLine(f, id).name] # NoMemo /\ LastLine(f, id).id = id
  <2>1. \A l : Item(l).memo = Lower[l.name]
    BY DEF Item
  <2>2. \A id : At(f, id) # {} => Item(LastLine(f, id)).memo # NoMemo
    BY RowsOfFile
  <2>3. \A id : At(f, id) # {} => LastLine(f, id).id = id
    BY LastLineType
  <2> QED
    BY <2>1, <2>2, <2>3
<1>3. \A c \in s.cache : /\ Kept(c) <=> At(f, c.id) # {}
                         /\ Doomed(c) <=> At(f, c.id) = {}
  BY <1>2 DEF Kept, Doomed, Told
<1>4. \A r \in s.table : \E c \in s.cache : c.id = r.id
  <2>1. \A r \in s.table : r.id \in IdsOf(s.cache)
    BY DEF IdsOf
  <2> QED
    BY <2>1 DEF IdsOf
<1>5. \A r \in s.table : Gone(s, r.id, n) <=> At(f, r.id) = {}
  BY <1>1, <1>3, <1>4 DEF Gone
<1>6. ASSUME NEW r \in s.table, At(f, r.id) # {}
      PROVE  new(r) = Item(LastLine(f, r.id))
  <2>1. kept(r) # {}
    BY <1>1, <1>3, <1>4, <1>6
  <2>2. PICK c \in kept(r) : new(r) = Renewed(r, c)
    BY <2>1
  <2>3. c.newMemo = Lower[LastLine(f, r.id).name] /\ c.newPrio = LastLine(f, r.id).prio
    BY <2>2, <1>6 DEF Told
  <2>4. r \in ReportRow
    BY DEF Sound, Base, Typed
  <2> HIDE DEF new, kept
  <2>5. new(r) = [id |-> r.id, memo |-> c.newMemo, prio |-> c.newPrio]
    BY <2>2, <2>4 DEF Renewed, ReportRow
  <2> QED
    BY <2>3, <2>5, <1>2, <1>6 DEF Item
<1>7. TableBefore(s, n) = {new(r) : r \in left}
  BY DEF TableBefore
<1>8. left = {r \in s.table : At(f, r.id) # {}}
  BY <1>5
<1> HIDE DEF new, left
<1>9. TableBefore(s, n) =
        {Item(LastLine(f, r.id)) : r \in {x \in s.table : At(f, x.id) # {}}}
  BY <1>6, <1>7, <1>8
<1> QED
  BY <1>9 DEF IdsOf, n

\* With an item for each line that names no entry, these are the rows of the file.
LEMMA ItemsWritten ==
    ASSUME NEW s, NEW f \in Files, NEW ids,
           s.table = {Item(LastLine(f, id)) : id \in {i \in ids : At(f, i) # {}}},
           IdsOf(s.cache) = ids,
           \A k \in NewLines(s, f) : ~Refused(WithItems(s, f, k), Item(f[k]))
    PROVE  WithItems(s, f, Len(f) + 1) = RowsOf(f)
<1>1. \A k \in LinesRead(f) : k \in Nat /\ k < Len(f) + 1
  <2>1. f \in Seq(Line \cup {BadLine})
    BY FilesAssumption
  <2> QED
    BY <2>1 DEF LinesRead
<1>2. NewLines(s, f) = {k \in LinesRead(f) : f[k].id \notin ids}
  BY DEF NewLines
<1>3. WithItems(s, f, Len(f) + 1) = s.table \cup {Item(f[k]) : k \in NewLines(s, f)}
  BY <1>1, <1>2 DEF WithItems
<1>4. ASSUME NEW k \in NewLines(s, f)
      PROVE  Item(f[k]) \in RowsOf(f)
  <2>1. ASSUME NEW j \in LinesRead(f), f[j].id = f[k].id, ~ (j <= k)
        PROVE  FALSE
    <3>1. j \in NewLines(s, f) /\ k < j
      BY <1>1, <1>2, <2>1
    <3>2. Item(f[k]) \in WithItems(s, f, j)
      BY <3>1 DEF WithItems
    <3>3. Refused(WithItems(s, f, j), Item(f[j]))
      BY <3>2, <2>1 DEF Refused, Item
    <3> QED
      BY <3>1, <3>3
  <2> QED
    BY <2>1, <1>2, RowsOfFile
<1>5. ASSUME NEW r \in RowsOf(f)
      PROVE  r \in s.table \cup {Item(f[k]) : k \in NewLines(s, f)}
  <2>1. PICK k \in LinesRead(f) : /\ r = Item(f[k]) /\ f[k] = LastLine(f, f[k].id)
                                  /\ At(f, f[k].id) # {}
    BY RowsOfFile
  <2>2. CASE f[k].id \in ids
    <3>1. r = Item(LastLine(f, f[k].id))
      BY <2>1
    <3> QED
      BY <3>1, <2>1, <2>2
  <2>3. CASE f[k].id \notin ids
    BY <1>2, <2>1, <2>3
  <2> QED
    BY <2>2, <2>3
<1>6. s.table \subseteq RowsOf(f)
  BY RowsOfFile
<1> QED
  BY <1>3, <1>4, <1>5, <1>6

\* An update that returns has passed every check and refused no statement.
LEMMA UpdateWrites ==
    ASSUME NEW s, Sound(s), s.err = "ok", s.cache = Read(s.table), NEW f \in Files,
           \A r \in s.table \cup RowsOf(f) : r.memo # NoMemo,
           UpdateCall(s, f).err = "ok"
    PROVE  UpdateCall(s, f).table = RowsOf(f)
<1> DEFINE s1 == ReadLines(s, f)
           s2 == CheckFile(s1, f)
           s3 == CheckInUse(s2)
           s4 == WriteEntries(s3)
           s5 == InsertItems(s4, f)
           n == Top(IdsOf(s1.cache)) + 1
<1>1. Sound(s1) /\ s1.table = s.table /\ s1.err = "ok"
      /\ IdsOf(s1.cache) = IdsOf(s.table)
      /\ \A c \in s1.cache : Told(f, c) /\ c.memo # NoMemo
  <2>1. Sound(s1)
    BY ReadLinesSound
  <2> HIDE DEF s1
  <2> QED
    BY <2>1, ReadLinesTells DEF s1
<1>2. UpdateCall(s, f) = ReadCache(s5)
  BY DEF UpdateCall
<1> HIDE DEF s1
<1>3. \A t, kind : Sound(t) /\ t.err = "ok" => Throw(t, kind).err = kind
  BY DEF Throw, Sound, Base, Typed
<1>4. Sound(s2) /\ (s2.err = "ok" => s2 = s1 /\ NoRename(s2))
  <2>1. s2 \in {s1, Throw(s1, "parse"), Throw(s1, "conflict")}
    BY DEF CheckFile
  <2>2. Sound(s2) /\ (s2.err = "ok" => NoRename(s2))
    BY <1>1, CheckFileSound
  <2> HIDE DEF s2
  <2> QED
    BY <1>1, <1>3, <2>1, <2>2
<1> HIDE DEF s2
<1>5. Sound(s3) /\ (s3.err = "ok" => s3 = s1 /\ NoRename(s3))
  <2>1. s3 = s2 \/ s3 = Throw(s2, "inuse")
    BY DEF CheckInUse
  <2>2. s2.err # "ok" => Throw(s2, "inuse") = s2
    BY DEF Throw
  <2>3. Sound(s3) /\ (s3.err = "ok" => NoRename(s3))
    BY <1>4, CheckInUseSound
  <2> HIDE DEF s3
  <2> QED
    BY <1>3, <1>4, <2>1, <2>2, <2>3
<1> HIDE DEF s3
<1>6. s4.err = "ok" => /\ s3 = s1 /\ s1.cache = s4.cache
                       /\ s4.table = TableBefore(s1, n)
  <2>1. CASE s3.err # "ok"
    BY <2>1 DEF WriteEntries
  <2>2. CASE s3.err = "ok"
    <3>1. s3 = s1
      BY <1>5, <2>2
    <3>2. \A i : /\ WriteBefore(s1, i).err = "ok"
                 /\ WriteBefore(s1, i).cache = s1.cache
                 /\ WriteBefore(s1, i).table = TableBefore(s1, i)
                 /\ Throw(WriteBefore(s1, i), "sql").err = "sql"
      BY <1>1 DEF WriteBefore, Throw, Sound, Base, Typed
    <3>3. s4 = WriteBefore(s1, n) \/ \E i : s4 = Throw(WriteBefore(s1, i), "sql")
      BY <2>2, <3>1 DEF WriteEntries
    <3> HIDE DEF s4
    <3> QED
      BY <3>1, <3>2, <3>3
  <2> QED
    BY <2>1, <2>2
<1>7. Sound(s4)
  BY <1>5, WriteEntriesSound
<1> HIDE DEF s4
<1>8. s5.err = "ok" =>
        /\ s4.err = "ok" /\ s5.table = WithItems(s4, f, Len(f) + 1)
        /\ \A k \in NewLines(s4, f) : ~Refused(WithItems(s4, f, k), Item(f[k]))
  <2>1. CASE s4.err # "ok"
    BY <2>1 DEF InsertItems
  <2>2. CASE s4.err = "ok"
    <3> DEFINE stopped == {k \in NewLines(s4, f) :
                             Refused(WithItems(s4, f, k), Item(f[k]))}
    <3>1. \A T : /\ [s4 EXCEPT !.table = T].table = T
                 /\ Throw([s4 EXCEPT !.table = T], "sql").err = "sql"
      BY <1>7, <2>2 DEF Throw, Sound, Base, Typed
    <3>2. IF stopped = {} THEN s5 = [s4 EXCEPT !.table = WithItems(s4, f, Len(f) + 1)]
          ELSE \E T : s5 = Throw([s4 EXCEPT !.table = T], "sql")
      BY <2>2 DEF InsertItems
    <3>3. CASE stopped = {}
      BY <2>2, <3>1, <3>2, <3>3
    <3>4. CASE stopped # {}
      <4> HIDE DEF s5, stopped
      <4> QED
        BY <3>1, <3>2, <3>4
    <3> QED
      BY <3>3, <3>4
  <2> QED
    BY <2>1, <2>2
<1>9. Sound(s5)
  BY <1>7, InsertItemsSound
<1> HIDE DEF s5
<1>10. s5.err = "ok" /\ UpdateCall(s, f).table = s5.table
  BY <1>2, <1>9, ReadCacheSteady DEF Sound
<1>11. TableBefore(s1, n) =
         {Item(LastLine(f, id)) : id \in {i \in IdsOf(s1.table) : At(f, i) # {}}}
  BY <1>1, EntriesWritten
<1>12. s5.table = RowsOf(f)
  BY <1>1, <1>6, <1>8, <1>10, <1>11, ItemsWritten
<1> QED
  BY <1>10, <1>12

\* An update that returns leaves in the table the last line the file has for each
\* id, whatever was there: entries renewed in place, entries gone that it does not
\* name, entries added (repinfo.cc:75-340). A file that repeats a line for an entry
\* gives it the last one; one that repeats a line for a new id does not return.
THEOREM UpdatesFollowFiles == Spec => UpdateFollowsFile
<1>1. ASSUME Inv, [Next]_vars
      PROVE  [\A f \in Files :
                /\ Update(f)
                /\ res' = "ok"
                /\ cache = Read(table)
                /\ \A r \in table \cup RowsOf(f) : r.memo # NoMemo
                => table' = RowsOf(f)]_vars
  <2>1. ASSUME NEW f \in Files, Update(f), res' = "ok", cache = Read(table),
               \A r \in table \cup RowsOf(f) : r.memo # NoMemo
        PROVE  table' = RowsOf(f)
    <3>1. Sound(Here) /\ Here.table = table /\ Here.cache = cache /\ Here.err = "ok"
      BY <1>1 DEF Inv, Here
    <3>2. table' = UpdateCall(Here, f).table /\ UpdateCall(Here, f).err = "ok"
      BY <2>1 DEF Update, Call
    <3> QED
      BY <2>1, <3>1, <3>2, UpdateWrites
  <2> QED
    BY <2>1
<1> QED
  BY <1>1, InitInv, NextInv, PTL DEF Spec, UpdateFollowsFile

=============================================================================
