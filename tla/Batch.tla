------------------------------- MODULE Batch -------------------------------
(***************************************************************************)
(* The write path of the v7 database layer: the SQL tables it writes and   *)
(* the per-transaction cache (dballe/db/v7/batch.cc) through which every   *)
(* insert and import goes.                                                 *)
(*                                                                         *)
(* Everything here is an operator on a record s that holds what one call   *)
(* of the Transaction API can see and change:                              *)
(*   s.station  rows of table station:      [id, key]                      *)
(*   s.levtr    rows of table levtr:        [id, lt]                       *)
(*   s.rows     rows of tables station_data (ctx = StationCtx) and data    *)
(*              (ctx = a datetime): [id, st, ctx, lt, code, val, attr]     *)
(*   s.last     Batch::last_station, or NoStation                          *)
(*   s.cache    the LevTrCache of the transaction, a set of levtr rows     *)
(*   s.attrs    Batch::write_attrs                                         *)
(*   s.err      "ok", or the kind of the exception the call throws         *)
(*                                                                         *)
(* The code has two copies of the same cache logic, one for station values *)
(* and one for measured values; here they are one, told apart by ctx.      *)
(***************************************************************************)
EXTENDS Integers, FiniteSets

CONSTANTS
    Stations,     \* what identifies a station: report, coordinates, ident
    Mobile,       \* the members of Stations that have an ident
    NoKey,        \* a DBStation with missing coordinates
    Datetimes,    \* date and times of measured values, as numbers
    NoDatetime,   \* a missing datetime
    StationCtx,   \* the context of station values
    LevTrs,       \* pairs of level and time range, as numbers
    NoLevTr,      \* a missing level or time range
    Codes,        \* variable codes, as numbers
    Vals,         \* values of variables
    Garbage,      \* what is read through a pointer to a freed variable
    NoStation,    \* last_station = nullptr
    MaxId         \* bound on the row ids of each table

ASSUME MaxIdAssumption == MaxId \in Nat
ASSUME OrderAssumption == /\ Datetimes \subseteq Nat
                          /\ LevTrs \subseteq Nat
                          /\ Codes \subseteq Nat
ASSUME SentinelAssumption == /\ NoKey \notin Stations
                             /\ StationCtx \notin Datetimes
                             /\ NoDatetime \notin Datetimes
                             /\ NoLevTr \notin LevTrs
ASSUME MobileAssumption == Mobile \subseteq Stations

RowIds == Nat \ {0}
MissingId == 0                               \* MISSING_INT
Contexts == Datetimes \cup {StationCtx}

StationRow == [id : RowIds, key : Stations]
LevTrRow == [id : RowIds, lt : LevTrs]
DataRow == [id : RowIds, st : RowIds, ctx : Contexts, lt : RowIds \cup {MissingId},
            code : Codes, val : Vals \cup {Garbage}, attr : BOOLEAN]

\* What is known of a row that the batch has read or written.
KnownId == [id : RowIds, ctx : Contexts, lt : RowIds \cup {MissingId}, code : Codes]

\* A queued write: an insert if its id is missing, an update of row id if not.
Datum == [id : RowIds \cup {MissingId}, ctx : Contexts,
          lt : RowIds \cup {MissingId}, code : Codes,
          val : Vals \cup {Garbage}, attr : BOOLEAN]

CachedStation == [key : Stations, id : RowIds \cup {MissingId}, isNew : BOOLEAN,
                  loaded : SUBSET Contexts, ids : SUBSET KnownId,
                  queue : SUBSET Datum]

ASSUME NoStationAssumption == NoStation \notin CachedStation

\* How a call ends: normally, or with an exception from the SQL library, for
\* an incomplete argument, for what is not found, for lack of variables, or
\* because it would overwrite a value.
Outcomes == {"ok", "sql", "usage", "notfound", "empty", "exists"}

\* A variable handed over by the caller; attr says if it has attributes.
Var == [code : Codes, val : Vals, attr : BOOLEAN]

----------------------------------------------------------------------------
(* Keys and row ids                                                        *)

SameKey(a, b) == a.ctx = b.ctx /\ a.lt = b.lt /\ a.code = b.code

\* station_data and data are two tables, each with ids of its own.
SameTable(a, b) == (a.ctx = StationCtx) <=> (b.ctx = StationCtx)

\* The order in which inserts of the same table are executed.
Before(a, b) ==
    \/ a.ctx # StationCtx /\ b.ctx # StationCtx /\ a.ctx < b.ctx
    \/ a.ctx = b.ctx /\ a.lt < b.lt
    \/ a.ctx = b.ctx /\ a.lt = b.lt /\ a.code < b.code

\* SQLite gives a new row of a table without AUTOINCREMENT the id after the
\* largest one in use.
Top(T) == IF T = {} THEN 0 ELSE CHOOSE i \in T : \A j \in T : j <= i

IdsOf(R) == {r.id : r \in R}

----------------------------------------------------------------------------
(* Station cache                                                           *)

(* A call is a chain of steps, each an operator from record to record; once *)
(* a step has thrown, those after it do nothing.                           *)

Throw(s, kind) == IF s.err # "ok" THEN s ELSE [s EXCEPT !.err = kind]

Fresh(key) == [key |-> key, id |-> MissingId, isNew |-> TRUE,
               loaded |-> {}, ids |-> {}, queue |-> {}]

HaveStation(s, key) == s.last # NoStation /\ s.last.key = key

\* Station::insert_new, if the station has no row yet. The UNIQUE
\* constraint does not apply to a NULL ident: a fixed station is never refused.
InsertStation(s) ==
    LET new == Top(IdsOf(s.station)) + 1 IN
    IF s.last.id # MissingId THEN s
    ELSE IF \E r \in s.station : r.key = s.last.key /\ r.key \in Mobile
         THEN Throw(s, "sql")
    ELSE [s EXCEPT !.station = @ \cup {[id |-> new, key |-> s.last.key]},
                   !.last.id = new]

Inserts(L) == {q \in L.queue : q.id = MissingId}
Updates(L) == {q \in L.queue : q.id # MissingId}

\* Mutant: the first id is the last one used.
NewRowIdOffByOne(s, q) ==
    Top({r.id : r \in {x \in s.rows : SameTable(x, q)}})
    + Cardinality({p \in Inserts(s.last) : SameTable(p, q) /\ Before(p, q)})

\* The id that the row inserted for q gets, when the inserts of the cached
\* station run in order after the rows already there.
NewRowId(s, q) ==
    Top({r.id : r \in {x \in s.rows : SameTable(x, q)}})
    + Cardinality({p \in Inserts(s.last) : SameTable(p, q)
                                           /\ (p = q \/ Before(p, q))})

\* UNIQUE (id_station, datetime, id_levtr, code) and the foreign keys.
BreaksConstraint(s) ==
    \E q \in Inserts(s.last) :
        \/ \E r \in s.rows : r.st = s.last.id /\ SameKey(r, q)
        \/ s.last.id \notin IdsOf(s.station)
        \/ q.ctx # StationCtx /\ q.lt \notin IdsOf(s.levtr)

\* Mutant: the new ids are not added to those known (batch.cc:194-201, 244-252).
InsertRowsForgettingIds(s) ==
    IF s.err # "ok" THEN s
    ELSE IF BreaksConstraint(s) THEN Throw(s, "sql")
    ELSE [s EXCEPT !.rows = @ \cup
             {[id |-> NewRowId(s, q), st |-> s.last.id, ctx |-> q.ctx,
               lt |-> q.lt, code |-> q.code, val |-> q.val,
               attr |-> q.attr /\ s.attrs] : q \in Inserts(s.last)}]

InsertRows(s) ==
    LET new == {[id |-> NewRowId(s, q), st |-> s.last.id, ctx |-> q.ctx,
                 lt |-> q.lt, code |-> q.code, val |-> q.val,
                 attr |-> q.attr /\ s.attrs] : q \in Inserts(s.last)}
        known == {[id |-> r.id, ctx |-> r.ctx, lt |-> r.lt,
                   code |-> r.code] : r \in new}
        stale == {i \in s.last.ids : \E k \in known : SameKey(i, k)}
    IN  IF s.err # "ok" THEN s
        ELSE IF BreaksConstraint(s) THEN Throw(s, "sql")
        ELSE [s EXCEPT !.rows = @ \cup new,
                       !.last.ids = (@ \ stale) \cup known]

\* The updates, after which the queue is empty.
UpdateRows(s) ==
    LET hits(r) == {q \in Updates(s.last) : SameTable(q, r) /\ q.id = r.id}
        updated(r) == IF hits(r) = {} THEN r
                      ELSE LET q == CHOOSE q \in hits(r) : TRUE IN
                           [r EXCEPT !.val = q.val,
                                     !.attr = q.attr /\ s.attrs]
    IN  IF s.err # "ok" THEN s
        ELSE [s EXCEPT !.rows = {updated(r) : r \in @}, !.last.queue = {}]

\* Batch::write_pending and Station::write_pending: insert the station if it
\* is missing, then the queued inserts, then the queued updates.
WritePending(s) ==
    IF s.err # "ok" \/ s.last = NoStation THEN s
    ELSE UpdateRows(InsertRows(InsertStation(s)))

CacheStation(s, key) ==
    IF s.err # "ok" THEN s ELSE [s EXCEPT !.last = Fresh(key)]

\* Cache another station, writing first what is still queued for the old one.
NewStation(s, key) == CacheStation(WritePending(s), key)

SetStationId(s, id) ==
    IF s.err # "ok" THEN s
    ELSE [s EXCEPT !.last.id = id, !.last.isNew = FALSE]

\* Mutant: a missing ident is compared with = instead of IS NULL.
LookupMobileStation(s, key) == {r \in s.station : r.key = key /\ key \in Mobile}

\* select ... FROM station: execute_one refuses more than one row.
LookupStation(s, key) == {r \in s.station : r.key = key}

\* Mutant: is_new is not reset for a station found on the database
\* (batch.cc:87, 112).
FindStationAsNew(s, canAdd) ==
    LET found == LookupStation(s, s.last.key) IN
    IF s.err # "ok" THEN s
    ELSE IF found = {} THEN
             IF canAdd THEN [s EXCEPT !.last.loaded = {StationCtx}]
             ELSE Throw(s, "notfound")
    ELSE [s EXCEPT !.last.id = (CHOOSE r \in found : TRUE).id]

\* Look for the row of the station just cached. One that has no row has no
\* station values to load either.
FindStation(s, canAdd) ==
    LET found == LookupStation(s, s.last.key) IN
    IF s.err # "ok" THEN s
    ELSE IF \E a, b \in found : a # b THEN Throw(s, "sql")
    ELSE IF found = {} THEN
             IF canAdd THEN [s EXCEPT !.last.loaded = {StationCtx}]
             ELSE Throw(s, "notfound")
    ELSE SetStationId(s, (CHOOSE r \in found : TRUE).id)

GetStationByKey(s, key, canAdd) ==
    IF HaveStation(s, key) THEN s ELSE FindStation(NewStation(s, key), canAdd)

GetStationById(s, id) ==
    LET found == {r \in s.station : r.id = id} IN
    IF id = MissingId THEN Throw(s, "usage")
    ELSE IF s.last # NoStation /\ s.last.id = id THEN s
    ELSE IF found = {} THEN Throw(s, "notfound")
    ELSE SetStationId(NewStation(s, (CHOOSE r \in found : TRUE).key), id)

GetStation(s, key, id, canAdd) ==
    IF s.err # "ok" THEN s
    ELSE IF key = NoKey THEN GetStationById(s, id)
    ELSE GetStationByKey(s, key, canAdd)

----------------------------------------------------------------------------
(* Data cache                                                              *)

\* get_station_data and get_measured_data: read the ids of the rows of the
\* cached station in ctx, once. A station cached as new has no measured rows.
Load(s, ctx) ==
    LET onDb == {r \in s.rows : r.st = s.last.id /\ r.ctx = ctx}
        found == IF ctx = StationCtx \/ ~s.last.isNew THEN onDb ELSE {}
    IN  IF s.err # "ok" \/ ctx \in s.last.loaded THEN s
        ELSE [s EXCEPT !.last.loaded = @ \cup {ctx},
                       !.last.ids = @ \cup
                           {[id |-> r.id, ctx |-> r.ctx, lt |-> r.lt,
                             code |-> r.code] : r \in found}]

\* Queue the variables V, members of [lt, code, val, attr], in context ctx.
\* mode is the batch::UpdateMode for those that are already on the database.
Add(s, ctx, V, mode) ==
    LET item(v, id) == [id |-> id, ctx |-> ctx, lt |-> v.lt, code |-> v.code,
                        val |-> v.val, attr |-> v.attr]
        match(v) == {i \in s.last.ids : SameKey(i, item(v, MissingId))}
        clashes == {v \in V : mode = "ERROR" /\ match(v) # {}}
        taken == {v \in V : /\ mode = "IGNORE" => match(v) = {}
                            /\ \A w \in clashes :
                                 Before(item(v, MissingId), item(w, MissingId))}
        queued == {item(v, IF match(v) = {} THEN MissingId
                           ELSE (CHOOSE i \in match(v) : TRUE).id) : v \in taken}
        replaced == {q \in s.last.queue : \E p \in queued : SameKey(p, q)}
    IN  IF s.err # "ok" THEN s
        ELSE [s EXCEPT !.last.queue = (@ \ replaced) \cup queued,
                       !.err = IF clashes = {} THEN @ ELSE "exists"]

\* Mutant: the table is not searched (sqlite/levtr.cc:143).
ObtainLevTrsFromCache(s, L) ==
    LET missing == {l \in L : \A c \in s.cache : c.lt # l}
        new == {[id |-> Top(IdsOf(s.levtr))
                        + Cardinality({m \in missing : m <= l}),
                 lt |-> l] : l \in missing}
    IN  IF s.err # "ok" THEN s
        ELSE [s EXCEPT !.levtr = @ \cup new, !.cache = @ \cup new]

\* LevTr::obtain_id for each of L: from the cache, else from the table, else
\* as a new row of the table.
ObtainLevTrs(s, L) ==
    LET uncached == {l \in L : \A c \in s.cache : c.lt # l}
        onDb == {r \in s.levtr : r.lt \in uncached}
        missing == {l \in uncached : \A r \in onDb : r.lt # l}
        new == {[id |-> Top(IdsOf(s.levtr))
                        + Cardinality({m \in missing : m <= l}),
                 lt |-> l] : l \in missing}
    IN  IF s.err # "ok" THEN s
        ELSE [s EXCEPT !.levtr = @ \cup new, !.cache = @ \cup onDb \cup new]

LevTrId(s, l) == (CHOOSE c \in s.cache : c.lt = l).id

\* The variables V in the database row of their level and time range.
WithLevTr(s, V) == {[lt |-> LevTrId(s, x.lt), code |-> x.code, val |-> x.val,
                     attr |-> x.attr] : x \in V}

\* Queue variables that name a level and time range by what it is.
AddAtLevTr(s, ctx, V, mode) == Add(s, ctx, WithLevTr(s, V), mode)

AtLevTr(lt, V) == {[lt |-> lt, code |-> x.code, val |-> x.val,
                    attr |-> x.attr] : x \in V}

=============================================================================
