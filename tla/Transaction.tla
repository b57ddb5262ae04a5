---------------------------- MODULE Transaction ----------------------------
(***************************************************************************)
(* dballe::db::v7::Transaction: the calls that a program makes on one      *)
(* transaction of a database opened by one connection, each call one       *)
(* action.  The tables are those of the SQL database as seen inside the    *)
(* transaction; saved is what ROLLBACK returns to.                         *)
(***************************************************************************)
EXTENDS Batch

CONSTANTS
    StationVarSets,  \* the sets of variables of a call of insert_station_data
    VarSets,      \* the sets of variables of a call of insert_data
    Messages,     \* the messages that may be imported:
                  \*   [key, svars, dt, data : set of [lt, code, val, attr]]
    Queries,      \* the queries that may be given to remove_*:
                  \*   [ids : stations matched, codes, attrOnly : BOOLEAN]
    AttrTargets,  \* the row ids whose attributes a caller may change
    MaxTransactions  \* bound on the number of transactions

\* The variables of a call, and those of a message in one context, have each a
\* code of its own (dballe/values.h).
ASSUME VarSetsAssumption ==
    \A V \in StationVarSets \cup VarSets :
        /\ V \subseteq Var /\ IsFiniteSet(V)
        /\ \A a, b \in V : a.code = b.code => a = b
ASSUME MessagesAssumption ==
    \A m \in Messages :
        /\ m.key \in Stations \cup {NoKey}
        /\ m.dt \in Datetimes \cup {NoDatetime}
        /\ m.svars \subseteq Var /\ IsFiniteSet(m.svars)
        /\ m.data \subseteq [lt : LevTrs, code : Codes, val : Vals, attr : BOOLEAN]
        /\ IsFiniteSet(m.data)
        /\ \A a, b \in m.svars : a.code = b.code => a = b
        /\ \A a, b \in m.data : a.lt = b.lt /\ a.code = b.code => a = b

VARIABLES
    station, levtr, rows,   \* the SQL tables
    last, wattrs,           \* Batch::last_station and Batch::write_attrs
    cache,                  \* LevTr::cache
    fired,                  \* no transaction is open
    saved,                  \* the tables when the transaction began
    begun,                  \* how many transactions have begun
    res                     \* outcome of the last call: "ok" or an exception

vars == <<station, levtr, rows, last, wattrs, cache, fired, saved,
          begun, res>>

Ids == 1..MaxId

Here == [station |-> station, levtr |-> levtr, rows |-> rows, last |-> last,
         cache |-> cache, attrs |-> wattrs, err |-> "ok"]

Tables == [station |-> station, levtr |-> levtr, rows |-> rows]

\* Tables that earlier transactions of one connection have left.
Consistent(t) ==
    /\ t \in [station : SUBSET StationRow, levtr : SUBSET LevTrRow, rows : SUBSET DataRow]
    /\ IsFiniteSet(t.station) /\ IsFiniteSet(t.levtr) /\ IsFiniteSet(t.rows)
    /\ \A a, b \in t.station : a.id = b.id \/ a.key = b.key => a = b
    /\ \A a, b \in t.levtr : a.id = b.id \/ a.lt = b.lt => a = b
    /\ \A a, b \in t.rows : SameTable(a, b) /\ a.id = b.id => a = b
    /\ \A a, b \in t.rows : a.st = b.st /\ SameKey(a, b) => a = b
    /\ \A r \in t.rows : r.st \in IdsOf(t.station)
    /\ \A r \in t.rows : IF r.ctx = StationCtx THEN r.lt = MissingId
                         ELSE r.lt \in IdsOf(t.levtr)

ImportOptions == [overwrite : BOOLEAN, updateStation : BOOLEAN,
                  importAttributes : BOOLEAN]

----------------------------------------------------------------------------
(* The calls, as operators on the record of module Batch                   *)

ModeOf(canReplace) == IF canReplace THEN "UPDATE" ELSE "ERROR"

ImportMode(o) == IF o.overwrite THEN "UPDATE" ELSE "IGNORE"

AddStationVars(s, V, mode) ==
    Add(Load(s, StationCtx), StationCtx, AtLevTr(MissingId, V), mode)

InsertStationDataCall(s, key, id, V, canReplace, canAdd) ==
    WritePending(AddStationVars(GetStation(s, key, id, canAdd), V,
                                ModeOf(canReplace)))

InsertAt(s, dt, lt, V, mode) ==
    IF dt = NoDatetime THEN Throw(s, "usage")
    ELSE IF lt = NoLevTr THEN Throw(Load(s, dt), "usage")
    ELSE WritePending(AddAtLevTr(ObtainLevTrs(Load(s, dt), {lt}),
                                 dt, AtLevTr(lt, V), mode))

InsertDataCall(s, key, id, dt, lt, V, canReplace, canAdd) ==
    IF V = {} THEN Throw(s, "empty")
    ELSE InsertAt(GetStation(s, key, id, canAdd), dt, lt, V, ModeOf(canReplace))

\* Mutant: a station created by an earlier call still counts as new.
AddMsgStationOfNew(s, m, o) ==
    IF s.err = "ok" /\ m.svars # {} /\ (o.updateStation \/ s.last.isNew)
    THEN AddStationVars(s, m.svars, ImportMode(o))
    ELSE s

\* Station values are imported when asked, or for a station not yet written.
AddMsgStation(s, m, o) ==
    IF s.err = "ok" /\ m.svars # {}
       /\ (o.updateStation \/ (s.last.isNew /\ s.last.id = MissingId))
    THEN AddStationVars(s, m.svars, ImportMode(o))
    ELSE s

AddMsgData(s, m, o) ==
    IF m.data = {} THEN s
    ELSE IF m.dt = NoDatetime THEN Throw(s, "notfound")
    ELSE AddAtLevTr(ObtainLevTrs(Load(s, m.dt), {d.lt : d \in m.data}),
                    m.dt, m.data, ImportMode(o))

AddMsgToBatch(s, m, o) ==
    IF m.key = NoKey THEN Throw(s, "notfound")
    ELSE AddMsgData(AddMsgStation(GetStation(s, m.key, MissingId, TRUE), m, o),
                    m, o)

\* Mutant: what is queued is kept (batch.cc:24).
SetWriteAttrsOnly(s, b) == [s EXCEPT !.attrs = b]

\* Changing write_attrs throws away what is cached.
SetWriteAttrs(s, b) ==
    [s EXCEPT !.attrs = b, !.last = IF s.attrs = b THEN @ ELSE NoStation]

ImportMessageCall(s, m, o) ==
    WritePending(AddMsgToBatch(SetWriteAttrs(s, o.importAttributes), m, o))

\* import_messages of a vector of two messages: one write_pending at the end.
ImportMessagesCall(s, m1, m2, o) ==
    WritePending(AddMsgToBatch(
        AddMsgToBatch(SetWriteAttrs(s, o.importAttributes), m1, o), m2, o))

\* After a call that throws, the queue still points to the caller's variables: what is
\* written of them later may be anything. (So may the code and the attributes, read
\* through the same pointers: sqlite/data.cc:233-236, 357-362. Only the value is
\* modelled so.)
Abandon(L) ==
    IF L = NoStation THEN L
    ELSE [L EXCEPT !.queue = {[q EXCEPT !.val = Garbage] : q \in @}]

\* The call ends in s. If it throws the caller may free what it passed.
Return(s) ==
    /\ station' = s.station
    /\ levtr' = s.levtr
    /\ rows' = s.rows
    /\ cache' = s.cache
    /\ wattrs' = s.attrs
    /\ res' = s.err
    /\ \/ last' = s.last
       \/ s.err # "ok" /\ last' = Abandon(s.last)

\* Bound: room is left in each table for the rows of any single call.
Room(s) == /\ \A i \in IdsOf(s.station) : i <= MaxId
           /\ \A i \in IdsOf(s.levtr) : i <= MaxId
           /\ \A i \in IdsOf(s.rows) : i <= MaxId

Call(s) ==
    /\ ~fired
    /\ Room(s)
    /\ Return(s)
    /\ UNCHANGED <<fired, saved, begun>>

----------------------------------------------------------------------------
(* Actions: one for each call                                              *)

InsertStationData(key, id, V, canReplace, canAdd) ==
    Call(InsertStationDataCall(Here, key, id, V, canReplace, canAdd))

InsertData(key, id, dt, lt, V, canReplace, canAdd) ==
    Call(InsertDataCall(Here, key, id, dt, lt, V, canReplace, canAdd))

ImportMessage(m, o) == Call(ImportMessageCall(Here, m, o))

ImportMessages(m1, m2, o) == Call(ImportMessagesCall(Here, m1, m2, o))

Selects(q, r) == r.st \in q.ids /\ r.code \in q.codes /\ (q.attrOnly => r.attr)

\* Mutant: batch.clear() is missing (transaction.cc:192, 201, 209, 216).
DeleteRowsOnly(D) ==
    /\ ~fired
    /\ rows' = rows \ D
    /\ res' = "ok"
    /\ UNCHANGED <<station, levtr, last, wattrs, cache, fired, saved, begun>>

\* Delete rows and forget the cached station, queue included.
DeleteRows(D) ==
    /\ ~fired
    /\ rows' = rows \ D
    /\ last' = NoStation
    /\ res' = "ok"
    /\ UNCHANGED <<station, levtr, wattrs, cache, fired, saved, begun>>

RemoveStationData(q) ==
    DeleteRows({r \in rows : r.ctx = StationCtx /\ Selects(q, r)})

RemoveData(q) == DeleteRows({r \in rows : r.ctx # StationCtx /\ Selects(q, r)})

RemoveStationDataById(id) ==
    DeleteRows({r \in rows : r.ctx = StationCtx /\ r.id = id})

RemoveDataById(id) == DeleteRows({r \in rows : r.ctx # StationCtx /\ r.id = id})

RemoveAll ==
    /\ ~fired
    /\ rows' = {} /\ levtr' = {} /\ station' = {}
    /\ last' = NoStation /\ cache' = {}
    /\ res' = "ok"
    /\ UNCHANGED <<wattrs, fired, saved, begun>>

\* Mutant: station values and measured values share their ids.
SetAttrsEverywhere(ofStation, id, b) ==
    /\ ~fired
    /\ rows' = {IF r.id = id THEN [r EXCEPT !.attr = b] ELSE r : r \in rows}
    /\ res' = "ok"
    /\ UNCHANGED <<station, levtr, last, wattrs, cache, fired, saved, begun>>

\* attr_insert_* and attr_remove_* of the row id of one of the two tables.
SetAttrs(ofStation, id, b) ==
    /\ ~fired
    /\ rows' = {IF r.id = id /\ (r.ctx = StationCtx) = ofStation
                THEN [r EXCEPT !.attr = b] ELSE r : r \in rows}
    /\ res' = "ok"
    /\ UNCHANGED <<station, levtr, last, wattrs, cache, fired, saved, begun>>

AttrInsert(ofStation, id) == SetAttrs(ofStation, id, TRUE)

AttrRemove(ofStation, id) == SetAttrs(ofStation, id, FALSE)

\* A new Transaction object: BEGIN, and empty caches.
Begin ==
    /\ fired
    /\ begun < MaxTransactions
    /\ begun' = begun + 1
    /\ fired' = FALSE
    /\ saved' = Tables
    /\ last' = NoStation /\ cache' = {} /\ wattrs' = TRUE
    /\ res' = "ok"
    /\ UNCHANGED <<station, levtr, rows>>

Commit ==
    /\ ~fired
    /\ fired' = TRUE
    /\ last' = NoStation /\ cache' = {}
    /\ saved' = Tables
    /\ res' = "ok"
    /\ UNCHANGED <<station, levtr, rows, wattrs, begun>>

\* rollback, or the destruction of an open transaction.
Rollback ==
    /\ ~fired
    /\ fired' = TRUE
    /\ station' = saved.station /\ levtr' = saved.levtr /\ rows' = saved.rows
    /\ last' = NoStation /\ cache' = {}
    /\ res' = "ok"
    /\ UNCHANGED <<wattrs, saved, begun>>

\* DB::vacuum, a transaction of its own: unused levels, then the values of
\* stations without measured values, then those stations.
Vacuum ==
    LET used == {r.lt : r \in {x \in rows : x.ctx # StationCtx}}
        live == {r.st : r \in {x \in rows : x.ctx # StationCtx}}
    IN  /\ fired
        /\ levtr' = {r \in levtr : r.id \in used}
        /\ rows' = {r \in rows : r.st \in live}
        /\ station' = {r \in station : r.id \in live}
        /\ saved' = [station |-> station', levtr |-> levtr', rows |-> rows']
        /\ res' = "ok"
        /\ UNCHANGED <<last, wattrs, cache, fired, begun>>

Init ==
    /\ station = {} /\ levtr = {} /\ rows = {}
    /\ last = NoStation /\ cache = {} /\ wattrs = TRUE
    /\ fired = TRUE
    /\ begun = 0
    /\ saved = [station |-> {}, levtr |-> {}, rows |-> {}]
    /\ res = "ok"

\* A caller names a station by its key or by its id.
StationRef == (Stations \X {MissingId}) \cup ({NoKey} \X (Ids \cup {MissingId}))

Next ==
    \/ \E ref \in StationRef, V \in StationVarSets, cr, ca \in BOOLEAN :
          InsertStationData(ref[1], ref[2], V, cr, ca)
    \/ \E ref \in StationRef, V \in VarSets, cr, ca \in BOOLEAN,
          dt \in Datetimes \cup {NoDatetime}, lt \in LevTrs \cup {NoLevTr} :
          InsertData(ref[1], ref[2], dt, lt, V, cr, ca)
    \/ \E m \in Messages, o \in ImportOptions :
          \/ ImportMessage(m, o)
          \/ \E m2 \in Messages : ImportMessages(m, m2, o)
    \/ \E q \in Queries : RemoveStationData(q) \/ RemoveData(q)
    \/ \E id \in Ids : RemoveStationDataById(id) \/ RemoveDataById(id)
    \/ \E id \in AttrTargets, b \in BOOLEAN : AttrInsert(b, id) \/ AttrRemove(b, id)
    \/ RemoveAll
    \/ Begin
    \/ Commit
    \/ Rollback
    \/ Vacuum

Spec == Init /\ [][Next]_vars

=============================================================================
