----------------------------- MODULE Connections -----------------------------
(***************************************************************************)
(* Programs that write one PostgreSQL database at the same time            *)
(* (dballe/db/v7/postgresql, dballe/sql/postgresql.cc): each statement of  *)
(* a call is a step of its own, on the snapshot that its transaction took  *)
(* when it began (REPEATABLE READ) and the changes made since.             *)
(*                                                                         *)
(*   db      what is committed: [station, levtr, data]                     *)
(*   tx      for each connection, its transaction on the server: state,    *)
(*           snapshot, and the tables as its statements see them           *)
(*   fired   for each connection, whether its Transaction object is done   *)
(*   call    for each connection, the call under way: its arguments and    *)
(*           the writes still to send; or NoCall                           *)
(*   calls   for each connection, the calls made                           *)
(*   last    for each connection, the station that the batch of its        *)
(*           Transaction has cached (last_station): its key and row id     *)
(*                                                                         *)
(* stored is a history variable: what the calls of the transaction that    *)
(* returned have written, unless one of them threw. Selects read the       *)
(* snapshot, so they are part of the step that begins the call. A call     *)
(* may replace values and add stations: what the batch refuses besides is  *)
(* in Transaction. One datetime, one code.                                 *)
(***************************************************************************)
EXTENDS Naturals, FiniteSets, Sequences, Relation

CONSTANTS
    Conns,
    Fixed, Mobile,  \* stations without ident, and with one
    LevTrs,
    Vals,           \* values of variables
    Requests,       \* for each connection, the calls its program makes:
                    \*   [kind, key, lt, val]
    MaxId,          \* bound on the ids in use
    MaxCalls,       \* bound on the calls of a connection
    NoCall,
    NoStation,      \* last_station = nullptr
    Databases       \* what may be committed when the programs begin

VARIABLES db, tx, fired, call, calls, stored, last

connVars == <<db, tx, fired, call, calls, stored, last>>

Stations == Fixed \cup Mobile
MissingId == 0   \* MISSING_INT
NothingCached == [key |-> NoStation, id |-> MissingId]

StationRow == [id : 1..MaxId, key : Stations]
LevTrRow == [id : 1..MaxId, lt : LevTrs]
DataRow == [id : 1..MaxId, st : 1..MaxId, lt : 1..MaxId, val : Vals, ver : 1..MaxId]
TableSet == [station : SUBSET StationRow, levtr : SUBSET LevTrRow, data : SUBSET DataRow]

ASSUME RequestsAssumption ==
    \A c \in Conns : \A a \in Requests[c] :
        a.key \in Stations /\ a.lt \in LevTrs /\ a.val \in Vals

ASSUME NoStationAssumption == NoStation \notin Stations

ASSUME DatabasesAssumption ==
    \A D \in Databases :
       /\ D \in TableSet
       /\ \A t \in DOMAIN D : \A x, y \in D[t] : x.id = y.id => x = y
       /\ \A d \in D.data : /\ \E s \in D.station : s.id = d.st
                            /\ \E l \in D.levtr : l.id = d.lt

Empty == [station |-> {}, levtr |-> {}, data |-> {}]
NoTransaction == [state |-> "idle", by |-> "nobody", snap |-> Empty, view |-> Empty]

IdsIn(R) == {r.id : r \in R}
RowsOf(D, key) == {r \in D.station : r.key = key}
LevTrRows(D, lt) == {r \in D.levtr : r.lt = lt}
DataRows(D, key, lt) ==
    {r \in D.data : r.st \in IdsIn(RowsOf(D, key)) /\ r.lt \in IdsIn(LevTrRows(D, lt))}

\* The SERIAL sequences and the versions of rows: a number that no table has,
\* committed or not. Nobody remembers the others.
Used(D) == (UNION {IdsIn(D[t]) : t \in DOMAIN D}) \cup {r.ver : r \in D.data}
Taken == Used(db) \cup UNION {Used(tx[c].snap) \cup Used(tx[c].view) : c \in Conns}
NewId == LET taken == Taken IN CHOOSE n \in 1..MaxId : n \notin taken

\* Bound: MaxId.
Room == LET taken == Taken IN \E n \in 1..MaxId : n \notin taken

----------------------------------------------------------------------------
(* The server                                                              *)

Inserted(c, t) == {r \in tx[c].view[t] : r.id \notin IdsIn(tx[c].snap[t])}
Removed(c, t) == {r \in tx[c].snap[t] : r.id \notin IdsIn(tx[c].view[t])}
Changed(c, t) == {r \in tx[c].view[t] \ tx[c].snap[t] : r.id \in IdsIn(tx[c].snap[t])}
Touched(c, t) == IdsIn(Removed(c, t) \cup Changed(c, t))

\* The unique indexes of create_tables_v7: no two idents are NULL alike.
Clash(t, a, b) ==
    CASE t = "station" -> a.key = b.key /\ a.key \in Mobile
      [] t = "levtr"   -> a.lt = b.lt
      [] t = "data"    -> a.st = b.st /\ a.lt = b.lt

\* Row d refers to row r of table t, which has a cascade.
Refers(t, d, r) == (t = "station" /\ d.st = r.id) \/ (t = "levtr" /\ d.lt = r.id)

\* Whether open transaction o makes statement s wait until it ends.
Blocks(o, s) ==
    \E r \in s.rows :
       \/ s.op = "insert" /\ \E x \in Inserted(o, s.t) \cup Removed(o, s.t) : Clash(s.t, r, x)
       \/ s.op = "insert" /\ s.t = "data" /\ \E t \in {"station", "levtr"} :
             \E x \in Removed(o, t) : Refers(t, r, x)
       \/ s.op # "insert" /\ r.id \in Touched(o, s.t)
       \/ s.op = "delete" /\ \E d \in Inserted(o, "data") : Refers(s.t, d, r)

\* Another transaction has committed a change of a row that c sees.
Lost(c, s) ==
    \E r \in s.rows : /\ r.id \in IdsIn(tx[c].snap[s.t])
                      /\ \A x \in db[s.t] : r.id = x.id => x \notin tx[c].snap[s.t]

DanglesIn(c, s) ==
    s.t = "data" /\ \E r \in s.rows : \E t \in {"station", "levtr"} :
       \A x \in db[t] \cup Inserted(c, t) : ~Refers(t, r, x)

\* Mutant: READ COMMITTED, the default that transaction() replaces: a row that
\* another transaction has changed or removed is no error.
RefusedReadCommitted(c, s) ==
    s.op = "insert" /\ \/ \E r \in s.rows, x \in db[s.t] :
                             x.id \notin Touched(c, s.t) /\ Clash(s.t, r, x)
                       \/ DanglesIn(c, s)

\* Mutant: the tables without REFERENCES (postgresql/driver.cc:79).
RefusedByKey(c, s) ==
    \/ s.op = "insert" /\ \E r \in s.rows, x \in db[s.t] :
          x.id \notin Touched(c, s.t) /\ Clash(s.t, r, x)
    \/ s.op # "insert" /\ Lost(c, s)

\* Whether the server refuses statement s: a constraint, or a row that has
\* changed since the snapshot (repeatable read).
Refused(c, s) ==
    \/ s.op = "insert" /\ \/ \E r \in s.rows, x \in db[s.t] :
                                x.id \notin Touched(c, s.t) /\ Clash(s.t, r, x)
                          \/ DanglesIn(c, s)
    \/ s.op # "insert" /\ Lost(c, s)
    \/ s.op = "delete" /\ \E r \in s.rows, d \in db.data \ tx[c].snap.data : Refers(s.t, d, r)

Executed(D, s) ==
    [D EXCEPT ![s.t] = {r \in @ : r.id \notin IdsIn(s.rows)}
                       \cup IF s.op = "delete" THEN {} ELSE s.rows]

\* What COMMIT makes of the tables: an update finds its row by id.
Merged(c) ==
    [t \in DOMAIN db |->
        {r \in db[t] : r.id \notin Touched(c, t)} \cup Inserted(c, t)
        \cup {r \in Changed(c, t) : r.id \in IdsIn(db[t])}]

----------------------------------------------------------------------------
(* Calls                                                                   *)

Unused(D, t) == {r \in D[t] : \A d \in D.data : ~Refers(t, d, r)}

\* The next write of the call of c.
Statement(c) ==
    LET D == tx[c].view
        a == call[c]
        new == NewId
        level == CHOOSE l \in LevTrRows(D, a.lt) : TRUE
        insert(t, r) == [op |-> "insert", t |-> t, rows |-> {r}]
        delete(t, R) == [op |-> "delete", t |-> t, rows |-> R]
        old == {r \in DataRows(D, a.key, a.lt) : r.st = last[c].id}
    IN  CASE Head(a.todo) = "pending" -> insert("station", [id |-> new, key |-> a.prev])
          [] Head(a.todo) = "levtr"   -> insert("levtr", [id |-> new, lt |-> a.lt])
          [] Head(a.todo) = "station" -> insert("station", [id |-> new, key |-> a.key])
          [] Head(a.todo) = "data" /\ old = {} ->
                insert("data", [id |-> new, st |-> last[c].id, lt |-> level.id,
                                val |-> a.val, ver |-> new])
          [] Head(a.todo) = "data" /\ old # {} ->
                [op |-> "update", t |-> "data",
                 rows |-> {[r EXCEPT !.val = a.val, !.ver = new] : r \in old}]
          [] Head(a.todo) = "remove"        -> delete("data", DataRows(D, a.key, a.lt))
          [] Head(a.todo) = "vacuumLevtr"   -> delete("levtr", Unused(D, "levtr"))
          [] Head(a.todo) = "vacuumStation" -> delete("station", Unused(D, "station"))

Sending(c) == call[c] # NoCall
Statements(c) == IF Sending(c) THEN {Statement(c)} ELSE {}

WaitsFor(c) ==
    UNION {{o \in Conns \ {c} : tx[o].state = "open" /\ Blocks(o, s)} : s \in Statements(c)}

\* The server ends one of the transactions that wait for each other.
InDeadlock(c) ==
    WaitsFor(c) # {} /\ TransitiveClosure([p \in Conns \X Conns |-> p[2] \in WaitsFor(p[1])], Conns)[c, c]

\* An error ends the transaction and its locks; it answers nothing but errors
\* until ROLLBACK. The call throws.
Abort(c) ==
    /\ tx' = [tx EXCEPT ![c] = [@ EXCEPT !.state = "aborted", !.view = tx[c].snap]]
    /\ call' = [call EXCEPT ![c] = NoCall]
    /\ stored' = [stored EXCEPT ![c] = {}]
    /\ UNCHANGED <<db, fired, calls, last>>

Slot(a) == [key |-> a.key, lt |-> a.lt]

\* What the calls of the transaction have stored once call a returns.
StoredBy(c, a) ==
    LET others == {w \in stored[c] : w.slot # Slot(a)} IN
    CASE a.kind = "insert" -> others \cup {[slot |-> Slot(a), val |-> a.val]}
      [] a.kind = "remove" -> others
      [] a.kind \in {"vacuum", "refused"} -> stored[c]

\* What the batch has cached after the next write of c: the id of a station
\* inserted; nothing once a removal is done (Batch::clear).
CachedThen(c) ==
    CASE Head(call[c].todo) = "station" -> [last[c] EXCEPT !.id = NewId]
      [] Head(call[c].todo) = "remove"  -> NothingCached
      [] OTHER                          -> last[c]

Execute(c, s) ==
    LET a == call[c]
        more == Len(a.todo) > 1
    IN  /\ tx' = [tx EXCEPT ![c].view = Executed(@, s)]
        /\ call' = [call EXCEPT ![c] = IF more THEN [a EXCEPT !.todo = Tail(@)] ELSE NoCall]
        /\ stored' = IF more THEN stored ELSE [stored EXCEPT ![c] = StoredBy(c, a)]
        /\ last' = [last EXCEPT ![c] = CachedThen(c)]
        /\ UNCHANGED <<db, fired, calls>>

Send(c) ==
    /\ Sending(c)
    /\ WaitsFor(c) = {}
    /\ Room
    /\ \E s \in Statements(c) : IF Refused(c, s) THEN Abort(c) ELSE Execute(c, s)

BreakDeadlock(c) == InDeadlock(c) /\ Abort(c)

To(a, kind, prev, todo) ==
    [kind |-> kind, key |-> a.key, lt |-> a.lt, val |-> a.val, prev |-> prev, todo |-> todo]

\* Bound: MaxCalls.
Idle(c) == /\ ~fired[c] /\ ~Sending(c)
           /\ tx[c].by = "program"
           /\ calls[c] < MaxCalls

\* A call on the transaction of c, with cached in its batch from now on; an
\* aborted transaction refuses its first statement, and all that follow.
Call(c, a, kind, todo, cached) ==
    LET open == tx[c].state = "open" IN
    /\ Idle(c)
    /\ calls' = [calls EXCEPT ![c] = @ + 1]
    /\ call' = [call EXCEPT ![c] = IF open /\ todo # <<>>
                                   THEN To(a, kind, last[c].key, todo) ELSE NoCall]
    /\ last' = IF open THEN [last EXCEPT ![c] = cached] ELSE last
    /\ UNCHANGED <<db, tx, fired, stored>>

\* Mutant: fixed stations are not looked up (postgresql/station.cc:117).
LookupMobile(c, key) == IF key \in Mobile THEN RowsOf(tx[c].view, key) ELSE {}

\* maybe_get_id: the rows of a station.
Lookup(c, key) == RowsOf(tx[c].view, key)

\* Mutant: the first row found is used, however many there are.
AmbiguousNever(c, key) == FALSE

\* maybe_get_id throws error_consistency if there is more than one row.
Ambiguous(c, key) == \E r, s \in RowsOf(tx[c].view, key) : r # s

HaveStation(c, key) == last[c].key = key

\* new_station writes what the station cached before has pending: its row, if
\* get_station threw after caching it.
Pending(c, key) ==
    IF ~HaveStation(c, key) /\ last[c].key # NoStation /\ last[c].id = MissingId
    THEN <<"pending">> ELSE <<>>

\* The station that get_station returns.
GetStation(c, key) ==
    IF HaveStation(c, key) THEN last[c]
    ELSE [key |-> key, id |-> IF Lookup(c, key) = {} THEN MissingId
                              ELSE (CHOOSE r \in Lookup(c, key) : TRUE).id]

InsertData(c, a) ==
    LET cached == GetStation(c, a.key)
        levtr == IF LevTrRows(tx[c].view, a.lt) = {} THEN <<"levtr">> ELSE <<>>
        station == IF cached.id = MissingId THEN <<"station">> ELSE <<>>
    IN  /\ HaveStation(c, a.key) \/ ~Ambiguous(c, a.key)
        /\ Call(c, a, "insert", Pending(c, a.key) \o (levtr \o station \o <<"data">>), cached)

\* The lookup throws when the station is already cached, without id: the next
\* insert finds it there and adds a row for it. The transaction goes on.
InsertRefused(c, a) ==
    /\ ~HaveStation(c, a.key) /\ Ambiguous(c, a.key)
    /\ Call(c, a, "refused", Pending(c, a.key), [key |-> a.key, id |-> MissingId])

----------------------------------------------------------------------------
(* Transactions                                                            *)

Opened(c, by) ==
    /\ fired[c]
    /\ calls[c] < MaxCalls
    /\ fired' = [fired EXCEPT ![c] = FALSE]
    /\ tx' = [tx EXCEPT ![c] = [state |-> "open", by |-> by,
                                 snap |-> db, view |-> db]]
    /\ UNCHANGED <<db, stored, last>>

\* BEGIN ISOLATION LEVEL REPEATABLE READ; reading the reports takes the snapshot.
Begin(c) == Opened(c, "program") /\ UNCHANGED <<call, calls>>

\* DB::vacuum, which has a transaction of its own.
Vacuum(c, a) ==
    /\ Opened(c, "vacuum")
    /\ calls' = [calls EXCEPT ![c] = @ + 1]
    /\ call' = [call EXCEPT ![c] =
                   To(a, "vacuum", NoStation, <<"vacuumLevtr", "vacuumStation">>)]

\* COMMIT of an aborted transaction is a ROLLBACK, and no error. The batch is
\* cleared with the caches.
Commit(c) ==
    /\ ~fired[c] /\ ~Sending(c)
    /\ fired' = [fired EXCEPT ![c] = TRUE]
    /\ tx' = [tx EXCEPT ![c] = NoTransaction]
    /\ db' = IF tx[c].state = "open" THEN Merged(c) ELSE db
    /\ stored' = [stored EXCEPT ![c] = {}]
    /\ last' = [last EXCEPT ![c] = NothingCached]
    /\ UNCHANGED <<call, calls>>

\* Mutant: the destructor does not roll back (transaction.cc:37).
RollbackByDropping(c) ==
    /\ ~fired[c] /\ ~Sending(c)
    /\ tx[c].by = "vacuum" => tx[c].state = "aborted"
    /\ fired' = [fired EXCEPT ![c] = TRUE]
    /\ last' = [last EXCEPT ![c] = NothingCached]
    /\ UNCHANGED <<db, tx, call, calls, stored>>

\* rollback, or the destructor. Only an exception keeps vacuum from its commit.
Rollback(c) ==
    /\ ~fired[c] /\ ~Sending(c)
    /\ tx[c].by = "vacuum" => tx[c].state = "aborted"
    /\ fired' = [fired EXCEPT ![c] = TRUE]
    /\ tx' = [tx EXCEPT ![c] = NoTransaction]
    /\ stored' = [stored EXCEPT ![c] = {}]
    /\ last' = [last EXCEPT ![c] = NothingCached]
    /\ UNCHANGED <<db, call, calls>>

\* The program or its connection is gone in the middle of a call.
Die(c) ==
    /\ Sending(c)
    /\ fired' = [fired EXCEPT ![c] = TRUE]
    /\ tx' = [tx EXCEPT ![c] = NoTransaction]
    /\ call' = [call EXCEPT ![c] = NoCall]
    /\ stored' = [stored EXCEPT ![c] = {}]
    /\ last' = [last EXCEPT ![c] = NothingCached]
    /\ UNCHANGED <<db, calls>>

Init ==
    /\ db \in Databases
    /\ tx = [c \in Conns |-> NoTransaction]
    /\ fired = [c \in Conns |-> TRUE]
    /\ call = [c \in Conns |-> NoCall]
    /\ calls = [c \in Conns |-> 0]
    /\ stored = [c \in Conns |-> {}]
    /\ last = [c \in Conns |-> NothingCached]

End(c) == Commit(c) \/ Rollback(c)

Next ==
    \E c \in Conns :
       \/ Begin(c) \/ End(c) \/ Die(c)
       \/ Send(c) \/ BreakDeadlock(c)
       \/ \E a \in Requests[c] :
             \/ a.kind = "insert" /\ (InsertData(c, a) \/ InsertRefused(c, a))
             \/ a.kind = "remove" /\ Call(c, a, "remove", <<"remove">>, last[c])
             \/ a.kind = "vacuum" /\ Vacuum(c, a)

\* What goes on by itself: the server does what it can of a call, and between
\* calls the destructor, if nothing else, ends the transaction.
Proceed(c) == Send(c) \/ BreakDeadlock(c) \/ End(c)

Spec == Init /\ [][Next]_connVars /\ \A c \in Conns : WF_connVars(Proceed(c))
=============================================================================
