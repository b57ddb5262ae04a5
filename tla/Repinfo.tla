------------------------------ MODULE Repinfo ------------------------------
(***************************************************************************)
(* The table of reports (dballe/db/v7/repinfo.cc) as a connection to an    *)
(* SQLite database sees it: the table, its cache in the transaction, and   *)
(* the stations, which refer to it.  The index by name, always rebuilt     *)
(* with the cache, is left out, and so are the columns without behaviour:  *)
(* description, descriptor, table A.  Priorities are not negative.         *)
(* Stations differ by report alone, as if all of them were in one place.   *)
(*                                                                         *)
(* A call is a chain of steps on a record s with fields table, cache,      *)
(* station, last and err; once a step has thrown, the rest do nothing.     *)
(***************************************************************************)
EXTENDS Integers, Sequences, FiniteSets

CONSTANTS
    Names,        \* names of reports, as callers and files write them
    Reports,      \* those for which stations are inserted
    Memos,        \* names of reports, as the table has them
    NoMemo,       \* the empty name
    Lower,        \* a name in lower case
    Short,        \* the first 19 characters of a name in lower case
    Files,        \* files of reports: sequences of lines
    BadLine,      \* a line that does not have 6 columns
    InitialTable, \* what DB::reset loads
    NoStation,    \* last_station = nullptr
    MaxId,        \* bound on ids and priorities
    MaxTransactions  \* bound on the number of transactions

RowIds == Nat \ {0}
ReportRow == [id : RowIds, memo : Memos, prio : Nat]
Line == [id : RowIds, name : Names, prio : Nat]

\* A repinfo::Cache entry; newMemo is NoMemo until a file names the entry.
Entry == [id : RowIds, memo : Memos, prio : Nat, newMemo : Memos, newPrio : Nat]

\* A row of table station; memo is the report it was inserted for.
StationRow == [rep : RowIds, memo : Memos]

\* The station in the batch, and whether it is known to have a row.
CachedStation == [name : Names, stored : BOOLEAN]

Outcomes == {"ok", "sql", "notfound", "usage", "parse", "conflict", "inuse"}

ASSUME NamesAssumption ==
    /\ Reports \subseteq Names
    /\ NoMemo \in Memos
    /\ Lower \in [Names -> Memos]
    /\ Short \in [Memos -> Memos]
ASSUME FilesAssumption == \A f \in Files : f \in Seq(Line \cup {BadLine})
ASSUME InitialAssumption ==
    /\ InitialTable \subseteq ReportRow /\ IsFiniteSet(InitialTable)
    /\ \A a, b \in InitialTable : a.id = b.id => a = b

VARIABLES
    table,     \* table repinfo
    cache,     \* Repinfo::cache of the transaction
    station,   \* table station
    last,      \* Batch::last_station
    fired,     \* no transaction is open
    saved,     \* the tables when the transaction began
    begun,     \* how many transactions have begun
    res        \* outcome of the last call

vars == <<table, cache, station, last, fired, saved, begun, res>>

Here == [table |-> table, cache |-> cache, station |-> station, last |-> last,
         err |-> "ok"]

Throw(s, kind) == IF s.err # "ok" THEN s ELSE [s EXCEPT !.err = kind]

IdsOf(R) == {r.id : r \in R}

\* SELECT MAX, which is NULL, read as 0, for no rows.
Top(T) == IF T = {} THEN 0 ELSE CHOOSE i \in T : \A j \in T : j <= i

Least(T) == CHOOSE i \in T : \A j \in T : i <= j

----------------------------------------------------------------------------
(* Cache and automatic entries                                             *)

Read(R) == {[id |-> r.id, memo |-> r.memo, prio |-> r.prio,
             newMemo |-> NoMemo, newPrio |-> 0] : r \in R}

ReadCache(s) == IF s.err # "ok" THEN s ELSE [s EXCEPT !.cache = Read(s.table)]

\* PRIMARY KEY, UNIQUE (memo) and UNIQUE (prio), for a new row.
Refused(R, r) == \E x \in R : x.id = r.id \/ x.memo = r.memo \/ x.prio = r.prio

InsertRow(s, r) ==
    IF s.err # "ok" THEN s
    ELSE IF Refused(s.table, r) THEN Throw(s, "sql")
    ELSE [s EXCEPT !.table = @ \cup {r}]

AutoEntry(s, memo) == [id |-> Top(IdsOf(s.table)) + 1, memo |-> memo,
                       prio |-> Top({r.prio : r \in s.table}) + 1]

Key(name) == Short[Lower[name]]

Known(s, memo) == \E c \in s.cache : c.memo = memo

\* Mutant: the cache is not read again (repinfo.cc:71).
ObtainIdOnly(s, name) ==
    IF s.err # "ok" \/ Known(s, Key(name)) THEN s
    ELSE InsertRow(s, AutoEntry(s, Key(name)))

\* A report that is not in the cache gets a row, after the last one.
ObtainId(s, name) ==
    IF s.err # "ok" \/ Known(s, Key(name)) THEN s
    ELSE ReadCache(InsertRow(s, AutoEntry(s, Key(name))))

----------------------------------------------------------------------------
(* Stations                                                                *)

IdsNamed(s, memo) == {c.id : c \in {x \in s.cache : x.memo = memo}}

\* insert_new, if the station in the batch has no row: refused by the foreign
\* key if get_id answers -1 or names a report that has no row.
WritePending(s) ==
    LET ids == IdsNamed(s, Key(s.last.name))
        id == CHOOSE i \in ids : TRUE
    IN  IF s.err # "ok" \/ s.last = NoStation \/ s.last.stored THEN s
        ELSE IF ids = {} \/ id \notin IdsOf(s.table) THEN Throw(s, "sql")
        ELSE [s EXCEPT !.station = @ \cup {[rep |-> id, memo |-> Key(s.last.name)]},
                       !.last.stored = TRUE]

CacheStation(s, name) ==
    IF s.err # "ok" THEN s
    ELSE [s EXCEPT !.last = [name |-> name, stored |-> FALSE]]

\* select id FROM station WHERE rep=?
FindStation(s, canAdd) ==
    IF s.err # "ok" THEN s
    ELSE IF \E st \in s.station : st.rep \in IdsNamed(s, Key(s.last.name))
         THEN [s EXCEPT !.last.stored = TRUE]
    ELSE IF canAdd THEN s ELSE Throw(s, "notfound")

GetStation(s, name, canAdd) ==
    IF s.last # NoStation /\ s.last.name = name THEN s
    ELSE FindStation(ObtainId(CacheStation(WritePending(s), name), name), canAdd)

----------------------------------------------------------------------------
(* Update from a file                                                      *)

LinesRead(f) == {k \in DOMAIN f : \A j \in 1..k : f[j] # BadLine}

\* The lines of f that do not name an entry of the cache.
NewLines(s, f) == {k \in LinesRead(f) : f[k].id \notin IdsOf(s.cache)}

Item(l) == [id |-> l.id, memo |-> Lower[l.name], prio |-> l.prio]

\* Each entry named in the file gets the new values of its last line. What an
\* earlier file that was refused has left there is not cleared.
ReadLines(s, f) ==
    LET at(c) == {k \in LinesRead(f) : f[k].id = c.id}
        named(c) == LET l == f[Top(at(c))] IN
                    [c EXCEPT !.newMemo = Lower[l.name], !.newPrio = l.prio]
    IN  [s EXCEPT !.cache = {IF at(c) = {} THEN c ELSE named(c) : c \in @}]

Doomed(c) == c.memo # NoMemo /\ c.newMemo = NoMemo
Kept(c) == c.memo # NoMemo /\ c.newMemo # NoMemo

\* Mutant: a new name is not compared with the old one (repinfo.cc:243).
CheckPriosOnly(s, f) ==
    IF \E a, b \in {c \in s.cache : Kept(c)} : a # b /\ a.newPrio = b.newPrio
    THEN Throw(s, "conflict")
    ELSE s

\* Read errors, then "Verify conflicts".
CheckFile(s, f) ==
    LET kept == {c \in s.cache : Kept(c)}
        new == NewLines(s, f)
    IN  IF LinesRead(f) # DOMAIN f THEN Throw(s, "parse")
        ELSE IF \/ \E c \in kept : c.newMemo # c.memo
                \/ \E a, b \in kept : a # b /\ a.newPrio = b.newPrio
                \/ \E c \in kept, k \in new : c.newPrio = f[k].prio
                \/ \E j, k \in new : j # k /\ f[j].prio = f[k].prio
        THEN Throw(s, "conflict")
        ELSE s

\* Mutant: an entry in use may be deleted (repinfo.cc:305).
CheckNothing(s) == s

CheckInUse(s) ==
    IF \E c \in s.cache, st \in s.station : Doomed(c) /\ st.rep = c.id
    THEN Throw(s, "inuse")
    ELSE s

Renewed(r, c) == [r EXCEPT !.memo = c.newMemo, !.prio = c.newPrio]

\* Mutant: entries that are not in the file are not deleted (repinfo.cc:317).
TableBeforeUndeleted(s, i) ==
    LET kept(r) == {c \in s.cache : Kept(c) /\ c.id = r.id /\ c.id < i}
    IN  {IF kept(r) = {} THEN r ELSE Renewed(r, CHOOSE c \in kept(r) : TRUE) :
            r \in s.table}

\* The entry with this id is among those below i that are deleted.
Gone(s, id, i) == \E c \in s.cache : c.id = id /\ c.id < i /\ Doomed(c)

\* The table once the entries with an id below i are deleted or updated.
TableBefore(s, i) ==
    LET kept(r) == {c \in s.cache : Kept(c) /\ c.id = r.id /\ c.id < i}
    IN  {IF kept(r) = {} THEN r ELSE Renewed(r, CHOOSE c \in kept(r) : TRUE) :
            r \in {x \in s.table : ~Gone(s, x.id, i)}}

\* The new values of c meet another row, old or already updated.
Collides(s, c) ==
    /\ Kept(c)
    /\ c.id \in IdsOf(s.table)
    /\ \E x \in TableBefore(s, c.id) :
          x.id # c.id /\ (x.memo = c.newMemo \/ x.prio = c.newPrio)

\* The entries below i are written. Deleting a report deletes its stations.
WriteBefore(s, i) ==
    [s EXCEPT !.table = TableBefore(s, i),
              !.station = {st \in @ : ~Gone(s, st.rep, i)}]

WriteEntries(s) ==
    LET stopped == {c.id : c \in {x \in s.cache : Collides(s, x)}}
    IN  IF s.err # "ok" THEN s
        ELSE IF stopped # {} THEN Throw(WriteBefore(s, Least(stopped)), "sql")
        ELSE WriteBefore(s, Top(IdsOf(s.cache)) + 1)

WithItems(s, f, k) == s.table \cup {Item(f[j]) : j \in {n \in NewLines(s, f) : n < k}}

InsertItems(s, f) ==
    LET stopped == {k \in NewLines(s, f) : Refused(WithItems(s, f, k), Item(f[k]))}
    IN  IF s.err # "ok" THEN s
        ELSE IF stopped # {}
             THEN Throw([s EXCEPT !.table = WithItems(s, f, Least(stopped))], "sql")
        ELSE [s EXCEPT !.table = WithItems(s, f, Len(f) + 1)]

UpdateCall(s, f) ==
    ReadCache(InsertItems(WriteEntries(CheckInUse(CheckFile(ReadLines(s, f), f))), f))

----------------------------------------------------------------------------
(* Actions                                                                 *)

\* Bound: stop when an id or a priority is above MaxId.
Room(s) == \A r \in s.table : r.id <= MaxId /\ r.prio <= MaxId

Call(s) ==
    /\ ~fired
    /\ table' = s.table
    /\ cache' = s.cache
    /\ station' = s.station
    /\ last' = s.last
    /\ res' = s.err
    /\ UNCHANGED <<fired, saved, begun>>

\* An insert for a station of report name; one without level or time range
\* throws once it has the station.
Insert(name, canAdd, complete) ==
    /\ Room(Here)
    /\ Call(IF complete THEN WritePending(GetStation(Here, name, canAdd))
            ELSE Throw(GetStation(Here, name, canAdd), "usage"))

Update(f) == Call(UpdateCall(Here, f))

RemoveAll ==
    Call(ReadCache([Here EXCEPT !.station = {}, !.last = NoStation]))

\* A new Transaction reads the cache.
Begin ==
    /\ fired
    /\ begun < MaxTransactions
    /\ begun' = begun + 1
    /\ fired' = FALSE
    /\ saved' = [table |-> table, station |-> station]
    /\ cache' = Read(table)
    /\ last' = NoStation
    /\ res' = "ok"
    /\ UNCHANGED <<table, station>>

Commit ==
    /\ ~fired
    /\ fired' = TRUE
    /\ cache' = Read(table)
    /\ last' = NoStation
    /\ res' = "ok"
    /\ UNCHANGED <<table, station, saved, begun>>

Rollback ==
    /\ ~fired
    /\ fired' = TRUE
    /\ table' = saved.table
    /\ station' = saved.station
    /\ cache' = Read(saved.table)
    /\ last' = NoStation
    /\ res' = "ok"
    /\ UNCHANGED <<saved, begun>>

Init ==
    /\ table = InitialTable
    /\ cache = Read(InitialTable)
    /\ station = {}
    /\ last = NoStation
    /\ fired = TRUE
    /\ begun = 0
    /\ saved = [table |-> InitialTable, station |-> {}]
    /\ res = "ok"

Next ==
    \/ \E n \in Reports, a, c \in BOOLEAN : Insert(n, a, c)
    \/ \E f \in Files : Update(f)
    \/ RemoveAll
    \/ Begin
    \/ Commit
    \/ Rollback

Spec == Init /\ [][Next]_vars

=============================================================================
