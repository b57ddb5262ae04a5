------------------------------- MODULE Cursor -------------------------------
(***************************************************************************)
(* A cursor of the v7 database layer (dballe/db/v7/cursor.cc) on a         *)
(* transaction that goes on while the program walks it: the rows of a      *)
(* query are read once, then fetched and removed one at a time by the ids  *)
(* that they had.                                                          *)
(*                                                                         *)
(*   cur  the cursor in use: its kind, the rows still to fetch, of which   *)
(*        the first is the current one, and at_start; or NoCursor          *)
(*                                                                         *)
(* walk is a history variable: the rows of the tables when the query was   *)
(* made and those that remove() was called on, for as long as no call but  *)
(* those of the cursor is made. writes counts the other calls.             *)
(***************************************************************************)
EXTENDS Transaction, Sequences

CONSTANTS
    Place,    \* coordinates and ident of a station, as numbers in ORDER BY order
    Rep,      \* the row id of the report of a station
    Prio,     \* the priority of the report of a station
    Matching, \* the levels and time ranges that a query for one finds: of those
              \* parts that it lacks (MISSING_INT) a query asks nothing
    Selections,  \* the queries of this module: as Queries, and a limit or 0
    CursorTables,  \* what earlier programs left: [station, levtr, rows]
    MaxWrites, \* bound on the calls that write between those of the cursor
    NoCursor

VARIABLES cur, walk, writes

Seqs == INSTANCE SequencesExt

cursorVars == <<vars, cur, walk, writes>>

ASSUME PlaceAssumption == /\ Place \in [Stations -> Nat]
                          /\ Rep \in [Stations -> Nat]
                          /\ Prio \in [Stations -> Int]
\* A station is looked up by its report, coordinates and ident (station.cc:90).
ASSUME KeyAssumption ==
    \A a, b \in Stations : Place[a] = Place[b] /\ Rep[a] = Rep[b] => a = b
ASSUME MatchingAssumption == /\ Matching \in [LevTrs -> SUBSET LevTrs]
                             /\ \A l \in LevTrs : l \in Matching[l]
ASSUME SelectionsAssumption ==
    \A q \in Selections : q.limit \in Nat /\ q.attrOnly \in BOOLEAN
ASSUME CursorTablesAssumption == \A t \in CursorTables : Consistent(t)

StationKey(st) == (CHOOSE r \in station : r.id = st).key
LevTrOf(r) == (CHOOSE l \in levtr : l.id = r.lt).lt

----------------------------------------------------------------------------
(* Queries                                                                 *)

\* Lexicographic order of two sequences of numbers of the same length.
Less(a, b) == \E n \in DOMAIN a : /\ a[n] < b[n]
                                  /\ \A m \in 1..(n - 1) : a[m] = b[m]

\* ORDER BY of a query of measured values.
OrderKey(mod, r) ==
    LET rep == Rep[StationKey(r.st)] IN
    CASE mod = "all"  -> <<r.st, r.ctx, LevTrOf(r), r.code>>
      [] mod = "best" -> <<Place[StationKey(r.st)], r.ctx, LevTrOf(r), rep, r.code>>
      [] mod = "last" -> <<r.st, r.ctx, LevTrOf(r), rep, r.code>>

\* The rows of D, each with its key, that ORDER BY may send first.
First(D) == {x \in D : \A y \in D : ~Less(y.key, x.key)}

Matched(q, D) == {r \in D : r.st \in q.ids /\ r.code \in q.codes}

ReplaceLast(seq, r) == [seq EXCEPT ![Len(seq)] = r]

SamePoint(a, b) == /\ Place[StationKey(a.st)] = Place[StationKey(b.st)]
                   /\ a.lt = b.lt /\ a.ctx = b.ctx /\ a.code = b.code

\* Mutant: insert_cur_prio is set only when a result is replaced (cursor.cc:198).
AddToBestKeepingPrio(acc, r) ==
    LET prio == Prio[StationKey(r.st)] IN
    IF acc.seq = <<>> THEN [acc EXCEPT !.seq = <<r>>, !.prio = prio]
    ELSE IF ~SamePoint(r, Seqs!Last(acc.seq)) THEN [acc EXCEPT !.seq = Append(@, r)]
    ELSE IF prio <= acc.prio THEN acc
    ELSE [acc EXCEPT !.seq = ReplaceLast(@, r), !.prio = prio]

\* add_to_best_results: acc holds the results, insert_cur_prio and the rows that
\* are still to come.
AddToBest(acc, r) ==
    LET prio == Prio[StationKey(r.st)] IN
    IF acc.seq = <<>> \/ ~SamePoint(r, Seqs!Last(acc.seq))
    THEN [acc EXCEPT !.seq = Append(@, r), !.prio = prio]
    ELSE IF prio <= acc.prio THEN acc
    ELSE [acc EXCEPT !.seq = ReplaceLast(@, r), !.prio = prio]

SameSeries(a, b) == a.st = b.st /\ a.lt = b.lt /\ a.code = b.code

\* add_to_last_results
AddToLast(acc, r) ==
    IF acc.seq = <<>> \/ ~SameSeries(r, Seqs!Last(acc.seq))
    THEN [acc EXCEPT !.seq = Append(@, r)]
    ELSE IF r.ctx <= Seqs!Last(acc.seq).ctx THEN acc
    ELSE [acc EXCEPT !.seq = ReplaceLast(@, r)]

AddTo(mod, acc, r) ==
    CASE mod = "all"  -> [acc EXCEPT !.seq = Append(@, r)]
      [] mod = "best" -> AddToBest(acc, r)
      [] mod = "last" -> AddToLast(acc, r)

\* What load, load_best and load_last may make of the rows D of the query, that
\* the database sends one at a time in the order of their keys, those with one
\* key in any order. LIMIT applies to the rows sent, attr_filter to what is kept.
Loaded(mod, q, D) ==
    LET N == IF q.limit = 0 \/ Cardinality(D) < q.limit THEN Cardinality(D) ELSE q.limit
        Kept(acc, r) == IF q.attrOnly /\ ~r.attr THEN acc ELSE AddTo(mod, acc, r)
        After(acc) == {[Kept(acc, x.row) EXCEPT !.left = @ \ {x}] : x \in First(acc.left)}
        loaded[n \in 0..N] ==
            IF n = 0 THEN {[seq |-> <<>>, prio |-> 0, left |-> D]}
            ELSE UNION {After(acc) : acc \in loaded[n - 1]}
    IN  {acc.seq : acc \in loaded[N]}

Measured == {r \in rows : r.ctx # StationCtx}
StationData == {r \in rows : r.ctx = StationCtx}

DataResults(mod, q) ==
    Loaded(mod, q, {[row |-> r, key |-> OrderKey(mod, r)] : r \in Matched(q, Measured)})

StationDataResults(q) ==
    Loaded("all", q, {[row |-> r, key |-> <<r.st, r.code>>] : r \in Matched(q, StationData)})

\* GROUP BY station, level, code; the order is that of the database.
Groups(D) == {{r \in D : SameSeries(r, d)} : d \in D}
Summarised(G) == LET r == CHOOSE r \in G : TRUE
                     dates == {x.ctx : x \in G}
                 IN  [st |-> r.st, lt |-> r.lt, code |-> r.code,
                      min |-> CHOOSE t \in dates : \A u \in dates : t <= u,
                      max |-> Top(dates), count |-> Cardinality(G)]
SummaryResults(q) == Seqs!SetToSeq({Summarised(G) : G \in Groups(Matched(q, Measured))})

\* Stations that match, and have a value of one of the codes if some are asked.
StationResults(q) ==
    Seqs!SetToSeq({s \in station : /\ s.id \in q.ids
                              /\ q.codes # Codes =>
                                   \E r \in Measured : r.st = s.id /\ r.code \in q.codes})

\* Mutant: the levels of the results are not read into the cache.
PrefetchNothing(seq) == cache

\* prefetch_ids
Prefetch(seq) ==
    cache \cup {l \in levtr : \E n \in DOMAIN seq : seq[n].lt = l.id}

AtStart(kind, seq) == [kind |-> kind, rows |-> seq, atStart |-> TRUE]

Query(c) ==
    /\ ~fired
    /\ cur' = c
    /\ cache' = IF c.kind \in {"data", "summary"} THEN Prefetch(c.rows) ELSE cache
    /\ walk' = [from |-> rows, removed |-> {}, alone |-> TRUE]
    /\ res' = "ok"
    /\ UNCHANGED <<station, levtr, rows, last, wattrs, fired, saved, begun, writes>>

RunStationQuery(q) == Query(AtStart("station", StationResults(q)))
RunStationDataQuery(q) ==
    \E seq \in StationDataResults(q) : Query(AtStart("stationdata", seq))
RunDataQuery(mod, q) == \E seq \in DataResults(mod, q) : Query(AtStart("data", seq))
RunSummaryQuery(q) == Query(AtStart("summary", SummaryResults(q)))

Disturbed == [from |-> {}, removed |-> {}, alone |-> FALSE]

----------------------------------------------------------------------------
(* Calls on the cursor                                                     *)

HasValue == cur # NoCursor /\ ~cur.atStart /\ cur.rows # <<>>

Fetch ==
    /\ cur # NoCursor
    /\ cur' = [cur EXCEPT !.atStart = FALSE,
                          !.rows = IF cur.atStart \/ @ = <<>> THEN @ ELSE Tail(@)]
    /\ UNCHANGED <<vars, walk, writes>>

\* The rows that remove_data finds for row r of a summary.
Summed(r) == {x \in Measured : /\ x.st = r.st /\ x.code = r.code
                              /\ LevTrOf(x) \in Matching[LevTrOf(r)]}

\* Mutant: remove_data_by_id for station values too (cursor.cc:150).
DeletedFromData(kind, r) ==
    CASE kind = "station" -> {x \in rows : x.st = r.id}
      [] kind \in {"stationdata", "data"} -> {x \in Measured : x.id = r.id}
      [] kind = "summary" -> Summed(r)

\* What remove() on row r of a cursor deletes from the tables.
DeletedBy(kind, r) ==
    CASE kind = "station"     -> {x \in rows : x.st = r.id}
      [] kind = "stationdata" -> {x \in StationData : x.id = r.id}
      [] kind = "data"        -> {x \in Measured : x.id = r.id}
      [] kind = "summary"     -> Summed(r)

RemoveCurrent ==
    /\ HasValue
    /\ DeleteRows(DeletedBy(cur.kind, Head(cur.rows)))
    /\ walk' = IF walk.alone THEN [walk EXCEPT !.removed = @ \cup {Head(cur.rows)}]
               ELSE Disturbed
    /\ UNCHANGED <<cur, writes>>

\* discard() lets go of the rows and of the transaction.
Discard == cur' = NoCursor /\ walk' = Disturbed /\ UNCHANGED writes

----------------------------------------------------------------------------
(* Calls on the transaction                                                *)

\* Bound: MaxWrites.
Meanwhile == /\ writes < MaxWrites
             /\ writes' = writes + 1
             /\ walk' = Disturbed
             /\ UNCHANGED cur

CursorInit ==
    /\ \E t \in CursorTables :
          /\ station = t.station /\ levtr = t.levtr /\ rows = t.rows
          /\ saved = t
    /\ last = NoStation /\ cache = {} /\ wattrs = TRUE
    /\ fired = TRUE
    /\ begun = 0
    /\ res = "ok"
    /\ cur = NoCursor
    /\ walk = Disturbed
    /\ writes = 0

CursorNext ==
    \/ \E key \in Stations, V \in VarSets, dt \in Datetimes, lt \in LevTrs :
          InsertData(key, MissingId, dt, lt, V, TRUE, TRUE) /\ Meanwhile
    \/ \E q \in Queries : RemoveData(q) /\ Meanwhile
    \/ (RemoveAll \/ Begin \/ Commit \/ Rollback) /\ Discard
    \/ \E q \in Selections :
          \/ q.limit = 0 /\ ~q.attrOnly /\ (RunStationQuery(q) \/ RunSummaryQuery(q))
          \/ RunStationDataQuery(q)
          \/ \E mod \in {"all", "best", "last"} : RunDataQuery(mod, q)
    \/ Fetch
    \/ RemoveCurrent

CursorSpec == CursorInit /\ [][CursorNext]_cursorVars
=============================================================================
