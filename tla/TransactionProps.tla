-------------------------- MODULE TransactionProps --------------------------
(* The properties of Transaction. *)
EXTENDS Transaction

\* Every table, the cached station and the outcome of the last call are of
\* their types; no row, known id or queued datum has an id that is not one.
TypeOK ==
    /\ station \subseteq StationRow
    /\ levtr \subseteq LevTrRow
    /\ rows \subseteq DataRow
    /\ last \in CachedStation \cup {NoStation}
    /\ wattrs \in BOOLEAN
    /\ cache \subseteq LevTrRow
    /\ fired \in BOOLEAN
    /\ begun \in Nat
    /\ saved \in [station : SUBSET StationRow, levtr : SUBSET LevTrRow,
                 rows : SUBSET DataRow]
    /\ res \in Outcomes

\* No two rows of the station table describe the same station, fixed stations
\* included, which the UNIQUE constraint of the table does not protect.
UniqueStations == \A a, b \in station : a.key = b.key => a = b

\* The database never refuses what the batch writes (batch.cc:187-261): no
\* UNIQUE or foreign key constraint is met, whatever is queued, cached, removed
\* in between or left by a call that failed.
NoSqlError == res # "sql"

\* What the batch believes about the database is true: the cached station is
\* the row of its id, or is not stored at all; the ids known in a loaded
\* context are those of all the rows of that context.
CacheMirrorsDb ==
    last # NoStation =>
        /\ IF last.id = MissingId
           THEN \A r \in station : r.key # last.key
           ELSE [id |-> last.id, key |-> last.key] \in station
        /\ \A ctx \in last.loaded :
              {i \in last.ids : i.ctx = ctx} =
              {[id |-> r.id, ctx |-> r.ctx, lt |-> r.lt, code |-> r.code] :
                 r \in {x \in rows : x.st = last.id /\ x.ctx = ctx}}
        /\ last.isNew =>
              \A r \in rows : (r.st = last.id /\ r.ctx # StationCtx)
                              => r.ctx \in last.loaded

\* The levtr cache holds rows of the table, and no pair of level and time range
\* has two rows: data is never filed under two ids of the same level.
LevTrCacheMirrorsDb ==
    /\ cache \subseteq levtr
    /\ \A a, b \in levtr : a.lt = b.lt => a = b

StationValues(k) == {r \in rows : /\ r.ctx = StationCtx
                                  /\ [id |-> r.st, key |-> k] \in station}

\* An import that is not told to update stations changes no station value of a
\* station that is already stored, also if this transaction has created it a
\* call before and still has it in the batch as a new one (import.cc:48).
StationValuesKept ==
    [][\A m \in Messages,
          o \in [overwrite : BOOLEAN, updateStation : {FALSE},
                importAttributes : BOOLEAN] :
          /\ last # NoStation => last.queue = {}
          /\ m.key \in {r.key : r \in station}
          /\ ImportMessage(m, o)
          => StationValues(m.key)' = StationValues(m.key)]_vars
=============================================================================
