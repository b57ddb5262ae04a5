---------------------------- MODULE RepinfoProps ----------------------------
(* The properties of Repinfo. *)
EXTENDS Repinfo

\* The table, the cache, the stations and the station in the batch are of their
\* types: no entry is without id, no cached value of a file is out of range.
TypeOK ==
    /\ table \subseteq ReportRow
    /\ cache \subseteq Entry
    /\ station \subseteq StationRow
    /\ last \in CachedStation \cup {NoStation}
    /\ fired \in BOOLEAN
    /\ begun \in Nat
    /\ saved \in [table : SUBSET ReportRow, station : SUBSET StationRow]
    /\ res \in Outcomes

\* Every station is filed under the report it was inserted for, whatever files
\* have been loaded since, whichever of them were refused or stopped halfway,
\* and though the id of a report that was deleted is given again.
FiledUnderItsReport ==
    \A st \in station : \E r \in table : r.id = st.rep /\ r.memo = st.memo

\* An update never takes a station away, although the station table deletes on
\* cascade (repinfo.cc:296-307, sqlite/driver.cc:73).
UpdateKeepsStations == [][\A f \in Files : Update(f) => station' = station]_vars

CacheMirrorsTable == {[id |-> c.id, memo |-> c.memo, prio |-> c.prio] : c \in cache} = table

\* Only a refused SQL statement, halfway through an update, takes the cache out
\* of step with the table: not an automatic entry, a file refused by a check,
\* nor a rollback, even of what the cache was read from.
CacheStaysInStep == [][CacheMirrorsTable /\ res' # "sql" => CacheMirrorsTable']_vars

\* What a file says, when it is the only thing the cache has been told: the
\* last line for an entry, the name of no entry that must stay as it is.
RowsOf(f) == {Item(f[k]) : k \in {n \in LinesRead(f) : \A j \in LinesRead(f) :
                                     f[j].id = f[n].id => j <= n}}

\* An update that returns normally leaves the table as the file says, if no
\* file was refused before it in the same transaction and the file leaves no
\* name empty.
UpdateFollowsFile ==
    [][\A f \in Files :
          /\ Update(f)
          /\ res' = "ok"
          /\ cache = Read(table)
          /\ \A r \in table \cup RowsOf(f) : r.memo # NoMemo
          => table' = RowsOf(f)]_vars
=============================================================================
