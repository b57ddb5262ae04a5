-------------------------- MODULE ConnectionsProps --------------------------
(* What holds of programs that write one database at the same time. *)
EXTENDS Connections

\* Two rows of station key in tables D, which maybe_get_id does not tell apart.
Doubled(D, key) == \E x, y \in RowsOf(D, key) : x # y

\* Unless its transaction already saw a station twice, a connection commits a
\* row for it only where it saw none, and one row only: fixed stations, which
\* no constraint protects, are first duplicated by transactions that overlap.
\* A station seen twice may get more rows (InsertRefused).
KnownStationsStaySingle ==
    [][\A c \in Conns : Commit(c) =>
          \A r \in db'.station \ db.station :
             \/ Doubled(tx[c].snap, r.key)
             \/ {x \in tx[c].snap.station \cup (db'.station \ db.station) :
                    x.key = r.key} = {r}]_connVars

\* No connection files or changes values under either of two rows of a station
\* that it saw: nothing says which is meant. An insert repeated after the error
\* files its values under a row of its own.
DuplicatesAreLeftAlone ==
    [][\A c \in Conns : Commit(c) =>
          \A r \in db'.data \ db.data, s \in tx[c].snap.station :
              r.st = s.id => ~Doubled(tx[c].snap, s.key)]_connVars

\* What the calls of a transaction wrote, all of which returned, is in the
\* tables when the commit returns, whatever others committed in the meantime.
CommitStoresAll ==
    [][\A c \in Conns : Commit(c) =>
          \A w \in stored[c] : \E r \in DataRows(db', w.slot.key, w.slot.lt) :
              r.val = w.val]_connVars

\* No vacuum or removal takes away the station or the level of a value that
\* another connection has just written.
ValuesAreWhole ==
    \A r \in db.data : /\ \E s \in db.station : s.id = r.st
                       /\ \E l \in db.levtr : l.id = r.lt

\* Calls that wait for other transactions, or for each other, return.
EveryCallReturns == \A c \in Conns : Sending(c) ~> ~Sending(c)
=============================================================================
