---------------------------- MODULE CursorProps ----------------------------
(* What holds of a cursor while the program walks it, removes through it   *)
(* and goes on with its transaction.                                       *)
EXTENDS Cursor

Walking == cur # NoCursor
ShowsLevels == Walking /\ cur.kind \in {"data", "summary"}

\* The level and time range of every row of a live cursor are in the cache of
\* the transaction, so get_level and get_trange never throw (levtr.cc:16), and
\* the entry that the cursor points to (cursor.h:221) has not been deleted.
LevelsStayKnown ==
    ShowsLevels => \A n \in DOMAIN cur.rows :
        \E l \in cache : l.id = cur.rows[n].lt

\* A row on the database that a row removed through the cursor stands for: a row
\* of a summary also for levels that have the parts that its own has, and more.
Stands(kind, x, r) ==
    CASE kind = "station" -> x.st = r.id
      [] kind = "summary" -> /\ x.ctx # StationCtx
                             /\ x.st = r.st /\ x.code = r.code
                             /\ LevTrOf(x) \in Matching[LevTrOf(r)]
      [] kind = "data" -> x = r
      [] kind = "stationdata" -> x = r

\* A walk during which nobody else writes takes away exactly what the rows that
\* remove() was called on stand for: no other station, kind of value or code
\* loses anything. Rows that a cursor of values has still to show are all still
\* there; a summary may have taken them away.
RemovesWhatRowsStandFor ==
    Walking /\ walk.alone =>
        rows = {x \in walk.from : \A r \in walk.removed : ~Stands(cur.kind, x, r)}

SameSpot(a, b) == /\ Place[StationKey(a.st)] = Place[StationKey(b.st)]
                  /\ <<a.ctx, a.lt, a.code>> = <<b.ctx, b.lt, b.code>>

\* The rows that no other one selected beats: of the same place, time, level
\* and code in a report of higher priority, or of the same and a lower id.
BestOf(D) ==
    {r \in D : \A x \in D :
        SameSpot(x, r) =>
            LET px == Prio[StationKey(x.st)]
                pr == Prio[StationKey(r.st)]
            IN  px < pr \/ (px = pr /\ Rep[StationKey(r.st)] <= Rep[StationKey(x.st)])}

LatestOf(D) == {r \in D : \A x \in D : SameSeries(x, r) => x.ctx <= r.ctx}

Unfiltered(q) == q.limit = 0 /\ ~q.attrOnly

OneSeries(D) == \A a, b \in D : a.code = b.code /\ a.lt = b.lt

\* A query without limit that asks for the best values, or for the last, returns
\* all of those, whatever the order in which the database sends the rows, and
\* nothing else if all that is selected has one code and one level.
NothingBetterIsHidden ==
    [][\A q \in Selections :
          LET D == Matched(q, Measured)
              found == Seqs!ToSet(cur'.rows)
              Reduces(asked) == asked \subseteq found /\ (OneSeries(D) => found = asked)
          IN  Unfiltered(q) =>
                  /\ RunDataQuery("best", q) => Reduces(BestOf(D))
                  /\ RunDataQuery("last", q) => Reduces(LatestOf(D))
      ]_cursorVars
=============================================================================
