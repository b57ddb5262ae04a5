------------------------------ MODULE MCCursor ------------------------------
(* Small instances of Cursor for TLC. *)
EXTENDS CursorProps

v(c, x) == [code |-> c, val |-> x, attr |-> FALSE]

\* Two reports of one place, the second of higher priority, and another place.
OnePlace == [s \in Stations |-> IF s = "other" THEN 2 ELSE 1]
ReportIds == [s \in Stations |-> IF s = "synop" THEN 1 ELSE 2]
Priorities == [s \in Stations |-> IF s = "synop" THEN 10 ELSE 20]

OneVar == {{v(1, "a")}}

Selection(I, C, n) == [ids |-> I, codes |-> C, attrOnly |-> FALSE, limit |-> n]
Asked == {Selection(Ids, Codes, 0), Selection({1}, Codes, 2)}
Removal == {[ids |-> {1}, codes |-> Codes, attrOnly |-> FALSE]}

\* Level 2 has a part that level 1 lacks: a query for 1 finds both.
Lacking == [l \in LevTrs |-> IF l = 1 THEN {1, 2} ELSE {l}]

\* Tables with a value of each station, and four measured values: alike in two
\* of station, datetime, code and level.
Points == (1..2) \X Datetimes \X Codes \X LevTrs
StationRows == {[id |-> n, key |-> IF n = 1 THEN "synop" ELSE "metar"] : n \in 1..2}
Datum1(n, st, ctx, c, lt) ==
    [id |-> n, st |-> st, ctx |-> ctx, lt |-> lt, code |-> c, val |-> "a", attr |-> FALSE]
NumberIn(P, p) == Cardinality({o \in P : Less(o, p)}) + 1
Alike(n, m) == {p \in Points : p[n] = 1 /\ p[m] = 1}
Stored == {Alike(2, 4), Alike(3, 4), Alike(1, 2)}
FullTables ==
    {[station |-> StationRows, levtr |-> {[id |-> n, lt |-> n] : n \in LevTrs},
      rows |-> {Datum1(n, n, StationCtx, 1, MissingId) : n \in 1..2} \cup
               {Datum1(NumberIn(P, p), p[1], p[2], p[3], p[4]) : p \in P}] : P \in Stored}
=============================================================================
