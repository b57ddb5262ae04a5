--------------------------- MODULE MCTransaction ---------------------------
(* Small instances of Transaction for TLC. *)
EXTENDS TransactionArchive, TransactionDocs

v(c, x) == [code |-> c, val |-> x, attr |-> FALSE]
va(c, x) == [code |-> c, val |-> x, attr |-> TRUE]
d(l, c, x) == [lt |-> l, code |-> c, val |-> x, attr |-> FALSE]

OneVar == {{va(1, "a")}}

\* A set whose first variable may be new while its second is already stored.
InsertVars == {{va(1, "a")}, {v(1, "b"), v(2, "b")}}

\* A call that only creates a station, and one that gives it a value.
StationInserts == {{}, {va(1, "a")}}
OtherVar == {{v(1, "b")}}

Msg(k, sv, t, dd) == [key |-> k, svars |-> sv, dt |-> t, data |-> dd]

\* A message that creates station values, and one that brings others with data
\* and without datetime.
ImportMsgs == {Msg("fixed", {va(1, "a")}, 1, {d(1, 1, "a")}),
               Msg("fixed", {v(1, "b")}, NoDatetime, {d(1, 1, "b")})}

\* A message without coordinates: it sets write_attrs and throws.
NoMessage == {Msg(NoKey, {}, 1, {})}
Query(I, C, a) == [ids |-> I, codes |-> C, attrOnly |-> a]
SomeQueries == {Query({1}, Codes, FALSE), Query(Ids, {1}, TRUE)}
=============================================================================
