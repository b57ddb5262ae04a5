--------------------------- MODULE MessagesProps ---------------------------
(* What can be counted on between a database and the one that its data ends *)
(* up in, by way of messages and of CSV.                                    *)
EXTENDS Messages, FiniteSets

----------------------------------------------------------------------------
(* Messages as maps                                                        *)

Codes(vals) == {vals[i].code : i \in DOMAIN vals}
Map(vals) == [k \in Codes(vals) |-> vals[CHOOSE i \in DOMAIN vals : vals[i].code = k]]

CtxOf(c) == [level |-> c.level, trange |-> c.trange]
Contexts(m) == {CtxOf(m.data[i]) : i \in DOMAIN m.data}

AsMap(m) ==
    [c \in Contexts(m) \cup {StationCtx} |->
        IF IsStationCtx(c) THEN Map(m.station) 
        ELSE Map(m.data[CHOOSE i \in DOMAIN m.data : CtxOf(m.data[i]) = c].values)]

IsSoundingLevel(c, f) == c.level[1] \in {1, 2} /\ c.trange = Instant /\ Vsig \in DOMAIN f

Store == INSTANCE MessageStore WITH
    held <- [i \in DOMAIN msgs |-> AsMap(msgs[i])],
    IsVsig <- IsSoundingLevel

OnlyChanges(i) == \A j \in DOMAIN msgs \ {i} : msgs'[j] = msgs[j]

\* Each call that changes a message does what it would do to a map, whatever calls
\* came before and in whatever order values were set and unset, contexts removed
\* and sounding levels packed: a value that is set is found, and found once. (The
\* arrays are sorted as they are filled, and the binary search counts on it.)
CallsImplementStore ==
    [][\A i \in {j \in DOMAIN msgs : OnlyChanges(j)} :
          /\ \A c \in EditContexts, v \in EditVars :
                /\ Set(i, c, v) => Store!Set(i, c, v)
                /\ Unset(i, c, v.code) => Store!Unset(i, c, v.code)
          /\ \A c \in EditContexts : RemoveContext(i, c) => Store!Remove(i, c)
          /\ SoundingPackLevels(i) => Store!Pack(i)]_vars

----------------------------------------------------------------------------
(* From the database and back                                              *)

KeyCodes == {Ident, RepMemo, Place}

\* Rows but those that repeat what a station is.
Proper(d) == {r \in d : ~(IsStationCtx(r.ctx) /\ r.code \in KeyCodes)}

ImportAll(ms) ==
    LET after[i \in 0..Len(ms)] == IF i = 0 THEN {} ELSE Import(after[i - 1], ms[i])
    IN  after[Len(ms)]

\* The rows of d that a query selects, with the station values that go with them.
Selected(d, codes) ==
    Matching(d, codes) \cup {r \in StationRows(d) : \E s \in Matching(d, codes) : s.st = r.st}

\* Station values that take the place of what the query knows of a row.
NoStoredKeys(d) == \A r \in StationRows(d) : r.code \notin KeyCodes \cup {DatetimeCode}

NoPacking(ms) == \A i \in DOMAIN ms : ms[i].type \notin SoundingTypes

\* The messages that query_messages returns, imported into an empty database,
\* give it what the query selects, each value at its station, datetime, level
\* and code, with its attributes. (Not so with station values that repeat what
\* a station or a datetime is, nor with the levels of soundings, which are packed.)
ExportRestores ==
    phase = "held" /\ edits = 0 /\ NoPacking(msgs) /\ NoStoredKeys(db) =>
        Proper(ImportAll(msgs)) = Selected(db, query)

----------------------------------------------------------------------------
(* Through CSV                                                             *)

SameSource(m, n) == ValueOf(m, Place) = ValueOf(n, Place) /\ ValueOf(m, RepMemo) = ValueOf(n, RepMemo)

\* What CSV can carry of a message: one of the type of its report, that has a
\* place and a datetime, with values that have levels and station values without
\* attributes.
Carried(m) ==
    /\ \A code \in {Place, RepMemo, DatetimeCode} : HasVar(m.station, code)
    /\ ValueOf(m, RepMemo) = m.type
    /\ \A j \in DOMAIN m.station : ~m.station[j].attr
    /\ \A j \in DOMAIN m.data : m.data[j].level # NoLevel

\* And of messages: each is of another place or report than the one before.
Writable(ms) ==
    /\ \A i \in 1..Len(ms) - 1 : ~SameSource(ms[i], ms[i + 1])
    /\ \A i \in DOMAIN ms : Carried(ms[i])

WithoutEmpty(m) ==
    [m EXCEPT !.data = FoldLeft(LAMBDA acc, c : IF c.values = <<>> THEN acc ELSE Append(acc, c),
                                <<>>, @)]

\* A file of such messages is read back message by message as it was written,
\* and the program that reads it never fails.
CsvReadsBack ==
    Writable(msgs) =>
        /\ phase # "failed"
        /\ \A i \in DOMAIN read : read[i] = WithoutEmpty(msgs[i])
        /\ phase = "done" => Len(read) = Len(msgs)

----------------------------------------------------------------------------
(* Differences                                                             *)

Keys(m) == UNION {{<<c, k>> : k \in DOMAIN AsMap(m)[c]} : c \in Contexts(m)}

\* The measured values that two messages have in contexts of both and that are not
\* the same, and the contexts with values that only one of them has.
Differences(m, n) ==
    LET shared == Contexts(m) \cap Contexts(n)
        In(o, x) == x \in Keys(o)
    IN  {x \in Keys(m) \cup Keys(n) :
            /\ x[1] \in shared
            /\ ~(In(m, x) /\ In(n, x) /\ AsMap(m)[x[1]][x[2]] = AsMap(n)[x[1]][x[2]])}
        \cup {<<x[1], 0>> : x \in {y \in Keys(m) \cup Keys(n) : y[1] \notin shared}}

NoneEmpty(cs) == \A i \in DOMAIN cs : cs[i].values # <<>>

\* messages_diff counts every difference of what two messages have measured, and
\* does not depend on which comes first; to that it adds contexts without values
\* and what it sees of the station.
DiffCountsMeasured ==
    \A i, j \in DOMAIN msgs :
        LET d == DiffData(msgs[i].data, msgs[j].data)
            expected == Cardinality(Differences(msgs[i], msgs[j]))
        IN  /\ Diff(msgs[i], msgs[j]) = Diff(msgs[j], msgs[i])
            /\ Diff(msgs[i], msgs[j]) >= d /\ d >= expected
            /\ (\A k \in {i, j} : NoneEmpty(msgs[k].data)) => d = expected
=============================================================================
