------------------------------ MODULE Message ------------------------------
(***************************************************************************)
(* A message in memory (dballe/msg/msg.cc, msg/context.cc, values.cc): the *)
(* values of a station and, for each level and time range, the values      *)
(* measured there, all in arrays that are kept sorted by insertion and     *)
(* looked up by binary search.                                             *)
(*                                                                         *)
(* A variable is [code, val, attr]: attr says whether it has its attribute.*)
(* Codes are numbers in the order of the B codes they stand for; a level   *)
(* is the sequence of its four numbers and a time range is one number.     *)
(***************************************************************************)
EXTENDS Integers, SequencesExt

CONSTANTS
    SoundingTypes,   \* the types PILOT, TEMP and TEMP_SHIP, each named by its report
    Missing          \* MISSING_INT, the largest integer

ASSUME MissingAssumption == Missing \in Nat /\ Missing > 2

\* Numbers of levels and time ranges: none is larger than a missing one.
Number == {n \in Int : n <= Missing}
Level == [1..4 -> Number]
Key == [level : Level, trange : Number]

NoLevel == <<Missing, Missing, Missing, Missing>>
StationCtx == [level |-> NoLevel, trange |-> Missing]
IsStationCtx(c) == c = StationCtx

Instant == 0

\* B01011, B01194, B04001 to B04006 (one code for the six of them), B05001 and
\* B06001 (one code), B07030, B08042 and B12101.
Ident == 1
RepMemo == 2
DatetimeCode == 3
Place == 4
Height == 5
Vsig == 6
Temperature == 7

Plain(c, x) == [code |-> c, val |-> x, attr |-> FALSE]

----------------------------------------------------------------------------
(* Sorted arrays                                                           *)

\* The position at which Cmp is zero, or 0 for end(): Cmp is the comparison of
\* an element with what is looked for.
Find(s, Cmp(_)) ==
    LET search[r \in [low : 1..Len(s) + 1, high : 0..Len(s)]] ==
            IF r.low > r.high THEN 0
            ELSE LET middle == r.low + (r.high - r.low) \div 2
                     cmp == Cmp(s[middle])
                 IN  CASE cmp > 0 -> search[[r EXCEPT !.high = middle - 1]]
                       [] cmp < 0 -> search[[r EXCEPT !.low = middle + 1]]
                       [] OTHER -> middle
    IN  search[[low |-> 1, high |-> Len(s)]]

\* Insertion from the back, up to the first element that is not larger.
InsertNew(s, e, Cmp(_, _)) ==
    LET stops == {i \in 1..Len(s) : Cmp(s[i], e) <= 0}
    IN  InsertAt(s, IF stops = {} THEN 1 ELSE Max(stops) + 1, e)

----------------------------------------------------------------------------
(* Values (dballe/values.cc)                                               *)

FindCode(vals, c) == Find(vals, LAMBDA v : v.code - c)

CompareCodes(v, w) == v.code - w.code

\* ValuesBase::set: a variable of the same code is replaced, its attribute too.
SetVar(vals, v) ==
    LET p == FindCode(vals, v.code)
    IN  IF p = 0 THEN InsertNew(vals, v, CompareCodes) ELSE [vals EXCEPT ![p] = v]

MergeVars(vals, other) == FoldLeft(SetVar, vals, other)

UnsetVar(vals, c) ==
    LET p == FindCode(vals, c) IN IF p = 0 THEN vals ELSE RemoveAt(vals, p)

HasVar(vals, c) == FindCode(vals, c) # 0
VarOf(vals, c) == vals[FindCode(vals, c)]

----------------------------------------------------------------------------
(* Contexts: [level, trange, values], sorted by level and time range       *)

Numbers(c) == Append(c.level, c.trange)

\* Context::compare: the difference of the first numbers that differ.
Compare(c, d) ==
    LET differ == {i \in 1..5 : Numbers(c)[i] # Numbers(d)[i]}
    IN  IF differ = {} THEN 0
        ELSE Numbers(c)[Min(differ)] - Numbers(d)[Min(differ)]

FindCtx(cs, c) == Find(cs, LAMBDA e : Compare(e, c))

Empty(c) == [level |-> c.level, trange |-> c.trange, values |-> <<>>]

\* Mutant: the comparison that finds contexts forgets the time range.
ObtainByLevel(cs, c) ==
    IF Find(cs, LAMBDA e : Compare([e EXCEPT !.trange = c.trange], c)) # 0 THEN cs
    ELSE InsertNew(cs, Empty(c), Compare)

\* Contexts::obtain, as the array in which c then is.
Obtain(cs, c) == IF FindCtx(cs, c) # 0 THEN cs ELSE InsertNew(cs, Empty(c), Compare)

Drop(cs, c) == LET p == FindCtx(cs, c) IN IF p = 0 THEN cs ELSE RemoveAt(cs, p)

\* The array with Change applied to the values of c, found or made.
WithValues(cs, c, Change(_)) ==
    LET all == Obtain(cs, c) IN [all EXCEPT ![FindCtx(all, c)].values = Change(@)]

----------------------------------------------------------------------------
(* Messages: [type, station, data]                                         *)

NewMessage(t) == [type |-> t, station |-> <<>>, data |-> <<>>]

\* Message::set_impl.
SetIn(m, c, v) ==
    IF IsStationCtx(c) THEN [m EXCEPT !.station = SetVar(@, v)]
    ELSE [m EXCEPT !.data = WithValues(@, c, LAMBDA vals : SetVar(vals, v))]

\* Unsetting through find_station_context or edit_context: the context stays.
UnsetIn(m, c, code) ==
    IF IsStationCtx(c) THEN [m EXCEPT !.station = UnsetVar(@, code)]
    ELSE LET p == FindCtx(m.data, c) IN
         IF p = 0 THEN m ELSE [m EXCEPT !.data[p].values = UnsetVar(@, code)]

\* find_vsig: a level of pressure or height, at an instant, with its significance.
IsSounding(c) ==
    /\ c.level[1] \in {1, 2} /\ c.trange = Instant
    /\ HasVar(c.values, Vsig)

Packed(c) == [level |-> <<c.level[1], c.level[2], Missing, Missing>>, trange |-> c.trange]

\* Mutant: levels with a significance replace what their pressure has.
PackReplacing(cs) ==
    FoldLeft(LAMBDA acc, c :
                 WithValues(acc, IF IsSounding(c) THEN Packed(c) ELSE c, LAMBDA vals : c.values),
             <<>>, cs)

\* A level with a significance merges into the level of its pressure, and any
\* other level replaces what has been merged into it.
PackInto(cs, c) ==
    IF IsSounding(c)
    THEN WithValues(cs, Packed(c), LAMBDA vals : MergeVars(vals, c.values))
    ELSE WithValues(cs, c, LAMBDA vals : c.values)

\* sounding_pack_levels
Pack(cs) == FoldLeft(PackInto, <<>>, cs)

----------------------------------------------------------------------------
(* Differences                                                             *)

\* Walks two sorted arrays side by side, and counts Both of two elements that
\* compare equal, Left and Right of those that have no partner before one array
\* ends, and all the elements that are then left.
Walk(s, t, Cmp(_, _), Both(_, _), Left(_), Right(_)) ==
    LET n[p \in (1..Len(s) + 1) \X (1..Len(t) + 1)] ==
            LET i == p[1]
                j == p[2]
            IN  IF i > Len(s) \/ j > Len(t) THEN (Len(s) + 1 - i) + (Len(t) + 1 - j)
                ELSE LET cmp == Cmp(s[i], t[j]) IN
                     CASE cmp = 0 -> Both(s[i], t[j]) + n[<<i + 1, j + 1>>]
                       [] cmp < 0 -> Left(s[i]) + n[<<i + 1, j>>]
                       [] OTHER -> Right(t[j]) + n[<<i, j + 1>>]
    IN  n[<<1, 1>>]

Count(b) == IF b THEN 1 ELSE 0

\* Context::diff; every variable of the model is set.
DiffVars(vs, ws) ==
    Walk(vs, ws, CompareCodes, LAMBDA v, w : Count(v # w), LAMBDA v : 1, LAMBDA w : 1)

\* Mutant: contexts that are left at the end are not counted.
DiffDataInStep(cs, ds) ==
    LET n == IF Len(cs) < Len(ds) THEN Len(cs) ELSE Len(ds)
    IN  Walk(SubSeq(cs, 1, n), SubSeq(ds, 1, n), Compare,
             LAMBDA c, d : DiffVars(c.values, d.values), LAMBDA c : 1, LAMBDA d : 1)

\* A context without values that only one message has is no difference, unless
\* the other message has no more contexts.
DiffData(cs, ds) ==
    Walk(cs, ds, Compare, LAMBDA c, d : DiffVars(c.values, d.values),
         LAMBDA c : Count(c.values # <<>>), LAMBDA d : Count(d.values # <<>>))

\* A station value that only one message has is counted only if it is not set,
\* unless the other message has no more.
DiffStation(vs, ws) ==
    Walk(vs, ws, CompareCodes, LAMBDA v, w : Count(v # w), LAMBDA v : 0, LAMBDA w : 0)

Diff(m, n) ==
    Count(m.type # n.type) + DiffStation(m.station, n.station) + DiffData(m.data, n.data)
=============================================================================
