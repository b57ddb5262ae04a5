------------------------------- MODULE Query -------------------------------
(* Queries: what their parameters mean to the database, to the filter of   *)
(* messages and to the filter of summaries (core/query.cc, types.cc,       *)
(* db/v7/qbuilder.cc, core/matcher.cc, db/summary_utils.h).                *)
(*                                                                         *)
(* A query is a record: ranges and datetimes have a value at either end,   *)
(* Missing if it is open; eq and level hold the parameters that rows must  *)
(* equal. Longitudes are units of which Half make half a turn.             *)
(*                                                                         *)
(* A filter is known by the rows that pass it. What best and last take away *)
(* is in Cursor.                                                           *)
EXTENDS Integers, Sequences, FiniteSets

CONSTANTS
    Missing,          \* MISSING_INT, and its like in other types
    Half,             \* 18000000 in the code
    Sites,            \* the station table, with the WMO block and station of each,
                      \* and, as number, the B01192 of its station values
    Measured,         \* the data table
    StationValues,    \* the station_data table
    Codes,            \* variable codes
    Priority,         \* the priority of each report in the table of reports
    LowerCase,        \* the name of a report in lower case
    Passes            \* for each filter, the rows that pass it, or attributes of which do

ASSUME HalfTurn == Half \in Nat \ {0}
ASSUME MissingAssumption == Missing \notin Int /\ Missing \notin Codes

Ends == {"min", "max"}
Ranges == {"lat", "lon", "prio"}
Equals == {"ana_id", "report", "mobile", "ident", "block", "station"}
LevelParts == {"ltype1", "l1", "pind", "p1"}      \* ltype2, l2 and p2 go like l1 and p1
DateParts == <<"year", "month", "day", "hour", "minute">>   \* second goes like minute
PartNames == {DateParts[i] : i \in DOMAIN DateParts}
Filters == {"ana", "data", "attr"}                \* ana_filter, data_filter, attr_filter
Modifiers == {"best", "last"}                     \* of query, those that select

NoRange == [e \in Ends |-> Missing]
NoDate == [p \in PartNames |-> Missing]
NoLevel == [p \in LevelParts |-> Missing]

Empty == [range |-> [f \in Ranges |-> NoRange],
          dt |-> [e \in Ends |-> NoDate],
          eq |-> [k \in Equals |-> Missing],
          level |-> NoLevel,
          var |-> Missing,          \* input_query_var
          varlist |-> {},           \* input_query_varlist
          varcodes |-> {},
          filter |-> [f \in Filters |-> Missing],
          mods |-> {},              \* query
          limit |-> Missing]

\* Each value is filed under a station.
ASSUME ValuesAssumption ==
    /\ \A v \in StationValues \cup Measured : \E s \in Sites : s.id = v.st
    /\ \A d \in Measured : d.code \in Codes /\ d.dt \in [PartNames -> Int]

----------------------------------------------------------------------------
(* Longitudes                                                              *)

\* The remainder of C++, which has the sign of the dividend.
Rem(a, b) == IF a >= 0 THEN a % b ELSE -((-a) % b)

Normal(lon) == Rem(lon + Half, 2 * Half) - Half

\* Coordinates are normalised when they are set (types.cc:805-847): normalon leaves
\* longitudes more than half a turn west of the meridian where they are.
ASSUME SitesAssumption ==
    \A s \in Sites : /\ s.lat \in Int /\ s.lon \in Int /\ Normal(s.lon) = s.lon
                     /\ Priority[s.report] \in Int

OpenEnded(r) == (r["min"] = Missing) # (r["max"] = Missing)

\* LonRange::set: normalised ends that meet, but did not before, match anything.
LonSet(r) ==
    IF r["min"] = Missing THEN NoRange
    ELSE LET n == [e \in Ends |-> Normal(r[e])] IN
         IF r["min"] # r["max"] /\ n["min"] = n["max"] THEN NoRange ELSE n

LonMissing(r) == \E e \in Ends : r[e] = Missing

LonContains(r, lon) ==
    \/ LonMissing(r)
    \/ r["min"] = r["max"] /\ lon = r["min"]
    \/ r["min"] < r["max"] /\ lon \in r["min"]..r["max"]
    \/ r["min"] > r["max"] /\ (lon \in r["min"]..Half \/ lon \in -Half..r["max"])

\* LonRange::contains of another range.
LonCovers(r, s) ==
    \/ LonMissing(r)
    \/ /\ ~LonMissing(s)
       /\ IF r["min"] < r["max"]
          THEN s["min"] < s["max"] /\ r["min"] <= s["min"] /\ s["max"] <= r["max"]
          ELSE IF s["min"] < s["max"]
               THEN s["max"] <= r["min"] \/ s["min"] >= r["max"]
               ELSE s["min"] <= r["min"] \/ s["max"] >= r["max"]

Within(r, x) == /\ r["min"] # Missing => r["min"] <= x
                /\ r["max"] # Missing => x <= r["max"]

\* LatRange::contains of another range, and the bounds of datetimes.
LatCovers(r, s) == /\ r["min"] # Missing => s["min"] # Missing /\ r["min"] <= s["min"]
                   /\ r["max"] # Missing => s["max"] # Missing /\ s["max"] <= r["max"]

----------------------------------------------------------------------------
(* Datetimes                                                               *)

\* A part is given and the one that it needs is not (check_partial_consistency).
Partial(d) ==
    \E p, q \in PartNames :
        /\ d[p] # Missing /\ d[q] = Missing
        /\ \/ q = "year"
           \/ q = "month" /\ p = "day"
           \/ q = "hour" /\ p = "minute"

\* Mutant: no leap years.
DaysInMonthOfAnyYear(y, m) == CASE m = 2 -> 28 [] m \in {4, 6, 9, 11} -> 30 [] OTHER -> 31

DaysInMonth(y, m) ==
    CASE m = 2 -> IF y % 400 = 0 \/ (y % 4 = 0 /\ y % 100 # 0) THEN 29 ELSE 28
      [] m \in {4, 6, 9, 11} -> 30
      [] OTHER -> 31

First == [year |-> 0, month |-> 1, day |-> 1, hour |-> 0, minute |-> 0]

Last(d) ==
    LET m == IF d["month"] = Missing THEN 12 ELSE d["month"]
    IN  [year |-> 0, month |-> 12, day |-> DaysInMonth(d["year"], m), hour |-> 23, minute |-> 59]

DateMissing(d) == d["year"] = Missing

Fill(d, by) ==
    IF DateMissing(d) THEN NoDate
    ELSE [p \in PartNames |-> IF d[p] = Missing THEN by[p] ELSE d[p]]

LowerBound(d) == Fill(d, First)
UpperBound(d) == IF DateMissing(d) THEN NoDate ELSE Fill(d, Last(d))

Before(a, b) ==
    \E i \in DOMAIN DateParts :
        /\ a[DateParts[i]] < b[DateParts[i]]
        /\ \A j \in 1..i - 1 : a[DateParts[j]] = b[DateParts[j]]

Upto(a, b) == a = b \/ Before(a, b)

\* DatetimeRange::contains, of a datetime and of another range.
DtContains(dt, t) == /\ ~DateMissing(dt["min"]) => Upto(dt["min"], t)
                     /\ ~DateMissing(dt["max"]) => Upto(t, dt["max"])

\* Mutant: an open end is within anything.
DtCoversEnds(dt, u) ==
    /\ ~DateMissing(dt["min"]) /\ ~DateMissing(u["min"]) => ~Before(u["min"], dt["min"])
    /\ ~DateMissing(dt["max"]) /\ ~DateMissing(u["max"]) => ~Before(dt["max"], u["max"])

DtCovers(dt, u) ==
    /\ ~DateMissing(dt["min"]) => ~DateMissing(u["min"]) /\ ~Before(u["min"], dt["min"])
    /\ ~DateMissing(dt["max"]) => ~DateMissing(u["max"]) /\ ~Before(dt["max"], u["max"])

----------------------------------------------------------------------------
(* Validation                                                              *)

\* Query::validate, in its order: what it has done before it throws stays done.
\* It returns the query and whether it has thrown.
Validate(q) ==
    LET coded == [q EXCEPT !.varcodes = q.varlist \cup ({q.var} \ {Missing})]
        turned == [coded EXCEPT !.range["lon"] = LonSet(@)]
        begun == [turned EXCEPT !.dt["min"] = LowerBound(@)]
        ended == [begun EXCEPT !.dt["max"] = UpperBound(@)]
    IN  IF OpenEnded(q.range["lon"]) THEN [query |-> coded, refused |-> TRUE]
        ELSE IF Partial(q.dt["min"]) THEN [query |-> turned, refused |-> TRUE]
        ELSE IF Partial(q.dt["max"]) THEN [query |-> begun, refused |-> TRUE]
        ELSE [query |-> ended, refused |-> FALSE]

----------------------------------------------------------------------------
(* The WHERE of the database                                               *)

Asks(q, k, x) == q.eq[k] # Missing => x = q.eq[k]

LonWhere(r, lon) ==
    \/ LonMissing(r)
    \/ r["min"] = r["max"] /\ lon = r["min"]
    \/ r["min"] < r["max"] /\ r["min"] <= lon /\ lon <= r["max"]
    \/ r["min"] > r["max"] /\ \/ r["min"] <= lon /\ lon <= Half
                              \/ -Half <= lon /\ lon <= r["max"]

MobileWhere(q, s) ==
    q.eq["mobile"] # Missing => (s.ident = Missing) = (q.eq["mobile"] = 0)

\* A row that passes the filter f of the query.
Passing(q, f, row) == q.filter[f] # Missing => row \in Passes[q.filter[f]]

\* add_pa_where
StationWhere(q, s) ==
    /\ Asks(q, "ana_id", s.id)
    /\ Within(q.range["lat"], s.lat)
    /\ LonWhere(q.range["lon"], s.lon)
    /\ MobileWhere(q, s)
    /\ Asks(q, "ident", s.ident)
    /\ Asks(q, "block", s.block) /\ Asks(q, "station", s.station)
    /\ q.filter["ana"] # Missing => \E v \in StationValues : v.st = s.id /\ Passing(q, "ana", v)

\* add_dt_where
DateWhere(dt, t) ==
    IF dt["min"] = dt["max"] THEN DateMissing(dt["min"]) \/ t = dt["min"]
    ELSE DtContains(dt, t)

\* add_ltr_where
LevelWhere(q, l) == \A p \in LevelParts : q.level[p] # Missing => l[p] = q.level[p]

\* add_varcode_where
CodeWhere(q, c) == q.varcodes = {} \/ c \in q.varcodes

ReportWhere(q, s) == q.eq["report"] # Missing => s.report = LowerCase[q.eq["report"]]

\* add_repinfo_where
RepinfoWhere(q, s) == Within(q.range["prio"], Priority[s.report]) /\ ReportWhere(q, s)

\* A station query takes no account of priorities, levels and datetimes.
SelectStations(q) ==
    {s \in Sites : /\ StationWhere(q, s) /\ ReportWhere(q, s)
                   /\ q.varcodes # {} =>
                         \E d \in Measured : d.st = s.id /\ d.code \in q.varcodes}

SiteOf(d) == CHOOSE s \in Sites : s.id = d.st

SelectData(q) ==
    {d \in Measured : /\ StationWhere(q, SiteOf(d)) /\ RepinfoWhere(q, SiteOf(d))
                      /\ DateWhere(q.dt, d.dt) /\ LevelWhere(q, d.level)
                      /\ CodeWhere(q, d.code)
                      /\ Passing(q, "data", d) /\ Passing(q, "attr", d)}

SelectStationData(q) ==
    {v \in StationValues : /\ StationWhere(q, SiteOf(v)) /\ RepinfoWhere(q, SiteOf(v))
                           /\ CodeWhere(q, v.code)
                           /\ Passing(q, "data", v) /\ Passing(q, "attr", v)}

Select(kind, q) == CASE kind = "stations" -> SelectStations(q)
                     [] kind = "data" -> SelectData(q)
                     [] kind = "station data" -> SelectStationData(q)

Whole(q) == q.limit = Missing /\ q.mods = {}

\* Rows that best and last choose between: of several reports, or of several times.
Compete(d, e) == /\ d.code = e.code /\ d.level = e.level
                 /\ \A k \in {"lat", "lon", "ident"} : SiteOf(d)[k] = SiteOf(e)[k]

\* What may be returned of it. LIMIT leaves out any rows, and attributes are filtered
\* after it. Best and last leave out rows for others; stations they leave alone.
Returned(kind, q) ==
    LET S == Select(kind, q) IN
    IF Whole(q) THEN {S}
    ELSE {R \in SUBSET S :
            IF q.limit # Missing THEN Cardinality(R) <= q.limit
            ELSE \A row \in S \ R : kind = "data" /\ \E kept \in R : Compete(row, kept)}

----------------------------------------------------------------------------
(* The filter of messages, and that of summaries                           *)

\* Matcher::create, on a message exported for site s and datetime t. A criterion
\* that cannot be told of a message, MATCH_NA, rejects it: one with ana_id, which
\* the export does not put in it, unless B01192 is among the station's own values.
Match(q, s, t) ==
    /\ Asks(q, "ana_id", s.number)
    /\ q.eq["block"] # Missing => s.block = q.eq["block"] /\ Asks(q, "station", s.station)
    /\ DtContains(q.dt, t)
    /\ Within(q.range["lat"], s.lat) /\ LonContains(q.range["lon"], s.lon)
    /\ ReportWhere(q, s)

\* StationFilter<Station>::matches_station, of the summary of an explorer
SummaryMatches(q, s) ==
    /\ Within(q.range["lat"], s.lat) /\ LonContains(q.range["lon"], s.lon)
    /\ Asks(q, "report", s.report) /\ Asks(q, "ident", s.ident)

\* StationFilter<DBStation>::matches_station
DBSummaryMatches(q, s) == Asks(q, "ana_id", s.id) /\ SummaryMatches(q, s)

----------------------------------------------------------------------------
(* Narrower queries                                                        *)

Changed(val, other) == ~(other = val \/ other = Missing)

\* is_subrange: an open end of sup takes only a closed one of sub.
IsSubrange(sub, sup) == LatCovers(sup, sub)

IsSubquery(q, o) ==
    /\ \A k \in Equals : ~Changed(q.eq[k], o.eq[k])
    /\ IsSubrange(q.range["prio"], o.range["prio"])
    /\ LatCovers(o.range["lat"], q.range["lat"])
    /\ LonCovers(o.range["lon"], q.range["lon"])
    /\ DtCovers(o.dt, q.dt)
    /\ \A p \in LevelParts : ~Changed(q.level[p], o.level[p])
    /\ o.varcodes \subseteq q.varcodes
    /\ o.mods \subseteq q.mods
    /\ \A f \in Filters : ~Changed(q.filter[f], o.filter[f])
    /\ o.limit # Missing => q.limit # Missing /\ q.limit <= o.limit
=============================================================================
