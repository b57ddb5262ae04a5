----------------------------- MODULE QueryProps -----------------------------
(* What a query selects, against what its parameters say.                  *)
EXTENDS QuerySession

CONSTANT Calendar        \* datetimes, with the first and last of the periods they lie in

\* The length of a month of the Gregorian calendar.
LengthOf(y, m) ==
    <<31, 28, 31, 30, 31, 30, 31, 31, 30, 31, 30, 31>>[m]
    + IF m = 2 /\ y % 4 = 0 /\ (y % 100 = 0 => y % 400 = 0) THEN 1 ELSE 0

IsDate(t) == /\ t \in [PartNames -> Int]
             /\ t["month"] \in 1..12 /\ t["day"] \in 1..LengthOf(t["year"], t["month"])
             /\ t["hour"] \in 0..23 /\ t["minute"] \in 0..59

\* The first and last instants of periods that t lies in, whichever parts they give.
Extremes(t) ==
    {x \in [year : {t["year"]}, month : {1, t["month"], 12},
            day : {1, t["day"], LengthOf(t["year"], t["month"]), 31},
            hour : {0, t["hour"], 23}, minute : {0, t["minute"], 59}] : IsDate(x)}

ASSUME CalendarAssumption == \A t \in Calendar : IsDate(t) /\ Extremes(t) \subseteq Calendar

----------------------------------------------------------------------------
(* What parameters say, in terms of the calendar and of the circle          *)

Agrees(d, t) == \A p \in PartNames : d[p] # Missing => t[p] = d[p]

\* A datetime is in a range if something that the parameters describe comes no
\* later than it, and something no earlier.
InTime(dt, t) ==
    /\ DateMissing(dt["min"]) \/ \E u \in Calendar : Agrees(dt["min"], u) /\ Upto(u, t)
    /\ DateMissing(dt["max"]) \/ \E u \in Calendar : Agrees(dt["max"], u) /\ Upto(t, u)

\* Going east from one end one meets the longitude before the other end, or one
\* goes all the way round.
OnArc(r, lon) ==
    LET Turns(n) == n % (2 * Half) IN
    \/ LonMissing(r)
    \/ r["min"] # r["max"] /\ Turns(r["max"] - r["min"]) = 0
    \/ Turns(lon - r["min"]) <= Turns(r["max"] - r["min"])

Asked(q, s, d) ==
    /\ \A f \in {"lat", "prio"} :
          LET x == IF f = "lat" THEN s.lat ELSE Priority[s.report] IN
          /\ q.range[f]["min"] = Missing \/ x >= q.range[f]["min"]
          /\ q.range[f]["max"] = Missing \/ x <= q.range[f]["max"]
    /\ OnArc(q.range["lon"], s.lon)
    /\ InTime(q.dt, d.dt)
    /\ \A k \in Equals \ {"mobile", "report"} :
          q.eq[k] = Missing \/ q.eq[k] = [ana_id |-> s.id, ident |-> s.ident,
                                          block |-> s.block, station |-> s.station][k]
    /\ q.eq["report"] # Missing => LowerCase[q.eq["report"]] = s.report
    /\ q.eq["mobile"] # Missing => (q.eq["mobile"] # 0) = (s.ident # Missing)
    /\ \A p \in LevelParts : q.level[p] = Missing \/ q.level[p] = d.level[p]
    /\ (q.var # Missing \/ q.varlist # {}) => d.code \in q.varlist \cup {q.var}
    /\ \A f \in Filters :
          \/ q.filter[f] = Missing
          \/ f # "ana" /\ d \in Passes[q.filter[f]]
          \/ f = "ana" /\ \E v \in Passes[q.filter[f]] \cap StationValues : v.st = s.id

\* The parameters name times that there are: not the 30th of February, which an
\* earlier query may leave when it fills in the day of another month.
Exists(q) == \A e \in Ends : DateMissing(q.dt[e]) \/ \E u \in Calendar : Agrees(q.dt[e], u)

\* Longitudes that normalon brings into its range (types.cc:793).
EastOfDateline(r) == \A e \in Ends : r[e] # Missing => r[e] >= -Half

NoOther(q, keys) == \A k \in Equals \ keys : q.eq[k] = Missing

\* The filters of messages and of summaries let through what the database
\* selects, of queries made of what they know. (The former knows no ana_id, whatever
\* B01192 is in a message, and WMO stations in a block only; the latter knows names
\* of reports in lower case, and ana_id only when the summary is of a database.)
FiltersAgree(q, found) ==
    LET plain == /\ q.range["prio"] = NoRange /\ q.varcodes = {} /\ q.level = NoLevel
                 /\ q.filter = Empty.filter
        report == q.eq["report"]
        summarised == q.dt = Empty.dt /\ (report # Missing => LowerCase[report] = report)
    IN  plain =>
        /\ NoOther(q, {"report", "block", "station"})
           /\ (q.eq["station"] # Missing => q.eq["block"] # Missing) =>
              found = {d \in Measured : Match(q, SiteOf(d), d.dt)}
        /\ summarised /\ NoOther(q, {"report", "ident"}) =>
              found = {d \in Measured : SummaryMatches(q, SiteOf(d))}
        /\ summarised /\ NoOther(q, {"ana_id", "report", "ident"}) =>
              found = {d \in Measured : DBSummaryMatches(q, SiteOf(d))}

\* A query on data that is accepted selects what its parameters say: incomplete
\* datetimes reach from the first to the last instant that they describe, leap
\* years and months of any length included, and longitudes go east from the
\* minimum to the maximum, across the dateline too. (Stations whose longitude was
\* more than half a turn west are where normalon left them, out of any range.) With
\* a limit, or best or last, it returns nothing else. The filters agree with it.
SelectsWhatIsAsked ==
    LET near == {d \in Measured : SiteOf(d).lon >= -Half}
        asked == {d \in near : Asked(last.asked, SiteOf(d), d)}
    IN  last.kind = "data" /\ ~last.refused =>
        /\ Exists(last.asked) /\ EastOfDateline(last.asked.range["lon"]) =>
              /\ last.found \cap near \subseteq asked
              /\ Whole(last.run) => last.found \cap near = asked
        /\ Whole(last.run) => FiltersAgree(last.run, last.found)

----------------------------------------------------------------------------
(* Queries one after the other                                             *)

\* A range that does not go from one longitude to a greater one.
Degenerate(r) == ~LonMissing(r) /\ r["min"] >= r["max"]

\* When is_subquery says that a query narrows the one before it, what it returns
\* was returned then. It is wrong of four kinds of queries, which are left out here:
\* when codes are added to those asked for; when the range before was across the
\* dateline, or of one longitude; when the one before had a limit, which may have
\* left out what the new one asks for, the same limit or a smaller one; and when both
\* have best, or last, which keep other rows of what is asked for now.
NarrowerSelectsLess ==
    [][LET q == last'.run
           o == last.run
       IN  /\ last'.kind = last.kind /\ last.kind # "none"
           /\ ~last'.refused /\ ~last.refused
           /\ IsSubquery(q, o)
           /\ o.varcodes \in {{}, q.varcodes}
           /\ ~Degenerate(o.range["lon"])
           /\ Whole(o)
           => last'.found \subseteq last.found]_last
=============================================================================
