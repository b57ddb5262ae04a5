------------------------------ MODULE MCQuery ------------------------------
(* A small instance of the query session for TLC. *)
EXTENDS QueryProps

Date(y, m, d, h, n) == [year |-> y, month |-> m, day |-> d, hour |-> h, minute |-> n]
Place(i, r, id, lat, lon, b, n, x) ==
    [id |-> i, report |-> r, ident |-> id, lat |-> lat, lon |-> lon, block |-> b, station |-> n,
     number |-> x]
Level(t, l) == [ltype1 |-> t, l1 |-> l, pind |-> 254, p1 |-> 0]

\* Stations on either side of the dateline and far from it, fixed and mobile. One was
\* given a longitude beyond the dateline, and one was the first of another database.
SomeSites == {Place(1, "synop", Missing, 0, 3, 16, 1, Missing),
              Place(2, "temp", "ship", 0, -4, Missing, Missing, Missing),
              Place(3, "synop", Missing, 5, 0, 16, 2, 1),
              Place(4, "temp", Missing, 0, -5, Missing, Missing, Missing)}

\* Values at the ends of years and of Februaries, in two levels.
SomeData == {[st |-> 1, code |-> 1, dt |-> Date(2003, 12, 31, 23, 59), level |-> Level(1, 0)],
             [st |-> 1, code |-> 2, dt |-> Date(2004, 2, 29, 23, 0), level |-> Level(1, 5)],
             [st |-> 2, code |-> 1, dt |-> Date(2003, 2, 28, 0, 59), level |-> Level(1, 0)],
             [st |-> 3, code |-> 1, dt |-> Date(2004, 1, 1, 0, 0), level |-> Level(1, 0)],
             [st |-> 3, code |-> 1, dt |-> Date(2004, 2, 29, 23, 59), level |-> Level(1, 0)],
             [st |-> 4, code |-> 2, dt |-> Date(2004, 2, 29, 23, 0), level |-> Level(2, 0)]}

SomeStationValues == {[st |-> 1, code |-> 1], [st |-> 2, code |-> 2]}

SomeNumbers == [lat |-> {1}, lon |-> {-4, 3, 4}, prio |-> {5}]
SomeDates == [year |-> {2003, 2004}, month |-> {2}, day |-> {29}, hour |-> {},
              minute |-> {}]
SomeChoices == [ana_id |-> {1}, report |-> {"TEMP"}, mobile |-> {1},
                ident |-> {"ship"}, block |-> {16}, station |-> {2}]
SomeFilters == [ana |-> {"high"}, data |-> {}, attr |-> {"sure"}]
SomePasses == [high |-> {[st |-> 1, code |-> 1]},
               sure |-> {d \in SomeData : d.st = 3}]
SomeModifiers == {{"best"}}
SomeLevels == [ltype1 |-> {}, l1 |-> {5}, pind |-> {}, p1 |-> {}]
SomeWholeLevels == {Level(1, 0)}
SomeMoments == {Date(2004, 2, 29, 23, 0)}
SomePriorities == [synop |-> 5, temp |-> 7]
Lower == [TEMP |-> "temp", temp |-> "temp", synop |-> "synop"]

TwoYears == {Date(y, m, d, h, n) : y \in {2003, 2004}, m \in {1, 2, 12},
                                   d \in {1, 28, 29, 31}, h \in {0, 23}, n \in {0, 59}}
TheirDates == {t \in TwoYears : IsDate(t)}
SomeCalendar == TheirDates
=============================================================================
