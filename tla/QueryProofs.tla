---------------------------- MODULE QueryProofs ----------------------------
(***************************************************************************)
(* Theorems about QuerySession: what the queries of a session select.      *)
(***************************************************************************)
EXTENDS QueryProps, TLAPS

Num == Int \cup {Missing}

Instant == [PartNames -> Int]

\* A query whose ranges and datetimes are numbers or missing.
Typed(q) ==
    q \in [range : [Ranges -> [Ends -> Num]], dt : [Ends -> [PartNames -> Num]],
          eq : {q.eq}, level : {q.level}, var : Codes \cup {Missing},
          varlist : SUBSET Codes, varcodes : SUBSET Codes,
          filter : {q.filter}, mods : SUBSET Modifiers, limit : Nat \cup {Missing}]

\* A query that has passed validate: its datetimes are whole, or missing.
Valid(q) == Typed(q) /\ q.dt \in [Ends -> Instant \cup {NoDate}]

Ran(l) ==
    /\ Typed(l.asked)
    /\ Validate(l.asked) = [query |-> l.run, refused |-> FALSE]
    /\ Valid(l.run)
    /\ l.found \in Returned(l.kind, l.run)

Kinds == {"stations", "data", "station data"}

QueryInv ==
    /\ Typed(input)
    /\ last.kind \in Kinds \cup {"none"}
    /\ last.kind # "none" /\ ~last.refused => Ran(last)

----------------------------------------------------------------------------
(* Datetimes are ordered                                                   *)

LEMMA Parts == PartNames = {"year", "month", "day", "hour", "minute"}
<1>1. DOMAIN DateParts = 1..5
  BY DEF DateParts
<1>2. /\ DateParts[1] = "year" /\ DateParts[2] = "month" /\ DateParts[3] = "day"
      /\ DateParts[4] = "hour" /\ DateParts[5] = "minute"
  BY DEF DateParts
<1> QED
  BY <1>1, <1>2 DEF PartNames

\* The first part in which a comes before b, if any.
Sooner(a, b) ==
    \/ a["year"] < b["year"]
    \/ /\ a["year"] = b["year"]
       /\ \/ a["month"] < b["month"]
          \/ /\ a["month"] = b["month"]
             /\ \/ a["day"] < b["day"]
                \/ /\ a["day"] = b["day"]
                   /\ \/ a["hour"] < b["hour"]
                      \/ a["hour"] = b["hour"] /\ a["minute"] < b["minute"]

LEMMA BeforeIs ==
    ASSUME NEW a \in Instant, NEW b \in Instant
    PROVE  Before(a, b) <=> Sooner(a, b)
<1>1. DOMAIN DateParts = 1..5
  BY DEF DateParts
<1>2. /\ DateParts[1] = "year" /\ DateParts[2] = "month" /\ DateParts[3] = "day"
      /\ DateParts[4] = "hour" /\ DateParts[5] = "minute"
  BY DEF DateParts
<1> DEFINE At(i) == /\ a[DateParts[i]] < b[DateParts[i]]
                    /\ \A j \in 1..i - 1 : a[DateParts[j]] = b[DateParts[j]]
<1>3. Before(a, b) <=> \E i \in 1..5 : At(i)
  BY <1>1 DEF Before
<1>4. At(1) <=> a["year"] < b["year"]
  BY <1>2
<1>5. At(2) <=> a["month"] < b["month"] /\ a["year"] = b["year"]
  <2>1. 1..2 - 1 = {1}
    OBVIOUS
  <2> QED
    BY <1>2, <2>1
<1>6. At(3) <=> a["day"] < b["day"] /\ a["year"] = b["year"] /\ a["month"] = b["month"]
  <2>1. 1..3 - 1 = {1, 2}
    OBVIOUS
  <2> QED
    BY <1>2, <2>1
<1>7. At(4) <=> /\ a["hour"] < b["hour"] /\ a["year"] = b["year"]
                /\ a["month"] = b["month"] /\ a["day"] = b["day"]
  <2>1. 1..4 - 1 = {1, 2, 3}
    OBVIOUS
  <2> QED
    BY <1>2, <2>1
<1>8. At(5) <=> /\ a["minute"] < b["minute"] /\ a["year"] = b["year"]
                /\ a["month"] = b["month"] /\ a["day"] = b["day"] /\ a["hour"] = b["hour"]
  <2>1. 1..5 - 1 = {1, 2, 3, 4}
    OBVIOUS
  <2> QED
    BY <1>2, <2>1
<1> HIDE DEF At
<1>9. (\E i \in 1..5 : At(i)) <=> At(1) \/ At(2) \/ At(3) \/ At(4) \/ At(5)
  <2>1. 1..5 = {1, 2, 3, 4, 5}
    OBVIOUS
  <2> QED
    BY <2>1
<1> QED
  BY <1>3, <1>4, <1>5, <1>6, <1>7, <1>8, <1>9 DEF Sooner

LEMMA SameInstant ==
    ASSUME NEW a \in Instant, NEW b \in Instant,
           a["year"] = b["year"], a["month"] = b["month"], a["day"] = b["day"],
           a["hour"] = b["hour"], a["minute"] = b["minute"]
    PROVE  a = b
BY Parts DEF Instant

LEMMA Ordered ==
    ASSUME NEW a \in Instant, NEW b \in Instant
    PROVE  /\ Upto(a, b) <=> ~Before(b, a)
           /\ Upto(a, b) /\ Upto(b, a) => a = b
<1>1. /\ Before(a, b) <=> Sooner(a, b)
      /\ Before(b, a) <=> Sooner(b, a)
  BY BeforeIs
<1>2. \A p \in PartNames : a[p] \in Int /\ b[p] \in Int
  BY DEF Instant
<1>3. ~(Sooner(a, b) /\ Sooner(b, a)) /\ ~Sooner(a, a)
  BY <1>2, Parts DEF Sooner
<1>4. Sooner(a, b) \/ Sooner(b, a) \/ a = b
  <2> SUFFICES ASSUME ~Sooner(a, b), ~Sooner(b, a) PROVE a = b
    OBVIOUS
  <2>1. /\ a["year"] = b["year"] /\ a["month"] = b["month"] /\ a["day"] = b["day"]
        /\ a["hour"] = b["hour"] /\ a["minute"] = b["minute"]
    BY <1>2, Parts DEF Sooner
  <2> QED
    BY <2>1, SameInstant
<1> QED
  BY <1>1, <1>3, <1>4 DEF Upto

LEMMA UptoTransitive ==
    ASSUME NEW a \in Instant, NEW b \in Instant, NEW c \in Instant,
           Upto(a, b), Upto(b, c)
    PROVE  Upto(a, c)
<1>1. \A p \in PartNames : a[p] \in Int /\ b[p] \in Int /\ c[p] \in Int
  BY DEF Instant
<1>2. Sooner(a, b) /\ Sooner(b, c) => Sooner(a, c)
  BY <1>1, Parts DEF Sooner
<1> QED
  BY <1>2, BeforeIs DEF Upto

LEMMA NoDateIsMissing == DateMissing(NoDate) /\ \A t \in Instant : ~DateMissing(t)
BY Parts, MissingAssumption DEF DateMissing, NoDate, Instant

----------------------------------------------------------------------------
(* Validation                                                              *)

LEMMA NormalType ==
    ASSUME NEW x \in Int
    PROVE  /\ Normal(x) \in Int
           /\ x >= -Half => Normal(x) \in -Half..Half - 1
<1> DEFINE w == 2 * Half
<1>1. w \in Nat /\ w > 0
  BY HalfTurn
<1>2. \A n \in Int : n % w \in 0..w - 1
  BY <1>1
<1>3. x + Half \in Int /\ -(x + Half) \in Int
  BY HalfTurn
<1>4. Rem(x + Half, w) \in Int /\ (x + Half >= 0 => Rem(x + Half, w) \in 0..w - 1)
  BY <1>1, <1>2, <1>3 DEF Rem
<1> QED
  BY <1>4, HalfTurn DEF Normal

LEMMA FirstType == First \in Instant
BY Parts DEF First, Instant

LEMMA LastType ==
    ASSUME NEW d \in [PartNames -> Num], ~DateMissing(d)
    PROVE  Last(d) \in Instant
<1> DEFINE m == IF d["month"] = Missing THEN 12 ELSE d["month"]
<1>1. DaysInMonth(d["year"], m) \in Int
  BY DEF DaysInMonth
<1> HIDE DEF m
<1> DEFINE n == DaysInMonth(d["year"], m)
<1>2. Last(d) = [year |-> 0, month |-> 12, day |-> n, hour |-> 23, minute |-> 59]
  BY DEF Last, m
<1> HIDE DEF n
<1> QED
  BY <1>1, <1>2, Parts DEF Instant, n

LEMMA FillType ==
    ASSUME NEW d \in [PartNames -> Num], NEW by \in Instant
    PROVE  /\ Fill(d, by) \in Instant \cup {NoDate}
           /\ ~DateMissing(d) => Fill(d, by) \in Instant
BY DEF Fill, Instant, Num, NoDate

LEMMA BoundsType ==
    ASSUME NEW d \in [PartNames -> Num]
    PROVE  /\ LowerBound(d) \in Instant \cup {NoDate}
           /\ UpperBound(d) \in Instant \cup {NoDate}
           /\ ~DateMissing(d) => LowerBound(d) \in Instant /\ UpperBound(d) \in Instant
           /\ DateMissing(d) => LowerBound(d) = NoDate /\ UpperBound(d) = NoDate
<1>1. DateMissing(d) => LowerBound(d) = NoDate /\ UpperBound(d) = NoDate
  BY DEF LowerBound, UpperBound, Fill
<1>2. ~DateMissing(d) => UpperBound(d) = Fill(d, Last(d))
  BY DEF UpperBound
<1> QED
  BY <1>1, <1>2, FirstType, LastType, FillType DEF LowerBound

LEMMA NoDateType == NoDate \in [PartNames -> Num]
BY DEF NoDate, Num

LEMMA LonSetType ==
    ASSUME NEW r \in [Ends -> Num], ~OpenEnded(r)
    PROVE  LonSet(r) \in [Ends -> Num]
<1>1. CASE r["min"] = Missing
  BY <1>1 DEF LonSet, NoRange, Num
<1>2. CASE r["min"] # Missing
  <2>1. \A e \in Ends : r[e] \in Int
    BY <1>2 DEF OpenEnded, Num, Ends
  <2>2. \A e \in Ends : Normal(r[e]) \in Int
    BY <2>1, NormalType
  <2> QED
    BY <1>2, <2>2 DEF LonSet, NoRange, Num
<1> QED
  BY <1>1, <1>2

\* What validate makes of a query that it does not refuse.
LEMMA ValidatedIs ==
    ASSUME NEW q, Typed(q), ~Validate(q).refused
    PROVE  LET v == Validate(q).query IN
           /\ ~OpenEnded(q.range["lon"])
           /\ ~Partial(q.dt["min"]) /\ ~Partial(q.dt["max"])
           /\ v = [q EXCEPT !.varcodes = q.varlist \cup ({q.var} \ {Missing}),
                            !.range["lon"] = LonSet(q.range["lon"]),
                            !.dt["min"] = LowerBound(q.dt["min"]),
                            !.dt["max"] = UpperBound(q.dt["max"])]
           /\ Validate(q) = [query |-> v, refused |-> FALSE]
BY DEF Validate, Typed, Ends, Ranges

LEMMA ValidateTyped ==
    ASSUME NEW q, Typed(q)
    PROVE  /\ Typed(Validate(q).query)
           /\ ~Validate(q).refused => Valid(Validate(q).query)
<1> DEFINE codes == q.varlist \cup ({q.var} \ {Missing})
           coded == [q EXCEPT !.varcodes = codes]
           turned == [coded EXCEPT !.range["lon"] = LonSet(@)]
           begun == [turned EXCEPT !.dt["min"] = LowerBound(@)]
           ended == [begun EXCEPT !.dt["max"] = UpperBound(@)]
<1>1. codes \subseteq Codes
  BY DEF Typed
<1>2. Typed(coded) /\ coded.range = q.range /\ coded.dt = q.dt
  BY <1>1 DEF Typed
<1>3. ASSUME ~OpenEnded(q.range["lon"])
      PROVE  Typed(turned) /\ turned.dt = q.dt
  <2>1. q.range["lon"] \in [Ends -> Num]
    BY DEF Typed, Ranges
  <2>2. LonSet(q.range["lon"]) \in [Ends -> Num]
    BY <1>3, <2>1, LonSetType
  <2> HIDE DEF codes
  <2> QED
    BY <1>2, <2>2 DEF Typed, Ranges
<1>4. q.dt["min"] \in [PartNames -> Num] /\ q.dt["max"] \in [PartNames -> Num]
  BY DEF Typed, Ends
<1>5. /\ LowerBound(q.dt["min"]) \in Instant \cup {NoDate}
      /\ UpperBound(q.dt["max"]) \in Instant \cup {NoDate}
      /\ Instant \cup {NoDate} \subseteq [PartNames -> Num]
  BY <1>4, BoundsType, NoDateType DEF Instant, Num
<1> HIDE DEF coded, turned
<1>6. ASSUME Typed(turned), turned.dt = q.dt
      PROVE  Typed(begun) /\ begun.dt = [q.dt EXCEPT !["min"] = LowerBound(q.dt["min"])]
  BY <1>5, <1>6 DEF Typed, Ends
<1> HIDE DEF begun
<1>7. ASSUME Typed(begun), begun.dt = [q.dt EXCEPT !["min"] = LowerBound(q.dt["min"])]
      PROVE  /\ Typed(ended)
             /\ ended.dt = [e \in Ends |-> IF e = "min" THEN LowerBound(q.dt["min"])
                                           ELSE UpperBound(q.dt["max"])]
  <2>1. q.dt \in [Ends -> [PartNames -> Num]]
    BY DEF Typed
  <2> QED
    BY <1>5, <1>7, <2>1 DEF Typed, Ends
<1> HIDE DEF ended
<1>8. ASSUME Typed(begun), begun.dt = [q.dt EXCEPT !["min"] = LowerBound(q.dt["min"])]
      PROVE  Valid(ended)
  BY <1>5, <1>7, <1>8 DEF Valid, Ends
<1>9. Validate(q) = IF OpenEnded(q.range["lon"]) THEN [query |-> coded, refused |-> TRUE]
                    ELSE IF Partial(q.dt["min"]) THEN [query |-> turned, refused |-> TRUE]
                    ELSE IF Partial(q.dt["max"]) THEN [query |-> begun, refused |-> TRUE]
                    ELSE [query |-> ended, refused |-> FALSE]
  BY DEF Validate, coded, turned, begun, ended
<1>10. CASE OpenEnded(q.range["lon"])
  BY <1>2, <1>9, <1>10
<1>11. CASE ~OpenEnded(q.range["lon"])
  BY <1>3, <1>6, <1>7, <1>8, <1>9, <1>11
<1> QED
  BY <1>10, <1>11

----------------------------------------------------------------------------
(* The invariant of a session                                              *)

LEMMA EmptyTyped == Typed(Empty)
<1>1. \A e \in Ends : Missing \in Num
  BY DEF Num
<1> QED
  BY <1>1, NoDateType DEF Typed, Empty, NoRange, Num

LEMMA InitQueryInv == SessionInit => QueryInv
BY EmptyTyped DEF SessionInit, QueryInv, None

LEMMA QueryKeeps ==
    ASSUME QueryInv, NEW kind \in Kinds, NEW removes \in BOOLEAN, Query(kind, removes)
    PROVE  QueryInv' /\ last'.kind = kind
<1> DEFINE v == Validate(input)
           refused == v.refused \/ (v.query.mods # {} /\ (removes \/ kind = "station data"))
<1>1. Typed(v.query) /\ (~v.refused => Valid(v.query))
  BY ValidateTyped DEF QueryInv
<1>2. ~v.refused => v = [query |-> v.query, refused |-> FALSE]
  BY ValidatedIs DEF QueryInv
<1>3. PICK R \in IF refused THEN {{}} ELSE Returned(kind, v.query) :
         /\ input' = v.query
         /\ last' = [kind |-> kind, asked |-> input, run |-> v.query, refused |-> refused,
                     found |-> R]
  BY DEF Query
<1>4. Typed(input) /\ (v.refused => refused)
  BY DEF QueryInv
<1> HIDE DEF v, refused
<1>5. /\ last'.kind = kind /\ last'.asked = input /\ last'.run = v.query
      /\ last'.refused = refused /\ last'.found = R
  BY <1>3
<1>6. ~refused => Ran(last')
  BY <1>1, <1>2, <1>3, <1>4, <1>5 DEF Ran, v
<1> QED
  BY <1>1, <1>3, <1>5, <1>6 DEF QueryInv

LEMMA SetKeeps ==
    ASSUME QueryInv, SetParameter
    PROVE  QueryInv' /\ last' = last
<1> SUFFICES Typed(input') /\ last' = last
  BY DEF QueryInv
<1>1. Typed(input)
  BY DEF QueryInv
<1>2. ASSUME NEW f \in Ranges, NEW E \in EndSets, NEW x \in Numbers[f],
             SetNumber(f, E, x) \/ SetDegrees(f, E, x)
      PROVE  Typed(input') /\ last' = last
  <2>1. x \in Int /\ Normal(x) \in Int
    BY NumbersAssumption, NormalType
  <2> DEFINE y(z) == [e \in Ends |-> IF e \notin E THEN input.range[f][e] ELSE z]
  <2>2. last' = last /\ \E z \in {x, Normal(x)} : input' = [input EXCEPT !.range[f] = y(z)]
    <3>1. CASE SetNumber(f, E, x)
      BY <3>1 DEF SetNumber, Setting
    <3>2. CASE SetDegrees(f, E, x)
      BY <3>2 DEF SetDegrees, Setting
    <3> QED
      BY <1>2, <3>1, <3>2
  <2>3. \A z \in {x, Normal(x)} : y(z) \in [Ends -> Num]
    BY <1>1, <2>1 DEF Typed, Num
  <2> HIDE DEF y
  <2>4. PICK r \in [Ends -> Num] : input' = [input EXCEPT !.range[f] = r]
    BY <2>2, <2>3
  <2> QED
    BY <1>1, <2>2, <2>4 DEF Typed
<1>3. ASSUME NEW f \in Ranges, NEW E \in EndSets, UnsetRange(f, E)
      PROVE  Typed(input') /\ last' = last
  <2> DEFINE y == [e \in Ends |-> IF e \in E THEN Missing ELSE input.range[f][e]]
  <2>1. input' = [input EXCEPT !.range[f] = y] /\ last' = last
    BY <1>3 DEF UnsetRange, Setting
  <2>2. y \in [Ends -> Num]
    BY <1>1 DEF Typed, Num
  <2> HIDE DEF y
  <2> QED
    BY <1>1, <2>1, <2>2 DEF Typed
<1>4. ASSUME NEW p \in PartNames, NEW E \in EndSets, NEW x \in Dates[p], SetDatePart(p, E, x)
      PROVE  Typed(input') /\ last' = last
  <2>1. x \in Num
    BY NumbersAssumption DEF Num
  <2>2. PICK y \in [Ends -> [PartNames -> Num]] : input' = [input EXCEPT !.dt = y]
    BY <1>1, <1>4, <2>1 DEF SetDatePart, Typed
  <2> QED
    BY <1>1, <1>4, <2>2 DEF SetDatePart, Setting, Typed
<1>5. ASSUME NEW k \in Equals, UnsetEqual(k) \/ \E x \in Choices[k] : SetEqual(k, x)
      PROVE  Typed(input') /\ last' = last
  BY <1>1, <1>5 DEF UnsetEqual, SetEqual, Setting, Typed
<1>6. ASSUME NEW p \in LevelParts, NEW x \in LevelChoices[p], SetLevelPart(p, x)
      PROVE  Typed(input') /\ last' = last
  BY <1>1, <1>6 DEF SetLevelPart, Setting, Typed
<1>7. ASSUME NEW c \in Codes \cup {Missing}, SetVar(c)
      PROVE  Typed(input') /\ last' = last
  BY <1>1, <1>7 DEF SetVar, Setting, Typed
<1>8. ASSUME NEW C \in SUBSET Codes, SetVarlist(C)
      PROVE  Typed(input') /\ last' = last
  BY <1>1, <1>8 DEF SetVarlist, Setting, Typed
<1>9. ASSUME NEW f \in Filters, NEW x \in FilterChoices[f], SetFilter(f, x)
      PROVE  Typed(input') /\ last' = last
  BY <1>1, <1>9 DEF SetFilter, Setting, Typed
<1>10. ASSUME NEW M \in ModifierChoices, SetModifiers(M)
       PROVE  Typed(input') /\ last' = last
  BY <1>1, <1>10, NumbersAssumption DEF SetModifiers, Setting, Typed
<1>11. ASSUME NEW n \in Limits, SetLimit(n)
       PROVE  Typed(input') /\ last' = last
  BY <1>1, <1>11, NumbersAssumption DEF SetLimit, Setting, Typed
<1>12. ASSUME NEW E \in EndSets, NEW t \in Moments \cup {NoDate}, SetDate(E, t)
       PROVE  Typed(input') /\ last' = last
  <2>1. t \in [PartNames -> Num]
    BY NumbersAssumption, NoDateType DEF Num
  <2>2. PICK y \in [Ends -> [PartNames -> Num]] : input' = [input EXCEPT !.dt = y]
    BY <1>1, <1>12, <2>1 DEF SetDate, Typed
  <2> QED
    BY <1>1, <1>12, <2>2 DEF SetDate, Setting, Typed
<1>13. ASSUME NEW P, NEW l, SetLevel(P, l)
       PROVE  Typed(input') /\ last' = last
  BY <1>1, <1>13 DEF SetLevel, Setting, Typed
<1>14. ASSUME SetStationContext
       PROVE  Typed(input') /\ last' = last
  BY <1>1, <1>14, NoDateType DEF SetStationContext, Setting, Typed
<1> QED
  BY <1>2, <1>3, <1>4, <1>5, <1>6, <1>7, <1>8, <1>12, <1>13, <1>14, <1>9, <1>10, <1>11
     DEF SetParameter

LEMMA NextQueryInv == QueryInv /\ [SessionNext]_sessionVars => QueryInv'
<1> SUFFICES ASSUME QueryInv, [SessionNext]_sessionVars PROVE QueryInv'
  OBVIOUS
<1>1. CASE SetParameter
  BY <1>1, SetKeeps
<1>2. CASE UnsetAll
  BY <1>2, EmptyTyped DEF UnsetAll, QueryInv, None
<1>3. CASE QueryStations
  BY <1>3, QueryKeeps DEF QueryStations, Kinds
<1>4. CASE QueryData
  BY <1>4, QueryKeeps DEF QueryData, Kinds
<1>5. CASE RemoveData
  BY <1>5, QueryKeeps DEF RemoveData, Kinds
<1>6. CASE UNCHANGED sessionVars
  BY <1>6 DEF sessionVars, QueryInv
<1> QED
  BY <1>1, <1>2, <1>3, <1>4, <1>5, <1>6 DEF SessionNext

----------------------------------------------------------------------------
(* Narrower queries                                                        *)

LEMMA SiteExists ==
    ASSUME NEW d \in Measured \cup StationValues
    PROVE  SiteOf(d) \in Sites /\ SiteOf(d).id = d.st
BY ValuesAssumption DEF SiteOf

LEMMA NarrowerRange ==
    ASSUME NEW r \in [Ends -> Num], NEW s \in [Ends -> Num], NEW x \in Int,
           LatCovers(r, s), Within(s, x)
    PROVE  Within(r, x)
BY MissingAssumption DEF LatCovers, Within, Num, Ends

LEMMA NarrowerLon ==
    ASSUME NEW r \in [Ends -> Num], NEW s \in [Ends -> Num], NEW x \in Int,
           LonCovers(r, s), ~Degenerate(r), LonWhere(s, x)
    PROVE  LonWhere(r, x)
<1>1. CASE LonMissing(r)
  BY <1>1 DEF LonWhere
<1>2. CASE ~LonMissing(r)
  <2>1. ~LonMissing(s)
    BY <1>2 DEF LonCovers
  <2>2. /\ r["min"] \in Int /\ r["max"] \in Int
        /\ s["min"] \in Int /\ s["max"] \in Int
    BY <1>2, <2>1 DEF LonMissing, Num, Ends
  <2>3. r["min"] < r["max"]
    BY <1>2, <2>2 DEF Degenerate
  <2>4. s["min"] < s["max"] /\ r["min"] <= s["min"] /\ s["max"] <= r["max"]
    BY <1>2, <2>3 DEF LonCovers
  <2>5. s["min"] <= x /\ x <= s["max"]
    BY <2>1, <2>2, <2>4 DEF LonWhere
  <2> QED
    BY <2>2, <2>3, <2>4, <2>5 DEF LonWhere
<1> QED
  BY <1>1, <1>2

LEMMA NarrowerDates ==
    ASSUME NEW dt \in [Ends -> Instant \cup {NoDate}],
           NEW u \in [Ends -> Instant \cup {NoDate}], NEW t \in Instant,
           DtCovers(dt, u), DateWhere(u, t)
    PROVE  DateWhere(dt, t)
<1>1. /\ dt["min"] \in Instant \cup {NoDate} /\ dt["max"] \in Instant \cup {NoDate}
      /\ u["min"] \in Instant \cup {NoDate} /\ u["max"] \in Instant \cup {NoDate}
  BY DEF Ends
<1>2. DtContains(u, t)
  BY <1>1, NoDateIsMissing DEF DateWhere, DtContains, Upto
<1>3. ASSUME ~DateMissing(dt["min"]) PROVE Upto(dt["min"], t)
  <2>1. ~DateMissing(u["min"]) /\ ~Before(u["min"], dt["min"])
    BY <1>3 DEF DtCovers
  <2>2. dt["min"] \in Instant /\ u["min"] \in Instant
    BY <1>1, <1>3, <2>1, NoDateIsMissing
  <2>3. Upto(dt["min"], u["min"]) /\ Upto(u["min"], t)
    BY <1>2, <2>1, <2>2, Ordered DEF DtContains
  <2> QED
    BY <2>2, <2>3, UptoTransitive
<1>4. ASSUME ~DateMissing(dt["max"]) PROVE Upto(t, dt["max"])
  <2>1. ~DateMissing(u["max"]) /\ ~Before(dt["max"], u["max"])
    BY <1>4 DEF DtCovers
  <2>2. dt["max"] \in Instant /\ u["max"] \in Instant
    BY <1>1, <1>4, <2>1, NoDateIsMissing
  <2>3. Upto(t, u["max"]) /\ Upto(u["max"], dt["max"])
    BY <1>2, <2>1, <2>2, Ordered DEF DtContains
  <2> QED
    BY <2>2, <2>3, UptoTransitive
<1>5. CASE dt["min"] = dt["max"] /\ ~DateMissing(dt["min"])
  <2>1. dt["min"] \in Instant
    BY <1>1, <1>5, NoDateIsMissing
  <2>2. t = dt["min"]
    BY <1>3, <1>4, <1>5, <2>1, Ordered
  <2> QED
    BY <1>5, <2>2 DEF DateWhere
<1>6. CASE dt["min"] # dt["max"]
  BY <1>3, <1>4, <1>6 DEF DateWhere, DtContains
<1> QED
  BY <1>5, <1>6 DEF DateWhere

\* What is_subquery says of two queries that have been validated.
LEMMA SubqueryNarrows ==
    ASSUME NEW q, NEW o, Valid(q), Valid(o), IsSubquery(q, o),
           o.varcodes \in {{}, q.varcodes}, ~Degenerate(o.range["lon"]),
           NEW kind \in Kinds
    PROVE  Select(kind, q) \subseteq Select(kind, o)
<1>1. \A f \in Ranges : q.range[f] \in [Ends -> Num] /\ o.range[f] \in [Ends -> Num]
  BY DEF Valid, Typed
<1>2. \A k \in Equals : o.eq[k] = q.eq[k] \/ o.eq[k] = Missing
  BY DEF IsSubquery, Changed
<1>3. \A k \in Equals : \A x : Asks(q, k, x) => Asks(o, k, x)
  BY <1>2 DEF Asks
<1>4. /\ LatCovers(o.range["prio"], q.range["prio"])
      /\ LatCovers(o.range["lat"], q.range["lat"])
      /\ LonCovers(o.range["lon"], q.range["lon"])
      /\ DtCovers(o.dt, q.dt)
      /\ \A p \in LevelParts : o.level[p] = q.level[p] \/ o.level[p] = Missing
  BY DEF IsSubquery, IsSubrange, Changed
<1>5. \A c : CodeWhere(q, c) => CodeWhere(o, c)
  BY DEF CodeWhere, IsSubquery
<1>6. \A s \in Sites : ReportWhere(q, s) => ReportWhere(o, s)
  BY <1>2 DEF ReportWhere, Equals
<1>7. ASSUME NEW s \in Sites, StationWhere(q, s) PROVE StationWhere(o, s)
  <2>1. s.lat \in Int /\ s.lon \in Int
    BY SitesAssumption, HalfTurn
  <2>2. Within(o.range["lat"], s.lat)
    BY <1>1, <1>4, <1>7, <2>1, NarrowerRange DEF StationWhere, Ranges
  <2>3. LonWhere(o.range["lon"], s.lon)
    BY <1>1, <1>4, <1>7, <2>1, NarrowerLon DEF StationWhere, Ranges
  <2>4. MobileWhere(o, s)
    BY <1>2, <1>7 DEF StationWhere, MobileWhere, Equals
  <2>5. o.filter["ana"] # Missing =>
           \E v \in StationValues : v.st = s.id /\ Passing(o, "ana", v)
    <3>1. o.filter["ana"] = Missing \/ o.filter["ana"] = q.filter["ana"]
      BY DEF IsSubquery, Changed, Filters
    <3> QED
      BY <1>7, <3>1 DEF StationWhere, Passing
  <2> QED
    BY <1>3, <1>7, <2>2, <2>3, <2>4, <2>5 DEF StationWhere, Equals
<1>8. ASSUME NEW s \in Sites, RepinfoWhere(q, s) PROVE RepinfoWhere(o, s)
  <2>1. Within(o.range["prio"], Priority[s.report])
    BY <1>1, <1>4, <1>8, SitesAssumption, NarrowerRange DEF RepinfoWhere, Ranges
  <2> QED
    BY <1>6, <1>8, <2>1 DEF RepinfoWhere
<1>9. \A d \in Measured : DateWhere(q.dt, d.dt) => DateWhere(o.dt, d.dt)
  <2>1. \A d \in Measured : d.dt \in Instant
    BY ValuesAssumption DEF Instant
  <2> QED
    BY <1>4, <2>1, NarrowerDates DEF Valid
<1>10. \A d \in Measured : LevelWhere(q, d.level) => LevelWhere(o, d.level)
  BY <1>4 DEF LevelWhere
<1>11. ASSUME NEW f \in Filters, NEW row, Passing(q, f, row) PROVE Passing(o, f, row)
  BY <1>11 DEF Passing, IsSubquery, Changed
<1>12. SelectStations(q) \subseteq SelectStations(o)
  <2>1. \A s \in Sites :
           (q.varcodes # {} => \E d \in Measured : d.st = s.id /\ d.code \in q.varcodes) =>
           (o.varcodes # {} => \E d \in Measured : d.st = s.id /\ d.code \in o.varcodes)
    OBVIOUS
  <2> QED
    BY <1>6, <1>7, <2>1 DEF SelectStations
<1>13. SelectData(q) \subseteq SelectData(o)
  BY <1>5, <1>7, <1>8, <1>9, <1>10, <1>11, SiteExists DEF SelectData, Filters
<1>14. SelectStationData(q) \subseteq SelectStationData(o)
  BY <1>5, <1>7, <1>8, <1>11, SiteExists DEF SelectStationData, Filters
<1> QED
  BY <1>12, <1>13, <1>14 DEF Select, Kinds

LEMMA ReturnedIs ==
    ASSUME NEW kind, NEW q, NEW R \in Returned(kind, q)
    PROVE  R \subseteq Select(kind, q) /\ (Whole(q) => R = Select(kind, q))
BY DEF Returned

\* A query that is_subquery takes for a narrower one returns nothing that the query
\* before did not (core/query.cc:186-251), of any tables and whatever was set and
\* unset in between, but for the four kinds of queries that the property leaves out.
THEOREM NarrowerNarrows == SessionSpec => NarrowerSelectsLess
<1>1. ASSUME QueryInv, QueryInv', [SessionNext]_sessionVars
      PROVE  [LET q == last'.run
                  o == last.run
              IN  /\ last'.kind = last.kind /\ last.kind # "none"
                  /\ ~last'.refused /\ ~last.refused
                  /\ IsSubquery(q, o)
                  /\ o.varcodes \in {{}, q.varcodes}
                  /\ ~Degenerate(o.range["lon"])
                  /\ Whole(o)
                  => last'.found \subseteq last.found]_last
  <2> SUFFICES ASSUME last'.kind = last.kind, last.kind # "none",
                      ~last'.refused, ~last.refused, IsSubquery(last'.run, last.run),
                      last.run.varcodes \in {{}, last'.run.varcodes},
                      ~Degenerate(last.run.range["lon"]), Whole(last.run)
               PROVE  last'.found \subseteq last.found
    OBVIOUS
  <2>1. last.kind \in Kinds /\ Ran(last) /\ Ran(last')
    BY <1>1 DEF QueryInv
  <2>2. /\ last'.found \subseteq Select(last.kind, last'.run)
        /\ last.found = Select(last.kind, last.run)
    BY <2>1, ReturnedIs DEF Ran
  <2> QED
    BY <2>1, <2>2, SubqueryNarrows DEF Ran
<1> QED
  BY <1>1, InitQueryInv, NextQueryInv, PTL DEF SessionSpec, NarrowerSelectsLess

----------------------------------------------------------------------------
(* Longitudes                                                              *)

LEMMA QuotientIs ==
    ASSUME NEW w \in Nat \ {0}, NEW x \in Int
    PROVE  /\ x = w * (x \div w) + (x % w)
           /\ (x % w) \in 0..w - 1
           /\ x \div w \in Int
OBVIOUS

LEMMA RemainderUnique ==
    ASSUME NEW w \in Nat \ {0}, NEW k \in Int, NEW l \in Int,
           NEW r \in 0..w - 1, NEW s \in 0..w - 1, w * k + r = w * l + s
    PROVE  r = s
<1>1. CASE k < l
  <2>1. w * l = w * k + w * (l - k)
    OBVIOUS
  <2>2. w * (l - k) >= w
    BY <1>1
  <2> QED
    BY <2>1, <2>2
<1>2. CASE k > l
  <2>1. w * k = w * l + w * (k - l)
    OBVIOUS
  <2>2. w * (k - l) >= w
    BY <1>2
  <2> QED
    BY <2>1, <2>2
<1> QED
  BY <1>1, <1>2

\* Whole turns make no difference.
LEMMA WholeTurns ==
    ASSUME NEW w \in Nat \ {0}, NEW x \in Int, NEW k \in Int
    PROVE  (x + w * k) % w = x % w
<1> DEFINE y == x + w * k
<1>1. x = w * (x \div w) + (x % w) /\ (x % w) \in 0..w - 1 /\ x \div w \in Int
  BY QuotientIs
<1>2. y \in Int
  OBVIOUS
<1>3. y = w * (y \div w) + (y % w) /\ (y % w) \in 0..w - 1 /\ y \div w \in Int
  BY <1>2, QuotientIs
<1>4. w * ((x \div w) + k) = w * (x \div w) + w * k
  BY <1>1
<1>5. w * ((x \div w) + k) + (x % w) = w * (y \div w) + (y % w)
  BY <1>1, <1>3, <1>4
<1>6. (x \div w) + k \in Int
  BY <1>1
<1> HIDE DEF y
<1>7. x % w = y % w
  BY <1>1, <1>3, <1>5, <1>6, RemainderUnique
<1> QED
  BY <1>7 DEF y

LEMMA LessThanATurn ==
    ASSUME NEW w \in Nat \ {0}, NEW x \in (1 - w)..w - 1
    PROVE  x % w = IF x >= 0 THEN x ELSE x + w
<1>1. CASE x >= 0
  BY <1>1
<1>2. CASE x < 0
  <2>1. PICK k \in Int : k = 1
    OBVIOUS
  <2>2. x \in Int
    OBVIOUS
  <2>3. (x + w * k) % w = x % w
    BY <2>2, WholeTurns
  <2>4. x + w * k = x + w /\ x + w \in 0..w - 1
    BY <1>2, <2>1
  <2> QED
    BY <1>2, <2>3, <2>4
<1> QED
  BY <1>1, <1>2

LEMMA NormalTurns ==
    ASSUME NEW x \in Int, x >= -Half
    PROVE  /\ Normal(x) \in -Half..Half - 1
           /\ \E k \in Int : Normal(x) = x + 2 * Half * k
<1> DEFINE w == 2 * Half
           y == x + Half
<1>1. w \in Nat \ {0} /\ y \in Int /\ y >= 0
  BY HalfTurn
<1>2. Normal(x) = (y % w) - Half
  BY <1>1 DEF Normal, Rem
<1> HIDE DEF w, y
<1>3. /\ y = w * (y \div w) + (y % w)
      /\ y \div w \in Int /\ (y % w) \in Int
  BY <1>1, QuotientIs
<1> DEFINE k == -(y \div w)
<1>4. w * (-(y \div w)) = -(w * (y \div w))
  BY <1>1, <1>3
<1>5. w * (y \div w) \in Int
  BY <1>1, <1>3
<1>6. (y % w) - Half = x + w * k
  BY <1>3, <1>4, <1>5, HalfTurn DEF y
<1>7. k \in Int
  BY <1>3
<1> HIDE DEF k
<1>8. Normal(x) = x + w * k
  BY <1>2, <1>6
<1> QED
  BY <1>7, <1>8, NormalType DEF w

\* The range that validate makes takes in what lies east of the one end and west
\* of the other.
LEMMA LonSelects ==
    ASSUME NEW r \in [Ends -> Num], ~OpenEnded(r), EastOfDateline(r),
           NEW lon \in -Half..Half - 1
    PROVE  OnArc(r, lon) <=> LonWhere(LonSet(r), lon)
<1> DEFINE w == 2 * Half
           a == r["min"]
           b == r["max"]
<1>1. CASE r["min"] = Missing
  BY <1>1 DEF OnArc, LonSet, LonWhere, LonMissing, NoRange, Ends
<1>2. CASE r["min"] # Missing
  <2>1. a \in Int /\ b \in Int /\ a >= -Half /\ b >= -Half /\ ~LonMissing(r)
    BY <1>2, MissingAssumption DEF OpenEnded, EastOfDateline, Num, Ends, LonMissing
  <2> DEFINE m == Normal(a)
             n == Normal(b)
  <2>2. m \in -Half..Half - 1 /\ n \in -Half..Half - 1
    BY <2>1, NormalTurns
  <2>3. PICK i \in Int : m = a + w * i
    BY <2>1, NormalTurns
  <2>4. PICK j \in Int : n = b + w * j
    BY <2>1, NormalTurns
  <2>5. w \in Nat \ {0} /\ lon \in Int
    BY HalfTurn
  <2>6. LonSet(r) = IF a # b /\ m = n THEN NoRange ELSE [e \in Ends |-> Normal(r[e])]
    BY <1>2 DEF LonSet, Ends
  <2> HIDE DEF m, n, w, a, b
  <2>7. (lon - a) % w = (lon - m) % w
    <3>1. -i \in Int /\ w * (-i) = -(w * i) /\ w * i \in Int
      BY <2>3, <2>5
    <3>2. lon - m = (lon - a) + w * (-i)
      BY <2>1, <2>3, <2>5, <3>1
    <3>3. lon - a \in Int
      BY <2>1, <2>5
    <3> QED
      BY <2>5, <3>1, <3>2, <3>3, WholeTurns
  <2>8. (b - a) % w = (n - m) % w
    <3>1. j - i \in Int /\ w * (j - i) = w * j - w * i /\ w * i \in Int /\ w * j \in Int
      BY <2>3, <2>4, <2>5
    <3>2. n - m = (b - a) + w * (j - i)
      BY <2>1, <2>3, <2>4, <3>1
    <3>3. b - a \in Int
      BY <2>1
    <3> QED
      BY <2>5, <3>1, <3>2, <3>3, WholeTurns
  <2>9. /\ (lon - m) % w = IF lon >= m THEN lon - m ELSE lon - m + w
        /\ (n - m) % w = IF n >= m THEN n - m ELSE n - m + w
    <3>1. lon - m \in (1 - w)..w - 1 /\ n - m \in (1 - w)..w - 1
      BY <2>2, <2>5, HalfTurn DEF w
    <3>2. /\ (lon - m) % w = IF lon - m >= 0 THEN lon - m ELSE lon - m + w
          /\ (n - m) % w = IF n - m >= 0 THEN n - m ELSE n - m + w
      BY <2>5, <3>1, LessThanATurn
    <3>3. lon - m >= 0 <=> lon >= m
      BY <2>2, <2>5, HalfTurn
    <3>4. n - m >= 0 <=> n >= m
      BY <2>2, HalfTurn
    <3> QED
      BY <3>2, <3>3, <3>4
  <2>10. OnArc(r, lon) <=> (a # b /\ (n - m) % w = 0) \/ (lon - m) % w <= (n - m) % w
    BY <2>1, <2>7, <2>8 DEF OnArc, a, b, w
  <2>11. CASE a # b /\ m = n
    <3>1. LonWhere(LonSet(r), lon)
      BY <2>6, <2>11 DEF LonWhere, LonMissing, NoRange, Ends
    <3> QED
      BY <2>2, <2>9, <2>10, <2>11, <3>1
  <2>12. CASE a = b \/ m # n
    <3> DEFINE s == LonSet(r)
    <3>1. s["min"] = m /\ s["max"] = n
      BY <2>6, <2>12 DEF m, n, a, b, Ends
    <3>2. ~LonMissing(s)
      BY <2>2, <3>1, MissingAssumption, HalfTurn DEF LonMissing, Ends
    <3>3. LonWhere(s, lon) <=> \/ m = n /\ lon = m
                               \/ m < n /\ m <= lon /\ lon <= n
                               \/ m > n /\ (m <= lon \/ lon <= n)
      BY <2>2, <3>1, <3>2, HalfTurn DEF LonWhere
    <3>4. a = b => m = n
      BY DEF m, n
    <3> HIDE DEF s
    <3>5. CASE m = n
      <4>1. a = b
        BY <2>12, <3>5
      <4> QED
        BY <2>2, <2>5, <2>9, <2>10, <3>3, <3>5, <4>1, HalfTurn DEF s, w
    <3>6. CASE m < n
      BY <2>2, <2>5, <2>9, <2>10, <3>3, <3>6, HalfTurn DEF s, w
    <3>7. CASE m > n
      BY <2>2, <2>5, <2>9, <2>10, <3>3, <3>7, HalfTurn DEF s, w
    <3> QED
      BY <2>2, <3>5, <3>6, <3>7, HalfTurn
  <2> QED
    BY <2>11, <2>12
<1> QED
  BY <1>1, <1>2

----------------------------------------------------------------------------
(* Incomplete datetimes                                                    *)

LEMMA MonthLength ==
    ASSUME NEW y \in Int, NEW m \in 1..12
    PROVE  DaysInMonth(y, m) = LengthOf(y, m) /\ LengthOf(y, m) \in 28..31
<1> DEFINE table == <<31, 28, 31, 30, 31, 30, 31, 31, 30, 31, 30, 31>>
<1>1. table[m] = CASE m = 2 -> 28 [] m \in {4, 6, 9, 11} -> 30 [] OTHER -> 31
  <2>1. m \in {1, 2, 3, 4, 5, 6, 7, 8, 9, 10, 11, 12}
    OBVIOUS
  <2> QED
    BY <2>1
<1>2. (y % 4 = 0 /\ (y % 100 = 0 => y % 400 = 0))
      <=> (y % 400 = 0 \/ (y % 4 = 0 /\ y % 100 # 0))
  OBVIOUS
<1>3. LengthOf(y, m) = table[m] + IF m = 2 /\ y % 4 = 0 /\ (y % 100 = 0 => y % 400 = 0)
                                  THEN 1 ELSE 0
  BY DEF LengthOf
<1> HIDE DEF table
<1> QED
  BY <1>1, <1>2, <1>3 DEF DaysInMonth

LEMMA PartsUpto ==
    ASSUME NEW a \in Instant, NEW b \in Instant, \A p \in PartNames : a[p] <= b[p]
    PROVE  Upto(a, b)
<1>1. \A p \in PartNames : a[p] \in Int /\ b[p] \in Int
  BY DEF Instant
<1>2. ~Sooner(b, a)
  BY <1>1, Parts DEF Sooner
<1> QED
  BY <1>2, BeforeIs, Ordered

LEMMA AsRecord ==
    ASSUME NEW t \in Instant
    PROVE  t = [year |-> t["year"], month |-> t["month"], day |-> t["day"],
                hour |-> t["hour"], minute |-> t["minute"]]
BY Parts DEF Instant

\* A datetime that is a date, and of which each part is that of u, or the first or
\* last that it can be.
LEMMA IsExtreme ==
    ASSUME NEW u \in Calendar, NEW t \in Instant, IsDate(t), t["year"] = u["year"],
           t["month"] \in {1, u["month"], 12},
           t["day"] \in {1, u["day"], LengthOf(u["year"], u["month"]), 31},
           t["hour"] \in {0, u["hour"], 23}, t["minute"] \in {0, u["minute"], 59}
    PROVE  t \in Calendar
<1>1. t \in Extremes(u)
  BY AsRecord DEF Extremes
<1> QED
  BY <1>1, CalendarAssumption

LEMMA CalendarDates ==
    ASSUME NEW u \in Calendar
    PROVE  /\ u \in Instant
           /\ u["year"] \in Int /\ u["month"] \in 1..12
           /\ u["day"] \in 1..LengthOf(u["year"], u["month"])
           /\ LengthOf(u["year"], u["month"]) \in 28..31
           /\ u["hour"] \in 0..23 /\ u["minute"] \in 0..59
BY CalendarAssumption, MonthLength, Parts DEF IsDate, Instant

LEMMA FilledParts ==
    ASSUME NEW d \in [PartNames -> Num], ~DateMissing(d), ~Partial(d)
    PROVE  /\ d["year"] # Missing
           /\ d["day"] # Missing => d["month"] # Missing
           /\ d["minute"] # Missing => d["hour"] # Missing
           /\ \A p \in PartNames :
                 /\ LowerBound(d)[p] = IF d[p] = Missing THEN First[p] ELSE d[p]
                 /\ UpperBound(d)[p] = IF d[p] = Missing THEN Last(d)[p] ELSE d[p]
BY Parts DEF DateMissing, Partial, LowerBound, UpperBound, Fill

\* The first instant of those that d describes.
LEMMA PeriodStarts ==
    ASSUME NEW d \in [PartNames -> Num], ~DateMissing(d), ~Partial(d),
           NEW u \in Calendar, Agrees(d, u)
    PROVE  LET l == LowerBound(d) IN
           /\ l \in Calendar /\ Agrees(d, l)
           /\ \A v \in Calendar : Agrees(d, v) => Upto(l, v)
<1> DEFINE l == LowerBound(d)
<1>1. l \in Instant
  BY BoundsType
<1>2. /\ \A p \in PartNames : l[p] = IF d[p] = Missing THEN First[p] ELSE d[p]
      /\ d["year"] # Missing
      /\ d["day"] # Missing => d["month"] # Missing
  BY FilledParts
<1>3. /\ First["month"] = 1 /\ First["day"] = 1 /\ First["hour"] = 0
      /\ First["minute"] = 0
  BY DEF First
<1> HIDE DEF l
<1>4. \A p \in PartNames : d[p] # Missing => u[p] = d[p]
  BY DEF Agrees
<1>5. /\ l["year"] = u["year"]
      /\ l["month"] \in {1, u["month"]} /\ l["day"] \in {1, u["day"]}
      /\ l["hour"] \in {0, u["hour"]} /\ l["minute"] \in {0, u["minute"]}
      /\ l["day"] # 1 => l["month"] = u["month"]
  BY <1>2, <1>3, <1>4, Parts
<1>6. IsDate(l)
  <2>1. l["month"] \in 1..12 /\ l["hour"] \in 0..23 /\ l["minute"] \in 0..59
    BY <1>5, CalendarDates
  <2>2. LengthOf(l["year"], l["month"]) \in 28..31
    BY <1>5, <2>1, CalendarDates, MonthLength
  <2>3. l["day"] \in 1..LengthOf(l["year"], l["month"])
    BY <1>5, <2>2, CalendarDates
  <2> QED
    BY <1>1, <2>1, <2>3 DEF IsDate, Instant
<1>7. l \in Calendar
  BY <1>1, <1>5, <1>6, IsExtreme
<1>8. Agrees(d, l)
  BY <1>2 DEF Agrees
<1>9. ASSUME NEW v \in Calendar, Agrees(d, v) PROVE Upto(l, v)
  <2>1. \A p \in PartNames : d[p] # Missing => v[p] = d[p]
    BY <1>9 DEF Agrees
  <2>2. /\ v["year"] \in Int /\ 1 <= v["month"] /\ 1 <= v["day"]
        /\ 0 <= v["hour"] /\ 0 <= v["minute"]
    BY CalendarDates
  <2>3. \A p \in PartNames : v[p] \in Int
    BY CalendarDates DEF Instant
  <2>4. \A p \in PartNames : l[p] <= v[p]
    BY <1>2, <1>3, <2>1, <2>2, <2>3, Parts
  <2> QED
    BY <1>1, <2>4, CalendarDates, PartsUpto
<1> QED
  BY <1>7, <1>8, <1>9 DEF l

\* The last instant of those that d describes.
LEMMA PeriodEnds ==
    ASSUME NEW d \in [PartNames -> Num], ~DateMissing(d), ~Partial(d),
           NEW u \in Calendar, Agrees(d, u)
    PROVE  LET h == UpperBound(d) IN
           /\ h \in Calendar /\ Agrees(d, h)
           /\ \A v \in Calendar : Agrees(d, v) => Upto(v, h)
<1> DEFINE h == UpperBound(d)
           m == IF d["month"] = Missing THEN 12 ELSE d["month"]
<1>1. h \in Instant
  BY BoundsType
<1>2. /\ \A p \in PartNames : h[p] = IF d[p] = Missing THEN Last(d)[p] ELSE d[p]
      /\ d["year"] # Missing
      /\ d["day"] # Missing => d["month"] # Missing
  BY FilledParts
<1>3. /\ Last(d)["month"] = 12 /\ Last(d)["day"] = DaysInMonth(d["year"], m)
      /\ Last(d)["hour"] = 23 /\ Last(d)["minute"] = 59
  BY DEF Last
<1> HIDE DEF h
<1>4. \A p \in PartNames : d[p] # Missing => u[p] = d[p]
  BY DEF Agrees
<1>5. m \in {12, u["month"]} /\ m \in 1..12 /\ d["year"] = u["year"]
  BY <1>2, <1>4, CalendarDates, Parts
<1>6. Last(d)["day"] = LengthOf(u["year"], m) /\ LengthOf(u["year"], m) \in 28..31
  BY <1>3, <1>5, MonthLength, CalendarDates
<1>7. h["month"] = m
  BY <1>2, <1>3, Parts
<1>8. LengthOf(u["year"], 12) = 31
  BY DEF LengthOf
<1>9. d["day"] # Missing => m = u["month"]
  BY <1>2, <1>4, Parts
<1> HIDE DEF m
<1>10. /\ h["year"] = u["year"] /\ h["month"] \in {u["month"], 12}
       /\ h["day"] \in {u["day"], LengthOf(u["year"], m)}
       /\ h["day"] = LengthOf(u["year"], m) \/ (h["day"] = u["day"] /\ m = u["month"])
       /\ h["hour"] \in {u["hour"], 23} /\ h["minute"] \in {u["minute"], 59}
  BY <1>2, <1>3, <1>4, <1>5, <1>6, <1>7, <1>9, Parts
<1>11. IsDate(h)
  <2>1. h["month"] \in 1..12 /\ h["hour"] \in 0..23 /\ h["minute"] \in 0..59
    BY <1>10, CalendarDates
  <2>2. h["day"] \in 1..LengthOf(u["year"], m)
    BY <1>6, <1>10, CalendarDates
  <2> QED
    BY <1>1, <1>7, <1>10, <2>1, <2>2 DEF IsDate, Instant
<1>12. h["day"] \in {1, u["day"], LengthOf(u["year"], u["month"]), 31}
  BY <1>5, <1>8, <1>10
<1>13. h \in Calendar
  BY <1>1, <1>10, <1>11, <1>12, IsExtreme
<1>14. Agrees(d, h)
  BY <1>2 DEF Agrees
<1>15. ASSUME NEW v \in Calendar, Agrees(d, v) PROVE Upto(v, h)
  <2>1. \A p \in PartNames : d[p] # Missing => v[p] = d[p]
    BY <1>15 DEF Agrees
  <2>2. /\ v["month"] \in 1..12 /\ v["day"] <= LengthOf(v["year"], v["month"])
        /\ v["hour"] <= 23 /\ v["minute"] <= 59
        /\ LengthOf(v["year"], v["month"]) \in 28..31
    BY CalendarDates
  <2>3. \A p \in PartNames : v[p] \in Int
    BY CalendarDates DEF Instant
  <2>4. v["year"] = u["year"]
    BY <1>2, <1>4, <2>1, Parts
  <2>5. v["day"] <= LengthOf(u["year"], m)
    <3>1. CASE d["month"] = Missing
      BY <1>8, <2>2, <2>3, <3>1, Parts DEF m
    <3>2. CASE d["month"] # Missing
      BY <2>1, <2>2, <2>4, <3>2, Parts DEF m
    <3> QED
      BY <3>1, <3>2
  <2>6. \A p \in PartNames : v[p] <= h[p]
    BY <1>2, <1>3, <1>6, <2>1, <2>2, <2>3, <2>5, Parts
  <2> QED
    BY <1>1, <2>6, CalendarDates, PartsUpto
<1> QED
  BY <1>13, <1>14, <1>15 DEF h

LEMMA DateWhereIs ==
    ASSUME NEW dt \in [Ends -> Instant \cup {NoDate}], NEW t \in Instant
    PROVE  DateWhere(dt, t) <=> DtContains(dt, t)
<1>1. dt["min"] \in Instant \cup {NoDate} /\ dt["max"] \in Instant \cup {NoDate}
  BY DEF Ends
<1>2. CASE dt["min"] # dt["max"]
  BY <1>2 DEF DateWhere
<1>3. CASE dt["min"] = dt["max"] /\ DateMissing(dt["min"])
  BY <1>3 DEF DateWhere, DtContains
<1>4. CASE dt["min"] = dt["max"] /\ ~DateMissing(dt["min"])
  <2>1. dt["min"] \in Instant
    BY <1>1, <1>4, NoDateIsMissing
  <2> QED
    BY <1>4, <2>1, Ordered DEF DateWhere, DtContains, Upto
<1> QED
  BY <1>2, <1>3, <1>4

\* validate turns the datetimes of a query into the range of all they describe.
LEMMA DatesSelect ==
    ASSUME NEW dt \in [Ends -> [PartNames -> Num]], ~Partial(dt["min"]), ~Partial(dt["max"]),
           \A e \in Ends : DateMissing(dt[e]) \/ \E u \in Calendar : Agrees(dt[e], u),
           NEW v \in [Ends -> Instant \cup {NoDate}],
           v["min"] = LowerBound(dt["min"]), v["max"] = UpperBound(dt["max"]),
           NEW t \in Instant
    PROVE  InTime(dt, t) <=> DtContains(v, t)
<1>1. dt["min"] \in [PartNames -> Num] /\ dt["max"] \in [PartNames -> Num]
  BY DEF Ends
<1>2. /\ DateMissing(dt["min"]) <=> DateMissing(v["min"])
      /\ DateMissing(dt["max"]) <=> DateMissing(v["max"])
  BY <1>1, BoundsType, NoDateIsMissing
<1>3. ASSUME ~DateMissing(dt["min"])
      PROVE  (\E u \in Calendar : Agrees(dt["min"], u) /\ Upto(u, t)) <=> Upto(v["min"], t)
  <2>1. PICK u \in Calendar : Agrees(dt["min"], u)
    BY <1>3 DEF Ends
  <2>2. /\ v["min"] \in Calendar /\ Agrees(dt["min"], v["min"])
        /\ \A x \in Calendar : Agrees(dt["min"], x) => Upto(v["min"], x)
    BY <1>1, <1>3, <2>1, PeriodStarts
  <2> QED
    BY <2>2, CalendarDates, UptoTransitive
<1>4. ASSUME ~DateMissing(dt["max"])
      PROVE  (\E u \in Calendar : Agrees(dt["max"], u) /\ Upto(t, u)) <=> Upto(t, v["max"])
  <2>1. PICK u \in Calendar : Agrees(dt["max"], u)
    BY <1>4 DEF Ends
  <2>2. /\ v["max"] \in Calendar /\ Agrees(dt["max"], v["max"])
        /\ \A x \in Calendar : Agrees(dt["max"], x) => Upto(x, v["max"])
    BY <1>1, <1>4, <2>1, PeriodEnds
  <2> QED
    BY <2>2, CalendarDates, UptoTransitive
<1> QED
  BY <1>2, <1>3, <1>4 DEF InTime, DtContains

----------------------------------------------------------------------------
(* What is selected                                                        *)

\* What validate leaves of the query that was asked.
LEMMA RanIs ==
    ASSUME NEW a, NEW v, Typed(a), Validate(a) = [query |-> v, refused |-> FALSE], Valid(v)
    PROVE  /\ v.eq = a.eq /\ v.level = a.level /\ v.filter = a.filter
           /\ v.range["lat"] = a.range["lat"] /\ v.range["prio"] = a.range["prio"]
           /\ v.range["lon"] = LonSet(a.range["lon"]) /\ ~OpenEnded(a.range["lon"])
           /\ v.dt["min"] = LowerBound(a.dt["min"]) /\ v.dt["max"] = UpperBound(a.dt["max"])
           /\ ~Partial(a.dt["min"]) /\ ~Partial(a.dt["max"])
           /\ v.varcodes = a.varlist \cup ({a.var} \ {Missing})
<1>1. ~Validate(a).refused /\ Validate(a).query = v
  OBVIOUS
<1>2. /\ ~OpenEnded(a.range["lon"])
      /\ ~Partial(a.dt["min"]) /\ ~Partial(a.dt["max"])
      /\ v = [a EXCEPT !.varcodes = a.varlist \cup ({a.var} \ {Missing}),
                       !.range["lon"] = LonSet(a.range["lon"]),
                       !.dt["min"] = LowerBound(a.dt["min"]),
                       !.dt["max"] = UpperBound(a.dt["max"])]
  BY <1>1, ValidatedIs
<1> QED
  BY <1>2 DEF Typed, Ends, Ranges

LEMMA DataSelected ==
    ASSUME NEW a, NEW v, Typed(a), Validate(a) = [query |-> v, refused |-> FALSE], Valid(v),
           Exists(a), EastOfDateline(a.range["lon"]),
           NEW d \in Measured, SiteOf(d).lon >= -Half
    PROVE  d \in SelectData(v) <=> Asked(a, SiteOf(d), d)
<1>1. /\ v.eq = a.eq /\ v.level = a.level /\ v.filter = a.filter
      /\ v.range["lat"] = a.range["lat"] /\ v.range["prio"] = a.range["prio"]
      /\ v.range["lon"] = LonSet(a.range["lon"]) /\ ~OpenEnded(a.range["lon"])
      /\ v.dt["min"] = LowerBound(a.dt["min"]) /\ v.dt["max"] = UpperBound(a.dt["max"])
      /\ ~Partial(a.dt["min"]) /\ ~Partial(a.dt["max"])
      /\ v.varcodes = a.varlist \cup ({a.var} \ {Missing})
  BY RanIs
<1>2. /\ a.range["lon"] \in [Ends -> Num] /\ a.dt \in [Ends -> [PartNames -> Num]]
      /\ v.dt \in [Ends -> Instant \cup {NoDate}]
      /\ a.var \in Codes \cup {Missing} /\ a.varlist \subseteq Codes
  BY DEF Typed, Valid, Ranges
<1> SUFFICES /\ StationWhere(v, SiteOf(d)) /\ RepinfoWhere(v, SiteOf(d))
             /\ DateWhere(v.dt, d.dt) /\ LevelWhere(v, d.level)
             /\ CodeWhere(v, d.code)
             /\ Passing(v, "data", d) /\ Passing(v, "attr", d)
             <=> Asked(a, SiteOf(d), d)
  BY DEF SelectData
<1> DEFINE s == SiteOf(d)
<1>3. s \in Sites
  BY SiteExists
<1>4. s.lon \in -Half..Half - 1
  <2>1. s.lon \in Int /\ Normal(s.lon) = s.lon
    BY <1>3, SitesAssumption
  <2> QED
    BY <2>1, NormalType
<1> HIDE DEF s
<1>5. LonWhere(v.range["lon"], s.lon) <=> OnArc(a.range["lon"], s.lon)
  BY <1>1, <1>2, <1>4, LonSelects
<1>6. /\ Passing(v, "data", d) /\ Passing(v, "attr", d)
      /\ v.filter["ana"] # Missing =>
            \E w \in StationValues : w.st = s.id /\ Passing(v, "ana", w)
      <=> \A f \in Filters :
             \/ a.filter[f] = Missing
             \/ f # "ana" /\ d \in Passes[a.filter[f]]
             \/ f = "ana" /\ \E w \in Passes[a.filter[f]] \cap StationValues : w.st = s.id
  BY <1>1 DEF Passing, Filters
<1>7. DateWhere(v.dt, d.dt) <=> InTime(a.dt, d.dt)
  <2>1. d.dt \in Instant
    BY ValuesAssumption DEF Instant
  <2> QED
    BY <1>1, <1>2, <2>1, DateWhereIs, DatesSelect DEF Exists
<1>8. CodeWhere(v, d.code)
      <=> ((a.var # Missing \/ a.varlist # {}) => d.code \in a.varlist \cup {a.var})
  <2>1. d.code # Missing
    BY ValuesAssumption, MissingAssumption
  <2> QED
    BY <1>1, <2>1 DEF CodeWhere
<1>9. LevelWhere(v, d.level)
      <=> \A p \in LevelParts : a.level[p] = Missing \/ a.level[p] = d.level[p]
  BY <1>1 DEF LevelWhere
<1>10. ReportWhere(v, s) <=> (a.eq["report"] # Missing => LowerCase[a.eq["report"]] = s.report)
  BY <1>1 DEF ReportWhere
<1>11. MobileWhere(v, s)
      <=> (a.eq["mobile"] # Missing => (a.eq["mobile"] # 0) = (s.ident # Missing))
  BY <1>1 DEF MobileWhere
<1>12. Within(v.range["lat"], s.lat) /\ Within(v.range["prio"], Priority[s.report])
       <=> \A f \in {"lat", "prio"} :
              LET x == IF f = "lat" THEN s.lat ELSE Priority[s.report] IN
              /\ a.range[f]["min"] = Missing \/ x >= a.range[f]["min"]
              /\ a.range[f]["max"] = Missing \/ x <= a.range[f]["max"]
  <2>1. /\ a.range["lat"] \in [Ends -> Num] /\ a.range["prio"] \in [Ends -> Num]
        /\ s.lat \in Int /\ Priority[s.report] \in Int
    BY <1>3, SitesAssumption DEF Typed, Ranges
  <2>2. \A r \in [Ends -> Num] : \A x \in Int :
           Within(r, x) <=> /\ r["min"] = Missing \/ x >= r["min"]
                            /\ r["max"] = Missing \/ x <= r["max"]
    BY MissingAssumption DEF Within, Num, Ends
  <2> QED
    BY <1>1, <2>1, <2>2
<1>13. /\ Asks(v, "ana_id", s.id) /\ Asks(v, "ident", s.ident)
       /\ Asks(v, "block", s.block) /\ Asks(v, "station", s.station)
       <=> \A k \in Equals \ {"mobile", "report"} :
              a.eq[k] = Missing \/ a.eq[k] = [ana_id |-> s.id, ident |-> s.ident,
                                              block |-> s.block, station |-> s.station][k]
  <2>1. Equals \ {"mobile", "report"} = {"ana_id", "ident", "block", "station"}
    BY DEF Equals
  <2> QED
    BY <1>1, <2>1 DEF Asks
<1> QED
  BY <1>5, <1>7, <1>8, <1>9, <1>10, <1>11, <1>12, <1>13, <1>6
     DEF StationWhere, RepinfoWhere, Asked, s

LEMMA LonWhereIs ==
    ASSUME NEW r \in [Ends -> Num], NEW x \in Int
    PROVE  LonWhere(r, x) <=> LonContains(r, x)
<1>1. CASE LonMissing(r)
  BY <1>1 DEF LonWhere, LonContains
<1>2. CASE ~LonMissing(r)
  <2>1. r["min"] \in Int /\ r["max"] \in Int
    BY <1>2 DEF LonMissing, Num, Ends
  <2> QED
    BY <1>2, <2>1, HalfTurn DEF LonWhere, LonContains
<1> QED
  BY <1>1, <1>2

\* The two filters against the WHERE of a validated query.
LEMMA FiltersSelect ==
    ASSUME NEW q, Valid(q)
    PROVE  FiltersAgree(q, SelectData(q))
<1> SUFFICES ASSUME q.range["prio"] = NoRange, q.varcodes = {}, q.level = NoLevel,
                    q.filter = Empty.filter
             PROVE  LET report == q.eq["report"]
                        summarised == /\ q.dt = Empty.dt
                                      /\ report # Missing => LowerCase[report] = report
                    IN  /\ NoOther(q, {"report", "block", "station"})
                           /\ (q.eq["station"] # Missing => q.eq["block"] # Missing) =>
                              SelectData(q) = {d \in Measured : Match(q, SiteOf(d), d.dt)}
                        /\ summarised /\ NoOther(q, {"report", "ident"}) =>
                              SelectData(q) = {d \in Measured : SummaryMatches(q, SiteOf(d))}
                        /\ summarised /\ NoOther(q, {"ana_id", "report", "ident"}) =>
                              SelectData(q) = {d \in Measured : DBSummaryMatches(q, SiteOf(d))}
  BY DEF FiltersAgree
<1>1. q.range["lon"] \in [Ends -> Num] /\ q.dt \in [Ends -> Instant \cup {NoDate}]
  BY DEF Valid, Typed, Ranges
<1>2. \A x : Within(NoRange, x)
  BY DEF Within, NoRange, Ends
<1>3. \A d \in Measured : CodeWhere(q, d.code) /\ LevelWhere(q, d.level)
  BY DEF CodeWhere, LevelWhere, NoLevel
<1>4. /\ \A d \in Measured : Passing(q, "data", d) /\ Passing(q, "attr", d)
      /\ q.filter["ana"] = Missing
  BY DEF Passing, Empty, Filters
<1>5. ASSUME NEW d \in Measured
      PROVE  /\ SiteOf(d) \in Sites
             /\ LonWhere(q.range["lon"], SiteOf(d).lon)
                <=> LonContains(q.range["lon"], SiteOf(d).lon)
             /\ DateWhere(q.dt, d.dt) <=> DtContains(q.dt, d.dt)
  <2>1. SiteOf(d) \in Sites
    BY SiteExists
  <2>2. d.dt \in Instant
    BY ValuesAssumption DEF Instant
  <2> QED
    BY <1>1, <2>1, <2>2, SitesAssumption, LonWhereIs, DateWhereIs
<1>6. ASSUME NoOther(q, {"report", "block", "station"}),
             q.eq["station"] # Missing => q.eq["block"] # Missing
      PROVE  SelectData(q) = {d \in Measured : Match(q, SiteOf(d), d.dt)}
  <2>1. q.eq["mobile"] = Missing /\ q.eq["ident"] = Missing /\ q.eq["ana_id"] = Missing
    BY <1>6 DEF NoOther, Equals
  <2>2. \A s : /\ MobileWhere(q, s) /\ Asks(q, "ident", s.ident)
               /\ Asks(q, "ana_id", s.id) /\ Asks(q, "ana_id", s.number)
    BY <2>1 DEF MobileWhere, Asks
  <2>3. \A s : (q.eq["block"] # Missing => s.block = q.eq["block"] /\ Asks(q, "station", s.station))
               <=> Asks(q, "block", s.block) /\ Asks(q, "station", s.station)
    BY <1>6 DEF Asks
  <2>4. \A s : RepinfoWhere(q, s) <=> ReportWhere(q, s)
    BY <1>2 DEF RepinfoWhere
  <2> QED
    BY <1>3, <1>5, <1>4, <2>2, <2>3, <2>4 DEF SelectData, StationWhere, Match
<1>7. ASSUME NoOther(q, {"ana_id", "report", "ident"}), q.dt = Empty.dt,
             q.eq["report"] # Missing => LowerCase[q.eq["report"]] = q.eq["report"]
      PROVE  SelectData(q) = {d \in Measured : DBSummaryMatches(q, SiteOf(d))}
  <2>1. q.eq["mobile"] = Missing /\ q.eq["block"] = Missing /\ q.eq["station"] = Missing
    BY <1>7 DEF NoOther, Equals
  <2>2. \A s : MobileWhere(q, s) /\ Asks(q, "block", s.block) /\ Asks(q, "station", s.station)
    BY <2>1 DEF MobileWhere, Asks
  <2>3. \A d \in Measured : DateWhere(q.dt, d.dt)
    BY <1>7, NoDateIsMissing DEF DateWhere, Empty, Ends
  <2>4. \A s : RepinfoWhere(q, s) <=> Asks(q, "report", s.report)
    BY <1>2, <1>7 DEF RepinfoWhere, ReportWhere, Asks
  <2> QED
    BY <1>3, <1>5, <1>4, <2>2, <2>3, <2>4
       DEF SelectData, StationWhere, SummaryMatches, DBSummaryMatches
<1>8. ASSUME NoOther(q, {"report", "ident"})
      PROVE  /\ NoOther(q, {"ana_id", "report", "ident"})
             /\ \A s : DBSummaryMatches(q, s) <=> SummaryMatches(q, s)
  BY <1>8 DEF NoOther, DBSummaryMatches, Asks, Equals
<1> QED
  BY <1>6, <1>7, <1>8

\* A query on data that is not refused selects what its parameters say, whatever the
\* session has set and unset before (core/query.cc:14-20, qbuilder.cc:570-868): of
\* any years, months of any length and longitudes, and whatever is stored. So do the
\* filters of messages and of summaries, of what they know (core/matcher.cc,
\* db/summary_utils.h).
THEOREM SelectsAsked == SessionSpec => []SelectsWhatIsAsked
<1>1. QueryInv => SelectsWhatIsAsked
  <2> SUFFICES ASSUME QueryInv, last.kind = "data", ~last.refused
               PROVE  SelectsWhatIsAsked
    BY DEF SelectsWhatIsAsked
  <2>1. /\ Ran(last)
        /\ last.found \subseteq SelectData(last.run)
        /\ Whole(last.run) => last.found = SelectData(last.run)
    BY ReturnedIs DEF QueryInv, Ran, Select
  <2>2. SelectData(last.run) \subseteq Measured
    BY DEF SelectData
  <2>3. Whole(last.run) => FiltersAgree(last.run, last.found)
    BY <2>1, FiltersSelect DEF Ran
  <2>4. ASSUME Exists(last.asked), EastOfDateline(last.asked.range["lon"]),
               NEW d \in Measured, SiteOf(d).lon >= -Half
        PROVE  d \in SelectData(last.run) <=> Asked(last.asked, SiteOf(d), d)
    BY <2>1, <2>4, DataSelected DEF Ran
  <2> QED
    BY <2>1, <2>2, <2>3, <2>4 DEF SelectsWhatIsAsked
<1> QED
  BY <1>1, InitQueryInv, NextQueryInv, PTL DEF SessionSpec

=============================================================================
