---------------------------- MODULE QuerySession ----------------------------
(* The query of a session of the Fortran API: parameters that are set and   *)
(* unset one at a time, and calls that fill them in and use them            *)
(* (fortran/commonapi.cc, commonapi-access.in.cc, dbapi.cc).                *)
EXTENDS Query

CONSTANTS
    Numbers,         \* for each range, what the program gives it
    Dates,           \* for each part of a datetime, Missing to unset it
    Choices,         \* for each parameter to equal
    FilterChoices,   \* for each filter, Missing to unset it
    ModifierChoices,
    Limits,          \* Missing to unset it
    LevelChoices,    \* for each part of a level, Missing to unset it
    Moments,         \* whole datetimes
    Levels,          \* levels with their time ranges
    MaxSets          \* how many calls may set something between unsetall

ASSUME NumbersAssumption ==
    /\ \A f \in Ranges : Numbers[f] \subseteq Int
    /\ \A p \in PartNames : Dates[p] \subseteq Int \cup {Missing}
    /\ Moments \subseteq [PartNames -> Int]
    /\ ModifierChoices \subseteq SUBSET Modifiers /\ Limits \subseteq Nat \cup {Missing}

VARIABLES
    input,           \* input_query, with var and varlist
    context,         \* station_context
    sets,            \* calls since unsetall
    last             \* the last query since: what was asked, what was run, what it found

sessionVars == <<input, context, sets, last>>

None == [kind |-> "none", asked |-> Empty, run |-> Empty, refused |-> FALSE, found |-> {}]

SessionInit == input = Empty /\ context = FALSE /\ sets = 0 /\ last = None

Setting == sets < MaxSets /\ sets' = sets + 1 /\ UNCHANGED last

EndSets == {{"min"}, {"max"}, Ends}

\* seti of latmin, lonmax, priority and so on. A longitude that sets both ends is
\* normalised at once, one end is not.
SetNumber(f, E, x) ==
    /\ Setting /\ UNCHANGED context
    /\ input' = [input EXCEPT !.range[f] = [e \in Ends |->
                    IF e \notin E THEN @[e] ELSE IF f = "lon" /\ E = Ends THEN Normal(x) ELSE x]]

\* setd: longitudes are normalised.
SetDegrees(f, E, x) ==
    /\ Setting /\ UNCHANGED context
    /\ input' = [input EXCEPT !.range[f] = [e \in Ends |->
                    IF e \notin E THEN @[e] ELSE IF f = "lon" THEN Normal(x) ELSE x]]

UnsetRange(f, E) ==
    /\ Setting /\ UNCHANGED context
    /\ input' = [input EXCEPT !.range[f] = [e \in Ends |-> IF e \in E THEN Missing ELSE @[e]]]

\* year, monthmin, hourmax and so on, set or unset.
SetDatePart(p, E, x) ==
    /\ Setting /\ UNCHANGED context
    /\ input' = [input EXCEPT !.dt = [e \in Ends |-> IF e \in E THEN [@[e] EXCEPT ![p] = x] ELSE @[e]]]

SetEqual(k, x) ==
    /\ Setting /\ UNCHANGED context
    /\ input' = [input EXCEPT !.eq[k] = x]

\* The ident of the data to insert is cleared, that of the query is not.
UnsetEqual(k) ==
    /\ Setting /\ UNCHANGED context
    /\ input' = IF k = "ident" THEN input ELSE [input EXCEPT !.eq[k] = Missing]

SetLevelPart(p, x) ==
    /\ Setting /\ UNCHANGED context
    /\ input' = [input EXCEPT !.level[p] = x]

SetVar(c) == Setting /\ UNCHANGED context /\ input' = [input EXCEPT !.var = c]

SetVarlist(C) == Setting /\ UNCHANGED context /\ input' = [input EXCEPT !.varlist = C]

SetFilter(f, x) == Setting /\ UNCHANGED context /\ input' = [input EXCEPT !.filter[f] = x]

SetModifiers(M) == Setting /\ UNCHANGED context /\ input' = [input EXCEPT !.mods = M]

SetLimit(n) == Setting /\ UNCHANGED context /\ input' = [input EXCEPT !.limit = n]

\* setdate, setdatemin and setdatemax.
SetDate(E, t) ==
    /\ Setting
    /\ input' = [input EXCEPT !.dt = [e \in Ends |-> IF e \in E THEN t ELSE @[e]]]
    /\ context' = IF DateMissing(t) THEN context ELSE E # Ends

\* setlevel and settimerange.
SetLevel(P, l) ==
    /\ Setting
    /\ input' = [input EXCEPT !.level = [p \in LevelParts |-> IF p \in P THEN l[p] ELSE @[p]]]
    /\ context' = IF \A p \in P : l[p] = Missing THEN context ELSE FALSE

SetStationContext ==
    /\ Setting
    /\ input' = [input EXCEPT !.dt = [e \in Ends |-> NoDate], !.level = NoLevel]
    /\ context' = TRUE

UnsetAll ==
    /\ input' = Empty /\ context' = FALSE /\ sets' = 0 /\ last' = None

\* query_stations, query_data and remove_data: what the last selects it removes.
\* Station values have no best or last, nor has what is removed.
Query(kind, removes) ==
    LET v == Validate(input)
        refused == v.refused \/ (v.query.mods # {} /\ (removes \/ kind = "station data"))
    IN  /\ input' = v.query
        /\ \E R \in IF refused THEN {{}} ELSE Returned(kind, v.query) :
              last' = [kind |-> kind, asked |-> input, run |-> v.query, refused |-> refused,
                       found |-> R]
        /\ UNCHANGED <<context, sets>>

QueryStations == Query("stations", FALSE)
QueryData == Query(IF context THEN "station data" ELSE "data", FALSE)
RemoveData == Query(IF context THEN "station data" ELSE "data", TRUE)

SetParameter ==
    \/ \E f \in Ranges, E \in EndSets :
          \/ \E x \in Numbers[f] : SetNumber(f, E, x) \/ SetDegrees(f, E, x)
          \/ UnsetRange(f, E)
    \/ \E p \in PartNames, E \in EndSets : \E x \in Dates[p] : SetDatePart(p, E, x)
    \/ \E k \in Equals : UnsetEqual(k) \/ \E x \in Choices[k] : SetEqual(k, x)
    \/ \E p \in LevelParts : \E x \in LevelChoices[p] : SetLevelPart(p, x)
    \/ \E c \in Codes \cup {Missing} : SetVar(c)
    \/ \E C \in SUBSET Codes : SetVarlist(C)
    \/ \E f \in Filters : \E x \in FilterChoices[f] : SetFilter(f, x)
    \/ \E M \in ModifierChoices : SetModifiers(M)
    \/ \E n \in Limits : SetLimit(n)
    \/ \E E \in EndSets, t \in Moments \cup {NoDate} : SetDate(E, t)
    \/ \E P \in {{"ltype1", "l1"}, {"pind", "p1"}}, l \in Levels \cup {NoLevel} : SetLevel(P, l)
    \/ SetStationContext

SessionNext == SetParameter \/ UnsetAll \/ QueryStations \/ QueryData \/ RemoveData

SessionSpec == SessionInit /\ [][SessionNext]_sessionVars
=============================================================================
