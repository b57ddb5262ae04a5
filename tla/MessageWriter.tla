--------------------------- MODULE MessageWriter ---------------------------
(***************************************************************************)
(* What a program that writes a file of messages may count on: variables   *)
(* go to the subset begun last, subsets to the message begun last, and a   *)
(* message to the file when it ends.  Only a query made while writing may  *)
(* lose what has been ended.  (fortran/msgapi.cc)                          *)
(***************************************************************************)
EXTENDS Naturals, Sequences

CONSTANTS
    Stations,
    Vars,       \* what one call may insert, or else nothing: functions from contexts
                \* to variables, each [value, attrs], without attributes
    Attrs,
    Templates,
    NoSubset

VARIABLES
    file,       \* messages written, each with its template
    message,    \* subsets of the message that is being written
    subset,     \* subset that is being written, or NoSubset
    template,   \* template named last
    queries     \* how many queries there have been

writerVars == <<file, message, subset, template, queries>>

NoVars == <<>>

\* Variables V, and those of W that V does not have.
Over(V, W) == [k \in DOMAIN V \cup DOMAIN W |-> IF k \in DOMAIN V THEN V[k] ELSE W[k]]

\* The subset that variables V of station s go to.
Grown(s, V) ==
    [station |-> s,
     data |-> Over(V, IF subset = NoSubset THEN NoVars ELSE subset.data)]

Insert(s, V) ==
    /\ subset' = Grown(s, V)
    /\ UNCHANGED <<file, message, template, queries>>

Annotate(k, A) ==
    /\ subset # NoSubset
    /\ k \in DOMAIN subset.data
    /\ subset' = [subset EXCEPT !.data[k].attrs = @ \cup A]
    /\ UNCHANGED <<file, message, template, queries>>

\* Variables given in the call that ends a subset are not in it, nor in any other.
BreakSubset(s) ==
    /\ message' = Append(message, Grown(s, NoVars))
    /\ subset' = NoSubset
    /\ UNCHANGED <<file, queries>>

EndSubset(s) == BreakSubset(s) /\ UNCHANGED template

EndMessage(s, t) ==
    /\ file' = Append(file, [template |-> t, subsets |-> Append(message, Grown(s, NoVars))])
    /\ message' = <<>>
    /\ subset' = NoSubset
    /\ template' = t
    /\ UNCHANGED queries

\* A message that cannot be encoded stays open; its subset does not.
FailMessage(s, t) ==
    /\ BreakSubset(s)
    /\ template' = t

\* The message of a subset that is open when the file is closed goes to the file.
Close ==
    /\ subset # NoSubset
    /\ file' = Append(file, [template |-> template, subsets |-> Append(message, subset)])
    /\ message' = <<>>
    /\ subset' = NoSubset
    /\ UNCHANGED <<template, queries>>

\* A query may find, and drop, the subsets ended so far.
Ask ==
    /\ queries' = queries + 1
    /\ message' \in {message, <<>>}
    /\ UNCHANGED <<file, subset, template>>

\* The subset that is open when the file is closed goes with those that were dropped.
Abort ==
    /\ queries > 0 /\ message = <<>>
    /\ subset' = NoSubset
    /\ UNCHANGED <<file, message, template, queries>>

Init == file = <<>> /\ message = <<>> /\ subset = NoSubset /\ template = "auto" /\ queries = 0

Next ==
    \/ \E s \in Stations, V \in Vars \cup {NoVars} : Insert(s, V)
    \/ \E k \in UNION {DOMAIN V : V \in Vars}, A \in SUBSET Attrs : Annotate(k, A)
    \/ \E s \in Stations : EndSubset(s)
    \/ \E s \in Stations, t \in Templates : EndMessage(s, t) \/ FailMessage(s, t)
    \/ Close \/ Ask \/ Abort

Spec == Init /\ [][Next]_writerVars
=============================================================================
