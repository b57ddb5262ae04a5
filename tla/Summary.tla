------------------------------ MODULE Summary ------------------------------
(***************************************************************************)
(* What a database, a message or a file holds, by station and variable     *)
(* (dballe/db/summary.h, summary_utils.cc, summary_memory.cc): the range   *)
(* of datetimes of each and how many values there are.                     *)
(*                                                                         *)
(* A key is a station with the level, time range and code of a variable.   *)
(* Entries are a function from the keys present; a summary in memory also  *)
(* keeps the set of its reports (which stands for those of levels, time    *)
(* ranges and codes too), its range and its count, which it computes again *)
(* when they are read and dirty is set.                                    *)
(***************************************************************************)
EXTENDS Naturals, FiniteSets

CONSTANTS
    Keys,
    Report    \* the report of the station of each key

Folds == INSTANCE FiniteSetsExt
Fns == INSTANCE Functions

\* A datetime without value: year is 0xffff.
Missing == 0

Unknown == [min |-> Missing, max |-> Missing]

----------------------------------------------------------------------------
(* Ranges of datetimes (dballe/types.cc)                                   *)

\* Mutant: a bound without value is taken for no information.
MergeIgnoringMissing(r, s) ==
    [min |-> IF s.min # Missing /\ (r.min = Missing \/ s.min < r.min) THEN s.min ELSE r.min,
     max |-> IF s.max # Missing /\ (r.max = Missing \/ s.max > r.max) THEN s.max ELSE r.max]

\* DatetimeRange::merge: a bound without value is open, and stays so.
Merge(r, s) ==
    [min |-> IF r.min # Missing /\ (s.min = Missing \/ s.min < r.min) THEN s.min ELSE r.min,
     max |-> IF r.max # Missing /\ (s.max = Missing \/ s.max > r.max) THEN s.max ELSE r.max]

Contains(r, d) == (r.min = Missing \/ r.min <= d) /\ (r.max = Missing \/ d <= r.max)

IsDisjoint(r, s) ==
    \/ r.max # Missing /\ s.min # Missing /\ r.max < s.min
    \/ s.max # Missing /\ r.min # Missing /\ s.max < r.min

----------------------------------------------------------------------------
(* Entries                                                                 *)

Entry == [range : [min : Nat, max : Nat], count : Nat]

IsEntries(E) == \E K \in SUBSET Keys : E \in [K -> Entry]

NoEntries == [k \in {} |-> [range |-> Unknown, count |-> 0]]

Joined(a, b) == [range |-> Merge(a.range, b.range), count |-> a.count + b.count]

\* StationEntries::add of each entry of F: new keys as they come, the others merged.
AddEntries(E, F) ==
    [k \in DOMAIN E \cup DOMAIN F |->
        IF k \notin DOMAIN F THEN E[k]
        ELSE IF k \notin DOMAIN E THEN F[k]
        ELSE Joined(E[k], F[k])]

\* A query selects stations and variables, and what may lie within its range.
Selects(q, k, e) == k \in q.keys /\ ~IsDisjoint(q.range, e.range)

Filtered(E, q) == Fns!Restrict(E, {k \in DOMAIN E : Selects(q, k, E[k])})

\* core::Query::empty
EmptyFilter == [keys |-> Keys, range |-> Unknown]

----------------------------------------------------------------------------
(* A summary in memory                                                     *)

Cleared == [entries |-> NoEntries, reports |-> {}, range |-> Unknown, count |-> 0,
            dirty |-> FALSE]

\* Mutant: the sets computed before are kept when the entries go.
ClearedEntries(m) == [m EXCEPT !.entries = NoEntries, !.dirty = TRUE]

Clear(m) == Cleared

Reports(E) == {Report[k] : k \in DOMAIN E}
Span(E) == LET R == {E[k].range : k \in DOMAIN E}
           IN  IF R = {} THEN Unknown ELSE Folds!FoldSet(Merge, CHOOSE r \in R : TRUE, R)
Total(E) == Folds!MapThenSumSet(LAMBDA k : E[k].count, DOMAIN E)

\* recompute_summaries: the sets only grow; range and count start afresh.
Recomputed(m) ==
    [m EXCEPT !.reports = @ \cup Reports(m.entries), !.range = Span(m.entries),
              !.count = Total(m.entries), !.dirty = FALSE]

\* What any reader does first.
Read(m) == IF m.dirty THEN Recomputed(m) ELSE m

\* add, add_summary, add_filtered
With(m, F) == [m EXCEPT !.entries = AddEntries(@, F), !.dirty = TRUE]

\* load_json: dirty is set after the last entry, if the file is read to its end.
Loaded(m, F, whole) ==
    [m EXCEPT !.entries = AddEntries(@, F), !.dirty = @ \/ whole]
=============================================================================
