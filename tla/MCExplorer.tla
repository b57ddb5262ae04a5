----------------------------- MODULE MCExplorer -----------------------------
(* Small instances of Explorer for TLC. *)
EXTENDS ExplorerProps, TLC

At(d) == [range |-> [min |-> d, max |-> d], count |-> 1]
NoDate == [range |-> Unknown, count |-> 0]

ReportOfKey == [k \in Keys |-> k]
Backends == [e \in Explorers |-> e]

\* Values of one variable, and of another from a summary without details; and
\* later values of both.
SomeSources == {("synop" :> At(1)) @@ ("temp" :> NoDate)}
SomeFiles == {("synop" :> At(3)) @@ ("temp" :> At(3))}

SomeFilters == {EmptyFilter, [keys |-> {"temp"}, range |-> [min |-> 2, max |-> Missing]]}

UpdatesAlike == Permutations(Updates)
=============================================================================
