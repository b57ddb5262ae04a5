--------------------------- MODULE ExplorerProps ---------------------------
(* What explorers show of the values merged into them. *)
EXTENDS Explorer

\* A summary shows the reports, the range and the count of its entries.
InStep(m) ==
    /\ Read(m).reports = Reports(m.entries)
    /\ Read(m).range = Span(m.entries)
    /\ Read(m).count = Total(m.entries)

\* The sets, the range and the count that an explorer computes when asked
\* (recompute_summaries) are those of its entries, whatever was merged, cleared
\* and read before; but not after an add_json that threw.
StatsFollowEntries ==
    \A e \in Explorers :
       /\ ~Xapian(e) /\ e \notin torn => InStep(global[e])
       /\ active[e].kind = "own" => InStep(active[e].own)

\* An explorer that no Update is open on, nor was overwritten on, shows what
\* its filter selects of all that was merged (explorer.h:109).
ActiveFollowsFilter ==
    \A e \in Explorers : Quiet(e) =>
       /\ active[e].kind # "none"
       /\ Readable(e) => ActiveEntries(e) = Filtered(global[e].entries, filter[e])

\* Every value merged that the filter of an explorer selects is within the
\* range that the explorer shows for its variable: merged through any chain of
\* explorers and their filters, with its datetime or without, kept on disk by a
\* program that ended and read back.
NothingHidden ==
    \A e \in Explorers : Quiet(e) /\ Readable(e) =>
       \A p \in Selected(e) :
          /\ p[1] \in DOMAIN ActiveEntries(e)
          /\ Contains(ActiveEntries(e)[p[1]].range, p[2])

\* What an explorer with a path shows when no Update is open on it is also on
\* its disk.
SavedWhenQuiet ==
    \A e \in Explorers :
       Quiet(e) /\ Backend[e] # "memory" /\ global[e].entries # NoEntries
       => disk[e] = global[e].entries
=============================================================================
