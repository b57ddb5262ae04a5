------------------------------ MODULE Explorer ------------------------------
(***************************************************************************)
(* Explorers (dballe/db/explorer.cc): each has a summary of everything     *)
(* merged into it, and one of what a filter selects of that. Data is       *)
(* merged through Update objects, of which a program may have several, on  *)
(* one explorer or on more; the filtered summary is made when an Update    *)
(* commits. An explorer with a path stays on disk, as a file of JSON or as *)
(* a Xapian index (summary_xapian.cc), of which readers see a snapshot.    *)
(*                                                                         *)
(*   global    the summary of everything; of an index, as its writer has it*)
(*   filter    the query set by set_filter                                 *)
(*   active    the summary of the filter: none, the global one, or its own *)
(*   updates   for each Update object, its explorer, or Nobody             *)
(*   disk      what is on disk: entries, or NoFile                         *)
(*   reader    of an index, the snapshot open for reading, or NoReader     *)
(*                                                                         *)
(* History: truth has the values merged, by key and datetime, and saved    *)
(* those of them on disk; lost, the explorers of Updates that were         *)
(* overwritten by an assignment, until the next commit; torn, those of     *)
(* which a load_json has thrown since the last merge; merges counts the    *)
(* merges.                                                                 *)
(***************************************************************************)
EXTENDS Summary

CONSTANTS
    Explorers,
    Backend,    \* for each explorer, "memory", "json" or "xapian"
    Updates,
    Sources,    \* entries that come from databases and messages
    Files,      \* entries that come from JSON
    Filters,
    Datetimes,
    Nobody, NoFile, NoReader,
    MaxMerges   \* bound on the merges

ASSUME NobodyAssumption == Nobody \notin Explorers
ASSUME DatetimesAssumption == Datetimes \subseteq Nat
ASSUME SourcesAssumption == \A F \in Sources \cup Files : IsEntries(F)
ASSUME NoFileAssumption == ~IsEntries(NoFile)
ASSUME FiltersAssumption ==
    Filters \subseteq [keys : SUBSET Keys, range : [min : Nat, max : Nat]]

VARIABLES global, filter, active, updates, disk, reader, truth, saved, lost, torn, merges

history == <<truth, saved, lost, torn, merges>>
explorerVars == <<global, filter, active, updates, disk, reader, history>>

Xapian(e) == Backend[e] = "xapian"

\* A new index has nothing to read until its first commit.
Readable(e) == Xapian(e) => reader[e] # NoReader \/ disk[e] # NoFile

\* What a reader of the index sees, and has open from then on.
OpenReader(e) == IF ~Xapian(e) THEN NoReader
                 ELSE IF reader[e] # NoReader THEN reader[e] ELSE disk[e]

\* What readers of the global summary see.
Shown(e) == IF Xapian(e) THEN OpenReader(e) ELSE global[e].entries

NoActive == [kind |-> "none", own |-> Cleared]
Global == [kind |-> "global", own |-> Cleared]
Own(m) == [kind |-> "own", own |-> m]

ActiveEntries(e) == IF active[e].kind = "own" THEN active[e].own.entries ELSE Shown(e)
CanRead(e) == active[e].kind = "own" \/ (active[e].kind = "global" /\ Readable(e))

----------------------------------------------------------------------------
(* The filter                                                              *)

\* Mutant: an empty filter leaves the summary of the last one.
ActiveForLast(e, q, E) ==
    IF q = EmptyFilter /\ active[e].kind # "own" THEN Global
    ELSE IF q = EmptyFilter THEN active[e] ELSE Own(With(Cleared, Filtered(E, q)))

\* update_active_summary, when the global summary shows E.
ActiveFor(e, q, E) == IF q = EmptyFilter THEN Global ELSE Own(With(Cleared, Filtered(E, q)))

\* set_filter: throws if there is nothing to read, with the filter already set.
SetFilter(e, q) ==
    /\ filter' = [filter EXCEPT ![e] = q]
    /\ IF q = EmptyFilter \/ Readable(e)
       THEN /\ active' = [active EXCEPT ![e] = ActiveFor(e, q, Shown(e))]
            /\ reader' = IF q = EmptyFilter THEN reader ELSE [reader EXCEPT ![e] = OpenReader(e)]
       ELSE UNCHANGED <<active, reader>>
    /\ UNCHANGED <<global, updates, disk, history>>

----------------------------------------------------------------------------
(* Updates                                                                 *)

\* Update::operator= overwrites what u refers to, without a commit.
Start(u, e) ==
    /\ updates' = [updates EXCEPT ![u] = e]
    /\ active' = [active EXCEPT ![e] = NoActive]
    /\ lost' = lost \cup ({updates[u]} \ {Nobody, e})

BeginUpdate(u, e) ==
    /\ Start(u, e)
    /\ UNCHANGED <<global, filter, disk, reader, truth, saved, torn, merges>>

\* rebuild: an index is emptied on disk at once.
Rebuild(u, e) ==
    /\ Start(u, e)
    /\ global' = [global EXCEPT ![e] = Clear(@)]
    /\ disk' = IF Xapian(e) THEN [disk EXCEPT ![e] = NoEntries] ELSE disk
    /\ reader' = [reader EXCEPT ![e] = NoReader]
    /\ truth' = [truth EXCEPT ![e] = {}]
    /\ saved' = IF Xapian(e) THEN [saved EXCEPT ![e] = {}] ELSE saved
    /\ torn' = torn \ {e}
    /\ UNCHANGED <<filter, merges>>

Pairs(F) == {p \in Keys \X Datetimes : p[1] \in DOMAIN F /\ Contains(F[p[1]].range, p[2])}

\* Bound: MaxMerges.
Merging(e, m, P) ==
    /\ merges < MaxMerges
    /\ merges' = merges + 1
    /\ global' = [global EXCEPT ![e] = m]
    /\ truth' = [truth EXCEPT ![e] = @ \cup P]

\* add_db, add_cursor, add_message
Add(u, F) ==
    /\ updates[u] # Nobody
    /\ LET e == updates[u] IN Merging(e, With(global[e], F), Pairs(F)) /\ torn' = torn \ {e}
    /\ UNCHANGED <<filter, active, updates, disk, reader, saved, lost>>

\* add_json: if the text breaks off, the stations before that are merged.
AddJson(u, F, whole) ==
    /\ updates[u] # Nobody
    /\ \E S \in SUBSET DOMAIN F :
          LET e == updates[u]
              G == Fns!Restrict(F, S)
          IN  /\ whole = (S = DOMAIN F)
              /\ Merging(e, Loaded(global[e], G, whole), Pairs(G))
              /\ torn' = IF whole THEN torn \ {e} ELSE torn \cup {e}
    /\ UNCHANGED <<filter, active, updates, disk, reader, saved, lost>>

\* Values that explorer o selects.
Selected(o) ==
    {p \in truth[o] : p[1] \in filter[o].keys /\ Contains(filter[o].range, p[2])}

Quiet(o) == (\A u \in Updates : updates[u] # o) /\ o \notin lost

\* What add_explorer takes of the other explorer: "the currently selected contents".
Of(o) == ActiveEntries(o)

\* The caches that _entries() fills on the way, if both summaries are in memory.
Counted(e, o, M) ==
    IF Xapian(e) \/ Xapian(o) \/ active[o].kind # "global" THEN M
    ELSE [M EXCEPT ![o] = Read(@)]
CountedActive(e, o) ==
    IF Xapian(e) \/ active[o].kind # "own" THEN active
    ELSE [active EXCEPT ![o].own = Read(@)]

AddExplorer(u, o) ==
    /\ updates[u] \notin {Nobody, o}
    /\ CanRead(o)
    /\ LET e == updates[u] IN
       /\ merges < MaxMerges
       /\ merges' = merges + 1
       /\ global' = Counted(e, o, [global EXCEPT ![e] = With(@, Of(o))])
       /\ truth' = [truth EXCEPT ![e] = @ \cup IF Quiet(o) THEN Selected(o) ELSE {}]
       /\ torn' = torn \ {e}
       /\ active' = CountedActive(e, o)
       /\ reader' = IF active[o].kind = "global" THEN [reader EXCEPT ![o] = OpenReader(o)]
                    ELSE reader
    /\ UNCHANGED <<filter, updates, disk, saved, lost>>

\* Mutant: what was not merged since the last reading is not written.
SavesDirty(e) == Backend[e] # "memory" /\ global[e].dirty

\* BaseSummary::commit: the whole summary, if it has a path.
Saves(e) == Backend[e] # "memory"

\* Update::commit, or its destructor: the filtered summary is made after the
\* global one is on disk.
Commit(u) ==
    /\ updates[u] # Nobody
    /\ LET e == updates[u]
           E == global[e].entries
       IN  /\ disk' = IF Saves(e) THEN [disk EXCEPT ![e] = E] ELSE disk
           /\ saved' = IF Saves(e) THEN [saved EXCEPT ![e] = truth[e]] ELSE saved
           /\ reader' = IF ~Xapian(e) \/ (reader[e] = NoReader /\ filter[e] = EmptyFilter)
                        THEN reader ELSE [reader EXCEPT ![e] = E]
           /\ active' = [active EXCEPT ![e] = ActiveFor(e, filter[e], E)]
           /\ lost' = lost \ {e}
    /\ updates' = [updates EXCEPT ![u] = Nobody]
    /\ UNCHANGED <<global, filter, truth, torn, merges>>

----------------------------------------------------------------------------
(* Reading, and the life of the program                                    *)

\* Any accessor of active_summary().
Look(e) ==
    /\ CanRead(e)
    /\ active' = IF active[e].kind = "own" THEN [active EXCEPT ![e].own = Read(@)] ELSE active
    /\ global' = IF active[e].kind = "global" /\ ~Xapian(e)
                 THEN [global EXCEPT ![e] = Read(@)] ELSE global
    /\ reader' = IF active[e].kind = "global" THEN [reader EXCEPT ![e] = OpenReader(e)]
                 ELSE reader
    /\ UNCHANGED <<filter, updates, disk, history>>

\* The constructor, for what it finds on disk.
Reopened(e) ==
    IF disk'[e] = NoFile THEN Cleared
    ELSE IF Xapian(e) THEN With(Cleared, disk'[e])
    ELSE Loaded(Cleared, disk'[e], TRUE)

\* JSON is written over the old file: a program that ends meanwhile leaves the
\* beginning of it, with which the constructor throws until it is removed.
Spoiled(S) ==
    /\ \A e \in S : Backend[e] = "json" /\ \E u \in Updates : updates[u] = e
    /\ disk' = [e \in Explorers |-> IF e \in S THEN NoFile ELSE disk[e]]
    /\ saved' = [e \in Explorers |-> IF e \in S THEN {} ELSE saved[e]]

\* The program ends, whatever it was doing, and another one opens the same paths.
Restart ==
    /\ \E S \in SUBSET Explorers : Spoiled(S)
    /\ global' = [e \in Explorers |-> Reopened(e)]
    /\ filter' = [e \in Explorers |-> EmptyFilter]
    /\ active' = [e \in Explorers |-> Global]
    /\ updates' = [u \in Updates |-> Nobody]
    /\ reader' = [e \in Explorers |-> NoReader]
    /\ truth' = saved'
    /\ lost' = {} /\ torn' = {}
    /\ UNCHANGED merges

Init ==
    /\ global = [e \in Explorers |-> Cleared]
    /\ filter = [e \in Explorers |-> EmptyFilter]
    /\ active = [e \in Explorers |-> Global]
    /\ updates = [u \in Updates |-> Nobody]
    /\ disk = [e \in Explorers |-> NoFile]
    /\ reader = [e \in Explorers |-> NoReader]
    /\ truth = [e \in Explorers |-> {}]
    /\ saved = [e \in Explorers |-> {}]
    /\ lost = {} /\ torn = {}
    /\ merges = 0

Next ==
    \/ \E e \in Explorers, q \in Filters : SetFilter(e, q)
    \/ \E u \in Updates, e \in Explorers : BeginUpdate(u, e) \/ Rebuild(u, e) \/ AddExplorer(u, e)
    \/ \E u \in Updates, F \in Sources : Add(u, F)
    \/ \E u \in Updates, F \in Files, whole \in BOOLEAN : AddJson(u, F, whole)
    \/ \E u \in Updates : Commit(u)
    \/ \E e \in Explorers : Look(e)
    \/ Restart

Spec == Init /\ [][Next]_explorerVars
=============================================================================
