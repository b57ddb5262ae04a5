--------------------------- MODULE ExplorerProofs ---------------------------
(***************************************************************************)
(* Theorems about Explorer, for any explorers, sources and filters.        *)
(***************************************************************************)
EXTENDS ExplorerProps, TLAPS

Filter == [keys : SUBSET Keys, range : [min : Nat, max : Nat]]

\* Every value of T lies in the range of its key.
Covers(E, T) == \A p \in T : p[1] \in DOMAIN E /\ Contains(E[p[1]].range, p[2])

\* A summary in memory; its sets only hold what its entries hold.
Memory(m) ==
    /\ DOMAIN m = {"entries", "reports", "range", "count", "dirty"}
    /\ IsEntries(m.entries)
    /\ m.dirty \in BOOLEAN
    /\ m.reports \subseteq Reports(m.entries)

\* What is not to be computed again is right.
Fresh(m) ==
    ~m.dirty => /\ m.reports = Reports(m.entries)
                /\ m.range = Span(m.entries)
                /\ m.count = Total(m.entries)

\* The parts of one explorer: backend b, global g, active a, disk d, reader r,
\* filter f, truth t and saved v.
ReadableAs(b, d, r) == b = "xapian" => r # NoReader \/ d # NoFile

Shape(b, g, f, a, d, r, t, v) ==
    /\ Memory(g)
    /\ f \in Filter
    /\ a = [kind |-> a.kind, own |-> a.own]
    /\ a.kind \in {"none", "global", "own"}
    /\ a.kind = "own" => Memory(a.own) /\ Fresh(a.own) /\ ReadableAs(b, d, r)
    /\ d = NoFile \/ IsEntries(d)
    /\ r = NoReader \/ IsEntries(r)
    /\ t \subseteq Keys \X Datetimes /\ Covers(g.entries, t)
    /\ v \subseteq Keys \X Datetimes
    /\ IF d = NoFile THEN v = {} ELSE Covers(d, v)

\* What holds of it once no Update is open on it.
Settled(b, g, f, a, d, r) ==
    /\ a.kind # "none"
    /\ b = "xapian" => r \in {NoReader, g.entries} /\ d \in {NoFile, g.entries}
    /\ ReadableAs(b, d, r) /\ a.kind = "global" => f = EmptyFilter
    /\ a.kind = "own" => a.own.entries = Filtered(g.entries, f)
    /\ b # "memory" /\ g.entries # NoEntries => d = g.entries

ShapeOf(e) == Shape(Backend[e], global[e], filter[e], active[e], disk[e],
                    reader[e], truth[e], saved[e])
SettledIf(e) == Quiet(e) => Settled(Backend[e], global[e], filter[e], active[e],
                                    disk[e], reader[e])
FreshIf(e) == e \notin torn => Fresh(global[e])

Domains ==
    /\ DOMAIN global = Explorers /\ DOMAIN filter = Explorers
    /\ DOMAIN active = Explorers /\ DOMAIN disk = Explorers
    /\ DOMAIN reader = Explorers /\ DOMAIN truth = Explorers
    /\ DOMAIN saved = Explorers
    /\ updates \in [Updates -> Explorers \cup {Nobody}]

\* The inductive invariant.
Inv == Domains /\ \A e \in Explorers : ShapeOf(e) /\ SettledIf(e) /\ FreshIf(e)

----------------------------------------------------------------------------
(* Ranges                                                                  *)

LEMMA MergeCovers ==
    ASSUME NEW x \in [min : Nat, max : Nat], NEW y \in [min : Nat, max : Nat],
           NEW d \in Nat
    PROVE  /\ Merge(x, y) \in [min : Nat, max : Nat]
           /\ Contains(x, d) => Contains(Merge(x, y), d)
           /\ Contains(y, d) => Contains(Merge(x, y), d)
BY DEF Merge, Contains, Missing

\* A query that selects a value selects the range it lies in.
LEMMA SelectedNotDisjoint ==
    ASSUME NEW x \in [min : Nat, max : Nat], NEW y \in [min : Nat, max : Nat],
           NEW d \in Nat, Contains(x, d), Contains(y, d)
    PROVE  ~IsDisjoint(x, y)
BY DEF Contains, IsDisjoint, Missing

----------------------------------------------------------------------------
(* Entries                                                                 *)

LEMMA EntriesFacts ==
    ASSUME NEW E, IsEntries(E)
    PROVE  /\ DOMAIN E \in SUBSET Keys
           /\ E = [k \in DOMAIN E |-> E[k]]
           /\ \A k \in DOMAIN E : E[k] \in Entry
BY DEF IsEntries

LEMMA NoEntriesFacts == IsEntries(NoEntries) /\ DOMAIN NoEntries = {}
BY DEF NoEntries, IsEntries

LEMMA JoinedEntry ==
    ASSUME NEW x \in Entry, NEW y \in Entry
    PROVE  Joined(x, y) \in Entry
<1>1. Merge(x.range, y.range) \in [min : Nat, max : Nat]
  BY DEF Entry, Merge
<1>2. x.count + y.count \in Nat
  BY DEF Entry
<1> QED
  BY <1>1, <1>2 DEF Joined, Entry

LEMMA AddEntriesFacts ==
    ASSUME NEW E, IsEntries(E), NEW F, IsEntries(F)
    PROVE  /\ IsEntries(AddEntries(E, F))
           /\ DOMAIN AddEntries(E, F) = DOMAIN E \cup DOMAIN F
<1>1. DOMAIN AddEntries(E, F) = DOMAIN E \cup DOMAIN F
  BY DEF AddEntries
<1>2. DOMAIN E \cup DOMAIN F \in SUBSET Keys
  BY EntriesFacts
<1>3. ASSUME NEW k \in DOMAIN E \cup DOMAIN F
      PROVE  (IF k \notin DOMAIN F THEN E[k]
              ELSE IF k \notin DOMAIN E THEN F[k] ELSE Joined(E[k], F[k])) \in Entry
  <2>1. k \in DOMAIN E => E[k] \in Entry
    BY EntriesFacts
  <2>2. k \in DOMAIN F => F[k] \in Entry
    BY EntriesFacts
  <2> QED
    BY <1>3, <2>1, <2>2, JoinedEntry
<1>4. AddEntries(E, F) \in [DOMAIN E \cup DOMAIN F -> Entry]
  BY <1>3 DEF AddEntries
<1> QED
  BY <1>1, <1>2, <1>4 DEF IsEntries

LEMMA AddToNone ==
    ASSUME NEW F, IsEntries(F)
    PROVE  AddEntries(NoEntries, F) = F
BY EntriesFacts, NoEntriesFacts DEF AddEntries

LEMMA AddCovers ==
    ASSUME NEW E, IsEntries(E), NEW F, IsEntries(F),
           NEW T \in SUBSET (Keys \X Datetimes), Covers(E, T),
           NEW U \in SUBSET (Keys \X Datetimes), Covers(F, U)
    PROVE  Covers(AddEntries(E, F), T \cup U)
<1> SUFFICES ASSUME NEW p \in T \cup U
             PROVE  /\ p[1] \in DOMAIN AddEntries(E, F)
                    /\ Contains(AddEntries(E, F)[p[1]].range, p[2])
  BY DEF Covers
<1>1. p[2] \in Nat
  BY DatetimesAssumption
<1>2. p \in T => p[1] \in DOMAIN E /\ Contains(E[p[1]].range, p[2])
  BY DEF Covers
<1>3. p \in U => p[1] \in DOMAIN F /\ Contains(F[p[1]].range, p[2])
  BY DEF Covers
<1>4. p[1] \in DOMAIN AddEntries(E, F)
  BY <1>2, <1>3, AddEntriesFacts
<1>5. CASE p[1] \notin DOMAIN F
  BY <1>2, <1>3, <1>4, <1>5 DEF AddEntries
<1>6. CASE p[1] \notin DOMAIN E
  BY <1>2, <1>3, <1>4, <1>6 DEF AddEntries
<1>7. CASE p[1] \in DOMAIN E /\ p[1] \in DOMAIN F
  <2>1. E[p[1]] \in Entry /\ F[p[1]] \in Entry
    BY <1>7, EntriesFacts
  <2>2. E[p[1]].range \in [min : Nat, max : Nat]
        /\ F[p[1]].range \in [min : Nat, max : Nat]
    BY <2>1 DEF Entry
  <2>3. AddEntries(E, F)[p[1]].range = Merge(E[p[1]].range, F[p[1]].range)
    BY <1>7 DEF AddEntries, Joined
  <2> QED
    BY <1>1, <1>2, <1>3, <1>4, <2>2, <2>3, MergeCovers
<1> QED
  BY <1>5, <1>6, <1>7

LEMMA RestrictFacts ==
    ASSUME NEW F, IsEntries(F), NEW S \in SUBSET DOMAIN F
    PROVE  /\ IsEntries(Fns!Restrict(F, S))
           /\ DOMAIN Fns!Restrict(F, S) = S
           /\ \A k \in S : Fns!Restrict(F, S)[k] = F[k]
BY EntriesFacts DEF IsEntries, Fns!Restrict

LEMMA PairsCovered ==
    ASSUME NEW F, IsEntries(F)
    PROVE  Pairs(F) \in SUBSET (Keys \X Datetimes) /\ Covers(F, Pairs(F))
BY DEF Pairs, Covers

LEMMA FilteredFacts ==
    ASSUME NEW E, IsEntries(E), NEW q \in Filter
    PROVE  /\ IsEntries(Filtered(E, q))
           /\ q = EmptyFilter => Filtered(E, q) = E
<1>1. IsEntries(Filtered(E, q))
  BY RestrictFacts DEF Filtered
<1>2. ASSUME q = EmptyFilter PROVE Filtered(E, q) = E
  <2>1. \A k \in DOMAIN E : Selects(q, k, E[k])
    BY <1>2, EntriesFacts DEF Selects, EmptyFilter, IsDisjoint, Unknown, Missing
  <2>2. {k \in DOMAIN E : Selects(q, k, E[k])} = DOMAIN E
    BY <2>1
  <2> QED
    BY <2>2, EntriesFacts DEF Filtered, Fns!Restrict
<1> QED
  BY <1>1, <1>2

LEMMA FilteredCovers ==
    ASSUME NEW E, IsEntries(E), NEW q \in Filter,
           NEW T \in SUBSET (Keys \X Datetimes), Covers(E, T)
    PROVE  Covers(Filtered(E, q),
                  {p \in T : p[1] \in q.keys /\ Contains(q.range, p[2])})
<1> SUFFICES ASSUME NEW p \in T, p[1] \in q.keys, Contains(q.range, p[2])
             PROVE  /\ p[1] \in DOMAIN Filtered(E, q)
                    /\ Contains(Filtered(E, q)[p[1]].range, p[2])
  BY DEF Covers
<1>1. p[1] \in DOMAIN E /\ Contains(E[p[1]].range, p[2]) /\ p[2] \in Nat
  BY DatetimesAssumption DEF Covers
<1>2. E[p[1]].range \in [min : Nat, max : Nat]
  BY <1>1, EntriesFacts DEF Entry
<1>3. ~IsDisjoint(q.range, E[p[1]].range)
  BY <1>1, <1>2, SelectedNotDisjoint DEF Filter
<1> QED
  BY <1>1, <1>3 DEF Filtered, Selects, Fns!Restrict

----------------------------------------------------------------------------
(* Summaries in memory                                                     *)

LEMMA ClearedMemory ==
    Memory(Cleared) /\ Fresh(Cleared) /\ Cleared.entries = NoEntries
<1>1. Total(NoEntries) = 0
  BY NoEntriesFacts
     DEF Total, Folds!MapThenSumSet, Folds!MapThenFoldSet
<1>2. Span(NoEntries) = Unknown /\ Reports(NoEntries) = {}
  BY NoEntriesFacts DEF Span, Reports
<1> QED
  BY <1>1, <1>2, NoEntriesFacts DEF Cleared, Memory, Fresh

LEMMA LoadedMemory ==
    ASSUME NEW m, Memory(m), NEW F, IsEntries(F), NEW whole \in BOOLEAN
    PROVE  /\ Memory(Loaded(m, F, whole))
           /\ Loaded(m, F, whole).entries = AddEntries(m.entries, F)
           /\ whole => Fresh(Loaded(m, F, whole))
<1> DEFINE n == Loaded(m, F, whole)
<1>1. /\ DOMAIN n = {"entries", "reports", "range", "count", "dirty"}
      /\ n.entries = AddEntries(m.entries, F)
      /\ n.reports = m.reports
      /\ n.dirty \in BOOLEAN
      /\ whole => n.dirty
  BY DEF Memory, Loaded
<1> HIDE DEF n
<1>2. IsEntries(n.entries) /\ Reports(m.entries) \subseteq Reports(n.entries)
  <2>1. IsEntries(n.entries) /\ DOMAIN n.entries = DOMAIN m.entries \cup DOMAIN F
    BY <1>1, AddEntriesFacts DEF Memory
  <2> QED
    BY <2>1 DEF Reports
<1> QED
  BY <1>1, <1>2 DEF Memory, Fresh, n

LEMMA WithMemory ==
    ASSUME NEW m, Memory(m), NEW F, IsEntries(F)
    PROVE  /\ Memory(With(m, F)) /\ Fresh(With(m, F))
           /\ With(m, F).entries = AddEntries(m.entries, F)
<1>1. With(m, F) = Loaded(m, F, TRUE)
  BY DEF With, Loaded, Memory
<1> QED
  BY <1>1, LoadedMemory

LEMMA ReadMemory ==
    ASSUME NEW m, Memory(m)
    PROVE  /\ Memory(Read(m))
           /\ Read(m).entries = m.entries
           /\ Fresh(m) => Fresh(Read(m)) /\ InStep(m)
<1>1. CASE m.dirty
  <2>1. /\ DOMAIN Read(m) = {"entries", "reports", "range", "count", "dirty"}
        /\ Read(m).entries = m.entries
        /\ Read(m).reports = m.reports \cup Reports(m.entries)
        /\ Read(m).range = Span(m.entries)
        /\ Read(m).count = Total(m.entries)
        /\ Read(m).dirty = FALSE
    BY <1>1 DEF Read, Recomputed, Memory
  <2>2. m.reports \cup Reports(m.entries) = Reports(m.entries)
    BY DEF Memory
  <2> QED
    BY <2>1, <2>2 DEF Memory, Fresh, InStep
<1>2. CASE ~m.dirty
  BY <1>2 DEF Read, Fresh, InStep
<1> QED
  BY <1>1, <1>2 DEF Memory

\* The summary that a commit or set_filter makes for the filter.
LEMMA ActiveForFacts ==
    ASSUME NEW e, NEW q \in Filter, NEW E, IsEntries(E)
    PROVE  LET a == ActiveFor(e, q, E)
           IN  /\ a = [kind |-> a.kind, own |-> a.own]
               /\ a.kind = IF q = EmptyFilter THEN "global" ELSE "own"
               /\ q # EmptyFilter => /\ Memory(a.own) /\ Fresh(a.own)
                                     /\ a.own.entries = Filtered(E, q)
<1>1. IsEntries(Filtered(E, q))
  BY FilteredFacts
<1>2. LET w == With(Cleared, Filtered(E, q))
      IN  Memory(w) /\ Fresh(w) /\ w.entries = Filtered(E, q)
  BY <1>1, ClearedMemory, WithMemory, AddToNone
<1> QED
  BY <1>2 DEF ActiveFor, Own, Global

----------------------------------------------------------------------------
(* Reading                                                                 *)

LEMMA ShownFacts ==
    ASSUME NEW e \in Explorers, ShapeOf(e), Readable(e)
    PROVE  /\ IsEntries(Shown(e))
           /\ OpenReader(e) = NoReader \/ IsEntries(OpenReader(e))
           /\ SettledIf(e) /\ Quiet(e) =>
                /\ Shown(e) = global[e].entries
                /\ Xapian(e) => OpenReader(e) = global[e].entries
BY DEF ShapeOf, Shape, SettledIf, Settled, Readable, ReadableAs, Shown, OpenReader,
       Xapian, Memory

LEMMA ActiveFacts ==
    ASSUME NEW e \in Explorers, ShapeOf(e), SettledIf(e), CanRead(e)
    PROVE  /\ IsEntries(ActiveEntries(e))
           /\ Quiet(e) => /\ ActiveEntries(e) = Filtered(global[e].entries, filter[e])
                          /\ Covers(ActiveEntries(e), Selected(e))
<1>1. IsEntries(ActiveEntries(e))
  BY ShownFacts DEF CanRead, ActiveEntries, ShapeOf, Shape, Memory
<1>2. ASSUME Quiet(e)
      PROVE  ActiveEntries(e) = Filtered(global[e].entries, filter[e])
  <2>1. CASE active[e].kind = "own"
    BY <1>2, <2>1 DEF ActiveEntries, SettledIf, Settled
  <2>2. CASE active[e].kind = "global"
    <3>1. Readable(e) /\ ReadableAs(Backend[e], disk[e], reader[e])
      BY <2>2 DEF CanRead, Readable, ReadableAs, Xapian
    <3>2. filter[e] = EmptyFilter /\ Shown(e) = global[e].entries
      BY <1>2, <2>2, <3>1, ShownFacts DEF SettledIf, Settled
    <3> QED
      BY <2>2, <3>2, FilteredFacts DEF ActiveEntries, ShapeOf, Shape, Memory
  <2> QED
    BY <2>1, <2>2 DEF CanRead
<1>3. Covers(Filtered(global[e].entries, filter[e]), Selected(e))
  BY FilteredCovers DEF Selected, ShapeOf, Shape, Memory
<1> QED
  BY <1>1, <1>2, <1>3

----------------------------------------------------------------------------
(* Each action                                                             *)

\* What a step has to keep of one explorer.
Kept(e) == ShapeOf(e)' /\ SettledIf(e)' /\ FreshIf(e)'

Same(e) ==
    /\ global'[e] = global[e] /\ filter'[e] = filter[e] /\ active'[e] = active[e]
    /\ disk'[e] = disk[e] /\ reader'[e] = reader[e]
    /\ truth'[e] = truth[e] /\ saved'[e] = saved[e]

LEMMA SameKept ==
    ASSUME NEW e \in Explorers, Inv, Same(e), Quiet(e)' => Quiet(e),
           e \in torn => e \in torn'
    PROVE  Kept(e)
BY DEF Inv, Same, Kept, ShapeOf, SettledIf, FreshIf

\* Start makes no explorer quiet.
LEMMA StartQuiet ==
    ASSUME Inv, NEW u \in Updates, NEW e \in Explorers, Start(u, e)
    PROVE  /\ updates' \in [Updates -> Explorers \cup {Nobody}]
           /\ ~Quiet(e)'
           /\ \A x \in Explorers : Quiet(x)' => Quiet(x)
<1>1. updates' = [updates EXCEPT ![u] = e]
      /\ lost' = lost \cup ({updates[u]} \ {Nobody, e})
  BY DEF Start
<1>2. updates \in [Updates -> Explorers \cup {Nobody}]
  BY DEF Inv, Domains
<1>3. ~Quiet(e)'
  BY <1>1, <1>2 DEF Quiet
<1>4. ASSUME NEW x \in Explorers, Quiet(x)' PROVE Quiet(x)
  <2>1. x # Nobody /\ x # e /\ x \notin lost' /\ \A w \in Updates : updates'[w] # x
    BY <1>3, <1>4, NobodyAssumption DEF Quiet
  <2>2. updates[u] # x
    BY <1>1, <2>1
  <2>3. \A w \in Updates : updates[w] # x
    BY <1>1, <1>2, <2>1, <2>2
  <2> QED
    BY <1>1, <2>1, <2>3 DEF Quiet
<1> QED
  BY <1>1, <1>2, <1>3, <1>4

LEMMA InitInv == Init => Inv
<1> SUFFICES ASSUME Init PROVE Inv
  OBVIOUS
<1>1. Domains
  BY DEF Init, Domains
<1>2. ASSUME NEW e \in Explorers PROVE ShapeOf(e) /\ SettledIf(e) /\ FreshIf(e)
  <2>1. /\ global[e] = Cleared /\ filter[e] = EmptyFilter /\ active[e] = Global
        /\ disk[e] = NoFile /\ reader[e] = NoReader
        /\ truth[e] = {} /\ saved[e] = {}
    BY DEF Init
  <2>2. EmptyFilter \in Filter
    BY DEF EmptyFilter, Filter, Unknown, Missing
  <2>3. /\ Global = [kind |-> Global.kind, own |-> Global.own]
        /\ Global.kind = "global"
    BY DEF Global
  <2> QED
    BY <2>1, <2>2, <2>3, ClearedMemory
       DEF ShapeOf, Shape, SettledIf, Settled, FreshIf, Covers
<1> QED
  BY <1>1, <1>2 DEF Inv

\* A step that concerns one explorer, which it keeps.
LEMMA StepInv ==
    ASSUME Inv, Domains', NEW e, e \in Explorers => Kept(e),
           \A x \in Explorers \ {e} : /\ Same(x)
                                      /\ Quiet(x)' => Quiet(x)
                                      /\ x \in torn => x \in torn'
    PROVE  Inv'
<1>1. ASSUME NEW x \in Explorers PROVE Kept(x)
  BY SameKept
<1> QED
  BY <1>1 DEF Inv, Kept

LEMMA SetFilterInv ==
    ASSUME Inv, NEW e \in Explorers, NEW q \in Filters, SetFilter(e, q)
    PROVE  Inv'
<1>0. q \in Filter /\ filter'[e] = q
  BY FiltersAssumption DEF Filter, SetFilter, Inv, Domains
<1>1. /\ global' = global /\ disk' = disk /\ truth' = truth /\ saved' = saved
      /\ torn' = torn /\ updates' = updates /\ lost' = lost
  BY DEF SetFilter, history
<1>2. \A x \in Explorers : Quiet(x)' = Quiet(x)
  BY <1>1 DEF Quiet
<1>3. Domains'
  BY <1>1 DEF SetFilter, Inv, Domains
<1>4. \A x \in Explorers \ {e} : Same(x)
  BY <1>1 DEF SetFilter, Inv, Domains, Same
<1>5. ShapeOf(e) /\ SettledIf(e) /\ FreshIf(e)
  BY DEF Inv
<1>6. FreshIf(e)'
  BY <1>1, <1>5 DEF FreshIf
<1>7. ShapeOf(e)' /\ SettledIf(e)'
  <2>1. CASE q # EmptyFilter /\ ~Readable(e)
    <3>1. active'[e] = active[e] /\ reader'[e] = reader[e]
      BY <2>1 DEF SetFilter
    <3>2. ~ReadableAs(Backend[e], disk[e], reader[e])
      BY <2>1 DEF Readable, ReadableAs, Xapian
    <3> QED
      BY <1>0, <1>1, <1>2, <1>5, <3>1, <3>2 DEF ShapeOf, Shape, SettledIf, Settled
  <2>2. CASE q = EmptyFilter
    <3>1. active'[e] = Global /\ reader' = reader
      BY <2>2 DEF SetFilter, ActiveFor, Inv, Domains
    <3> QED
      BY <1>0, <1>1, <1>2, <1>5, <2>2, <3>1
         DEF ShapeOf, Shape, SettledIf, Settled, Global
  <2>3. CASE q # EmptyFilter /\ Readable(e)
    <3>1. /\ active'[e] = ActiveFor(e, q, Shown(e))
          /\ reader'[e] = OpenReader(e)
      BY <2>3 DEF SetFilter, Inv, Domains
    <3>2. /\ IsEntries(Shown(e))
          /\ OpenReader(e) = NoReader \/ IsEntries(OpenReader(e))
          /\ Quiet(e) => Shown(e) = global[e].entries
          /\ Quiet(e) /\ Xapian(e) => OpenReader(e) = global[e].entries
      BY <1>5, <2>3, ShownFacts
    <3>3. LET a == active'[e]
          IN  /\ a = [kind |-> a.kind, own |-> a.own]
              /\ a.kind = "own" /\ Memory(a.own) /\ Fresh(a.own)
              /\ a.own.entries = Filtered(Shown(e), q)
      BY <1>0, <2>3, <3>1, <3>2, ActiveForFacts
    <3>4. ReadableAs(Backend[e], disk[e], reader'[e])
      BY <2>3, <3>1 DEF Readable, ReadableAs, OpenReader, Xapian
    <3>5. ShapeOf(e)'
      BY <1>0, <1>1, <1>5, <3>1, <3>2, <3>3, <3>4 DEF ShapeOf, Shape
    <3>6. SettledIf(e)'
      BY <1>0, <1>1, <1>2, <1>5, <3>1, <3>2, <3>3
         DEF SettledIf, Settled, Xapian
    <3> QED
      BY <3>5, <3>6
  <2> QED
    BY <2>1, <2>2, <2>3
<1> QED
  BY <1>1, <1>2, <1>3, <1>4, <1>6, <1>7, StepInv DEF Kept

LEMMA BeginUpdateInv ==
    ASSUME Inv, NEW u \in Updates, NEW e \in Explorers, BeginUpdate(u, e)
    PROVE  Inv'
<1>1. /\ global' = global /\ filter' = filter /\ disk' = disk /\ reader' = reader
      /\ truth' = truth /\ saved' = saved /\ torn' = torn
      /\ active' = [active EXCEPT ![e] = NoActive]
  BY DEF BeginUpdate, Start
<1>2. /\ updates' \in [Updates -> Explorers \cup {Nobody}]
      /\ ~Quiet(e)' /\ \A x \in Explorers : Quiet(x)' => Quiet(x)
  BY StartQuiet DEF BeginUpdate
<1>3. Domains' /\ active'[e] = NoActive /\ \A x \in Explorers \ {e} : Same(x)
  BY <1>1, <1>2 DEF Inv, Domains, Same
<1>4. ShapeOf(e) /\ FreshIf(e)
  BY DEF Inv
<1>5. Kept(e)
  BY <1>1, <1>2, <1>3, <1>4
     DEF Kept, ShapeOf, Shape, SettledIf, FreshIf, NoActive
<1> QED
  BY <1>1, <1>2, <1>3, <1>5, StepInv

LEMMA RebuildInv ==
    ASSUME Inv, NEW u \in Updates, NEW e \in Explorers, Rebuild(u, e)
    PROVE  Inv'
<1>1. /\ filter' = filter /\ torn' = torn \ {e}
      /\ active' = [active EXCEPT ![e] = NoActive]
      /\ global' = [global EXCEPT ![e] = Cleared]
      /\ disk' = IF Xapian(e) THEN [disk EXCEPT ![e] = NoEntries] ELSE disk
      /\ reader' = [reader EXCEPT ![e] = NoReader]
      /\ truth' = [truth EXCEPT ![e] = {}]
      /\ saved' = IF Xapian(e) THEN [saved EXCEPT ![e] = {}] ELSE saved
  BY DEF Rebuild, Start, Clear
<1>2. /\ updates' \in [Updates -> Explorers \cup {Nobody}]
      /\ ~Quiet(e)' /\ \A x \in Explorers : Quiet(x)' => Quiet(x)
  BY StartQuiet DEF Rebuild
<1>3. Domains' /\ \A x \in Explorers \ {e} : Same(x)
  BY <1>1, <1>2 DEF Inv, Domains, Same
<1>4. /\ active'[e] = NoActive /\ global'[e] = Cleared /\ reader'[e] = NoReader
      /\ truth'[e] = {}
      /\ \/ disk'[e] = NoEntries /\ saved'[e] = {}
         \/ disk'[e] = disk[e] /\ saved'[e] = saved[e]
  BY <1>1 DEF Inv, Domains
<1>5. ShapeOf(e)
  BY DEF Inv
<1>6. ShapeOf(e)'
  BY <1>1, <1>4, <1>5, ClearedMemory, NoEntriesFacts, NoFileAssumption
     DEF ShapeOf, Shape, NoActive, Covers
<1>7. Kept(e)
  BY <1>2, <1>4, <1>6, ClearedMemory DEF Kept, SettledIf, FreshIf
<1> QED
  BY <1>1, <1>2, <1>3, <1>7, StepInv

\* Entries that are merged into an explorer with an Update open on it.
LEMMA MergedKept ==
    ASSUME Inv, NEW e \in Explorers, ~Quiet(e)',
           NEW F, IsEntries(F),
           NEW P \in SUBSET (Keys \X Datetimes), Covers(F, P),
           Memory(global'[e]), Fresh(global'[e]) \/ e \in torn',
           global'[e].entries = AddEntries(global[e].entries, F),
           truth'[e] = truth[e] \cup P,
           filter'[e] = filter[e], disk'[e] = disk[e], reader'[e] = reader[e],
           saved'[e] = saved[e],
           active'[e] = active[e] \/ active'[e] = [active[e] EXCEPT !.own = Read(@)]
    PROVE  Kept(e)
<1>1. ShapeOf(e)
  BY DEF Inv
<1>3. /\ truth'[e] \subseteq Keys \X Datetimes
      /\ Covers(global'[e].entries, truth'[e])
  BY <1>1, AddCovers DEF ShapeOf, Shape, Memory
<1>4. /\ active'[e] = [kind |-> active'[e].kind, own |-> active'[e].own]
      /\ active'[e].kind = active[e].kind
      /\ active[e].kind = "own" => Memory(active'[e].own) /\ Fresh(active'[e].own)
  BY <1>1, ReadMemory DEF ShapeOf, Shape
<1>5. Shape(Backend[e], global'[e], filter[e], active'[e], disk[e], reader[e],
            truth'[e], saved[e])
  BY <1>1, <1>3, <1>4 DEF ShapeOf, Shape
<1>6. ShapeOf(e)'
  BY <1>5 DEF ShapeOf
<1> QED
  BY <1>6 DEF Kept, SettledIf, FreshIf

LEMMA AddInv ==
    ASSUME Inv, NEW u \in Updates, NEW F \in Sources, Add(u, F)
    PROVE  Inv'
<1>e. PICK e \in Explorers : e = updates[u]
  BY DEF Add, Inv, Domains
<1>0. ~Quiet(e)
  BY <1>e DEF Quiet
<1>1. IsEntries(F)
  BY SourcesAssumption
<1>2. /\ global' = [global EXCEPT ![e] = With(@, F)]
      /\ truth' = [truth EXCEPT ![e] = @ \cup Pairs(F)]
      /\ torn' = torn \ {e}
      /\ UNCHANGED <<filter, active, updates, disk, reader, saved, lost>>
  BY <1>e DEF Add, Merging
<1>3. Domains' /\ \A x \in Explorers \ {e} : Same(x)
  BY <1>2 DEF Inv, Domains, Same
<1>4. \A x \in Explorers : Quiet(x)' = Quiet(x)
  BY <1>2 DEF Quiet
<1>5. Memory(global[e])
  BY <1>0 DEF Inv, ShapeOf, Shape
<1>6. /\ global'[e] = With(global[e], F) /\ truth'[e] = truth[e] \cup Pairs(F)
  BY <1>0, <1>2 DEF Inv, Domains
<1>7. /\ Memory(global'[e]) /\ Fresh(global'[e])
      /\ global'[e].entries = AddEntries(global[e].entries, F)
  BY <1>1, <1>5, <1>6, WithMemory
<1>8. Kept(e)
  BY <1>0, <1>1, <1>2, <1>4, <1>6, <1>7, PairsCovered, MergedKept
<1> QED
  BY <1>2, <1>3, <1>4, <1>8, StepInv

LEMMA AddJsonInv ==
    ASSUME Inv, NEW u \in Updates, NEW F \in Files, NEW whole \in BOOLEAN,
           AddJson(u, F, whole)
    PROVE  Inv'
<1>e. PICK e \in Explorers : e = updates[u]
  BY DEF AddJson, Inv, Domains
<1>0. ~Quiet(e)
  BY <1>e DEF Quiet
<1>1. PICK S \in SUBSET DOMAIN F :
         /\ Merging(e, Loaded(global[e], Fns!Restrict(F, S), whole),
                    Pairs(Fns!Restrict(F, S)))
         /\ torn' = IF whole THEN torn \ {e} ELSE torn \cup {e}
  BY <1>e DEF AddJson
<1> DEFINE G == Fns!Restrict(F, S)
<1>2. IsEntries(G)
  BY SourcesAssumption, RestrictFacts
<1> HIDE DEF G
<1>3. /\ global' = [global EXCEPT ![e] = Loaded(global[e], G, whole)]
      /\ truth' = [truth EXCEPT ![e] = @ \cup Pairs(G)]
  BY <1>1 DEF Merging, G
<1>4. UNCHANGED <<filter, active, updates, disk, reader, saved, lost>>
  BY DEF AddJson
<1>5. Domains' /\ \A x \in Explorers \ {e} : Same(x)
  BY <1>3, <1>4 DEF Inv, Domains, Same
<1>6. \A x \in Explorers : Quiet(x)' = Quiet(x)
  BY <1>4 DEF Quiet
<1>7. /\ global'[e] = Loaded(global[e], G, whole) /\ truth'[e] = truth[e] \cup Pairs(G)
  BY <1>0, <1>3 DEF Inv, Domains
<1>8. /\ Memory(global'[e])
      /\ Fresh(global'[e]) \/ e \in torn'
      /\ global'[e].entries = AddEntries(global[e].entries, G)
  <2>1. Memory(global[e])
    BY <1>0 DEF Inv, ShapeOf, Shape
  <2>2. CASE whole = TRUE
    <3>1. global'[e] = With(global[e], G)
      BY <1>7, <2>1, <2>2 DEF With, Loaded, Memory
    <3> QED
      BY <1>2, <2>1, <3>1, WithMemory
  <2>3. CASE whole = FALSE
    BY <1>1, <1>2, <1>7, <2>1, <2>3, LoadedMemory
  <2> QED
    BY <2>2, <2>3
<1>9. Kept(e)
  BY <1>0, <1>2, <1>4, <1>6, <1>7, <1>8, PairsCovered, MergedKept
<1> QED
  BY <1>1, <1>5, <1>6, <1>9, StepInv

\* A summary that is read, in memory or on disk, is the same afterwards.
LEMMA LookKept ==
    ASSUME Inv, NEW e \in Explorers, Quiet(e)' => Quiet(e),
           global'[e] \in {global[e], Read(global[e])},
           active'[e] = active[e] \/ active'[e] = [active[e] EXCEPT !.own = Read(@)],
           reader'[e] = reader[e] \/ (Readable(e) /\ reader'[e] = OpenReader(e)),
           filter'[e] = filter[e], disk'[e] = disk[e], truth'[e] = truth[e],
           saved'[e] = saved[e], e \in torn => e \in torn'
    PROVE  Kept(e)
<1>1. ShapeOf(e) /\ SettledIf(e) /\ FreshIf(e)
  BY DEF Inv
<1>2. /\ Memory(global'[e]) /\ global'[e].entries = global[e].entries
      /\ FreshIf(e)'
  BY <1>1, ReadMemory DEF ShapeOf, Shape, FreshIf
<1>3. /\ active'[e] = [kind |-> active'[e].kind, own |-> active'[e].own]
      /\ active'[e].kind = active[e].kind
      /\ active[e].kind = "own" => /\ Memory(active'[e].own) /\ Fresh(active'[e].own)
                                   /\ active'[e].own.entries = active[e].own.entries
  BY <1>1, ReadMemory DEF ShapeOf, Shape
<1>4. /\ reader'[e] = NoReader \/ IsEntries(reader'[e])
      /\ ReadableAs(Backend[e], disk[e], reader[e])
            <=> ReadableAs(Backend[e], disk[e], reader'[e])
      /\ Quiet(e) /\ Xapian(e) => reader'[e] \in {NoReader, global[e].entries}
  <2>1. CASE reader'[e] = reader[e]
    BY <1>1, <2>1 DEF ShapeOf, Shape, SettledIf, Settled, Xapian
  <2>2. CASE Readable(e) /\ reader'[e] = OpenReader(e)
    BY <1>1, <2>2, ShownFacts DEF Readable, ReadableAs, OpenReader, Xapian
  <2> QED
    BY <2>1, <2>2
<1>5. ShapeOf(e)'
  BY <1>1, <1>2, <1>3, <1>4 DEF ShapeOf, Shape
<1>6. SettledIf(e)'
  BY <1>1, <1>2, <1>3, <1>4 DEF SettledIf, Settled, Xapian
<1> QED
  BY <1>2, <1>5, <1>6 DEF Kept

LEMMA LookInv ==
    ASSUME Inv, NEW e \in Explorers, Look(e)
    PROVE  Inv'
<1>1. /\ UNCHANGED <<filter, updates, disk, truth, saved, lost, torn>>
      /\ Domains' /\ \A x \in Explorers \ {e} : Same(x)
  BY DEF Look, history, Inv, Domains, Same
<1>2. \A x \in Explorers : Quiet(x)' = Quiet(x)
  BY <1>1 DEF Quiet
<1>3. /\ global'[e] \in {global[e], Read(global[e])}
      /\ active'[e] = active[e] \/ active'[e] = [active[e] EXCEPT !.own = Read(@)]
      /\ reader'[e] = reader[e] \/ (Readable(e) /\ reader'[e] = OpenReader(e))
  BY DEF Look, CanRead, Inv, Domains
<1>4. Kept(e)
  BY <1>1, <1>2, <1>3, LookKept
<1> QED
  BY <1>1, <1>2, <1>4, StepInv

LEMMA AddExplorerInv ==
    ASSUME Inv, NEW u \in Updates, NEW o \in Explorers, AddExplorer(u, o)
    PROVE  Inv'
<1>e. PICK e \in Explorers : e = updates[u]
  BY DEF AddExplorer, Inv, Domains
<1> DEFINE F == Of(o)
           P == IF Quiet(o) THEN Selected(o) ELSE {}
<1>0. e # o /\ ~Quiet(e) /\ CanRead(o)
  BY <1>e DEF AddExplorer, Quiet
<1>1. /\ global' = Counted(e, o, [global EXCEPT ![e] = With(@, F)])
      /\ truth' = [truth EXCEPT ![e] = @ \cup P]
      /\ torn' = torn \ {e}
      /\ active' = CountedActive(e, o)
      /\ reader' = IF active[o].kind = "global" THEN [reader EXCEPT ![o] = OpenReader(o)]
                   ELSE reader
      /\ UNCHANGED <<filter, updates, disk, saved, lost>>
  BY <1>e DEF AddExplorer
<1>2. ShapeOf(o) /\ SettledIf(o) /\ ShapeOf(e)
  BY <1>0 DEF Inv
<1>3. IsEntries(F) /\ P \in SUBSET (Keys \X Datetimes) /\ Covers(F, P)
  BY <1>0, <1>2, ActiveFacts DEF Of, Selected, Covers, ShapeOf, Shape
<1> HIDE DEF F, P
<1>4. \A x \in Explorers : Quiet(x)' = Quiet(x)
  BY <1>1 DEF Quiet
<1>5. /\ DOMAIN global' = Explorers /\ DOMAIN active' = Explorers
      /\ global'[e] = With(global[e], F)
      /\ global'[o] \in {global[o], Read(global[o])}
      /\ \A x \in Explorers \ {e, o} : global'[x] = global[x]
      /\ active'[e] = active[e]
      /\ active'[o] = active[o] \/ active'[o] = [active[o] EXCEPT !.own = Read(@)]
      /\ \A x \in Explorers \ {o} : active'[x] = active[x]
  BY <1>0, <1>1 DEF Counted, CountedActive, Inv, Domains
<1>6. Domains' /\ \A x \in Explorers \ {e, o} : Same(x)
  BY <1>1, <1>5 DEF Inv, Domains, Same
<1>7. Kept(e)
  <2>1. /\ Memory(global'[e]) /\ Fresh(global'[e])
        /\ global'[e].entries = AddEntries(global[e].entries, F)
    BY <1>2, <1>3, <1>5, WithMemory DEF ShapeOf, Shape
  <2>2. truth'[e] = truth[e] \cup P /\ reader'[e] = reader[e]
    BY <1>0, <1>1 DEF Inv, Domains
  <2> QED
    BY <1>0, <1>1, <1>3, <1>4, <1>5, <2>1, <2>2, MergedKept
<1>8. Kept(o)
  <2>1. truth'[o] = truth[o] /\ (o \in torn => o \in torn')
    BY <1>0, <1>1 DEF Inv, Domains
  <2>2. reader'[o] = reader[o] \/ (Readable(o) /\ reader'[o] = OpenReader(o))
    BY <1>0, <1>1 DEF CanRead, Inv, Domains
  <2> QED
    BY <1>1, <1>4, <1>5, <2>1, <2>2, LookKept
<1>9. ASSUME NEW x \in Explorers PROVE Kept(x)
  <2>1. CASE x \in {e, o}
    BY <1>7, <1>8, <2>1
  <2>2. CASE x \notin {e, o}
    BY <1>1, <1>4, <1>6, <2>2, SameKept
  <2> QED
    BY <2>1, <2>2
<1> QED
  BY <1>6, <1>9 DEF Inv, Kept

LEMMA CommitInv ==
    ASSUME Inv, NEW u \in Updates, Commit(u)
    PROVE  Inv'
<1>e. PICK e \in Explorers : e = updates[u]
  BY DEF Commit, Inv, Domains
<1>0. e \in Explorers
  OBVIOUS
<1> DEFINE E == global[e].entries
<1>1. /\ disk' = IF Saves(e) THEN [disk EXCEPT ![e] = E] ELSE disk
      /\ saved' = IF Saves(e) THEN [saved EXCEPT ![e] = truth[e]] ELSE saved
      /\ reader' = IF ~Xapian(e) \/ (reader[e] = NoReader /\ filter[e] = EmptyFilter)
                   THEN reader ELSE [reader EXCEPT ![e] = E]
      /\ active' = [active EXCEPT ![e] = ActiveFor(e, filter[e], E)]
      /\ lost' = lost \ {e}
      /\ updates' = [updates EXCEPT ![u] = Nobody]
      /\ UNCHANGED <<global, filter, truth, torn>>
  BY <1>e DEF Commit
<1>2. ShapeOf(e) /\ FreshIf(e)
  BY <1>0 DEF Inv
<1>3. IsEntries(E) /\ filter[e] \in Filter
  BY <1>2 DEF ShapeOf, Shape, Memory
<1> HIDE DEF E
<1>4. Domains' /\ \A x \in Explorers \ {e} : Same(x)
  BY <1>1 DEF Inv, Domains, Same
<1>5. \A x \in Explorers \ {e} : Quiet(x)' => Quiet(x)
  <2>1. ASSUME NEW x \in Explorers \ {e}, Quiet(x)' PROVE Quiet(x)
    <3>1. x # Nobody /\ x # updates[u]
      BY <1>e, <2>1, NobodyAssumption
    <3>2. \A w \in Updates : updates'[w] # x => updates[w] # x
      BY <1>1, <3>1 DEF Inv, Domains
    <3> QED
      BY <1>1, <2>1, <3>2 DEF Quiet
  <2> QED
    BY <2>1
<1>6. /\ IF Saves(e) THEN disk'[e] = E /\ saved'[e] = truth[e]
         ELSE disk'[e] = disk[e] /\ saved'[e] = saved[e]
      /\ reader'[e] = E \/ reader'[e] = reader[e]
      /\ Xapian(e) => reader'[e] \in {NoReader, E}
      /\ active'[e] = ActiveFor(e, filter[e], E)
      /\ global'[e] = global[e] /\ filter'[e] = filter[e] /\ truth'[e] = truth[e]
  BY <1>0, <1>1 DEF Inv, Domains
<1>7. Xapian(e) => Saves(e)
  BY DEF Xapian, Saves
<1>8. LET a == active'[e]
      IN  /\ a = [kind |-> a.kind, own |-> a.own]
          /\ a.kind = IF filter[e] = EmptyFilter THEN "global" ELSE "own"
          /\ filter[e] # EmptyFilter => /\ Memory(a.own) /\ Fresh(a.own)
                                        /\ a.own.entries = Filtered(E, filter[e])
  BY <1>3, <1>6, ActiveForFacts
<1>9. ReadableAs(Backend[e], disk'[e], reader'[e])
  BY <1>3, <1>6, <1>7, NoFileAssumption DEF ReadableAs, Xapian
<1>10. /\ disk'[e] = NoFile \/ IsEntries(disk'[e])
       /\ reader'[e] = NoReader \/ IsEntries(reader'[e])
       /\ saved'[e] \subseteq Keys \X Datetimes
       /\ IF disk'[e] = NoFile THEN saved'[e] = {} ELSE Covers(disk'[e], saved'[e])
  BY <1>2, <1>3, <1>6, NoFileAssumption DEF ShapeOf, Shape, E
<1>11. ShapeOf(e)'
  BY <1>2, <1>6, <1>8, <1>9, <1>10 DEF ShapeOf, Shape
<1>12. SettledIf(e)'
  BY <1>6, <1>7, <1>8 DEF SettledIf, Settled, Xapian, Saves, E
<1>13. Kept(e)
  BY <1>1, <1>2, <1>6, <1>11, <1>12 DEF Kept, FreshIf
<1> QED
  BY <1>1, <1>4, <1>5, <1>13, StepInv

LEMMA RestartInv ==
    ASSUME Inv, Restart
    PROVE  Inv'
<1>0. PICK S \in SUBSET Explorers : Spoiled(S)
  BY DEF Restart
<1>1. Domains'
  BY <1>0 DEF Restart, Spoiled, Inv, Domains
<1>2. ASSUME NEW e \in Explorers PROVE Kept(e)
  <2>1. /\ global'[e] = Reopened(e) /\ filter'[e] = EmptyFilter
        /\ active'[e] = Global /\ reader'[e] = NoReader
        /\ truth'[e] = saved'[e]
        /\ \/ disk'[e] = disk[e] /\ saved'[e] = saved[e]
           \/ Backend[e] = "json" /\ disk'[e] = NoFile /\ saved'[e] = {}
    BY <1>0, <1>2 DEF Restart, Spoiled, Inv, Domains
  <2>2. ShapeOf(e)
    BY DEF Inv
  <2>3. /\ Memory(Reopened(e)) /\ Fresh(Reopened(e))
        /\ Reopened(e).entries = IF disk'[e] = NoFile THEN NoEntries ELSE disk'[e]
    <3>1. CASE disk'[e] = NoFile
      BY <3>1, ClearedMemory DEF Reopened
    <3>2. CASE disk'[e] # NoFile
      <4>1. IsEntries(disk'[e])
        BY <2>1, <2>2, <3>2 DEF ShapeOf, Shape
      <4>2. Reopened(e) = With(Cleared, disk'[e])
        BY <3>2, ClearedMemory DEF Reopened, With, Loaded, Memory
      <4> QED
        BY <3>2, <4>1, <4>2, ClearedMemory, WithMemory, AddToNone
    <3> QED
      BY <3>1, <3>2
  <2>4. EmptyFilter \in Filter
    BY DEF EmptyFilter, Filter, Unknown, Missing
  <2>5. ShapeOf(e)'
    BY <2>1, <2>2, <2>3, <2>4 DEF ShapeOf, Shape, Global, Covers
  <2>6. SettledIf(e)'
    BY <2>1, <2>3 DEF SettledIf, Settled, Global
  <2> QED
    BY <2>1, <2>3, <2>5, <2>6 DEF Kept, FreshIf
<1> QED
  BY <1>1, <1>2 DEF Inv, Kept

LEMMA NextInv == Inv /\ [Next]_explorerVars => Inv'
<1> SUFFICES ASSUME Inv, [Next]_explorerVars PROVE Inv'
  OBVIOUS
<1>1. ASSUME NEW e \in Explorers, NEW q \in Filters, SetFilter(e, q) PROVE Inv'
  BY <1>1, SetFilterInv
<1>2. ASSUME NEW u \in Updates, NEW e \in Explorers,
             BeginUpdate(u, e) \/ Rebuild(u, e) \/ AddExplorer(u, e)
      PROVE  Inv'
  BY <1>2, BeginUpdateInv, RebuildInv, AddExplorerInv
<1>3. ASSUME NEW u \in Updates, NEW F \in Sources, Add(u, F) PROVE Inv'
  BY <1>3, AddInv
<1>4. ASSUME NEW u \in Updates, NEW F \in Files, NEW whole \in BOOLEAN,
             AddJson(u, F, whole)
      PROVE  Inv'
  BY <1>4, AddJsonInv
<1>5. ASSUME NEW u \in Updates, Commit(u) PROVE Inv'
  BY <1>5, CommitInv
<1>6. ASSUME NEW e \in Explorers, Look(e) PROVE Inv'
  BY <1>6, LookInv
<1>7. CASE Restart
  BY <1>7, RestartInv
<1>8. CASE UNCHANGED explorerVars
  BY <1>8 DEF explorerVars, history, Inv, Domains, ShapeOf, SettledIf, FreshIf, Quiet
<1> QED
  BY <1>1, <1>2, <1>3, <1>4, <1>5, <1>6, <1>7, <1>8 DEF Next

----------------------------------------------------------------------------
(* What the program can rely on                                            *)

\* The sets of reports, the range and the count that recompute_summaries
\* (summary_memory.cc:127-158) puts together when they are asked for are those
\* of the entries, however often they were asked for before, and through any
\* number of merges, rebuilds and restarts; unless a load_json has thrown.
THEOREM StatsInStep == Spec => []StatsFollowEntries
<1>1. Inv => StatsFollowEntries
  BY ReadMemory DEF Inv, StatsFollowEntries, ShapeOf, Shape, FreshIf
<1> QED
  BY <1>1, InitInv, NextInv, PTL DEF Spec

\* When no Update is open on an explorer, what it shows is its filter applied to
\* everything merged, though the filtered summary is only made by commit and
\* set_filter (explorer.cc), and whatever snapshot of an index was open.
THEOREM FilterFollowed == Spec => []ActiveFollowsFilter
<1>1. Inv => ActiveFollowsFilter
  <2> SUFFICES ASSUME Inv, NEW e \in Explorers, Quiet(e)
               PROVE  /\ active[e].kind # "none"
                      /\ Readable(e) =>
                           ActiveEntries(e) = Filtered(global[e].entries, filter[e])
    BY DEF ActiveFollowsFilter
  <2>1. ShapeOf(e) /\ SettledIf(e)
    BY DEF Inv
  <2>2. active[e].kind \in {"global", "own"}
    BY <2>1 DEF ShapeOf, Shape, SettledIf, Settled
  <2> QED
    BY <2>1, <2>2, ActiveFacts DEF CanRead
<1> QED
  BY <1>1, InitInv, NextInv, PTL DEF Spec

\* No value merged is outside of the range shown for its variable: merging
\* ranges (DatetimeRange::merge) through any chain of explorers, filters, files
\* and restarts loses none, missing datetimes included.
THEOREM NothingGetsHidden == Spec => []NothingHidden
<1>1. Inv => NothingHidden
  <2> SUFFICES ASSUME Inv, NEW e \in Explorers, Quiet(e), Readable(e)
               PROVE  Covers(ActiveEntries(e), Selected(e))
    BY DEF NothingHidden, Covers
  <2>1. ShapeOf(e) /\ SettledIf(e)
    BY DEF Inv
  <2>2. active[e].kind \in {"global", "own"}
    BY <2>1 DEF ShapeOf, Shape, SettledIf, Settled
  <2> QED
    BY <2>1, <2>2, ActiveFacts DEF CanRead
<1> QED
  BY <1>1, InitInv, NextInv, PTL DEF Spec

\* An explorer with a path has on disk what it shows, once its Updates are
\* committed or destroyed (explorer.cc, BaseSummary::commit).
THEOREM SavedOnceQuiet == Spec => []SavedWhenQuiet
<1>1. Inv => SavedWhenQuiet
  BY DEF Inv, SavedWhenQuiet, SettledIf, Settled
<1> QED
  BY <1>1, InitInv, NextInv, PTL DEF Spec

=============================================================================
