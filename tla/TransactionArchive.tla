------------------------- MODULE TransactionArchive -------------------------
(***************************************************************************)
(* Transaction implements Archive: with row ids replaced by what they      *)
(* stand for, and without caches, each call is a step of the archive.      *)
(***************************************************************************)
EXTENDS TransactionProps

ASSUME NobodyAssumption == NoStation \notin Stations

KeyOf(T, id) == (CHOOSE r \in T.station : r.id = id).key

LtOf(T, id) == IF id = MissingId THEN NoLevTr
               ELSE (CHOOSE r \in T.levtr : r.id = id).lt

\* The values that tables T hold.
ValuesIn(T) == {[key |-> KeyOf(T, r.st), ctx |-> r.ctx, lt |-> LtOf(T, r.lt),
                 code |-> r.code, val |-> r.val, attr |-> r.attr] : r \in T.rows}

KeysIn(T) == {r.key : r \in T.station}

Queued == {[key |-> last.key, ctx |-> q.ctx, lt |-> LtOf(Tables, q.lt),
            code |-> q.code, val |-> q.val, attr |-> q.attr] : q \in last.queue}

InSlot(k, ctx, x) == [key |-> k, ctx |-> ctx, lt |-> x.lt, code |-> x.code,
                      val |-> x.val, attr |-> x.attr]

ArchiveInserts ==
    {[key |-> k, values |-> {InSlot(k, StationCtx, x) : x \in AtLevTr(NoLevTr, V)}] :
        k \in Stations, V \in StationVarSets}
    \cup
    {[key |-> k, values |-> {InSlot(k, dt, x) : x \in AtLevTr(lt, V)}] :
        k \in Stations, dt \in Datetimes, lt \in LevTrs, V \in VarSets}

ArchiveImports ==
    {[key |-> m.key,
      svalues |-> {InSlot(m.key, StationCtx, x) : x \in AtLevTr(NoLevTr, m.svars)},
      values |-> {InSlot(m.key, m.dt, x) : x \in m.data},
      complete |-> m.dt # NoDatetime \/ m.data = {}] :
        m \in {x \in Messages : x.key # NoKey}}

A == INSTANCE Archive WITH
        StationKeys <- Stations,
        InsertCalls <- ArchiveInserts,
        ImportCalls <- ArchiveImports,
        stations <- KeysIn(Tables),
        content <- ValuesIn(Tables),
        left <- IF last = NoStation THEN [key |-> NoStation, values |-> {}]
                ELSE [key |-> last.key, values |-> Queued],
        keep <- wattrs,
        open <- ~fired,
        before <- [stations |-> KeysIn(saved), content |-> ValuesIn(saved)]

\* Whatever is cached, and whichever ids rows have, a call of Transaction does
\* to the values in the database what the same call does to the archive.
ImplementsArchive == A!Spec
=============================================================================
