--------------------------- MODULE DbSessionProps ---------------------------
(* What a program may count on in a session on a database. *)
EXTENDS DbSession

SameRow(r, s) == /\ r.id = s.id /\ r.st = s.st /\ r.ctx = s.ctx
                 /\ r.lt = s.lt /\ r.code = s.code

\* The row ids that an operation goes by are still those of the values that its
\* query found or its call inserted: no call of the session removes them and
\* leaves the operation, and none gives a removed id to another value meanwhile.
OperationFindsItsData ==
    /\ op.kind = "data" =>
          \A n \in op.at..Len(op.rows) : n > 0 => \E r \in rows : SameRow(r, op.rows[n])
    /\ op.kind = "insert" =>
          \A x \in op.ids : \E r \in rows :
             r.id = x.id /\ r.code = x.code /\ (r.ctx = StationCtx) = op.ofStation

\* query_attributes returns the attributes that are in the database, whether the
\* cursor holds them since the query, the program has changed them meanwhile, or
\* they are asked for by row id. (A message imported since the query, or
\* attributes changed before the first next_data, leave the cursor behind.)
AttributesAreThoseStored ==
    [][(qcoutput' # qcoutput /\ qcoutput' # Invalid /\ ~overtaken)
          => qcoutput'.attr = Stored(qcoutput'.of)]_sessionVars

\* What of the access modes holds whichever way a call takes: in data mode "add"
\* values that exist stay as they are, after refused calls and imports too; in mode
\* "read" nothing is added; in attribute mode "read" values that cannot be overwritten
\* keep their attributes; and in station mode "read", which is to let in no station
\* (doc/fortran_ref/functions.rst:336), the only ones that come in are those that
\* insert_data was refused before.
KeepsItsModes ==
    [][~fired' =>
        /\ perms.data # "write" =>
              \A r \in rows : \E s \in rows' : SameRow(r, s) /\ r.val = s.val
        /\ perms.data = "read" => station' = station /\ IdsOf(rows') = IdsOf(rows)
        /\ perms.data # "write" /\ perms.attr = "read" =>
              \A r \in rows : \E s \in rows' : SameRow(r, s) /\ r.attr = s.attr
        /\ perms.ana = "read" => \A s \in station' \ station : s.key \in denied]_sessionVars

Precedes(m, n) == m[1] < n[1] \/ (m[1] = n[1] /\ m[2] < n[2])

MessagesOf(F) ==
    UNION {{<<b, n>> : n \in 0..Len(F[b]) - 1} : b \in {i \in DOMAIN F : F[i] # Broken}}

\* Each message of an input file is imported once and in order: one that is
\* refused, or a bulletin that cannot be decoded, is not tried again and keeps
\* none of the others out.
EachMessageOnce ==
    LET N == Len(tried) IN
    /\ \A n \in 1..N - 1 : Precedes(tried[n], tried[n + 1])
    /\ input # NoFile /\ N > 0 =>
          \A m \in MessagesOf(input.file) :
             Precedes(m, <<input.pos, input.idx>>) => \E n \in 1..N : tried[n] = m
=============================================================================
