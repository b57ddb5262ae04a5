----------------------------- MODULE DbSession -----------------------------
(***************************************************************************)
(* A Fortran session on a database (dballe/fortran/dbapi.cc, with          *)
(* commonapi.cc): every routine works on the one transaction of the        *)
(* session, within the access modes that it was opened with, and goes by   *)
(* what the last action routine left: its operation.                       *)
(*                                                                         *)
(*   perms     access modes: [ana, data, attr]                             *)
(*   op        operation: NoOp, the stations or the values of a query, the *)
(*             row ids of the last insert_data, or the *context_id set     *)
(*   context   station_context: station values, not measured ones          *)
(*   qcinput   attributes have been set as input                           *)
(*   qcoutput  the attributes read last, and of which row; or Invalid      *)
(*   input     the file open for messages_read_next, or NoFile             *)
(*   calls     how many calls have been made (bound: MaxCalls)             *)
(*                                                                         *)
(* History: asked, set_station_context was called after anything that      *)
(* takes its effect back; overtaken, since the operation began a message   *)
(* was imported, or attributes were changed before its first next_data;    *)
(* tried, the messages of the input file that were imported, by the        *)
(* positions of their bulletin and in it; denied, the stations for which   *)
(* insert_data was refused as they are not there.                          *)
(***************************************************************************)
EXTENDS Transaction, Sequences

CONSTANTS
    Modes,          \* the access modes a program asks for: sets of [ana, data, attr]
    InitialTables,  \* what earlier programs left: [station, levtr, rows]
    Files,          \* input files: sequences of bulletins, sequences of Messages,
    Broken,         \* or one that cannot be decoded
    NoFile, NoCode, Invalid,
    MaxCalls

ASSUME ModesAssumption ==
    Modes \subseteq [ana : {"read", "write"}, data : {"read", "add", "write"},
                     attr : {"read", "write"}]
ASSUME InitialTablesAssumption == \A t \in InitialTables : Consistent(t)
ASSUME FilesAssumption ==
    \A F \in Files :
       /\ F \in Seq({F[i] : i \in DOMAIN F})
       /\ \A i \in DOMAIN F : F[i] = Broken \/ (F[i] \in Seq(Messages) /\ Len(F[i]) > 0)

VARIABLES perms, op, context, qcinput, qcoutput, input, calls, asked, overtaken, tried, denied

inputVars == <<input, tried>>
sessionVars == <<vars, perms, op, context, qcinput, qcoutput, calls, asked, overtaken, denied,
                 inputVars>>

Sequence == INSTANCE SequencesExt

NoOp == [kind |-> "none"]
StationsOp(n) == [kind |-> "stations", left |-> n]
DataOp(seq, attrs) == [kind |-> "data", ofStation |-> context, rows |-> seq, at |-> 0,
                       attrs |-> attrs, valid |-> FALSE, ended |-> FALSE]
InsertOp(I) == [kind |-> "insert", ofStation |-> context, ids |-> I, related |-> NoCode]
VaridOp(id) == [kind |-> "varid", id |-> id]

\* compute_permissions
Permitted(p) == ~(p.ana = "read" /\ p.data = "write")

Ready == ~fired /\ calls < MaxCalls /\ calls' = calls + 1

\* The transaction is not touched, or only read.
Reads == Ready /\ UNCHANGED <<vars, perms, denied, inputVars>>

\* reset_operation
Becomes(o) == op' = o /\ qcoutput' = Invalid /\ overtaken' = FALSE

InContext(r) == (r.ctx = StationCtx) = context

----------------------------------------------------------------------------
(* Input parameters                                                        *)

\* set_station_context
SetStationContext ==
    /\ Reads
    /\ context' = TRUE /\ asked' = TRUE
    /\ UNCHANGED <<op, qcinput, qcoutput, overtaken>>

\* setlevel, settimerange, setdate
SetDataContext ==
    /\ Reads
    /\ context' = FALSE /\ asked' = FALSE
    /\ UNCHANGED <<op, qcinput, qcoutput, overtaken>>

\* setdatemin, setdatemax
SetDateBound ==
    /\ Reads
    /\ context' = TRUE
    /\ UNCHANGED <<op, qcinput, qcoutput, asked, overtaken>>

\* unsetall
UnsetAll ==
    /\ Reads
    /\ context' = FALSE /\ asked' = FALSE /\ qcinput' = FALSE
    /\ op' = IF op.kind = "insert" THEN [op EXCEPT !.related = NoCode] ELSE op
    /\ UNCHANGED <<qcoutput, overtaken>>

\* Attributes: *Bxxyyy
SetAttribute ==
    /\ Reads /\ ~qcinput
    /\ qcinput' = TRUE
    /\ UNCHANGED <<op, context, qcoutput, asked, overtaken>>

\* *var_related
SetRelated(c) ==
    /\ Reads
    /\ op.kind = "insert"
    /\ op' = [op EXCEPT !.related = c]
    /\ UNCHANGED <<context, qcinput, qcoutput, asked, overtaken>>

\* *context_id
SetContextId(id) ==
    /\ Reads
    /\ Becomes(IF id = MissingId THEN NoOp ELSE VaridOp(id))
    /\ UNCHANGED <<context, qcinput, asked>>

----------------------------------------------------------------------------
(* Queries                                                                 *)

QueryStations ==
    /\ Reads
    /\ Becomes(StationsOp(Cardinality(station)))
    /\ UNCHANGED <<context, qcinput, asked>>

\* When there are no more, the operation ends.
NextStation ==
    /\ Reads
    /\ op.kind = "stations"
    /\ IF op.left > 0 THEN op' = [op EXCEPT !.left = @ - 1] /\ UNCHANGED <<qcoutput, overtaken>>
                      ELSE Becomes(NoOp)
    /\ UNCHANGED <<context, qcinput, asked>>

\* Rows of query_data are read at once, with their attributes if it asks so.
QueryData(C, attrs) ==
    LET found == Sequence!SetToSeq({r \in rows : InContext(r) /\ r.code \in C}) IN
    /\ Ready
    /\ cache' = cache \cup {l \in levtr : \E n \in DOMAIN found : found[n].lt = l.id}
    /\ Becomes(DataOp(found, attrs))
    /\ UNCHANGED <<station, levtr, rows, last, wattrs, fired, saved, begun, res>>
    /\ UNCHANGED <<perms, context, qcinput, asked, denied, inputVars>>

NextData ==
    /\ Reads
    /\ op.kind = "data"
    /\ op' = IF op.ended THEN op
             ELSE IF op.at = Len(op.rows) THEN [op EXCEPT !.ended = TRUE]
             ELSE [op EXCEPT !.at = @ + 1, !.valid = TRUE]
    /\ qcoutput' = Invalid
    /\ UNCHANGED <<context, qcinput, asked, overtaken>>

----------------------------------------------------------------------------
(* Attributes                                                              *)

\* The row of a query that attributes are about, from before the first next_data.
CurrentRow == op.rows[IF op.at = 0 THEN 1 ELSE op.at]

\* The table and row id that attributes are about, if any.
Targets ==
    CASE op.kind = "data" ->
            IF op.ended \/ op.rows = <<>> THEN {} ELSE {<<op.ofStation, CurrentRow.id>>}
      [] op.kind = "insert" ->
            {<<op.ofStation, x.id>> : x \in
                {y \in op.ids : Cardinality(op.ids) = 1 \/ y.code = op.related}}
      [] op.kind = "varid" -> {<<FALSE, op.id>>}
      [] OTHER -> {}

Stored(t) == \E r \in rows : r.id = t[2] /\ (r.ctx = StationCtx) = t[1] /\ r.attr

\* Attributes come from the cursor, unless they were changed through it.
QueryAttributes ==
    \E t \in Targets :
        /\ Reads
        /\ op.kind # "insert"
        /\ qcoutput' = [of |-> t, attr |-> IF op.kind = "data" /\ op.attrs /\ op.valid
                                           THEN CurrentRow.attr ELSE Stored(t)]
        /\ qcinput' = FALSE
        /\ UNCHANGED <<op, context, asked, overtaken>>

\* Mutant: attributes read with the query are used after they are changed.
AfterAttrsStillValid(o) == o

\* valid_cached_attrs
AfterAttrs(o) == IF o.kind = "data" THEN [o EXCEPT !.valid = FALSE] ELSE o

InsertAttributes ==
    \E t \in Targets :
        /\ Ready /\ perms.attr = "write"
        /\ IF qcinput THEN AttrInsert(t[1], t[2]) ELSE UNCHANGED vars
        /\ op' = AfterAttrs(op)
        /\ qcinput' = FALSE
        /\ overtaken' = (overtaken \/ (op.kind = "data" /\ op.at = 0))
        /\ UNCHANGED <<perms, context, qcoutput, asked, denied, inputVars>>

RemoveAttributes ==
    \E t \in Targets :
        /\ Ready /\ perms.attr = "write"
        /\ op.kind # "insert"
        /\ AttrRemove(t[1], t[2])
        /\ op' = AfterAttrs(op)
        /\ qcinput' = FALSE
        /\ overtaken' = (overtaken \/ (op.kind = "data" /\ op.at = 0))
        /\ UNCHANGED <<perms, context, qcoutput, asked, denied, inputVars>>

----------------------------------------------------------------------------
(* Values                                                                  *)

StationOf(ref) ==
    {r.id : r \in {s \in station' : s.key = ref[1] \/ (ref[1] = NoKey /\ s.id = ref[2])}}

\* insert_data: replaces values in "write" mode only, and adds stations likewise. (A
\* station that it may not add is cached before the call is refused, and added when
\* the call is repeated: batch.cc:71-81.)
Insert(ref, dt, lt, V) ==
    LET write == perms.data = "write"
        add == perms.ana = "write"
        at == IF context THEN StationCtx ELSE dt
        written == {r \in rows' : /\ r.st \in StationOf(ref) /\ r.ctx = at
                                  /\ r.code \in {v.code : v \in V}
                                  /\ context \/ \E l \in levtr' : l.id = r.lt /\ l.lt = lt}
    IN  /\ Ready
        /\ perms.data # "read"
        /\ IF context THEN InsertStationData(ref[1], ref[2], V, write, add)
                      ELSE InsertData(ref[1], ref[2], dt, lt, V, write, add)
        /\ Becomes(InsertOp(IF res' = "ok" THEN {[code |-> r.code, id |-> r.id] : r \in written}
                            ELSE {}))
        /\ qcinput' = IF res' = "ok" THEN FALSE ELSE qcinput
        /\ denied' = IF res' = "notfound" THEN denied \cup {ref[1]} ELSE denied
        /\ UNCHANGED <<perms, context, asked, inputVars>>

\* Mutant: an operation goes on after rows have been removed (dbapi.cc:588).
WithoutRowsOnly == op' = op

\* remove_data, reinit_db and remove_all: the operation ends; what was read of it
\* stays.
WithoutRows == op' = NoOp

Removing == /\ Ready
            /\ perms.data = "write"
            /\ WithoutRows
            /\ UNCHANGED <<perms, context, qcinput, qcoutput, asked, overtaken, denied,
                           inputVars>>

Remove(q) == Removing /\ IF context THEN RemoveStationData(q) ELSE RemoveData(q)

RemoveEverything == Removing /\ RemoveAll

----------------------------------------------------------------------------
(* Messages                                                                *)

Opened(F) == [file |-> F, pos |-> 0, held |-> <<>>, idx |-> 0]

OpenInput(F) ==
    /\ Ready
    /\ perms.ana # "read" /\ perms.data # "read"
    /\ input' = Opened(F) /\ tried' = <<>>
    /\ UNCHANGED <<vars, perms, op, context, qcinput, qcoutput, asked, overtaken, denied>>

\* Mutant: the last message of a bulletin is left out.
NextMessageButLast(i) ==
    IF i.idx + 2 < Len(i.held) THEN [i EXCEPT !.idx = @ + 1]
    ELSE IF i.pos = Len(i.file) THEN i
    ELSE IF i.file[i.pos + 1] = Broken THEN [i EXCEPT !.pos = @ + 1, !.held = <<>>]
    ELSE [i EXCEPT !.pos = @ + 1, !.held = i.file[i.pos + 1], !.idx = 0]

\* InputFile::next. When a bulletin cannot be decoded the position in it stays.
NextMessage(i) ==
    IF i.idx + 1 < Len(i.held) THEN [i EXCEPT !.idx = @ + 1]
    ELSE IF i.pos = Len(i.file) THEN i
    ELSE IF i.file[i.pos + 1] = Broken THEN [i EXCEPT !.pos = @ + 1, !.held = <<>>]
    ELSE [i EXCEPT !.pos = @ + 1, !.held = i.file[i.pos + 1], !.idx = 0]

\* Mutant: values are overwritten in every mode.
OverwritingAlways ==
    [overwrite |-> TRUE, updateStation |-> TRUE, importAttributes |-> perms.attr = "write"]

\* The options that messages_open_input chooses.
ImportAs ==
    [overwrite |-> perms.data = "write", updateStation |-> TRUE,
     importAttributes |-> perms.attr = "write"]

MessagesReadNext ==
    LET i == NextMessage(input) IN
    /\ Ready /\ input # NoFile
    /\ input' = i
    /\ IF i = input \/ i.held = <<>>
       THEN UNCHANGED <<vars, overtaken, tried>>
       ELSE /\ ImportMessage(i.held[i.idx + 1], ImportAs)
            /\ overtaken' = TRUE
            /\ tried' = Append(tried, <<i.pos, i.idx>>)
    /\ UNCHANGED <<perms, op, context, qcinput, qcoutput, asked, denied>>

----------------------------------------------------------------------------
(* The end of the session                                                  *)

Shutdown ==
    /\ op' = NoOp /\ input' = NoFile
    /\ UNCHANGED <<perms, context, qcinput, qcoutput, calls, asked, overtaken, tried, denied>>

CommitSession == Shutdown /\ Commit

\* Without commit, the destruction of the transaction undoes it all.
AbandonSession == Shutdown /\ Rollback

SessionInit ==
    /\ \E t \in InitialTables :
          /\ station = t.station /\ levtr = t.levtr /\ rows = t.rows
          /\ saved = t
    /\ last = NoStation /\ cache = {} /\ wattrs = TRUE
    /\ fired = FALSE /\ begun = 1 /\ res = "ok"
    /\ perms \in {p \in Modes : Permitted(p)}
    /\ op = NoOp /\ context = FALSE /\ qcinput = FALSE /\ qcoutput = Invalid
    /\ input = NoFile /\ calls = 0
    /\ asked = FALSE /\ overtaken = FALSE /\ tried = <<>> /\ denied = {}

SessionNext ==
    \/ SetStationContext \/ SetDataContext \/ SetDateBound \/ UnsetAll \/ SetAttribute
    \/ \E c \in Codes : SetRelated(c)
    \/ \E id \in AttrTargets \cup {MissingId} : SetContextId(id)
    \/ QueryStations \/ NextStation
    \/ \E C \in {q.codes : q \in Queries}, attrs \in BOOLEAN : QueryData(C, attrs)
    \/ NextData
    \/ QueryAttributes \/ InsertAttributes \/ RemoveAttributes
    \/ \E ref \in StationRef, dt \in Datetimes, lt \in LevTrs,
          V \in IF context THEN StationVarSets ELSE VarSets : Insert(ref, dt, lt, V)
    \/ \E q \in Queries : Remove(q)
    \/ RemoveEverything
    \/ \E F \in Files : OpenInput(F)
    \/ MessagesReadNext
    \/ CommitSession
    \/ AbandonSession

SessionSpec == SessionInit /\ [][SessionNext]_sessionVars
=============================================================================
