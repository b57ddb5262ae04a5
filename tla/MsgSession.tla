----------------------------- MODULE MsgSession -----------------------------
(*****************************************************************************)
(* A Fortran session on a file of messages (dballe/fortran/msgapi.cc, with   *)
(* commonapi.cc): it reads the messages of a file one at a time, or writes   *)
(* a file. A bulletin of the file decodes to one message for each of its     *)
(* subsets, or not at all; a message is known by the positions of both.      *)
(*                                                                           *)
(*   bulletins what is in the file read: sequences of the numbers of rows    *)
(*             of their messages, or Broken                                  *)
(*   reader    pos: bulletins read; held: the messages of the last one come  *)
(*             first in msgs; idx: curmsgidx; flags: state                   *)
(*   op        the operation of the last action routine                      *)
(*   qcinput   attributes set, and qcoutput, the row whose attributes were   *)
(*             queried last, or Invalid                                      *)
(*   wmsg      subset that is being written                                  *)
(*   msgs      the subsets that come after the messages read, if there are   *)
(*             any, in the list of messages, or NoMsgs: there is no list     *)
(*   query     input_query.query: "", "subset", or for "message" its template*)
(*   exporter  template of the exporter, or NoExporter, and template, the    *)
(*             name in exporter_template                                     *)
(*   out       messages in the file written                                  *)
(*   life      "open", "closed", or "dead": the program was terminated       *)
(*                                                                           *)
(* History: shown, the messages of the file that queries were answered with; *)
(* refused, those that a query moved to before it was refused; answer, the   *)
(* outcome of the last query; asked, how many queries were made while        *)
(* writing, or of an empty list.                                             *)
(*                                                                           *)
(* The one list serves to read and to write, and nothing keeps a session     *)
(* that reads from insert_data, or one that writes from queries: insert_data *)
(* makes an exception for the mode that it does not throw.                   *)
(*****************************************************************************)
EXTENDS Naturals, Sequences, FiniteSets

CONSTANTS
    Modes,
    Files, Broken,
    Stations, Vars, Attrs, Templates,
    NoSubset, NoMsgs, NoExporter, Invalid,
    MaxInserts, \* bound on the calls to insert_data, in each mode
    MaxAsked    \* bound on the queries of asked

ASSUME ModesAssumption == Modes \subseteq {"r", "w"}

\* The codecs make at least one message of a bulletin that they can decode.
ASSUME FilesAssumption ==
    \A F \in Files :
       /\ F \in Seq({F[i] : i \in DOMAIN F})
       /\ \A i \in DOMAIN F : F[i] = Broken \/ (F[i] \in Seq(Nat) /\ Len(F[i]) > 0)

\* What variables may become, and the subsets made of them.
Contexts == UNION {DOMAIN V : V \in Vars}
Variable == [value : UNION {{V[k].value : k \in DOMAIN V} : V \in Vars}, attrs : SUBSET Attrs]
DataSets == UNION {[D -> Variable] : D \in SUBSET Contexts}
Subsets == [station : Stations, data : DataSets]

ASSUME VarsAssumption ==
    \A V \in Vars : V \in [DOMAIN V -> Variable] /\ IsFiniteSet(DOMAIN V)
ASSUME NoSubsetAssumption == NoSubset \notin Subsets
ASSUME NoMsgsAssumption == NoMsgs \notin Seq(Subsets)

VARIABLES mode, bulletins, reader, op, qcinput, qcoutput, wmsg, msgs, query, exporter, template,
          out, life, shown, refused, answer, asked, inserts

readVars == <<bulletins, reader, shown, refused, answer, asked>>
writeVars == <<wmsg, msgs, query, exporter, template, out, inserts>>
msgVars == <<mode, op, qcinput, qcoutput, life, readVars, writeVars>>

\* An empty template name: the exporter chooses one.
AutoTemplate == "auto"

NoVars == <<>>
NoOp == [kind |-> "none"]
NoCursor == [kind |-> "null"]
Stationsof(m) == [kind |-> "stations", of |-> m, row |-> 0]
Dataof(m) == [kind |-> "data", of |-> m, row |-> 0, ended |-> FALSE]
Insertof(V) == [kind |-> "insert", vars |-> V]

----------------------------------------------------------------------------
(* Reading                                                                 *)

\* Messages of the last bulletin, and length of a list that has subsets L after them.
Decoded(r) == IF r.held THEN Len(bulletins[r.pos]) ELSE 0
Size(r, L) == Decoded(r) + IF L = NoMsgs THEN 0 ELSE Len(L)

\* In an empty list, size() - 1 is the largest number there is.
Empty == msgs # NoMsgs /\ Size(reader, msgs) = 0
HasMore(r) == msgs # NoMsgs /\ (Empty \/ r.idx + 1 < Size(r, msgs))

Current(r) == <<r.pos, r.idx>>
OfFile(r) == r.idx < Decoded(r)
Rows(m) ==
    IF m[2] < Decoded(reader) THEN bulletins[m[1]][m[2] + 1]
    ELSE Cardinality(DOMAIN msgs[m[2] - Decoded(reader) + 1].data)

Exhausted(r) == r.pos = Len(bulletins)

\* Mutant: a bulletin that cannot be decoded is not passed over.
NextBulletinIfGood(r, fails) ==
    [pos |-> IF Exhausted(r) \/ bulletins[r.pos + 1] = Broken THEN r.pos ELSE r.pos + 1,
     held |-> ~Exhausted(r) /\ bulletins[r.pos + 1] # Broken,
     idx |-> 0,
     flags |-> IF Exhausted(r) THEN (IF fails THEN {"blank"} ELSE {"eof"})
               ELSE IF bulletins[r.pos + 1] = Broken THEN {"blank"} ELSE {}]

\* The end of readNextMessage: the next bulletin of the file, if it can be decoded.
\* To read a file that is open for writing fails, or finds its end.
NextBulletin(r, fails) ==
    [pos |-> IF Exhausted(r) THEN r.pos ELSE r.pos + 1,
     held |-> ~Exhausted(r) /\ bulletins[r.pos + 1] # Broken,
     idx |-> 0,
     flags |-> IF Exhausted(r) THEN (IF fails THEN {"blank"} ELSE {"eof"})
               ELSE IF bulletins[r.pos + 1] = Broken THEN {"blank"} ELSE {}]

\* Mutant: a bulletin of many messages is read as its first.
ReadNextBulletin(r, fails) == IF "eof" \in r.flags THEN r ELSE NextBulletin(r, fails)

\* readNextMessage
ReadNext(r, fails) ==
    IF "eof" \in r.flags THEN r
    ELSE IF HasMore(r) THEN [r EXCEPT !.idx = @ + 1]
    ELSE NextBulletin(r, fails)

\* Variables V, and those of W that V does not have.
Over(V, W) == [k \in DOMAIN V \cup DOMAIN W |-> IF k \in DOMAIN V THEN V[k] ELSE W[k]]

\* The subset, after the destructor of the last operation.
Flushed ==
    IF op.kind = "insert" /\ op.vars # NoVars /\ wmsg # NoSubset
    THEN [wmsg EXCEPT !.data = Over(op.vars, @)]
    ELSE wmsg

\* Mutant: a query for data goes on with the cursor of the last.
NewOpOnlyOnce(kind, m) ==
    IF kind = "stations" THEN Stationsof(m) ELSE IF op.kind = "data" THEN op ELSE Dataof(m)

NewOp(kind, m) == IF kind = "stations" THEN Stationsof(m) ELSE Dataof(m)

\* query_stations and query_data, of a kind: the same message as before, if
\* this kind has not been asked since state was reset. A query that is not valid
\* (lonmin without lonmax) is refused when the file has been read. One that finds
\* no current message has an operation without a cursor.
Query(kind, valid, fails) ==
    LET reads == reader.flags \cap {"blank", kind} # {}
        turns == reads /\ "eof" \notin reader.flags /\ ~HasMore(reader)
        r == IF reads THEN ReadNext(reader, fails) ELSE reader
        list == IF ~turns THEN msgs ELSE IF r.held THEN <<>> ELSE NoMsgs
        thrown == turns /\ "blank" \in r.flags                \* by from_binary, or read
        reset == ~thrown /\ "eof" \notin r.flags /\ valid
        found == r.idx < Size(r, list)
    IN  /\ life = "open" /\ (fails => mode = "w")
        /\ IF mode = "w" \/ Empty
           THEN asked < MaxAsked /\ asked' = asked + 1 ELSE UNCHANGED asked
        /\ msgs' = list
        /\ answer' = IF reset /\ found THEN "count"
                     ELSE IF ~thrown /\ ("eof" \in r.flags \/ (reset /\ kind = "data"))
                     THEN "missing" ELSE "error"
        /\ IF reset
           THEN /\ reader' = [r EXCEPT !.flags = @ \cup {kind}]
                /\ op' = IF found THEN NewOp(kind, Current(r)) ELSE NoCursor
                /\ wmsg' = Flushed
                /\ qcoutput' = Invalid
           ELSE reader' = r /\ UNCHANGED <<op, wmsg, qcoutput>>
        /\ shown' = IF reset /\ OfFile(r) THEN Append(shown, <<kind, Current(r)>>) ELSE shown
        /\ refused' = IF ~valid /\ OfFile(r) THEN refused \cup {Current(r)} ELSE refused
        /\ UNCHANGED <<mode, bulletins, qcinput, life, query, exporter, template, out, inserts>>

QueryStations(valid, fails) == Query("stations", valid, fails)
QueryData(valid, fails) == Query("data", valid, fails)

\* After a query without an answer the rows are iterators into messages that have
\* been deleted, or there is no cursor: what reading them does is not defined, and
\* not modelled.

\* next_station: when there are no more, the operation ends.
NextStation ==
    /\ life = "open" /\ op.kind = "stations"
    /\ op' = IF op.row = 0 THEN [op EXCEPT !.row = 1] ELSE NoOp
    /\ qcoutput' = IF op.row = 0 THEN qcoutput ELSE Invalid
    /\ UNCHANGED <<mode, qcinput, life, readVars, writeVars>>

\* Mutant: attributes that were queried stay when next_data moves on.
NextDataKeepingAttrs ==
    /\ life = "open" /\ op.kind = "data" /\ answer = "count"
    /\ op' = IF op.ended THEN op
             ELSE IF op.row < Rows(op.of) THEN [op EXCEPT !.row = @ + 1]
             ELSE [op EXCEPT !.row = Rows(op.of) + 1, !.ended = TRUE]
    /\ UNCHANGED <<mode, qcinput, qcoutput, life, readVars, writeVars>>

NextData ==
    /\ life = "open" /\ op.kind = "data" /\ answer = "count"
    /\ qcoutput' = Invalid
    /\ op' = IF op.ended THEN op
             ELSE IF op.row < Rows(op.of) THEN [op EXCEPT !.row = @ + 1]
             ELSE [op EXCEPT !.row = Rows(op.of) + 1, !.ended = TRUE]
    /\ UNCHANGED <<mode, qcinput, life, readVars, writeVars>>

\* query_attributes, once next_data has returned a row
QueryAttributes ==
    /\ life = "open" /\ op.kind = "data" /\ answer = "count" /\ ~op.ended /\ op.row > 0
    /\ qcoutput' = <<op.of, op.row>>
    /\ qcinput' = {}
    /\ UNCHANGED <<mode, op, life, readVars, writeVars>>

----------------------------------------------------------------------------
(* Writing                                                                 *)

\* Mutant: an exporter is kept for a template that it was not made for.
ExporterForFirst(t) == IF exporter # NoExporter THEN exporter ELSE t

\* set_exporter, and the exporter that flushMessage makes.
ExporterFor(t) == IF exporter # NoExporter /\ template = t THEN exporter ELSE t

\* insert_data, with variables V of station s, which are lost when the call ends the
\* subset. If ok, exporter and file take the message: one open for reading does not.
InsertData(s, V, ok) ==
    LET w == [station |-> s, data |-> IF Flushed = NoSubset THEN NoVars ELSE Flushed.data]
        list == IF msgs = NoMsgs THEN <<>> ELSE msgs
    IN  /\ life = "open"
        /\ inserts < MaxInserts[mode] /\ inserts' = inserts + 1
        /\ query \in Templates => (ok => mode = "w")
        /\ ~ok => query \in Templates
        /\ op' = Insertof(V)
        /\ qcoutput' = Invalid
        /\ qcinput' = IF ok THEN {} ELSE qcinput
        /\ query' = IF ok THEN "" ELSE query
        /\ wmsg' = IF query = "" THEN w ELSE NoSubset
        /\ IF query \in {"", "subset"}
           THEN /\ msgs' = IF query = "" THEN list ELSE Append(list, w)
                /\ UNCHANGED <<out, exporter, template>>
           ELSE /\ exporter' = ExporterFor(query)
                /\ template' = query
                /\ msgs' = IF ok THEN NoMsgs ELSE Append(list, w)
                /\ out' = IF ok THEN Append(out, [template |-> exporter',
                                                 subsets |-> Append(list, w)]) ELSE out
        /\ UNCHANGED <<mode, life, readVars>>

SetQuery(q) ==
    /\ life = "open" /\ q # query
    /\ query' = q
    /\ UNCHANGED <<mode, op, qcinput, qcoutput, life, readVars, wmsg, msgs, exporter, template,
                   out, inserts>>

SetAttribute(a) ==
    /\ life = "open"
    /\ qcinput' = qcinput \cup {a}
    /\ UNCHANGED <<mode, op, qcoutput, life, readVars, writeVars>>

Annotated == [k \in DOMAIN op.vars |-> [op.vars[k] EXCEPT !.attrs = @ \cup qcinput]]

\* insert_attributes, when the last insert_data was given one variable
InsertAttributes ==
    /\ mode = "w" /\ life = "open"
    /\ op.kind = "insert" /\ Cardinality(DOMAIN op.vars) = 1
    /\ op' = [op EXCEPT !.vars = Annotated]
    /\ qcinput' = {}
    /\ UNCHANGED <<mode, qcoutput, life, readVars, writeVars>>

\* idba_commit: the destructor, from which an exception ends the program, and so does
\* a subset when there is no list for it.
Close(ok) ==
    LET writes == Flushed # NoSubset /\ msgs # NoMsgs
    IN  /\ life = "open"
        /\ IF ok THEN Flushed # NoSubset => writes /\ mode = "w" ELSE Flushed # NoSubset
        /\ life' = IF ok THEN "closed" ELSE "dead"
        /\ op' = NoOp
        /\ qcoutput' = Invalid
        /\ wmsg' = NoSubset
        /\ msgs' = IF ~writes THEN msgs ELSE IF ok THEN NoMsgs ELSE Append(msgs, Flushed)
        /\ exporter' = IF writes /\ exporter = NoExporter THEN template ELSE exporter
        /\ out' = IF ok /\ writes
                  THEN Append(out, [template |-> exporter', subsets |-> Append(msgs, Flushed)])
                  ELSE out
        /\ UNCHANGED <<mode, qcinput, readVars, query, template, inserts>>

----------------------------------------------------------------------------
Init ==
    /\ mode \in Modes
    /\ bulletins \in (IF mode = "r" THEN Files ELSE {<<>>})
    /\ reader = [pos |-> 0, held |-> FALSE, idx |-> 0, flags |-> {"blank"}]
    /\ op = NoOp /\ qcinput = {} /\ qcoutput = Invalid
    /\ wmsg = NoSubset /\ msgs = NoMsgs /\ query = "" /\ exporter = NoExporter /\ template = AutoTemplate
    /\ out = <<>> /\ life = "open" /\ shown = <<>> /\ refused = {} /\ answer = "none"
    /\ asked = 0 /\ inserts = 0

Next ==
    \/ \E valid, fails \in BOOLEAN : QueryStations(valid, fails) \/ QueryData(valid, fails)
    \/ NextStation \/ NextData \/ QueryAttributes
    \/ \E s \in Stations, V \in Vars \cup {NoVars}, ok \in BOOLEAN : InsertData(s, V, ok)
    \/ \E q \in Templates \cup {"", "subset"} : SetQuery(q)
    \/ \E a \in Attrs : SetAttribute(a)
    \/ InsertAttributes
    \/ \E ok \in BOOLEAN : Close(ok)

\* A program that reads until the file ends.
Fairness == WF_msgVars(QueryData(TRUE, FALSE))

Spec == Init /\ [][Next]_msgVars
FairSpec == Spec /\ Fairness
=============================================================================
