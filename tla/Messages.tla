------------------------------ MODULE Messages ------------------------------
(***************************************************************************)
(* The way of data out of a database and into another one: a query returns *)
(* messages (db/v7/export.cc), a program changes some of them, writes them *)
(* in CSV (msg/msg.cc, as dbamsg dump does) and another program reads them *)
(* back one by one and imports each (cmdline/processor.cc, db/v7/import.cc *)
(* as dbadb import does).                                                  *)
(*                                                                         *)
(* A database is a set of rows [st, when, ctx, code, val, attr]: station   *)
(* values have StationCtx and NoDatetime.  A station is the number of its  *)
(* row, with a place, a report and an identifier or NoIdent.               *)
(***************************************************************************)
EXTENDS Message

CONSTANTS
    Stations,      \* station id -> [place, rep, ident]
    NoIdent,
    NoDatetime,
    Databases,     \* what the database may hold at first
    Queries,       \* the sets of codes that a program may ask for
    EditContexts,  \* the contexts in which a program may change a message
    EditVars,      \* the variables it may set
    MaxEdits       \* how many changes it makes

VARIABLES
    db,            \* the rows of the database
    query,         \* the codes that were asked for
    msgs,          \* the messages
    edits,         \* how many times they have been changed
    file,          \* the lines of the CSV file
    pos,           \* how many lines have been read
    read,          \* the messages read from it
    copy,          \* the rows of the database that they are imported into
    phase          \* idle, held (messages in memory), written, done or failed

vars == <<db, query, msgs, edits, file, pos, read, copy, phase>>

----------------------------------------------------------------------------
(* Transaction::query_messages                                             *)

\* ORDER BY d.id_station, d.datetime, level, time range, d.code.
RowKey(r) == <<r.st, r.when>> \o Numbers(r.ctx) \o <<r.code>>
RowBefore(r, s) ==
    \E i \in 1..Len(RowKey(r)) :
        /\ RowKey(r)[i] < RowKey(s)[i]
        /\ \A j \in 1..i - 1 : RowKey(r)[j] = RowKey(s)[j]

InOrder(rows) ==
    MapThenFoldSet(LAMBDA r, before : Append(before, r), <<>>, LAMBDA r : r,
                   LAMBDA s : CHOOSE r \in s : \A o \in s \ {r} : RowBefore(o, r), rows)

VarOfRow(r) == [code |-> r.code, val |-> r.val, attr |-> r.attr]

StationRows(d) == {r \in d : IsStationCtx(r.ctx)}

\* The codes select measured values; station values come with every message.
Matching(d, codes) == {r \in d \ StationRows(d) : r.code \in codes}

\* The station values in the database, in an array of their own.
StationValues(d, st) ==
    FoldSet(LAMBDA r, vals : SetVar(vals, VarOfRow(r)), <<>>,
            {r \in StationRows(d) : r.st = st})

\* What a message of a row has before its first value.
MessageFor(r) ==
    LET s == Stations[r.st]
        m == SetIn(SetIn(SetIn(NewMessage(s.rep), StationCtx, Plain(DatetimeCode, r.when)),
                         StationCtx, Plain(RepMemo, s.rep)),
                   StationCtx, Plain(Place, s.place))
    IN  IF s.ident = NoIdent THEN m ELSE SetIn(m, StationCtx, Plain(Ident, s.ident))

\* Mutant: a row of another datetime stays in the message of its station.
GroupByStation(rows) ==
    FoldLeft(LAMBDA acc, r :
                 IF acc # <<>> /\ Last(acc)[1].st = r.st
                 THEN [acc EXCEPT ![Len(acc)] = Append(@, r)]
                 ELSE Append(acc, <<r>>),
             <<>>, rows)

\* A new message begins where station or datetime changes.
TakeRow(groups, r) ==
    IF groups # <<>> /\ Last(groups)[1].st = r.st /\ Last(groups)[1].when = r.when
    THEN [groups EXCEPT ![Len(groups)] = Append(@, r)]
    ELSE Append(groups, <<r>>)

\* The rows of each message.
Group(rows) == FoldLeft(TakeRow, <<>>, rows)

SetRow(m, r) == SetIn(m, r.ctx, VarOfRow(r))

\* Station values are merged over what the row has given; soundings are packed.
MessageOf(d, rows) ==
    LET m == [MessageFor(rows[1]) EXCEPT !.station = MergeVars(@, StationValues(d, rows[1].st))]
        full == FoldLeft(SetRow, m, rows)
    IN  IF full.type \in SoundingTypes THEN [full EXCEPT !.data = Pack(@)] ELSE full

Exported(d, codes) ==
    LET groups == Group(InOrder(Matching(d, codes)))
    IN  [i \in 1..Len(groups) |-> MessageOf(d, groups[i])]

----------------------------------------------------------------------------
(* add_msg_to_batch, with the options of dbadb: nothing is overwritten, and *)
(* the values of a station are imported when the station is new             *)

ValueOf(m, code) == VarOf(m.station, code).val

StationOf(m) ==
    CHOOSE st \in DOMAIN Stations :
        Stations[st] = [place |-> ValueOf(m, Place), rep |-> ValueOf(m, RepMemo),
                        ident |-> IF HasVar(m.station, Ident) THEN ValueOf(m, Ident)
                                  ELSE NoIdent]

Row(st, when, c, v) ==
    [st |-> st, when |-> when, ctx |-> [level |-> c.level, trange |-> c.trange],
     code |-> v.code, val |-> v.val, attr |-> v.attr]

\* The values of a station but its datetime, unless that has attributes.
StationRowsOf(m) ==
    {Row(StationOf(m), NoDatetime, StationCtx, m.station[i]) :
        i \in {j \in DOMAIN m.station :
                  m.station[j].code # DatetimeCode \/ m.station[j].attr}}

DataRowsOf(m) ==
    UNION {{Row(StationOf(m), ValueOf(m, DatetimeCode), m.data[i], m.data[i].values[j]) :
               j \in DOMAIN m.data[i].values} : i \in DOMAIN m.data}

Slot(r) == <<r.st, r.when, r.ctx, r.code>>
AddRows(d, rows) == d \cup {r \in rows : \A o \in d : Slot(o) # Slot(r)}

Import(d, m) ==
    IF \E r \in d : r.st = StationOf(m) THEN AddRows(d, DataRowsOf(m))
    ELSE AddRows(AddRows(d, StationRowsOf(m)), DataRowsOf(m))

----------------------------------------------------------------------------
(* CSV: [place, rep, when, ctx, code, val, isattr]                         *)

\* VarContext::print: the lines of a station value, and of one whose level is
\* missing, have no datetime, level or time range.
Line(m, c, v, isattr) ==
    LET blank == c.level = NoLevel
    IN  [place |-> ValueOf(m, Place), rep |-> ValueOf(m, RepMemo),
         when |-> IF blank THEN NoDatetime ELSE ValueOf(m, DatetimeCode),
         ctx |-> IF blank THEN StationCtx ELSE [level |-> c.level, trange |-> c.trange],
         code |-> v.code, val |-> v.val, isattr |-> isattr]

\* A variable, then its attribute.
LinesOf(m, c, vals) ==
    FoldLeft(LAMBDA acc, v : acc \o <<Line(m, c, v, FALSE)>>
                                 \o (IF v.attr THEN <<Line(m, c, v, TRUE)>> ELSE <<>>),
             <<>>, vals)

\* Message::to_csv.
ToCsv(m) ==
    FoldLeft(LAMBDA acc, c : acc \o LinesOf(m, c, c.values),
             LinesOf(m, StationCtx, m.station), m.data)

MessagesToCsv(ms) == FoldLeft(LAMBDA acc, m : acc \o ToCsv(m), <<>>, ms)

SetDatetime(m, when) == SetIn(m, StationCtx, Plain(DatetimeCode, when))

\* The first line gives a message its place, its report and its datetime.
BeginWith(l) ==
    LET m == SetIn(SetIn(NewMessage(l.rep), StationCtx, Plain(Place, l.place)),
                   StationCtx, Plain(RepMemo, l.rep))
    IN  IF l.when = NoDatetime THEN m ELSE SetDatetime(m, l.when)

\* The variable of an attribute is looked for among the measured values read so
\* far; if it is not there the line is refused.
Refused(m, l) ==
    /\ l.isattr
    /\ \/ IsStationCtx(l.ctx)
       \/ FindCtx(m.data, l.ctx) = 0
       \/ ~HasVar(m.data[FindCtx(m.data, l.ctx)].values, l.code)

\* Sets a variable, or gives one its attribute.
TakeValue(m, l) ==
    IF ~l.isattr THEN SetIn(m, l.ctx, Plain(l.code, l.val))
    ELSE LET p == FindCtx(m.data, l.ctx)
         IN  SetIn(m, l.ctx, [VarOf(m.data[p].values, l.code) EXCEPT !.attr = TRUE])

\* Mutant: a line of another datetime is always of another message.
EndsWithDatetime(acc, l) ==
    \/ acc.first.place # l.place \/ acc.first.rep # l.rep
    \/ acc.when # l.when

\* A line of another place or report, or of a second datetime, is of another
\* message; one without datetime is not.
EndsMessage(acc, l) ==
    \/ acc.first.place # l.place \/ acc.first.rep # l.rep
    \/ acc.when # l.when /\ acc.when # NoDatetime /\ l.when # NoDatetime

\* The first datetime that comes after lines without is that of the message.
TakeDatetime(m, acc, l) ==
    IF acc.when = NoDatetime /\ l.when # NoDatetime THEN SetDatetime(m, l.when) ELSE m

\* One turn of the loop of Message::from_csv.
ReadLine(acc, l) ==
    IF acc.failed \/ acc.end \/ EndsMessage(acc, l) THEN [acc EXCEPT !.end = TRUE]
    ELSE LET m == TakeDatetime(acc.msg, acc, l) IN
         IF Refused(m, l) THEN [acc EXCEPT !.failed = TRUE]
         ELSE [acc EXCEPT !.msg = TakeValue(m, l), !.n = @ + 1,
                          !.when = IF @ = NoDatetime THEN l.when ELSE @]

\* The message that lines, not empty, begin with, and how many of them it takes.
FromCsv(lines) ==
    FoldLeft(ReadLine,
             [msg |-> BeginWith(lines[1]), first |-> lines[1], when |-> lines[1].when,
              n |-> 0, end |-> FALSE, failed |-> FALSE],
             lines)

----------------------------------------------------------------------------
(* What the constants stand for                                            *)

\* The index of the table lets a place, report and identifier be taken once.
ASSUME StationsAssumption ==
    /\ DOMAIN Stations \subseteq Int
    /\ \A s \in DOMAIN Stations :
          Stations[s] = [place |-> Stations[s].place, rep |-> Stations[s].rep,
                         ident |-> Stations[s].ident]
    /\ \A s, t \in DOMAIN Stations : Stations[s] = Stations[t] => s = t

\* And so do the indexes of the rows, which are finitely many.
ASSUME DatabasesAssumption ==
    \A d \in Databases :
        /\ IsFiniteSet(d)
        /\ \A r \in d : /\ r.st \in DOMAIN Stations /\ r.when \in Int /\ r.ctx \in Key
                        /\ r.code \in Int /\ r.attr \in BOOLEAN
                        /\ r = Row(r.st, r.when, r.ctx, r)
                        /\ r.when = NoDatetime <=> IsStationCtx(r.ctx)
        /\ \A r, s \in d : Slot(r) = Slot(s) => r = s

ASSUME EditsAssumption ==
    /\ EditContexts \subseteq Key
    /\ \A v \in EditVars : v \in [code : Int, val : {v.val}, attr : BOOLEAN]

----------------------------------------------------------------------------
(* Steps                                                                   *)

Init ==
    /\ db \in Databases
    /\ msgs = <<>> /\ file = <<>> /\ read = <<>>
    /\ query = {} /\ copy = {} /\ edits = 0 /\ pos = 0 /\ phase = "idle"

QueryMessages(codes) ==
    /\ phase = "idle"
    /\ query' = codes /\ msgs' = Exported(db, codes) /\ phase' = "held"
    /\ UNCHANGED <<db, edits, file, pos, read, copy>>

Edit(i, m) ==
    /\ phase = "held" /\ edits < MaxEdits
    /\ msgs' = [msgs EXCEPT ![i] = m] /\ edits' = edits + 1
    /\ UNCHANGED <<db, query, file, pos, read, copy, phase>>

Set(i, c, v) == Edit(i, SetIn(msgs[i], c, v))
Unset(i, c, code) == Edit(i, UnsetIn(msgs[i], c, code))
RemoveContext(i, c) == Edit(i, [msgs[i] EXCEPT !.data = Drop(@, c)])
SoundingPackLevels(i) == Edit(i, [msgs[i] EXCEPT !.data = Pack(@)])

WriteCsv ==
    /\ phase = "held"
    /\ file' = MessagesToCsv(msgs) /\ phase' = "written"
    /\ UNCHANGED <<db, query, msgs, edits, pos, read, copy>>

\* One message is read and imported; an exception ends the program.
ReadAndImport ==
    /\ phase = "written" /\ pos < Len(file)
    /\ LET r == FromCsv(SubSeq(file, pos + 1, Len(file))) IN
       \/ r.failed /\ phase' = "failed" /\ UNCHANGED <<pos, read, copy>>
       \/ /\ ~r.failed
          /\ read' = Append(read, r.msg) /\ pos' = pos + r.n
          /\ copy' = Import(copy, r.msg) /\ UNCHANGED phase
    /\ UNCHANGED <<db, query, msgs, edits, file>>

EndOfFile ==
    /\ phase = "written" /\ pos = Len(file)
    /\ phase' = "done"
    /\ UNCHANGED <<db, query, msgs, edits, file, pos, read, copy>>

EditMessage(i) ==
    \/ \E c \in EditContexts, v \in EditVars : Set(i, c, v)
    \/ \E c \in EditContexts, v \in EditVars : Unset(i, c, v.code)
    \/ \E c \in EditContexts : RemoveContext(i, c)
    \/ SoundingPackLevels(i)

Next ==
    \/ \E codes \in Queries : QueryMessages(codes)
    \/ \E i \in DOMAIN msgs : EditMessage(i)
    \/ WriteCsv
    \/ ReadAndImport
    \/ EndOfFile

Spec == Init /\ [][Next]_vars
=============================================================================
