-------------------------- MODULE MsgSessionProofs --------------------------
(* Theorems about MsgSession, for any files, variables and exporters. *)
EXTENDS MsgSessionProps, FiniteSetTheorems, TLAPS

Flags == {"blank", "eof", "stations", "data"}

\* The operation is a record, which those of data have a message and a row in.
OpShape ==
    /\ op = [f \in DOMAIN op |-> op[f]]
    /\ "kind" \in DOMAIN op
    /\ op.kind \in {"none", "null", "stations", "data", "insert"}
    /\ op.kind = "stations" => "row" \in DOMAIN op
    /\ op.kind = "data" => {"of", "row", "ended"} \subseteq DOMAIN op
    /\ op.kind = "insert" => "vars" \in DOMAIN op

\* What is being written is of its type, an exporter was made for the template that
\* was named last, and only queries leave a subset without a list to go to.
WriterInv ==
    /\ mode \in {"r", "w"}
    /\ qcinput \subseteq Attrs
    /\ wmsg \in Subsets \cup {NoSubset}
    /\ msgs \in Seq(Subsets) \cup {NoMsgs}
    /\ query \in Templates \cup {"", "subset"}
    /\ exporter # NoExporter => exporter = template
    /\ op.kind = "insert" => op.vars \in DataSets /\ IsFiniteSet(DOMAIN op.vars)
    /\ asked \in Nat
    /\ mode = "w" /\ wmsg # NoSubset /\ msgs = NoMsgs => asked > 0

----------------------------------------------------------------------------
(* The operation                                                           *)

LEMMA OpInit == Init => OpShape
<1> SUFFICES ASSUME Init PROVE OpShape
  OBVIOUS
<1>1. op = [kind |-> "none"]
  BY DEF Init, NoOp
<1> QED
  BY <1>1 DEF OpShape

LEMMA OpNext == OpShape /\ [Next]_msgVars => OpShape'
<1> SUFFICES ASSUME OpShape, [Next]_msgVars PROVE OpShape'
  OBVIOUS
<1>1. ASSUME NEW kind, NEW valid, NEW fails, Query(kind, valid, fails)
      PROVE  OpShape'
  <2>1. op' = op \/ op' = NoCursor \/ \E m : op' = NewOp(kind, m)
    BY <1>1 DEF Query
  <2> QED
    BY <2>1 DEF OpShape, NoCursor, NewOp, Stationsof, Dataof
<1>2. CASE NextStation
  BY <1>2 DEF NextStation, OpShape, NoOp
<1>3. CASE NextData
  BY <1>3 DEF NextData, OpShape
<1>4. ASSUME NEW s, NEW V, NEW ok, InsertData(s, V, ok)
      PROVE  OpShape'
  <2>1. op' = Insertof(V)
    BY <1>4 DEF InsertData
  <2> QED
    BY <2>1 DEF OpShape, Insertof
<1>5. CASE InsertAttributes
  <2>1. PICK V : op' = [op EXCEPT !.vars = V]
    BY <1>5 DEF InsertAttributes
  <2> QED
    BY <2>1 DEF OpShape
<1>6. ASSUME NEW ok, Close(ok)
      PROVE  OpShape'
  <2>1. op' = [kind |-> "none"]
    BY <1>6 DEF Close, NoOp
  <2> QED
    BY <2>1 DEF OpShape
<1>7. ASSUME op' = op PROVE OpShape'
  BY <1>7 DEF OpShape
<1>8. CASE QueryAttributes \/ (\E q : SetQuery(q)) \/ (\E a : SetAttribute(a)) \/ UNCHANGED msgVars
  BY <1>7, <1>8 DEF QueryAttributes, SetQuery, SetAttribute, msgVars
<1> QED
  BY <1>1, <1>2, <1>3, <1>4, <1>5, <1>6, <1>8 DEF Next, QueryStations, QueryData

----------------------------------------------------------------------------
(* ImplementsWriter                                                        *)

\* An extension of variables by others is made of variables.
LEMMA ExtensionTyped ==
    ASSUME NEW V \in DataSets, NEW W \in DataSets
    PROVE  Over(V, W) \in DataSets
<1>1. PICK D \in SUBSET Contexts, E \in SUBSET Contexts :
         V \in [D -> Variable] /\ W \in [E -> Variable]
  BY DEF DataSets
<1>2. Over(V, W) \in [D \cup E -> Variable]
  BY <1>1 DEF Over
<1> QED
  BY <1>1, <1>2 DEF DataSets

LEMMA NoVarsTyped ==
    /\ NoVars \in DataSets
    /\ \A W \in DataSets : Over(NoVars, W) = W /\ Over(W, NoVars) = W
<1>1. DOMAIN NoVars = {} /\ NoVars = [k \in {} |-> NoVars[k]]
  BY DEF NoVars
<1>2. NoVars \in [{} -> Variable]
  BY <1>1
<1>3. NoVars \in DataSets
  BY <1>2 DEF DataSets
<1>4. ASSUME NEW W \in DataSets
      PROVE  Over(NoVars, W) = W /\ Over(W, NoVars) = W
  <2>1. W = [k \in DOMAIN W |-> W[k]]
    BY DEF DataSets
  <2>2. Over(NoVars, W) = [k \in {} \cup DOMAIN W |-> W[k]]
    BY <1>1 DEF Over
  <2>3. Over(W, NoVars) = [k \in DOMAIN W \cup {} |-> W[k]]
    BY <1>1 DEF Over
  <2> QED
    BY <2>1, <2>2, <2>3
<1> QED
  BY <1>3, <1>4

LEMMA VarsTyped == \A V \in Vars \cup {NoVars} : V \in DataSets /\ IsFiniteSet(DOMAIN V)
<1>1. ASSUME NEW V \in Vars PROVE V \in DataSets
  <2>1. DOMAIN V \subseteq Contexts
    BY DEF Contexts
  <2>2. V \in [DOMAIN V -> Variable]
    BY VarsAssumption
  <2> QED
    BY <2>1, <2>2 DEF DataSets
<1>2. DOMAIN NoVars = {}
  BY DEF NoVars
<1> QED
  BY <1>1, <1>2, NoVarsTyped, VarsAssumption, FS_EmptySet

\* The subset with what waits for it is a subset.
LEMMA FlushedTyped == WriterInv => Flushed \in Subsets \cup {NoSubset}
<1> SUFFICES ASSUME WriterInv PROVE Flushed \in Subsets \cup {NoSubset}
  OBVIOUS
<1>1. CASE op.kind = "insert" /\ op.vars # NoVars /\ wmsg # NoSubset
  <2>1. wmsg \in Subsets /\ wmsg.data \in DataSets /\ op.vars \in DataSets
    BY <1>1 DEF WriterInv, Subsets
  <2>2. Over(op.vars, wmsg.data) \in DataSets
    BY <2>1, ExtensionTyped
  <2>3. Flushed = [wmsg EXCEPT !.data = Over(op.vars, wmsg.data)]
    BY <1>1 DEF Flushed
  <2> QED
    BY <2>1, <2>2, <2>3 DEF Subsets
<1>2. CASE ~(op.kind = "insert" /\ op.vars # NoVars /\ wmsg # NoSubset)
  BY <1>2 DEF Flushed, WriterInv
<1> QED
  BY <1>1, <1>2

\* The subset that an insert_data of station s has before its variables.
BegunFor(s) == [station |-> s, data |-> IF Flushed = NoSubset THEN NoVars ELSE Flushed.data]

LEMMA BegunTyped ==
    ASSUME WriterInv, NEW s \in Stations
    PROVE  BegunFor(s) \in Subsets /\ BegunFor(s) # NoSubset
<1>1. (IF Flushed = NoSubset THEN NoVars ELSE Flushed.data) \in DataSets
  BY FlushedTyped, NoVarsTyped DEF Subsets
<1>2. BegunFor(s) \in Subsets
  BY <1>1 DEF BegunFor, Subsets
<1> QED
  BY <1>2, NoSubsetAssumption

\* The list of subsets that the writer sees.
Listed == IF msgs = NoMsgs THEN <<>> ELSE msgs

LEMMA ListedTyped == WriterInv => Listed \in Seq(Subsets) /\ Listed # NoMsgs
<1>1. <<>> \in Seq(Subsets)
  OBVIOUS
<1> QED
  BY <1>1, NoMsgsAssumption DEF WriterInv, Listed

LEMMA LongerTyped ==
    ASSUME NEW L \in Seq(Subsets), NEW s \in Subsets
    PROVE  Append(L, s) \in Seq(Subsets) /\ Append(L, s) # NoMsgs
<1>1. \A S, e : L \in Seq(S) /\ e \in S => Append(L, e) \in Seq(S)
  OBVIOUS
<1>2. Append(L, s) \in Seq(Subsets)
  BY <1>1
<1> QED
  BY <1>2, NoMsgsAssumption

\* What is seen of a session that reads does not change as long as it writes nothing.
LEMMA ReadsWithoutWriting ==
    ASSUME mode = "r", mode' = mode, out' = out
    PROVE  [Writer!Next]_Writer!writerVars
  BY DEF Writer!writerVars

LEMMA InsertDataWrites ==
    ASSUME WriterInv, NEW s \in Stations, NEW V \in Vars \cup {NoVars}, NEW ok \in BOOLEAN,
           InsertData(s, V, ok)
    PROVE  WriterInv' /\ [Writer!Next]_Writer!writerVars
<1>1. BegunFor(s) \in Subsets /\ BegunFor(s) # NoSubset
  BY BegunTyped
<1>2. /\ V \in DataSets /\ IsFiniteSet(DOMAIN V) /\ op' = Insertof(V)
      /\ mode' = mode /\ asked' = asked /\ query \in Templates \cup {"", "subset"}
      /\ Listed \in Seq(Subsets) /\ Listed # NoMsgs /\ asked \in Nat
  BY VarsTyped, ListedTyped DEF InsertData, WriterInv, readVars
<1>3. qcinput' \subseteq Attrs
  BY DEF InsertData, WriterInv
<1>4. op'.kind = "insert" /\ op'.vars = V
  BY <1>2 DEF Insertof
<1>5. Writer!Grown(s, NoVars) = BegunFor(s) \/ mode = "r"
  <2>1. BegunFor(s).data \in DataSets
    BY <1>1 DEF Subsets
  <2>2. (IF Flushed = NoSubset THEN NoVars ELSE Flushed.data) \in DataSets
    BY <2>1 DEF BegunFor
  <2>3. Over(NoVars, IF Flushed = NoSubset THEN NoVars ELSE Flushed.data)
          = IF Flushed = NoSubset THEN NoVars ELSE Flushed.data
    BY <2>2, NoVarsTyped
  <2> QED
    BY <2>3 DEF Writer!Grown, Writer!Over, Over, BegunFor, Writer!NoVars, NoVars
<1>6. CASE query = ""
  <2>1. /\ wmsg' = BegunFor(s) /\ msgs' = Listed /\ UNCHANGED <<out, exporter, template>>
        /\ query' \in {"", query}
    BY <1>6 DEF InsertData, BegunFor, Listed
  <2>2. WriterInv'
    BY <1>1, <1>2, <1>3, <1>4, <1>6, <2>1 DEF WriterInv
  <2>3. CASE mode = "r"
    BY <1>2, <2>1, <2>2, <2>3, ReadsWithoutWriting
  <2>4. CASE mode # "r"
    <3>1. Flushed' = Writer!Grown(s, V)
      <4>1. CASE V = NoVars
        BY <1>1, <1>4, <1>5, <2>1, <2>4, <4>1 DEF Flushed
      <4>2. CASE V # NoVars
        <5> DEFINE d == IF Flushed = NoSubset THEN NoVars ELSE Flushed.data
        <5>1. Flushed' = [wmsg' EXCEPT !.data = Over(V, @)]
          BY <1>1, <1>4, <2>1, <4>2 DEF Flushed
        <5>2. wmsg' = [station |-> s, data |-> d]
          BY <2>1 DEF BegunFor
        <5> HIDE DEF d
        <5>3. Flushed' = [station |-> s, data |-> Over(V, d)]
          BY <5>1, <5>2
        <5>4. Writer!Grown(s, V) = [station |-> s, data |-> Over(V, d)]
          BY <2>4 DEF d, Writer!Grown, Writer!Over, Over, Writer!NoVars, NoVars
        <5> QED
          BY <5>3, <5>4
      <4> QED
        BY <4>1, <4>2
    <3>2. Writer!Insert(s, V)
      BY <1>2, <2>1, <2>4, <3>1 DEF Writer!Insert, Listed
    <3> QED
      BY <2>2, <3>2 DEF Writer!Next, Writer!NoVars, NoVars
  <2> QED
    BY <2>3, <2>4
<1>7. CASE query = "subset"
  <2>1. /\ wmsg' = NoSubset /\ msgs' = Append(Listed, BegunFor(s)) /\ query' \in {"", query}
        /\ UNCHANGED <<out, exporter, template>>
    BY <1>7 DEF InsertData, BegunFor, Listed
  <2>2. msgs' \in Seq(Subsets) /\ msgs' # NoMsgs
    BY <1>1, <1>2, <2>1, LongerTyped
  <2>3. WriterInv'
    BY <1>2, <1>3, <1>4, <1>7, <2>1, <2>2 DEF WriterInv
  <2>4. CASE mode = "r"
    BY <1>2, <2>1, <2>3, <2>4, ReadsWithoutWriting
  <2>5. CASE mode # "r"
    <3>1. Flushed' = NoSubset
      BY <2>1 DEF Flushed
    <3>2. Writer!EndSubset(s)
      BY <1>2, <1>5, <2>1, <2>2, <2>5, <3>1
         DEF Writer!EndSubset, Writer!BreakSubset, Writer!NoVars, NoVars, Listed
    <3> QED
      BY <2>3, <3>2 DEF Writer!Next
  <2> QED
    BY <2>4, <2>5
<1>8. CASE query \notin {"", "subset"}
  <2>1. query \in Templates
    BY <1>2, <1>8
  <2>2. /\ wmsg' = NoSubset /\ exporter' = ExporterFor(query) /\ template' = query
        /\ msgs' = IF ok THEN NoMsgs ELSE Append(Listed, BegunFor(s))
        /\ out' = IF ok THEN Append(out, [template |-> exporter',
                                          subsets |-> Append(Listed, BegunFor(s))]) ELSE out
        /\ query' = IF ok THEN "" ELSE query
        /\ ok => mode = "w"
    BY <1>8, <2>1 DEF InsertData, BegunFor, Listed
  <2>3. exporter' = query
    BY <2>2 DEF ExporterFor, WriterInv
  <2>4. msgs' \in Seq(Subsets) \cup {NoMsgs} /\ (~ok => msgs' # NoMsgs)
    BY <1>1, <1>2, <2>2, LongerTyped
  <2>5. WriterInv'
    <3>1. query' \in Templates \cup {"", "subset"} /\ exporter' = template'
      BY <2>1, <2>2, <2>3
    <3>2. mode' \in {"r", "w"} /\ asked' \in Nat
      BY <1>2 DEF WriterInv
    <3>3. wmsg' = NoSubset /\ msgs' \in Seq(Subsets) \cup {NoMsgs}
      BY <2>2, <2>4
    <3>4. op'.vars \in DataSets /\ IsFiniteSet(DOMAIN op'.vars)
      BY <1>2, <1>4
    <3> QED
      BY <1>3, <3>1, <3>2, <3>3, <3>4 DEF WriterInv
  <2>6. CASE mode = "r"
    BY <1>2, <2>2, <2>5, <2>6, ReadsWithoutWriting
  <2>7. Flushed' = NoSubset
    BY <2>2 DEF Flushed
  <2>8. CASE mode # "r" /\ ok
    <3>1. Writer!EndMessage(s, query)
      BY <1>2, <1>5, <2>2, <2>3, <2>7, <2>8 DEF Writer!EndMessage, Writer!NoVars, NoVars, Listed
    <3> QED
      BY <2>1, <2>5, <3>1 DEF Writer!Next
  <2>9. CASE mode # "r" /\ ~ok
    <3>1. Writer!FailMessage(s, query)
      BY <1>2, <1>5, <2>2, <2>4, <2>7, <2>9
         DEF Writer!FailMessage, Writer!BreakSubset, Writer!NoVars, NoVars, Listed
    <3> QED
      BY <2>1, <2>5, <3>1 DEF Writer!Next
  <2> QED
    BY <2>6, <2>8, <2>9
<1> QED
  BY <1>6, <1>7, <1>8

\* Attributes go to the variable that waits, if there is a subset for it.
LEMMA InsertAttributesWrites ==
    ASSUME OpShape, WriterInv, InsertAttributes
    PROVE  WriterInv' /\ [Writer!Next]_Writer!writerVars
<1>1. /\ op.kind = "insert" /\ Cardinality(DOMAIN op.vars) = 1
      /\ op' = [op EXCEPT !.vars = Annotated]
      /\ qcinput' = {} /\ UNCHANGED <<mode, wmsg, msgs, query, exporter, template, out, asked>>
      /\ mode = "w"
  BY DEF InsertAttributes, writeVars, readVars
<1>2. PICK k : DOMAIN op.vars = {k}
  BY <1>1, FS_Singleton DEF WriterInv
<1>3. op.vars \in DataSets /\ op.vars # NoVars
  <2>1. DOMAIN NoVars = {}
    BY DEF NoVars
  <2> QED
    BY <1>1, <1>2, <2>1 DEF WriterInv
<1>4. PICK D \in SUBSET Contexts : op.vars \in [D -> Variable]
  BY <1>3 DEF DataSets
<1>5. \A j \in D : [op.vars[j] EXCEPT !.attrs = @ \cup qcinput] \in Variable
  BY <1>4 DEF Variable, WriterInv
<1>6. Annotated \in [D -> Variable] /\ DOMAIN Annotated = {k} /\ Annotated # NoVars
  <2>1. Annotated \in [D -> Variable]
    BY <1>4, <1>5 DEF Annotated
  <2>2. DOMAIN NoVars = {}
    BY DEF NoVars
  <2> QED
    BY <1>2, <1>4, <2>1, <2>2
<1>7. op'.kind = "insert" /\ op'.vars = Annotated
  BY <1>1 DEF OpShape
<1>8. WriterInv'
  <2>1. Annotated \in DataSets
    BY <1>6 DEF DataSets
  <2>2. IsFiniteSet(DOMAIN Annotated)
    BY <1>6, FS_Singleton
  <2> QED
    BY <1>1, <1>7, <2>1, <2>2 DEF WriterInv
<1>9. CASE wmsg = NoSubset
  <2>1. Flushed = NoSubset /\ Flushed' = NoSubset
    BY <1>1, <1>9 DEF Flushed
  <2> QED
    BY <1>1, <1>8, <2>1 DEF Writer!writerVars
<1>10. CASE wmsg # NoSubset
  <2>0. wmsg \in Subsets
    BY <1>10 DEF WriterInv
  <2>1. Flushed = [wmsg EXCEPT !.data = Over(op.vars, wmsg.data)]
    BY <1>1, <1>3, <1>10 DEF Flushed
  <2>2. Flushed' = [wmsg EXCEPT !.data = Over(Annotated, wmsg.data)]
    BY <1>1, <1>6, <1>7, <1>10 DEF Flushed
  <2>3. Over(Annotated, wmsg.data)
          = [Over(op.vars, wmsg.data) EXCEPT ![k].attrs = @ \cup qcinput]
    BY <1>2, <1>6 DEF Annotated, Over
  <2>4. Flushed.data = Over(op.vars, wmsg.data) /\ k \in DOMAIN Flushed.data
    BY <1>2, <2>0, <2>1 DEF Subsets, Over
  <2>5. Flushed' = [Flushed EXCEPT !.data = Over(Annotated, wmsg.data)]
    BY <2>0, <2>1, <2>2 DEF Subsets
  <2>6. Flushed' = [Flushed EXCEPT !.data[k].attrs = @ \cup qcinput]
    BY <2>3, <2>4, <2>5
  <2>7. Flushed # NoSubset
    <3>1. Over(op.vars, wmsg.data) \in DataSets
      BY <1>3, <2>0, ExtensionTyped DEF Subsets
    <3>2. Flushed \in Subsets
      BY <2>0, <2>1, <3>1 DEF Subsets
    <3> QED
      BY <3>2, NoSubsetAssumption
  <2>8. Writer!Annotate(k, qcinput)
    BY <1>1, <2>4, <2>6, <2>7 DEF Writer!Annotate
  <2>9. k \in UNION {DOMAIN V : V \in Vars} /\ qcinput \in SUBSET Attrs
    BY <1>2, <1>4 DEF Contexts, WriterInv
  <2> QED
    BY <1>8, <2>8, <2>9 DEF Writer!Next
<1> QED
  BY <1>9, <1>10

\* When the file is closed what waits for the next insert_data goes to its subset,
\* and the subset to the last message; or the program ends, for want of a list only
\* after a query.
LEMMA CloseWrites ==
    ASSUME WriterInv, NEW ok \in BOOLEAN, Close(ok)
    PROVE  WriterInv' /\ [Writer!Next]_Writer!writerVars
<1> DEFINE writes == Flushed # NoSubset /\ msgs # NoMsgs
<1>1. /\ op' = NoOp /\ wmsg' = NoSubset /\ UNCHANGED <<mode, qcinput, query, template, asked>>
      /\ msgs' = IF ~writes THEN msgs ELSE IF ok THEN NoMsgs ELSE Append(msgs, Flushed)
      /\ exporter' = IF writes /\ exporter = NoExporter THEN template ELSE exporter
      /\ out' = IF ok /\ writes
                THEN Append(out, [template |-> exporter', subsets |-> Append(msgs, Flushed)])
                ELSE out
      /\ IF ok THEN Flushed # NoSubset => writes /\ mode = "w" ELSE Flushed # NoSubset
  BY DEF Close, readVars
<1>2. Flushed' = NoSubset
  BY <1>1 DEF Flushed
<1>3. Flushed \in Subsets \cup {NoSubset}
  BY FlushedTyped
<1>4. ~writes \/ ok \/ (msgs' \in Seq(Subsets) /\ msgs' # NoMsgs)
  BY <1>1, <1>3, LongerTyped DEF WriterInv
<1>5. WriterInv'
  <2>1. msgs' \in Seq(Subsets) \cup {NoMsgs}
    BY <1>1, <1>4 DEF WriterInv
  <2>2. exporter' # NoExporter => exporter' = template'
    BY <1>1 DEF WriterInv
  <2> QED
    BY <1>1, <2>1, <2>2 DEF WriterInv, NoOp
<1>6. CASE mode = "r"
  BY <1>1, <1>5, <1>6, ReadsWithoutWriting
<1>7. CASE mode # "r" /\ Flushed = NoSubset
  BY <1>1, <1>2, <1>5, <1>7 DEF Writer!writerVars
<1>8. CASE mode # "r" /\ Flushed # NoSubset /\ msgs = NoMsgs
  <2>1. wmsg # NoSubset
    BY <1>8 DEF Flushed
  <2>2. mode = "w" /\ asked > 0
    BY <1>8, <2>1 DEF WriterInv
  <2>3. Writer!Abort
    BY <1>1, <1>2, <1>8, <2>2 DEF Writer!Abort
  <2> QED
    BY <1>5, <2>3 DEF Writer!Next
<1>9. CASE mode # "r" /\ writes /\ ok
  <2>1. exporter' = template
    BY <1>1, <1>9 DEF WriterInv
  <2>2. Writer!Close
    BY <1>1, <1>2, <1>9, <2>1 DEF Writer!Close
  <2> QED
    BY <1>5, <2>2 DEF Writer!Next
<1>10. CASE mode # "r" /\ writes /\ ~ok
  <2>1. /\ Flushed.station \in Stations /\ Flushed.data \in DataSets
        /\ Flushed = [station |-> Flushed.station, data |-> Flushed.data]
    BY <1>3, <1>10 DEF Subsets
  <2>2. Over(NoVars, Flushed.data) = Flushed.data
    BY <2>1, NoVarsTyped
  <2>3. Writer!Grown(Flushed.station, NoVars) = Flushed
    BY <1>10, <2>1, <2>2 DEF Writer!Grown, Writer!Over, Over, Writer!NoVars, NoVars
  <2>4. Writer!EndSubset(Flushed.station)
    BY <1>1, <1>2, <1>4, <1>10, <2>3
       DEF Writer!EndSubset, Writer!BreakSubset, Writer!NoVars, NoVars
  <2> QED
    BY <1>5, <2>1, <2>4 DEF Writer!Next
<1> QED
  BY <1>6, <1>7, <1>8, <1>9, <1>10

\* Queries end no subset, whatever becomes of those that have been ended.
LEMMA QueryWrites ==
    ASSUME OpShape, WriterInv, NEW kind \in {"stations", "data"}, NEW valid, NEW fails,
           Query(kind, valid, fails)
    PROVE  WriterInv' /\ [Writer!Next]_Writer!writerVars
<1>1. /\ UNCHANGED <<mode, qcinput, query, exporter, template, out>>
      /\ msgs' \in {msgs, <<>>, NoMsgs}
      /\ \/ op' = op /\ wmsg' = wmsg
         \/ wmsg' = Flushed /\ (op' = NoCursor \/ \E m : op' = NewOp(kind, m))
  BY DEF Query
<1>2. IF mode = "w" \/ Empty THEN asked' = asked + 1 ELSE asked' = asked
  BY DEF Query
<1>3. \A m : NewOp(kind, m).kind \in {"stations", "data"}
  BY DEF NewOp, Stationsof, Dataof
<1>4. Flushed' = Flushed
  <2>1. CASE op' = op /\ wmsg' = wmsg
    BY <2>1 DEF Flushed
  <2>2. CASE wmsg' = Flushed /\ op'.kind # "insert"
    BY <2>2 DEF Flushed
  <2> QED
    BY <1>1, <1>3, <2>1, <2>2 DEF NoCursor
<1>5. WriterInv'
  <2>1. msgs' \in Seq(Subsets) \cup {NoMsgs}
    <3>1. <<>> \in Seq(Subsets)
      OBVIOUS
    <3> QED
      BY <1>1, <3>1 DEF WriterInv
  <2>2. wmsg' \in Subsets \cup {NoSubset}
    BY <1>1, FlushedTyped DEF WriterInv
  <2>3. op'.kind = "insert" => op' = op
    BY <1>1, <1>3 DEF NoCursor
  <2>4. asked' \in Nat /\ (mode = "w" => asked' > 0)
    <3>1. asked \in Nat
      BY DEF WriterInv
    <3> QED
      BY <1>2, <3>1
  <2> QED
    BY <1>1, <2>1, <2>2, <2>3, <2>4 DEF WriterInv
<1>6. CASE mode = "r"
  BY <1>1, <1>5, <1>6, ReadsWithoutWriting
<1>7. CASE mode = "w"
  BY <1>1, <1>2, <1>4, <1>5, <1>7 DEF Writer!Ask, Writer!Next
<1> QED
  BY <1>6, <1>7 DEF WriterInv

\* Calls that write nothing leave what is written, and what waits, as it is.
LEMMA WritesNothing ==
    ASSUME WriterInv, UNCHANGED <<mode, wmsg, msgs, exporter, template, out, asked>>,
           query' \in Templates \cup {"", "subset"}, qcinput' \subseteq Attrs,
           op' = op \/ (op'.kind # "insert" /\ op.kind # "insert")
    PROVE  WriterInv' /\ [Writer!Next]_Writer!writerVars
<1>1. WriterInv'
  BY DEF WriterInv
<1>2. Flushed' = Flushed
  BY DEF Flushed
<1> QED
  BY <1>1, <1>2 DEF Writer!writerVars

LEMMA WriterStep ==
    ASSUME OpShape, WriterInv, [Next]_msgVars
    PROVE  WriterInv' /\ [Writer!Next]_Writer!writerVars
<1> USE DEF writeVars, readVars
<1>0. query \in Templates \cup {"", "subset"} /\ qcinput \subseteq Attrs
  BY DEF WriterInv
<1>1. ASSUME NEW valid, NEW fails, NEW kind \in {"stations", "data"}, Query(kind, valid, fails)
      PROVE  WriterInv' /\ [Writer!Next]_Writer!writerVars
  BY <1>1, QueryWrites
<1>2. CASE NextStation
  <2>1. op.kind = "stations" /\ op'.kind # "insert"
    BY <1>2 DEF NextStation, OpShape, NoOp
  <2> QED
    BY <1>0, <1>2, <2>1, WritesNothing DEF NextStation
<1>3. CASE NextData
  <2>1. op.kind = "data" /\ op'.kind # "insert"
    BY <1>3 DEF NextData, OpShape
  <2> QED
    BY <1>0, <1>3, <2>1, WritesNothing DEF NextData
<1>4. CASE QueryAttributes
  BY <1>0, <1>4, WritesNothing DEF QueryAttributes
<1>5. ASSUME NEW s \in Stations, NEW V \in Vars \cup {NoVars}, NEW ok \in BOOLEAN,
             InsertData(s, V, ok)
      PROVE  WriterInv' /\ [Writer!Next]_Writer!writerVars
  BY <1>5, InsertDataWrites
<1>6. ASSUME NEW q \in Templates \cup {"", "subset"}, SetQuery(q)
      PROVE  WriterInv' /\ [Writer!Next]_Writer!writerVars
  BY <1>0, <1>6, WritesNothing DEF SetQuery
<1>7. ASSUME NEW a \in Attrs, SetAttribute(a)
      PROVE  WriterInv' /\ [Writer!Next]_Writer!writerVars
  BY <1>0, <1>7, WritesNothing DEF SetAttribute
<1>8. CASE InsertAttributes
  BY <1>8, InsertAttributesWrites
<1>9. ASSUME NEW ok \in BOOLEAN, Close(ok)
      PROVE  WriterInv' /\ [Writer!Next]_Writer!writerVars
  BY <1>9, CloseWrites
<1>10. CASE UNCHANGED msgVars
  BY <1>0, <1>10, WritesNothing DEF msgVars
<1> QED
  BY <1>1, <1>2, <1>3, <1>4, <1>5, <1>6, <1>7, <1>8, <1>9, <1>10
     DEF Next, QueryStations, QueryData

LEMMA WriterInit == Init => WriterInv /\ Writer!Init
<1> SUFFICES ASSUME Init PROVE WriterInv /\ Writer!Init
  OBVIOUS
<1>1. op.kind = "none" /\ wmsg = NoSubset
  BY DEF Init, NoOp
<1>2. mode \in {"r", "w"}
  BY ModesAssumption DEF Init
<1> QED
  BY <1>1, <1>2 DEF Init, WriterInv, Writer!Init, Flushed, AutoTemplate

\* A session that writes does what MessageWriter promises: variables go to the
\* subset that was begun last, although they wait in the operation for the next
\* insert_data and for their attributes, and each message to the file under the
\* template named for it, although the exporter is kept (msgapi.cc:369-387, 477-497), also
\* after messages that cannot be encoded. Subsets that were ended are lost to queries
\* only, which nothing keeps a program from making while it writes (msgapi.cc:405-420),
\* and the variables given in the call that ends a subset to that call (184-266). A
\* session that reads leaves its file alone, although insert_data does not refuse
\* (490-492).
THEOREM WritesAsPromised == Spec => ImplementsWriter
<1>1. OpShape /\ WriterInv /\ [Next]_msgVars
        => OpShape' /\ WriterInv' /\ [Writer!Next]_Writer!writerVars
  BY OpNext, WriterStep
<1> QED
  BY <1>1, OpInit, WriterInit, PTL DEF Spec, ImplementsWriter, Writer!Spec

----------------------------------------------------------------------------
(* RowsInMemory and AttrsOfRow                                             *)

\* There is a message of the file in the list unless there is a reason why not, and
\* none when the file is being written.
ReaderShape ==
    /\ reader \in [pos : Nat, held : BOOLEAN, idx : Nat, flags : SUBSET Flags]
    /\ ~reader.held => reader.flags \cap {"blank", "eof"} # {}
    /\ reader.held => msgs # NoMsgs
    /\ mode = "w" => bulletins = <<>> /\ reader.pos = 0 /\ ~reader.held

\* The inductive invariant: the two properties, and what they rest on.
SessionInv == OpShape /\ WriterInv /\ ReaderShape /\ RowsInMemory /\ AttrsOfRow

\* Moving to the next message keeps the shape of the reader: a message is held, or
\* its flags say that the file has ended or a bulletin has been passed over.
LEMMA ReadNextShape ==
    ASSUME ReaderShape, NEW fails
    PROVE  LET r == ReadNext(reader, fails) IN
           /\ r \in [pos : Nat, held : BOOLEAN, idx : Nat, flags : SUBSET Flags]
           /\ ~r.held => r.flags \cap {"blank", "eof"} # {}
           /\ mode = "w" => r.pos = 0 /\ ~r.held
<1>1. CASE "eof" \in reader.flags
  BY <1>1 DEF ReadNext, ReaderShape
<1>2. CASE "eof" \notin reader.flags /\ HasMore(reader)
  BY <1>2 DEF ReadNext, ReaderShape
<1>3. CASE "eof" \notin reader.flags /\ ~HasMore(reader)
  <2>1. ReadNext(reader, fails) = NextBulletin(reader, fails)
    BY <1>3 DEF ReadNext
  <2>2. NextBulletin(reader, fails) \in
            [pos : Nat, held : BOOLEAN, idx : Nat, flags : SUBSET Flags]
    BY DEF NextBulletin, ReaderShape, Flags
  <2>3. ~NextBulletin(reader, fails).held
          => NextBulletin(reader, fails).flags \cap {"blank", "eof"} # {}
    BY DEF NextBulletin, Exhausted
  <2>4. ASSUME mode = "w"
        PROVE  NextBulletin(reader, fails).pos = 0 /\ ~NextBulletin(reader, fails).held
    <3>1. Exhausted(reader)
      BY <2>4 DEF Exhausted, ReaderShape
    <3> QED
      BY <2>4, <3>1 DEF NextBulletin, ReaderShape
  <2> QED
    BY <2>1, <2>2, <2>3, <2>4
<1> QED
  BY <1>1, <1>2, <1>3

\* A query that is answered is about a message in memory.
LEMMA QueryInv ==
    ASSUME SessionInv, NEW kind \in {"stations", "data"}, NEW valid \in BOOLEAN, NEW fails,
           Query(kind, valid, fails)
    PROVE  ReaderShape' /\ RowsInMemory' /\ AttrsOfRow'
<1> DEFINE reads == reader.flags \cap {"blank", kind} # {}
           turns == reads /\ "eof" \notin reader.flags /\ ~HasMore(reader)
           r == IF reads THEN ReadNext(reader, fails) ELSE reader
           list == IF ~turns THEN msgs ELSE IF r.held THEN <<>> ELSE NoMsgs
           thrown == turns /\ "blank" \in r.flags
           reset == ~thrown /\ "eof" \notin r.flags /\ valid
           found == r.idx < Size(r, list)
<1>1. /\ r \in [pos : Nat, held : BOOLEAN, idx : Nat, flags : SUBSET Flags]
      /\ ~r.held => r.flags \cap {"blank", "eof"} # {}
      /\ mode = "w" => r.pos = 0 /\ ~r.held
  BY ReadNextShape DEF SessionInv, ReaderShape
<1>2. /\ answer' = IF reset /\ found THEN "count"
                   ELSE IF ~thrown /\ ("eof" \in r.flags \/ (reset /\ kind = "data"))
                   THEN "missing" ELSE "error"
      /\ msgs' = list
      /\ mode' = mode /\ bulletins' = bulletins
  BY DEF Query
<1>3. <<>> # NoMsgs
  <2>1. <<>> \in Seq(Subsets)
    OBVIOUS
  <2> QED
    BY <2>1, NoMsgsAssumption
<1>4. r.held => list # NoMsgs
  <2>1. CASE turns
    BY <1>3, <2>1
  <2>2. CASE ~reads
    BY <2>2 DEF SessionInv, ReaderShape
  <2>3. CASE reads /\ HasMore(reader)
    BY <2>3 DEF HasMore
  <2>4. CASE reads /\ "eof" \in reader.flags
    BY <2>4 DEF SessionInv, ReaderShape, ReadNext
  <2> QED
    BY <2>1, <2>2, <2>3, <2>4
<1>5. reset => list # NoMsgs
  <2>1. CASE turns
    BY <1>1, <1>4, <2>1
  <2>2. CASE ~reads
    BY <1>1, <1>4, <2>2
  <2>3. CASE reads /\ HasMore(reader)
    BY <2>3 DEF HasMore
  <2>4. CASE reads /\ "eof" \in reader.flags
    BY <2>4 DEF ReadNext
  <2> QED
    BY <2>1, <2>2, <2>3, <2>4
<1>6. mode = "w" => bulletins' = <<>>
  BY <1>2 DEF SessionInv, ReaderShape
<1>7. CASE reset
  <2>1. /\ reader' = [r EXCEPT !.flags = @ \cup {kind}]
        /\ op' = IF found THEN NewOp(kind, Current(r)) ELSE NoCursor
        /\ qcoutput' = Invalid
    BY <1>7 DEF Query
  <2> HIDE DEF r, list, found
  <2>2. /\ reader'.held = r.held /\ reader'.pos = r.pos /\ reader'.idx = r.idx
        /\ reader'.flags = r.flags \cup {kind}
        /\ reader' \in [pos : Nat, held : BOOLEAN, idx : Nat, flags : SUBSET Flags]
    BY <1>1, <2>1 DEF Flags
  <2>3. ReaderShape'
    BY <1>1, <1>2, <1>4, <1>6, <2>2 DEF ReaderShape
  <2>4. AttrsOfRow'
    BY <2>1 DEF AttrsOfRow
  <2>5. CASE found
    <3>1. op'.kind = "data" => op'.of = Current(r)
      BY <2>1, <2>5 DEF NewOp, Stationsof, Dataof
    <3>2. Size(reader, msgs)' = Size(r, list)
      BY <1>2, <2>2 DEF Size, Decoded
    <3> QED
      BY <1>2, <1>5, <1>7, <2>2, <2>3, <2>4, <2>5, <3>1, <3>2
         DEF RowsInMemory, Current, found
  <2>6. CASE ~found
    BY <2>1, <2>3, <2>4, <2>6 DEF RowsInMemory, NoCursor
  <2> QED
    BY <2>5, <2>6
<1>8. CASE ~reset
  <2>1. reader' = r /\ UNCHANGED <<op, qcoutput>> /\ answer' # "count"
    BY <1>2, <1>8 DEF Query
  <2> HIDE DEF r, list, found
  <2>2. ReaderShape'
    BY <1>1, <1>2, <1>4, <1>6, <2>1 DEF ReaderShape
  <2> QED
    BY <2>1, <2>2 DEF SessionInv, AttrsOfRow, RowsInMemory
<1> QED
  BY <1>7, <1>8

\* What insert_data and the end of the session do to the list leaves the messages
\* read in it.
LEMMA ListStays ==
    ASSUME ReaderShape, UNCHANGED <<mode, bulletins, reader>>,
           mode # "w" => (msgs # NoMsgs => msgs' # NoMsgs)
    PROVE  ReaderShape'
  BY DEF ReaderShape

LEMMA SessionInit == Init => SessionInv
<1> SUFFICES ASSUME Init PROVE SessionInv
  OBVIOUS
<1>1. ReaderShape
  BY DEF Init, ReaderShape, Flags
<1>2. op = [kind |-> "none"] /\ qcoutput = Invalid /\ answer # "count"
  BY DEF Init, NoOp
<1> QED
  BY <1>1, <1>2, OpInit, WriterInit DEF SessionInv, RowsInMemory, AttrsOfRow

LEMMA SessionNext == SessionInv /\ [Next]_msgVars => SessionInv'
<1> SUFFICES ASSUME SessionInv, [Next]_msgVars
             PROVE  ReaderShape' /\ RowsInMemory' /\ AttrsOfRow'
  BY OpNext, WriterStep DEF SessionInv
<1>1. ASSUME NEW valid \in BOOLEAN, NEW fails,
             QueryStations(valid, fails) \/ QueryData(valid, fails)
      PROVE  ReaderShape' /\ RowsInMemory' /\ AttrsOfRow'
  BY <1>1, QueryInv DEF QueryStations, QueryData
<1>2. ASSUME UNCHANGED <<mode, readVars, msgs>>
      PROVE  ReaderShape' /\ UNCHANGED <<bulletins, reader, answer>>
  BY <1>2 DEF SessionInv, ReaderShape, readVars
<1>3. CASE NextStation
  <2>1. ReaderShape'
    BY <1>2, <1>3 DEF NextStation, writeVars
  <2>2. op'.kind # "data"
    BY <1>3 DEF NextStation, SessionInv, OpShape, NoOp
  <2>3. qcoutput' = Invalid
    BY <1>3 DEF NextStation, SessionInv, AttrsOfRow
  <2> QED
    BY <2>1, <2>2, <2>3 DEF RowsInMemory, AttrsOfRow
<1>4. CASE NextData
  <2>1. ReaderShape' /\ UNCHANGED <<bulletins, reader, answer, msgs>>
    BY <1>2, <1>4 DEF NextData, writeVars
  <2>2. op.kind = "data" /\ op'.of = op.of /\ qcoutput' = Invalid
    BY <1>4 DEF NextData, SessionInv, OpShape
  <2> QED
    BY <2>1, <2>2 DEF SessionInv, RowsInMemory, AttrsOfRow, Size, Decoded
<1>5. CASE QueryAttributes
  <2>1. ReaderShape' /\ UNCHANGED <<bulletins, reader, answer, msgs>>
    BY <1>2, <1>5 DEF QueryAttributes, writeVars
  <2> QED
    BY <1>5, <2>1 DEF QueryAttributes, SessionInv, RowsInMemory, AttrsOfRow, Size, Decoded
<1>6. ASSUME NEW s \in Stations, NEW V \in Vars \cup {NoVars}, NEW ok \in BOOLEAN,
             InsertData(s, V, ok)
      PROVE  ReaderShape' /\ RowsInMemory' /\ AttrsOfRow'
  <2>1. op' = Insertof(V) /\ qcoutput' = Invalid /\ UNCHANGED <<mode, bulletins, reader>>
    BY <1>6 DEF InsertData, readVars
  <2>2. WriterInv /\ ReaderShape
    BY DEF SessionInv
  <2>3. BegunFor(s) \in Subsets /\ Listed \in Seq(Subsets)
    BY <2>2, BegunTyped, ListedTyped
  <2>4. mode # "w" => msgs' # NoMsgs
    <3>1. \/ msgs' = Listed
          \/ msgs' = Append(Listed, BegunFor(s))
          \/ mode = "w"
      <4>1. query \notin {"", "subset"} => query \in Templates
        BY <2>2 DEF WriterInv
      <4> QED
        BY <1>6, <4>1 DEF InsertData, Listed, BegunFor
    <3> QED
      BY <2>2, <2>3, <3>1, ListedTyped, LongerTyped
  <2>5. ReaderShape'
    BY <2>1, <2>2, <2>4, ListStays
  <2> QED
    BY <2>1, <2>5 DEF RowsInMemory, AttrsOfRow, Insertof
<1>7. ASSUME NEW ok \in BOOLEAN, Close(ok)
      PROVE  ReaderShape' /\ RowsInMemory' /\ AttrsOfRow'
  <2>1. op' = NoOp /\ qcoutput' = Invalid /\ UNCHANGED <<mode, bulletins, reader>>
    BY <1>7 DEF Close, readVars
  <2>2. WriterInv /\ ReaderShape
    BY DEF SessionInv
  <2>3. Flushed \in Subsets \cup {NoSubset} /\ msgs \in Seq(Subsets) \cup {NoMsgs}
    BY <2>2, FlushedTyped DEF WriterInv
  <2>4. \/ msgs' = msgs \/ mode = "w"
        \/ msgs # NoMsgs /\ Flushed # NoSubset /\ msgs' = Append(msgs, Flushed)
    BY <1>7 DEF Close
  <2>5. mode # "w" => (msgs # NoMsgs => msgs' # NoMsgs)
    BY <2>3, <2>4, LongerTyped
  <2>6. ReaderShape'
    BY <2>1, <2>2, <2>5, ListStays
  <2> QED
    BY <2>1, <2>6 DEF RowsInMemory, AttrsOfRow, NoOp
<1>8. CASE InsertAttributes
  <2>1. ReaderShape'
    BY <1>2, <1>8 DEF InsertAttributes, writeVars
  <2>2. op.kind = "insert" /\ op'.kind = "insert" /\ qcoutput' = qcoutput
    <3>1. PICK V : op' = [op EXCEPT !.vars = V]
      BY <1>8 DEF InsertAttributes
    <3> QED
      BY <1>8, <3>1 DEF InsertAttributes, SessionInv, OpShape
  <2> QED
    BY <2>1, <2>2 DEF SessionInv, RowsInMemory, AttrsOfRow
<1>9. ASSUME UNCHANGED <<mode, op, qcoutput, readVars, msgs>>
      PROVE  ReaderShape' /\ RowsInMemory' /\ AttrsOfRow'
  <2>1. ReaderShape' /\ UNCHANGED <<bulletins, reader, answer>>
    BY <1>2, <1>9
  <2> QED
    BY <1>9, <2>1 DEF SessionInv, RowsInMemory, AttrsOfRow, Size, Decoded
<1>10. ASSUME NEW q, SetQuery(q)
       PROVE  ReaderShape' /\ RowsInMemory' /\ AttrsOfRow'
  BY <1>9, <1>10 DEF SetQuery
<1>11. ASSUME NEW a, SetAttribute(a)
       PROVE  ReaderShape' /\ RowsInMemory' /\ AttrsOfRow'
  BY <1>9, <1>11 DEF SetAttribute, writeVars
<1>12. CASE UNCHANGED msgVars
  BY <1>9, <1>12 DEF msgVars, writeVars
<1> QED
  BY <1>1, <1>3, <1>4, <1>5, <1>6, <1>7, <1>8, <1>10, <1>11, <1>12 DEF Next

\* The rows that next_data walks are never of a message that the session has let
\* go (msgapi.cc:410-420), whatever the file holds, and however queries that are
\* refused or that end the file, and subsets inserted, come between.
THEOREM RowsStayInMemory == Spec => []RowsInMemory
<1>1. SessionInv => RowsInMemory
  BY DEF SessionInv
<1> QED
  BY <1>1, SessionInit, SessionNext, PTL DEF Spec

\* The attributes that enq reads are always those of the row that next_data has
\* just returned (msgapi.cc:135-147, commonapi.cc), for any sequence of calls.
THEOREM AttrsStayOfRow == Spec => []AttrsOfRow
<1>1. SessionInv => AttrsOfRow
  BY DEF SessionInv
<1> QED
  BY <1>1, SessionInit, SessionNext, PTL DEF Spec

----------------------------------------------------------------------------
(* SkipsNothing                                                            *)

\* Bulletins are sequences of messages, or broken.
FileShape ==
    /\ bulletins \in Seq({bulletins[i] : i \in DOMAIN bulletins})
    /\ \A i \in DOMAIN bulletins :
          bulletins[i] = Broken \/ (bulletins[i] \in Seq(Nat) /\ Len(bulletins[i]) > 0)

Seen == refused \cup {shown[i][2] : i \in 1..Len(shown)}

\* The one in memory is not broken, and the program has been shown, or refused, all
\* messages that the reader has come to, or left behind.
Reached(m) ==
    m[1] < reader.pos \/ (m[1] = reader.pos /\ (reader.held => m[2] <= reader.idx))

PositionInv ==
    /\ reader.pos <= Len(bulletins)
    /\ reader.held => /\ reader.pos > 0 /\ bulletins[reader.pos] # Broken
                      /\ reader.flags \cap {"blank", "eof"} = {}
    /\ "eof" \in reader.flags => reader.pos = Len(bulletins)
    /\ \A m \in Messages : Reached(m) => m \in Seen

\* What was shown last has been reached, and if it is in memory the kind of the
\* query is in the flags, so that the next query of the kind moves on.
ShownInv ==
    /\ shown \in Seq({"stations", "data"} \X (Nat \X Nat))
    /\ shown # <<>> =>
          LET last == shown[Len(shown)] IN
          /\ Reached(last[2])
          /\ reader.held /\ last[2] = Current(reader) => last[1] \in reader.flags

OneKind == \A i, j \in 1..Len(shown) : shown[i][1] = shown[j][1]
InOrder == \A i \in 1..Len(shown) - 1 : Before(shown[i][2], shown[i + 1][2])

ReadingInv ==
    /\ FileShape /\ PositionInv /\ ShownInv
    /\ OneKind => InOrder

----------------------------------------------------------------------------
\* The messages of the file, one by one.
LEMMA MessageElements ==
    ASSUME FileShape
    PROVE  \A m : m \in Messages <=>
              \E b \in 1..Len(bulletins), n \in Nat :
                 m = <<b, n>> /\ bulletins[b] # Broken /\ n < Len(bulletins[b])
<1>1. \A b \in 1..Len(bulletins) : bulletins[b] # Broken => Len(bulletins[b]) \in Nat
  BY DEF FileShape
<1>2. ASSUME NEW m, m \in Messages
      PROVE  \E b \in 1..Len(bulletins), n \in Nat :
                 m = <<b, n>> /\ bulletins[b] # Broken /\ n < Len(bulletins[b])
  <2>1. PICK b \in 1..Len(bulletins) :
           bulletins[b] # Broken /\ m \in {<<b, n>> : n \in 0..Len(bulletins[b]) - 1}
    BY <1>2 DEF Messages
  <2>2. PICK n \in 0..Len(bulletins[b]) - 1 : m = <<b, n>>
    BY <2>1
  <2> QED
    BY <1>1, <2>1, <2>2
<1>3. ASSUME NEW b \in 1..Len(bulletins), NEW n \in Nat,
             bulletins[b] # Broken, n < Len(bulletins[b])
      PROVE  <<b, n>> \in Messages
  <2>1. n \in 0..Len(bulletins[b]) - 1
    BY <1>1, <1>3
  <2> QED
    BY <1>3, <2>1 DEF Messages
<1> QED
  BY <1>2, <1>3

\* What moving on does to what is reached: nothing more when a broken bulletin is
\* passed or the file ends, and the message in memory otherwise.
LEMMA ReadNextReaches ==
    ASSUME WriterInv, ReaderShape, FileShape, PositionInv,
           NEW fails, NEW r, r = ReadNext(reader, fails)
    PROVE  /\ r.pos <= Len(bulletins)
           /\ r.held => /\ r.pos > 0 /\ bulletins[r.pos] # Broken
                        /\ r.flags \cap {"blank", "eof"} = {}
           /\ "eof" \in r.flags => r.pos = Len(bulletins)
           /\ \A m \in Messages :
                 (m[1] < r.pos \/ (m[1] = r.pos /\ (r.held => m[2] <= r.idx)))
                    => Reached(m) \/ (OfFile(r) /\ m = Current(r))
           /\ \A m \in Nat \X Nat :
                 Reached(m) => (m[1] < r.pos \/ (m[1] = r.pos /\ (r.held => m[2] < r.idx)))
                                  \/ ~r.held
           /\ \A m \in Nat \X Nat :
                 Reached(m) => (m[1] < r.pos \/ (m[1] = r.pos /\ (r.held => m[2] <= r.idx)))
<1> USE DEF Reached
<1>0. /\ reader.pos \in Nat /\ reader.idx \in Nat /\ reader.held \in BOOLEAN
      /\ Len(bulletins) \in Nat
      /\ \A b \in 1..Len(bulletins) : bulletins[b] # Broken => Len(bulletins[b]) \in Nat \ {0}
  BY DEF ReaderShape, FileShape
<1>1. CASE "eof" \in reader.flags
  BY <1>0, <1>1 DEF ReadNext, PositionInv, ReaderShape
<1> DEFINE more == HasMore(reader)
<1>2. CASE "eof" \notin reader.flags /\ more
  <2>1. r = [reader EXCEPT !.idx = @ + 1]
    BY <1>2 DEF ReadNext
  <2> HIDE DEF more
  <2>2. /\ r.pos = reader.pos /\ r.idx = reader.idx + 1 /\ r.held = reader.held
        /\ r.flags = reader.flags
    BY <2>1 DEF ReaderShape
  <2>3. \A m \in Messages :
           /\ m[1] \in Nat /\ m[2] \in Nat /\ m = <<m[1], m[2]>>
           /\ m[2] < Len(bulletins[m[1]])
    BY <1>0, MessageElements
  <2>4. ASSUME NEW m \in Messages, m[1] = r.pos, r.held, m[2] = r.idx
        PROVE  OfFile(r) /\ m = Current(r)
    BY <2>3, <2>4 DEF OfFile, Decoded, Current
  <2>5. ASSUME NEW m \in Messages,
               m[1] < r.pos \/ (m[1] = r.pos /\ (r.held => m[2] <= r.idx))
        PROVE  Reached(m) \/ (OfFile(r) /\ m = Current(r))
    <3>1. CASE m[1] = r.pos /\ r.held /\ m[2] = r.idx
      BY <2>4, <3>1
    <3>2. CASE ~(m[1] = r.pos /\ r.held /\ m[2] = r.idx)
      BY <1>0, <2>2, <2>3, <2>5, <3>2
    <3> QED
      BY <3>1, <3>2
  <2> QED
    BY <1>0, <2>2, <2>5 DEF PositionInv
<1>3. CASE "eof" \notin reader.flags /\ ~more
  <2>1. r = NextBulletin(reader, fails)
    BY <1>3 DEF ReadNext
  <2>2. \A m \in Messages :
           /\ m[1] \in 1..Len(bulletins) /\ m[2] \in Nat /\ m = <<m[1], m[2]>>
           /\ bulletins[m[1]] # Broken /\ m[2] < Len(bulletins[m[1]])
    BY MessageElements
  <2>3. \A m \in Messages : m[1] = reader.pos => Reached(m)
    <3>1. CASE reader.held
      <4>1. /\ msgs # NoMsgs /\ Len(msgs) \in Nat /\ reader.pos \in 1..Len(bulletins)
            /\ Decoded(reader) = Len(bulletins[reader.pos])
            /\ Len(bulletins[reader.pos]) \in Nat \ {0}
        <5>1. msgs # NoMsgs /\ Len(msgs) \in Nat
          <6>1. \A S : msgs \in Seq(S) => Len(msgs) \in Nat
            OBVIOUS
          <6>2. msgs # NoMsgs /\ msgs \in Seq(Subsets)
            BY <3>1 DEF ReaderShape, WriterInv
          <6> QED
            BY <6>1, <6>2
        <5>2. reader.pos \in 1..Len(bulletins) /\ bulletins[reader.pos] # Broken
          BY <1>0, <3>1 DEF PositionInv
        <5> QED
          BY <1>0, <3>1, <5>1, <5>2 DEF Decoded
      <4>2. Size(reader, msgs) = Len(bulletins[reader.pos]) + Len(msgs)
        BY <4>1 DEF Size
      <4>3. ~(reader.idx + 1 < Len(bulletins[reader.pos]) + Len(msgs))
        BY <1>3, <4>1, <4>2 DEF HasMore
      <4> QED
        BY <1>0, <2>2, <3>1, <4>1, <4>3
    <3>2. CASE ~reader.held
      BY <3>2
    <3> QED
      BY <3>1, <3>2
  <2> HIDE DEF more
  <2>4. CASE Exhausted(reader)
    <3> DEFINE g == IF fails THEN {"blank"} ELSE {"eof"}
    <3>1. /\ reader.pos = Len(bulletins)
          /\ r = [pos |-> reader.pos, held |-> FALSE, idx |-> 0, flags |-> g]
      BY <2>1, <2>4 DEF NextBulletin, Exhausted
    <3> HIDE DEF g
    <3>2. r.pos = reader.pos /\ ~r.held /\ reader.pos = Len(bulletins)
      BY <3>1
    <3> QED
      BY <1>0, <2>2, <2>3, <3>2 DEF PositionInv
  <2>5. CASE ~Exhausted(reader)
    <3>1. /\ r.pos = reader.pos + 1 /\ r.idx = 0 /\ r.pos \in 1..Len(bulletins)
          /\ r.held <=> bulletins[r.pos] # Broken
          /\ r.flags = IF bulletins[r.pos] = Broken THEN {"blank"} ELSE {}
      <4> DEFINE h == bulletins[reader.pos + 1] # Broken
                 f == IF bulletins[reader.pos + 1] = Broken THEN {"blank"} ELSE {}
      <4>1. /\ reader.pos # Len(bulletins)
            /\ r = [pos |-> reader.pos + 1, held |-> h, idx |-> 0, flags |-> f]
        BY <2>1, <2>5 DEF NextBulletin, Exhausted
      <4>2. reader.pos + 1 \in 1..Len(bulletins)
        BY <1>0, <4>1 DEF PositionInv
      <4> HIDE DEF h, f
      <4>3. r.pos = reader.pos + 1 /\ r.idx = 0 /\ r.held = h /\ r.flags = f
        BY <4>1
      <4> QED
        BY <4>2, <4>3 DEF h, f
    <3>2. \A m \in Messages : m[1] < r.pos => Reached(m)
      BY <1>0, <2>2, <2>3, <3>1
    <3>3. \A m \in Messages : (m[1] = r.pos /\ (r.held => m[2] <= r.idx)) => OfFile(r) /\ m = Current(r)
      BY <2>2, <3>1 DEF Current, OfFile, Decoded
    <3> QED
      BY <1>0, <3>1, <3>2, <3>3
  <2> QED
    BY <2>4, <2>5
<1> QED
  BY <1>1, <1>2, <1>3

\* A query keeps its place in the file: what it is answered with comes after what
\* queries of its kind were answered with before, and nothing lies in between.
LEMMA QueryReads ==
    ASSUME WriterInv, ReaderShape, ReaderShape', ReadingInv, NEW kind \in {"stations", "data"}, NEW valid \in BOOLEAN,
           NEW fails, Query(kind, valid, fails)
    PROVE  ReadingInv'
<1> DEFINE reads == reader.flags \cap {"blank", kind} # {}
           turns == reads /\ "eof" \notin reader.flags /\ ~HasMore(reader)
           r == IF reads THEN ReadNext(reader, fails) ELSE reader
           thrown == turns /\ "blank" \in r.flags
           reset == ~thrown /\ "eof" \notin r.flags /\ valid
           shows == reset /\ OfFile(r)
<1>1. /\ ReaderShape /\ FileShape /\ PositionInv /\ ShownInv
      /\ OneKind => InOrder
      /\ bulletins' = bulletins
  BY DEF ReadingInv, Query
<1>2. /\ r \in [pos : Nat, held : BOOLEAN, idx : Nat, flags : SUBSET Flags]
      /\ ~r.held => r.flags \cap {"blank", "eof"} # {}
  BY <1>1, ReadNextShape DEF ReaderShape
<1>3. Len(bulletins) \in Nat /\ Len(shown) \in Nat
  BY <1>1 DEF FileShape, ShownInv
<1>4. \A m \in Messages : m \in Nat \X Nat /\ m = <<m[1], m[2]>>
  BY <1>1, <1>3, MessageElements
<1>5. /\ r.pos <= Len(bulletins)
      /\ r.held => /\ r.pos > 0 /\ bulletins[r.pos] # Broken
                   /\ r.flags \cap {"blank", "eof"} = {}
      /\ "eof" \in r.flags => r.pos = Len(bulletins)
      /\ \A m \in Messages :
            (m[1] < r.pos \/ (m[1] = r.pos /\ (r.held => m[2] <= r.idx)))
               => Reached(m) \/ (OfFile(r) /\ m = Current(r))
      /\ \A m \in Nat \X Nat :
            Reached(m) => (m[1] < r.pos \/ (m[1] = r.pos /\ (r.held => m[2] <= r.idx)))
  <2>1. CASE reads
    <3> HIDE DEF reads
    <3>1. r = ReadNext(reader, fails)
      BY <2>1
    <3> QED
      BY <1>1, <3>1, ReadNextReaches
  <2>2. CASE ~reads
    BY <1>1, <2>2 DEF PositionInv, Reached
  <2> QED
    BY <2>1, <2>2
<1>6. /\ reader'.pos = r.pos /\ reader'.held = r.held /\ reader'.idx = r.idx
      /\ reader'.flags = IF reset THEN r.flags \cup {kind} ELSE r.flags
      /\ reader' \in [pos : Nat, held : BOOLEAN, idx : Nat, flags : SUBSET Flags]
  <2>1. reader' = IF reset THEN [r EXCEPT !.flags = @ \cup {kind}] ELSE r
    BY DEF Query
  <2> HIDE DEF r, reset
  <2> QED
    BY <1>2, <2>1 DEF Flags
<1>7. \A m : Reached(m)' <=> (m[1] < r.pos \/ (m[1] = r.pos /\ (r.held => m[2] <= r.idx)))
  BY <1>6 DEF Reached
<1>8. r.held <=> "blank" \notin r.flags /\ "eof" \notin r.flags
  BY <1>2, <1>5
<1>9. /\ shown' = IF shows THEN Append(shown, <<kind, Current(r)>>) ELSE shown
      /\ refused' = IF ~valid /\ OfFile(r) THEN refused \cup {Current(r)} ELSE refused
  BY DEF Query
<1>10. /\ OfFile(r) => r.held
       /\ shows <=> OfFile(r) /\ valid
       /\ shows => reset
  <2>1. OfFile(r) => r.held
    BY <1>2 DEF OfFile, Decoded
  <2> QED
    BY <1>8, <2>1
<1>11. Current(r) \in Nat \X Nat /\ Current(r)[1] = r.pos /\ Current(r)[2] = r.idx
  BY <1>2 DEF Current
<1>13. FileShape'
  BY <1>1 DEF FileShape
<1>14. (Messages = Messages') /\ (Current(reader)' = Current(r))
  BY <1>1, <1>6 DEF Messages, Current
<1> HIDE DEF r, reset, shows
<1>15. /\ shown' \in Seq({"stations", "data"} \X (Nat \X Nat))
       /\ shows =>
             /\ Len(shown') = Len(shown) + 1
             /\ \A i \in 1..Len(shown) : shown'[i] = shown[i]
             /\ shown'[Len(shown) + 1] = <<kind, Current(r)>>
  BY <1>1, <1>9, <1>11 DEF ShownInv
<1>16. Seen \subseteq Seen' /\ (OfFile(r) => Current(r) \in Seen')
  <2>1. CASE shows
    <3>1. Seen \subseteq Seen'
      BY <1>3, <1>9, <1>15, <2>1 DEF Seen
    <3>2. Len(shown) + 1 \in 1..Len(shown') /\ shown'[Len(shown) + 1][2] = Current(r)
      BY <1>3, <1>15, <2>1
    <3>3. Current(r) \in Seen'
      BY <3>2 DEF Seen
    <3> QED
      BY <3>1, <3>3
  <2>2. CASE ~shows
    BY <1>9, <1>10, <2>2 DEF Seen
  <2> QED
    BY <2>1, <2>2
<1>17. PositionInv'
  <2>1. reader'.held => reader'.flags \cap {"blank", "eof"} = {}
    BY <1>2, <1>5, <1>6
  <2>2. "eof" \in reader'.flags => "eof" \in r.flags
    BY <1>2, <1>6
  <2>3. \A m \in Messages' : Reached(m)' => m \in Seen'
    BY <1>1, <1>5, <1>7, <1>14, <1>16 DEF PositionInv
  <2> QED
    BY <1>1, <1>5, <1>6, <2>1, <2>2, <2>3 DEF PositionInv
<1>18. ShownInv'
  <2>1. CASE shows
    <3>1. shown'[Len(shown')] = <<kind, Current(r)>>
      BY <1>15, <2>1
    <3>2. kind \in reader'.flags
      BY <1>6, <1>10, <2>1
    <3>3. \A k, m : <<k, m>>[1] = k /\ <<k, m>>[2] = m
      OBVIOUS
    <3>4. shown'[Len(shown')][1] = kind /\ shown'[Len(shown')][2] = Current(r)
      BY <3>1, <3>3
    <3>5. Reached(shown[Len(shown)][2])'
      BY <1>2, <1>6, <1>11, <3>4 DEF Reached
    <3> QED
      BY <1>15, <3>2, <3>4, <3>5 DEF ShownInv
  <2>2. CASE ~shows /\ shown # <<>>
    <3> DEFINE seen == shown[Len(shown)]
    <3>1. shown' = shown /\ r.flags \subseteq reader'.flags
      BY <1>6, <1>9, <2>2
    <3>2. seen \in {"stations", "data"} \X (Nat \X Nat)
      BY <1>1, <2>2 DEF ShownInv
    <3>3. seen[2] \in Nat \X Nat /\ Reached(seen[2])
      BY <1>1, <2>2, <3>2 DEF ShownInv
    <3>4. Reached(shown[Len(shown)][2])'
      <4>1. seen[2][1] < r.pos \/ (seen[2][1] = r.pos /\ (r.held => seen[2][2] <= r.idx))
        BY <1>5, <3>3
      <4> QED
        BY <1>6, <3>1, <4>1 DEF Reached
    <3>5. r.held /\ seen[2] = Current(r) => seen[1] \in r.flags
      <4>1. CASE reads
        BY <1>1, <1>11, <3>3, <4>1, ReadNextReaches DEF r
      <4>2. CASE ~reads
        BY <1>1, <2>2, <4>2 DEF r, ShownInv
      <4> QED
        BY <4>1, <4>2
    <3> QED
      BY <1>6, <1>14, <1>15, <3>1, <3>4, <3>5 DEF ShownInv
  <2>3. CASE ~shows /\ shown = <<>>
    BY <1>9, <1>15, <2>3 DEF ShownInv
  <2> QED
    BY <2>1, <2>2, <2>3
<1>19. OneKind' => InOrder'
  <2>1. CASE shows /\ shown # <<>>
    <3> DEFINE seen == shown[Len(shown)]
    <3> SUFFICES ASSUME OneKind' PROVE InOrder'
      OBVIOUS
    <3>1. Len(shown) \in 1..Len(shown) /\ seen \in {"stations", "data"} \X (Nat \X Nat)
      BY <1>1, <1>3, <2>1 DEF ShownInv
    <3>2. OneKind
      <4>1. \A i \in 1..Len(shown) : i \in 1..Len(shown') /\ shown'[i] = shown[i]
        BY <1>3, <1>15, <2>1
      <4> QED
        BY <4>1 DEF OneKind
    <3>3. seen[1] = kind
      <4>1. Len(shown) \in 1..Len(shown') /\ Len(shown') \in 1..Len(shown')
        BY <1>3, <1>15, <2>1, <3>1
      <4>2. shown'[Len(shown)][1] = shown'[Len(shown')][1]
        BY <4>1 DEF OneKind
      <4>3. shown'[Len(shown)] = seen /\ shown'[Len(shown')] = <<kind, Current(r)>>
        BY <1>15, <2>1, <3>1
      <4> QED
        BY <4>2, <4>3
    <3>4. seen[2] \in Nat \X Nat /\ Reached(seen[2])
      BY <1>1, <2>1, <3>1 DEF ShownInv
    <3>5. Before(seen[2], Current(r))
      <4>1. CASE reads
        <5>1. r = ReadNext(reader, fails)
          BY <4>1 DEF r
        <5>2. seen[2][1] < r.pos \/ (seen[2][1] = r.pos /\ seen[2][2] < r.idx)
          BY <1>1, <1>10, <2>1, <3>4, <5>1, ReadNextReaches
        <5> QED
          BY <1>11, <5>2 DEF Before
      <4>2. CASE ~reads
        <5>1. r = reader /\ reader.held /\ kind \notin reader.flags
          BY <1>10, <2>1, <4>2 DEF r
        <5>2. seen[2] # Current(reader)
          BY <1>1, <2>1, <3>3, <5>1 DEF ShownInv
        <5>3. seen[2] = <<seen[2][1], seen[2][2]>>
          BY <3>4
        <5>4. seen[2][1] < r.pos \/ (seen[2][1] = r.pos /\ seen[2][2] < r.idx)
          BY <1>2, <3>4, <5>1, <5>2, <5>3 DEF Reached, Current
        <5> QED
          BY <1>11, <5>4 DEF Before
      <4> QED
        BY <4>1, <4>2
    <3>6. \A i \in 1..Len(shown) - 1 : Before(shown[i][2], shown[i + 1][2])
      BY <1>1, <3>2 DEF InOrder
    <3>7. ASSUME NEW i \in 1..Len(shown') - 1
          PROVE  Before(shown'[i][2], shown'[i + 1][2])
      <4>1. CASE i < Len(shown)
        <5>1. i \in Nat /\ i >= 1
          BY <1>3, <1>15, <2>1, <3>7
        <5>2. i \in 1..Len(shown) - 1 /\ i \in 1..Len(shown) /\ i + 1 \in 1..Len(shown)
          BY <1>3, <4>1, <5>1
        <5>3. shown'[i] = shown[i] /\ shown'[i + 1] = shown[i + 1]
          BY <1>15, <2>1, <5>2
        <5> QED
          BY <3>6, <5>2, <5>3
      <4>2. CASE i = Len(shown)
        <5>1. shown'[i] = seen /\ shown'[i + 1] = <<kind, Current(r)>>
          BY <1>15, <2>1, <3>1, <4>2
        <5> QED
          BY <3>5, <5>1
      <4> QED
        BY <1>3, <1>15, <2>1, <3>7, <4>1, <4>2
    <3> QED
      BY <3>7 DEF InOrder
  <2>2. CASE shows /\ shown = <<>>
    <3>1. Len(shown') = 1
      BY <1>15, <2>2
    <3> QED
      BY <3>1 DEF InOrder
  <2>3. CASE ~shows
    BY <1>1, <1>9, <2>3 DEF OneKind, InOrder
  <2> QED
    BY <2>1, <2>2, <2>3
<1> QED
  BY <1>13, <1>17, <1>18, <1>19 DEF ReadingInv

\* Whatever calls the program makes, it is left where it was in the file by those
\* that do not read.
LEMMA ReadingStays ==
    ASSUME ReadingInv, UNCHANGED <<bulletins, reader, shown, refused>>
    PROVE  ReadingInv'
<1>1. FileShape'
  BY DEF ReadingInv, FileShape
<1>2. PositionInv' /\ ShownInv'
  BY DEF ReadingInv, PositionInv, ShownInv, Messages, Reached, Seen, Current
<1>3. OneKind' => InOrder'
  BY DEF ReadingInv, OneKind, InOrder
<1> QED
  BY <1>1, <1>2, <1>3 DEF ReadingInv

LEMMA ReadingInit == Init => ReadingInv
<1> SUFFICES ASSUME Init PROVE ReadingInv
  OBVIOUS
<1>2. FileShape
  <2>1. CASE bulletins \in Files
    BY <2>1, FilesAssumption DEF FileShape
  <2>2. CASE bulletins = <<>>
    <3>1. DOMAIN bulletins = {} /\ bulletins \in Seq({bulletins[i] : i \in DOMAIN bulletins})
      BY <2>2
    <3> QED
      BY <3>1 DEF FileShape
  <2> QED
    BY <2>1, <2>2 DEF Init
<1>3. Len(bulletins) \in Nat
  BY <1>2 DEF FileShape
<1>4. shown = <<>> /\ reader.pos = 0 /\ ~reader.held /\ reader.flags = {"blank"}
  BY DEF Init
<1>5. \A m \in Messages : ~Reached(m)
  BY <1>2, <1>4, MessageElements DEF Reached
<1>6. PositionInv /\ ShownInv
  BY <1>3, <1>4, <1>5 DEF PositionInv, ShownInv
<1>7. InOrder
  BY <1>4 DEF InOrder
<1> QED
  BY <1>2, <1>6, <1>7 DEF ReadingInv

LEMMA ReadingNext == SessionInv /\ SessionInv' /\ ReadingInv /\ [Next]_msgVars => ReadingInv'
<1> SUFFICES ASSUME WriterInv, ReaderShape, ReaderShape', ReadingInv, [Next]_msgVars
             PROVE  ReadingInv'
  BY DEF SessionInv
<1>1. ASSUME NEW valid \in BOOLEAN, NEW fails,
             QueryStations(valid, fails) \/ QueryData(valid, fails)
      PROVE  ReadingInv'
  BY <1>1, QueryReads DEF QueryStations, QueryData
<1>2. CASE NextStation \/ NextData \/ QueryAttributes \/ InsertAttributes
  BY <1>2, ReadingStays DEF NextStation, NextData, QueryAttributes, InsertAttributes, readVars
<1>3. ASSUME NEW s, NEW V, NEW ok, InsertData(s, V, ok)
      PROVE  ReadingInv'
  BY <1>3, ReadingStays DEF InsertData, readVars
<1>4. ASSUME NEW q, SetQuery(q)
      PROVE  ReadingInv'
  BY <1>4, ReadingStays DEF SetQuery, readVars
<1>5. ASSUME NEW a, SetAttribute(a)
      PROVE  ReadingInv'
  BY <1>5, ReadingStays DEF SetAttribute, readVars
<1>6. ASSUME NEW ok, Close(ok)
      PROVE  ReadingInv'
  BY <1>6, ReadingStays DEF Close, readVars
<1>7. CASE UNCHANGED msgVars
  BY <1>7, ReadingStays DEF msgVars, readVars
<1> QED
  BY <1>1, <1>2, <1>3, <1>4, <1>5, <1>6, <1>7 DEF Next

\* A program that reads with queries of one kind is shown every message of the
\* file once and in order, however many bulletins are broken or hold more than
\* one message (readNextMessage, msgapi.cc:398-421), and whatever it inserts into
\* the list that they are read from, and misses none but those that it came to with
\* a query that was refused.
THEOREM ShowsEachMessage == Spec => []SkipsNothing
<1>1. SessionInv /\ ReadingInv => SkipsNothing
  <2> SUFFICES ASSUME SessionInv, ReadingInv, OneKind
               PROVE  /\ InOrder
                      /\ \A m \in Messages :
                            ("eof" \in reader.flags
                               \/ (Len(shown) > 0 /\ Before(m, shown[Len(shown)][2])))
                                 => m \in Seen
    BY Zenon DEF SkipsNothing, OneKind, InOrder, Seen
  <2>1. ReaderShape /\ FileShape /\ PositionInv /\ ShownInv /\ InOrder
    BY DEF ReadingInv, SessionInv
  <2>2. Len(bulletins) \in Nat /\ Len(shown) \in Nat
    BY <2>1 DEF FileShape, ShownInv
  <2>3. ASSUME NEW m \in Messages, "eof" \in reader.flags
        PROVE  m \in Seen
    <3>1. m[1] \in 1..Len(bulletins)
      BY <2>1, MessageElements
    <3>2. ~reader.held /\ reader.pos = Len(bulletins)
      BY <2>1, <2>3 DEF PositionInv
    <3>3. Reached(m)
      BY <2>2, <3>1, <3>2 DEF Reached
    <3> QED
      BY <2>1, <3>3 DEF PositionInv
  <2>4. ASSUME NEW m \in Messages, Len(shown) > 0, Before(m, shown[Len(shown)][2])
        PROVE  m \in Seen
    <3> DEFINE n == shown[Len(shown)][2]
    <3>1. m[1] \in Nat /\ m[2] \in Nat
      BY <2>1, <2>2, MessageElements
    <3>2. shown # <<>> /\ shown[Len(shown)] \in {"stations", "data"} \X (Nat \X Nat)
      BY <2>1, <2>2, <2>4 DEF ShownInv
    <3>3. n \in Nat \X Nat /\ Reached(n)
      BY <2>1, <3>2 DEF ShownInv
    <3>4. Reached(m)
      BY <2>1, <2>4, <3>1, <3>3 DEF Before, Reached, ReaderShape
    <3> QED
      BY <2>1, <3>4 DEF PositionInv
  <2> QED
    BY <2>1, <2>3, <2>4
<1> QED
  BY <1>1, SessionInit, SessionNext, ReadingInit, ReadingNext, PTL DEF Spec
=============================================================================
