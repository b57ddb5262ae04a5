-------------------------- MODULE MsgSessionProps --------------------------
(* What a program may count on when it reads or writes a file of messages. *)
EXTENDS MsgSession

Writer == INSTANCE MessageWriter WITH
    file <- out,
    message <- IF mode = "r" \/ msgs = NoMsgs THEN <<>> ELSE msgs,
    subset <- IF mode = "r" THEN NoSubset ELSE Flushed,
    template <- IF mode = "r" THEN AutoTemplate ELSE template,
    queries <- IF mode = "r" THEN 0 ELSE asked

\* A session that writes writes what MessageWriter promises, although the variables
\* of each insert_data wait in its operation for the next one, for their attributes,
\* and the exporter is kept from one message to the next: what it has taken is lost
\* to nothing but a query, which goes through the same list as if it had been read.
\* A session that reads writes nothing, whatever it inserts.
ImplementsWriter == Writer!Spec

Messages ==
    UNION {{<<b, n>> : n \in 0..Len(bulletins[b]) - 1} :
              b \in {i \in 1..Len(bulletins) : bulletins[i] # Broken}}
Before(m, n) == m[1] < n[1] \/ (m[1] = n[1] /\ m[2] < n[2])

\* A program that only calls query_data, or only query_stations, is shown each
\* message once and in the order of the file, whatever bulletins they are in,
\* however many between them are broken, and whatever it inserts into the list that
\* they are read from; at the end of the file it has seen all but those that it
\* reached with a query that was refused.
SkipsNothing ==
    LET N == Len(shown)
        seen == refused \cup {shown[i][2] : i \in 1..N}
    IN  (\A i, j \in 1..N : shown[i][1] = shown[j][1]) =>
           /\ \A i \in 1..N - 1 : Before(shown[i][2], shown[i + 1][2])
           /\ \A m \in Messages :
                 ("eof" \in reader.flags \/ (N > 0 /\ Before(m, shown[N][2]))) => m \in seen

\* The rows that next_data goes through are in a message, read or written, that is
\* in memory, as long as the last query was answered with a count: when it was not,
\* they are iterators into messages that are gone.
RowsInMemory ==
    answer = "count" /\ op.kind = "data" =>
       /\ op.of[1] = reader.pos
       /\ msgs # NoMsgs /\ op.of[2] < Size(reader, msgs)

\* The attributes that can be read with enq are those of the row that next_data
\* returned last, of the message that was queried last.
AttrsOfRow ==
    qcoutput # Invalid => op.kind = "data" /\ qcoutput = <<op.of, op.row>>

\* A program that goes on reading gets to the end of the file, past what cannot
\* be decoded, unless it has called insert_data when no message was in memory: the
\* list is empty then, and queries for data say for ever that there is no more.
ReachesEnd == mode = "r" ~> ("eof" \in reader.flags \/ life # "open" \/ Empty)
=============================================================================
