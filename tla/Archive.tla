------------------------------ MODULE Archive ------------------------------
(***************************************************************************)
(* What a transaction promises: an archive of values, each in the slot of  *)
(* its station, context, level and code.  There are no row ids and no      *)
(* caches here.  The archive of the code has one peculiarity that must be  *)
(* part of the promise: what a refused call had already queued is not      *)
(* dropped, and the next accepted call writes it.                          *)
(***************************************************************************)
EXTENDS Integers

CONSTANTS
    StationKeys,   \* identities of stations
    NoStation,     \* no station has values queued
    InsertCalls,   \* what may be inserted: [key, values]
    ImportCalls,   \* what may be imported: [key, svalues, values, complete]
    StationCtx,    \* the context of station values
    Garbage        \* a value that is no longer there when it is written

VARIABLES
    stations,      \* the stations in the archive
    content,       \* its values: [key, ctx, lt, code, val, attr]
    left,          \* queued values and their station: [key, values]
    keep,          \* attributes are written with the values
    open,          \* a transaction is open
    before         \* stations and content when it was opened

avars == <<stations, content, left, keep, open, before>>

SameSlot(x, y) == /\ x.key = y.key /\ x.ctx = y.ctx
                  /\ x.lt = y.lt /\ x.code = y.code

Put(C, X) == {c \in C : \A x \in X : ~SameSlot(c, x)} \cup X

Nothing == [key |-> NoStation, values |-> {}]

Now == [stations |-> stations, content |-> content, left |-> left,
        keep |-> keep]

Becomes(a) ==
    /\ open
    /\ stations' = a.stations /\ content' = a.content
    /\ left' = a.left /\ keep' = a.keep
    /\ UNCHANGED <<open, before>>

\* Write what is queued, and the station it is queued for.
Flush(a) ==
    IF a.left.key = NoStation THEN a
    ELSE [a EXCEPT !.stations = @ \cup {a.left.key},
                   !.content = Put(@, {[x EXCEPT !.attr = @ /\ a.keep] :
                                         x \in a.left.values}),
                   !.left.values = {}]

\* Queue values of a station, after writing those of another one.
Switch(a, k) == IF a.left.key = k THEN a
                ELSE [Flush(a) EXCEPT !.left = [key |-> k, values |-> {}]]

Free(a, X) == {x \in X : \A c \in a.content : ~SameSlot(c, x)}

Queue(a, X) == [a EXCEPT !.left.values = Put(@, X)]

\* A refused call leaves its values queued; they may be gone when written.
LeaveBehind(a) ==
    \/ Becomes(a)
    \/ Becomes([a EXCEPT !.left.values = {[x EXCEPT !.val = Garbage] : x \in @}])

----------------------------------------------------------------------------

\* All the values of the call are written, over those of their slots.
Replace(c) == Becomes(Flush(Queue(Switch(Now, c.key), c.values)))

\* All the values of the call are written: their slots were free.
AddNew(c) == LET a == Switch(Now, c.key) IN
             /\ Free(a, c.values) = c.values
             /\ Becomes(Flush(Queue(a, c.values)))

\* Some slot is taken: the call stops, having queued values for free ones.
Refuse(c) == LET a == Switch(Now, c.key) IN
             /\ Free(a, c.values) # c.values
             /\ \E X \in SUBSET Free(a, c.values) : LeaveBehind(Queue(a, X))

\* The station is unknown, or the call is malformed.
RefuseStation == \/ LeaveBehind(Now)
                 \/ \E k \in StationKeys : LeaveBehind(Switch(Now, k))

Keeping(a, b) == IF a.keep = b THEN a
                 ELSE [a EXCEPT !.keep = b, !.left = Nothing]

QueueMessage(a, m, over, update) ==
    LET b == Switch(a, m.key)
        X == m.values \cup (IF update \/ m.key \notin b.stations
                            THEN m.svalues ELSE {})
    IN  Queue(b, IF over THEN X ELSE Free(b, X))

Complete == {m \in ImportCalls : m.complete}

Import(m, over, update, b) ==
    Becomes(Flush(QueueMessage(Keeping(Now, b), m, over, update)))

ImportTwo(m, n, over, update, b) ==
    Becomes(Flush(QueueMessage(QueueMessage(Keeping(Now, b), m, over, update),
                               n, over, update)))

\* The (only, first or second) message imported lacks coordinates, or has data
\* but no datetime; then what it holds for the station may be queued.
RefuseImport(over, update, b) ==
    LET a == Keeping(Now, b)
        after == {a} \cup {QueueMessage(a, m, over, update) : m \in Complete}
        part == {[n EXCEPT !.values = {}] : n \in ImportCalls}
    IN  \E q \in after : \/ LeaveBehind(q)
                         \/ \E n \in part :
                              LeaveBehind(QueueMessage(q, n, over, update))

Remove == /\ open
          /\ content' \subseteq content
          /\ left' = Nothing
          /\ UNCHANGED <<stations, keep, open, before>>

RemoveAll == Becomes([Now EXCEPT !.stations = {}, !.content = {},
                                 !.left = Nothing])

\* Attributes of one value are replaced.
ChangeAttrs ==
    /\ open
    /\ \E c \in content, b \in BOOLEAN :
          content' = Put(content, {[c EXCEPT !.attr = b]})
    /\ UNCHANGED <<stations, left, keep, open, before>>

Open == /\ ~open /\ open' = TRUE
        /\ before' = [stations |-> stations, content |-> content]
        /\ left' = Nothing /\ keep' = TRUE
        /\ UNCHANGED <<stations, content>>

Commit == /\ open /\ open' = FALSE
          /\ before' = [stations |-> stations, content |-> content]
          /\ left' = Nothing
          /\ UNCHANGED <<stations, content, keep>>

Rollback == /\ open /\ open' = FALSE
            /\ stations' = before.stations /\ content' = before.content
            /\ left' = Nothing
            /\ UNCHANGED <<keep, before>>

\* Stations without measured values go, with their station values.
Vacuum ==
    LET live == {c.key : c \in {x \in content : x.ctx # StationCtx}} IN
    /\ ~open
    /\ stations' = stations \cap live
    /\ content' = {c \in content : c.key \in live}
    /\ before' = [stations |-> stations', content |-> content']
    /\ UNCHANGED <<left, keep, open>>

Init == /\ stations = {} /\ content = {} /\ left = Nothing /\ keep = TRUE
        /\ open = FALSE
        /\ before = [stations |-> {}, content |-> {}]

Next ==
    \/ RefuseStation
    \/ \E c \in InsertCalls : Replace(c) \/ AddNew(c) \/ Refuse(c)
    \/ Remove \/ RemoveAll \/ ChangeAttrs
    \/ Open \/ Commit \/ Rollback \/ Vacuum
    \/ \E over, update, b \in BOOLEAN :
          \/ \E m \in Complete :
                \/ Import(m, over, update, b)
                \/ \E n \in Complete : ImportTwo(m, n, over, update, b)
          \/ RefuseImport(over, update, b)

Spec == Init /\ [][Next]_avars

=============================================================================
