-------------------------- MODULE ConnectionsProofs --------------------------
(***************************************************************************)
(* Theorems about Connections: any number of programs, calls, stations and *)
(* levels.                                                                 *)
(***************************************************************************)
EXTENDS ConnectionsProps, SequenceTheorems, FiniteSetTheorems, TLAPS

Tbl == {"station", "levtr", "data"}
RefTbl == {"station", "levtr"}   \* those that values refer to

Tx == [state : {"idle", "open", "aborted"}, by : {"nobody", "program", "vacuum"},
       snap : TableSet, view : TableSet]

TablesTyped == db \in TableSet /\ tx \in [Conns -> Tx]

(* The tables of the server and of the transactions                        *)

Copies == {db} \cup {tx[c].snap : c \in Conns} \cup {tx[c].view : c \in Conns}

\* What two versions of a row have in common.
Kin(t, x, y) == IF t = "data" THEN x.st = y.st /\ x.lt = y.lt ELSE x = y

\* An id names one row, in all copies of a table.
Named ==
    \A D, E \in Copies : \A t \in Tbl : \A x \in D[t], y \in E[t] :
        x.id = y.id => Kin(t, x, y)

\* A copy has one version of each value.
Keyed == \A D \in Copies : \A x, y \in D.data : x.id = y.id => x = y

\* Nobody else has the rows that a transaction has inserted.
Fresh ==
    \A c \in Conns : \A t \in Tbl : \A x \in Inserted(c, t) :
        /\ x.id \notin IdsIn(db[t])
        /\ \A o \in Conns \ {c} : x.id \notin IdsIn(tx[o].snap[t]) \cup IdsIn(tx[o].view[t])

\* Two transactions do not change or remove the same row.
Locked ==
    \A c \in Conns : \A o \in Conns \ {c} : \A t \in Tbl :
        Touched(c, t) \cap Touched(o, t) = {}

\* A row that a transaction has changed or removed is on the database as it was
\* in its snapshot.
Held ==
    \A c \in Conns : \A t \in Tbl : \A x \in tx[c].snap[t] :
        x.id \in Touched(c, t) => x \in db[t]

\* Nothing refers to a row that a transaction has removed.
Unreferred ==
    \A c \in Conns : \A t \in RefTbl : \A x \in Removed(c, t) :
        /\ \A d \in tx[c].view.data : ~Refers(t, d, x)
        /\ \A d \in db.data : Refers(t, d, x) => d.id \in Touched(c, "data")
        /\ \A o \in Conns \ {c} : \A d \in Inserted(o, "data") : ~Refers(t, d, x)

\* The station and the level of a value inserted are still there.
Rooted ==
    \A c \in Conns : \A d \in Inserted(c, "data") : \A t \in RefTbl :
        \E x \in db[t] \cup Inserted(c, t) : Refers(t, d, x)

\* Only open transactions have changes.
Quiet == \A c \in Conns : tx[c].state # "open" => tx[c].view = tx[c].snap

\* What the locks and the checks of the server keep true.
ServerInv == /\ TablesTyped /\ Named /\ Keyed /\ Fresh /\ Locked /\ Held
             /\ Unreferred /\ Rooted /\ Quiet /\ ValuesAreWhole

----------------------------------------------------------------------------
(* Ids                                                                     *)

LEMMA TakenHasAll ==
    ASSUME TablesTyped, NEW D \in Copies
    PROVE  /\ \A t \in Tbl : \A x \in D[t] : x.id \in Taken
           /\ \A d \in D.data : d.ver \in Taken
<1>1. D \in TableSet
  BY DEF Copies, TablesTyped, Tx
<1>2. DOMAIN D = Tbl
  BY <1>1 DEF TableSet, Tbl
<1>3. (\A t \in Tbl : \A x \in D[t] : x.id \in Used(D)) /\ \A d \in D.data : d.ver \in Used(D)
  <2>1. ASSUME NEW t \in Tbl, NEW x \in D[t]
        PROVE  x.id \in Used(D)
    <3>1. x.id \in IdsIn(D[t]) /\ t \in DOMAIN D
      BY <1>2, <2>1 DEF IdsIn
    <3> QED
      BY <3>1 DEF Used
  <2>2. ASSUME NEW d \in D.data
        PROVE  d.ver \in Used(D)
    BY <2>2 DEF Used
  <2> QED
    BY <2>1, <2>2
<1>4. Used(D) \subseteq Taken
  BY DEF Copies, Taken
<1> QED
  BY <1>3, <1>4

LEMMA NewIdIsFree == Room => NewId \in 1..MaxId /\ NewId \notin Taken
  BY DEF Room, NewId

----------------------------------------------------------------------------
(* Steps that change the tables that one transaction sees                  *)

\* Rows of tables W that neither are in V nor replace one of V have ids that are free.
Grows(V, W) ==
    /\ \A t \in Tbl : \A x \in W[t] :
          (\E y \in V[t] : y.id = x.id /\ Kin(t, x, y)) \/ x.id \notin Taken
    /\ \A t \in Tbl : \A x, y \in W[t] : x.id = y.id => Kin(t, x, y)
    /\ \A x, y \in W.data : x.id = y.id => x = y

LEMMA ViewNames ==
    ASSUME ServerInv, NEW c \in Conns, NEW W \in TableSet,
           db' = db, tx' = [tx EXCEPT ![c].view = W], Grows(tx[c].view, W)
    PROVE  TablesTyped' /\ Named' /\ Keyed'
<1>1. TablesTyped'
  BY DEF ServerInv, TablesTyped, Tx
<1>2. Copies' \subseteq Copies \cup {W}
  BY DEF Copies, ServerInv, TablesTyped, Tx
<1>3. tx[c].view \in Copies
  BY DEF Copies
<1>4. ASSUME NEW D \in Copies, NEW t \in Tbl, NEW x \in W[t], NEW y \in D[t], x.id = y.id
      PROVE  Kin(t, x, y) /\ Kin(t, y, x)
  <2>1. x.id \in Taken
    BY <1>4, TakenHasAll DEF ServerInv
  <2>2. PICK z \in tx[c].view[t] : z.id = x.id /\ Kin(t, x, z)
    BY <2>1 DEF Grows
  <2>3. Kin(t, z, y)
    BY <2>2, <1>3, <1>4 DEF ServerInv, Named
  <2> QED
    BY <2>2, <2>3 DEF Kin
<1>5. Named'
  BY <1>2, <1>4 DEF Named, ServerInv, Grows
<1>6. Keyed'
  BY <1>2 DEF Keyed, ServerInv, Grows
<1> QED
  BY <1>1, <1>5, <1>6

\* What a step to view W changes or removes is on the database as in the snapshot,
\* and in the hands of no other transaction; it stays changed.
Seizes(c, W) ==
    \A t \in Tbl : \A x \in tx[c].snap[t] :
        /\ x \in W[t] => x \in tx[c].view[t]
        /\ x \notin W[t] => \/ x.id \in Touched(c, t)
                            \/ /\ x \in db[t]
                               /\ \A o \in Conns \ {c} : x.id \notin Touched(o, t)

\* A row of a snapshot is touched if it is not in the view as it was.
TouchedByView ==
    \A c \in Conns : \A t \in Tbl : \A x \in tx[c].snap[t] :
        x.id \in Touched(c, t) <=> x \notin tx[c].view[t]

LEMMA Touching == Named /\ Keyed => TouchedByView
<1> SUFFICES ASSUME Named, Keyed, NEW c \in Conns, NEW t \in Tbl, NEW x \in tx[c].snap[t]
             PROVE  x.id \in Touched(c, t) <=> x \notin tx[c].view[t]
  BY DEF TouchedByView
<1> DEFINE S == tx[c].snap[t]
           V == tx[c].view[t]
<1>1. \A D \in {tx[c].snap, tx[c].view} : \A y, z \in D[t] : y.id = z.id => y = z
  <2>1. {tx[c].snap, tx[c].view} \subseteq Copies
    BY DEF Copies
  <2>2. CASE t = "data"
    BY <2>1, <2>2 DEF Keyed
  <2>3. CASE t # "data"
    BY <2>1, <2>3 DEF Named, Kin
  <2> QED
    BY <2>2, <2>3
<1>2. (\A y, z \in S : y.id = z.id => y = z) /\ \A y, z \in V : y.id = z.id => y = z
  BY <1>1
<1>3. ASSUME x \in V, NEW y \in Removed(c, t) \cup Changed(c, t), y.id = x.id
      PROVE  FALSE
  BY <1>2, <1>3 DEF Removed, Changed, IdsIn
<1>4. ASSUME x \notin V
      PROVE  \E y \in Removed(c, t) \cup Changed(c, t) : y.id = x.id
  <2>1. CASE x.id \in IdsIn(V)
    BY <1>2, <1>4, <2>1 DEF Changed, IdsIn
  <2>2. CASE x.id \notin IdsIn(V)
    BY <2>2 DEF Removed
  <2> QED
    BY <2>1, <2>2
<1> QED
  BY <1>3, <1>4 DEF Touched, IdsIn

\* Only rows of the snapshot are touched.
LEMMA TouchedInSnap ==
    ASSUME NEW c \in Conns, NEW t \in Tbl, NEW i \in Touched(c, t)
    PROVE  \E x \in tx[c].snap[t] : x.id = i
  BY DEF Touched, Removed, Changed, IdsIn

\* What others have done stays as it is.
LEMMA OthersStay ==
    ASSUME TablesTyped, NEW c \in Conns, NEW W, db' = db, tx' = [tx EXCEPT ![c].view = W]
    PROVE  /\ tx'[c].snap = tx[c].snap /\ tx'[c].view = W
           /\ \A o \in Conns \ {c} : tx'[o] = tx[o]
           /\ \A o \in Conns : tx'[o].state = tx[o].state /\ tx'[o].by = tx[o].by
           /\ \A o \in Conns \ {c}, t \in Tbl :
                 /\ Inserted(o, t)' = Inserted(o, t)
                 /\ Removed(o, t)' = Removed(o, t)
                 /\ Changed(o, t)' = Changed(o, t)
                 /\ Touched(o, t)' = Touched(o, t)
<1>1. /\ tx'[c].snap = tx[c].snap /\ tx'[c].view = W
      /\ \A o \in Conns \ {c} : tx'[o] = tx[o]
      /\ \A o \in Conns : tx'[o].state = tx[o].state /\ tx'[o].by = tx[o].by
  BY DEF TablesTyped, Tx
<1>2. ASSUME NEW o \in Conns \ {c}, NEW t \in Tbl
      PROVE  /\ Inserted(o, t)' = Inserted(o, t)
             /\ Removed(o, t)' = Removed(o, t)
             /\ Changed(o, t)' = Changed(o, t)
  BY <1>1 DEF Inserted, Removed, Changed
<1> QED
  BY <1>1, <1>2 DEF Touched

LEMMA ViewLocks ==
    ASSUME ServerInv, NEW c \in Conns, NEW W \in TableSet, tx[c].state = "open",
           db' = db, tx' = [tx EXCEPT ![c].view = W], Grows(tx[c].view, W), Seizes(c, W)
    PROVE  Fresh' /\ Locked' /\ Held' /\ Quiet'
<1>1. /\ tx'[c].snap = tx[c].snap /\ tx'[c].view = W
      /\ \A o \in Conns \ {c} : tx'[o] = tx[o]
      /\ tx'[c].state = "open"
  BY OthersStay DEF ServerInv
<1>2. \A o \in Conns \ {c}, t \in Tbl :
         Inserted(o, t)' = Inserted(o, t) /\ Touched(o, t)' = Touched(o, t)
  BY OthersStay DEF ServerInv
<1>3. \A x : \A t \in Tbl : x \in tx[c].snap[t] =>
         (x.id \in Touched(c, t)' <=> x \notin W[t])
  <2>1. TouchedByView'
    BY ViewNames, Touching, PTL
  <2> QED
    BY <1>1, <2>1 DEF TouchedByView
<1>4. \A t \in Tbl : \A i \in Touched(c, t)' : \E x \in tx[c].snap[t] : x.id = i
  BY <1>1 DEF Touched, Removed, Changed, IdsIn
<1>5. Fresh'
  <2>1. ASSUME NEW t \in Tbl, NEW x \in Inserted(c, t)'
        PROVE  /\ x.id \notin IdsIn(db[t])
               /\ \A o \in Conns \ {c} :
                     x.id \notin IdsIn(tx[o].snap[t]) \cup IdsIn(tx[o].view[t])
    <3>1. x \in W[t] /\ x.id \notin IdsIn(tx[c].snap[t])
      BY <1>1, <2>1 DEF Inserted
    <3>2. CASE \E y \in tx[c].view[t] : y.id = x.id
      <4>1. PICK y \in tx[c].view[t] : y.id = x.id
        BY <3>2
      <4>2. y \in Inserted(c, t)
        BY <3>1, <4>1 DEF Inserted
      <4> QED
        BY <4>1, <4>2 DEF ServerInv, Fresh
    <3>3. CASE x.id \notin Taken
      <4>1. {db} \cup {tx[o].snap : o \in Conns} \cup {tx[o].view : o \in Conns} \subseteq Copies
        BY DEF Copies
      <4> QED
        BY <3>3, <4>1, TakenHasAll DEF ServerInv, IdsIn
    <3> QED
      BY <3>1, <3>2, <3>3 DEF Grows
  <2>2. ASSUME NEW t \in Tbl, NEW o \in Conns \ {c}, NEW x \in Inserted(o, t)
        PROVE  x.id \notin IdsIn(W[t])
    <3>1. x \in tx[o].view[t] /\ tx[o].view \in Copies
      BY DEF Inserted, Copies
    <3>2. x.id \in Taken
      BY <3>1, TakenHasAll DEF ServerInv
    <3>3. x.id \notin IdsIn(tx[c].view[t])
      BY DEF ServerInv, Fresh
    <3> QED
      BY <3>2, <3>3 DEF Grows, IdsIn
  <2> QED
    BY <1>1, <1>2, <2>1, <2>2 DEF ServerInv, Fresh
<1>6. \A t \in Tbl : \A o \in Conns \ {c} : Touched(c, t)' \cap Touched(o, t) = {}
  <2> SUFFICES ASSUME NEW t \in Tbl, NEW o \in Conns \ {c}, NEW i \in Touched(c, t)', i \in Touched(o, t)
               PROVE  FALSE
    OBVIOUS
  <2>1. PICK x \in tx[c].snap[t] : x.id = i
    BY <1>4
  <2>2. x \notin W[t]
    BY <1>3, <2>1
  <2> QED
    BY <2>1, <2>2 DEF Seizes, ServerInv, Locked
<1>7. Locked'
  BY <1>2, <1>6 DEF ServerInv, Locked
<1>8. Held'
  <2>1. ASSUME NEW t \in Tbl, NEW x \in tx[c].snap[t], x \notin W[t]
        PROVE  x \in db[t]
    BY <2>1 DEF Seizes, ServerInv, Held
  <2> QED
    BY <1>1, <1>2, <1>3, <2>1 DEF ServerInv, Held
<1>9. Quiet'
  BY <1>1 DEF ServerInv, Quiet
<1> QED
  BY <1>5, <1>7, <1>8, <1>9

\* A step to view W removes no row that anybody refers to.
Spares(c, W) ==
    \A t \in RefTbl : \A x \in tx[c].snap[t] : x \notin W[t] =>
        /\ \A d \in W.data : ~Refers(t, d, x)
        /\ x \in tx[c].view[t] =>
              /\ \A d \in db.data : Refers(t, d, x) => d \in tx[c].snap.data /\ d \notin W.data
              /\ \A o \in Conns \ {c} : \A d \in Inserted(o, "data") : ~Refers(t, d, x)

\* The values that view W adds to the snapshot refer to rows that nobody removes.
Roots(c, W) ==
    \A t \in RefTbl : \A d \in W.data : d.id \notin IdsIn(tx[c].snap.data) =>
        /\ \E x \in db[t] \cup {y \in W[t] : y.id \notin IdsIn(tx[c].snap[t])} : Refers(t, d, x)
        /\ \A o \in Conns \ {c} : \A x \in Removed(o, t) : ~Refers(t, d, x)

LEMMA ViewKeys ==
    ASSUME ServerInv, NEW c \in Conns, NEW W \in TableSet,
           db' = db, tx' = [tx EXCEPT ![c].view = W],
           Grows(tx[c].view, W), Seizes(c, W), Spares(c, W), Roots(c, W)
    PROVE  Unreferred' /\ Rooted' /\ ValuesAreWhole'
<1>1. /\ tx'[c].snap = tx[c].snap /\ tx'[c].view = W
      /\ \A o \in Conns \ {c} : tx'[o] = tx[o]
  BY OthersStay DEF ServerInv
<1>2. \A o \in Conns \ {c}, t \in Tbl :
         /\ Inserted(o, t)' = Inserted(o, t) /\ Touched(o, t)' = Touched(o, t)
         /\ Removed(o, t)' = Removed(o, t)
  BY OthersStay DEF ServerInv
<1>3. \A x : \A t \in Tbl : x \in tx[c].snap[t] =>
         (x.id \in Touched(c, t)' <=> x \notin W[t])
  <2>1. TouchedByView'
    BY ViewNames, Touching, PTL
  <2> QED
    BY <1>1, <2>1 DEF TouchedByView
<1>4. \A x : \A t \in Tbl : x \in tx[c].snap[t] =>
         (x.id \in Touched(c, t) <=> x \notin tx[c].view[t])
  BY Touching DEF ServerInv, TouchedByView
<1>5. ASSUME NEW t \in RefTbl, NEW x \in Removed(c, t)'
      PROVE  /\ x \in tx[c].snap[t] /\ x \notin W[t]
             /\ x \notin tx[c].view[t] => x \in Removed(c, t)
  <2>1. x \in tx[c].snap[t] /\ x \notin W[t] /\ t \in Tbl /\ t # "data"
    BY <1>1 DEF Removed, IdsIn, RefTbl, Tbl
  <2>2. ASSUME x \notin tx[c].view[t], NEW y \in tx[c].view[t], y.id = x.id
        PROVE  FALSE
    <3>1. {tx[c].snap, tx[c].view} \subseteq Copies
      BY DEF Copies
    <3> QED
      BY <2>1, <2>2, <3>1 DEF ServerInv, Named, Kin
  <2> QED
    BY <2>1, <2>2 DEF Removed, IdsIn
<1>6. \A i \in Touched(c, "data") : i \in Touched(c, "data")'
  <2> SUFFICES ASSUME NEW i \in Touched(c, "data")
               PROVE  i \in Touched(c, "data")'
    OBVIOUS
  <2>1. PICK x \in tx[c].snap.data : x.id = i
    BY TouchedInSnap DEF Tbl
  <2> QED
    BY <1>3, <1>4, <2>1 DEF Seizes, Tbl
<1>7. Unreferred'
  <2>1. ASSUME NEW t \in RefTbl, NEW x \in Removed(c, t)'
        PROVE  /\ \A d \in W.data : ~Refers(t, d, x)
               /\ \A d \in db.data : Refers(t, d, x) => d.id \in Touched(c, "data")'
               /\ \A o \in Conns \ {c} : \A d \in Inserted(o, "data") : ~Refers(t, d, x)
    <3>1. x \in tx[c].snap[t] /\ x \notin W[t]
      BY <1>5, <2>1
    <3>2. CASE x \in tx[c].view[t]
      BY <1>3, <3>1, <3>2 DEF Spares, Tbl
    <3>3. CASE x \notin tx[c].view[t]
      BY <1>5, <1>6, <2>1, <3>1, <3>3 DEF Spares, ServerInv, Unreferred
    <3> QED
      BY <3>2, <3>3
  <2>2. ASSUME NEW o \in Conns \ {c}, NEW t \in RefTbl, NEW x \in Removed(o, t)
        PROVE  \A d \in Inserted(c, "data")' : ~Refers(t, d, x)
    BY <1>1, <2>2 DEF Roots, Inserted
  <2>3. RefTbl \subseteq Tbl /\ "data" \in Tbl
    BY DEF RefTbl, Tbl
  <2>4. \A o \in Conns \ {c} : \A t \in RefTbl : \A x \in Removed(o, t)' :
           /\ x \in Removed(o, t)
           /\ tx'[o].view.data = tx[o].view.data
           /\ Touched(o, "data")' = Touched(o, "data")
    BY <1>1, <1>2, <2>3
  <2>5. \A o \in Conns \ {c} : \A t \in RefTbl : \A x \in Removed(o, t)' :
           /\ \A d \in tx'[o].view.data : ~Refers(t, d, x)
           /\ \A d \in db'.data : Refers(t, d, x) => d.id \in Touched(o, "data")'
           /\ \A p \in Conns \ {o} : \A d \in Inserted(p, "data")' : ~Refers(t, d, x)
    BY <1>2, <2>2, <2>3, <2>4 DEF ServerInv, Unreferred
  <2> QED
    BY <1>1, <1>2, <2>1, <2>3, <2>5 DEF Unreferred
<1>8. Rooted'
  <2>1. ASSUME NEW d \in Inserted(c, "data")', NEW t \in RefTbl
        PROVE  \E x \in db[t] \cup Inserted(c, t)' : Refers(t, d, x)
    BY <1>1, <2>1 DEF Roots, Inserted
  <2> QED
    BY <1>2, <2>1 DEF ServerInv, Rooted, RefTbl, Tbl
<1>9. ValuesAreWhole'
  BY DEF ServerInv, ValuesAreWhole
<1> QED
  BY <1>7, <1>8, <1>9

LEMMA ViewInv ==
    ASSUME ServerInv, NEW c \in Conns, NEW W \in TableSet, tx[c].state = "open",
           db' = db, tx' = [tx EXCEPT ![c].view = W],
           Grows(tx[c].view, W), Seizes(c, W), Spares(c, W), Roots(c, W)
    PROVE  ServerInv'
  BY ViewNames, ViewLocks, ViewKeys DEF ServerInv

----------------------------------------------------------------------------
(* Statements                                                              *)

\* A statement that waits for nobody meets no lock of another transaction.
Free(c, s) == \A o \in Conns \ {c} : ~Blocks(o, s)

LEMMA NotWaiting ==
    ASSUME ServerInv, NEW c \in Conns, NEW s \in Statements(c), WaitsFor(c) = {},
           s.t \in Tbl
    PROVE  Free(c, s)
<1> SUFFICES ASSUME NEW o \in Conns \ {c}
             PROVE  ~Blocks(o, s)
  BY DEF Free
<1>1. CASE tx[o].state = "open"
  BY <1>1 DEF WaitsFor
<1>2. CASE tx[o].state # "open"
  <2>1. tx[o].view = tx[o].snap
    BY <1>2 DEF ServerInv, Quiet
  <2>2. \A t : Inserted(o, t) = {} /\ Removed(o, t) = {} /\ Touched(o, t) = {}
    BY <2>1 DEF Inserted, Removed, Changed, Touched, IdsIn
  <2> QED
    BY <2>2 DEF Blocks
<1> QED
  BY <1>1, <1>2

\* A row that is not seen any more has been removed.
LEMMA UnseenRemoved ==
    ASSUME ServerInv, NEW c \in Conns, NEW t \in RefTbl,
           NEW x \in tx[c].snap[t], x \notin tx[c].view[t]
    PROVE  x \in Removed(c, t)
<1>1. {tx[c].snap, tx[c].view} \subseteq Copies
  BY DEF Copies
<1>2. \A y \in tx[c].view[t] : y.id # x.id
  BY <1>1 DEF ServerInv, Named, Kin, RefTbl, Tbl
<1> QED
  BY <1>2 DEF Removed, IdsIn

LEMMA InsertKeeps ==
    ASSUME ServerInv, NEW c \in Conns, tx[c].state = "open",
           NEW t \in Tbl, NEW r, r.id \notin Taken,
           NEW s, s = [op |-> "insert", t |-> t, rows |-> {r}], Free(c, s), ~Refused(c, s),
           t = "data" => \A p \in RefTbl : \E y \in tx[c].view[p] : Refers(p, r, y)
    PROVE  LET V == tx[c].view
               W == Executed(V, s)
           IN  Grows(V, W) /\ Seizes(c, W) /\ Spares(c, W) /\ Roots(c, W)
<1> DEFINE V == tx[c].view
           W == Executed(V, s)
<1>1. {db, V, tx[c].snap} \subseteq Copies /\ V \in TableSet
  BY DEF Copies, ServerInv, TablesTyped, Tx
<1>2. \A p \in Tbl : \A x \in V[p] \cup tx[c].snap[p] : x.id \in Taken
  BY <1>1, TakenHasAll DEF ServerInv
<1>3. W = [V EXCEPT ![t] = V[t] \cup {r}]
  <2>1. {x \in V[t] : x.id \notin IdsIn({r})} = V[t]
    BY <1>2 DEF IdsIn
  <2> QED
    BY <2>1 DEF Executed
<1>4. /\ W[t] = V[t] \cup {r}
      /\ \A p \in Tbl \ {t} : W[p] = V[p]
      /\ \A p \in Tbl : V[p] \subseteq W[p]
  BY <1>1, <1>3 DEF TableSet, Tbl
<1>5. /\ \A p \in Tbl : \A x, y \in V[p] : x.id = y.id => Kin(p, x, y)
      /\ \A x, y \in V.data : x.id = y.id => x = y
  BY <1>1 DEF ServerInv, Named, Keyed
<1> HIDE DEF V, W
<1>6. Grows(V, W)
  <2>1. \A p : \A x : Kin(p, x, x)
    BY DEF Kin
  <2>2. \A p \in Tbl : \A x \in W[p] :
           (\E y \in V[p] : y.id = x.id /\ Kin(p, x, y)) \/ x.id \notin Taken
    BY <1>4, <2>1
  <2>3. \A p \in Tbl : \A x, y \in W[p] : x.id = y.id => Kin(p, x, y)
    BY <1>2, <1>4, <1>5, <2>1 DEF V
  <2>4. \A x, y \in W.data : x.id = y.id => x = y
    BY <1>2, <1>4, <1>5 DEF V, Tbl
  <2> QED
    BY <2>2, <2>3, <2>4 DEF Grows
<1>7. Seizes(c, W)
  <2>1. \A p \in Tbl : \A x \in tx[c].snap[p] : x \in W[p] => x \in V[p]
    BY <1>2, <1>4
  <2>2. \A p \in Tbl : \A x \in tx[c].snap[p] : x \notin V[p] => x.id \in Touched(c, p)
    BY Touching DEF ServerInv, TouchedByView, V
  <2> QED
    BY <1>4, <2>1, <2>2 DEF Seizes, V
<1>8. Spares(c, W)
  <2> SUFFICES ASSUME NEW p \in RefTbl, NEW x \in tx[c].snap[p], x \notin W[p]
               PROVE  x \notin V[p] /\ \A d \in W.data : ~Refers(p, d, x)
    BY DEF Spares, V
  <2>1. p \in Tbl /\ p # "data" /\ "data" \in Tbl
    BY DEF RefTbl, Tbl
  <2>2. x \notin V[p]
    BY <1>4, <2>1
  <2>3. x \in Removed(c, p)
    BY <2>2, UnseenRemoved DEF V
  <2>4. \A d \in V.data : ~Refers(p, d, x)
    BY <2>3 DEF ServerInv, Unreferred, V
  <2>5. ASSUME t = "data", Refers(p, r, x)
        PROVE  FALSE
    <3>1. PICK y \in V[p] : Refers(p, r, y)
      BY <2>5 DEF V
    <3>2. y.id = x.id
      BY <2>1, <2>5, <3>1 DEF Refers
    <3>3. Kin(p, y, x)
      BY <1>1, <2>1, <3>1, <3>2 DEF ServerInv, Named, V
    <3> QED
      BY <2>1, <2>2, <3>1, <3>3 DEF Kin
  <2> QED
    BY <1>4, <2>1, <2>2, <2>4, <2>5
<1>9. Roots(c, W)
  <2> SUFFICES ASSUME NEW p \in RefTbl, NEW d \in W.data, d.id \notin IdsIn(tx[c].snap.data)
               PROVE  /\ \E x \in db[p] \cup {y \in W[p] : y.id \notin IdsIn(tx[c].snap[p])} :
                            Refers(p, d, x)
                      /\ \A o \in Conns \ {c} : \A x \in Removed(o, p) : ~Refers(p, d, x)
    BY DEF Roots
  <2>1. p \in Tbl /\ p # "data" /\ "data" \in Tbl
    BY DEF RefTbl, Tbl
  <2>2. Inserted(c, p) \subseteq {y \in W[p] : y.id \notin IdsIn(tx[c].snap[p])}
    BY <1>4, <2>1 DEF Inserted, V
  <2>3. CASE d \in V.data
    <3>1. d \in Inserted(c, "data")
      BY <2>3 DEF Inserted, V
    <3> QED
      BY <2>2, <3>1 DEF ServerInv, Rooted, Unreferred
  <2>4. CASE t = "data" /\ d = r
    <3>1. \E x \in db[p] \cup Inserted(c, p) : Refers(p, d, x)
      BY <2>4 DEF Refused, DanglesIn, RefTbl
    <3>2. \A o \in Conns \ {c} : \A x \in Removed(o, p) : ~Refers(p, d, x)
      BY <2>4 DEF Free, Blocks, RefTbl
    <3> QED
      BY <2>2, <3>1, <3>2
  <2> QED
    BY <1>4, <2>1, <2>3, <2>4
<1> QED
  BY <1>6, <1>7, <1>8, <1>9 DEF V, W


LEMMA UpdateKeeps ==
    ASSUME ServerInv, NEW c \in Conns, tx[c].state = "open",
           NEW R, NEW s, s = [op |-> "update", t |-> "data", rows |-> R],
           \A y \in R : /\ \E z \in tx[c].view.data : z.id = y.id /\ z.st = y.st /\ z.lt = y.lt
                        /\ y.ver \notin Taken,
           \A x, y \in R : x.id = y.id => x = y,
           Free(c, s), ~Refused(c, s)
    PROVE  LET V == tx[c].view
               W == Executed(V, s)
           IN  Grows(V, W) /\ Seizes(c, W) /\ Spares(c, W) /\ Roots(c, W)
<1> DEFINE V == tx[c].view
           W == Executed(V, s)
<1>1. {db, V, tx[c].snap} \subseteq Copies /\ V \in TableSet
  BY DEF Copies, ServerInv, TablesTyped, Tx
<1>2. /\ W.data = {x \in V.data : x.id \notin IdsIn(R)} \cup R
      /\ \A p \in RefTbl : W[p] = V[p]
      /\ RefTbl = Tbl \ {"data"} /\ RefTbl \subseteq Tbl /\ "data" \in Tbl
  BY <1>1 DEF Executed, TableSet, Tbl, RefTbl
<1>3. /\ \A p \in Tbl : \A x, y \in V[p] : x.id = y.id => Kin(p, x, y)
      /\ \A x, y \in V.data : x.id = y.id => x = y
  BY <1>1 DEF ServerInv, Named, Keyed
<1>4. \A y \in R : \E z \in V.data : z.id = y.id /\ z.st = y.st /\ z.lt = y.lt
  OBVIOUS
<1>5. \A p \in Tbl : \A x \in tx[c].snap[p] : x \notin V[p] => x.id \in Touched(c, p)
  BY Touching DEF ServerInv, TouchedByView
<1>6. \A x \in tx[c].snap.data : x \notin R
  BY <1>1, TakenHasAll DEF ServerInv
<1>7. \A y \in R : /\ \A o \in Conns \ {c} : y.id \notin Touched(o, "data")
                   /\ y.id \in IdsIn(tx[c].snap.data) =>
                         \E x \in db.data : x.id = y.id /\ x \in tx[c].snap.data
  BY DEF Free, Blocks, Refused, Lost
<1>8. \A x, y \in tx[c].snap.data : x.id = y.id => x = y
  BY <1>1 DEF ServerInv, Keyed
<1>9. \A t \in RefTbl : \A d \in W.data : \E z \in V.data :
         z.id = d.id /\ \A x : Refers(t, d, x) <=> Refers(t, z, x)
  BY <1>2, <1>4 DEF Refers
<1> HIDE DEF V, W
<1>10. Grows(V, W)
  <2>1. \A p : \A x : Kin(p, x, x)
    BY DEF Kin
  <2>2. \A x \in W.data : \E z \in V.data : z.id = x.id /\ z.st = x.st /\ z.lt = x.lt
    BY <1>2, <1>4
  <2>3. \A p \in Tbl : \A x \in W[p] : \E y \in V[p] : y.id = x.id /\ Kin(p, x, y)
    BY <1>2, <2>1, <2>2 DEF Kin
  <2>4. \A x, y \in W.data : x.id = y.id => x = y
    BY <1>2, <1>3 DEF IdsIn
  <2>5. \A p \in Tbl : \A x, y \in W[p] : x.id = y.id => Kin(p, x, y)
    BY <1>2, <1>3, <2>1, <2>4
  <2> QED
    BY <2>3, <2>4, <2>5 DEF Grows
<1>11. Seizes(c, W)
  <2>1. \A p \in Tbl : \A x \in tx[c].snap[p] : x \in W[p] => x \in V[p]
    BY <1>2, <1>6
  <2>2. ASSUME NEW x \in tx[c].snap.data, x \in V.data, x \notin W.data
        PROVE  x \in db.data /\ \A o \in Conns \ {c} : x.id \notin Touched(o, "data")
    <3>1. PICK y \in R : y.id = x.id
      BY <1>2, <2>2 DEF IdsIn
    <3>2. x.id \in IdsIn(tx[c].snap.data)
      BY DEF IdsIn
    <3> QED
      BY <1>7, <1>8, <3>1, <3>2
  <2>3. \A p \in Tbl : \A x \in tx[c].snap[p] : x \notin W[p] =>
           \/ x.id \in Touched(c, p)
           \/ x \in db[p] /\ \A o \in Conns \ {c} : x.id \notin Touched(o, p)
    BY <1>2, <1>5, <2>2
  <2> QED
    BY <2>1, <2>3 DEF Seizes, V
<1>12. Spares(c, W)
  <2> SUFFICES ASSUME NEW p \in RefTbl, NEW x \in tx[c].snap[p], x \notin W[p]
               PROVE  x \notin V[p] /\ \A d \in W.data : ~Refers(p, d, x)
    BY DEF Spares, V
  <2>1. x \notin V[p]
    BY <1>2
  <2>2. x \in Removed(c, p)
    BY <2>1, UnseenRemoved DEF V
  <2> QED
    BY <1>9, <2>1, <2>2 DEF ServerInv, Unreferred, V
<1>13. Roots(c, W)
  <2> SUFFICES ASSUME NEW p \in RefTbl, NEW d \in W.data, d.id \notin IdsIn(tx[c].snap.data)
               PROVE  /\ \E x \in db[p] \cup {y \in W[p] : y.id \notin IdsIn(tx[c].snap[p])} :
                            Refers(p, d, x)
                      /\ \A o \in Conns \ {c} : \A x \in Removed(o, p) : ~Refers(p, d, x)
    BY DEF Roots
  <2>1. PICK z \in V.data : z.id = d.id /\ \A x : Refers(p, d, x) <=> Refers(p, z, x)
    BY <1>9
  <2>2. z \in Inserted(c, "data")
    BY <2>1 DEF Inserted, V
  <2>3. Inserted(c, p) = {y \in W[p] : y.id \notin IdsIn(tx[c].snap[p])}
    BY <1>2 DEF Inserted, V
  <2> QED
    BY <2>1, <2>2, <2>3 DEF ServerInv, Rooted, Unreferred
<1> QED
  BY <1>10, <1>11, <1>12, <1>13 DEF V, W

LEMMA DeleteKeeps ==
    ASSUME ServerInv, NEW c \in Conns, tx[c].state = "open",
           NEW t \in Tbl, NEW R \in SUBSET tx[c].view[t],
           NEW s, s = [op |-> "delete", t |-> t, rows |-> R],
           \A p \in RefTbl : p = t => R \subseteq Unused(tx[c].view, p),
           Free(c, s), ~Refused(c, s)
    PROVE  LET V == tx[c].view
               W == Executed(V, s)
           IN  Grows(V, W) /\ Seizes(c, W) /\ Spares(c, W) /\ Roots(c, W)
<1> DEFINE V == tx[c].view
           W == Executed(V, s)
<1>1. {db, V, tx[c].snap} \subseteq Copies /\ V \in TableSet
  BY DEF Copies, ServerInv, TablesTyped, Tx
<1>2. /\ W[t] = {x \in V[t] : x.id \notin IdsIn(R)}
      /\ \A p \in Tbl \ {t} : W[p] = V[p]
      /\ \A p \in Tbl : W[p] \subseteq V[p]
      /\ RefTbl \subseteq Tbl /\ "data" \in Tbl /\ "data" \notin RefTbl
  BY <1>1 DEF Executed, TableSet, Tbl, RefTbl
<1>3. \A D, E \in {V, tx[c].snap} : \A p \in Tbl : \A x \in D[p], y \in E[p] :
         x.id = y.id => Kin(p, x, y)
  BY <1>1 DEF ServerInv, Named
<1>4. \A p \in Tbl : \A x \in tx[c].snap[p] : x \notin V[p] => x.id \in Touched(c, p)
  BY Touching DEF ServerInv, TouchedByView
<1>5. \A D \in {V, tx[c].snap} : \A x, y \in D[t] : x.id = y.id => x = y
  BY <1>1 DEF ServerInv, Named, Keyed, Kin
<1>6. \A y \in R : /\ \A o \in Conns \ {c} : y.id \notin Touched(o, t)
                   /\ y.id \in IdsIn(tx[c].snap[t]) =>
                         \E x \in db[t] : x.id = y.id /\ x \in tx[c].snap[t]
  BY DEF Free, Blocks, Refused, Lost
<1>7. /\ \A y \in R : \A d \in db.data : Refers(t, d, y) => d \in tx[c].snap.data
      /\ \A y \in R : \A o \in Conns \ {c} : \A d \in Inserted(o, "data") : ~Refers(t, d, y)
  BY DEF Free, Blocks, Refused
<1>8. \A p \in RefTbl : p = t => \A y \in R : \A d \in V.data : ~Refers(t, d, y)
  BY DEF Unused
<1>9. R \subseteq V[t]
  OBVIOUS
<1> HIDE DEF V, W
<1>10. Grows(V, W)
  <2>1. \A p : \A x : Kin(p, x, x)
    BY DEF Kin
  <2>2. \A x, y \in V.data : x.id = y.id => x = y
    BY <1>1 DEF ServerInv, Keyed
  <2> QED
    BY <1>2, <1>3, <2>1, <2>2 DEF Grows
<1>11. Seizes(c, W)
  <2>1. ASSUME NEW x \in tx[c].snap[t], x \in V[t], x \notin W[t]
        PROVE  x \in db[t] /\ \A o \in Conns \ {c} : x.id \notin Touched(o, t)
    <3>1. PICK y \in R : y.id = x.id
      BY <1>2, <2>1 DEF IdsIn
    <3>2. x.id \in IdsIn(tx[c].snap[t])
      BY DEF IdsIn
    <3> QED
      BY <1>5, <1>6, <3>1, <3>2
  <2>2. \A p \in Tbl : \A x \in tx[c].snap[p] : x \notin W[p] =>
           \/ x.id \in Touched(c, p)
           \/ x \in db[p] /\ \A o \in Conns \ {c} : x.id \notin Touched(o, p)
    BY <1>2, <1>4, <2>1
  <2> QED
    BY <1>2, <2>2 DEF Seizes, V
<1>12. Spares(c, W)
  <2> SUFFICES ASSUME NEW p \in RefTbl, NEW x \in tx[c].snap[p], x \notin W[p]
               PROVE  /\ \A d \in W.data : ~Refers(p, d, x)
                      /\ x \in V[p] =>
                           /\ \A d \in db.data :
                                 Refers(p, d, x) => d \in tx[c].snap.data /\ d \notin W.data
                           /\ \A o \in Conns \ {c} : \A d \in Inserted(o, "data") :
                                 ~Refers(p, d, x)
    BY DEF Spares, V
  <2>1. CASE x \notin V[p]
    <3>1. x \in Removed(c, p)
      BY <2>1, UnseenRemoved DEF V
    <3> QED
      BY <1>2, <2>1, <3>1 DEF ServerInv, Unreferred, V
  <2>2. CASE x \in V[p]
    <3>1. p = t
      BY <1>2, <2>2
    <3>2. PICK y \in R : y.id = x.id
      BY <1>2, <2>2, <3>1 DEF IdsIn
    <3>3. x \in R
      BY <1>5, <1>9, <2>2, <3>1, <3>2
    <3> QED
      BY <1>2, <1>7, <1>8, <3>1, <3>3
  <2> QED
    BY <2>1, <2>2
<1>13. Roots(c, W)
  <2> SUFFICES ASSUME NEW p \in RefTbl, NEW d \in W.data, d.id \notin IdsIn(tx[c].snap.data)
               PROVE  /\ \E x \in db[p] \cup {y \in W[p] : y.id \notin IdsIn(tx[c].snap[p])} :
                            Refers(p, d, x)
                      /\ \A o \in Conns \ {c} : \A x \in Removed(o, p) : ~Refers(p, d, x)
    BY DEF Roots
  <2>1. d \in V.data /\ d \in Inserted(c, "data")
    BY <1>2 DEF Inserted, V
  <2>2. PICK x \in db[p] \cup Inserted(c, p) : Refers(p, d, x)
    BY <2>1 DEF ServerInv, Rooted
  <2>3. ASSUME x \in Inserted(c, p), x \notin W[p]
        PROVE  FALSE
    <3>1. x \in V[p] /\ p = t
      BY <1>2, <2>3 DEF Inserted, V
    <3>2. PICK y \in R : y.id = x.id
      BY <1>2, <2>3, <3>1 DEF IdsIn
    <3> QED
      BY <1>5, <1>8, <1>9, <2>1, <2>2, <3>1, <3>2
  <2> QED
    BY <2>1, <2>2, <2>3 DEF Inserted, ServerInv, Unreferred
<1> QED
  BY <1>10, <1>11, <1>12, <1>13 DEF V, W


----------------------------------------------------------------------------
(* The beginning and the end of transactions                               *)

LEMMA EmptyTyped == Empty \in TableSet /\ \A t \in Tbl : Empty[t] = {}
  BY DEF Empty, TableSet, Tbl

\* A transaction that begins, is aborted, or ends without a commit.
LEMMA ResetKeeps ==
    ASSUME ServerInv, NEW c \in Conns, NEW T \in Tx, T.view = T.snap,
           T.snap \in {db, tx[c].snap, Empty},
           db' = db, tx' = [tx EXCEPT ![c] = T]
    PROVE  ServerInv'
<1>1. /\ tx'[c] = T
      /\ \A o \in Conns \ {c} : tx'[o] = tx[o]
      /\ TablesTyped'
  BY DEF ServerInv, TablesTyped
<1>2. \A t \in Tbl : /\ Inserted(c, t)' = {} /\ Removed(c, t)' = {} /\ Touched(c, t)' = {}
  BY <1>1 DEF Inserted, Removed, Changed, Touched, IdsIn
<1>3. \A o \in Conns \ {c}, t \in Tbl :
         /\ Inserted(o, t)' = Inserted(o, t)
         /\ Removed(o, t)' = Removed(o, t)
         /\ Touched(o, t)' = Touched(o, t)
  BY <1>1 DEF Inserted, Removed, Changed, Touched
<1>4. T.snap \in Copies \cup {Empty}
  BY DEF Copies
<1>5. Copies' \subseteq Copies \cup {Empty}
  BY <1>1, <1>4 DEF Copies
<1>6. Named' /\ Keyed'
  <2>1. \A D \in Copies' : D \in Copies \/ \A t \in Tbl : D[t] = {}
    BY <1>5, EmptyTyped
  <2> QED
    BY <2>1 DEF ServerInv, Named, Keyed, Tbl
<1>7. Fresh'
  <2>1. ASSUME NEW t \in Tbl, NEW o \in Conns \ {c}, NEW x \in Inserted(o, t)
        PROVE  x.id \notin IdsIn(T.snap[t])
    BY <2>1, EmptyTyped DEF ServerInv, Fresh, IdsIn
  <2>2. \A t \in Tbl, o \in Conns \ {c} : \A x \in Inserted(o, t) :
           /\ x.id \notin IdsIn(db[t])
           /\ \A p \in Conns \ {o, c} : x.id \notin IdsIn(tx[p].snap[t]) \cup IdsIn(tx[p].view[t])
    BY DEF ServerInv, Fresh
  <2> QED
    BY <1>1, <1>2, <1>3, <2>1, <2>2 DEF Fresh
<1>8. Locked'
  BY <1>2, <1>3 DEF ServerInv, Locked
<1>9. Held'
  BY <1>1, <1>2, <1>3 DEF ServerInv, Held
<1>10. Unreferred'
  <2>1. ASSUME NEW o \in Conns \ {c}, NEW t \in RefTbl, NEW x \in Removed(o, t)
        PROVE  /\ \A d \in tx[o].view.data : ~Refers(t, d, x)
               /\ \A d \in db.data : Refers(t, d, x) => d.id \in Touched(o, "data")
               /\ \A p \in Conns \ {o} : \A d \in Inserted(p, "data")' : ~Refers(t, d, x)
    BY <1>2, <1>3 DEF ServerInv, Unreferred, Tbl
  <2> QED
    BY <1>1, <1>2, <1>3, <2>1 DEF Unreferred, RefTbl, Tbl
<1>11. Rooted'
  BY <1>2, <1>3 DEF ServerInv, Rooted, RefTbl, Tbl
<1>12. Quiet'
  BY <1>1 DEF ServerInv, Quiet
<1>13. ValuesAreWhole'
  BY DEF ServerInv, ValuesAreWhole
<1> QED
  BY <1>1, <1>6, <1>7, <1>8, <1>9, <1>10, <1>11, <1>12, <1>13 DEF ServerInv

\* A station or level that a transaction has touched is one that it removed.
LEMMA TouchedRemoved ==
    ASSUME ServerInv, NEW c \in Conns, NEW t \in RefTbl, NEW x \in db[t], x.id \in Touched(c, t)
    PROVE  x \in Removed(c, t)
<1>1. t \in Tbl /\ t # "data"
  BY DEF RefTbl, Tbl
<1>2. PICK z \in tx[c].snap[t] : z.id = x.id
  BY <1>1, TouchedInSnap
<1>3. z = x
  <2>1. {db, tx[c].snap} \subseteq Copies
    BY DEF Copies
  <2> QED
    BY <1>1, <1>2, <2>1 DEF ServerInv, Named, Kin
<1>4. x \notin tx[c].view[t]
  BY <1>1, <1>2, <1>3, Touching DEF ServerInv, TouchedByView
<1> QED
  BY <1>2, <1>3, <1>4, UnseenRemoved

LEMMA MergedRows ==
    ASSUME TablesTyped, NEW c \in Conns
    PROVE  /\ Merged(c) \in TableSet
           /\ \A t \in Tbl : Merged(c)[t] =
                {r \in db[t] : r.id \notin Touched(c, t)} \cup Inserted(c, t)
                \cup {r \in Changed(c, t) : r.id \in IdsIn(db[t])}
           /\ \A t \in Tbl : Merged(c)[t] \subseteq db[t] \cup tx[c].view[t]
<1>1. DOMAIN db = Tbl
  BY DEF TablesTyped, TableSet, Tbl
<1>2. \A t \in Tbl : Merged(c)[t] =
         {r \in db[t] : r.id \notin Touched(c, t)} \cup Inserted(c, t)
         \cup {r \in Changed(c, t) : r.id \in IdsIn(db[t])}
  BY <1>1 DEF Merged
<1>3. \A t \in Tbl : Merged(c)[t] \subseteq db[t] \cup tx[c].view[t]
  BY <1>2 DEF Inserted, Changed
<1>4. Merged(c) = [station |-> Merged(c).station, levtr |-> Merged(c).levtr,
                   data |-> Merged(c).data]
  <2>1. Merged(c) = [t \in Tbl |-> Merged(c)[t]]
    BY <1>1 DEF Merged
  <2> HIDE DEF Merged
  <2> QED
    BY <2>1 DEF Tbl
<1>5. db \in TableSet /\ tx[c].view \in TableSet
  BY DEF TablesTyped, Tx
<1>6. Merged(c) \in TableSet
  BY <1>3, <1>4, <1>5 DEF TableSet, Tbl
<1> QED
  BY <1>2, <1>3, <1>6

\* What a commit leaves of values refers to rows that it leaves.
LEMMA MergedIsWhole ==
    ASSUME ServerInv, NEW c \in Conns, NEW t \in RefTbl, NEW d \in Merged(c).data
    PROVE  \E x \in Merged(c)[t] : Refers(t, d, x)
<1>1. t \in Tbl /\ "data" \in Tbl
  BY DEF RefTbl, Tbl
<1>2. \A e \in db.data : \E x \in db[t] : Refers(t, e, x)
  BY DEF ServerInv, ValuesAreWhole, Refers, RefTbl
<1>3. \A x \in db[t] : x \notin Removed(c, t) => x \in Merged(c)[t]
  BY <1>1, TouchedRemoved, MergedRows DEF ServerInv
<1>4. CASE d \in db.data /\ d.id \notin Touched(c, "data")
  <2>1. \A x \in Removed(c, t) : ~Refers(t, d, x)
    BY <1>4 DEF ServerInv, Unreferred
  <2> QED
    BY <1>2, <1>3, <1>4, <2>1
<1>5. CASE d \in tx[c].view.data
  <2>1. \A x \in Removed(c, t) : ~Refers(t, d, x)
    BY <1>5 DEF ServerInv, Unreferred
  <2>2. CASE d \in Inserted(c, "data")
    <3>1. \E x \in db[t] \cup Inserted(c, t) : Refers(t, d, x)
      BY <2>2 DEF ServerInv, Rooted
    <3> QED
      BY <1>1, <1>3, <2>1, <3>1, MergedRows DEF ServerInv
  <2>3. CASE d.id \in IdsIn(db.data)
    <3>1. PICK e \in db.data : e.id = d.id
      BY <2>3 DEF IdsIn
    <3>2. {db, tx[c].view} \subseteq Copies
      BY DEF Copies
    <3>3. Kin("data", e, d)
      BY <1>1, <1>5, <3>1, <3>2 DEF ServerInv, Named
    <3>4. \A x : Refers(t, e, x) <=> Refers(t, d, x)
      BY <3>3 DEF Kin, Refers
    <3> QED
      BY <1>2, <1>3, <2>1, <3>4
  <2>4. CASE d \in db.data
    BY <2>3, <2>4 DEF IdsIn
  <2>5. d \in Inserted(c, "data") \/ d.id \in IdsIn(db.data)
    BY <1>1, <2>4, MergedRows DEF ServerInv, IdsIn
  <2> QED
    BY <2>2, <2>3, <2>5
<1>6. (d \in db.data /\ d.id \notin Touched(c, "data")) \/ d \in tx[c].view.data
  BY <1>1, MergedRows DEF ServerInv, Inserted, Changed
<1> QED
  BY <1>4, <1>5, <1>6

LEMMA CommitKeeps ==
    ASSUME ServerInv, NEW c \in Conns, db' = Merged(c), tx' = [tx EXCEPT ![c] = NoTransaction]
    PROVE  ServerInv'
<1>0. NoTransaction \in Tx
  BY EmptyTyped DEF NoTransaction, Tx
<1>1. /\ tx'[c] = NoTransaction
      /\ \A o \in Conns \ {c} : tx'[o] = tx[o]
      /\ TablesTyped'
  BY <1>0, MergedRows DEF ServerInv, TablesTyped
<1>2. \A t \in Tbl : /\ Inserted(c, t)' = {} /\ Removed(c, t)' = {} /\ Touched(c, t)' = {}
  BY <1>1, EmptyTyped DEF Inserted, Removed, Changed, Touched, IdsIn, NoTransaction
<1>3. \A o \in Conns \ {c}, t \in Tbl :
         /\ Inserted(o, t)' = Inserted(o, t)
         /\ Removed(o, t)' = Removed(o, t)
         /\ Touched(o, t)' = Touched(o, t)
  BY <1>1 DEF Inserted, Removed, Changed, Touched
<1>4. "data" \in Tbl /\ "data" \notin RefTbl /\ RefTbl \subseteq Tbl
  BY DEF Tbl, RefTbl
<1>5. {db, tx[c].view} \subseteq Copies
  BY DEF Copies
<1>6. Copies' \subseteq Copies \cup {Empty, Merged(c)}
  BY <1>1 DEF Copies, NoTransaction
<1>7. Named'
  <2>1. \A D \in Copies' : \A t \in Tbl : \A x \in D[t] : \E E \in Copies : x \in E[t]
    BY <1>5, <1>6, EmptyTyped, MergedRows DEF ServerInv
  <2> QED
    BY <2>1 DEF ServerInv, Named
<1>8. Keyed'
  <2>1. ASSUME NEW x \in Merged(c).data, NEW y \in Merged(c).data, x.id = y.id
        PROVE  x = y
    <3>1. (\A z, w \in db.data : z.id = w.id => z = w)
          /\ \A z, w \in tx[c].view.data : z.id = w.id => z = w
      BY <1>5 DEF ServerInv, Keyed
    <3>2. ASSUME NEW z \in db.data, z.id \notin Touched(c, "data"),
                 NEW w \in Inserted(c, "data") \cup Changed(c, "data"), z.id = w.id
          PROVE  FALSE
      BY <1>4, <3>2 DEF ServerInv, Fresh, Touched, IdsIn
    <3>3. Inserted(c, "data") \cup Changed(c, "data") \subseteq tx[c].view.data
      BY DEF Inserted, Changed
    <3> QED
      BY <1>4, <2>1, <3>1, <3>2, <3>3, MergedRows DEF ServerInv
  <2> QED
    BY <1>4, <1>6, <2>1, EmptyTyped DEF ServerInv, Keyed
<1>9. Fresh'
  <2>1. \A o \in Conns \ {c}, t \in Tbl : \A x \in Inserted(o, t) :
           /\ x.id \notin IdsIn(db[t]) \cup IdsIn(tx[c].view[t])
           /\ \A p \in Conns \ {o, c} : x.id \notin IdsIn(tx[p].snap[t]) \cup IdsIn(tx[p].view[t])
    BY DEF ServerInv, Fresh
  <2>2. \A o \in Conns \ {c}, t \in Tbl : \A x \in Inserted(o, t) :
           x.id \notin IdsIn(Merged(c)[t]) \cup IdsIn(Empty[t])
    BY <2>1, EmptyTyped, MergedRows DEF ServerInv, IdsIn
  <2>3. tx'[c].snap = Empty /\ tx'[c].view = Empty
    BY <1>1 DEF NoTransaction
  <2> QED
    BY <1>1, <1>2, <1>3, <2>1, <2>2, <2>3 DEF Fresh
<1>10. Locked'
  BY <1>2, <1>3 DEF ServerInv, Locked
<1>11. Held'
  <2>1. \A o \in Conns \ {c}, t \in Tbl : \A x \in tx[o].snap[t] :
           x.id \in Touched(o, t) => x \in db[t] /\ x.id \notin Touched(c, t)
    BY DEF ServerInv, Held, Locked
  <2>2. \A o \in Conns \ {c}, t \in Tbl : \A x \in tx[o].snap[t] :
           x.id \in Touched(o, t) => x \in Merged(c)[t]
    BY <2>1, MergedRows DEF ServerInv
  <2> QED
    BY <1>1, <1>2, <1>3, <2>2 DEF Held
<1>12. Unreferred'
  <2>1. ASSUME NEW o \in Conns \ {c}, NEW t \in RefTbl, NEW x \in Removed(o, t),
               NEW d \in Merged(c).data, Refers(t, d, x)
        PROVE  d.id \in Touched(o, "data")
    <3>1. d \notin Inserted(c, "data")
      BY <2>1 DEF ServerInv, Unreferred
    <3>2. CASE d \in db.data
      BY <2>1, <3>2 DEF ServerInv, Unreferred
    <3>3. CASE d \in Changed(c, "data") /\ d.id \in IdsIn(db.data)
      <4>1. PICK e \in db.data : e.id = d.id
        BY <3>3 DEF IdsIn
      <4>2. Kin("data", e, d)
        BY <1>4, <1>5, <3>3, <4>1 DEF ServerInv, Named, Changed
      <4>3. Refers(t, e, x)
        BY <2>1, <4>2 DEF Kin, Refers
      <4> QED
        BY <2>1, <4>1, <4>3 DEF ServerInv, Unreferred
    <3> QED
      BY <1>4, <3>1, <3>2, <3>3, MergedRows DEF ServerInv
  <2>2. \A o \in Conns \ {c}, t \in RefTbl : \A x \in Removed(o, t) :
           /\ \A d \in tx[o].view.data : ~Refers(t, d, x)
           /\ \A p \in Conns \ {o} : \A d \in Inserted(p, "data")' : ~Refers(t, d, x)
    BY <1>2, <1>3, <1>4 DEF ServerInv, Unreferred
  <2> QED
    BY <1>1, <1>2, <1>3, <1>4, <2>1, <2>2 DEF Unreferred
<1>13. Rooted'
  <2>1. ASSUME NEW o \in Conns \ {c}, NEW d \in Inserted(o, "data"), NEW t \in RefTbl
        PROVE  \E x \in Merged(c)[t] \cup Inserted(o, t) : Refers(t, d, x)
    <3>1. PICK x \in db[t] \cup Inserted(o, t) : Refers(t, d, x)
      BY <2>1 DEF ServerInv, Rooted
    <3>2. ASSUME x \in db[t], x.id \in Touched(c, t)
          PROVE  FALSE
      <4>1. x \in Removed(c, t)
        BY <3>2, TouchedRemoved
      <4> QED
        BY <3>1, <4>1 DEF ServerInv, Unreferred
    <3> QED
      BY <1>4, <3>1, <3>2, MergedRows DEF ServerInv
  <2> QED
    BY <1>2, <1>3, <1>4, <2>1 DEF Rooted
<1>14. Quiet'
  BY <1>1 DEF ServerInv, Quiet, NoTransaction
<1>15. ValuesAreWhole'
  <2>1. \A d \in Merged(c).data, t \in RefTbl : \E x \in Merged(c)[t] : Refers(t, d, x)
    BY MergedIsWhole
  <2> QED
    BY <2>1 DEF ValuesAreWhole, Refers, RefTbl
<1> QED
  BY <1>1, <1>7, <1>8, <1>9, <1>10, <1>11, <1>12, <1>13, <1>14, <1>15 DEF ServerInv


----------------------------------------------------------------------------
(* Calls                                                                   *)

LevtrTodos == {<<"levtr", "station", "data">>, <<"levtr", "data">>}
StationTodos == {<<"levtr", "station", "data">>, <<"station", "data">>}
InsertTodos == {<<"levtr", "station", "data">>, <<"levtr", "data">>,
                <<"station", "data">>, <<"data">>}
PendingTodos == {<<"pending", "levtr", "station", "data">>, <<"pending", "levtr", "data">>,
                 <<"pending", "station", "data">>, <<"pending", "data">>}
VacuumTodos == {<<"vacuumLevtr", "vacuumStation">>, <<"vacuumStation">>}

\* What is left of an insert once the station cached before is written.
Rest(a) == IF Head(a.todo) = "pending" THEN Tail(a.todo) ELSE a.todo

\* The station of an insert is the one cached, l, without id if it is to be
\* inserted; the level is there unless it is to be inserted.
InsertShape(a, T, l) ==
    /\ a.kind = "insert" /\ a.todo \in InsertTodos \cup PendingTodos /\ T.by = "program"
    /\ l.key = a.key
    /\ Rest(a) \in StationTodos <=> l.id = MissingId
    /\ Rest(a) \notin LevtrTodos => LevTrRows(T.view, a.lt) # {}

\* Call a, under way in transaction T with l in its batch.
CallShape(a, T, l) ==
    /\ a.key \in Stations /\ a.lt \in LevTrs /\ a.val \in Vals
    /\ a = [kind |-> a.kind, key |-> a.key, lt |-> a.lt, val |-> a.val,
            prev |-> a.prev, todo |-> a.todo]
    /\ T.state = "open"
    /\ Head(a.todo) = "pending" => a.prev \in Stations /\ a.prev # a.key /\ l.key = a.key
    /\ \/ InsertShape(a, T, l)
       \/ a.kind = "refused" /\ a.todo = <<"pending">> /\ T.by = "program"
       \/ a.kind = "remove" /\ a.todo = <<"remove">> /\ T.by = "program"
       \/ a.kind = "vacuum" /\ a.todo \in VacuumTodos /\ T.by = "vacuum"

Slots == [key : Stations, lt : LevTrs]
Cached == [key : Stations \cup {NoStation}, id : {MissingId} \cup 1..MaxId]

\* The batch of a program has something cached, and its id is that of a row.
BatchShape(T, l) ==
    /\ l \in Cached
    /\ l.key = NoStation => l.id = MissingId
    /\ T.by # "program" => l = NothingCached
    /\ T.state = "open" /\ l.id # MissingId => \E x \in RowsOf(T.view, l.key) : x.id = l.id

CallsInv ==
    /\ call = [c \in Conns |-> call[c]]
    /\ fired \in [Conns -> BOOLEAN]
    /\ stored \in [Conns -> SUBSET [slot : Slots, val : Vals]]
    /\ last \in [Conns -> Cached]
    /\ \A c \in Conns : Sending(c) => CallShape(call[c], tx[c], last[c])
    /\ \A c \in Conns : fired[c] => ~Sending(c) /\ tx[c] = NoTransaction
    /\ \A c \in Conns : stored[c] # {} => tx[c].state = "open" /\ tx[c].by = "program"
    /\ \A c \in Conns : BatchShape(tx[c], last[c])



LEMMA TodoSteps ==
    /\ Head(<<"pending">>) = "pending" /\ Len(<<"pending">>) = 1
    /\ Head(<<"pending", "levtr", "station", "data">>) = "pending"
    /\ Tail(<<"pending", "levtr", "station", "data">>) = <<"levtr", "station", "data">>
    /\ Len(<<"pending", "levtr", "station", "data">>) = 4
    /\ Head(<<"pending", "levtr", "data">>) = "pending"
    /\ Tail(<<"pending", "levtr", "data">>) = <<"levtr", "data">>
    /\ Len(<<"pending", "levtr", "data">>) = 3
    /\ Head(<<"pending", "station", "data">>) = "pending"
    /\ Tail(<<"pending", "station", "data">>) = <<"station", "data">>
    /\ Len(<<"pending", "station", "data">>) = 3
    /\ Head(<<"pending", "data">>) = "pending"
    /\ Tail(<<"pending", "data">>) = <<"data">>
    /\ Len(<<"pending", "data">>) = 2
    /\ Head(<<"levtr", "station", "data">>) = "levtr"
    /\ Tail(<<"levtr", "station", "data">>) = <<"station", "data">>
    /\ Len(<<"levtr", "station", "data">>) = 3
    /\ Head(<<"levtr", "data">>) = "levtr"
    /\ Tail(<<"levtr", "data">>) = <<"data">>
    /\ Len(<<"levtr", "data">>) = 2
    /\ Head(<<"station", "data">>) = "station"
    /\ Tail(<<"station", "data">>) = <<"data">>
    /\ Len(<<"station", "data">>) = 2
    /\ Head(<<"data">>) = "data" /\ Len(<<"data">>) = 1
    /\ Head(<<"remove">>) = "remove" /\ Len(<<"remove">>) = 1
    /\ Head(<<"vacuumLevtr", "vacuumStation">>) = "vacuumLevtr"
    /\ Tail(<<"vacuumLevtr", "vacuumStation">>) = <<"vacuumStation">>
    /\ Len(<<"vacuumLevtr", "vacuumStation">>) = 2
    /\ Head(<<"vacuumStation">>) = "vacuumStation" /\ Len(<<"vacuumStation">>) = 1
  OBVIOUS

\* The call writes the station cached before, then the rest.
LEMMA PendingSteps ==
    ASSUME NEW t \in PendingTodos
    PROVE  Head(t) = "pending" /\ Tail(t) \in InsertTodos /\ Head(Tail(t)) # "pending"
<1>1. CASE t = <<"pending", "levtr", "station", "data">>
  BY <1>1 DEF InsertTodos
<1>2. CASE t = <<"pending", "levtr", "data">>
  BY <1>2 DEF InsertTodos
<1>3. CASE t = <<"pending", "station", "data">>
  BY <1>3 DEF InsertTodos
<1>4. CASE t = <<"pending", "data">>
  BY <1>4 DEF InsertTodos
<1> QED
  BY <1>1, <1>2, <1>3, <1>4 DEF PendingTodos

\* A call that inserts a level has more to do.
LEMMA LevtrSteps ==
    ASSUME NEW a, NEW T, NEW l, CallShape(a, T, l), Head(a.todo) = "levtr"
    PROVE  Len(a.todo) > 1
<1>1. a.todo \in InsertTodos \cup PendingTodos \cup {<<"pending">>, <<"remove">>} \cup VacuumTodos
  BY DEF CallShape, InsertShape
<1>2. a.todo \notin PendingTodos
  BY PendingSteps
<1>3. a.todo \in LevtrTodos
  BY <1>1, <1>2, TodoSteps DEF InsertTodos, VacuumTodos, LevtrTodos
<1> QED
  BY <1>3, TodoSteps DEF LevtrTodos

LEMMA InsertStatements ==
    ASSUME NEW c \in Conns
    PROVE  LET D == tx[c].view
               a == call[c]
               s == Statement(c)
               L == LevTrRows(D, a.lt)
               old == {r \in DataRows(D, a.key, a.lt) : r.st = last[c].id}
           IN  /\ Head(a.todo) = "pending" => s = [op |-> "insert", t |-> "station",
                                                   rows |-> {[id |-> NewId, key |-> a.prev]}]
               /\ Head(a.todo) = "levtr" => s = [op |-> "insert", t |-> "levtr",
                                                 rows |-> {[id |-> NewId, lt |-> a.lt]}]
               /\ Head(a.todo) = "station" => s = [op |-> "insert", t |-> "station",
                                                   rows |-> {[id |-> NewId, key |-> a.key]}]
               /\ Head(a.todo) = "data" /\ old = {} /\ L # {} =>
                     \E l \in L :
                        s = [op |-> "insert", t |-> "data",
                             rows |-> {[id |-> NewId, st |-> last[c].id, lt |-> l.id,
                                        val |-> a.val, ver |-> NewId]}]
               /\ Head(a.todo) = "data" /\ old # {} =>
                     s = [op |-> "update", t |-> "data",
                          rows |-> {[r EXCEPT !.val = a.val, !.ver = NewId] : r \in old}]
               /\ Head(a.todo) = "remove" =>
                     s = [op |-> "delete", t |-> "data", rows |-> DataRows(D, a.key, a.lt)]
               /\ Head(a.todo) = "vacuumLevtr" =>
                     s = [op |-> "delete", t |-> "levtr", rows |-> Unused(D, "levtr")]
               /\ Head(a.todo) = "vacuumStation" =>
                     s = [op |-> "delete", t |-> "station", rows |-> Unused(D, "station")]
<1> DEFINE D == tx[c].view
           a == call[c]
           s == Statement(c)
           L == LevTrRows(D, a.lt)
           old == {r \in DataRows(D, a.key, a.lt) : r.st = last[c].id}
<1>0. Head(a.todo) = "pending" => s = [op |-> "insert", t |-> "station",
                                       rows |-> {[id |-> NewId, key |-> a.prev]}]
  BY DEF Statement
<1>1. Head(a.todo) = "levtr" => s = [op |-> "insert", t |-> "levtr",
                                     rows |-> {[id |-> NewId, lt |-> a.lt]}]
  BY DEF Statement
<1>2. Head(a.todo) = "station" => s = [op |-> "insert", t |-> "station",
                                       rows |-> {[id |-> NewId, key |-> a.key]}]
  BY DEF Statement
<1>3. ASSUME Head(a.todo) = "data", old = {}, L # {}
      PROVE  \E l \in L : s = [op |-> "insert", t |-> "data",
                             rows |-> {[id |-> NewId, st |-> last[c].id, lt |-> l.id,
                                        val |-> a.val, ver |-> NewId]}]
  <2>1. (CHOOSE r \in L : TRUE) \in L
    BY <1>3
  <2>2. s = [op |-> "insert", t |-> "data",
             rows |-> {[id |-> NewId, st |-> last[c].id,
                        lt |-> (CHOOSE r \in L : TRUE).id, val |-> a.val, ver |-> NewId]}]
    BY <1>3 DEF Statement
  <2> QED
    BY <2>1, <2>2
<1>4. Head(a.todo) = "data" /\ old # {} =>
         s = [op |-> "update", t |-> "data",
              rows |-> {[r EXCEPT !.val = a.val, !.ver = NewId] : r \in old}]
  BY DEF Statement
<1>5. Head(a.todo) = "remove" =>
         s = [op |-> "delete", t |-> "data", rows |-> DataRows(D, a.key, a.lt)]
  BY DEF Statement
<1>6. Head(a.todo) = "vacuumLevtr" =>
         s = [op |-> "delete", t |-> "levtr", rows |-> Unused(D, "levtr")]
  BY DEF Statement
<1>7. Head(a.todo) = "vacuumStation" =>
         s = [op |-> "delete", t |-> "station", rows |-> Unused(D, "station")]
  BY DEF Statement
<1> QED
  BY <1>0, <1>1, <1>2, <1>3, <1>4, <1>5, <1>6, <1>7


\* The rows that the last statement of an insert leaves: none of them is in a
\* snapshot, and all are filed under the station cached and the level of the call.
Files(c, V, W, a) ==
    LET L == LevTrRows(V, a.lt)
        old == {r \in DataRows(V, a.key, a.lt) : r.st = last[c].id}
    IN  /\ W.station = V.station /\ W.levtr = V.levtr
        /\ \E New \in SUBSET DataRow :
              /\ W.data = (V.data \ old) \cup New
              /\ New # {}
              /\ \A y \in New : /\ y.val = a.val
                                /\ \A D \in Copies : y \notin D.data
                                /\ y.st = last[c].id
                                /\ \E l \in L : l.id = y.lt

\* What the next statement of call a does to the tables V that it sees.
Effect(c, V, W, a) ==
    \/ /\ Head(a.todo) = "pending"
       /\ W.levtr = V.levtr /\ W.data = V.data
       /\ W.station = V.station \cup {[id |-> NewId, key |-> a.prev]}
    \/ /\ Head(a.todo) = "levtr"
       /\ W.station = V.station /\ W.data = V.data
       /\ W.levtr = V.levtr \cup {[id |-> NewId, lt |-> a.lt]}
    \/ /\ Head(a.todo) = "station"
       /\ W.levtr = V.levtr /\ W.data = V.data
       /\ W.station = V.station \cup {[id |-> NewId, key |-> a.key]}
    \/ Head(a.todo) = "data" /\ Files(c, V, W, a)
    \/ /\ Head(a.todo) = "remove"
       /\ W.station = V.station /\ W.levtr = V.levtr
       /\ W.data = V.data \ DataRows(V, a.key, a.lt)
    \/ /\ Head(a.todo) \in {"vacuumLevtr", "vacuumStation"}
       /\ W.data = V.data
       /\ W.station \subseteq V.station /\ W.levtr \subseteq V.levtr

Moves(c, V, W) == W \in TableSet /\ Grows(V, W) /\ Seizes(c, W) /\ Spares(c, W) /\ Roots(c, W)

LEMMA InsertRows ==
    ASSUME ServerInv, NEW c \in Conns, NEW t \in Tbl, NEW r, r.id \notin Taken,
           NEW s, s = [op |-> "insert", t |-> t, rows |-> {r}],
           t = "station" => r \in StationRow, t = "levtr" => r \in LevTrRow,
           t = "data" => r \in DataRow
    PROVE  /\ Executed(tx[c].view, s) \in TableSet
           /\ Executed(tx[c].view, s)[t] = tx[c].view[t] \cup {r}
           /\ \A p \in Tbl \ {t} : Executed(tx[c].view, s)[p] = tx[c].view[p]
<1> DEFINE V == tx[c].view
<1>1. V \in Copies /\ V \in TableSet
  BY DEF Copies, ServerInv, TablesTyped, Tx
<1>2. \A x \in V[t] : x.id \in Taken
  BY <1>1, TakenHasAll DEF ServerInv
<1>3. {x \in V[t] : x.id \notin IdsIn({r})} = V[t]
  BY <1>2 DEF IdsIn
<1>4. Executed(V, s) = [V EXCEPT ![t] = V[t] \cup {r}]
  BY <1>3 DEF Executed
<1> DEFINE W == Executed(V, s)
<1>5. W[t] = V[t] \cup {r} /\ \A p \in Tbl \ {t} : W[p] = V[p]
  BY <1>1, <1>4 DEF TableSet, Tbl
<1>6. W = [station |-> W.station, levtr |-> W.levtr, data |-> W.data]
  <2>1. W = [V EXCEPT ![t] = V[t] \cup {r}]
    BY <1>4
  <2> HIDE DEF W, V
  <2> QED
    BY <1>1, <2>1 DEF TableSet, Tbl
<1>7. W \in TableSet
  <2> HIDE DEF W, V
  <2> QED
    BY <1>1, <1>5, <1>6 DEF TableSet, Tbl
<1> QED
  BY <1>5, <1>7

\* The rows of a table that a transaction sees, less those of R.
LEMMA LessRows ==
    ASSUME ServerInv, NEW c \in Conns, NEW t \in Tbl, NEW R \in SUBSET tx[c].view[t]
    PROVE  {x \in tx[c].view[t] : x.id \notin IdsIn(R)} = tx[c].view[t] \ R
<1>1. tx[c].view \in Copies
  BY DEF Copies
<1>2. \A x, y \in tx[c].view[t] : x.id = y.id => x = y
  BY <1>1 DEF ServerInv, Named, Keyed, Kin
<1> QED
  BY <1>2 DEF IdsIn

LEMMA InsertMoves ==
    ASSUME ServerInv, CallsInv, NEW c \in Conns, Sending(c), Room, WaitsFor(c) = {},
           ~Refused(c, Statement(c)), Head(call[c].todo) \in {"pending", "levtr", "station"}
    PROVE  LET W == Executed(tx[c].view, Statement(c))
           IN  Moves(c, tx[c].view, W) /\ Effect(c, tx[c].view, W, call[c])
<1> DEFINE V == tx[c].view
           a == call[c]
           s == Statement(c)
           W == Executed(V, s)
<1>1. CallShape(a, tx[c], last[c])
  BY DEF CallsInv
<1>2. NewId \in 1..MaxId /\ NewId \notin Taken
  BY NewIdIsFree
<1>3. ASSUME NEW t \in RefTbl, NEW r, r.id = NewId,
             t = "station" => r \in StationRow, t = "levtr" => r \in LevTrRow,
             s = [op |-> "insert", t |-> t, rows |-> {r}]
      PROVE  /\ Moves(c, V, W)
             /\ W[t] = V[t] \cup {r}
             /\ \A p \in Tbl \ {t} : W[p] = V[p]
  <2>1. t \in Tbl /\ t # "data" /\ s.t = t
    BY <1>3 DEF Tbl, RefTbl
  <2>2. Free(c, s)
    BY <2>1, NotWaiting DEF Statements
  <2>3. Grows(V, W) /\ Seizes(c, W) /\ Spares(c, W) /\ Roots(c, W)
    BY <1>1, <1>2, <1>3, <2>1, <2>2, InsertKeeps DEF CallShape
  <2> QED
    BY <1>2, <1>3, <2>1, <2>3, InsertRows DEF Moves
<1>4. CASE Head(a.todo) = "levtr"
  <2>1. [id |-> NewId, lt |-> a.lt] \in LevTrRow
    BY <1>1, <1>2 DEF CallShape, LevTrRow
  <2>2. s = [op |-> "insert", t |-> "levtr", rows |-> {[id |-> NewId, lt |-> a.lt]}]
    BY <1>4, InsertStatements
  <2>3. /\ Moves(c, V, W)
        /\ W.levtr = V.levtr \cup {[id |-> NewId, lt |-> a.lt]}
        /\ \A p \in Tbl \ {"levtr"} : W[p] = V[p]
    <3> HIDE DEF W, s, V
    <3> QED
      BY <1>3, <2>1, <2>2 DEF RefTbl
  <2> QED
    BY <1>4, <2>3 DEF Tbl, Effect
<1>5. CASE Head(a.todo) = "station"
  <2>1. [id |-> NewId, key |-> a.key] \in StationRow
    BY <1>1, <1>2 DEF CallShape, StationRow
  <2>2. s = [op |-> "insert", t |-> "station", rows |-> {[id |-> NewId, key |-> a.key]}]
    BY <1>5, InsertStatements
  <2>3. /\ Moves(c, V, W)
        /\ W.station = V.station \cup {[id |-> NewId, key |-> a.key]}
        /\ \A p \in Tbl \ {"station"} : W[p] = V[p]
    <3> HIDE DEF W, s, V
    <3> QED
      BY <1>3, <2>1, <2>2 DEF RefTbl
  <2> QED
    BY <1>5, <2>3 DEF Tbl, Effect
<1>6. CASE Head(a.todo) = "pending"
  <2>1. [id |-> NewId, key |-> a.prev] \in StationRow
    BY <1>1, <1>2, <1>6 DEF CallShape, StationRow
  <2>2. s = [op |-> "insert", t |-> "station", rows |-> {[id |-> NewId, key |-> a.prev]}]
    BY <1>6, InsertStatements
  <2>3. /\ Moves(c, V, W)
        /\ W.station = V.station \cup {[id |-> NewId, key |-> a.prev]}
        /\ \A p \in Tbl \ {"station"} : W[p] = V[p]
    <3> HIDE DEF W, s, V
    <3> QED
      BY <1>3, <2>1, <2>2 DEF RefTbl
  <2> QED
    BY <1>6, <2>3 DEF Tbl, Effect
<1> QED
  BY <1>4, <1>5, <1>6


LEMMA DataMoves ==
    ASSUME ServerInv, CallsInv, NEW c \in Conns, Sending(c), Room, WaitsFor(c) = {},
           ~Refused(c, Statement(c)), Head(call[c].todo) = "data"
    PROVE  LET W == Executed(tx[c].view, Statement(c))
           IN  Moves(c, tx[c].view, W) /\ Effect(c, tx[c].view, W, call[c])
<1> DEFINE V == tx[c].view
           a == call[c]
           s == Statement(c)
           W == Executed(V, s)
           st == last[c].id
           L == LevTrRows(V, a.lt)
           old == {r \in DataRows(V, a.key, a.lt) : r.st = st}
<1>1. CallShape(a, tx[c], last[c]) /\ BatchShape(tx[c], last[c])
  BY DEF CallsInv
<1>2. L # {} /\ \E x \in V.station : x.id = st
  <2>1. InsertShape(a, tx[c], last[c]) /\ a.todo = <<"data">>
    BY <1>1, TodoSteps DEF CallShape, InsertShape, InsertTodos, PendingTodos, VacuumTodos
  <2>2. Rest(a) = <<"data">>
    BY <2>1, TodoSteps DEF Rest
  <2>3. <<"data">> \notin LevtrTodos /\ <<"data">> \notin StationTodos
    BY TodoSteps DEF LevtrTodos, StationTodos
  <2> QED
    BY <1>1, <2>1, <2>2, <2>3 DEF InsertShape, CallShape, BatchShape, RowsOf
<1>3. NewId \in 1..MaxId /\ NewId \notin Taken
  BY NewIdIsFree
<1>4. V \in Copies /\ V \in TableSet
  BY DEF Copies, ServerInv, TablesTyped, Tx
<1>5. \A D \in Copies : \A x \in D.data : x.ver # NewId
  BY <1>3, TakenHasAll DEF ServerInv, Tbl
<1>6. s.t = "data"
  <2>1. CASE old = {}
    <3>1. PICK l \in L :
             s = [op |-> "insert", t |-> "data",
                  rows |-> {[id |-> NewId, st |-> st, lt |-> l.id, val |-> a.val, ver |-> NewId]}]
      BY <1>2, <2>1, InsertStatements
    <3> HIDE DEF s
    <3> QED
      BY <3>1
  <2>2. CASE old # {}
    <3>1. s = [op |-> "update", t |-> "data",
               rows |-> {[r EXCEPT !.val = a.val, !.ver = NewId] : r \in old}]
      BY <2>2, InsertStatements
    <3> HIDE DEF s
    <3> QED
      BY <3>1
  <2> QED
    BY <2>1, <2>2
<1>7. Free(c, s)
  BY <1>6, NotWaiting DEF Statements, Tbl
<1>8. CASE old = {}
  <2>1. PICK l \in L :
           s = [op |-> "insert", t |-> "data",
                rows |-> {[id |-> NewId, st |-> st, lt |-> l.id, val |-> a.val, ver |-> NewId]}]
    BY <1>2, <1>8, InsertStatements
  <2>0. PICK x \in V.station : x.id = st
    BY <1>2
  <2> DEFINE r == [id |-> NewId, st |-> x.id, lt |-> l.id, val |-> a.val, ver |-> NewId]
  <2>2. x \in V.station /\ l \in V.levtr
    BY DEF LevTrRows
  <2>3. r \in DataRow
    BY <1>1, <1>3, <1>4, <2>2 DEF CallShape, TableSet, StationRow, LevTrRow, DataRow
  <2>4. \A p \in RefTbl : \E y \in V[p] : Refers(p, r, y)
    BY <2>2 DEF RefTbl, Refers
  <2>5. s = [op |-> "insert", t |-> "data", rows |-> {r}] /\ r.id = NewId
        /\ r.val = a.val /\ r.ver = NewId /\ r.st = st /\ r.lt = l.id
    BY <2>0, <2>1
  <2>6. CallShape(a, tx[c], last[c]) => tx[c].state = "open"
    BY DEF CallShape
  <2> HIDE DEF r, s
  <2>7. Grows(V, W) /\ Seizes(c, W) /\ Spares(c, W) /\ Roots(c, W)
    BY <1>1, <1>3, <1>7, <2>4, <2>5, <2>6, InsertKeeps DEF s, Tbl
  <2>8. /\ W \in TableSet
        /\ W.data = V.data \cup {r}
        /\ W.station = V.station /\ W.levtr = V.levtr
    <3>1. "data" \in Tbl /\ "station" \in Tbl \ {"data"} /\ "levtr" \in Tbl \ {"data"}
      BY DEF Tbl
    <3>2. r.id \notin Taken /\ s = [op |-> "insert", t |-> "data", rows |-> {r}]
      BY <1>3, <2>5
    <3>3. ASSUME NEW t \in Tbl, t = "data"
          PROVE  /\ Executed(V, s) \in TableSet
                 /\ Executed(V, s)[t] = V[t] \cup {r}
                 /\ \A p \in Tbl \ {t} : Executed(V, s)[p] = V[p]
      <4>1. s = [op |-> "insert", t |-> t, rows |-> {r}]
        BY <3>2, <3>3
      <4>2. t # "station" /\ t # "levtr"
        BY <3>3
      <4> QED
        BY <2>3, <3>2, <4>1, <4>2, InsertRows
    <3> HIDE DEF V
    <3> QED
      BY <3>1, <3>3
  <2>9. Files(c, V, W, a)
    <3>1. \A D \in Copies : r \notin D.data
      BY <1>5, <2>5
    <3>2. W.data = (V.data \ old) \cup {r} /\ {r} \in SUBSET DataRow /\ {r} # {}
      BY <1>8, <2>3, <2>8
    <3>3. \A y \in {r} : /\ y.val = a.val
                         /\ \A D \in Copies : y \notin D.data
                         /\ y.st = st
                         /\ \E z \in L : z.id = y.lt
      BY <2>5, <3>1
    <3> HIDE DEF W, V, st, L, old
    <3> QED
      BY <2>8, <3>2, <3>3 DEF Files, V, st, L, old
  <2> QED
    BY <2>7, <2>8, <2>9 DEF s, Moves, Effect
<1>9. CASE old # {}
  <2> DEFINE N == {[r EXCEPT !.val = a.val, !.ver = NewId] : r \in old}
  <2>1. s = [op |-> "update", t |-> "data", rows |-> N]
    BY <1>9, InsertStatements
  <2>2. old \subseteq V.data
    BY DEF DataRows
  <2>3. \A r \in old : r \in DataRow
    BY <1>4, <2>2 DEF TableSet
  <2>4. \A y \in N : /\ y \in DataRow /\ y.val = a.val /\ y.ver = NewId
                     /\ \E z \in old : z.id = y.id /\ z.st = y.st /\ z.lt = y.lt
    <3> SUFFICES ASSUME NEW r \in old
                 PROVE  LET y == [r EXCEPT !.val = a.val, !.ver = NewId]
                        IN  /\ y \in DataRow /\ y.val = a.val /\ y.ver = NewId
                            /\ r.id = y.id /\ r.st = y.st /\ r.lt = y.lt
      OBVIOUS
    <3>1. r \in DataRow /\ a.val \in Vals
      BY <1>1, <2>3 DEF CallShape
    <3> QED
      BY <1>3, <3>1 DEF DataRow
  <2>5. \A x, y \in N : x.id = y.id => x = y
    <3> SUFFICES ASSUME NEW x \in N, NEW y \in N, x.id = y.id
                 PROVE  x = y
      OBVIOUS
    <3>1. PICK q \in old : x = [q EXCEPT !.val = a.val, !.ver = NewId]
      OBVIOUS
    <3>2. PICK r \in old : y = [r EXCEPT !.val = a.val, !.ver = NewId]
      OBVIOUS
    <3>3. q.id = x.id /\ r.id = y.id
      BY <2>3, <3>1, <3>2 DEF DataRow
    <3>4. q \in V.data /\ r \in V.data /\ V \in Copies
      BY <2>2 DEF Copies
    <3>5. q = r
      <4> HIDE DEF N, old, V, a, st, L
      <4> QED
        BY <3>3, <3>4 DEF ServerInv, Keyed
    <3> QED
      BY <3>1, <3>2, <3>5
  <2>6. IdsIn(N) = IdsIn(old)
    <3>1. \A z \in old : \E y \in N : y.id = z.id
      <4> SUFFICES ASSUME NEW z \in old
                   PROVE  [z EXCEPT !.val = a.val, !.ver = NewId].id = z.id
        OBVIOUS
      <4> QED
        BY <2>3 DEF DataRow
    <3>2. \A y \in N : \E z \in old : y.id = z.id
      BY <2>4
    <3> HIDE DEF N, old
    <3> QED
      BY <3>1, <3>2 DEF IdsIn
  <2>7. N # {}
    BY <1>9
  <2>8. \A y \in N : /\ y.st = st
                     /\ \E l \in L : l.id = y.lt
    <3>1. \A z \in old : z.st = st /\ \E l \in L : l.id = z.lt
      BY DEF DataRows, IdsIn
    <3> HIDE DEF N, old, st, L
    <3> QED
      BY <2>4, <3>1
  <2>9. tx[c].state = "open"
    BY <1>1 DEF CallShape
  <2> HIDE DEF N, s
  <2>10. /\ W.data = {x \in V.data : x.id \notin IdsIn(N)} \cup N
         /\ W.station = V.station /\ W.levtr = V.levtr
         /\ W = [station |-> W.station, levtr |-> W.levtr, data |-> W.data]
    <3>1. W = [V EXCEPT !["data"] = {x \in V.data : x.id \notin IdsIn(N)} \cup N]
      BY <2>1 DEF Executed
    <3> HIDE DEF W, V
    <3> QED
      BY <1>4, <3>1 DEF TableSet
  <2>11. W.data = (V.data \ old) \cup N
    BY <2>2, <2>6, <2>10, LessRows DEF Tbl
  <2>12. W \in TableSet
    BY <1>4, <2>4, <2>10, <2>11 DEF TableSet
  <2>13. Grows(V, W) /\ Seizes(c, W) /\ Spares(c, W) /\ Roots(c, W)
    BY <1>3, <1>7, <2>1, <2>2, <2>4, <2>5, <2>9, UpdateKeeps DEF s
  <2>14. Files(c, V, W, a)
    <3>1. \A y \in N : \A D \in Copies : y \notin D.data
      BY <1>5, <2>4
    <3> QED
      BY <2>4, <2>7, <2>8, <2>10, <2>11, <3>1 DEF Files
  <2> QED
    BY <2>12, <2>13, <2>14 DEF s, Moves, Effect
<1> QED
  BY <1>8, <1>9

LEMMA DeleteMoves ==
    ASSUME ServerInv, CallsInv, NEW c \in Conns, Sending(c), Room, WaitsFor(c) = {},
           ~Refused(c, Statement(c)),
           Head(call[c].todo) \in {"remove", "vacuumLevtr", "vacuumStation"}
    PROVE  LET W == Executed(tx[c].view, Statement(c))
           IN  Moves(c, tx[c].view, W) /\ Effect(c, tx[c].view, W, call[c])
<1> DEFINE V == tx[c].view
           a == call[c]
           s == Statement(c)
           W == Executed(V, s)
<1>1. V \in Copies /\ V \in TableSet /\ tx[c].state = "open"
  BY DEF Copies, ServerInv, TablesTyped, Tx, CallsInv, CallShape
<1>2. ASSUME NEW t \in Tbl, NEW R \in SUBSET V[t],
             \A p \in RefTbl : p = t => R \subseteq Unused(V, p),
             s = [op |-> "delete", t |-> t, rows |-> R]
      PROVE  /\ Moves(c, V, W)
             /\ W[t] = V[t] \ R
             /\ \A p \in Tbl \ {t} : W[p] = V[p]
  <2>1. Free(c, s)
    BY <1>2, NotWaiting DEF Statements
  <2>2. Grows(V, W) /\ Seizes(c, W) /\ Spares(c, W) /\ Roots(c, W)
    <3> HIDE DEF s
    <3> QED
      BY <1>1, <1>2, <2>1, DeleteKeeps DEF s
  <2>3. W = [V EXCEPT ![t] = V[t] \ R]
    <3> HIDE DEF s
    <3>1. {x \in V[t] : x.id \notin IdsIn(R)} = V[t] \ R
      BY <1>2, LessRows
    <3>2. s.op = "delete" /\ s.t = t /\ s.rows = R
      BY <1>2
    <3> QED
      BY <3>1, <3>2 DEF Executed
  <2>4. /\ W[t] = V[t] \ R
        /\ \A p \in Tbl \ {t} : W[p] = V[p]
        /\ W \in TableSet
    <3> HIDE DEF W, V
    <3> QED
      BY <1>1, <2>3 DEF TableSet, Tbl
  <2> QED
    BY <2>2, <2>4 DEF Moves
<1>3. CASE Head(a.todo) = "remove"
  <2> DEFINE old == DataRows(V, a.key, a.lt)
  <2>1. s = [op |-> "delete", t |-> "data", rows |-> old]
    BY <1>3, InsertStatements
  <2>2. old \subseteq V.data
    BY DEF DataRows
  <2> HIDE DEF s, W, V, old
  <2>3. Moves(c, V, W) /\ W.data = V.data \ old /\ \A p \in Tbl \ {"data"} : W[p] = V[p]
    BY <1>2, <2>1, <2>2 DEF Tbl, RefTbl
  <2> QED
    BY <1>3, <2>3 DEF s, W, V, old, Effect, Tbl
<1>4. ASSUME NEW t \in RefTbl, s = [op |-> "delete", t |-> t, rows |-> Unused(V, t)],
             Head(a.todo) \in {"vacuumLevtr", "vacuumStation"}
      PROVE  Moves(c, V, W) /\ Effect(c, V, W, a)
  <2>1. t \in Tbl /\ t # "data" /\ Unused(V, t) \subseteq V[t]
    BY DEF Tbl, RefTbl, Unused
  <2>2. Moves(c, V, W) /\ W[t] \subseteq V[t] /\ \A p \in Tbl \ {t} : W[p] = V[p]
    <3> HIDE DEF s, W, V
    <3> QED
      BY <1>2, <1>4, <2>1
  <2> QED
    BY <1>4, <2>1, <2>2 DEF Effect, Tbl
<1>5. CASE Head(a.todo) = "vacuumLevtr"
  BY <1>4, <1>5, InsertStatements DEF RefTbl
<1>6. CASE Head(a.todo) = "vacuumStation"
  BY <1>4, <1>6, InsertStatements DEF RefTbl
<1> QED
  BY <1>3, <1>5, <1>6


----------------------------------------------------------------------------
(* Steps                                                                   *)

\* The transaction of c begins, is aborted or ends, and no table changes.
Resets(c) ==
    \E T \in Tx : /\ T.view = T.snap
                  /\ T.snap \in {db, tx[c].snap, Empty}
                  /\ db' = db
                  /\ tx' = [tx EXCEPT ![c] = T]
                  /\ stored' = [stored EXCEPT ![c] = {}]

\* A statement of a call of c leaves it with view W.
Works(c, W) ==
    /\ Sending(c)
    /\ Moves(c, tx[c].view, W)
    /\ Effect(c, tx[c].view, W, call[c])
    /\ db' = db
    /\ tx' = [tx EXCEPT ![c].view = W]
    /\ stored' = IF Len(call[c].todo) > 1 THEN stored
                 ELSE [stored EXCEPT ![c] = StoredBy(c, call[c])]
    /\ call' = [call EXCEPT ![c] = IF Len(call[c].todo) > 1
                                   THEN [call[c] EXCEPT !.todo = Tail(call[c].todo)]
                                   ELSE NoCall]
    /\ last' = [last EXCEPT ![c] = CachedThen(c)]
    /\ NewId \in 1..MaxId /\ NewId \notin Taken

Inv == ServerInv /\ CallsInv

LEMMA WorkMoves ==
    ASSUME Inv, NEW c \in Conns, Sending(c), Room, WaitsFor(c) = {},
           ~Refused(c, Statement(c)), Execute(c, Statement(c))
    PROVE  Works(c, Executed(tx[c].view, Statement(c))) /\ fired' = fired
<1> DEFINE V == tx[c].view
           W == Executed(V, Statement(c))
<1>1. Head(call[c].todo) \in {"pending", "levtr", "station", "data", "remove", "vacuumLevtr",
                              "vacuumStation"}
  BY TodoSteps DEF Inv, CallsInv, CallShape, InsertShape, InsertTodos, PendingTodos, VacuumTodos
<1>2. Moves(c, V, W) /\ Effect(c, V, W, call[c])
  BY <1>1, InsertMoves, DataMoves, DeleteMoves DEF Inv
<1>3. tx' = [tx EXCEPT ![c].view = W]
  BY DEF Execute
<1> HIDE DEF V, W
<1> QED
  BY <1>2, <1>3, NewIdIsFree DEF Execute, V, W, Works

LEMMA AbortResets ==
    ASSUME Inv, NEW c \in Conns, Abort(c)
    PROVE  Resets(c)
<1> DEFINE T == [tx[c] EXCEPT !.state = "aborted", !.view = tx[c].snap]
<1>1. tx[c] \in Tx
  BY DEF Inv, ServerInv, TablesTyped
<1>2. T \in Tx /\ T.view = T.snap /\ T.snap = tx[c].snap
  BY <1>1 DEF Tx
<1> QED
  BY <1>2 DEF Abort, Resets

LEMMA EndResets ==
    ASSUME Inv, NEW c \in Conns, Rollback(c) \/ Die(c)
    PROVE  Resets(c)
<1>1. NoTransaction \in Tx /\ NoTransaction.view = Empty /\ NoTransaction.snap = Empty
  BY EmptyTyped DEF NoTransaction, Tx
<1> QED
  BY <1>1 DEF Rollback, Die, Resets

LEMMA OpenResets ==
    ASSUME Inv, NEW c \in Conns, NEW by \in {"program", "vacuum"}, Opened(c, by)
    PROVE  Resets(c)
<1> DEFINE T == [state |-> "open", by |-> by, snap |-> db, view |-> db]
<1>1. T \in Tx /\ T.view = T.snap /\ T.snap = db
  BY DEF Inv, ServerInv, TablesTyped, Tx
<1>2. stored[c] = {}
  BY DEF Opened, Inv, CallsInv, NoTransaction
<1>3. stored' = [stored EXCEPT ![c] = {}]
  BY <1>2 DEF Opened, Inv, CallsInv
<1>4. tx' = [tx EXCEPT ![c] = T] /\ db' = db
  BY DEF Opened
<1> HIDE DEF T
<1> QED
  BY <1>1, <1>3, <1>4 DEF Resets

LEMMA StepKinds ==
    ASSUME Inv, Next
    PROVE  \E c \in Conns : \/ Resets(c)
                            \/ Commit(c)
                            \/ \E W : Works(c, W)
                            \/ UNCHANGED <<db, tx, stored>>
<1>1. PICK c \in Conns :
         \/ Begin(c) \/ End(c) \/ Die(c)
         \/ Send(c) \/ BreakDeadlock(c)
         \/ \E a \in Requests[c] :
               \/ a.kind = "insert" /\ (InsertData(c, a) \/ InsertRefused(c, a))
               \/ a.kind = "remove" /\ Call(c, a, "remove", <<"remove">>, last[c])
               \/ a.kind = "vacuum" /\ Vacuum(c, a)
  BY DEF Next
<1>2. CASE Begin(c)
  BY <1>2, OpenResets DEF Begin
<1>3. CASE End(c)
  BY <1>3, EndResets DEF End
<1>4. CASE Die(c)
  BY <1>4, EndResets
<1>5. CASE Send(c)
  <2>1. Refused(c, Statement(c)) => Abort(c)
    BY <1>5 DEF Send, Statements
  <2>2. ~Refused(c, Statement(c)) => Execute(c, Statement(c))
    BY <1>5 DEF Send, Statements
  <2>3. Sending(c) /\ Room /\ WaitsFor(c) = {}
    BY <1>5 DEF Send
  <2> QED
    BY <2>1, <2>2, <2>3, AbortResets, WorkMoves
<1>6. CASE BreakDeadlock(c)
  BY <1>6, AbortResets DEF BreakDeadlock
<1>7. CASE \E a \in Requests[c] : \/ InsertData(c, a) \/ InsertRefused(c, a)
                                  \/ Call(c, a, "remove", <<"remove">>, last[c])
  BY <1>7 DEF InsertData, InsertRefused, Call
<1>8. CASE \E a \in Requests[c] : Vacuum(c, a)
  BY <1>8, OpenResets DEF Vacuum
<1> QED
  BY <1>1, <1>2, <1>3, <1>4, <1>5, <1>6, <1>7, <1>8

LEMMA ServerStep == Inv /\ [Next]_connVars => ServerInv'
<1> SUFFICES ASSUME Inv, [Next]_connVars
             PROVE  ServerInv'
  OBVIOUS
<1>1. CASE UNCHANGED <<db, tx>>
  <2>1. \A c, t : /\ Inserted(c, t)' = Inserted(c, t) /\ Removed(c, t)' = Removed(c, t)
                  /\ Changed(c, t)' = Changed(c, t)
    BY <1>1 DEF Inserted, Removed, Changed
  <2>2. \A c, t : Touched(c, t)' = Touched(c, t)
    BY <2>1 DEF Touched
  <2> QED
    BY <1>1, <2>1, <2>2 DEF Inv, ServerInv, TablesTyped, Copies, Named, Keyed, Fresh, Locked, Held,
       Unreferred, Rooted, Quiet, ValuesAreWhole
<1>2. ASSUME NEW c \in Conns, Resets(c)
      PROVE  ServerInv'
  BY <1>2, ResetKeeps DEF Inv, Resets
<1>3. ASSUME NEW c \in Conns, Commit(c)
      PROVE  ServerInv'
  <2>1. CASE tx[c].state = "open"
    BY <1>3, <2>1, CommitKeeps DEF Commit, Inv
  <2>2. CASE tx[c].state # "open"
    <3>1. NoTransaction \in Tx /\ NoTransaction.view = NoTransaction.snap /\ NoTransaction.snap = Empty
      BY EmptyTyped DEF NoTransaction, Tx
    <3> QED
      BY <1>3, <2>2, <3>1, ResetKeeps DEF Commit, Inv
  <2> QED
    BY <2>1, <2>2
<1>4. ASSUME NEW c \in Conns, NEW W, Works(c, W)
      PROVE  ServerInv'
  <2>1. tx[c].state = "open"
    BY <1>4 DEF Works, Inv, CallsInv, CallShape
  <2> QED
    BY <1>4, <2>1, ViewInv DEF Works, Moves, Inv
<1>5. CASE Next
  BY <1>1, <1>2, <1>3, <1>4, <1>5, StepKinds
<1>6. CASE UNCHANGED connVars
  BY <1>1, <1>6 DEF connVars
<1> QED
  BY <1>5, <1>6


LEMMA StoredTyped ==
    ASSUME Inv, NEW c \in Conns, Sending(c)
    PROVE  /\ StoredBy(c, call[c]) \in SUBSET [slot : Slots, val : Vals]
           /\ StoredBy(c, call[c]) # {} => call[c].kind \in {"insert", "remove"} \/ stored[c] # {}
<1> DEFINE a == call[c]
           others == {w \in stored[c] : w.slot # Slot(a)}
<1>1. stored[c] \in SUBSET [slot : Slots, val : Vals]
  BY DEF Inv, CallsInv
<1>2. a.key \in Stations /\ a.lt \in LevTrs /\ a.val \in Vals
      /\ a.kind \in {"insert", "remove", "vacuum", "refused"}
  BY DEF Inv, CallsInv, CallShape, InsertShape
<1>3. [slot |-> Slot(a), val |-> a.val] \in [slot : Slots, val : Vals]
  BY <1>2 DEF Slot, Slots
<1>4. /\ a.kind = "insert" => StoredBy(c, a) = others \cup {[slot |-> Slot(a), val |-> a.val]}
      /\ a.kind = "remove" => StoredBy(c, a) = others
      /\ a.kind \in {"vacuum", "refused"} => StoredBy(c, a) = stored[c]
  BY DEF StoredBy
<1> QED
  BY <1>1, <1>2, <1>3, <1>4

LEMMA CallExcept ==
    ASSUME NEW a, NEW d
    PROVE  [[kind |-> a.kind, key |-> a.key, lt |-> a.lt, val |-> a.val, prev |-> a.prev,
             todo |-> a.todo] EXCEPT !.todo = d]
              = [kind |-> a.kind, key |-> a.key, lt |-> a.lt, val |-> a.val, prev |-> a.prev,
                 todo |-> d]
  OBVIOUS

\* The rest of a call has the shape of a call, on the tables that its statement left.
LEMMA RestShape ==
    ASSUME Inv, NEW c \in Conns, NEW W, Works(c, W), Len(call[c].todo) > 1
    PROVE  CallShape([call[c] EXCEPT !.todo = Tail(call[c].todo)], [tx[c] EXCEPT !.view = W],
                     CachedThen(c))
<1> DEFINE a == call[c]
           V == tx[c].view
           b == [a EXCEPT !.todo = Tail(a.todo)]
           T == [tx[c] EXCEPT !.view = W]
           l == last[c]
           m == CachedThen(c)
<1>1. CallShape(a, tx[c], l) /\ tx[c] \in Tx /\ Effect(c, V, W, a) /\ l \in Cached
  BY DEF Works, Inv, CallsInv, ServerInv, TablesTyped, BatchShape
<1>2. /\ b.kind = a.kind /\ b.key = a.key /\ b.lt = a.lt /\ b.val = a.val
      /\ b.todo = Tail(a.todo) /\ b.prev = a.prev
      /\ b = [kind |-> b.kind, key |-> b.key, lt |-> b.lt, val |-> b.val,
              prev |-> b.prev, todo |-> b.todo]
  <2>1. a = [kind |-> a.kind, key |-> a.key, lt |-> a.lt, val |-> a.val,
             prev |-> a.prev, todo |-> a.todo]
    BY <1>1 DEF CallShape
  <2> HIDE DEF a
  <2>2. b = [kind |-> a.kind, key |-> a.key, lt |-> a.lt, val |-> a.val,
             prev |-> a.prev, todo |-> Tail(a.todo)]
    <3>1. [[kind |-> a.kind, key |-> a.key, lt |-> a.lt, val |-> a.val, prev |-> a.prev,
            todo |-> a.todo] EXCEPT !.todo = Tail(a.todo)]
             = [kind |-> a.kind, key |-> a.key, lt |-> a.lt, val |-> a.val,
                prev |-> a.prev, todo |-> Tail(a.todo)]
      BY CallExcept, Zenon
    <3> QED
      BY <2>1, <3>1, Zenon
  <2> HIDE DEF b
  <2> QED
    BY <2>2
<1>3. T.state = tx[c].state /\ T.by = tx[c].by /\ T.view = W
  BY <1>1 DEF Tx
<1>0. Len(a.todo) > 1
  OBVIOUS
<1>9. /\ Head(a.todo) = "station" => m = [l EXCEPT !.id = NewId]
      /\ Head(a.todo) \notin {"station", "remove"} => m = l
      /\ NewId # MissingId
  BY DEF CachedThen, Works, MissingId
<1> HIDE DEF a, b, T, V, l, m
<1> SUFFICES CallShape(b, T, m)
  BY DEF a, b, T, V, m
<1>4. CASE InsertShape(a, tx[c], l)
  <2>1. a.kind = "insert" /\ tx[c].by = "program" /\ l.key = a.key
    BY <1>4 DEF InsertShape
  <2>0. ASSUME b.todo \in InsertTodos, Head(b.todo) # "pending", m.key = a.key,
               b.todo \in StationTodos <=> m.id = MissingId,
               b.todo \notin LevtrTodos => LevTrRows(W, a.lt) # {}
        PROVE  CallShape(b, T, m)
    <3>1. Rest(b) = b.todo
      BY <2>0 DEF Rest
    <3>2. InsertShape(b, T, m)
      BY <1>2, <1>3, <2>0, <2>1, <3>1 DEF InsertShape
    <3> QED
      BY <1>1, <1>2, <1>3, <2>0, <3>2 DEF CallShape
  <2>2. CASE a.todo = <<"levtr", "station", "data">>
    <3>1. W.levtr = V.levtr \cup {[id |-> NewId, lt |-> a.lt]}
      BY <1>1, <2>2, TodoSteps DEF Effect
    <3>2. [id |-> NewId, lt |-> a.lt] \in LevTrRows(W, a.lt)
      BY <3>1 DEF LevTrRows
    <3>3. m = l /\ l.id = MissingId
      BY <1>4, <1>9, <2>2, TodoSteps DEF InsertShape, Rest, StationTodos
    <3> QED
      BY <1>2, <2>0, <2>1, <2>2, <3>2, <3>3, TodoSteps DEF InsertTodos, StationTodos
  <2>3. CASE a.todo = <<"levtr", "data">>
    <3>1. W.levtr = V.levtr \cup {[id |-> NewId, lt |-> a.lt]}
      BY <1>1, <2>3, TodoSteps DEF Effect
    <3>2. [id |-> NewId, lt |-> a.lt] \in LevTrRows(W, a.lt)
      BY <3>1 DEF LevTrRows
    <3>3. m = l /\ l.id # MissingId
      <4>1. <<"levtr", "data">> \notin StationTodos
        BY TodoSteps DEF StationTodos
      <4> QED
        BY <1>4, <1>9, <2>3, <4>1, TodoSteps DEF InsertShape, Rest
    <3>4. <<"data">> \notin StationTodos
      BY TodoSteps DEF StationTodos
    <3> QED
      BY <1>2, <2>0, <2>1, <2>3, <3>2, <3>3, <3>4, TodoSteps DEF InsertTodos
  <2>4. CASE a.todo = <<"station", "data">>
    <3>1. W.levtr = V.levtr
      BY <1>1, <2>4, TodoSteps DEF Effect
    <3>2. LevTrRows(V, a.lt) # {}
      <4>1. <<"station", "data">> \notin LevtrTodos
        BY TodoSteps DEF LevtrTodos
      <4> QED
        BY <1>4, <2>4, <4>1, TodoSteps DEF InsertShape, Rest, V
    <3>3. m.key = l.key /\ m.id = NewId
      BY <1>1, <1>9, <2>4, TodoSteps DEF Cached
    <3>4. <<"data">> \notin StationTodos /\ LevTrRows(W, a.lt) = LevTrRows(V, a.lt)
      BY <3>1, TodoSteps DEF StationTodos, LevTrRows
    <3> QED
      BY <1>2, <1>9, <2>0, <2>1, <2>4, <3>2, <3>3, <3>4, TodoSteps DEF InsertTodos
  <2>5. a.todo # <<"data">>
    <3> SUFFICES ASSUME a.todo = <<"data">>
                 PROVE  FALSE
      OBVIOUS
    <3>1. Len(a.todo) = 1
      OBVIOUS
    <3> QED
      BY <1>0, <3>1
  <2>6. CASE a.todo \in PendingTodos
    <3>1. Head(a.todo) = "pending" /\ Tail(a.todo) \in InsertTodos /\ Head(Tail(a.todo)) # "pending"
      BY <2>6, PendingSteps
    <3>2. Rest(a) = b.todo /\ m = l
      BY <1>2, <1>9, <3>1 DEF Rest
    <3>3. W.levtr = V.levtr
      BY <1>1, <3>1 DEF Effect
    <3>4. LevTrRows(W, a.lt) = LevTrRows(V, a.lt)
      BY <3>3 DEF LevTrRows
    <3> QED
      BY <1>2, <1>4, <2>0, <2>1, <3>1, <3>2, <3>4 DEF InsertShape, V
  <2> QED
    BY <1>4, <2>2, <2>3, <2>4, <2>5, <2>6 DEF InsertShape, InsertTodos
<1>5. CASE a.todo \in {<<"remove">>, <<"pending">>}
  BY <1>0, <1>5, TodoSteps
<1>6. CASE a.kind = "vacuum" /\ a.todo \in VacuumTodos /\ tx[c].by = "vacuum"
  <2>1. a.todo = <<"vacuumLevtr", "vacuumStation">>
    <3>1. Len(<<"vacuumStation">>) = 1
      OBVIOUS
    <3>2. a.todo # <<"vacuumStation">>
      <4> SUFFICES ASSUME a.todo = <<"vacuumStation">>
                   PROVE  FALSE
        OBVIOUS
      <4>1. Len(a.todo) = 1
        BY <3>1
      <4> QED
        BY <1>0, <4>1
    <3> QED
      BY <1>6, <3>2, Zenon DEF VacuumTodos
  <2> QED
    BY <1>1, <1>2, <1>3, <1>6, <2>1, TodoSteps DEF CallShape, VacuumTodos
<1> QED
  BY <1>1, <1>4, <1>5, <1>6 DEF CallShape

LEMMA Pair ==
    ASSUME NEW x, NEW y
    PROVE  <<x>> \o <<y>> = <<x, y>>
<1> DEFINE s == <<x>> \o <<y>>
<1>1. s \in Seq({x, y}) /\ Len(s) = 2 /\ s[1] = x /\ s[2] = y
  OBVIOUS
<1>2. <<x, y>> = [i \in 1..2 |-> IF i = 1 THEN x ELSE y]
  OBVIOUS
<1>3. s = [i \in 1..2 |-> s[i]]
  <2> HIDE DEF s
  <2> QED
    BY <1>1
<1> HIDE DEF s
<1>4. [i \in 1..2 |-> s[i]] = [i \in 1..2 |-> IF i = 1 THEN x ELSE y]
  BY <1>1
<1>5. s = <<x, y>>
  BY <1>2, <1>3, <1>4, Zenon
<1> QED
  BY <1>5 DEF s

LEMMA Triple ==
    ASSUME NEW x, NEW y, NEW z
    PROVE  <<x, y>> \o <<z>> = <<x, y, z>>
<1> DEFINE s == <<x, y>> \o <<z>>
<1>1. s \in Seq({x, y, z}) /\ Len(s) = 3 /\ s[1] = x /\ s[2] = y /\ s[3] = z
  OBVIOUS
<1>2. <<x, y, z>> = [i \in 1..3 |-> IF i = 1 THEN x ELSE IF i = 2 THEN y ELSE z]
  OBVIOUS
<1>3. s = [i \in 1..3 |-> s[i]]
  <2> HIDE DEF s
  <2> QED
    BY <1>1
<1> HIDE DEF s
<1>4. [i \in 1..3 |-> s[i]] = [i \in 1..3 |-> IF i = 1 THEN x ELSE IF i = 2 THEN y ELSE z]
  BY <1>1
<1>5. s = <<x, y, z>>
  BY <1>2, <1>3, <1>4, Zenon
<1> QED
  BY <1>5 DEF s

LEMMA Quadruple ==
    ASSUME NEW w, NEW x, NEW y, NEW z
    PROVE  <<w>> \o <<x, y, z>> = <<w, x, y, z>> /\ <<w>> \o <<x, y>> = <<w, x, y>>
<1> DEFINE s == <<w>> \o <<x, y, z>>
           r == <<w>> \o <<x, y>>
<1>1. s \in Seq({w, x, y, z}) /\ Len(s) = 4 /\ s[1] = w /\ s[2] = x /\ s[3] = y /\ s[4] = z
  OBVIOUS
<1>2. r \in Seq({w, x, y}) /\ Len(r) = 3 /\ r[1] = w /\ r[2] = x /\ r[3] = y
  OBVIOUS
<1>3. <<w, x, y, z>> = [i \in 1..4 |-> IF i = 1 THEN w ELSE IF i = 2 THEN x ELSE
                                       IF i = 3 THEN y ELSE z]
  OBVIOUS
<1>4. <<w, x, y>> = [i \in 1..3 |-> IF i = 1 THEN w ELSE IF i = 2 THEN x ELSE y]
  OBVIOUS
<1> HIDE DEF s, r
<1>5. s = [i \in 1..4 |-> s[i]] /\ r = [i \in 1..3 |-> r[i]]
  BY <1>1, <1>2
<1>6. [i \in 1..4 |-> s[i]] = [i \in 1..4 |-> IF i = 1 THEN w ELSE IF i = 2 THEN x ELSE
                                             IF i = 3 THEN y ELSE z]
  BY <1>1
<1>7. [i \in 1..3 |-> r[i]] = [i \in 1..3 |-> IF i = 1 THEN w ELSE IF i = 2 THEN x ELSE y]
  BY <1>2
<1>8. s = <<w, x, y, z>>
  BY <1>3, <1>5, <1>6, Zenon
<1>9. r = <<w, x, y>>
  BY <1>4, <1>5, <1>7, Zenon
<1> QED
  BY <1>8, <1>9 DEF s, r

LEMMA Concats ==
    /\ <<"levtr">> \o <<"station">> \o <<"data">> = <<"levtr", "station", "data">>
    /\ <<"levtr">> \o <<>> \o <<"data">> = <<"levtr", "data">>
    /\ <<>> \o <<"station">> \o <<"data">> = <<"station", "data">>
    /\ <<>> \o <<>> \o <<"data">> = <<"data">>
<1>1. /\ <<"levtr">> \o <<"station">> = <<"levtr", "station">>
      /\ <<"levtr", "station">> \o <<"data">> = <<"levtr", "station", "data">>
      /\ <<"levtr">> \o <<"data">> = <<"levtr", "data">>
      /\ <<"station">> \o <<"data">> = <<"station", "data">>
  BY Pair, Triple, Zenon
<1>2. /\ <<"levtr">> \o <<>> = <<"levtr">> /\ <<>> \o <<"station">> = <<"station">>
      /\ <<>> \o <<>> = <<>> /\ <<>> \o <<"data">> = <<"data">>
  OBVIOUS
<1> QED
  BY <1>1, <1>2, Zenon

\* What a call that inserts has to do; the level is looked for before the station is.
LEMMA TodoShape ==
    ASSUME NEW pending \in {<<>>, <<"pending">>}, NEW levtr \in {<<>>, <<"levtr">>},
           NEW station \in {<<>>, <<"station">>}
    PROVE  LET rest == levtr \o station \o <<"data">>
               todo == pending \o rest
           IN  /\ todo \in InsertTodos \cup PendingTodos /\ todo # <<>>
               /\ Head(todo) = "pending" <=> pending = <<"pending">>
               /\ (IF Head(todo) = "pending" THEN Tail(todo) ELSE todo) = rest
               /\ rest \in StationTodos <=> station = <<"station">>
               /\ rest \in LevtrTodos <=> levtr = <<"levtr">>
<1>0. <<>> # <<"levtr">> /\ <<>> # <<"station">> /\ <<>> # <<"pending">>
  OBVIOUS
<1>1. levtr \o station \o <<"data">> \in InsertTodos
      /\ (levtr \o station \o <<"data">> \in StationTodos <=> station = <<"station">>)
      /\ (levtr \o station \o <<"data">> \in LevtrTodos <=> levtr = <<"levtr">>)
  <2>1. /\ <<"data">> \notin StationTodos \cup LevtrTodos /\ <<"data">> \in InsertTodos
        /\ <<"levtr", "data">> \in (LevtrTodos \cap InsertTodos) \ StationTodos
        /\ <<"station", "data">> \in (StationTodos \cap InsertTodos) \ LevtrTodos
        /\ <<"levtr", "station", "data">> \in StationTodos \cap LevtrTodos \cap InsertTodos
    BY TodoSteps DEF StationTodos, LevtrTodos, InsertTodos
  <2> QED
    BY <1>0, <2>1, Concats
<1>2. ASSUME NEW rest \in InsertTodos
      PROVE  /\ <<"pending">> \o rest \in PendingTodos /\ <<"pending">> \o rest # <<>>
             /\ Head(<<"pending">> \o rest) = "pending" /\ Tail(<<"pending">> \o rest) = rest
             /\ <<>> \o rest = rest /\ rest # <<>> /\ Head(rest) # "pending"
  <2>1. /\ <<"pending">> \o <<"levtr", "station", "data">> = <<"pending", "levtr", "station", "data">>
        /\ <<"pending">> \o <<"levtr", "data">> = <<"pending", "levtr", "data">>
        /\ <<"pending">> \o <<"station", "data">> = <<"pending", "station", "data">>
    BY Quadruple, Zenon
  <2>2. <<"pending">> \o <<"data">> = <<"pending", "data">>
    BY Pair, Zenon
  <2>3. /\ <<>> \o <<"levtr", "station", "data">> = <<"levtr", "station", "data">>
        /\ <<>> \o <<"levtr", "data">> = <<"levtr", "data">>
        /\ <<>> \o <<"station", "data">> = <<"station", "data">> /\ <<>> \o <<"data">> = <<"data">>
    OBVIOUS
  <2>4. rest \in {<<"levtr", "station", "data">>, <<"levtr", "data">>, <<"station", "data">>, <<"data">>}
    BY DEF InsertTodos
  <2>5. <<"pending">> \o rest \in PendingTodos
    BY <2>1, <2>2, <2>4, Zenon DEF PendingTodos
  <2>6. Head(<<"pending">> \o rest) = "pending" /\ Tail(<<"pending">> \o rest) = rest
    BY <2>1, <2>2, <2>4, TodoSteps, Zenon
  <2>7. <<>> \o rest = rest
    BY <2>3, <2>4, Zenon
  <2>8. rest # <<>> /\ Head(rest) # "pending"
    BY <2>4, TodoSteps
  <2>9. <<"pending">> \o rest # <<>>
    <3>1. \A p \in PendingTodos : p # <<>>
      BY DEF PendingTodos
    <3> QED
      BY <2>5, <3>1
  <2> QED
    BY <2>5, <2>6, <2>7, <2>8, <2>9
<1> DEFINE rest == levtr \o station \o <<"data">>
<1> HIDE DEF rest
<1>3. rest \in InsertTodos
  BY <1>1 DEF rest
<1>4. CASE pending = <<>>
  BY <1>0, <1>1, <1>2, <1>3, <1>4 DEF rest
<1>5. CASE pending = <<"pending">>
  BY <1>1, <1>2, <1>3, <1>5 DEF rest
<1> QED
  BY <1>4, <1>5

----------------------------------------------------------------------------
(* What a transaction knows of stations, and what its calls stored         *)

\* Only DB::vacuum removes stations and levels.
Keeps(T) == T.by # "vacuum" => \A t \in RefTbl : T.snap[t] \subseteq T.view[t]

\* A station not seen twice has one row if one was added.
Once(T) ==
    \A r \in T.view.station : r.id \notin IdsIn(T.snap.station) =>
        \/ Doubled(T.snap, r.key)
        \/ \A x \in T.view.station \cup T.snap.station : x.key = r.key => x = r

\* A row may be added for a station that was seen twice, or not at all.
Addable(T, k) ==
    Doubled(T.snap, k) \/ \A x \in T.view.station \cup T.snap.station : x.key # k

\* Values are written under no station that was seen twice.
Alone(T) ==
    \A r \in T.view.data \ T.snap.data : \A s \in T.snap.station :
        r.st = s.id => ~Doubled(T.snap, s.key)

\* What was stored is among the values that the transaction has written.
Stores(T, S) ==
    \A w \in S : \E r \in T.view.data \ T.snap.data :
        /\ r.val = w.val
        /\ \E x \in T.view.station : x.key = w.slot.key /\ x.id = r.st
        /\ \E l \in T.view.levtr : l.lt = w.slot.lt /\ l.id = r.lt

\* The station cached is one to add, or was not seen twice.
BatchKnows(T, l) ==
    T.state = "open" =>
        /\ l.key # NoStation /\ l.id = MissingId => Addable(T, l.key)
        /\ \A s \in T.snap.station : s.id = l.id => ~Doubled(T.snap, s.key)

\* A station left pending is one to add.
PendingKnows(T, a) == a # NoCall /\ Head(a.todo) = "pending" => Addable(T, a.prev)

History(T, S, l, a) ==
    Keeps(T) /\ Once(T) /\ Alone(T) /\ Stores(T, S) /\ BatchKnows(T, l) /\ PendingKnows(T, a)

HistoryInv == \A c \in Conns : History(tx[c], stored[c], last[c], call[c])

LEMMA PlainHistory ==
    ASSUME NEW T, NEW l, NEW a, T.view = T.snap,
           T.state = "open" => l = NothingCached /\ \A s \in T.snap.station : s.id # MissingId,
           a = NoCall \/ Head(a.todo) # "pending"
    PROVE  History(T, {}, l, a)
  BY DEF History, Keeps, Once, Alone, Stores, BatchKnows, PendingKnows, IdsIn, NothingCached

----------------------------------------------------------------------------
(* Steps of one connection                                                 *)

\* A step of connection c, which leaves it with transaction T, call b, the
\* Transaction object done or not (f), the history S, and l in its batch.
Leaves(c, T, b, f, S, l) ==
    /\ tx' = [tx EXCEPT ![c] = T]
    /\ call' = [call EXCEPT ![c] = b]
    /\ fired' = [fired EXCEPT ![c] = f]
    /\ stored' = [stored EXCEPT ![c] = S]
    /\ last' = [last EXCEPT ![c] = l]

LEMMA LeavesCalls ==
    ASSUME Inv, HistoryInv, NEW c \in Conns, NEW T, NEW b, NEW f, NEW S, NEW l,
           Leaves(c, T, b, f, S, l),
           f \in BOOLEAN, S \in SUBSET [slot : Slots, val : Vals],
           b # NoCall => CallShape(b, T, l),
           f => b = NoCall /\ T = NoTransaction,
           S # {} => T.state = "open" /\ T.by = "program",
           BatchShape(T, l), History(T, S, l, b)
    PROVE  CallsInv' /\ HistoryInv'
<1>1. tx \in [Conns -> Tx] /\ fired \in [Conns -> BOOLEAN]
      /\ stored \in [Conns -> SUBSET [slot : Slots, val : Vals]]
      /\ call = [d \in Conns |-> call[d]] /\ last \in [Conns -> Cached]
  BY DEF Inv, ServerInv, TablesTyped, CallsInv
<1>2. tx'[c] = T /\ call'[c] = b /\ fired'[c] = f /\ stored'[c] = S /\ last'[c] = l
  BY <1>1 DEF Leaves
<1>3. \A o \in Conns \ {c} : tx'[o] = tx[o] /\ call'[o] = call[o] /\ fired'[o] = fired[o]
                             /\ stored'[o] = stored[o] /\ last'[o] = last[o]
  BY <1>1 DEF Leaves
<1>4. call' = [d \in Conns |-> call'[d]]
  BY <1>1 DEF Leaves
<1>5. fired' \in [Conns -> BOOLEAN] /\ stored' \in [Conns -> SUBSET [slot : Slots, val : Vals]]
      /\ last' \in [Conns -> Cached]
  BY <1>1 DEF Leaves, BatchShape
<1>6. \A d \in Conns : Sending(d)' => CallShape(call'[d], tx'[d], last'[d])
  BY <1>2, <1>3 DEF Inv, CallsInv, Sending
<1>7. \A d \in Conns : fired'[d] => ~Sending(d)' /\ tx'[d] = NoTransaction
  BY <1>2, <1>3 DEF Inv, CallsInv, Sending
<1>8. \A d \in Conns : stored'[d] # {} => tx'[d].state = "open" /\ tx'[d].by = "program"
  BY <1>2, <1>3 DEF Inv, CallsInv
<1>9. \A d \in Conns : BatchShape(tx'[d], last'[d])
  BY <1>2, <1>3 DEF Inv, CallsInv
<1>10. \A d \in Conns : /\ CallShape(call'[d], tx'[d], last'[d]) <=> CallShape(call[d], tx[d], last[d])'
                        /\ BatchShape(tx'[d], last'[d]) <=> BatchShape(tx[d], last[d])'
  BY DEF CallShape, InsertShape, BatchShape, Rest, NothingCached
<1>11. CallsInv'
  BY <1>4, <1>5, <1>6, <1>7, <1>8, <1>9, <1>10 DEF CallsInv
<1>12. \A d \in Conns : History(tx'[d], stored'[d], last'[d], call'[d])
  BY <1>2, <1>3 DEF HistoryInv
<1>13. \A d \in Conns : History(tx'[d], stored'[d], last'[d], call'[d]) <=>
                        History(tx[d], stored[d], last[d], call[d])'
  BY DEF History, Keeps, Once, Alone, Stores, BatchKnows, PendingKnows, Addable, Doubled
<1> QED
  BY <1>11, <1>12, <1>13 DEF HistoryInv

LEMMA Same ==
    ASSUME Inv, NEW c \in Conns
    PROVE  /\ tx = [tx EXCEPT ![c] = tx[c]]
           /\ call = [call EXCEPT ![c] = call[c]]
           /\ fired = [fired EXCEPT ![c] = fired[c]]
           /\ stored = [stored EXCEPT ![c] = stored[c]]
           /\ last = [last EXCEPT ![c] = last[c]]
           /\ fired[c] \in BOOLEAN /\ stored[c] \in SUBSET [slot : Slots, val : Vals]
           /\ call[c] # NoCall => CallShape(call[c], tx[c], last[c])
           /\ fired[c] => call[c] = NoCall /\ tx[c] = NoTransaction /\ stored[c] = {}
           /\ fired[c] => last[c] = NothingCached
           /\ stored[c] # {} => tx[c].state = "open" /\ tx[c].by = "program"
           /\ BatchShape(tx[c], last[c]) /\ last[c] \in Cached
  BY DEF Inv, ServerInv, TablesTyped, CallsInv, Sending, NoTransaction, BatchShape

\* Rows of one table that have one id, in two copies.
LEMMA OneRow ==
    ASSUME Inv, NEW D \in Copies, NEW E \in Copies, NEW t \in RefTbl,
           NEW x \in D[t], NEW y \in E[t], x.id = y.id
    PROVE  x = y
  BY DEF Inv, ServerInv, Named, Kin, RefTbl, Tbl

LEMMA NothingKnown == BatchShape(NoTransaction, NothingCached) /\ NothingCached \in Cached
  BY DEF BatchShape, NoTransaction, NothingCached, Cached

\* What the station left pending by the last call is, if there is one.
LEMMA PendingIsAddable ==
    ASSUME Inv, HistoryInv, NEW c \in Conns, NEW key, tx[c].state = "open",
           Pending(c, key) = <<"pending">>
    PROVE  last[c].key \in Stations /\ last[c].key # key /\ Addable(tx[c], last[c].key)
<1>1. <<>> # <<"pending">>
  OBVIOUS
<1>2. last[c].key # key /\ last[c].key # NoStation /\ last[c].id = MissingId
  BY <1>1 DEF Pending, HaveStation
<1>3. last[c] \in Cached
  BY Same
<1> QED
  BY <1>2, <1>3 DEF HistoryInv, History, BatchKnows, Cached

\* A station of which the transaction sees two rows may get another.
LEMMA AmbiguousIsAddable ==
    ASSUME Inv, HistoryInv, NEW c \in Conns, NEW key, Ambiguous(c, key)
    PROVE  Addable(tx[c], key)
<1>1. PICK r, s \in RowsOf(tx[c].view, key) : r # s
  BY DEF Ambiguous
<1>2. {tx[c].snap, tx[c].view} \subseteq Copies /\ "station" \in RefTbl
  BY DEF Copies, RefTbl
<1>3. r \in tx[c].view.station /\ s \in tx[c].view.station /\ r.key = key /\ s.key = key
  BY DEF RowsOf
<1>4. Once(tx[c])
  BY DEF HistoryInv, History
<1>5. ASSUME NEW x \in tx[c].view.station, x \notin tx[c].snap.station
      PROVE  x.id \notin IdsIn(tx[c].snap.station)
  BY <1>2, <1>5, OneRow DEF IdsIn
<1>6. CASE r \in tx[c].snap.station /\ s \in tx[c].snap.station
  BY <1>1, <1>3, <1>6 DEF Doubled, RowsOf, Addable
<1>7. CASE r \notin tx[c].snap.station
  BY <1>1, <1>3, <1>4, <1>5, <1>7 DEF Once, Addable
<1>8. CASE s \notin tx[c].snap.station
  BY <1>1, <1>3, <1>4, <1>5, <1>8 DEF Once, Addable
<1> QED
  BY <1>6, <1>7, <1>8

\* The station that get_station returns, once it is cached.
LEMMA StationFound ==
    ASSUME Inv, HistoryInv, NEW c \in Conns, NEW key \in Stations, tx[c].state = "open",
           tx[c].by = "program", HaveStation(c, key) \/ ~Ambiguous(c, key)
    PROVE  LET l == GetStation(c, key)
           IN  l.key = key /\ BatchShape(tx[c], l) /\ BatchKnows(tx[c], l)
<1> DEFINE l == GetStation(c, key)
           R == Lookup(c, key)
           T == tx[c]
<1>1. CASE HaveStation(c, key)
  BY <1>1, Same DEF GetStation, HaveStation, HistoryInv, History
<1>2. CASE ~HaveStation(c, key)
  <2>1. {T.snap, T.view} \subseteq Copies /\ "station" \in RefTbl
    BY DEF Copies, RefTbl
  <2>2. T.snap.station \subseteq T.view.station
    BY <2>1 DEF HistoryInv, History, Keeps
  <2>3. T.view \in TableSet /\ T.snap \in TableSet
    BY DEF Inv, ServerInv, TablesTyped, Tx
  <2>4. CASE R = {}
    <3>1. l = [key |-> key, id |-> MissingId]
      BY <1>2, <2>4 DEF GetStation
    <3>2. l.key = key /\ l.id = MissingId
      BY <3>1
    <3>3. Addable(T, key)
      BY <2>2, <2>4 DEF Lookup, RowsOf, Addable
    <3>4. \A s \in T.snap.station : s.id # MissingId
      BY <2>3 DEF TableSet, StationRow, MissingId
    <3>5. BatchShape(T, l)
      BY <3>1, <3>2, NoStationAssumption DEF BatchShape, Cached
    <3> HIDE DEF l, T
    <3> QED
      BY <3>2, <3>3, <3>4, <3>5 DEF BatchKnows, l, T
  <2>5. CASE R # {}
    <3>1. PICK r \in R : l = [key |-> key, id |-> r.id]
      <4>1. (CHOOSE r \in R : TRUE) \in R
        BY <2>5
      <4> QED
        BY <1>2, <2>5, <4>1 DEF GetStation
    <3>2. l.key = key /\ l.id = r.id /\ r \in T.view.station /\ r.key = key
      BY <3>1 DEF Lookup, RowsOf
    <3>3. r.id \in 1..MaxId
      BY <2>3, <3>2 DEF TableSet, StationRow
    <3>4. r.id # MissingId
      BY <3>3 DEF MissingId
    <3>5. BatchShape(T, l)
      BY <3>1, <3>2, <3>3, <3>4, NoStationAssumption DEF BatchShape, Cached, RowsOf
    <3>6. ASSUME NEW s \in T.snap.station, s.id = r.id
          PROVE  ~Doubled(T.snap, s.key)
      <4>1. s = r
        BY <2>1, <3>2, <3>6, OneRow
      <4>2. \A x \in RowsOf(T.snap, key) : x \in RowsOf(T.view, key)
        BY <2>2 DEF RowsOf
      <4> QED
        BY <1>2, <3>2, <4>1, <4>2 DEF Doubled, Ambiguous
    <3> HIDE DEF l, T
    <3> QED
      BY <3>2, <3>4, <3>5, <3>6 DEF BatchKnows, T, l
  <2> QED
    BY <2>4, <2>5
<1> QED
  BY <1>1, <1>2

LEMMA ToShape ==
    ASSUME NEW a, NEW kind, NEW prev, NEW todo
    PROVE  LET b == To(a, kind, prev, todo)
           IN  /\ b = [kind |-> b.kind, key |-> b.key, lt |-> b.lt, val |-> b.val,
                       prev |-> b.prev, todo |-> b.todo]
               /\ b.kind = kind /\ b.key = a.key /\ b.lt = a.lt /\ b.val = a.val
               /\ b.prev = prev /\ b.todo = todo
  BY DEF To

\* A call that leaves connection c with call b and l in its batch.
Begins(c, b, l) ==
    /\ ~fired[c] /\ UNCHANGED <<db, tx, fired, stored>>
    /\ call' = [call EXCEPT ![c] = b] /\ last' = [last EXCEPT ![c] = l]
    /\ b # NoCall => CallShape(b, tx[c], l)
    /\ BatchShape(tx[c], l) /\ BatchKnows(tx[c], l) /\ PendingKnows(tx[c], b)

LEMMA InsertBegins ==
    ASSUME Inv, HistoryInv, NEW c \in Conns, NEW a \in Requests[c], tx[c].state = "open",
           InsertData(c, a)
    PROVE  \E b, l : Begins(c, b, l)
<1> DEFINE T == tx[c]
           l == GetStation(c, a.key)
           pending == Pending(c, a.key)
           levtr == IF LevTrRows(T.view, a.lt) = {} THEN <<"levtr">> ELSE <<>>
           station == IF l.id = MissingId THEN <<"station">> ELSE <<>>
           rest == levtr \o station \o <<"data">>
           todo == pending \o rest
           b == To(a, "insert", last[c].key, todo)
<1>1. a.key \in Stations /\ a.lt \in LevTrs /\ a.val \in Vals
  BY RequestsAssumption
<1>2. /\ HaveStation(c, a.key) \/ ~Ambiguous(c, a.key)
      /\ Call(c, a, "insert", todo, l)
  BY DEF InsertData
<1>3. pending \in {<<>>, <<"pending">>} /\ levtr \in {<<>>, <<"levtr">>}
      /\ station \in {<<>>, <<"station">>} /\ <<>> # <<"levtr">> /\ <<>> # <<"station">>
  BY DEF Pending
<1> HIDE DEF T, l, pending
<1>4. /\ todo \in InsertTodos \cup PendingTodos /\ todo # <<>>
      /\ Head(todo) = "pending" => pending = <<"pending">>
      /\ (IF Head(todo) = "pending" THEN Tail(todo) ELSE todo) = rest
      /\ rest \in StationTodos <=> station = <<"station">>
      /\ rest \in LevtrTodos <=> levtr = <<"levtr">>
  <2> HIDE DEF levtr, station
  <2> QED
    BY <1>3, TodoShape
<1>5. ~fired[c] /\ T.by = "program"
  BY <1>2 DEF Call, Idle, T
<1>6. l.key = a.key /\ BatchShape(T, l) /\ BatchKnows(T, l)
  BY <1>1, <1>2, <1>5, StationFound DEF T, l
<1>7. pending = <<"pending">> => /\ last[c].key \in Stations /\ last[c].key # a.key
                                 /\ Addable(T, last[c].key)
  BY PendingIsAddable DEF pending, T
<1>8. rest \in StationTodos <=> l.id = MissingId
  BY <1>3, <1>4
<1>9. rest \notin LevtrTodos => LevTrRows(T.view, a.lt) # {}
  BY <1>3, <1>4
<1> HIDE DEF rest, todo, levtr, station
<1>10. /\ b = [kind |-> b.kind, key |-> b.key, lt |-> b.lt, val |-> b.val,
               prev |-> b.prev, todo |-> b.todo]
       /\ b.kind = "insert" /\ b.key = a.key /\ b.lt = a.lt /\ b.val = a.val
       /\ b.prev = last[c].key /\ b.todo = todo
  BY ToShape
<1>11. call' = [call EXCEPT ![c] = b] /\ last' = [last EXCEPT ![c] = l]
       /\ UNCHANGED <<db, tx, fired, stored>>
  BY <1>2, <1>4 DEF Call
<1> HIDE DEF b
<1>12. Rest(b) = rest
  BY <1>4, <1>10 DEF Rest
<1>13. InsertShape(b, T, l)
  BY <1>4, <1>5, <1>6, <1>8, <1>9, <1>10, <1>12 DEF InsertShape
<1>14. Head(b.todo) = "pending" => b.prev \in Stations /\ b.prev # b.key /\ l.key = b.key
  BY <1>4, <1>6, <1>7, <1>10
<1>15. CallShape(b, T, l)
  BY <1>1, <1>10, <1>13, <1>14 DEF CallShape, T
<1>16. PendingKnows(T, b)
  BY <1>4, <1>7, <1>10 DEF PendingKnows
<1> QED
  BY <1>5, <1>6, <1>11, <1>15, <1>16 DEF Begins, T

LEMMA RefusalBegins ==
    ASSUME Inv, HistoryInv, NEW c \in Conns, NEW a \in Requests[c], tx[c].state = "open",
           InsertRefused(c, a)
    PROVE  \E b, l : Begins(c, b, l)
<1> DEFINE l == [key |-> a.key, id |-> MissingId]
           todo == Pending(c, a.key)
           b == IF todo # <<>> THEN To(a, "refused", last[c].key, todo) ELSE NoCall
<1>1. a.key \in Stations /\ a.lt \in LevTrs /\ a.val \in Vals
  BY RequestsAssumption
<1>2. ~HaveStation(c, a.key) /\ Ambiguous(c, a.key) /\ Call(c, a, "refused", todo, l)
  BY DEF InsertRefused
<1>3. todo \in {<<>>, <<"pending">>}
  BY DEF Pending
<1>4. ~fired[c] /\ tx[c].by = "program"
  BY <1>2 DEF Call, Idle
<1>5. call' = [call EXCEPT ![c] = b] /\ last' = [last EXCEPT ![c] = l]
      /\ UNCHANGED <<db, tx, fired, stored>>
  BY <1>2 DEF Call
<1>6. BatchShape(tx[c], l)
  BY <1>1, <1>4, NoStationAssumption DEF BatchShape, Cached
<1>7. BatchKnows(tx[c], l)
  <2>1. tx[c].snap \in TableSet
    BY DEF Inv, ServerInv, TablesTyped, Tx
  <2>2. \A s \in tx[c].snap.station : s.id # MissingId
    BY <2>1 DEF TableSet, StationRow, MissingId
  <2> QED
    BY <1>2, <2>2, AmbiguousIsAddable DEF BatchKnows
<1>8. CASE todo = <<"pending">>
  <2>1. /\ last[c].key \in Stations /\ last[c].key # a.key
        /\ Addable(tx[c], last[c].key)
    BY <1>8, PendingIsAddable
  <2>2. b = To(a, "refused", last[c].key, <<"pending">>)
    BY <1>8
  <2>3. /\ b = [kind |-> b.kind, key |-> b.key, lt |-> b.lt, val |-> b.val,
                prev |-> b.prev, todo |-> b.todo]
        /\ b.kind = "refused" /\ b.key = a.key /\ b.lt = a.lt /\ b.val = a.val
        /\ b.prev = last[c].key /\ b.todo = <<"pending">>
    BY <2>2, ToShape
  <2> HIDE DEF b
  <2>4. CallShape(b, tx[c], l)
    BY <1>1, <1>4, <2>1, <2>3 DEF CallShape
  <2>5. PendingKnows(tx[c], b)
    BY <2>1, <2>3 DEF PendingKnows
  <2> QED
    BY <1>4, <1>5, <1>6, <1>7, <2>4, <2>5 DEF Begins
<1>9. CASE todo = <<>>
  <2>1. b = NoCall
    BY <1>9
  <2> HIDE DEF b, l, todo
  <2> QED
    BY <1>4, <1>5, <1>6, <1>7, <2>1 DEF Begins, PendingKnows
<1> QED
  BY <1>3, <1>8, <1>9

LEMMA RemovalBegins ==
    ASSUME Inv, HistoryInv, NEW c \in Conns, NEW a \in Requests[c], tx[c].state = "open",
           Call(c, a, "remove", <<"remove">>, last[c])
    PROVE  \E b, l : Begins(c, b, l)
<1> DEFINE b == To(a, "remove", last[c].key, <<"remove">>)
<1>1. a.key \in Stations /\ a.lt \in LevTrs /\ a.val \in Vals
  BY RequestsAssumption
<1>2. <<"remove">> # <<>>
  OBVIOUS
<1>3. ~fired[c] /\ tx[c].by = "program" /\ call' = [call EXCEPT ![c] = b]
      /\ last' = [last EXCEPT ![c] = last[c]] /\ UNCHANGED <<db, tx, fired, stored>>
  BY <1>2 DEF Call, Idle
<1>4. /\ b = [kind |-> b.kind, key |-> b.key, lt |-> b.lt, val |-> b.val,
              prev |-> b.prev, todo |-> b.todo]
      /\ b.kind = "remove" /\ b.key = a.key /\ b.lt = a.lt /\ b.val = a.val
      /\ b.todo = <<"remove">>
  BY ToShape
<1> HIDE DEF b
<1>5. CallShape(b, tx[c], last[c]) /\ PendingKnows(tx[c], b)
  BY <1>1, <1>3, <1>4, TodoSteps DEF CallShape, PendingKnows
<1> QED
  BY <1>3, <1>5, Same DEF Begins, HistoryInv, History

LEMMA BeginsCalls ==
    ASSUME Inv, HistoryInv, NEW c \in Conns, NEW b, NEW l, Begins(c, b, l)
    PROVE  CallsInv' /\ HistoryInv'
<1>1. Leaves(c, tx[c], b, FALSE, stored[c], l)
  BY Same DEF Begins, Leaves
<1>2. History(tx[c], stored[c], l, b)
  BY DEF Begins, HistoryInv, History
<1> QED
  BY <1>1, <1>2, LeavesCalls, Same DEF Begins

\* A value that call a does not file is filed in another slot.
LEMMA OtherSlots ==
    ASSUME Inv, NEW c \in Conns, Sending(c),
           NEW w \in stored[c], w.slot # Slot(call[c]),
           NEW r \in tx[c].view.data,
           NEW x \in tx[c].view.station, x.key = w.slot.key, x.id = r.st,
           NEW l \in tx[c].view.levtr, l.lt = w.slot.lt, l.id = r.lt
    PROVE  r \notin DataRows(tx[c].view, call[c].key, call[c].lt)
<1> DEFINE V == tx[c].view
           a == call[c]
<1> SUFFICES ASSUME r \in DataRows(V, a.key, a.lt)
             PROVE  FALSE
  OBVIOUS
<1>1. PICK y \in RowsOf(V, a.key), m \in LevTrRows(V, a.lt) : y.id = r.st /\ m.id = r.lt
  BY DEF DataRows, IdsIn
<1>2. y \in V.station /\ y.key = a.key /\ m \in V.levtr /\ m.lt = a.lt
  BY <1>1 DEF RowsOf, LevTrRows
<1>3. y = x /\ m = l
  <2>1. V \in Copies
    BY DEF Copies
  <2> QED
    BY <1>1, <1>2, <2>1 DEF Inv, ServerInv, Named, Kin, Tbl
<1>4. w.slot \in Slots
  BY DEF Inv, CallsInv
<1>5. w.slot = Slot(a)
  BY <1>2, <1>3, <1>4 DEF Slots, Slot
<1> QED
  BY <1>5

\* A row is added for a station that may get one.
LEMMA AddedOnce ==
    ASSUME NEW T, NEW U, U.snap = T.snap, NEW k, NEW n,
           U.view.station = T.view.station \cup {[id |-> n, key |-> k]},
           Once(T), Addable(T, k)
    PROVE  /\ Once(U)
           /\ \A j : j # k /\ Addable(T, j) => Addable(U, j)
<1> DEFINE y == [id |-> n, key |-> k]
<1>1. y.key = k
  OBVIOUS
<1> HIDE DEF y
<1>2. U.view.station = T.view.station \cup {y}
  BY DEF y
<1>3. Once(U)
  <2> SUFFICES ASSUME NEW r \in U.view.station, r.id \notin IdsIn(T.snap.station),
                      ~Doubled(T.snap, r.key),
                      NEW x \in U.view.station \cup T.snap.station, x.key = r.key
               PROVE  x = r
    BY DEF Once
  <2>1. CASE r.key = k
    BY <1>1, <1>2, <2>1 DEF Addable
  <2>2. CASE r.key # k
    BY <1>1, <1>2, <2>2 DEF Once
  <2> QED
    BY <2>1, <2>2
<1>4. \A j : j # k /\ Addable(T, j) => Addable(U, j)
  BY <1>1, <1>2 DEF Addable
<1> QED
  BY <1>3, <1>4

LEMMA WorkHistory ==
    ASSUME Inv, HistoryInv, NEW c \in Conns, NEW W, Works(c, W)
    PROVE  History([tx[c] EXCEPT !.view = W], stored'[c], CachedThen(c), call'[c])
<1> DEFINE a == call[c]
           V == tx[c].view
           Z == tx[c].snap
           T == [tx[c] EXCEPT !.view = W]
           S == stored'[c]
           l == last[c]
           m == CachedThen(c)
           others == {w \in stored[c] : w.slot # Slot(a)}
<1>1. /\ CallShape(a, tx[c], l) /\ BatchShape(tx[c], l) /\ tx[c] \in Tx /\ Effect(c, V, W, a)
      /\ Sending(c)
  BY DEF Works, Inv, CallsInv, ServerInv, TablesTyped
<1>2. T.by = tx[c].by /\ T.snap = Z /\ T.view = W /\ T.state = tx[c].state
  BY <1>1 DEF Tx
<1>3. /\ Keeps(tx[c]) /\ Once(tx[c]) /\ Alone(tx[c]) /\ Stores(tx[c], stored[c])
      /\ BatchKnows(tx[c], l) /\ PendingKnows(tx[c], a)
  BY DEF HistoryInv, History
<1>4. S = IF Len(a.todo) > 1 THEN stored[c] ELSE StoredBy(c, a)
  BY DEF Works, Inv, CallsInv
<1>5. /\ a.kind = "insert" => StoredBy(c, a) = others \cup {[slot |-> Slot(a), val |-> a.val]}
      /\ a.kind = "remove" => StoredBy(c, a) = others
      /\ a.kind \in {"vacuum", "refused"} => StoredBy(c, a) = stored[c]
  BY DEF StoredBy
<1>6. stored[c] # {} => tx[c].by = "program"
  BY DEF Inv, CallsInv
<1>7. V \in Copies /\ Z \in Copies /\ Z \in TableSet
  BY DEF Copies, Inv, ServerInv, TablesTyped, Tx
<1>8. \A w \in others : \E r \in V.data \ Z.data :
         /\ r \notin DataRows(V, a.key, a.lt)
         /\ r.val = w.val
         /\ \E x \in V.station : x.key = w.slot.key /\ x.id = r.st
         /\ \E lt \in V.levtr : lt.lt = w.slot.lt /\ lt.id = r.lt
  BY <1>1, <1>3, OtherSlots DEF Stores
<1>9. "station" \in RefTbl /\ "levtr" \in RefTbl /\ "station" \in Tbl
  BY DEF RefTbl, Tbl
<1>10. /\ Head(a.todo) = "station" => m = [l EXCEPT !.id = NewId]
       /\ Head(a.todo) = "remove" => m = NothingCached
       /\ Head(a.todo) \notin {"station", "remove"} => m = l
  BY DEF CachedThen
<1>11. NewId \in 1..MaxId /\ \A s \in Z.station : s.id # NewId /\ s.id # MissingId
  <2>1. NewId \in 1..MaxId /\ NewId \notin Taken
    BY DEF Works
  <2>2. \A s \in Z.station : s.id \in Taken
    BY <1>7, <1>9, TakenHasAll DEF Inv, ServerInv
  <2>3. \A s \in Z.station : s.id \in 1..MaxId
    BY <1>7 DEF TableSet, StationRow
  <2> QED
    BY <2>1, <2>2, <2>3 DEF MissingId
<1>12. PendingKnows(T, call'[c])
  <2>1. call'[c] = IF Len(a.todo) > 1 THEN [a EXCEPT !.todo = Tail(a.todo)] ELSE NoCall
    BY DEF Works, Inv, CallsInv
  <2>2. Len(a.todo) > 1 => CallShape([a EXCEPT !.todo = Tail(a.todo)], T, m)
    BY RestShape
  <2>3. a = [kind |-> a.kind, key |-> a.key, lt |-> a.lt, val |-> a.val,
             prev |-> a.prev, todo |-> a.todo]
    BY <1>1 DEF CallShape
  <2>4. [a EXCEPT !.todo = Tail(a.todo)].todo = Tail(a.todo)
    BY <2>3
  <2>5. Len(a.todo) > 1 => Head(Tail(a.todo)) # "pending"
    BY <1>1, TodoSteps DEF CallShape, InsertShape, InsertTodos, PendingTodos, VacuumTodos
  <2> QED
    BY <2>1, <2>4, <2>5 DEF PendingKnows
<1> HIDE DEF a, V, Z, T, S, others, l, m
<1> SUFFICES Keeps(T) /\ Once(T) /\ Alone(T) /\ Stores(T, S) /\ BatchKnows(T, m)
  BY <1>12 DEF History, a, V, Z, T, S, others, l, m
<1>13. CASE Head(a.todo) = "pending"
  <2>1. /\ W.levtr = V.levtr /\ W.data = V.data
        /\ W.station = V.station \cup {[id |-> NewId, key |-> a.prev]}
    BY <1>1, <1>13 DEF Effect, Files
  <2>2. S = stored[c]
    BY <1>1, <1>4, <1>5, <1>13, TodoSteps
    DEF CallShape, InsertShape, InsertTodos, PendingTodos, VacuumTodos
  <2>3. a.prev # a.key /\ l.key = a.key /\ m = l
    BY <1>1, <1>10, <1>13 DEF CallShape
  <2>4. a # NoCall
    BY <1>1 DEF Sending, a
  <2>5. Addable(tx[c], a.prev)
    BY <1>3, <1>13, <2>4 DEF PendingKnows
  <2>6. Once(T) /\ (Addable(tx[c], a.key) => Addable(T, a.key))
    BY <1>2, <1>3, <2>1, <2>3, <2>5, AddedOnce DEF V, Z
  <2>7. BatchKnows(T, m)
    BY <1>2, <1>3, <2>3, <2>6 DEF BatchKnows, Z
  <2>8. Keeps(T) /\ Alone(T) /\ Stores(T, S)
    BY <1>2, <1>3, <2>1, <2>2 DEF Keeps, Alone, Stores, RefTbl, V, Z
  <2> QED
    BY <2>6, <2>7, <2>8
<1>14. CASE Head(a.todo) = "levtr"
  <2>1. W.station = V.station /\ W.data = V.data /\ V.levtr \subseteq W.levtr
    BY <1>1, <1>14 DEF Effect, Files
  <2>2. S = stored[c]
    BY <1>1, <1>4, <1>14, LevtrSteps
  <2>3. m = l
    BY <1>10, <1>14
  <2>4. Once(T) /\ BatchKnows(T, m)
    BY <1>2, <1>3, <2>1, <2>3 DEF Once, BatchKnows, Addable, V, Z
  <2> QED
    BY <1>2, <1>3, <2>1, <2>2, <2>4 DEF Keeps, Alone, Stores, RefTbl, V, Z
<1>15. CASE Head(a.todo) = "station"
  <2>1. /\ W.levtr = V.levtr /\ W.data = V.data
        /\ W.station = V.station \cup {[id |-> NewId, key |-> a.key]}
    BY <1>1, <1>15 DEF Effect, Files
  <2>2. InsertShape(a, tx[c], l)
    BY <1>1, <1>15, TodoSteps DEF CallShape, VacuumTodos
  <2>3. a.todo = <<"station", "data">>
    BY <1>15, <2>2, TodoSteps DEF InsertShape, InsertTodos, PendingTodos
  <2>4. S = stored[c] /\ l.id = MissingId /\ l.key = a.key /\ tx[c].state = "open"
    BY <1>1, <1>4, <2>2, <2>3, TodoSteps DEF CallShape, InsertShape, StationTodos, Rest
  <2>5. Addable(tx[c], a.key)
    BY <1>1, <1>3, <2>4, NoStationAssumption DEF BatchKnows, CallShape
  <2>6. Once(T)
    BY <1>2, <1>3, <2>1, <2>5, AddedOnce DEF V, Z
  <2>7. m.id = NewId
    BY <1>1, <1>10, <1>15 DEF BatchShape, Cached
  <2>8. NewId # MissingId
    BY <1>11 DEF MissingId
  <2>9. BatchKnows(T, m)
    BY <1>2, <1>11, <2>7, <2>8 DEF BatchKnows
  <2>10. Keeps(T) /\ Alone(T) /\ Stores(T, S)
    BY <1>2, <1>3, <2>1, <2>4 DEF Keeps, Alone, Stores, RefTbl, V, Z
  <2> QED
    BY <2>6, <2>9, <2>10
<1>16. CASE Head(a.todo) = "data"
  <2>1. Files(c, V, W, a)
    BY <1>1, <1>16 DEF Effect
  <2>2. InsertShape(a, tx[c], l)
    BY <1>1, <1>16, TodoSteps DEF CallShape, VacuumTodos
  <2>3. a.kind = "insert" /\ a.todo = <<"data">> /\ l.key = a.key /\ tx[c].state = "open"
    BY <1>1, <1>16, <2>2, TodoSteps DEF CallShape, InsertShape, InsertTodos, PendingTodos
  <2>4. l.id # MissingId
    <3>1. Rest(a) = <<"data">>
      BY <2>3, TodoSteps DEF Rest
    <3>2. <<"data">> \notin StationTodos
      BY TodoSteps DEF StationTodos
    <3> QED
      BY <2>2, <3>1, <3>2 DEF InsertShape
  <2>5. S = others \cup {[slot |-> Slot(a), val |-> a.val]} /\ m = l
    BY <1>4, <1>5, <1>10, <1>16, <2>3, TodoSteps
  <2>6. PICK New :
           /\ W.data = (V.data \ {r \in DataRows(V, a.key, a.lt) : r.st = l.id}) \cup New
           /\ New # {}
           /\ \A y \in New : /\ y.val = a.val
                             /\ y \notin Z.data
                             /\ y.st = l.id
                             /\ \E lt \in LevTrRows(V, a.lt) : lt.id = y.lt
    BY <1>7, <2>1 DEF Files, l
  <2>7. W.station = V.station /\ W.levtr = V.levtr
    BY <2>1 DEF Files
  <2>8. Alone(T)
    <3>1. \A s \in Z.station : s.id = l.id => ~Doubled(Z, s.key)
      BY <1>3, <2>3 DEF BatchKnows, Z
    <3> QED
      BY <1>2, <1>3, <2>6, <3>1 DEF Alone, V, Z
  <2>9. Stores(T, S)
    <3>1. ASSUME NEW w \in others
          PROVE  \E r \in W.data \ Z.data :
                    /\ r.val = w.val
                    /\ \E x \in W.station : x.key = w.slot.key /\ x.id = r.st
                    /\ \E lt \in W.levtr : lt.lt = w.slot.lt /\ lt.id = r.lt
      BY <1>8, <2>6, <2>7
    <3>2. \E r \in W.data \ Z.data :
             /\ r.val = a.val
             /\ \E x \in W.station : x.key = a.key /\ x.id = r.st
             /\ \E lt \in W.levtr : lt.lt = a.lt /\ lt.id = r.lt
      <4>1. PICK r \in New : TRUE
        BY <2>6
      <4>2. r \in W.data \ Z.data /\ r.val = a.val
        BY <2>6, <4>1
      <4>3. \E lt \in V.levtr : lt.lt = a.lt /\ lt.id = r.lt
        BY <2>6, <4>1 DEF LevTrRows
      <4>4. \E x \in V.station : x.key = a.key /\ x.id = r.st
        BY <1>1, <2>3, <2>4, <2>6, <4>1 DEF BatchShape, RowsOf, V
      <4> QED
        BY <2>7, <4>2, <4>3, <4>4
    <3>3. Slot(a).key = a.key /\ Slot(a).lt = a.lt
      BY DEF Slot
    <3>4. \A w \in S : w \in others \/ (w.slot = Slot(a) /\ w.val = a.val)
      BY <2>5
    <3> QED
      BY <1>2, <3>1, <3>2, <3>3, <3>4 DEF Stores
  <2>10. Keeps(T) /\ Once(T) /\ BatchKnows(T, m)
    BY <1>2, <1>3, <2>5, <2>7 DEF Keeps, Once, BatchKnows, Addable, RefTbl, V, Z
  <2> QED
    BY <2>8, <2>9, <2>10
<1>17. CASE Head(a.todo) = "remove"
  <2>1. W.station = V.station /\ W.levtr = V.levtr
        /\ W.data = V.data \ DataRows(V, a.key, a.lt)
    BY <1>1, <1>17 DEF Effect, Files
  <2>2. a.kind = "remove" /\ a.todo = <<"remove">>
    BY <1>1, <1>17, TodoSteps DEF CallShape, InsertShape, InsertTodos, PendingTodos, VacuumTodos
  <2>3. S = others /\ m = NothingCached
    BY <1>4, <1>5, <1>10, <1>17, <2>2, TodoSteps
  <2>4. Stores(T, S)
    BY <1>2, <1>8, <2>1, <2>3 DEF Stores
  <2>5. BatchKnows(T, m)
    BY <1>2, <1>11, <2>3 DEF BatchKnows, NothingCached
  <2>6. Keeps(T) /\ Once(T) /\ Alone(T)
    BY <1>2, <1>3, <2>1 DEF Keeps, Once, Alone, RefTbl, V, Z
  <2> QED
    BY <2>4, <2>5, <2>6
<1>18. CASE Head(a.todo) \in {"vacuumLevtr", "vacuumStation"}
  <2>1. W.data = V.data /\ W.station \subseteq V.station
    BY <1>1, <1>18 DEF Effect, Files
  <2>2. a.kind = "vacuum" /\ tx[c].by = "vacuum"
    BY <1>1, <1>18, TodoSteps DEF CallShape, InsertShape, InsertTodos, PendingTodos
  <2>3. S = {}
    BY <1>4, <1>5, <1>6, <2>2
  <2>4. m = NothingCached
    BY <1>1, <1>10, <1>18, <2>2 DEF BatchShape
  <2>5. BatchKnows(T, m)
    BY <1>2, <1>11, <2>4 DEF BatchKnows, NothingCached
  <2>6. Keeps(T) /\ Once(T) /\ Alone(T) /\ Stores(T, S)
    BY <1>2, <1>3, <2>1, <2>2, <2>3 DEF Keeps, Once, Alone, Stores, V, Z
  <2> QED
    BY <2>5, <2>6
<1> QED
  BY <1>1, <1>13, <1>14, <1>15, <1>16, <1>17, <1>18 DEF Effect

\* What the batch has cached once a statement is done, on the tables it left.
LEMMA WorkBatch ==
    ASSUME Inv, NEW c \in Conns, NEW W, Works(c, W)
    PROVE  BatchShape([tx[c] EXCEPT !.view = W], CachedThen(c))
<1> DEFINE a == call[c]
           V == tx[c].view
           T == [tx[c] EXCEPT !.view = W]
           l == last[c]
           m == CachedThen(c)
<1>1. /\ CallShape(a, tx[c], l) /\ BatchShape(tx[c], l) /\ tx[c] \in Tx /\ Effect(c, V, W, a)
      /\ NewId \in 1..MaxId
  BY DEF Works, Inv, CallsInv, ServerInv, TablesTyped
<1>2. T.by = tx[c].by /\ T.view = W /\ T.state = tx[c].state
  BY <1>1 DEF Tx
<1>3. /\ Head(a.todo) = "station" => m = [l EXCEPT !.id = NewId]
      /\ Head(a.todo) = "remove" => m = NothingCached
      /\ Head(a.todo) \notin {"station", "remove"} => m = l
  BY DEF CachedThen
<1> HIDE DEF a, V, T, l, m
<1> SUFFICES BatchShape(T, m)
  BY DEF T, m
<1>4. CASE Head(a.todo) = "station"
  <2>1. InsertShape(a, tx[c], l)
    BY <1>1, <1>4, TodoSteps DEF CallShape, VacuumTodos
  <2>2. m.id = NewId /\ m.key = a.key /\ m \in Cached /\ a.key # NoStation
    BY <1>1, <1>3, <1>4, <2>1, NoStationAssumption
    DEF BatchShape, Cached, InsertShape, CallShape
  <2>3. [id |-> NewId, key |-> a.key] \in W.station
    BY <1>1, <1>4 DEF Effect, Files
  <2> QED
    BY <1>2, <2>1, <2>2, <2>3 DEF BatchShape, RowsOf, InsertShape
<1>5. CASE Head(a.todo) = "remove"
  BY <1>3, <1>5 DEF BatchShape, Cached, NothingCached
<1>6. CASE Head(a.todo) \notin {"station", "remove"}
  <2>1. m = l
    BY <1>3, <1>6
  <2>2. tx[c].by = "program" => V.station \subseteq W.station
    <3>1. tx[c].by = "program" => Head(a.todo) \notin {"vacuumLevtr", "vacuumStation"}
      BY <1>1, TodoSteps DEF CallShape, InsertShape, InsertTodos, PendingTodos
    <3> QED
      BY <1>1, <3>1 DEF Effect, Files
  <2> QED
    BY <1>1, <1>2, <2>1, <2>2 DEF BatchShape, NothingCached, RowsOf, V
<1> QED
  BY <1>4, <1>5, <1>6

LEMMA WorkCalls ==
    ASSUME Inv, HistoryInv, NEW c \in Conns, NEW W, Works(c, W), fired' = fired
    PROVE  CallsInv' /\ HistoryInv'
<1> DEFINE a == call[c]
           T == [tx[c] EXCEPT !.view = W]
           b == IF Len(a.todo) > 1 THEN [a EXCEPT !.todo = Tail(a.todo)] ELSE NoCall
           S == IF Len(a.todo) > 1 THEN stored[c] ELSE StoredBy(c, a)
           m == CachedThen(c)
<1>1. /\ Sending(c) /\ CallShape(a, tx[c], last[c]) /\ tx[c] \in Tx
      /\ tx \in [Conns -> Tx]
  BY DEF Works, Inv, CallsInv, ServerInv, TablesTyped
<1>2. Leaves(c, T, b, fired[c], S, m)
  <2>1. tx' = [tx EXCEPT ![c] = T]
    BY <1>1 DEF Works
  <2>2. call' = [call EXCEPT ![c] = b]
    BY DEF Works
  <2>3. stored' = [stored EXCEPT ![c] = S]
    BY Same DEF Works
  <2>4. last' = [last EXCEPT ![c] = m]
    BY DEF Works
  <2> QED
    BY <2>1, <2>2, <2>3, <2>4, Same DEF Leaves
<1>3. b # NoCall => CallShape(b, T, m)
  BY RestShape
<1>4. ~fired[c]
  BY <1>1 DEF Inv, CallsInv
<1>5. T.state = tx[c].state /\ T.by = tx[c].by
  BY <1>1 DEF Tx
<1>6. S # {} => T.state = "open" /\ T.by = "program"
  <2>1. S # {} => stored[c] # {} \/ a.kind \in {"insert", "remove"}
    BY <1>1, StoredTyped
  <2>2. a.kind \in {"insert", "remove"} => tx[c].by = "program"
    BY <1>1 DEF CallShape, InsertShape
  <2>3. tx[c].state = "open"
    BY <1>1 DEF CallShape
  <2> QED
    BY <1>5, <2>1, <2>2, <2>3, Same
<1>7. S \in SUBSET [slot : Slots, val : Vals]
  BY <1>1, StoredTyped, Same
<1>8. History(T, S, m, b) /\ BatchShape(T, m)
  <2>1. stored'[c] = S /\ call'[c] = b
    BY <1>2 DEF Leaves, Inv, CallsInv
  <2>2. History(T, stored'[c], m, call'[c]) /\ BatchShape(T, m)
    BY WorkHistory, WorkBatch
  <2> HIDE DEF T, b, S, m
  <2> QED
    BY <2>1, <2>2
<1> HIDE DEF T, b, S, m
<1> QED
  BY <1>2, <1>3, <1>4, <1>6, <1>7, <1>8, LeavesCalls, Same

\* A step that leaves connection c without call and with nothing written.
LEMMA PlainCalls ==
    ASSUME Inv, HistoryInv, NEW c \in Conns, NEW T \in Tx, NEW b, NEW f \in BOOLEAN, NEW l,
           Leaves(c, T, b, f, {}, l), T.view = T.snap, BatchShape(T, l),
           T.state = "open" => l = NothingCached,
           b # NoCall => CallShape(b, T, l) /\ Head(b.todo) # "pending",
           f => b = NoCall /\ T = NoTransaction
    PROVE  CallsInv' /\ HistoryInv'
<1>1. \A s \in T.snap.station : s.id # MissingId
  BY DEF Tx, TableSet, StationRow, MissingId
<1>2. History(T, {}, l, b)
  BY <1>1, PlainHistory
<1> QED
  BY <1>2, LeavesCalls

LEMMA CallsStep == Inv /\ HistoryInv /\ [Next]_connVars => CallsInv' /\ HistoryInv'
<1> SUFFICES ASSUME Inv, HistoryInv, [Next]_connVars
             PROVE  CallsInv' /\ HistoryInv'
  OBVIOUS
<1>0. \A c \in Conns : tx[c] \in Tx
  BY DEF Inv, ServerInv, TablesTyped
<1>1. ASSUME NEW c \in Conns, Begin(c)
      PROVE  CallsInv' /\ HistoryInv'
  <2> DEFINE T == [state |-> "open", by |-> "program", snap |-> db, view |-> db]
  <2>1. Leaves(c, T, NoCall, FALSE, {}, NothingCached)
    BY <1>1, Same DEF Begin, Opened, Leaves
  <2>2. T \in Tx /\ T.view = T.snap
    BY DEF Tx, Inv, ServerInv, TablesTyped
  <2>3. BatchShape(T, NothingCached)
    BY NothingKnown DEF BatchShape, NothingCached
  <2> HIDE DEF T
  <2> QED
    BY <2>1, <2>2, <2>3, PlainCalls
<1>2. ASSUME NEW c \in Conns, Commit(c) \/ Rollback(c) \/ Die(c)
      PROVE  CallsInv' /\ HistoryInv'
  <2>1. Leaves(c, NoTransaction, NoCall, TRUE, {}, NothingCached)
    BY <1>2, Same DEF Commit, Rollback, Die, Leaves, Sending
  <2>2. NoTransaction \in Tx /\ NoTransaction.view = NoTransaction.snap
    BY EmptyTyped DEF NoTransaction, Tx
  <2> QED
    BY <2>1, <2>2, NothingKnown, PlainCalls
<1>3. ASSUME NEW c \in Conns, Abort(c), ~fired[c]
      PROVE  CallsInv' /\ HistoryInv'
  <2> DEFINE T == [tx[c] EXCEPT !.state = "aborted", !.view = tx[c].snap]
  <2>1. Leaves(c, T, NoCall, FALSE, {}, last[c])
    BY <1>3, Same DEF Abort, Leaves
  <2>2. T \in Tx /\ T.view = T.snap /\ T.state = "aborted" /\ T.by = tx[c].by
    BY <1>0 DEF Tx
  <2> HIDE DEF T
  <2>3. BatchShape(T, last[c])
    BY <2>2, Same DEF BatchShape
  <2> QED
    BY <2>1, <2>2, <2>3, PlainCalls
<1>4. ASSUME NEW c \in Conns, Send(c)
      PROVE  CallsInv' /\ HistoryInv'
  <2>1. Sending(c) /\ Room /\ WaitsFor(c) = {} /\ ~fired[c]
    BY <1>4 DEF Send, Inv, CallsInv
  <2>2. IF Refused(c, Statement(c)) THEN Abort(c) ELSE Execute(c, Statement(c))
    BY <1>4 DEF Send, Statements
  <2> QED
    BY <1>3, <2>1, <2>2, WorkMoves, WorkCalls
<1>5. ASSUME NEW c \in Conns, BreakDeadlock(c)
      PROVE  CallsInv' /\ HistoryInv'
  <2>1. Sending(c)
    BY <1>5 DEF BreakDeadlock, InDeadlock, WaitsFor, Statements
  <2> QED
    BY <1>3, <1>5, <2>1 DEF BreakDeadlock, Inv, CallsInv
<1>6. ASSUME NEW c \in Conns, NEW a, NEW kind, NEW todo, NEW cached,
             Call(c, a, kind, todo, cached), tx[c].state # "open"
      PROVE  CallsInv' /\ HistoryInv'
  <2>1. /\ call' = [call EXCEPT ![c] = NoCall] /\ last' = last
        /\ UNCHANGED <<tx, fired, stored>> /\ ~fired[c]
    BY <1>6 DEF Call, Idle
  <2>2. Leaves(c, tx[c], NoCall, FALSE, stored[c], last[c])
    BY <2>1, Same DEF Leaves
  <2>3. History(tx[c], stored[c], last[c], NoCall)
    BY DEF HistoryInv, History, PendingKnows
  <2> QED
    BY <2>2, <2>3, LeavesCalls, Same
<1>7. ASSUME NEW c \in Conns, NEW a \in Requests[c],
             InsertData(c, a) \/ InsertRefused(c, a) \/ Call(c, a, "remove", <<"remove">>, last[c])
      PROVE  CallsInv' /\ HistoryInv'
  <2>1. CASE tx[c].state = "open"
    BY <1>7, <2>1, InsertBegins, RefusalBegins, RemovalBegins, BeginsCalls
  <2>2. CASE tx[c].state # "open"
    BY <1>6, <1>7, <2>2 DEF InsertData, InsertRefused
  <2> QED
    BY <2>1, <2>2
<1>8. ASSUME NEW c \in Conns, NEW a \in Requests[c], Vacuum(c, a)
      PROVE  CallsInv' /\ HistoryInv'
  <2> DEFINE T == [state |-> "open", by |-> "vacuum", snap |-> db, view |-> db]
             b == To(a, "vacuum", NoStation, <<"vacuumLevtr", "vacuumStation">>)
  <2>1. Leaves(c, T, b, FALSE, {}, NothingCached)
    BY <1>8, Same DEF Vacuum, Opened, Leaves
  <2>2. T \in Tx /\ T.view = T.snap /\ T.state = "open" /\ T.by = "vacuum"
    BY DEF Tx, Inv, ServerInv, TablesTyped
  <2>3. BatchShape(T, NothingCached)
    BY NothingKnown DEF BatchShape, NothingCached
  <2>4. CallShape(b, T, NothingCached) /\ Head(b.todo) # "pending"
    <3>1. /\ b = [kind |-> b.kind, key |-> b.key, lt |-> b.lt, val |-> b.val,
                  prev |-> b.prev, todo |-> b.todo]
          /\ b.kind = "vacuum" /\ b.key = a.key /\ b.lt = a.lt /\ b.val = a.val
          /\ b.todo = <<"vacuumLevtr", "vacuumStation">>
      BY ToShape
    <3> HIDE DEF b, T
    <3> QED
      BY <2>2, <3>1, RequestsAssumption, TodoSteps DEF CallShape, VacuumTodos
  <2> HIDE DEF T, b
  <2> QED
    BY <2>1, <2>2, <2>3, <2>4, PlainCalls
<1>9. CASE UNCHANGED connVars
  <2>1. \A d \in Conns : /\ CallShape(call[d], tx[d], last[d])' <=> CallShape(call[d], tx[d], last[d])
                         /\ BatchShape(tx[d], last[d])' <=> BatchShape(tx[d], last[d])
    BY <1>9 DEF connVars, CallShape, InsertShape, BatchShape, Rest, NothingCached
  <2>2. \A d \in Conns : History(tx[d], stored[d], last[d], call[d])' <=>
                         History(tx[d], stored[d], last[d], call[d])
    BY <1>9 DEF connVars, History, Keeps, Once, Alone, Stores, BatchKnows, PendingKnows,
       Addable, Doubled
  <2> QED
    BY <1>9, <2>1, <2>2 DEF connVars, Inv, CallsInv, Sending, HistoryInv
<1> QED
  BY <1>1, <1>2, <1>4, <1>5, <1>7, <1>8, <1>9 DEF Next, End

----------------------------------------------------------------------------
(* Theorems                                                                *)

LEMMA InitInv == Init => Inv /\ HistoryInv
<1> SUFFICES ASSUME Init
             PROVE  Inv /\ HistoryInv
  OBVIOUS
<1>1. NoTransaction \in Tx /\ NoTransaction.view = Empty /\ NoTransaction.snap = Empty
      /\ NoTransaction.state = "idle"
  BY EmptyTyped DEF NoTransaction, Tx
<1>2. \A c \in Conns : tx[c] = NoTransaction
  BY DEF Init
<1>3. db \in TableSet /\ \A t \in Tbl : \A x, y \in db[t] : x.id = y.id => x = y
  <2>1. DOMAIN db = Tbl
    BY DatabasesAssumption DEF Init, TableSet, Tbl
  <2> QED
    BY <2>1, DatabasesAssumption DEF Init
<1>4. TablesTyped
  BY <1>1, <1>3 DEF Init, TablesTyped
<1>5. Copies \subseteq {db, Empty}
  BY <1>1, <1>2 DEF Copies
<1>6. Named /\ Keyed
  <2>1. \A t \in Tbl : \A x, y : x = y => Kin(t, x, y)
    BY DEF Kin
  <2> QED
    BY <1>3, <1>5, <2>1, EmptyTyped DEF Named, Keyed, Tbl
<1>7. \A c \in Conns, t \in Tbl : Inserted(c, t) = {} /\ Removed(c, t) = {} /\ Touched(c, t) = {}
  BY <1>1, <1>2, EmptyTyped DEF Inserted, Removed, Changed, Touched, IdsIn
<1>8. ValuesAreWhole
  BY DatabasesAssumption DEF Init, ValuesAreWhole
<1>9. Fresh /\ Locked /\ Held /\ Unreferred /\ Rooted /\ Quiet
  BY <1>1, <1>2, <1>7, EmptyTyped
  DEF Init, Fresh, Locked, Held, Unreferred, Rooted, Quiet, RefTbl, Tbl
<1>10. CallsInv
  BY <1>2, NothingKnown DEF Init, CallsInv, Sending
<1>11. HistoryInv
  <2>1. ASSUME NEW c \in Conns
        PROVE  History(NoTransaction, {}, NothingCached, NoCall)
    BY <1>1, PlainHistory
  <2> QED
    BY <2>1 DEF Init, HistoryInv
<1> QED
  BY <1>4, <1>6, <1>8, <1>9, <1>10, <1>11 DEF Inv, ServerInv

LEMMA StepInv == Inv /\ HistoryInv /\ [Next]_connVars => Inv' /\ HistoryInv'
  BY ServerStep, CallsStep DEF Inv

\* A value is committed with its station and its level, and they stay as long as
\* it does: no vacuum or removal takes them away from under what another
\* connection has just written (the foreign keys and row locks of PostgreSQL).
THEOREM WholeValues == Spec => []ValuesAreWhole
<1>1. Inv => ValuesAreWhole
  BY DEF Inv, ServerInv
<1> QED
  BY <1>1, InitInv, StepInv, PTL DEF Spec

\* The rows that a commit adds to a table are those its transaction has written.
LEMMA CommitAdds ==
    ASSUME Inv, NEW c \in Conns, Commit(c), NEW t \in Tbl, NEW r \in db'[t] \ db[t]
    PROVE  r \in tx[c].view[t] \ tx[c].snap[t] /\ (t # "data" => r.id \notin IdsIn(tx[c].snap[t]))
<1>1. r \in Inserted(c, t) \cup Changed(c, t)
  <2>1. db' = Merged(c)
    BY DEF Commit
  <2> QED
    BY <2>1, MergedRows DEF Inv, ServerInv
<1>2. r \in tx[c].view[t] \ tx[c].snap[t]
  BY <1>1 DEF Inserted, Changed, IdsIn
<1>3. ASSUME t # "data", r.id \in IdsIn(tx[c].snap[t])
      PROVE  FALSE
  <2>1. PICK x \in tx[c].snap[t] : x.id = r.id
    BY <1>3 DEF IdsIn
  <2>2. {tx[c].snap, tx[c].view} \subseteq Copies
    BY DEF Copies
  <2> QED
    BY <1>2, <1>3, <2>1, <2>2 DEF Inv, ServerInv, Named, Kin
<1> QED
  BY <1>2, <1>3

\* Unless its transaction already saw a station twice, a connection commits a row
\* for it only where it saw none, and one row only (get_station, maybe_get_id and
\* insert_new, no constraint on fixed stations).
THEOREM StationsStaySingle == Spec => KnownStationsStaySingle
<1>1. ASSUME Inv, HistoryInv, NEW c \in Conns, Commit(c), NEW r \in db'.station \ db.station,
             ~Doubled(tx[c].snap, r.key)
      PROVE  {x \in tx[c].snap.station \cup (db'.station \ db.station) : x.key = r.key} = {r}
  <2>1. /\ \A x \in db'.station \ db.station : x \in tx[c].view.station
        /\ r.id \notin IdsIn(tx[c].snap.station)
    BY <1>1, CommitAdds DEF Tbl
  <2>2. \A x \in tx[c].view.station \cup tx[c].snap.station : x.key = r.key => x = r
    BY <1>1, <2>1 DEF HistoryInv, History, Once
  <2> QED
    BY <2>1, <2>2
<1>2. Inv /\ HistoryInv /\ [Next]_connVars =>
        [\A c \in Conns : Commit(c) =>
            \A r \in db'.station \ db.station :
               \/ Doubled(tx[c].snap, r.key)
               \/ {x \in tx[c].snap.station \cup (db'.station \ db.station) :
                      x.key = r.key} = {r}]_connVars
  BY <1>1
<1> QED
  BY <1>2, InitInv, StepInv, PTL DEF Spec, KnownStationsStaySingle

\* No connection files or changes values under a row of a station that it saw
\* twice (maybe_get_id throws error_consistency; the insert repeated after it
\* adds a row).
THEOREM NoValueUnderADuplicate == Spec => DuplicatesAreLeftAlone
<1>1. ASSUME Inv, HistoryInv, NEW c \in Conns, Commit(c),
             NEW r \in db'.data \ db.data, NEW s \in tx[c].snap.station, r.st = s.id
      PROVE  ~Doubled(tx[c].snap, s.key)
  <2>1. r \in tx[c].view.data \ tx[c].snap.data
    BY <1>1, CommitAdds DEF Tbl
  <2> QED
    BY <1>1, <2>1 DEF HistoryInv, History, Alone
<1>2. Inv /\ HistoryInv /\ [Next]_connVars =>
        [\A c \in Conns : Commit(c) =>
            \A r \in db'.data \ db.data, s \in tx[c].snap.station :
               r.st = s.id => ~Doubled(tx[c].snap, s.key)]_connVars
  BY <1>1
<1> QED
  BY <1>2, InitInv, StepInv, PTL DEF Spec, DuplicatesAreLeftAlone

\* What the calls of a transaction wrote, all of which returned, is in the tables
\* when the commit returns, whatever others committed in the meantime.
THEOREM CommitStores == Spec => CommitStoresAll
<1>1. ASSUME Inv, HistoryInv, NEW c \in Conns, Commit(c), NEW w \in stored[c]
      PROVE  \E r \in DataRows(db', w.slot.key, w.slot.lt) : r.val = w.val
  <2>1. tx[c].state = "open" /\ db' = Merged(c)
    BY <1>1 DEF Inv, CallsInv, Commit
  <2>2. PICK r \in tx[c].view.data \ tx[c].snap.data :
           /\ r.val = w.val
           /\ \E x \in tx[c].view.station : x.key = w.slot.key /\ x.id = r.st
           /\ \E l \in tx[c].view.levtr : l.lt = w.slot.lt /\ l.id = r.lt
    BY <1>1 DEF HistoryInv, History, Stores
  <2>3. PICK x \in tx[c].view.station : x.key = w.slot.key /\ x.id = r.st
    BY <2>2
  <2>4. PICK l \in tx[c].view.levtr : l.lt = w.slot.lt /\ l.id = r.lt
    BY <2>2
  <2>5. {db, tx[c].snap, tx[c].view} \subseteq Copies
    BY DEF Copies
  <2>6. r \in db'.data
    <3>1. CASE r \in Inserted(c, "data")
      BY <1>1, <2>1, <3>1, MergedRows DEF Inv, ServerInv, Tbl
    <3>2. CASE r \notin Inserted(c, "data")
      <4>1. r \in Changed(c, "data")
        BY <3>2 DEF Inserted, Changed
      <4>2. PICK z \in tx[c].snap.data : z.id = r.id
        BY <4>1 DEF Changed, IdsIn
      <4>3. z.id \in Touched(c, "data")
        BY <4>1, <4>2 DEF Touched, IdsIn
      <4>4. z \in db.data
        BY <1>1, <4>3 DEF Inv, ServerInv, Held, Tbl
      <4>5. r.id \in IdsIn(db.data)
        BY <4>2, <4>4 DEF IdsIn
      <4> QED
        BY <1>1, <2>1, <4>1, <4>5, MergedRows DEF Inv, ServerInv, Tbl
    <3> QED
      BY <3>1, <3>2
  <2>7. ASSUME NEW t \in RefTbl, NEW y \in tx[c].view[t], Refers(t, r, y)
        PROVE  y \in db'[t]
    <3>1. t \in Tbl /\ t # "data"
      BY DEF RefTbl, Tbl
    <3>2. PICK m \in db'[t] : Refers(t, r, m)
      BY <1>1, <2>1, <2>6, MergedIsWhole DEF Inv
    <3>3. m.id = y.id
      BY <2>7, <3>2 DEF Refers, RefTbl
    <3>4. m \in db[t] \cup tx[c].view[t]
      BY <1>1, <2>1, <3>1, <3>2, MergedRows DEF Inv, ServerInv
    <3>5. m = y
      BY <1>1, <2>5, <3>1, <3>3, <3>4 DEF Inv, ServerInv, Named, Kin
    <3> QED
      BY <3>2, <3>5
  <2>8. x \in db'.station /\ l \in db'.levtr
    <3>1. Refers("station", r, x) /\ Refers("levtr", r, l)
      BY <2>3, <2>4 DEF Refers
    <3> QED
      BY <2>7, <3>1 DEF RefTbl
  <2>9. r \in DataRows(db', w.slot.key, w.slot.lt)
    BY <2>3, <2>4, <2>6, <2>8 DEF DataRows, RowsOf, LevTrRows, IdsIn
  <2> QED
    BY <2>2, <2>9
<1>2. Inv /\ HistoryInv /\ [Next]_connVars =>
        [\A c \in Conns : Commit(c) =>
            \A w \in stored[c] : \E r \in DataRows(db', w.slot.key, w.slot.lt) : r.val = w.val]_connVars
  BY <1>1
<1> QED
  BY <1>2, InitInv, StepInv, PTL DEF Spec, CommitStoresAll
=============================================================================
