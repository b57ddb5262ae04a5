---------------------------- MODULE MCConnections ----------------------------
(* Programs and databases for the run of Connections. *)
EXTENDS ConnectionsProps

Request(k, key, lt) == [kind |-> k, key |-> key, lt |-> lt, val |-> "a"]

\* Both fill a slot of either station; one vacuums, the other removes.
TwoPrograms ==
    [c \in Conns |->
        {Request("insert", "north", 1), Request("insert", "south", 2)} \cup
        IF c = "one" THEN {Request("vacuum", "north", 1)} ELSE {Request("remove", "north", 1)}]

\* What two transactions leave that overlap and add the same station.
NorthTwice ==
    [station |-> {[id |-> n, key |-> "north"] : n \in {1, 2}},
     levtr   |-> {[id |-> 3, lt |-> 1]},
     data    |-> {[id |-> 4, st |-> 1, lt |-> 3, val |-> "a", ver |-> 4]}]

\* Another station and its level, which nothing uses since their value was removed.
SouthEmptied ==
    [station |-> {[id |-> 1, key |-> "south"]},
     levtr   |-> {[id |-> 2, lt |-> 2]},
     data    |-> {}]

EmptiedAndDoubled == {SouthEmptied, NorthTwice}
=============================================================================
