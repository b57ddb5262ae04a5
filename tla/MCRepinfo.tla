----------------------------- MODULE MCRepinfo -----------------------------
(* Small instances of Repinfo for TLC. *)
EXTENDS RepinfoProps

\* "A" is "a" in upper case; no name is longer than 19 characters.
LowerCase == [n \in Names |-> IF n = "A" THEN "a" ELSE n]
Whole == [m \in Memos |-> m]

l(i, n, p) == [id |-> i, name |-> n, prio |-> p]

\* One report, and files that replace it, rename it, add another one, exchange
\* their priorities, name it twice, or cannot be read to their end.
OneReport == {[id |-> 1, memo |-> "a", prio |-> 1]}
FewFiles == {<<l(2, "c", 2)>>, <<l(1, "c", 1)>>, <<l(1, "a", 1), l(2, "c", 2)>>,
             <<l(1, "a", 2), l(2, "c", 1)>>, <<l(1, "a", 2), l(1, "a", 1)>>,
             <<l(1, "A", 1), BadLine>>}
=============================================================================
