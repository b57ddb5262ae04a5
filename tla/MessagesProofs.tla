--------------------------- MODULE MessagesProofs ---------------------------
(***************************************************************************)
(* Theorems about messages, for any stations, databases, queries, changes  *)
(* and numbers of changes.                                                 *)
(*                                                                         *)
(* A binary search gives the one position at which a comparison is zero    *)
(* (SearchIsZero), by induction on the length of what is searched.  So     *)
(* arrays keep sorted and are the sets of their elements: setting, merging *)
(* and removing variables, then contexts, does to the set what the name    *)
(* says.  What the folds of the code build (Pack, the rows of a query in   *)
(* their groups, a message from its rows) is found by induction on how     *)
(* many elements have been taken.  A message is then what it maps.  It is  *)
(* also the pairs of context and variable that it holds, which is what the *)
(* reader of a CSV file collects from it line by line.                     *)
(***************************************************************************)
EXTENDS MessagesProps, FiniteSetTheorems, SequenceTheorems, WellFoundedInduction,
        NaturalsInduction, TLAPS

----------------------------------------------------------------------------
(* Binary search *)

Ranges(n) == [low : 1..n + 1, high : 0..n]

\* A comparison with what is looked for, along a sorted array.
Sorted(n, cmp) ==
    /\ cmp \in [1..n -> Int]
    /\ \A i, j \in 1..n : i < j /\ cmp[i] >= 0 => cmp[j] > 0

Within(cmp, r) == {p \in r.low..r.high : cmp[p] = 0}
ZeroIn(cmp, r) == IF Within(cmp, r) = {} THEN 0 ELSE CHOOSE p \in Within(cmp, r) : TRUE

Turn(cmp, f, r) ==
    IF r.low > r.high THEN 0
    ELSE LET middle == r.low + (r.high - r.low) \div 2
         IN  CASE cmp[middle] > 0 -> f[[r EXCEPT !.high = middle - 1]]
               [] cmp[middle] < 0 -> f[[r EXCEPT !.low = middle + 1]]
               [] OTHER -> middle

LEMMA Halves ==
    ASSUME NEW low \in Int, NEW high \in Int, low <= high
    PROVE  low + (high - low) \div 2 \in low..high
OBVIOUS

LEMMA ZeroTurns ==
    ASSUME NEW n \in Nat, NEW cmp, Sorted(n, cmp), NEW r \in Ranges(n)
    PROVE  ZeroIn(cmp, r) = Turn(cmp, [x \in Ranges(n) |-> ZeroIn(cmp, x)], r)
<1> DEFINE f == [x \in Ranges(n) |-> ZeroIn(cmp, x)]
           middle == r.low + (r.high - r.low) \div 2
<1> SUFFICES ZeroIn(cmp, r) = Turn(cmp, f, r)
  OBVIOUS
<1>1. CASE r.low > r.high
  BY <1>1 DEF ZeroIn, Within, Turn, Ranges
<1>2. CASE r.low <= r.high
  <2>1. middle \in r.low..r.high /\ middle \in 1..n
    BY <1>2, Halves DEF Ranges
  <2> HIDE DEF middle
  <2>2. Turn(cmp, f, r) = CASE cmp[middle] > 0 -> f[[r EXCEPT !.high = middle - 1]]
               [] cmp[middle] < 0 -> f[[r EXCEPT !.low = middle + 1]]
               [] OTHER -> middle
    BY <1>2 DEF Turn, middle, Ranges
  <2>3. cmp[middle] \in Int
    BY <2>1 DEF Sorted
  <2>4. CASE cmp[middle] > 0
    <3> DEFINE h == [r EXCEPT !.high = middle - 1]
    <3>1. h \in Ranges(n) /\ h.low = r.low /\ h.high = middle - 1
      BY <2>1 DEF Ranges
    <3>2. Within(cmp, r) = Within(cmp, h)
      BY <2>1, <2>4, <3>1 DEF Within, Sorted, Ranges
    <3>3. f[h] = ZeroIn(cmp, h) /\ ZeroIn(cmp, h) = ZeroIn(cmp, r)
      BY <3>1, <3>2 DEF ZeroIn
    <3> HIDE DEF f
    <3>4. Turn(cmp, f, r) = f[h]
      BY <2>2, <2>3, <2>4
    <3> QED BY <3>3, <3>4
  <2>5. CASE cmp[middle] < 0
    <3> DEFINE h == [r EXCEPT !.low = middle + 1]
    <3>1. h \in Ranges(n) /\ h.low = middle + 1 /\ h.high = r.high
      BY <2>1 DEF Ranges
    <3>2. Within(cmp, r) = Within(cmp, h)
      BY <2>1, <2>5, <3>1 DEF Within, Sorted, Ranges
    <3>3. f[h] = ZeroIn(cmp, h) /\ ZeroIn(cmp, h) = ZeroIn(cmp, r)
      BY <3>1, <3>2 DEF ZeroIn
    <3> HIDE DEF f
    <3> QED BY <2>2, <2>3, <2>5, <3>3
  <2>6. CASE cmp[middle] = 0
    <3>1. Within(cmp, r) = {middle}
      BY <2>1, <2>6 DEF Within, Sorted, Ranges
    <3>2. ZeroIn(cmp, r) = middle
      BY <3>1 DEF ZeroIn
    <3> HIDE DEF f
    <3> QED BY <2>2, <2>6, <3>2
  <2> QED BY <2>3, <2>4, <2>5, <2>6
<1> QED BY <1>1, <1>2 DEF Ranges

LEMMA LeastNat ==
    ASSUME NEW T \in SUBSET Nat, T # {}
    PROVE  \E m \in T : \A n \in T : m <= n
<1>1. PICK m \in T : \A n \in T : ~ (<<n, m>> \in OpToRel(<, Nat))
  BY WFMin, NatLessThanWellFounded
<1>2. \A n \in T : ~ (n < m)
  BY <1>1 DEF OpToRel
<1>3. \A n \in T : n \in Nat /\ m \in Nat
  OBVIOUS
<1> QED BY <1>2, <1>3

LEMMA Induct ==
    ASSUME NEW S, 0 \in S, \A n \in Nat : n \in S => n + 1 \in S
    PROVE  Nat \subseteq S
<1> SUFFICES ASSUME Nat \ S # {} PROVE FALSE
  OBVIOUS
<1>1. PICK m \in Nat \ S : \A n \in Nat \ S : m <= n
  BY LeastNat
<1>2. m # 0 /\ m - 1 \in Nat /\ m - 1 \in S
  BY <1>1
<1> QED BY <1>1, <1>2

\* A turn looks at two halves of its range.
LEMMA TurnsAlike ==
    ASSUME NEW cmp, NEW f, NEW g, NEW r, NEW middle,
           middle = r.low + (r.high - r.low) \div 2,
           f[[r EXCEPT !.high = middle - 1]] = g[[r EXCEPT !.high = middle - 1]],
           f[[r EXCEPT !.low = middle + 1]] = g[[r EXCEPT !.low = middle + 1]]
    PROVE  Turn(cmp, f, r) = Turn(cmp, g, r)
<1> DEFINE mid == r.low + (r.high - r.low) \div 2
           below == [r EXCEPT !.high = mid - 1]
           above == [r EXCEPT !.low = mid + 1]
           small == cmp[mid] > 0
           large == cmp[mid] < 0
           empty == r.low > r.high
<1>1. Turn(cmp, f, r) = IF empty THEN 0 ELSE CASE small -> f[below] [] large -> f[above] [] OTHER -> mid
  BY DEF Turn
<1>2. Turn(cmp, g, r) = IF empty THEN 0 ELSE CASE small -> g[below] [] large -> g[above] [] OTHER -> mid
  BY DEF Turn
<1>3. middle = mid
  OBVIOUS
<1> HIDE DEF mid
<1>4. f[below] = g[below] /\ f[above] = g[above]
  BY <1>3
<1> HIDE DEF below, above, small, large, empty
<1> QED BY <1>1, <1>2, <1>4

LEMMA SearchIsZero ==
    ASSUME NEW n \in Nat, NEW cmp, Sorted(n, cmp),
           NEW f, f = [r \in Ranges(n) |-> Turn(cmp, f, r)],
           NEW r \in Ranges(n)
    PROVE  f[r] = ZeroIn(cmp, r)
<1> DEFINE S == {k \in Nat : \A x \in Ranges(n) : x.high - x.low < k => f[x] = ZeroIn(cmp, x)}
           g == [x \in Ranges(n) |-> ZeroIn(cmp, x)]
<1>1. 0 \in S
  BY DEF Ranges, ZeroIn, Within, Turn
<1>2. ASSUME NEW k \in Nat, k \in S, NEW x \in Ranges(n), x.high - x.low < k + 1
      PROVE  f[x] = ZeroIn(cmp, x)
  <2> DEFINE middle == x.low + (x.high - x.low) \div 2
  <2>1. f[x] = Turn(cmp, f, x)
    OBVIOUS
  <2>2. ZeroIn(cmp, x) = Turn(cmp, g, x)
    BY ZeroTurns
  <2>3. CASE x.low > x.high
    BY <2>1, <2>2, <2>3 DEF Turn
  <2>4. CASE x.low <= x.high
    <3>1. middle \in x.low..x.high /\ middle \in 1..n
      BY <2>4, Halves DEF Ranges
    <3> DEFINE below == [x EXCEPT !.high = middle - 1]
               above == [x EXCEPT !.low = middle + 1]
    <3> HIDE DEF middle
    <3>2. /\ below \in Ranges(n) /\ below.high - below.low < k
          /\ above \in Ranges(n) /\ above.high - above.low < k
      BY <1>2, <3>1 DEF Ranges
    <3>3. f[below] = g[below] /\ f[above] = g[above]
      <4> HIDE DEF below, above
      <4> QED BY <1>2, <3>2
    <3> HIDE DEF g
    <3>4. Turn(cmp, f, x) = Turn(cmp, g, x)
      <4>1. middle = x.low + (x.high - x.low) \div 2
        BY DEF middle
      <4> QED BY <3>3, <4>1, TurnsAlike
    <3> QED BY <2>1, <2>2, <3>4
  <2> QED BY <2>3, <2>4 DEF Ranges
<1>3. \A k \in Nat : k \in S => k + 1 \in S
  BY <1>2
<1>4. r.high - r.low + n + 2 \in S /\ r.high - r.low < r.high - r.low + n + 2
  <2> HIDE DEF S
  <2>1. Nat \subseteq S
    BY <1>1, <1>3, Induct
  <2> QED BY <2>1 DEF Ranges
<1> QED BY <1>4

----------------------------------------------------------------------------
(* Types *)

Values ==
    {Stations[s].place : s \in DOMAIN Stations} \cup {Stations[s].rep : s \in DOMAIN Stations}
    \cup {Stations[s].ident : s \in DOMAIN Stations} \cup {r.val : r \in UNION Databases}
    \cup {r.when : r \in UNION Databases} \cup {v.val : v \in EditVars}
Variable == [code : Int, val : Values, attr : BOOLEAN]
SortedVars ==
    {vals \in Seq(Variable) : \A i, j \in 1..Len(vals) : i < j => vals[i].code < vals[j].code}

CodeCmp(vals, c) == [i \in 1..Len(vals) |-> vals[i].code - c]
Whole(n) == [low |-> 1, high |-> n]

LEMMA SortedVarsAre ==
    ASSUME NEW vals \in SortedVars
    PROVE  /\ vals \in Seq(Variable) /\ Len(vals) \in Nat
           /\ \A i \in 1..Len(vals) : vals[i] \in Variable /\ vals[i].code \in Int
           /\ \A i, j \in 1..Len(vals) : i < j => vals[i].code < vals[j].code
<1>1. vals \in Seq(Variable) /\ Len(vals) \in Nat
  BY DEF SortedVars
<1>2. ASSUME NEW i \in 1..Len(vals) PROVE vals[i] \in Variable /\ vals[i].code \in Int
  <2>1. vals[i] \in Variable
    BY <1>1
  <2> QED BY <2>1 DEF Variable
<1> QED BY <1>1, <1>2 DEF SortedVars

LEMMA FindCodeSearches ==
    ASSUME NEW vals \in SortedVars, NEW c \in Int
    PROVE  FindCode(vals, c) = ZeroIn(CodeCmp(vals, c), Whole(Len(vals)))
<1> DEFINE n == Len(vals)
           cmp == CodeCmp(vals, c)
           P(f) == f = [r \in [low : 1..n + 1, high : 0..n] |->
                           IF r.low > r.high THEN 0
                           ELSE LET middle == r.low + (r.high - r.low) \div 2
                                    x == vals[middle].code - c
                                IN  CASE x > 0 -> f[[r EXCEPT !.high = middle - 1]]
                                      [] x < 0 -> f[[r EXCEPT !.low = middle + 1]]
                                      [] OTHER -> middle]
           g == CHOOSE f : P(f)
           z == [r \in Ranges(n) |-> ZeroIn(cmp, r)]
<1>1. n \in Nat /\ Sorted(n, cmp)
  BY SortedVarsAre DEF CodeCmp, Sorted
<1>2. ASSUME NEW f, NEW r \in Ranges(n)
      PROVE  Turn(cmp, f, r) =
                 IF r.low > r.high THEN 0
                 ELSE LET middle == r.low + (r.high - r.low) \div 2
                          x == vals[middle].code - c
                      IN  CASE x > 0 -> f[[r EXCEPT !.high = middle - 1]]
                            [] x < 0 -> f[[r EXCEPT !.low = middle + 1]]
                            [] OTHER -> middle
  <2>1. CASE r.low > r.high
    BY <2>1 DEF Turn
  <2>2. CASE r.low <= r.high
    <3> DEFINE middle == r.low + (r.high - r.low) \div 2
    <3>1. middle \in 1..n
      BY <1>1, <2>2, Halves DEF Ranges
    <3>2. cmp[middle] = vals[middle].code - c
      BY <3>1 DEF CodeCmp
    <3> QED BY <2>2, <3>2 DEF Turn
  <2> QED BY <2>1, <2>2, <1>1 DEF Ranges
<1>3. P(z)
  <2>1. \A r \in Ranges(n) : z[r] = Turn(cmp, z, r)
    BY <1>1, ZeroTurns
  <2>2. z = [r \in Ranges(n) |-> z[r]]
    OBVIOUS
  <2> HIDE DEF z
  <2> QED BY <1>2, <2>1, <2>2 DEF Ranges
<1>4. P(g)
  <2> HIDE DEF P, z
  <2> QED BY <1>3
<1>5. g = [r \in Ranges(n) |-> Turn(cmp, g, r)]
  <2> HIDE DEF g
  <2> QED BY <1>2, <1>4 DEF Ranges
<1>6. FindCode(vals, c) = g[Whole(n)]
  BY DEF FindCode, Find, Whole
<1>7. Whole(n) \in Ranges(n)
  BY <1>1 DEF Whole, Ranges
<1> HIDE DEF g, P, cmp
<1> QED BY <1>1, <1>5, <1>6, <1>7, SearchIsZero DEF cmp

LEMMA FindCodeFinds ==
    ASSUME NEW vals \in SortedVars, NEW c \in Int
    PROVE  /\ FindCode(vals, c) \in 0..Len(vals)
           /\ FindCode(vals, c) # 0 => vals[FindCode(vals, c)].code = c
           /\ FindCode(vals, c) = 0 => \A i \in 1..Len(vals) : vals[i].code # c
<1> DEFINE n == Len(vals)
           W == Within(CodeCmp(vals, c), Whole(n))
<1>1. n \in Nat /\ \A i \in 1..n : vals[i].code \in Int
  BY SortedVarsAre
<1>2. W = {i \in 1..n : vals[i].code = c}
  BY <1>1 DEF Within, Whole, CodeCmp
<1>3. FindCode(vals, c) = IF W = {} THEN 0 ELSE CHOOSE i \in W : TRUE
  BY FindCodeSearches DEF ZeroIn
<1> HIDE DEF W
<1> QED BY <1>1, <1>2, <1>3

----------------------------------------------------------------------------
(* Sequences *)

LEMMA GreatestPosition ==
    ASSUME NEW n \in Nat, NEW S \in SUBSET (1..n), S # {}
    PROVE  Max(S) \in S /\ \A i \in S : i <= Max(S)
<1> DEFINE T == {n - i : i \in S}
<1>1. T \in SUBSET Nat /\ T # {}
  <2>1. \A i \in S : i \in 1..n
    OBVIOUS
  <2>2. \A i \in 1..n : n - i \in Nat
    OBVIOUS
  <2> QED BY <2>1, <2>2
<1>2. PICK m \in T : \A x \in T : m <= x
  BY <1>1, LeastNat
<1>3. PICK i \in S : m = n - i
  OBVIOUS
<1>4. \A j \in S : n - i <= n - j
  BY <1>2, <1>3
<1>5. \A j \in S : j \in Int /\ i \in Int /\ i >= j
  BY <1>4
<1> QED BY <1>5 DEF Max

LEMMA ConcatIs ==
    ASSUME NEW S, NEW a \in Seq(S), NEW b \in Seq(S)
    PROVE  /\ a \o b \in Seq(S)
           /\ Len(a \o b) = Len(a) + Len(b)
           /\ \A i \in 1..Len(a) : (a \o b)[i] = a[i]
           /\ \A i \in 1..Len(b) : (a \o b)[Len(a) + i] = b[i]
OBVIOUS

LEMMA InsertAtIs ==
    ASSUME NEW S, NEW s \in Seq(S), NEW p \in 1..Len(s) + 1, NEW e \in S
    PROVE  /\ InsertAt(s, p, e) \in Seq(S)
           /\ Len(InsertAt(s, p, e)) = Len(s) + 1
           /\ \A i \in 1..Len(s) + 1 :
                 InsertAt(s, p, e)[i] = IF i < p THEN s[i] ELSE IF i = p THEN e ELSE s[i - 1]
<1> DEFINE a == SubSeq(s, 1, p - 1)
           b == SubSeq(s, p, Len(s))
<1>1. /\ a \in Seq(S) /\ Len(a) = p - 1
      /\ \A i \in 1..p - 1 : a[i] = s[i]
  OBVIOUS
<1>2. /\ b \in Seq(S) /\ Len(b) = Len(s) - p + 1
      /\ \A i \in 1..Len(s) - p + 1 : b[i] = s[p + i - 1]
  OBVIOUS
<1>3. InsertAt(s, p, e) = a \o <<e>> \o b
  BY DEF InsertAt
<1> HIDE DEF a, b
<1> DEFINE c == a \o <<e>>
<1>4. /\ c \in Seq(S) /\ Len(c) = p
      /\ \A i \in 1..p : c[i] = IF i = p THEN e ELSE s[i]
  BY <1>1
<1>5. InsertAt(s, p, e) = c \o b
  BY <1>3
<1> HIDE DEF c
<1>6. c \o b \in Seq(S) /\ Len(c \o b) = Len(s) + 1
  <2>1. c \o b \in Seq(S) /\ Len(c \o b) = Len(c) + Len(b)
    <3>1. c \in Seq(S) /\ b \in Seq(S)
      BY <1>2, <1>4
    <3> QED BY <3>1, ConcatIs
  <2>2. Len(s) \in Nat /\ p \in Int
    OBVIOUS
  <2> QED BY <1>2, <1>4, <2>1, <2>2
<1>7. \A i \in 1..p : (c \o b)[i] = c[i]
  BY <1>2, <1>4
<1>8. \A i \in p + 1..Len(s) + 1 : (c \o b)[i] = s[i - 1]
  BY <1>2, <1>4
<1>9. Len(s) \in Nat
  OBVIOUS
<1> QED BY <1>4, <1>5, <1>6, <1>7, <1>8, <1>9

LEMMA RemoveAtIs ==
    ASSUME NEW S, NEW s \in Seq(S), NEW p \in 1..Len(s)
    PROVE  /\ RemoveAt(s, p) \in Seq(S)
           /\ Len(RemoveAt(s, p)) = Len(s) - 1
           /\ \A i \in 1..Len(s) - 1 :
                 RemoveAt(s, p)[i] = IF i < p THEN s[i] ELSE s[i + 1]
<1> DEFINE a == SubSeq(s, 1, p - 1)
           b == SubSeq(s, p + 1, Len(s))
<1>1. /\ a \in Seq(S) /\ Len(a) = p - 1
      /\ \A i \in 1..p - 1 : a[i] = s[i]
  OBVIOUS
<1>2. /\ b \in Seq(S) /\ Len(b) = Len(s) - p
      /\ \A i \in 1..Len(s) - p : b[i] = s[p + i]
  OBVIOUS
<1>3. RemoveAt(s, p) = a \o b
  BY DEF RemoveAt
<1> HIDE DEF a, b
<1> QED BY <1>1, <1>2, <1>3

\* Where an element goes that is compared with those of a sorted array.
Stops(n, cmp) == {i \in 1..n : cmp[i] <= 0}
PlaceOf(n, cmp) == IF Stops(n, cmp) = {} THEN 1 ELSE Max(Stops(n, cmp)) + 1

LEMMA PlaceIsBetween ==
    ASSUME NEW n \in Nat, NEW cmp, Sorted(n, cmp), \A i \in 1..n : cmp[i] # 0
    PROVE  /\ PlaceOf(n, cmp) \in 1..n + 1
           /\ \A i \in 1..n : /\ i < PlaceOf(n, cmp) => cmp[i] < 0
                              /\ i >= PlaceOf(n, cmp) => cmp[i] > 0
<1>1. Stops(n, cmp) \in SUBSET (1..n) /\ \A i \in 1..n : cmp[i] \in Int
  BY DEF Stops, Sorted
<1>2. CASE Stops(n, cmp) = {}
  BY <1>1, <1>2 DEF PlaceOf, Stops
<1>3. CASE Stops(n, cmp) # {}
  <2> DEFINE m == Max(Stops(n, cmp))
  <2>1. m \in Stops(n, cmp) /\ \A i \in Stops(n, cmp) : i <= m
    BY <1>1, <1>3, GreatestPosition
  <2>2. PlaceOf(n, cmp) = m + 1
    BY <1>3 DEF PlaceOf
  <2> HIDE DEF m
  <2>3. m \in 1..n /\ cmp[m] < 0
    BY <1>1, <2>1 DEF Stops
  <2>4. \A i \in 1..n : i < m => cmp[i] < 0
    BY <1>1, <2>3 DEF Sorted
  <2>5. \A i \in 1..n : i > m => cmp[i] > 0
    BY <1>1, <2>1, <2>3 DEF Stops
  <2> QED BY <2>2, <2>3, <2>4, <2>5
<1> QED BY <1>2, <1>3

----------------------------------------------------------------------------
(* Arrays of variables *)

LEMMA ElementsOf ==
    ASSUME NEW s, Len(s) \in Nat, DOMAIN s = 1..Len(s)
    PROVE  ToSet(s) = {s[i] : i \in 1..Len(s)}
BY DEF ToSet

LEMMA SetVarIs ==
    ASSUME NEW vals \in SortedVars, NEW v \in Variable
    PROVE  /\ SetVar(vals, v) \in SortedVars
           /\ ToSet(SetVar(vals, v)) = {w \in ToSet(vals) : w.code # v.code} \cup {v}
<1> DEFINE n == Len(vals)
           p == FindCode(vals, v.code)
           t == SetVar(vals, v)
<1>1. v.code \in Int
  BY DEF Variable
<1>2. /\ p \in 0..n
      /\ p # 0 => vals[p].code = v.code
      /\ p = 0 => \A i \in 1..n : vals[i].code # v.code
  BY <1>1, FindCodeFinds
<1>3. /\ vals \in Seq(Variable) /\ n \in Nat
      /\ \A i \in 1..n : vals[i] \in Variable /\ vals[i].code \in Int
      /\ \A i, j \in 1..n : i < j => vals[i].code < vals[j].code
  BY SortedVarsAre
<1>4. ToSet(vals) = {vals[i] : i \in 1..n}
  BY <1>3, ElementsOf
<1>5. CASE p = 0
  <2> DEFINE cmp == CodeCmp(vals, v.code)
             q == PlaceOf(n, cmp)
  <2>1. Sorted(n, cmp) /\ \A i \in 1..n : cmp[i] # 0 /\ cmp[i] = vals[i].code - v.code
    BY <1>1, <1>2, <1>3, <1>5 DEF Sorted, CodeCmp
  <2>2. t = InsertAt(vals, q, v)
    <3>1. t = InsertNew(vals, v, CompareCodes)
      BY <1>5 DEF SetVar
    <3>2. {i \in 1..n : CompareCodes(vals[i], v) <= 0} = Stops(n, cmp)
      BY <2>1 DEF Stops, CompareCodes
    <3> QED BY <3>1, <3>2 DEF InsertNew, PlaceOf
  <2> HIDE DEF cmp
  <2>3. /\ q \in 1..n + 1
        /\ \A i \in 1..n : /\ i < q => cmp[i] < 0
                           /\ i >= q => cmp[i] > 0
    BY <1>3, <2>1, PlaceIsBetween
  <2> HIDE DEF q, t
  <2>4. /\ t \in Seq(Variable) /\ Len(t) = n + 1
        /\ \A i \in 1..n + 1 : t[i] = IF i < q THEN vals[i] ELSE IF i = q THEN v ELSE vals[i - 1]
    <3>1. vals \in Seq(Variable) /\ q \in 1..Len(vals) + 1
      BY <1>3, <2>3
    <3>2. v \in Variable
      OBVIOUS
    <3>3. /\ InsertAt(vals, q, v) \in Seq(Variable) /\ Len(InsertAt(vals, q, v)) = n + 1
          /\ \A i \in 1..n + 1 :
                InsertAt(vals, q, v)[i] = IF i < q THEN vals[i] ELSE IF i = q THEN v ELSE vals[i - 1]
      BY <3>1, <3>2, InsertAtIs
    <3> QED BY <2>2, <3>3
  <2>5. \A i \in 1..n : /\ i < q => vals[i].code < v.code
                        /\ i >= q => v.code < vals[i].code
    BY <1>1, <1>3, <2>1, <2>3
  <2>6. \A i, j \in 1..n + 1 : i < j => t[i].code < t[j].code
    <3> DEFINE k(i) == IF i < q THEN i ELSE i - 1
    <3>1. \A i \in 1..n + 1 : i # q => k(i) \in 1..n /\ t[i] = vals[k(i)]
      BY <1>3, <2>3, <2>4
    <3>2. \A i, j \in 1..n + 1 : i < j /\ i # q /\ j # q => k(i) < k(j)
      BY <2>3
    <3>3. \A i \in 1..n + 1 : /\ i < q => k(i) < q
                              /\ i > q => k(i) >= q
      BY <2>3
    <3>4. t[q] = v
      BY <2>3, <2>4
    <3> HIDE DEF k
    <3>5. \A i, j \in 1..n + 1 : i < j /\ i # q /\ j # q => t[i].code < t[j].code
      BY <1>3, <3>1, <3>2
    <3>6. \A i \in 1..n + 1 : /\ i < q => t[i].code < v.code
                              /\ i > q => v.code < t[i].code
      BY <2>3, <2>5, <3>1, <3>3
    <3> QED BY <2>3, <3>4, <3>5, <3>6
  <2>7. t \in SortedVars
    BY <2>4, <2>6 DEF SortedVars
  <2>8. ToSet(t) = {t[i] : i \in 1..n + 1}
    BY <1>3, <2>4, ElementsOf
  <2>9. \A w : w \in ToSet(t) <=> w \in ToSet(vals) \/ w = v
    <3>1. ASSUME NEW i \in 1..n PROVE vals[i] \in ToSet(t)
      <4>1. CASE i < q
        BY <1>3, <2>3, <2>4, <2>8, <4>1
      <4>2. CASE i >= q
        <5>1. i + 1 \in 1..n + 1 /\ t[i + 1] = vals[i]
          BY <1>3, <2>3, <2>4, <4>2
        <5> QED BY <5>1, <2>8
      <4> QED BY <2>3, <4>1, <4>2
    <3>2. v \in ToSet(t)
      BY <1>3, <2>3, <2>4, <2>8
    <3>3. \A i \in 1..n + 1 : t[i] \in ToSet(vals) \/ t[i] = v
      BY <1>3, <1>4, <2>3, <2>4
    <3> QED BY <1>4, <2>8, <3>1, <3>2, <3>3
  <2>10. \A w \in ToSet(vals) : w.code # v.code
    BY <1>2, <1>4, <1>5
  <2> QED BY <2>7, <2>9, <2>10 DEF t
<1>6. CASE p # 0
  <2>1. t = [vals EXCEPT ![p] = v]
    BY <1>6 DEF SetVar
  <2>2. p \in 1..n /\ vals[p].code = v.code
    BY <1>2, <1>6
  <2> HIDE DEF t, p
  <2>3. /\ t \in Seq(Variable) /\ Len(t) = n
        /\ \A i \in 1..n : t[i] = IF i = p THEN v ELSE vals[i]
    BY <1>3, <2>1, <2>2
  <2>4. \A i, j \in 1..n : i < j => t[i].code < t[j].code
    BY <1>1, <1>3, <2>2, <2>3
  <2>5. t \in SortedVars
    BY <2>3, <2>4 DEF SortedVars
  <2>6. ToSet(t) = {t[i] : i \in 1..n}
    BY <1>3, <2>3, ElementsOf
  <2>7. \A i \in 1..n : vals[i].code = v.code <=> i = p
    BY <1>3, <2>2
  <2>8. \A w : w \in ToSet(t) <=> (w \in ToSet(vals) /\ w.code # v.code) \/ w = v
    BY <1>4, <2>2, <2>3, <2>6, <2>7
  <2> QED BY <2>5, <2>8 DEF t
<1> QED BY <1>5, <1>6

LEMMA UnsetVarIs ==
    ASSUME NEW vals \in SortedVars, NEW c \in Int
    PROVE  /\ UnsetVar(vals, c) \in SortedVars
           /\ ToSet(UnsetVar(vals, c)) = {w \in ToSet(vals) : w.code # c}
<1> DEFINE n == Len(vals)
           p == FindCode(vals, c)
           t == UnsetVar(vals, c)
<1>1. /\ p \in 0..n
      /\ p # 0 => vals[p].code = c
      /\ p = 0 => \A i \in 1..n : vals[i].code # c
  BY FindCodeFinds
<1>2. /\ vals \in Seq(Variable) /\ n \in Nat
      /\ \A i \in 1..n : vals[i] \in Variable /\ vals[i].code \in Int
      /\ \A i, j \in 1..n : i < j => vals[i].code < vals[j].code
  BY SortedVarsAre
<1>3. ToSet(vals) = {vals[i] : i \in 1..n}
  BY <1>2, ElementsOf
<1>4. CASE p = 0
  BY <1>1, <1>3, <1>4 DEF UnsetVar
<1>5. CASE p # 0
  <2>1. t = RemoveAt(vals, p)
    BY <1>5 DEF UnsetVar
  <2>2. p \in 1..n /\ vals[p].code = c
    BY <1>1, <1>5
  <2> HIDE DEF t, p
  <2>3. /\ t \in Seq(Variable) /\ Len(t) = n - 1
        /\ \A i \in 1..n - 1 : t[i] = IF i < p THEN vals[i] ELSE vals[i + 1]
    <3>1. vals \in Seq(Variable) /\ p \in 1..Len(vals)
      BY <1>2, <2>2
    <3> QED BY <3>1, <2>1, RemoveAtIs
  <2>4. \A i, j \in 1..n - 1 : i < j => t[i].code < t[j].code
    <3> DEFINE k(i) == IF i < p THEN i ELSE i + 1
    <3>1. \A i \in 1..n - 1 : k(i) \in 1..n /\ t[i] = vals[k(i)]
      BY <1>2, <2>2, <2>3
    <3>2. \A i, j \in 1..n - 1 : i < j => k(i) < k(j)
      BY <2>2
    <3> HIDE DEF k
    <3> QED BY <1>2, <3>1, <3>2
  <2>5. t \in SortedVars
    BY <2>3, <2>4 DEF SortedVars
  <2>6. ToSet(t) = {t[i] : i \in 1..n - 1}
    BY <1>2, <2>2, <2>3, ElementsOf
  <2>7. \A i \in 1..n : vals[i].code = c <=> i = p
    BY <1>2, <2>2
  <2>8. ASSUME NEW i \in 1..n, i # p PROVE vals[i] \in ToSet(t)
    <3>1. CASE i < p
      BY <1>2, <2>2, <2>3, <2>6, <3>1
    <3>2. CASE i > p
      <4>1. i - 1 \in 1..n - 1 /\ t[i - 1] = vals[i]
        BY <1>2, <2>2, <2>3, <3>2
      <4> QED BY <4>1, <2>6
    <3> QED BY <2>2, <2>8, <3>1, <3>2
  <2>9. \A i \in 1..n - 1 : t[i] \in ToSet(vals) /\ t[i].code # c
    BY <1>2, <1>3, <2>2, <2>3, <2>7
  <2> QED BY <1>3, <2>5, <2>6, <2>7, <2>8, <2>9 DEF t
<1> QED BY <1>4, <1>5

----------------------------------------------------------------------------
(* The order of contexts *)

HasKey(c) == c.level \in Level /\ c.trange \in Number
Same(c, d) == c.level = d.level /\ c.trange = d.trange

LEMMA NumbersAre ==
    ASSUME NEW c, HasKey(c)
    PROVE  \A i \in 1..5 : /\ Numbers(c)[i] = IF i = 5 THEN c.trange ELSE c.level[i]
                           /\ Numbers(c)[i] \in Number
<1>1. c.level \in Seq(Number) /\ Len(c.level) = 4 /\ c.trange \in Number
  <2>1. c.level \in [1..4 -> Number] /\ c.trange \in Number
    BY DEF HasKey, Level
  <2>2. c.level \in Seq(Number)
    BY <2>1, SeqDef
  <2> QED BY <2>1, <2>2, LenProperties
<1>2. \A i \in 1..4 : c.level[i] \in Number
  BY DEF HasKey, Level
<1> QED BY <1>1, <1>2 DEF Numbers

LEMMA SameNumbers ==
    ASSUME NEW c, HasKey(c), NEW d, HasKey(d)
    PROVE  Same(c, d) <=> \A i \in 1..5 : Numbers(c)[i] = Numbers(d)[i]
<1>1. ASSUME \A i \in 1..5 : Numbers(c)[i] = Numbers(d)[i]
      PROVE  Same(c, d)
  <2>1. \A i \in 1..4 : c.level[i] = d.level[i]
    BY <1>1, NumbersAre
  <2>2. c.trange = d.trange
    BY <1>1, NumbersAre
  <2> QED BY <2>1, <2>2 DEF HasKey, Level, Same
<1> QED BY <1>1, NumbersAre DEF Same

LEMMA CompareFirst ==
    ASSUME NEW c, HasKey(c), NEW d, HasKey(d), ~Same(c, d)
    PROVE  \E m \in 1..5 : /\ Numbers(c)[m] # Numbers(d)[m]
                           /\ \A i \in 1..m - 1 : Numbers(c)[i] = Numbers(d)[i]
                           /\ Compare(c, d) = Numbers(c)[m] - Numbers(d)[m]
<1> DEFINE D == {i \in 1..5 : Numbers(c)[i] # Numbers(d)[i]}
<1>1. D \in SUBSET Nat /\ D # {}
  BY SameNumbers
<1>2. PICK m \in D : \A i \in D : m <= i
  BY <1>1, LeastNat
<1>3. Min(D) = m
  <2>1. Min(D) \in D /\ \A i \in D : Min(D) <= i
    BY <1>2 DEF Min
  <2>2. Min(D) \in Nat /\ m \in Nat /\ Min(D) <= m /\ m <= Min(D)
    BY <1>1, <1>2, <2>1
  <2> QED BY <2>2
<1>4. Compare(c, d) = Numbers(c)[m] - Numbers(d)[m]
  BY <1>1, <1>3 DEF Compare
<1>5. m \in 1..5 /\ \A i \in 1..m - 1 : i \in 1..5 /\ ~ (m <= i)
  BY <1>2
<1> QED BY <1>2, <1>4, <1>5

LEMMA CompareIs ==
    ASSUME NEW c, HasKey(c), NEW d, HasKey(d)
    PROVE  /\ Compare(c, d) \in Int
           /\ Compare(c, d) = 0 <=> Same(c, d)
           /\ Compare(c, d) < 0 <=> Compare(d, c) > 0
<1>1. CASE Same(c, d)
  <2>1. Numbers(c) = Numbers(d)
    BY <1>1 DEF Same, Numbers
  <2>2. Compare(c, d) = 0 /\ Compare(d, c) = 0
    BY <2>1 DEF Compare
  <2> QED BY <1>1, <2>2
<1>2. CASE ~Same(c, d)
  <2>1. \A i \in 1..5 : Numbers(c)[i] \in Int /\ Numbers(d)[i] \in Int
    BY NumbersAre DEF Number
  <2>2. PICK m \in 1..5 : /\ Numbers(c)[m] # Numbers(d)[m]
                          /\ \A i \in 1..m - 1 : Numbers(c)[i] = Numbers(d)[i]
                          /\ Compare(c, d) = Numbers(c)[m] - Numbers(d)[m]
    BY <1>2, CompareFirst
  <2>3. PICK k \in 1..5 : /\ Numbers(c)[k] # Numbers(d)[k]
                          /\ \A i \in 1..k - 1 : Numbers(c)[i] = Numbers(d)[i]
                          /\ Compare(d, c) = Numbers(d)[k] - Numbers(c)[k]
    BY <1>2, CompareFirst DEF Same
  <2>4. m = k
    BY <2>2, <2>3
  <2> QED BY <1>2, <2>1, <2>2, <2>3, <2>4
<1> QED BY <1>1, <1>2

LEMMA CompareFirstDecides ==
    ASSUME NEW c, HasKey(c), NEW d, HasKey(d), NEW m \in 1..5,
           \A i \in 1..m - 1 : Numbers(c)[i] = Numbers(d)[i],
           Numbers(c)[m] < Numbers(d)[m]
    PROVE  Compare(c, d) < 0
<1>1. \A i \in 1..5 : Numbers(c)[i] \in Int /\ Numbers(d)[i] \in Int
  BY NumbersAre DEF Number
<1>2. ~Same(c, d)
  BY <1>1, SameNumbers
<1>3. PICK k \in 1..5 : /\ Numbers(c)[k] # Numbers(d)[k]
                        /\ \A i \in 1..k - 1 : Numbers(c)[i] = Numbers(d)[i]
                        /\ Compare(c, d) = Numbers(c)[k] - Numbers(d)[k]
  BY <1>2, CompareFirst
<1>4. m = k
  BY <1>1, <1>3
<1> QED BY <1>1, <1>3, <1>4

LEMMA CompareTransitive ==
    ASSUME NEW c, HasKey(c), NEW d, HasKey(d), NEW e, HasKey(e),
           Compare(c, d) < 0, Compare(d, e) < 0
    PROVE  Compare(c, e) < 0
<1>1. \A i \in 1..5 : /\ Numbers(c)[i] \in Int /\ Numbers(d)[i] \in Int
                      /\ Numbers(e)[i] \in Int
  BY NumbersAre DEF Number
<1>2. ~Same(c, d) /\ ~Same(d, e)
  BY CompareIs
<1>3. PICK m \in 1..5 : /\ Numbers(c)[m] # Numbers(d)[m]
                        /\ \A i \in 1..m - 1 : Numbers(c)[i] = Numbers(d)[i]
                        /\ Compare(c, d) = Numbers(c)[m] - Numbers(d)[m]
  BY <1>2, CompareFirst
<1>4. PICK k \in 1..5 : /\ Numbers(d)[k] # Numbers(e)[k]
                        /\ \A i \in 1..k - 1 : Numbers(d)[i] = Numbers(e)[i]
                        /\ Compare(d, e) = Numbers(d)[k] - Numbers(e)[k]
  BY <1>2, CompareFirst
<1>5. Numbers(c)[m] < Numbers(d)[m] /\ Numbers(d)[k] < Numbers(e)[k]
  BY <1>1, <1>3, <1>4
<1>6. CASE m <= k
  <2>1. /\ \A i \in 1..m - 1 : Numbers(c)[i] = Numbers(e)[i]
        /\ Numbers(c)[m] < Numbers(e)[m]
    BY <1>1, <1>3, <1>4, <1>5, <1>6
  <2> QED BY <2>1, CompareFirstDecides
<1>7. CASE k < m
  <2>1. /\ \A i \in 1..k - 1 : Numbers(c)[i] = Numbers(e)[i]
        /\ Numbers(c)[k] < Numbers(e)[k]
    BY <1>1, <1>3, <1>4, <1>5, <1>7
  <2> QED BY <2>1, CompareFirstDecides
<1> QED BY <1>6, <1>7

LEMMA CompareSame ==
    ASSUME NEW c, NEW d, Same(c, d), NEW e
    PROVE  Compare(c, e) = Compare(d, e) /\ Compare(e, c) = Compare(e, d)
<1>1. Numbers(c) = Numbers(d)
  BY DEF Same, Numbers
<1> QED BY <1>1 DEF Compare

----------------------------------------------------------------------------
(* Arrays of contexts *)

Context == [level : Level, trange : Number, values : SortedVars]
SortedCtxs ==
    {cs \in Seq(Context) : \A i, j \in 1..Len(cs) : i < j => Compare(cs[i], cs[j]) < 0}

CtxCmp(cs, c) == [i \in 1..Len(cs) |-> Compare(cs[i], c)]

LEMMA SortedCtxsAre ==
    ASSUME NEW cs \in SortedCtxs
    PROVE  /\ cs \in Seq(Context) /\ Len(cs) \in Nat
           /\ \A i \in 1..Len(cs) : /\ cs[i] \in Context /\ HasKey(cs[i])
                                    /\ cs[i].values \in SortedVars
           /\ \A i, j \in 1..Len(cs) : i < j => Compare(cs[i], cs[j]) < 0
           /\ ToSet(cs) = {cs[i] : i \in 1..Len(cs)}
<1>1. cs \in Seq(Context) /\ Len(cs) \in Nat
  BY DEF SortedCtxs
<1>2. ASSUME NEW i \in 1..Len(cs)
      PROVE  cs[i] \in Context /\ HasKey(cs[i]) /\ cs[i].values \in SortedVars
  <2>1. cs[i] \in Context
    BY <1>1
  <2> QED BY <2>1 DEF Context, HasKey
<1>3. ToSet(cs) = {cs[i] : i \in 1..Len(cs)}
  BY <1>1, ElementsOf
<1> QED BY <1>1, <1>2, <1>3 DEF SortedCtxs

LEMMA CtxCmpSorted ==
    ASSUME NEW cs \in SortedCtxs, NEW c, HasKey(c)
    PROVE  Sorted(Len(cs), CtxCmp(cs, c))
<1> DEFINE n == Len(cs)
<1>1. \A i \in 1..n : HasKey(cs[i]) /\ Compare(cs[i], c) \in Int
  BY SortedCtxsAre, CompareIs
<1>2. ASSUME NEW i \in 1..n, NEW j \in 1..n, i < j, Compare(cs[i], c) >= 0
      PROVE  Compare(cs[j], c) > 0
  <2>1. Compare(cs[i], cs[j]) < 0
    BY <1>2, SortedCtxsAre
  <2>2. CASE Compare(cs[i], c) = 0
    <3>1. Same(cs[i], c)
      BY <1>1, <2>2, CompareIs
    <3>2. Compare(c, cs[j]) < 0
      BY <2>1, <3>1, CompareSame
    <3> QED BY <1>1, <3>2, CompareIs
  <2>3. CASE Compare(cs[i], c) > 0
    <3>1. Compare(c, cs[i]) < 0
      BY <1>1, <2>3, CompareIs
    <3>2. Compare(c, cs[j]) < 0
      BY <1>1, <2>1, <3>1, CompareTransitive
    <3> QED BY <1>1, <3>2, CompareIs
  <2> QED BY <1>1, <1>2, <2>2, <2>3
<1> QED BY <1>1, <1>2 DEF Sorted, CtxCmp

LEMMA FindCtxSearches ==
    ASSUME NEW cs \in SortedCtxs, NEW c, HasKey(c)
    PROVE  FindCtx(cs, c) = ZeroIn(CtxCmp(cs, c), Whole(Len(cs)))
<1> DEFINE n == Len(cs)
           cmp == CtxCmp(cs, c)
           P(f) == f = [r \in [low : 1..n + 1, high : 0..n] |->
                           IF r.low > r.high THEN 0
                           ELSE LET middle == r.low + (r.high - r.low) \div 2
                                    x == Compare(cs[middle], c)
                                IN  CASE x > 0 -> f[[r EXCEPT !.high = middle - 1]]
                                      [] x < 0 -> f[[r EXCEPT !.low = middle + 1]]
                                      [] OTHER -> middle]
           g == CHOOSE f : P(f)
           z == [r \in Ranges(n) |-> ZeroIn(cmp, r)]
<1>1. n \in Nat /\ Sorted(n, cmp)
  BY SortedCtxsAre, CtxCmpSorted
<1>2. ASSUME NEW f, NEW r \in Ranges(n)
      PROVE  Turn(cmp, f, r) =
                 IF r.low > r.high THEN 0
                 ELSE LET middle == r.low + (r.high - r.low) \div 2
                          x == Compare(cs[middle], c)
                      IN  CASE x > 0 -> f[[r EXCEPT !.high = middle - 1]]
                            [] x < 0 -> f[[r EXCEPT !.low = middle + 1]]
                            [] OTHER -> middle
  <2>1. CASE r.low > r.high
    BY <2>1 DEF Turn
  <2>2. CASE r.low <= r.high
    <3> DEFINE middle == r.low + (r.high - r.low) \div 2
    <3>1. middle \in 1..n
      BY <1>1, <2>2, Halves DEF Ranges
    <3>2. cmp[middle] = Compare(cs[middle], c)
      BY <3>1 DEF CtxCmp
    <3> QED BY <2>2, <3>2 DEF Turn
  <2> QED BY <2>1, <2>2, <1>1 DEF Ranges
<1>3. P(z)
  <2>1. \A r \in Ranges(n) : z[r] = Turn(cmp, z, r)
    BY <1>1, ZeroTurns
  <2>2. z = [r \in Ranges(n) |-> z[r]]
    OBVIOUS
  <2> HIDE DEF z
  <2> QED BY <1>2, <2>1, <2>2 DEF Ranges
<1>4. P(g)
  <2> HIDE DEF P, z
  <2> QED BY <1>3
<1>5. g = [r \in Ranges(n) |-> Turn(cmp, g, r)]
  <2> HIDE DEF g
  <2> QED BY <1>2, <1>4 DEF Ranges
<1>6. FindCtx(cs, c) = g[Whole(n)]
  BY DEF FindCtx, Find, Whole
<1>7. Whole(n) \in Ranges(n)
  BY <1>1 DEF Whole, Ranges
<1> HIDE DEF g, P, cmp
<1> QED BY <1>1, <1>5, <1>6, <1>7, SearchIsZero DEF cmp

LEMMA FindCtxFinds ==
    ASSUME NEW cs \in SortedCtxs, NEW c, HasKey(c)
    PROVE  /\ FindCtx(cs, c) \in 0..Len(cs)
           /\ FindCtx(cs, c) # 0 => Same(cs[FindCtx(cs, c)], c)
           /\ FindCtx(cs, c) = 0 => \A i \in 1..Len(cs) : ~Same(cs[i], c)
<1> DEFINE n == Len(cs)
           W == Within(CtxCmp(cs, c), Whole(n))
<1>1. n \in Nat /\ \A i \in 1..n : HasKey(cs[i]) /\ Compare(cs[i], c) \in Int
  BY SortedCtxsAre, CompareIs
<1>2. W = {i \in 1..n : Same(cs[i], c)}
  <2>1. W = {i \in 1..n : Compare(cs[i], c) = 0}
    BY <1>1 DEF Within, Whole, CtxCmp
  <2> QED BY <1>1, <2>1, CompareIs
<1>3. FindCtx(cs, c) = IF W = {} THEN 0 ELSE CHOOSE i \in W : TRUE
  BY FindCtxSearches DEF ZeroIn
<1> HIDE DEF W
<1> QED BY <1>1, <1>2, <1>3

\* A context is in an array once.
LEMMA CtxOnce ==
    ASSUME NEW cs \in SortedCtxs,
           NEW i \in 1..Len(cs), NEW j \in 1..Len(cs), Same(cs[i], cs[j])
    PROVE  i = j
<1>1. HasKey(cs[i]) /\ HasKey(cs[j]) /\ Len(cs) \in Nat
  BY SortedCtxsAre
<1>2. Same(cs[j], cs[i])
  BY DEF Same
<1>3. Compare(cs[i], cs[j]) = 0 /\ Compare(cs[j], cs[i]) = 0
  BY <1>1, <1>2, CompareIs
<1>4. ~(i < j) /\ ~(j < i)
  BY <1>3, SortedCtxsAre
<1> QED BY <1>1, <1>4

LEMMA ObtainIs ==
    ASSUME NEW cs \in SortedCtxs, NEW c, HasKey(c)
    PROVE  /\ Obtain(cs, c) \in SortedCtxs
           /\ FindCtx(Obtain(cs, c), c) \in 1..Len(Obtain(cs, c))
           /\ Same(Obtain(cs, c)[FindCtx(Obtain(cs, c), c)], c)
           /\ ToSet(Obtain(cs, c)) = IF \E e \in ToSet(cs) : Same(e, c) THEN ToSet(cs)
                                     ELSE ToSet(cs) \cup {Empty(c)}
<1> DEFINE n == Len(cs)
           v == Empty(c)
           t == Obtain(cs, c)
<1>1. /\ cs \in Seq(Context) /\ n \in Nat
      /\ \A i \in 1..n : cs[i] \in Context /\ HasKey(cs[i])
      /\ \A i, j \in 1..n : i < j => Compare(cs[i], cs[j]) < 0
      /\ ToSet(cs) = {cs[i] : i \in 1..n}
  BY SortedCtxsAre
<1>2. /\ FindCtx(cs, c) \in 0..n
      /\ FindCtx(cs, c) # 0 => Same(cs[FindCtx(cs, c)], c)
      /\ FindCtx(cs, c) = 0 => \A i \in 1..n : ~Same(cs[i], c)
  BY FindCtxFinds
<1>3. CASE FindCtx(cs, c) # 0
  <2>1. t = cs
    BY <1>3 DEF Obtain
  <2>2. \E e \in ToSet(cs) : Same(e, c)
    BY <1>1, <1>2, <1>3
  <2> QED BY <1>2, <1>3, <2>1, <2>2
<1>4. CASE FindCtx(cs, c) = 0
  <2> DEFINE cmp == CtxCmp(cs, c)
             q == PlaceOf(n, cmp)
  <2>1. /\ Sorted(n, cmp)
        /\ \A i \in 1..n : cmp[i] # 0 /\ cmp[i] = Compare(cs[i], c)
    <3>1. \A i \in 1..n : cmp[i] = Compare(cs[i], c)
      BY DEF CtxCmp
    <3>2. \A i \in 1..n : Compare(cs[i], c) # 0
      BY <1>1, <1>2, <1>4, CompareIs
    <3> QED BY <3>1, <3>2, CtxCmpSorted
  <2>2. v \in Context /\ HasKey(v) /\ Same(v, c)
    <3>1. <<>> \in SortedVars
      BY DEF SortedVars
    <3> QED BY <3>1 DEF Empty, Context, HasKey, Same
  <2>3. t = InsertAt(cs, q, v)
    <3>1. t = InsertNew(cs, v, Compare)
      BY <1>4 DEF Obtain
    <3>2. \A i \in 1..n : Compare(cs[i], v) = cmp[i]
      BY <2>1, <2>2, CompareSame
    <3>3. {i \in 1..n : Compare(cs[i], v) <= 0} = Stops(n, cmp)
      BY <3>2 DEF Stops
    <3> QED BY <3>1, <3>3 DEF InsertNew, PlaceOf
  <2> HIDE DEF cmp, v
  <2>4. /\ q \in 1..n + 1
        /\ \A i \in 1..n : /\ i < q => cmp[i] < 0
                           /\ i >= q => cmp[i] > 0
    BY <1>1, <2>1, PlaceIsBetween
  <2> HIDE DEF q, t
  <2>5. /\ t \in Seq(Context) /\ Len(t) = n + 1
        /\ \A i \in 1..n + 1 : t[i] = IF i < q THEN cs[i] ELSE IF i = q THEN v ELSE cs[i - 1]
    <3>1. cs \in Seq(Context) /\ q \in 1..Len(cs) + 1 /\ v \in Context
      BY <1>1, <2>2, <2>4
    <3>2. /\ InsertAt(cs, q, v) \in Seq(Context) /\ Len(InsertAt(cs, q, v)) = n + 1
          /\ \A i \in 1..n + 1 :
                InsertAt(cs, q, v)[i] = IF i < q THEN cs[i] ELSE IF i = q THEN v ELSE cs[i - 1]
      BY <3>1, InsertAtIs
    <3> QED BY <2>3, <3>2
  <2>6. \A i \in 1..n : /\ i < q => Compare(cs[i], v) < 0
                        /\ i >= q => Compare(v, cs[i]) < 0
    <3> TAKE i \in 1..n
    <3>1. Compare(cs[i], v) = cmp[i] /\ HasKey(cs[i])
      BY <1>1, <2>1, <2>2, CompareSame
    <3>2. Compare(v, cs[i]) < 0 <=> Compare(cs[i], v) > 0
      BY <2>2, <3>1, CompareIs
    <3> QED BY <2>4, <3>1, <3>2
  <2>7. \A i, j \in 1..n + 1 : i < j => Compare(t[i], t[j]) < 0
    <3> DEFINE k(i) == IF i < q THEN i ELSE i - 1
    <3>1. \A i \in 1..n + 1 : i # q => k(i) \in 1..n /\ t[i] = cs[k(i)]
      BY <1>1, <2>4, <2>5
    <3>2. \A i, j \in 1..n + 1 : i < j /\ i # q /\ j # q => k(i) < k(j)
      BY <2>4
    <3>3. \A i \in 1..n + 1 : /\ i < q => k(i) < q
                              /\ i > q => k(i) >= q
      BY <2>4
    <3>4. t[q] = v
      BY <2>4, <2>5
    <3> HIDE DEF k
    <3>5. \A i, j \in 1..n + 1 : i < j /\ i # q /\ j # q => Compare(t[i], t[j]) < 0
      BY <1>1, <3>1, <3>2
    <3>6. \A i \in 1..n + 1 : /\ i < q => Compare(t[i], v) < 0
                              /\ i > q => Compare(v, t[i]) < 0
      BY <2>4, <2>6, <3>1, <3>3
    <3> QED BY <2>4, <3>4, <3>5, <3>6
  <2>8. t \in SortedCtxs
    BY <2>5, <2>7 DEF SortedCtxs
  <2>9. ToSet(t) = {t[i] : i \in 1..n + 1}
    BY <2>5, <2>8, SortedCtxsAre
  <2>10. \A w : w \in ToSet(t) <=> w \in ToSet(cs) \/ w = v
    <3>1. ASSUME NEW i \in 1..n PROVE cs[i] \in ToSet(t)
      <4>1. CASE i < q
        BY <1>1, <2>4, <2>5, <2>9, <4>1
      <4>2. CASE i >= q
        <5>1. i + 1 \in 1..n + 1 /\ t[i + 1] = cs[i]
          BY <1>1, <2>4, <2>5, <4>2
        <5> QED BY <5>1, <2>9
      <4> QED BY <2>4, <4>1, <4>2
    <3>2. v \in ToSet(t)
      BY <1>1, <2>4, <2>5, <2>9
    <3>3. \A i \in 1..n + 1 : t[i] \in ToSet(cs) \/ t[i] = v
      BY <1>1, <2>4, <2>5
    <3> QED BY <1>1, <2>9, <3>1, <3>2, <3>3
  <2>11. ToSet(t) = ToSet(cs) \cup {v} /\ ~\E e \in ToSet(cs) : Same(e, c)
    BY <1>1, <1>2, <1>4, <2>10
  <2>12. /\ FindCtx(t, c) \in 0..Len(t)
         /\ FindCtx(t, c) # 0 => Same(t[FindCtx(t, c)], c)
         /\ FindCtx(t, c) = 0 => \A i \in 1..Len(t) : ~Same(t[i], c)
    BY <2>8, FindCtxFinds
  <2>13. t[q] = v /\ q \in 1..Len(t)
    BY <2>4, <2>5
  <2>14. FindCtx(t, c) \in 1..Len(t) /\ Same(t[FindCtx(t, c)], c)
    BY <1>1, <2>2, <2>5, <2>12, <2>13
  <2> QED BY <2>8, <2>11, <2>14 DEF t, v
<1> QED BY <1>3, <1>4

CtxWith(c, vals) == [level |-> c.level, trange |-> c.trange, values |-> vals]
ValuesIn(cs, c) ==
    IF \E e \in ToSet(cs) : Same(e, c) THEN (CHOOSE e \in ToSet(cs) : Same(e, c)).values
    ELSE <<>>

LEMMA EmptyVars == <<>> \in SortedVars
BY DEF SortedVars

LEMMA ElementsAreCtxs ==
    ASSUME NEW cs \in SortedCtxs
    PROVE  /\ \A e \in ToSet(cs) : e \in Context /\ HasKey(e) /\ e.values \in SortedVars
           /\ \A e, d \in ToSet(cs) : Same(e, d) => e = d
<1>1. ToSet(cs) = {cs[i] : i \in 1..Len(cs)}
  BY SortedCtxsAre
<1>2. \A i \in 1..Len(cs) : cs[i] \in Context /\ HasKey(cs[i]) /\ cs[i].values \in SortedVars
  BY SortedCtxsAre
<1> QED BY <1>1, <1>2, CtxOnce

LEMMA ValuesInAre ==
    ASSUME NEW cs \in SortedCtxs, NEW c
    PROVE  /\ ValuesIn(cs, c) \in SortedVars
           /\ \A e \in ToSet(cs) : Same(e, c) => ValuesIn(cs, c) = e.values
<1>1. \A e, d \in ToSet(cs) : Same(e, c) /\ Same(d, c) => e = d
  BY ElementsAreCtxs DEF Same
<1> QED BY <1>1, ElementsAreCtxs, EmptyVars DEF ValuesIn

LEMMA PutIs ==
    ASSUME NEW cs \in SortedCtxs, NEW c, HasKey(c), NEW all, all = Obtain(cs, c),
           NEW p, p = FindCtx(all, c)
    PROVE  /\ p \in DOMAIN all
           /\ all[p].values = ValuesIn(cs, c)
           /\ \A w \in SortedVars :
                 /\ [all EXCEPT ![p].values = w] \in SortedCtxs
                 /\ ToSet([all EXCEPT ![p].values = w]) =
                       {e \in ToSet(cs) : ~Same(e, c)} \cup {CtxWith(c, w)}
<1> DEFINE n == Len(all)
<1>1. /\ all \in SortedCtxs /\ p \in 1..n /\ Same(all[p], c)
      /\ ToSet(all) = IF \E e \in ToSet(cs) : Same(e, c) THEN ToSet(cs)
                      ELSE ToSet(cs) \cup {Empty(c)}
  BY ObtainIs
<1>2. /\ all \in Seq(Context) /\ n \in Nat
      /\ \A i \in 1..n : /\ all[i] \in Context /\ HasKey(all[i])
                         /\ all[i].values \in SortedVars
      /\ \A i, j \in 1..n : i < j => Compare(all[i], all[j]) < 0
      /\ ToSet(all) = {all[i] : i \in 1..n}
  BY <1>1, SortedCtxsAre
<1>3. p \in DOMAIN all
  BY <1>1, <1>2
<1>4. all[p].values = ValuesIn(cs, c)
  <2>1. all[p] \in ToSet(all)
    BY <1>1, <1>2
  <2>2. CASE \E e \in ToSet(cs) : Same(e, c)
    BY <1>1, <2>1, <2>2, ValuesInAre
  <2>3. CASE ~\E e \in ToSet(cs) : Same(e, c)
    <3>1. all[p] = Empty(c)
      BY <1>1, <2>1, <2>3
    <3> QED BY <2>3, <3>1 DEF Empty, ValuesIn
  <2> QED BY <2>2, <2>3
<1>5. ASSUME NEW w \in SortedVars
      PROVE  /\ [all EXCEPT ![p].values = w] \in SortedCtxs
             /\ ToSet([all EXCEPT ![p].values = w]) =
                   {e \in ToSet(cs) : ~Same(e, c)} \cup {CtxWith(c, w)}
  <2> DEFINE t == [all EXCEPT ![p].values = w]
             v == CtxWith(c, w)
  <2>1. [all[p] EXCEPT !.values = w] = v /\ v \in Context /\ Same(v, c)
    <3>1. all[p] \in Context
      BY <1>1, <1>2
    <3>2. [all[p] EXCEPT !.values = w] =
             [level |-> all[p].level, trange |-> all[p].trange, values |-> w]
      BY <3>1 DEF Context
    <3> QED BY <1>1, <3>1, <3>2 DEF Context, CtxWith, Same
  <2>2. t = [all EXCEPT ![p] = v]
    BY <1>3, <2>1
  <2> HIDE DEF t, v
  <2>3. /\ t \in Seq(Context) /\ Len(t) = n
        /\ \A i \in 1..n : t[i] = IF i = p THEN v ELSE all[i]
    BY <1>1, <1>2, <2>1, <2>2
  <2>4. \A i \in 1..n : Same(t[i], all[i])
    BY <1>1, <2>1, <2>3 DEF Same
  <2>5. \A i, j \in 1..n : Compare(t[i], t[j]) = Compare(all[i], all[j])
    BY <2>4, CompareSame
  <2>6. t \in SortedCtxs
    BY <1>2, <2>3, <2>5 DEF SortedCtxs
  <2>7. ToSet(t) = {t[i] : i \in 1..n}
    BY <2>3, <2>6, SortedCtxsAre
  <2>8. \A i \in 1..n : Same(all[i], c) <=> i = p
    <3> TAKE i \in 1..n
    <3>1. Same(all[i], c) => Same(all[i], all[p])
      BY <1>1 DEF Same
    <3> QED BY <1>1, <3>1, CtxOnce
  <2>9. ToSet(t) = {e \in ToSet(all) : ~Same(e, c)} \cup {v}
    <3>1. \A e : e \in ToSet(t) <=> e = v \/ (e \in ToSet(all) /\ ~Same(e, c))
      BY <1>1, <1>2, <2>3, <2>7, <2>8
    <3> QED BY <3>1
  <2>10. {e \in ToSet(all) : ~Same(e, c)} = {e \in ToSet(cs) : ~Same(e, c)}
    <3>1. Same(Empty(c), c)
      BY DEF Same, Empty
    <3> QED BY <1>1, <3>1
  <2> QED BY <2>6, <2>9, <2>10 DEF t, v
<1> QED BY <1>3, <1>4, <1>5

LEMMA DropIs ==
    ASSUME NEW cs \in SortedCtxs, NEW c, HasKey(c)
    PROVE  /\ Drop(cs, c) \in SortedCtxs
           /\ ToSet(Drop(cs, c)) = {e \in ToSet(cs) : ~Same(e, c)}
<1> DEFINE n == Len(cs)
           p == FindCtx(cs, c)
           t == Drop(cs, c)
<1>1. /\ p \in 0..n
      /\ p # 0 => Same(cs[p], c)
      /\ p = 0 => \A i \in 1..n : ~Same(cs[i], c)
  BY FindCtxFinds
<1>2. /\ cs \in Seq(Context) /\ n \in Nat
      /\ \A i, j \in 1..n : i < j => Compare(cs[i], cs[j]) < 0
      /\ ToSet(cs) = {cs[i] : i \in 1..n}
  BY SortedCtxsAre
<1>3. CASE p = 0
  BY <1>1, <1>2, <1>3 DEF Drop
<1>4. CASE p # 0
  <2>1. t = RemoveAt(cs, p)
    BY <1>4 DEF Drop
  <2>2. p \in 1..n /\ Same(cs[p], c)
    BY <1>1, <1>4
  <2> HIDE DEF t, p
  <2>3. /\ t \in Seq(Context) /\ Len(t) = n - 1
        /\ \A i \in 1..n - 1 : t[i] = IF i < p THEN cs[i] ELSE cs[i + 1]
    <3>1. cs \in Seq(Context) /\ p \in 1..Len(cs)
      BY <1>2, <2>2
    <3> QED BY <3>1, <2>1, RemoveAtIs
  <2>4. \A i, j \in 1..n - 1 : i < j => Compare(t[i], t[j]) < 0
    <3> DEFINE k(i) == IF i < p THEN i ELSE i + 1
    <3>1. \A i \in 1..n - 1 : k(i) \in 1..n /\ t[i] = cs[k(i)]
      BY <1>2, <2>2, <2>3
    <3>2. \A i, j \in 1..n - 1 : i < j => k(i) < k(j)
      BY <2>2
    <3> HIDE DEF k
    <3> QED BY <1>2, <3>1, <3>2
  <2>5. t \in SortedCtxs
    BY <2>3, <2>4 DEF SortedCtxs
  <2>6. ToSet(t) = {t[i] : i \in 1..n - 1}
    BY <2>3, <2>5, SortedCtxsAre
  <2>7. \A i \in 1..n : Same(cs[i], c) <=> i = p
    <3> TAKE i \in 1..n
    <3>1. Same(cs[i], c) => Same(cs[i], cs[p])
      BY <2>2 DEF Same
    <3> QED BY <2>2, <3>1, CtxOnce
  <2>8. ASSUME NEW i \in 1..n, i # p PROVE cs[i] \in ToSet(t)
    <3>1. CASE i < p
      BY <1>2, <2>2, <2>3, <2>6, <3>1
    <3>2. CASE i > p
      <4>1. i - 1 \in 1..n - 1 /\ t[i - 1] = cs[i]
        BY <1>2, <2>2, <2>3, <3>2
      <4> QED BY <4>1, <2>6
    <3> QED BY <2>2, <2>8, <3>1, <3>2
  <2>9. \A i \in 1..n - 1 : t[i] \in ToSet(cs) /\ ~Same(t[i], c)
    <3> TAKE i \in 1..n - 1
    <3>1. CASE i < p
      BY <1>2, <2>2, <2>3, <2>7, <3>1
    <3>2. CASE i >= p
      <4>1. i + 1 \in 1..n /\ i + 1 # p /\ t[i] = cs[i + 1]
        BY <1>2, <2>2, <2>3, <3>2
      <4> QED BY <1>2, <2>7, <4>1
    <3> QED BY <2>2, <3>1, <3>2
  <2> QED BY <1>2, <2>5, <2>6, <2>7, <2>8, <2>9 DEF t
<1> QED BY <1>3, <1>4

----------------------------------------------------------------------------
(* Folds *)

Folded(S, base, F, pick, f) ==
    f = [s \in SUBSET S |->
            IF s = {} THEN base ELSE F[<<f[s \ {pick[s]}], pick[s]>>]]

LEMMA FoldExists ==
    ASSUME NEW S, IsFiniteSet(S), NEW A, NEW base \in A,
           NEW F, \A a \in A, x \in S : F[<<a, x>>] \in A,
           NEW pick, \A s \in SUBSET S : s # {} => pick[s] \in s
    PROVE  \E f : Folded(S, base, F, pick, f) /\ \A s \in SUBSET S : f[s] \in A
<1> DEFINE Small(k) == {s \in SUBSET S : Cardinality(s) <= k}
           Next1(f, s) == IF s = {} THEN base ELSE F[<<f[s \ {pick[s]}], pick[s]>>]
           K == {k \in Nat : \E f : \A s \in Small(k) : f[s] \in A /\ f[s] = Next1(f, s)}
<1>1. \A s \in SUBSET S : IsFiniteSet(s) /\ Cardinality(s) \in Nat
  BY FS_Subset, FS_CardinalityType
<1>2. \A s \in SUBSET S : Cardinality(s) = 0 <=> s = {}
  BY <1>1, FS_EmptySet
<1>3. \A s \in SUBSET S : s # {} =>
          /\ s \ {pick[s]} \in SUBSET S
          /\ Cardinality(s \ {pick[s]}) = Cardinality(s) - 1
          /\ pick[s] \in S
  <2> TAKE s \in SUBSET S
  <2> HAVE s # {}
  <2>1. pick[s] \in s
    OBVIOUS
  <2> QED BY <1>1, <2>1, FS_RemoveElement
<1>4. 0 \in K
  <2> DEFINE f == [s \in {{}} |-> base]
  <2>1. \A s \in Small(0) : s = {}
    BY <1>1, <1>2
  <2>2. f[{}] = base
    OBVIOUS
  <2> HIDE DEF f
  <2>3. \A s \in Small(0) : f[s] \in A /\ f[s] = Next1(f, s)
    BY <2>1, <2>2
  <2> QED BY <2>3
<1>5. ASSUME NEW k \in Nat, k \in K PROVE k + 1 \in K
  <2>1. PICK f : \A s \in Small(k) : f[s] \in A /\ f[s] = Next1(f, s)
    BY <1>5
  <2> DEFINE g == [s \in Small(k + 1) |-> Next1(f, s)]
  <2>2. ASSUME NEW s \in Small(k) PROVE g[s] = f[s] /\ f[s] \in A
    <3>1. s \in Small(k + 1)
      BY <1>1
    <3> QED BY <2>1, <3>1
  <2>3. ASSUME NEW s \in Small(k + 1) PROVE g[s] \in A /\ g[s] = Next1(g, s)
    <3>1. g[s] = Next1(f, s)
      OBVIOUS
    <3> HIDE DEF g
    <3>2. CASE s = {}
      BY <3>1, <3>2
    <3>3. CASE s # {}
      <4>1. s \ {pick[s]} \in Small(k)
        BY <1>1, <1>3, <3>3
      <4>2. pick[s] \in S
        BY <1>3, <3>3
      <4>3. g[s \ {pick[s]}] = f[s \ {pick[s]}] /\ f[s \ {pick[s]}] \in A
        BY <2>2, <4>1
      <4> QED BY <3>1, <3>3, <4>2, <4>3
    <3> QED BY <3>2, <3>3
  <2> HIDE DEF g, Next1, Small
  <2> QED BY <2>3
<1>6. \A k \in Nat : k \in K => k + 1 \in K
  BY <1>5
<1>7. Cardinality(S) \in K
  <2> HIDE DEF K
  <2>1. Nat \subseteq K
    BY <1>4, <1>6, Induct
  <2> QED BY <1>1, <2>1
<1>8. PICK f : \A s \in Small(Cardinality(S)) : f[s] \in A /\ f[s] = Next1(f, s)
  BY <1>7
<1>9. \A s \in SUBSET S : s \in Small(Cardinality(S))
  BY FS_Subset
<1> DEFINE g == [s \in SUBSET S |-> f[s]]
<1>10. \A s \in SUBSET S : g[s] = f[s] /\ g[s] \in A /\ f[s] = Next1(f, s)
  BY <1>8, <1>9
<1> HIDE DEF Small
<1>11. \A s \in SUBSET S : Next1(f, s) = Next1(g, s)
  <2> HIDE DEF g
  <2> QED BY <1>3, <1>10
<1>12. g = [s \in SUBSET S |-> Next1(g, s)]
  <2>1. g = [s \in SUBSET S |-> g[s]]
    OBVIOUS
  <2> HIDE DEF g, Next1
  <2> QED BY <1>10, <1>11, <2>1
<1>13. Folded(S, base, F, pick, g)
  <2> HIDE DEF g
  <2> QED BY <1>12 DEF Folded
<1> HIDE DEF g
<1> QED BY <1>10, <1>13

LEMMA PrefixIs ==
    ASSUME NEW n \in Nat, NEW k \in 1..n
    PROVE  /\ 1..k \in SUBSET (1..n) /\ 1..k # {}
           /\ Max(1..k) = k
           /\ (1..k) \ {k} = 1..k - 1
<1>1. 1..k \in SUBSET (1..n) /\ k \in 1..k
  OBVIOUS
<1>2. Max(1..k) \in 1..k /\ \A i \in 1..k : i <= Max(1..k)
  BY <1>1, GreatestPosition
<1>3. (1..k) \ {k} = 1..k - 1
  OBVIOUS
<1> QED BY <1>1, <1>2, <1>3

LeftFolded(n, base, F, f) ==
    f = [s \in SUBSET (1..n) |-> IF s = {} THEN base ELSE F[<<f[s \ {Max(s)}], Max(s)>>]]

\* A fold over a sequence exists if its results have a type.
LEMMA FoldLeftExists ==
    ASSUME NEW n \in Nat, NEW A, NEW base \in A,
           NEW F, \A a \in A, i \in 1..n : F[<<a, i>>] \in A
    PROVE  \E f : LeftFolded(n, base, F, f) /\ \A s \in SUBSET (1..n) : f[s] \in A
<1> DEFINE pick == [s \in SUBSET (1..n) |-> Max(s)]
<1>1. IsFiniteSet(1..n)
  BY FS_Interval
<1>2. \A s \in SUBSET (1..n) : s # {} => Max(s) \in s
  BY GreatestPosition
<1>3. PICK f : /\ Folded(1..n, base, F, pick, f)
               /\ \A s \in SUBSET (1..n) : f[s] \in A
  <2> DEFINE S == 1..n
  <2>1. \A s \in SUBSET S : s # {} => pick[s] \in s
    BY <1>2
  <2> HIDE DEF pick
  <2>2. IsFiniteSet(S) /\ \A a \in A, x \in S : F[<<a, x>>] \in A
    BY <1>1
  <2> HIDE DEF S
  <2>3. \E f : Folded(S, base, F, pick, f) /\ \A s \in SUBSET S : f[s] \in A
    BY <2>1, <2>2, FoldExists
  <2> QED BY <2>3 DEF S
<1>4. LeftFolded(n, base, F, f)
  BY <1>3 DEF Folded, LeftFolded
<1> QED BY <1>3, <1>4

LEMMA MergeVarsSteps ==
    ASSUME NEW vals \in SortedVars, NEW other \in SortedVars, NEW n, n = Len(other)
    PROVE  \E h : /\ h[0] = vals
                  /\ \A k \in 1..n : h[k] = SetVar(h[k - 1], other[k])
                  /\ MergeVars(vals, other) = h[n]
<1> DEFINE F == [x \in SortedVars \X (1..n) |-> SetVar(x[1], other[x[2]])]
           P(f) == f = [s \in SUBSET (1..n) |->
                           IF s = {} THEN vals
                           ELSE SetVar(f[s \ {Max(s)}], other[Max(s)])]
           g == CHOOSE f : P(f)
<1>1. n \in Nat /\ DOMAIN other = 1..n /\ \A i \in 1..n : other[i] \in Variable
  BY SortedVarsAre
<1>2. \A a \in SortedVars, i \in 1..n :
          F[<<a, i>>] = SetVar(a, other[i]) /\ F[<<a, i>>] \in SortedVars
  BY <1>1, SetVarIs
<1>3. PICK f : LeftFolded(n, vals, F, f) /\ \A s \in SUBSET (1..n) : f[s] \in SortedVars
  <2> HIDE DEF F
  <2> QED BY <1>1, <1>2, FoldLeftExists
<1>4. P(f)
  <2>1. \A s \in SUBSET (1..n) : s # {} => /\ Max(s) \in 1..n
                                           /\ s \ {Max(s)} \in SUBSET (1..n)
    BY <1>1, GreatestPosition
  <2> HIDE DEF F
  <2>2. \A s \in SUBSET (1..n) : s # {} =>
            F[<<f[s \ {Max(s)}], Max(s)>>] = SetVar(f[s \ {Max(s)}], other[Max(s)])
    BY <1>2, <1>3, <2>1
  <2> QED BY <1>3, <2>2 DEF LeftFolded
<1>5. P(g)
  <2> HIDE DEF P
  <2> QED BY <1>4
<1>6. MergeVars(vals, other) = g[1..n]
  BY <1>1 DEF MergeVars, FoldLeft, MapThenFoldSet
<1> DEFINE h == [k \in 0..n |-> g[1..k]]
<1> HIDE DEF g
<1>7. h[0] = vals
  BY <1>1, <1>5
<1>8. ASSUME NEW k \in 1..n PROVE h[k] = SetVar(h[k - 1], other[k])
  <2>1. /\ 1..k \in SUBSET (1..n) /\ 1..k # {}
        /\ Max(1..k) = k
        /\ (1..k) \ {k} = 1..k - 1
    BY <1>1, PrefixIs
  <2>2. g[1..k] = SetVar(g[1..k - 1], other[k])
    BY <1>5, <2>1
  <2> QED BY <1>1, <2>2
<1>9. h[n] = g[1..n]
  BY <1>1
<1> HIDE DEF h
<1> QED BY <1>6, <1>7, <1>8, <1>9

LEMMA MergeVarsIs ==
    ASSUME NEW vals \in SortedVars, NEW other \in SortedVars
    PROVE  /\ MergeVars(vals, other) \in SortedVars
           /\ ToSet(MergeVars(vals, other)) =
                 {w \in ToSet(vals) : \A v \in ToSet(other) : v.code # w.code} \cup ToSet(other)
<1> DEFINE n == Len(other)
<1>1. /\ n \in Nat
      /\ \A i \in 1..n : other[i] \in Variable /\ other[i].code \in Int
      /\ \A i, j \in 1..n : i < j => other[i].code < other[j].code
      /\ DOMAIN other = 1..n
  BY SortedVarsAre
<1>2. ToSet(other) = {other[i] : i \in 1..n}
  BY <1>1, ElementsOf
<1>3. PICK h : /\ h[0] = vals
               /\ \A k \in 1..n : h[k] = SetVar(h[k - 1], other[k])
               /\ MergeVars(vals, other) = h[n]
  BY MergeVarsSteps
<1> DEFINE Kept(k) == {w \in ToSet(vals) : \A j \in 1..k : other[j].code # w.code}
           New(k) == {other[j] : j \in 1..k}
           K == {k \in Nat : k <= n => h[k] \in SortedVars /\ ToSet(h[k]) = Kept(k) \cup New(k)}
<1>4. 0 \in K
  BY <1>3
<1>5. ASSUME NEW k \in Nat, k \in K PROVE k + 1 \in K
  <2> SUFFICES ASSUME k + 1 <= n
               PROVE  h[k + 1] \in SortedVars /\ ToSet(h[k + 1]) = Kept(k + 1) \cup New(k + 1)
    OBVIOUS
  <2>1. k + 1 \in 1..n /\ k <= n
    BY <1>1
  <2>2. h[k] \in SortedVars /\ ToSet(h[k]) = Kept(k) \cup New(k)
    BY <1>5, <2>1
  <2> DEFINE v == other[k + 1]
  <2>3. h[k + 1] = SetVar(h[k], v) /\ v \in Variable
    BY <1>1, <1>3, <2>1
  <2>4. /\ h[k + 1] \in SortedVars
        /\ ToSet(h[k + 1]) = {w \in ToSet(h[k]) : w.code # v.code} \cup {v}
    BY <2>2, <2>3, SetVarIs
  <2>5. \A j \in 1..k : other[j].code # v.code
    BY <1>1, <2>1
  <2>6. 1..k + 1 = (1..k) \cup {k + 1}
    OBVIOUS
  <2>7. New(k + 1) = New(k) \cup {v} /\ \A w \in New(k) : w.code # v.code
    BY <2>5, <2>6
  <2>8. Kept(k + 1) = {w \in Kept(k) : w.code # v.code}
    BY <2>6
  <2> HIDE DEF Kept, New, v
  <2> QED BY <2>2, <2>4, <2>7, <2>8
<1>6. \A k \in Nat : k \in K => k + 1 \in K
  BY <1>5
<1>7. n \in K
  <2> HIDE DEF K
  <2> QED BY <1>1, <1>4, <1>6, Induct
<1>8. h[n] \in SortedVars /\ ToSet(h[n]) = Kept(n) \cup New(n)
  BY <1>1, <1>7
<1>9. Kept(n) = {w \in ToSet(vals) : \A v \in ToSet(other) : v.code # w.code}
  BY <1>2
<1> QED BY <1>2, <1>3, <1>8, <1>9

LEMMA HasVarIs ==
    ASSUME NEW vals \in SortedVars, NEW c \in Int
    PROVE  /\ HasVar(vals, c) <=> \E w \in ToSet(vals) : w.code = c
           /\ HasVar(vals, c) => VarOf(vals, c) \in ToSet(vals) /\ VarOf(vals, c).code = c
<1>1. /\ FindCode(vals, c) \in 0..Len(vals)
      /\ FindCode(vals, c) # 0 => vals[FindCode(vals, c)].code = c
      /\ FindCode(vals, c) = 0 => \A i \in 1..Len(vals) : vals[i].code # c
  BY FindCodeFinds
<1>2. Len(vals) \in Nat /\ DOMAIN vals = 1..Len(vals)
  BY SortedVarsAre
<1>3. ToSet(vals) = {vals[i] : i \in 1..Len(vals)}
  BY <1>2, ElementsOf
<1> QED BY <1>1, <1>2, <1>3 DEF HasVar, VarOf

\* An array has one variable of a code.
LEMMA VarOnce ==
    ASSUME NEW vals \in SortedVars
    PROVE  /\ \A w \in ToSet(vals) : w \in Variable /\ w.code \in Int
           /\ \A v, w \in ToSet(vals) : v.code = w.code => v = w
           /\ ToSet(vals) = {vals[i] : i \in DOMAIN vals}
<1>1. /\ Len(vals) \in Nat /\ DOMAIN vals = 1..Len(vals)
      /\ \A i \in 1..Len(vals) : vals[i] \in Variable /\ vals[i].code \in Int
      /\ \A i, j \in 1..Len(vals) : i < j => vals[i].code < vals[j].code
  BY SortedVarsAre
<1>2. ToSet(vals) = {vals[i] : i \in 1..Len(vals)}
  BY <1>1, ElementsOf
<1>3. \A i, j \in 1..Len(vals) : vals[i].code = vals[j].code => i = j
  BY <1>1
<1> QED BY <1>1, <1>2, <1>3

LEMMA MapIs ==
    ASSUME NEW vals \in SortedVars
    PROVE  /\ DOMAIN Map(vals) = {w.code : w \in ToSet(vals)}
           /\ Map(vals) = [k \in {w.code : w \in ToSet(vals)} |-> Map(vals)[k]]
           /\ \A w \in ToSet(vals) : Map(vals)[w.code] = w
<1>1. /\ ToSet(vals) = {vals[i] : i \in DOMAIN vals}
      /\ \A v, w \in ToSet(vals) : v.code = w.code => v = w
  BY VarOnce
<1>2. Codes(vals) = {w.code : w \in ToSet(vals)}
  BY <1>1 DEF Codes
<1>3. ASSUME NEW w \in ToSet(vals) PROVE Map(vals)[w.code] = w
  <2>1. PICK i \in DOMAIN vals : vals[i] = w
    BY <1>1
  <2>2. w.code \in Codes(vals)
    BY <1>2
  <2> DEFINE j == CHOOSE k \in DOMAIN vals : vals[k].code = w.code
  <2>3. j \in DOMAIN vals /\ vals[j].code = w.code
    BY <2>1
  <2>4. Map(vals)[w.code] = vals[j]
    BY <2>2 DEF Map
  <2> HIDE DEF j
  <2> QED BY <1>1, <2>3, <2>4
<1>4. DOMAIN Map(vals) = Codes(vals) /\ Map(vals) = [k \in Codes(vals) |-> Map(vals)[k]]
  BY DEF Map
<1> QED BY <1>2, <1>3, <1>4

LEMMA MapEqual ==
    ASSUME NEW vals \in SortedVars, NEW f, DOMAIN f = {w.code : w \in ToSet(vals)},
           f = [k \in DOMAIN f |-> f[k]], \A w \in ToSet(vals) : f[w.code] = w
    PROVE  Map(vals) = f
<1>1. \A k \in DOMAIN f : Map(vals)[k] = f[k]
  BY MapIs
<1>2. Map(vals) = [k \in DOMAIN f |-> Map(vals)[k]]
  BY MapIs
<1> QED BY <1>1, <1>2

----------------------------------------------------------------------------
(* The levels of soundings *)

Into(c) == IF IsSounding(c) THEN Packed(c) ELSE c

LEMMA IntoIs ==
    ASSUME NEW c \in Context
    PROVE  /\ HasKey(Into(c)) /\ HasKey(c)
           /\ ~Same(c, StationCtx) => ~Same(Into(c), StationCtx)
           /\ ~Same(c, Into(c)) => Compare(c, Into(c)) < 0
<1>1. HasKey(c) /\ c.level \in Level /\ c.trange \in Number
  BY DEF Context, HasKey
<1>2. CASE ~IsSounding(c)
  BY <1>1, <1>2 DEF Into, Same
<1>3. CASE IsSounding(c)
  <2> DEFINE l == <<c.level[1], c.level[2], Missing, Missing>>
  <2>1. c.level[1] \in {1, 2}
    BY <1>3 DEF IsSounding
  <2>2. Missing \in Number /\ c.level[1] \in Number /\ c.level[2] \in Number
    BY <1>1, MissingAssumption DEF Level, Number
  <2>3. l \in Level
    BY <2>2 DEF Level
  <2>4. Into(c) = [level |-> l, trange |-> c.trange]
    BY <1>3 DEF Into, Packed
  <2>5. HasKey(Into(c))
    BY <1>1, <2>3, <2>4 DEF HasKey
  <2>6. ~Same(Into(c), StationCtx)
    <3>1. l[1] # Missing
      BY <2>1, MissingAssumption
    <3>2. StationCtx.level[1] = Missing
      BY DEF StationCtx, NoLevel
    <3> QED BY <2>4, <3>1, <3>2 DEF Same
  <2>7. ASSUME ~Same(c, Into(c)) PROVE Compare(c, Into(c)) < 0
    <3>1. /\ Numbers(Into(c))[1] = Numbers(c)[1] /\ Numbers(Into(c))[2] = Numbers(c)[2]
          /\ Numbers(Into(c))[3] = Missing /\ Numbers(Into(c))[4] = Missing
          /\ Numbers(Into(c))[5] = Numbers(c)[5]
      BY <1>1, <2>4, <2>5, NumbersAre
    <3>2. PICK m \in 1..5 : /\ Numbers(c)[m] # Numbers(Into(c))[m]
                            /\ Compare(c, Into(c)) = Numbers(c)[m] - Numbers(Into(c))[m]
      BY <1>1, <2>5, <2>7, CompareFirst
    <3>3. m \in {3, 4} /\ Numbers(Into(c))[m] = Missing
      BY <3>1, <3>2
    <3>4. Numbers(c)[m] \in Int /\ Numbers(c)[m] <= Missing
      BY <1>1, <3>2, NumbersAre DEF Number
    <3> QED BY <3>2, <3>3, <3>4, MissingAssumption
  <2> QED BY <1>1, <2>5, <2>6, <2>7
<1> QED BY <1>2, <1>3

\* What is found in the context that c goes to, with what c brings.
Brought(cs, c) ==
    IF IsSounding(c) THEN MergeVars(ValuesIn(cs, Into(c)), c.values) ELSE c.values

LEMMA PackIntoIs ==
    ASSUME NEW cs \in SortedCtxs, NEW c \in Context
    PROVE  /\ PackInto(cs, c) \in SortedCtxs
           /\ Brought(cs, c) \in SortedVars
           /\ ToSet(PackInto(cs, c)) =
                 {e \in ToSet(cs) : ~Same(e, Into(c))} \cup {CtxWith(Into(c), Brought(cs, c))}
<1> DEFINE all == Obtain(cs, Into(c))
           p == FindCtx(all, Into(c))
<1>1. HasKey(Into(c)) /\ c.values \in SortedVars
  BY IntoIs DEF Context
<1>2. /\ p \in DOMAIN all
      /\ all[p].values = ValuesIn(cs, Into(c))
      /\ \A w \in SortedVars :
            /\ [all EXCEPT ![p].values = w] \in SortedCtxs
            /\ ToSet([all EXCEPT ![p].values = w]) =
                  {e \in ToSet(cs) : ~Same(e, Into(c))} \cup {CtxWith(Into(c), w)}
  BY <1>1, PutIs
<1>3. Brought(cs, c) \in SortedVars
  BY <1>1, ValuesInAre, MergeVarsIs DEF Brought
<1>4. PackInto(cs, c) = [all EXCEPT ![p].values = Brought(cs, c)]
  <2>1. CASE IsSounding(c)
    <3>1. PackInto(cs, c) = [all EXCEPT ![p].values = MergeVars(all[p].values, c.values)]
      BY <2>1 DEF PackInto, WithValues, Into
    <3> HIDE DEF all, p
    <3> QED BY <1>2, <2>1, <3>1 DEF Brought
  <2>2. CASE ~IsSounding(c)
    BY <2>2 DEF PackInto, WithValues, Into, Brought
  <2> QED BY <2>1, <2>2
<1> HIDE DEF all, p
<1> QED BY <1>2, <1>3, <1>4

LEMMA PackSteps ==
    ASSUME NEW cs \in SortedCtxs, NEW n, n = Len(cs)
    PROVE  \E h : /\ h[0] = <<>>
                  /\ \A k \in 1..n : h[k] = PackInto(h[k - 1], cs[k])
                  /\ Pack(cs) = h[n]
<1> DEFINE F == [x \in SortedCtxs \X (1..n) |-> PackInto(x[1], cs[x[2]])]
           P(f) == f = [s \in SUBSET (1..n) |->
                           IF s = {} THEN <<>>
                           ELSE PackInto(f[s \ {Max(s)}], cs[Max(s)])]
           g == CHOOSE f : P(f)
<1>1. n \in Nat /\ DOMAIN cs = 1..n /\ \A i \in 1..n : cs[i] \in Context
  BY SortedCtxsAre
<1>2. \A a \in SortedCtxs, i \in 1..n :
          F[<<a, i>>] = PackInto(a, cs[i]) /\ F[<<a, i>>] \in SortedCtxs
  BY <1>1, PackIntoIs
<1>3. PICK f : LeftFolded(n, <<>>, F, f) /\ \A s \in SUBSET (1..n) : f[s] \in SortedCtxs
  <2>1. <<>> \in SortedCtxs
    BY DEF SortedCtxs
  <2> HIDE DEF F
  <2> QED BY <1>1, <1>2, <2>1, FoldLeftExists
<1>4. P(f)
  <2>1. \A s \in SUBSET (1..n) : s # {} => /\ Max(s) \in 1..n
                                           /\ s \ {Max(s)} \in SUBSET (1..n)
    BY <1>1, GreatestPosition
  <2> HIDE DEF F
  <2>2. \A s \in SUBSET (1..n) : s # {} =>
            F[<<f[s \ {Max(s)}], Max(s)>>] = PackInto(f[s \ {Max(s)}], cs[Max(s)])
    BY <1>2, <1>3, <2>1
  <2> QED BY <1>3, <2>2 DEF LeftFolded
<1>5. P(g)
  <2> HIDE DEF P
  <2> QED BY <1>4
<1>6. Pack(cs) = g[1..n]
  BY <1>1 DEF Pack, FoldLeft, MapThenFoldSet
<1> DEFINE h == [k \in 0..n |-> g[1..k]]
<1> HIDE DEF g
<1>7. h[0] = <<>>
  BY <1>1, <1>5
<1>8. ASSUME NEW k \in 1..n PROVE h[k] = PackInto(h[k - 1], cs[k])
  <2>1. /\ 1..k \in SUBSET (1..n) /\ 1..k # {}
        /\ Max(1..k) = k
        /\ (1..k) \ {k} = 1..k - 1
    BY <1>1, PrefixIs
  <2>2. g[1..k] = PackInto(g[1..k - 1], cs[k])
    BY <1>5, <2>1
  <2> QED BY <1>1, <2>2
<1>9. h[n] = g[1..n]
  BY <1>1
<1> HIDE DEF h
<1> QED BY <1>6, <1>7, <1>8, <1>9

\* What the first k contexts of cs are packed into.
PackedUpTo(cs, k, t) ==
    /\ t \in SortedCtxs
    /\ \A i \in 1..k : \E e \in ToSet(t) : Same(e, Into(cs[i]))
    /\ \A e \in ToSet(t) :
          /\ \E i \in 1..k : Same(Into(cs[i]), e)
          /\ \A w \in ToSet(e.values) :
                \E i \in 1..k : Same(Into(cs[i]), e) /\ w \in ToSet(cs[i].values)
          /\ \A i \in 1..k : Same(cs[i], e) /\ ~IsSounding(cs[i]) => e.values = cs[i].values
          /\ (\A i \in 1..k : Same(cs[i], e) => IsSounding(cs[i])) =>
                \A i \in 1..k : Same(Into(cs[i]), e) =>
                    \A w \in ToSet(cs[i].values) : \E x \in ToSet(e.values) : x.code = w.code

\* A level that is no sounding comes after those that are packed into it.
LEMMA PlainLevelIsLast ==
    ASSUME NEW cs \in SortedCtxs, NEW i \in 1..Len(cs), NEW j \in 1..Len(cs), i < j,
           IsSounding(cs[j]), ~IsSounding(cs[i])
    PROVE  ~Same(cs[i], Into(cs[j]))
<1> SUFFICES ASSUME Same(cs[i], Into(cs[j])) PROVE FALSE
  OBVIOUS
<1>1. /\ cs[i] \in Context /\ HasKey(cs[i]) /\ cs[j] \in Context /\ HasKey(cs[j])
      /\ Compare(cs[i], cs[j]) < 0
  BY SortedCtxsAre
<1>2. HasKey(Into(cs[j])) /\ (~Same(cs[j], Into(cs[j])) => Compare(cs[j], Into(cs[j])) < 0)
  BY <1>1, IntoIs
<1>3. Compare(cs[i], Into(cs[j])) = 0
  BY <1>1, <1>2, CompareIs
<1>4. CASE Same(cs[j], Into(cs[j]))
  <2>1. Same(cs[i], cs[j])
    BY <1>4 DEF Same
  <2> QED BY <1>1, <2>1, CompareIs
<1>5. CASE ~Same(cs[j], Into(cs[j]))
  <2>1. Compare(cs[i], Into(cs[j])) < 0
    BY <1>1, <1>2, <1>5, CompareTransitive
  <2> QED BY <1>3, <2>1
<1> QED BY <1>4, <1>5

LEMMA PackOneMore ==
    ASSUME NEW cs \in SortedCtxs, NEW k \in Nat, k + 1 <= Len(cs),
           NEW t, PackedUpTo(cs, k, t)
    PROVE  PackedUpTo(cs, k + 1, PackInto(t, cs[k + 1]))
<1> DEFINE n == Len(cs)
           c == cs[k + 1]
           T == Into(c)
           u == PackInto(t, c)
           new == CtxWith(T, Brought(t, c))
<1>1. /\ n \in Nat /\ k + 1 \in 1..n /\ 1..k \subseteq 1..n
      /\ \A i \in 1..n : cs[i] \in Context /\ cs[i].values \in SortedVars
  BY SortedCtxsAre
<1>2. t \in SortedCtxs /\ c \in Context
  BY <1>1 DEF PackedUpTo
<1>3. /\ u \in SortedCtxs /\ Brought(t, c) \in SortedVars
      /\ ToSet(u) = {e \in ToSet(t) : ~Same(e, T)} \cup {new}
  BY <1>2, PackIntoIs
<1>4. Same(new, T) /\ new.values = Brought(t, c)
  BY DEF CtxWith, Same
<1>5. ~IsSounding(c) => T = c /\ Brought(t, c) = c.values
  BY DEF Into, Brought
<1>6. 1..k + 1 = (1..k) \cup {k + 1}
  OBVIOUS
<1>7. /\ \A a, b : Same(a, b) => Same(b, a)
      /\ \A a, b, d : Same(a, b) /\ Same(b, d) => Same(a, d)
  BY DEF Same
<1> HIDE DEF T, u, new
<1>8. ASSUME NEW i \in 1..k + 1 PROVE \E e \in ToSet(u) : Same(e, Into(cs[i]))
  <2>1. CASE i = k + 1
    BY <1>3, <1>4, <2>1 DEF T
  <2>2. CASE i \in 1..k
    <3>1. PICK e \in ToSet(t) : Same(e, Into(cs[i]))
      BY <2>2 DEF PackedUpTo
    <3>2. CASE Same(e, T)
      <4>1. Same(new, Into(cs[i]))
        BY <1>4, <1>7, <3>1, <3>2
      <4> QED BY <1>3, <4>1
    <3>3. CASE ~Same(e, T)
      BY <1>3, <3>1, <3>3
    <3> QED BY <3>2, <3>3
  <2> QED BY <1>6, <2>1, <2>2
<1> DEFINE Good(e) ==
        /\ \E i \in 1..k + 1 : Same(Into(cs[i]), e)
        /\ \A w \in ToSet(e.values) :
              \E i \in 1..k + 1 : Same(Into(cs[i]), e) /\ w \in ToSet(cs[i].values)
        /\ \A i \in 1..k + 1 : Same(cs[i], e) /\ ~IsSounding(cs[i]) => e.values = cs[i].values
        /\ (\A i \in 1..k + 1 : Same(cs[i], e) => IsSounding(cs[i])) =>
              \A i \in 1..k + 1 : Same(Into(cs[i]), e) =>
                  \A w \in ToSet(cs[i].values) : \E x \in ToSet(e.values) : x.code = w.code
<1>9. ASSUME NEW e \in ToSet(t), ~Same(e, T) PROVE Good(e)
  <2>1. ~Same(Into(cs[k + 1]), e)
    BY <1>7, <1>9 DEF T
  <2>2. Same(cs[k + 1], e) => IsSounding(cs[k + 1])
    BY <2>1 DEF Into
  <2> QED BY <1>6, <2>1, <2>2 DEF PackedUpTo
<1>10. CASE ~IsSounding(c)
  <2>1. T = c /\ new.values = c.values
    BY <1>4, <1>5, <1>10
  <2>2. \A i \in 1..k + 1 : Same(cs[i], new) => i = k + 1
    <3> TAKE i \in 1..k + 1
    <3> HAVE Same(cs[i], new)
    <3>1. Same(cs[i], cs[k + 1])
      BY <1>4, <1>7, <2>1
    <3> QED BY <1>1, <1>6, <3>1, CtxOnce
  <2>3. Same(Into(cs[k + 1]), new) /\ Same(cs[k + 1], new)
    BY <1>4, <1>7, <2>1 DEF T
  <2>4. Good(new)
    BY <1>6, <1>10, <2>1, <2>2, <2>3
  <2> HIDE DEF Good
  <2>5. \A e \in ToSet(u) : Good(e)
    BY <1>3, <1>9, <2>4
  <2> QED BY <1>3, <1>8, <2>5 DEF Good, PackedUpTo, u
<1>11. CASE IsSounding(c)
  <2> DEFINE old == ValuesIn(t, T)
  <2>1. new.values = MergeVars(old, c.values) /\ c.values \in SortedVars /\ old \in SortedVars
    BY <1>1, <1>2, <1>4, <1>11, ValuesInAre DEF Brought, T
  <2>2. ToSet(new.values) =
           {w \in ToSet(old) : \A v \in ToSet(c.values) : v.code # w.code} \cup ToSet(c.values)
    BY <2>1, MergeVarsIs
  <2>3. Same(Into(cs[k + 1]), new)
    BY <1>4, <1>7 DEF T
  <2>4. \A e \in ToSet(t) : Same(e, T) => e.values = old
    BY <1>2, ValuesInAre
  <2>5. ASSUME NEW w \in ToSet(new.values)
        PROVE  \E i \in 1..k + 1 : Same(Into(cs[i]), new) /\ w \in ToSet(cs[i].values)
    <3>1. CASE w \in ToSet(c.values)
      BY <1>6, <2>3, <3>1
    <3>2. CASE w \in ToSet(old)
      <4>1. PICK e \in ToSet(t) : Same(e, T)
        <5>1. CASE \E e \in ToSet(t) : Same(e, T)
          BY <5>1
        <5>2. CASE ~\E e \in ToSet(t) : Same(e, T)
          BY <3>2, <5>2 DEF ValuesIn, ToSet
        <5> QED BY <5>1, <5>2
      <4>2. w \in ToSet(e.values)
        BY <2>4, <3>2, <4>1
      <4>3. PICK i \in 1..k : Same(Into(cs[i]), e) /\ w \in ToSet(cs[i].values)
        BY <4>2 DEF PackedUpTo
      <4>4. Same(Into(cs[i]), new)
        BY <1>4, <1>7, <4>1, <4>3
      <4> QED BY <1>6, <4>3, <4>4
    <3> QED BY <2>2, <3>1, <3>2
  <2>6. ASSUME NEW i \in 1..k + 1, Same(cs[i], new), ~IsSounding(cs[i]) PROVE FALSE
    <3>1. i # k + 1 /\ i \in 1..n /\ i < k + 1
      BY <1>1, <1>11, <2>6
    <3>2. Same(cs[i], Into(cs[k + 1]))
      BY <1>4, <1>7, <2>6 DEF T
    <3> QED BY <1>1, <1>11, <2>6, <3>1, <3>2, PlainLevelIsLast
  <2>7. ASSUME \A i \in 1..k + 1 : Same(cs[i], new) => IsSounding(cs[i]),
               NEW i \in 1..k + 1, Same(Into(cs[i]), new), NEW w \in ToSet(cs[i].values)
        PROVE  \E x \in ToSet(new.values) : x.code = w.code
    <3>1. CASE i = k + 1
      BY <2>2, <3>1
    <3>2. CASE i \in 1..k
      <4>1. PICK e \in ToSet(t) : Same(e, Into(cs[i]))
        BY <3>2 DEF PackedUpTo
      <4>2. Same(e, T) /\ Same(e, new) /\ Same(Into(cs[i]), e)
        BY <1>4, <1>7, <2>7, <4>1
      <4>3. \A j \in 1..k : Same(cs[j], e) => IsSounding(cs[j])
        BY <1>6, <1>7, <2>7, <4>2
      <4>4. PICK x \in ToSet(e.values) : x.code = w.code
        BY <3>2, <4>2, <4>3 DEF PackedUpTo
      <4>5. x \in ToSet(old)
        BY <2>4, <4>2, <4>4
      <4> QED BY <2>2, <4>4, <4>5
    <3> QED BY <1>6, <3>1, <3>2
  <2>8. Good(new)
    BY <1>6, <2>3, <2>5, <2>6, <2>7
  <2> HIDE DEF Good
  <2>9. \A e \in ToSet(u) : Good(e)
    BY <1>3, <1>9, <2>8
  <2> QED BY <1>3, <1>8, <2>9 DEF Good, PackedUpTo, u
<1> QED BY <1>10, <1>11

LEMMA PackIs ==
    ASSUME NEW cs \in SortedCtxs
    PROVE  PackedUpTo(cs, Len(cs), Pack(cs))
<1> DEFINE n == Len(cs)
<1>1. n \in Nat
  BY SortedCtxsAre
<1>2. PICK h : /\ h[0] = <<>>
               /\ \A k \in 1..n : h[k] = PackInto(h[k - 1], cs[k])
               /\ Pack(cs) = h[n]
  BY PackSteps
<1> DEFINE K == {k \in Nat : k <= n => PackedUpTo(cs, k, h[k])}
<1>3. 0 \in K
  <2>1. <<>> \in SortedCtxs /\ ToSet(<<>>) = {}
    BY DEF SortedCtxs, ToSet
  <2> QED BY <1>2, <2>1 DEF PackedUpTo
<1>4. ASSUME NEW k \in Nat, k \in K PROVE k + 1 \in K
  <2> SUFFICES ASSUME k + 1 <= n PROVE PackedUpTo(cs, k + 1, h[k + 1])
    OBVIOUS
  <2>1. k + 1 \in 1..n /\ k <= n
    BY <1>1
  <2>2. PackedUpTo(cs, k, h[k]) /\ h[k + 1] = PackInto(h[k], cs[k + 1])
    BY <1>2, <1>4, <2>1
  <2> QED BY <2>2, PackOneMore
<1>5. \A k \in Nat : k \in K => k + 1 \in K
  BY <1>4
<1>6. n \in K
  <2> HIDE DEF K
  <2> QED BY <1>1, <1>3, <1>5, Induct
<1> QED BY <1>1, <1>2, <1>6

----------------------------------------------------------------------------
(* Messages, as what they map *)

Types == {Stations[s].rep : s \in DOMAIN Stations}
Msg ==
    {m \in [type : Types, station : SortedVars, data : SortedCtxs] :
        \A e \in ToSet(m.data) : ~Same(e, StationCtx)}

LEMMA StationIsKey == StationCtx \in Key /\ HasKey(StationCtx)
BY MissingAssumption DEF StationCtx, Key, HasKey, NoLevel, Level, Number

LEMMA KeysAre ==
    ASSUME NEW c \in Key
    PROVE  HasKey(c) /\ CtxOf(c) = c
BY DEF Key, HasKey, CtxOf

LEMMA SameCtx ==
    ASSUME NEW c, NEW d
    PROVE  Same(c, d) <=> CtxOf(c) = CtxOf(d)
BY DEF Same, CtxOf

LEMMA MsgIs ==
    ASSUME NEW m \in Msg
    PROVE  /\ m.station \in SortedVars /\ m.data \in SortedCtxs /\ m.type \in Types
           /\ \A e \in ToSet(m.data) :
                 /\ ~Same(e, StationCtx) /\ CtxOf(e) # StationCtx
                 /\ e.values \in SortedVars /\ HasKey(e)
           /\ \A e, d \in ToSet(m.data) : CtxOf(e) = CtxOf(d) => e = d
<1>1. m.station \in SortedVars /\ m.data \in SortedCtxs /\ m.type \in Types
  BY DEF Msg
<1>2. \A e \in ToSet(m.data) : ~Same(e, StationCtx)
  BY DEF Msg
<1>3. CtxOf(StationCtx) = StationCtx
  BY StationIsKey, KeysAre
<1>4. \A e \in ToSet(m.data) : CtxOf(e) # StationCtx
  BY <1>2, <1>3, SameCtx
<1>5. /\ \A e \in ToSet(m.data) : e.values \in SortedVars /\ HasKey(e)
      /\ \A e, d \in ToSet(m.data) : Same(e, d) => e = d
  BY <1>1, ElementsAreCtxs
<1> QED BY <1>1, <1>2, <1>4, <1>5, SameCtx

LEMMA AsMapIs ==
    ASSUME NEW m \in Msg
    PROVE  /\ DOMAIN AsMap(m) = {CtxOf(e) : e \in ToSet(m.data)} \cup {StationCtx}
           /\ AsMap(m) = [c \in DOMAIN AsMap(m) |-> AsMap(m)[c]]
           /\ AsMap(m)[StationCtx] = Map(m.station)
           /\ \A e \in ToSet(m.data) : AsMap(m)[CtxOf(e)] = Map(e.values)
<1>1. Contexts(m) = {CtxOf(e) : e \in ToSet(m.data)}
  BY DEF Contexts, ToSet
<1>2. DOMAIN AsMap(m) = {CtxOf(e) : e \in ToSet(m.data)} \cup {StationCtx}
  BY <1>1 DEF AsMap
<1>3. AsMap(m)[StationCtx] = Map(m.station)
  BY DEF AsMap, IsStationCtx
<1>4. ASSUME NEW e \in ToSet(m.data) PROVE AsMap(m)[CtxOf(e)] = Map(e.values)
  <2> DEFINE P(i) == CtxOf(m.data[i]) = CtxOf(e)
             i == CHOOSE i \in DOMAIN m.data : P(i)
  <2>1. \E j \in DOMAIN m.data : P(j)
    BY DEF ToSet
  <2>2. i \in DOMAIN m.data /\ P(i)
    <3> HIDE DEF P
    <3> QED BY <2>1
  <2>3. m.data[i] = e
    BY <2>2, MsgIs DEF ToSet
  <2>4. CtxOf(e) # StationCtx /\ CtxOf(e) \in Contexts(m)
    BY <1>1, MsgIs
  <2>5. AsMap(m)[CtxOf(e)] = Map(m.data[i].values)
    BY <2>4 DEF AsMap, IsStationCtx
  <2> QED BY <2>3, <2>5
<1>5. AsMap(m) = [c \in DOMAIN AsMap(m) |-> AsMap(m)[c]]
  BY DEF AsMap
<1> QED BY <1>2, <1>3, <1>4, <1>5

LEMMA AsMapEqual ==
    ASSUME NEW m \in Msg, NEW f,
           DOMAIN f = {CtxOf(e) : e \in ToSet(m.data)} \cup {StationCtx},
           f = [c \in DOMAIN f |-> f[c]],
           f[StationCtx] = Map(m.station),
           \A e \in ToSet(m.data) : f[CtxOf(e)] = Map(e.values)
    PROVE  AsMap(m) = f
<1>1. \A c \in DOMAIN f : AsMap(m)[c] = f[c]
  <2>1. AsMap(m)[StationCtx] = f[StationCtx]
    BY AsMapIs
  <2>2. \A e \in ToSet(m.data) : AsMap(m)[CtxOf(e)] = f[CtxOf(e)]
    BY AsMapIs
  <2> QED BY <2>1, <2>2
<1>2. AsMap(m) = [c \in DOMAIN f |-> AsMap(m)[c]]
  BY AsMapIs
<1> QED BY <1>1, <1>2

LEMMA MapSet ==
    ASSUME NEW vals \in SortedVars, NEW v \in Variable
    PROVE  Map(SetVar(vals, v)) = Store!With(Map(vals), v.code, v)
<1> DEFINE new == SetVar(vals, v)
           f == Store!With(Map(vals), v.code, v)
<1>1. new \in SortedVars /\ ToSet(new) = {w \in ToSet(vals) : w.code # v.code} \cup {v}
  BY SetVarIs
<1>2. DOMAIN Map(vals) = {w.code : w \in ToSet(vals)}
      /\ \A w \in ToSet(vals) : Map(vals)[w.code] = w
  BY MapIs
<1>3. DOMAIN f = {w.code : w \in ToSet(new)} /\ f = [k \in DOMAIN f |-> f[k]]
  BY <1>1, <1>2 DEF Store!With
<1>4. \A w \in ToSet(new) : f[w.code] = w
  BY <1>1, <1>2 DEF Store!With
<1> HIDE DEF f, new
<1> QED BY <1>1, <1>3, <1>4, MapEqual DEF f, new

LEMMA MapUnset ==
    ASSUME NEW vals \in SortedVars, NEW k \in Int
    PROVE  Map(UnsetVar(vals, k)) = Store!Without(Map(vals), k)
<1> DEFINE new == UnsetVar(vals, k)
           f == Store!Without(Map(vals), k)
<1>1. new \in SortedVars /\ ToSet(new) = {w \in ToSet(vals) : w.code # k}
  BY UnsetVarIs
<1>2. DOMAIN Map(vals) = {w.code : w \in ToSet(vals)}
      /\ \A w \in ToSet(vals) : Map(vals)[w.code] = w
  BY MapIs
<1>3. DOMAIN f = {w.code : w \in ToSet(new)} /\ f = [x \in DOMAIN f |-> f[x]]
  BY <1>1, <1>2 DEF Store!Without
<1>4. \A w \in ToSet(new) : f[w.code] = w
  BY <1>1, <1>2 DEF Store!Without
<1> HIDE DEF f, new
<1> QED BY <1>1, <1>3, <1>4, MapEqual DEF f, new

\* What a message of these values is, as a map: with the values of c replaced.
LEMMA MsgWith ==
    ASSUME NEW m \in Msg, NEW c \in Key, c # StationCtx, NEW w \in SortedVars,
           NEW data \in SortedCtxs,
           ToSet(data) = {e \in ToSet(m.data) : ~Same(e, c)} \cup {CtxWith(c, w)}
    PROVE  /\ [m EXCEPT !.data = data] \in Msg
           /\ AsMap([m EXCEPT !.data = data]) = Store!With(AsMap(m), c, Map(w))
<1> DEFINE x == [m EXCEPT !.data = data]
           f == Store!With(AsMap(m), c, Map(w))
           old == {e \in ToSet(m.data) : ~Same(e, c)}
<1>1. HasKey(c) /\ CtxOf(c) = c /\ CtxOf(StationCtx) = StationCtx
  BY KeysAre, StationIsKey
<1>2. CtxOf(CtxWith(c, w)) = c /\ CtxWith(c, w).values = w
  BY <1>1 DEF CtxOf, CtxWith
<1>3. x \in [type : Types, station : SortedVars, data : SortedCtxs]
      /\ x.data = data /\ x.station = m.station
  BY DEF Msg
<1>4. \A e \in ToSet(data) : ~Same(e, StationCtx)
  <2>1. ~Same(CtxWith(c, w), StationCtx)
    BY <1>1, <1>2, SameCtx
  <2> QED BY <2>1, MsgIs
<1>5. x \in Msg
  BY <1>3, <1>4 DEF Msg
<1>6. DOMAIN AsMap(m) = {CtxOf(e) : e \in ToSet(m.data)} \cup {StationCtx}
      /\ AsMap(m)[StationCtx] = Map(m.station)
      /\ \A e \in ToSet(m.data) : AsMap(m)[CtxOf(e)] = Map(e.values)
  BY AsMapIs
<1>7. \A e \in ToSet(m.data) : Same(e, c) <=> CtxOf(e) = c
  BY <1>1, SameCtx
<1>8. DOMAIN f = {CtxOf(e) : e \in ToSet(data)} \cup {StationCtx}
  <2>1. DOMAIN f = DOMAIN AsMap(m) \cup {c}
    BY DEF Store!With
  <2>2. \A e \in ToSet(data) : CtxOf(e) \in DOMAIN f
    BY <1>2, <1>6, <2>1
  <2>3. \A e \in ToSet(m.data) : CtxOf(e) = c \/ e \in ToSet(data)
    BY <1>7
  <2>4. c \in {CtxOf(e) : e \in ToSet(data)}
    BY <1>2
  <2> QED BY <1>6, <2>1, <2>2, <2>3, <2>4
<1>9. f[StationCtx] = Map(x.station)
  BY <1>3, <1>6 DEF Store!With
<1>10. \A e \in ToSet(data) : f[CtxOf(e)] = Map(e.values)
  <2>1. f[c] = Map(w)
    BY DEF Store!With
  <2>2. \A e \in old : f[CtxOf(e)] = Map(e.values)
    BY <1>6, <1>7 DEF Store!With
  <2> HIDE DEF f
  <2> QED BY <1>2, <2>1, <2>2
<1>11. f = [k \in DOMAIN f |-> f[k]]
  BY DEF Store!With
<1> HIDE DEF f, x
<1> QED BY <1>3, <1>5, <1>8, <1>9, <1>10, <1>11, AsMapEqual DEF f, x

LEMMA AtIs ==
    ASSUME NEW m \in Msg, NEW c \in Key, c # StationCtx
    PROVE  Store!At(AsMap(m), c) = Map(ValuesIn(m.data, c))
<1>1. HasKey(c) /\ CtxOf(c) = c
  BY KeysAre
<1>2. DOMAIN AsMap(m) = {CtxOf(e) : e \in ToSet(m.data)} \cup {StationCtx}
      /\ \A e \in ToSet(m.data) : AsMap(m)[CtxOf(e)] = Map(e.values)
  BY AsMapIs
<1>3. CASE \E e \in ToSet(m.data) : Same(e, c)
  <2>1. PICK e \in ToSet(m.data) : Same(e, c)
    BY <1>3
  <2>2. ValuesIn(m.data, c) = e.values
    BY <2>1, MsgIs, ValuesInAre
  <2>3. CtxOf(e) = c
    BY <1>1, <2>1, SameCtx
  <2> QED BY <1>2, <2>1, <2>2, <2>3 DEF Store!At
<1>4. CASE ~\E e \in ToSet(m.data) : Same(e, c)
  <2>1. c \notin DOMAIN AsMap(m)
    BY <1>1, <1>2, <1>4, SameCtx
  <2>2. ValuesIn(m.data, c) = <<>>
    BY <1>4 DEF ValuesIn
  <2>3. Map(<<>>) = Store!None
    BY DEF Map, Codes, Store!None
  <2> QED BY <2>1, <2>2, <2>3 DEF Store!At
<1> QED BY <1>3, <1>4

\* Station values: the other contexts are as they were.
LEMMA MsgOfStation ==
    ASSUME NEW m \in Msg, NEW w \in SortedVars
    PROVE  /\ [m EXCEPT !.station = w] \in Msg
           /\ AsMap([m EXCEPT !.station = w]) = Store!With(AsMap(m), StationCtx, Map(w))
<1> DEFINE x == [m EXCEPT !.station = w]
           f == Store!With(AsMap(m), StationCtx, Map(w))
<1>1. x \in Msg /\ x.data = m.data /\ x.station = w
  BY DEF Msg
<1>2. DOMAIN AsMap(m) = {CtxOf(e) : e \in ToSet(m.data)} \cup {StationCtx}
      /\ \A e \in ToSet(m.data) : AsMap(m)[CtxOf(e)] = Map(e.values)
  BY AsMapIs
<1>3. DOMAIN f = {CtxOf(e) : e \in ToSet(m.data)} \cup {StationCtx}
      /\ f = [k \in DOMAIN f |-> f[k]] /\ f[StationCtx] = Map(w)
  BY <1>2 DEF Store!With
<1>4. \A e \in ToSet(m.data) : f[CtxOf(e)] = Map(e.values)
  BY <1>2, MsgIs DEF Store!With
<1> HIDE DEF f, x
<1> QED BY <1>1, <1>3, <1>4, AsMapEqual DEF f, x

LEMMA SetInIs ==
    ASSUME NEW m \in Msg, NEW c \in Key, NEW v \in Variable
    PROVE  /\ SetIn(m, c, v) \in Msg
           /\ AsMap(SetIn(m, c, v)) =
                 Store!With(AsMap(m), c, Store!With(Store!At(AsMap(m), c), v.code, v))
<1>1. CASE c = StationCtx
  <2> DEFINE w == SetVar(m.station, v)
  <2>1. w \in SortedVars /\ Map(w) = Store!With(Map(m.station), v.code, v)
    BY MsgIs, SetVarIs, MapSet
  <2>2. Store!At(AsMap(m), c) = Map(m.station)
    BY <1>1, AsMapIs DEF Store!At
  <2>3. SetIn(m, c, v) = [m EXCEPT !.station = w]
    BY <1>1 DEF SetIn, IsStationCtx
  <2> HIDE DEF w
  <2> QED BY <1>1, <2>1, <2>2, <2>3, MsgOfStation
<1>2. CASE c # StationCtx
  <2> DEFINE all == Obtain(m.data, c)
             p == FindCtx(all, c)
             old == ValuesIn(m.data, c)
             w == SetVar(old, v)
             data == [all EXCEPT ![p].values = w]
  <2>1. HasKey(c) /\ m.data \in SortedCtxs
    BY KeysAre, MsgIs
  <2>2. old \in SortedVars /\ w \in SortedVars
    BY <2>1, ValuesInAre, SetVarIs
  <2>3. /\ p \in DOMAIN all /\ all[p].values = old
        /\ data \in SortedCtxs
        /\ ToSet(data) = {e \in ToSet(m.data) : ~Same(e, c)} \cup {CtxWith(c, w)}
    <3> HIDE DEF w, old
    <3> QED BY <2>1, <2>2, PutIs DEF old
  <2>4. SetIn(m, c, v) = [m EXCEPT !.data = data]
    BY <1>2, <2>3 DEF SetIn, IsStationCtx, WithValues
  <2>5. Map(w) = Store!With(Store!At(AsMap(m), c), v.code, v)
    BY <1>2, <2>2, AtIs, MapSet
  <2> HIDE DEF data, w
  <2> QED BY <1>2, <2>2, <2>3, <2>4, <2>5, MsgWith
<1> QED BY <1>1, <1>2

LEMMA UnsetInIs ==
    ASSUME NEW m \in Msg, NEW c \in Key, NEW k \in Int
    PROVE  /\ UnsetIn(m, c, k) \in Msg
           /\ AsMap(UnsetIn(m, c, k)) =
                 IF c \in DOMAIN AsMap(m)
                 THEN Store!With(AsMap(m), c, Store!Without(AsMap(m)[c], k)) ELSE AsMap(m)
<1>1. CASE c = StationCtx
  <2> DEFINE w == UnsetVar(m.station, k)
  <2>1. w \in SortedVars /\ Map(w) = Store!Without(Map(m.station), k)
    BY MsgIs, UnsetVarIs, MapUnset
  <2>2. AsMap(m)[c] = Map(m.station) /\ c \in DOMAIN AsMap(m)
    BY <1>1, AsMapIs
  <2>3. UnsetIn(m, c, k) = [m EXCEPT !.station = w]
    BY <1>1 DEF UnsetIn, IsStationCtx
  <2> HIDE DEF w
  <2> QED BY <1>1, <2>1, <2>2, <2>3, MsgOfStation
<1>2. CASE c # StationCtx
  <2> DEFINE p == FindCtx(m.data, c)
  <2>1. HasKey(c) /\ CtxOf(c) = c /\ m.data \in SortedCtxs
    BY KeysAre, MsgIs
  <2>2. /\ p \in 0..Len(m.data)
        /\ p # 0 => Same(m.data[p], c)
        /\ p = 0 => \A i \in 1..Len(m.data) : ~Same(m.data[i], c)
        /\ ToSet(m.data) = {m.data[i] : i \in 1..Len(m.data)}
    BY <2>1, FindCtxFinds, SortedCtxsAre
  <2>3. DOMAIN AsMap(m) = {CtxOf(e) : e \in ToSet(m.data)} \cup {StationCtx}
        /\ \A e \in ToSet(m.data) : AsMap(m)[CtxOf(e)] = Map(e.values)
    BY AsMapIs
  <2>4. CASE p = 0
    <3>1. UnsetIn(m, c, k) = m
      BY <1>2, <2>4 DEF UnsetIn, IsStationCtx
    <3>2. c \notin DOMAIN AsMap(m)
      BY <1>2, <2>1, <2>2, <2>3, <2>4, SameCtx
    <3> QED BY <3>1, <3>2
  <2>5. CASE p # 0
    <3> DEFINE old == m.data[p].values
               w == UnsetVar(old, k)
               data == [m.data EXCEPT ![p].values = w]
    <3>1. m.data[p] \in ToSet(m.data) /\ CtxOf(m.data[p]) = c /\ old \in SortedVars
      BY <2>1, <2>2, <2>5, SameCtx, MsgIs
    <3>2. Obtain(m.data, c) = m.data
      BY <2>5 DEF Obtain
    <3>3. w \in SortedVars /\ Map(w) = Store!Without(Map(old), k)
      BY <3>1, UnsetVarIs, MapUnset
    <3>4. /\ data \in SortedCtxs
          /\ ToSet(data) = {e \in ToSet(m.data) : ~Same(e, c)} \cup {CtxWith(c, w)}
      <4> HIDE DEF w, old
      <4> QED BY <2>1, <3>2, <3>3, PutIs
    <3>5. UnsetIn(m, c, k) = [m EXCEPT !.data = data]
      <4>1. p \in DOMAIN m.data /\ m = [m EXCEPT !.data = m.data]
        BY <2>1, <2>2, <2>5, SortedCtxsAre DEF Msg
      <4> QED BY <1>2, <2>5, <4>1 DEF UnsetIn, IsStationCtx
    <3>6. c \in DOMAIN AsMap(m) /\ AsMap(m)[c] = Map(old)
      BY <2>3, <3>1
    <3> HIDE DEF data, w, old
    <3> QED BY <1>2, <3>3, <3>4, <3>5, <3>6, MsgWith
  <2> QED BY <2>4, <2>5
<1> QED BY <1>1, <1>2

LEMMA DropFromIs ==
    ASSUME NEW m \in Msg, NEW c \in Key, NEW x, x = [m EXCEPT !.data = Drop(@, c)]
    PROVE  /\ x \in Msg
           /\ AsMap(x) = IF c = StationCtx THEN AsMap(m) ELSE Store!Without(AsMap(m), c)
<1> DEFINE f == Store!Without(AsMap(m), c)
<1>1. HasKey(c) /\ CtxOf(c) = c /\ m.data \in SortedCtxs
  BY KeysAre, MsgIs
<1>2. Drop(m.data, c) \in SortedCtxs
      /\ ToSet(Drop(m.data, c)) = {e \in ToSet(m.data) : ~Same(e, c)}
  BY <1>1, DropIs
<1>3. x.data = Drop(m.data, c) /\ x.station = m.station /\ x \in Msg
  BY <1>2 DEF Msg
<1>4. /\ DOMAIN AsMap(m) = {CtxOf(e) : e \in ToSet(m.data)} \cup {StationCtx}
      /\ AsMap(m) = [k \in DOMAIN AsMap(m) |-> AsMap(m)[k]]
      /\ AsMap(m)[StationCtx] = Map(m.station)
      /\ \A e \in ToSet(m.data) : AsMap(m)[CtxOf(e)] = Map(e.values)
  BY AsMapIs
<1>5. \A e \in ToSet(m.data) : Same(e, c) <=> CtxOf(e) = c
  BY <1>1, SameCtx
<1>6. CASE c = StationCtx
  <2>1. ToSet(x.data) = ToSet(m.data)
    BY <1>2, <1>3, <1>6, MsgIs
  <2> QED BY <1>3, <1>4, <1>6, <2>1, AsMapEqual
<1>7. CASE c # StationCtx
  <2>1. DOMAIN f = {CtxOf(e) : e \in ToSet(x.data)} \cup {StationCtx}
    BY <1>2, <1>3, <1>4, <1>5, <1>7 DEF Store!Without
  <2>2. f[StationCtx] = Map(x.station) /\ f = [k \in DOMAIN f |-> f[k]]
    BY <1>3, <1>4, <1>7 DEF Store!Without
  <2>3. \A e \in ToSet(x.data) : f[CtxOf(e)] = Map(e.values)
    BY <1>2, <1>3, <1>4, <1>5 DEF Store!Without
  <2> HIDE DEF f
  <2>4. AsMap(x) = f
    BY <1>3, <2>1, <2>2, <2>3, AsMapEqual
  <2> QED BY <1>3, <1>7, <2>4 DEF f
<1> QED BY <1>3, <1>6, <1>7

LEMMA TargetIs ==
    ASSUME NEW m \in Msg, NEW e \in ToSet(m.data)
    PROVE  /\ Store!Target(AsMap(m), CtxOf(e)) = CtxOf(Into(e))
           /\ IsSoundingLevel(CtxOf(e), AsMap(m)[CtxOf(e)]) <=> IsSounding(e)
           /\ CtxOf(Into(e)) # StationCtx
<1> DEFINE f == AsMap(m)
           c == CtxOf(e)
<1>1. f[c] = Map(e.values) /\ c # StationCtx /\ e.values \in SortedVars
  BY AsMapIs, MsgIs
<1>2. e \in Context /\ ~Same(e, StationCtx)
  BY MsgIs, ElementsAreCtxs
<1>3. HasVar(e.values, Vsig) <=> Vsig \in DOMAIN Map(e.values)
  <2>1. Vsig \in Int
    BY DEF Vsig
  <2>2. HasVar(e.values, Vsig) <=> \E w \in ToSet(e.values) : w.code = Vsig
    BY <1>1, <2>1, HasVarIs
  <2>3. DOMAIN Map(e.values) = {w.code : w \in ToSet(e.values)}
    BY <1>1, MapIs
  <2> QED BY <2>2, <2>3
<1>4. c.level = e.level /\ c.trange = e.trange
  BY DEF CtxOf
<1> HIDE DEF c, f
<1>5. IsSoundingLevel(c, f[c]) <=> IsSounding(e)
  BY <1>1, <1>3, <1>4 DEF IsSoundingLevel, IsSounding
<1>6. Packed(c) = Packed(e) /\ CtxOf(Packed(e)) = Packed(e)
  BY <1>4 DEF Packed, CtxOf
<1>7. Store!Target(f, c) = CtxOf(Into(e))
  BY <1>1, <1>5, <1>6 DEF Store!Target, Into, c
<1>8. CtxOf(Into(e)) # StationCtx
  <2>1. ~Same(Into(e), StationCtx)
    BY <1>2, IntoIs
  <2>2. CtxOf(StationCtx) = StationCtx
    BY StationIsKey, KeysAre
  <2> QED BY <2>1, <2>2, SameCtx
<1> QED BY <1>5, <1>7, <1>8 DEF c, f

From(f, d) == {c \in DOMAIN f : Store!Target(f, c) = d}
CodesFrom(f, d) == UNION {DOMAIN f[c] : c \in From(f, d)}
Plainly(f, d) == d \in From(f, d) /\ ~IsSoundingLevel(d, f[d])
PackedTo(f, g) ==
    /\ DOMAIN g = {Store!Target(f, c) : c \in DOMAIN f}
    /\ \A d \in DOMAIN g :
          /\ DOMAIN g[d] = IF Plainly(f, d) THEN DOMAIN f[d] ELSE CodesFrom(f, d)
          /\ \A k \in DOMAIN g[d] :
                \E c \in From(f, d) : k \in DOMAIN f[c] /\ g[d][k] = f[c][k]

LEMMA PackInIs ==
    ASSUME NEW m \in Msg, NEW x, x = [m EXCEPT !.data = Pack(@)]
    PROVE  /\ x \in Msg
           /\ PackedTo(AsMap(m), AsMap(x))
<1> DEFINE f == AsMap(m)
           g == AsMap(x)
           cs == m.data
           t == Pack(cs)
           n == Len(cs)
<1>1. cs \in SortedCtxs /\ n \in Nat /\ ToSet(cs) = {cs[i] : i \in 1..n}
  BY MsgIs, SortedCtxsAre
<1>2. PackedUpTo(cs, n, t)
  BY <1>1, PackIs
<1>3. \A e \in ToSet(cs) :
         /\ Store!Target(f, CtxOf(e)) = CtxOf(Into(e))
         /\ IsSoundingLevel(CtxOf(e), f[CtxOf(e)]) <=> IsSounding(e)
         /\ CtxOf(Into(e)) # StationCtx
  BY TargetIs
<1>4. x \in Msg /\ x.data = t /\ x.station = m.station
  <2>1. t \in SortedCtxs
    BY <1>2 DEF PackedUpTo
  <2>2. ASSUME NEW e \in ToSet(t) PROVE ~Same(e, StationCtx)
    <3>1. PICK i \in 1..n : Same(Into(cs[i]), e)
      BY <1>2 DEF PackedUpTo
    <3>2. CtxOf(e) # StationCtx
      BY <1>1, <1>3, <3>1, SameCtx
    <3>3. CtxOf(StationCtx) = StationCtx
      BY StationIsKey, KeysAre
    <3> QED BY <3>2, <3>3, SameCtx
  <2> HIDE DEF t
  <2> QED BY <2>1, <2>2 DEF Msg, t
<1>5. /\ DOMAIN f = {CtxOf(e) : e \in ToSet(cs)} \cup {StationCtx}
      /\ f[StationCtx] = Map(m.station)
      /\ \A e \in ToSet(cs) : f[CtxOf(e)] = Map(e.values)
  BY AsMapIs
<1>6. /\ DOMAIN g = {CtxOf(e) : e \in ToSet(t)} \cup {StationCtx}
      /\ g[StationCtx] = Map(m.station)
      /\ \A e \in ToSet(t) : g[CtxOf(e)] = Map(e.values)
  BY <1>4, AsMapIs
<1>7. /\ \A i \in 1..n : \E e \in ToSet(t) : Same(e, Into(cs[i]))
      /\ \A e \in ToSet(t) : \E i \in 1..n : Same(Into(cs[i]), e)
  BY <1>2 DEF PackedUpTo
<1>8. /\ \A e \in ToSet(cs) : e.values \in SortedVars
      /\ \A e \in ToSet(t) : e.values \in SortedVars
  BY <1>4, MsgIs
<1> HIDE DEF f, g, t, n
<1>9. Store!Target(f, StationCtx) = StationCtx
  BY DEF Store!Target
<1>10. DOMAIN g = {Store!Target(f, c) : c \in DOMAIN f}
  <2>1. \A e \in ToSet(t) : CtxOf(e) \in {Store!Target(f, c) : c \in DOMAIN f}
    BY <1>1, <1>3, <1>5, <1>7, SameCtx
  <2>2. \A e \in ToSet(cs) : Store!Target(f, CtxOf(e)) \in DOMAIN g
    BY <1>1, <1>3, <1>6, <1>7, SameCtx
  <2> QED BY <1>5, <1>6, <1>9, <2>1, <2>2
<1> DEFINE Good(d) ==
             /\ DOMAIN g[d] = IF Plainly(f, d) THEN DOMAIN f[d] ELSE CodesFrom(f, d)
             /\ \A k \in DOMAIN g[d] :
                   \E c \in From(f, d) : k \in DOMAIN f[c] /\ g[d][k] = f[c][k]
<1>11. Good(StationCtx)
  <2>1. From(f, StationCtx) = {StationCtx}
    BY <1>3, <1>5, <1>9 DEF From
  <2>2. ~IsSoundingLevel(StationCtx, f[StationCtx])
    BY MissingAssumption DEF IsSoundingLevel, StationCtx, NoLevel
  <2>3. g[StationCtx] = f[StationCtx]
    BY <1>5, <1>6
  <2> QED BY <2>1, <2>2, <2>3 DEF Plainly
<1>12. ASSUME NEW u \in ToSet(t) PROVE Good(CtxOf(u))
  <2> DEFINE d == CtxOf(u)
  <2>1. /\ g[d] = Map(u.values)
        /\ DOMAIN g[d] = {w.code : w \in ToSet(u.values)}
        /\ \A w \in ToSet(u.values) : g[d][w.code] = w
    BY <1>6, <1>8, MapIs
  <2>2. \A e \in ToSet(cs) : /\ DOMAIN f[CtxOf(e)] = {w.code : w \in ToSet(e.values)}
                             /\ \A w \in ToSet(e.values) : f[CtxOf(e)][w.code] = w
    BY <1>5, <1>8, MapIs
  <2>3. From(f, d) = {CtxOf(e) : e \in {e \in ToSet(cs) : Same(Into(e), u)}}
    <3>1. d # StationCtx
      BY <1>4, MsgIs
    <3> QED BY <1>3, <1>5, <1>9, <3>1, SameCtx DEF From
  <2>4. \A w \in ToSet(u.values) :
           \E e \in ToSet(cs) : Same(Into(e), u) /\ w \in ToSet(e.values)
    <3>1. \A w \in ToSet(u.values) :
             \E i \in 1..n : Same(Into(cs[i]), u) /\ w \in ToSet(cs[i].values)
      BY <1>2 DEF PackedUpTo
    <3> QED BY <1>1, <3>1
  <2>5. ASSUME NEW k \in DOMAIN g[d]
        PROVE  \E c \in From(f, d) : k \in DOMAIN f[c] /\ g[d][k] = f[c][k]
    <3>1. PICK w \in ToSet(u.values) : w.code = k /\ g[d][k] = w
      BY <2>1
    <3>2. PICK e \in ToSet(cs) : Same(Into(e), u) /\ w \in ToSet(e.values)
      BY <2>4
    <3> QED BY <2>2, <2>3, <3>1, <3>2
  <2>6. ASSUME Plainly(f, d) PROVE DOMAIN g[d] = DOMAIN f[d]
    <3>1. PICK e \in ToSet(cs) : CtxOf(e) = d
      BY <1>4, <1>5, <2>6, MsgIs DEF Plainly, From
    <3>2. ~IsSounding(e) /\ Same(e, u)
      BY <1>3, <2>6, <3>1, SameCtx DEF Plainly
    <3>3. u.values = e.values
      BY <1>1, <1>2, <3>2 DEF PackedUpTo
    <3> QED BY <2>1, <2>2, <3>1, <3>3
  <2>7. ASSUME ~Plainly(f, d) PROVE DOMAIN g[d] = CodesFrom(f, d)
    <3>1. ASSUME NEW i \in 1..n, Same(cs[i], u) PROVE IsSounding(cs[i])
      <4> SUFFICES ASSUME ~IsSounding(cs[i]) PROVE FALSE
        OBVIOUS
      <4>1. cs[i] \in ToSet(cs) /\ Into(cs[i]) = cs[i] /\ CtxOf(cs[i]) = d
        BY <1>1, <3>1, SameCtx DEF Into
      <4>2. d \in From(f, d) /\ ~IsSoundingLevel(d, f[d])
        BY <1>3, <2>3, <3>1, <4>1
      <4> QED BY <2>7, <4>2 DEF Plainly
    <3>2. \A e \in ToSet(cs) : Same(Into(e), u) =>
             \A w \in ToSet(e.values) : \E y \in ToSet(u.values) : y.code = w.code
      BY <1>1, <1>2, <3>1 DEF PackedUpTo
    <3>3. CodesFrom(f, d) \subseteq DOMAIN g[d]
      BY <2>1, <2>2, <2>3, <3>2 DEF CodesFrom
    <3>4. DOMAIN g[d] \subseteq CodesFrom(f, d)
      BY <2>5 DEF CodesFrom
    <3> QED BY <3>3, <3>4
  <2> QED BY <2>5, <2>6, <2>7
<1> HIDE DEF Good
<1>13. \A d \in DOMAIN g : Good(d)
  BY <1>6, <1>11, <1>12
<1> QED BY <1>4, <1>10, <1>13 DEF Good, PackedTo, f, g

----------------------------------------------------------------------------
(* Rows in the order in which the database returns them *)

IsRow(r) ==
    /\ r.st \in DOMAIN Stations /\ r.st \in Int /\ r.when \in Int /\ r.ctx \in Key
    /\ r.code \in Int /\ r.attr \in BOOLEAN

LEMMA DatabaseIs ==
    ASSUME NEW d \in Databases
    PROVE  /\ IsFiniteSet(d)
           /\ \A r \in d : IsRow(r) /\ HasKey(r.ctx) /\ VarOfRow(r) \in Variable
                           /\ Stations[r.st].rep \in Types
           /\ \A r, s \in d : Slot(r) = Slot(s) => r = s
<1>1. IsFiniteSet(d) /\ \A r, s \in d : Slot(r) = Slot(s) => r = s
  BY DatabasesAssumption
<1>2. \A r \in d : IsRow(r) /\ HasKey(r.ctx)
  BY DatabasesAssumption, StationsAssumption DEF IsRow, Key, HasKey
<1>3. \A r \in d : VarOfRow(r) \in Variable
  <2> TAKE r \in d
  <2>1. r.val \in Values
    BY DEF Values
  <2>2. r.code \in Int /\ r.attr \in BOOLEAN
    BY <1>2 DEF IsRow
  <2> HIDE DEF Values
  <2> QED BY <2>1, <2>2 DEF VarOfRow, Variable
<1>4. \A r \in d : Stations[r.st].rep \in Types
  BY <1>2 DEF IsRow, Types
<1> QED BY <1>1, <1>2, <1>3, <1>4

LEMMA FiveMore ==
    ASSUME NEW S, NEW s \in Seq(S), Len(s) = 4, NEW x \in S
    PROVE  Append(s, x) \in Seq(S) /\ Len(Append(s, x)) = 5
<1> DEFINE n == Len(s)
           t == Append(s, x)
<1>1. t \in Seq(S) /\ Len(t) = n + 1
  BY AppendProperties
<1> HIDE DEF t
<1> QED BY <1>1 DEF t

LEMMA KeyOfParts ==
    ASSUME NEW S, NEW x \in S, NEW y \in S, NEW z \in S, NEW b \in Seq(S),
           NEW key, key = (<<x, y>> \o b) \o <<z>>
    PROVE  Len(b) = 5 =>
               /\ Len(key) = 8 /\ key[1] = x /\ key[2] = y /\ key[8] = z
               /\ \A i \in 1..5 : key[2 + i] = b[i]
<1> DEFINE a == <<x, y>>
           c == <<z>>
           ab == a \o b
<1>1. a \in Seq(S) /\ c \in Seq(S)
  OBVIOUS
<1>2. Len(a) = 2 /\ a[1] = x /\ a[2] = y /\ Len(c) = 1 /\ c[1] = z
  OBVIOUS
<1>3. key = ab \o c
  OBVIOUS
<1> HIDE DEF a, c
<1>4. /\ ab \in Seq(S) /\ Len(ab) = Len(a) + Len(b)
      /\ \A i \in 1..Len(a) : ab[i] = a[i]
      /\ \A i \in 1..Len(b) : ab[Len(a) + i] = b[i]
  BY <1>1, ConcatIs
<1> HIDE DEF ab
<1>5. /\ Len(ab \o c) = Len(ab) + Len(c)
      /\ \A i \in 1..Len(ab) : (ab \o c)[i] = ab[i]
      /\ \A i \in 1..Len(c) : (ab \o c)[Len(ab) + i] = c[i]
  <2>1. ab \in Seq(S)
    BY <1>4
  <2> QED BY <1>1, <2>1, ConcatIs
<1>6. SUFFICES ASSUME Len(b) = 5
               PROVE  /\ Len(key) = 8 /\ key[1] = x /\ key[2] = y /\ key[8] = z
                      /\ \A i \in 1..5 : key[2 + i] = b[i]
  OBVIOUS
<1>7. /\ Len(key) = Len(ab) + Len(c)
      /\ \A i \in 1..Len(ab) : key[i] = ab[i]
      /\ \A i \in 1..Len(c) : key[Len(ab) + i] = c[i]
  BY <1>3, <1>5
<1>8. Len(ab) = 7 /\ Len(c) = 1 /\ Len(a) = 2
  BY <1>2, <1>4, <1>6
<1>9. ab[1] = x /\ ab[2] = y /\ \A i \in 1..5 : ab[2 + i] = b[i]
  BY <1>2, <1>4, <1>6
<1>10. Len(key) = 8 /\ \A i \in 1..7 : key[i] = ab[i]
  BY <1>7, <1>8
<1>11. key[8] = z
  BY <1>2, <1>7, <1>8
<1> QED BY <1>9, <1>10, <1>11

LEMMA RowKeyIs ==
    ASSUME NEW r, IsRow(r)
    PROVE  /\ Len(RowKey(r)) = 8
           /\ RowKey(r)[1] = r.st /\ RowKey(r)[2] = r.when /\ RowKey(r)[8] = r.code
           /\ \A i \in 1..5 : RowKey(r)[2 + i] = Numbers(r.ctx)[i]
           /\ \A i \in 1..8 : RowKey(r)[i] \in Int
<1>1. HasKey(r.ctx)
  BY DEF IsRow, Key, HasKey
<1> DEFINE b == Numbers(r.ctx)
           S == Int
<1>2. b \in Seq(S) /\ Len(b) = 5
  <2>1. r.ctx.level \in [1..4 -> S] /\ r.ctx.trange \in S
    BY <1>1 DEF HasKey, Level, Number
  <2> HIDE DEF S
  <2>2. r.ctx.level \in Seq(S)
    BY <2>1, SeqDef
  <2>3. Len(r.ctx.level) = 4
    BY <2>1, <2>2, LenProperties
  <2> QED BY <2>1, <2>2, <2>3, FiveMore DEF Numbers
<1>3. r.st \in S /\ r.when \in S /\ r.code \in S
  BY DEF IsRow
<1>4. \A i \in 1..5 : b[i] \in Int
  BY <1>1, NumbersAre DEF Number
<1> HIDE DEF S, b
<1>5. /\ Len(RowKey(r)) = 8
      /\ RowKey(r)[1] = r.st /\ RowKey(r)[2] = r.when /\ RowKey(r)[8] = r.code
      /\ \A i \in 1..5 : RowKey(r)[2 + i] = b[i]
  BY <1>2, <1>3, KeyOfParts DEF RowKey, b
<1>6. \A i \in 1..8 : i = 1 \/ i = 2 \/ i = 8 \/ \E j \in 1..5 : i = 2 + j
  <2>1. \A i \in 3..7 : i - 2 \in 1..5 /\ i = 2 + (i - 2)
    OBVIOUS
  <2>2. \A i \in 1..8 : i = 1 \/ i = 2 \/ i = 8 \/ i \in 3..7
    OBVIOUS
  <2> QED BY <2>1, <2>2
<1>7. \A i \in 1..8 : RowKey(r)[i] \in Int
  BY <1>3, <1>4, <1>5, <1>6 DEF S
<1> QED BY <1>5, <1>7 DEF b

LEMMA RowKeyIsSlot ==
    ASSUME NEW r, IsRow(r), NEW s, IsRow(s), \A i \in 1..8 : RowKey(r)[i] = RowKey(s)[i]
    PROVE  Slot(r) = Slot(s)
<1>1. r.st = s.st /\ r.when = s.when /\ r.code = s.code
  BY RowKeyIs
<1>2. \A i \in 1..5 : Numbers(r.ctx)[i] = Numbers(s.ctx)[i]
  <2>1. \A i \in 1..5 : 2 + i \in 1..8
    OBVIOUS
  <2>2. \A i \in 1..5 : /\ RowKey(r)[2 + i] = Numbers(r.ctx)[i]
                        /\ RowKey(s)[2 + i] = Numbers(s.ctx)[i]
    BY <2>1, RowKeyIs
  <2> QED BY <2>1, <2>2
<1>3. HasKey(r.ctx) /\ HasKey(s.ctx) /\ r.ctx \in Key /\ s.ctx \in Key
  BY DEF IsRow, Key, HasKey
<1>4. Same(r.ctx, s.ctx)
  BY <1>2, <1>3, SameNumbers
<1>5. r.ctx = s.ctx
  BY <1>3, <1>4 DEF Same, Key
<1> QED BY <1>1, <1>5 DEF Slot

LEMMA RowsAreOrdered ==
    ASSUME NEW d \in Databases, NEW r \in d, NEW s \in d, r # s
    PROVE  RowBefore(r, s) \/ RowBefore(s, r)
<1> DEFINE D == {i \in 1..8 : RowKey(r)[i] # RowKey(s)[i]}
<1>1. IsRow(r) /\ IsRow(s) /\ Slot(r) # Slot(s)
  BY DatabaseIs
<1>2. D # {} /\ D \in SUBSET Nat
  BY <1>1, RowKeyIsSlot
<1>3. PICK m \in D : \A n \in D : m <= n
  BY <1>2, LeastNat
<1>4. m \in 1..8 /\ \A j \in 1..m - 1 : j \in 1..8 /\ ~(m <= j)
  OBVIOUS
<1>5. \A j \in 1..m - 1 : RowKey(r)[j] = RowKey(s)[j]
  BY <1>3, <1>4
<1>6. RowKey(r)[m] \in Int /\ RowKey(s)[m] \in Int /\ Len(RowKey(r)) = 8 /\ Len(RowKey(s)) = 8
  BY <1>1, <1>4, RowKeyIs
<1>7. RowKey(r)[m] < RowKey(s)[m] \/ RowKey(s)[m] < RowKey(r)[m]
  BY <1>6
<1> QED BY <1>4, <1>5, <1>6, <1>7 DEF RowBefore

LEMMA RowBeforeTransitive ==
    ASSUME NEW r, IsRow(r), NEW s, IsRow(s), NEW t, IsRow(t),
           RowBefore(r, s), RowBefore(s, t)
    PROVE  RowBefore(r, t)
<1>1. /\ Len(RowKey(r)) = 8 /\ Len(RowKey(s)) = 8
      /\ \A i \in 1..8 : RowKey(r)[i] \in Int /\ RowKey(s)[i] \in Int /\ RowKey(t)[i] \in Int
  BY RowKeyIs
<1>2. PICK i \in 1..8 : /\ RowKey(r)[i] < RowKey(s)[i]
                        /\ \A j \in 1..i - 1 : RowKey(r)[j] = RowKey(s)[j]
  BY <1>1 DEF RowBefore
<1>3. PICK k \in 1..8 : /\ RowKey(s)[k] < RowKey(t)[k]
                        /\ \A j \in 1..k - 1 : RowKey(s)[j] = RowKey(t)[j]
  BY <1>1 DEF RowBefore
<1>4. CASE i <= k
  <2>1. RowKey(r)[i] < RowKey(t)[i]
    BY <1>1, <1>2, <1>3, <1>4
  <2>2. \A j \in 1..i - 1 : RowKey(r)[j] = RowKey(t)[j]
    BY <1>2, <1>3, <1>4
  <2> QED BY <1>1, <2>1, <2>2 DEF RowBefore
<1>5. CASE k < i
  <2>1. RowKey(r)[k] < RowKey(t)[k]
    BY <1>1, <1>2, <1>3, <1>5
  <2>2. \A j \in 1..k - 1 : RowKey(r)[j] = RowKey(t)[j]
    BY <1>2, <1>3, <1>5
  <2> QED BY <1>1, <2>1, <2>2 DEF RowBefore
<1> QED BY <1>4, <1>5

LEMMA LastRow ==
    ASSUME NEW d \in Databases, NEW S \in SUBSET d, S # {}
    PROVE  \E r \in S : \A o \in S \ {r} : RowBefore(o, r)
<1> DEFINE HasLast(T) == \E r \in T : \A o \in T \ {r} : RowBefore(o, r)
           K == {k \in Nat : \A T \in SUBSET d : Cardinality(T) = k /\ T # {} => HasLast(T)}
<1>1. \A T \in SUBSET d : IsFiniteSet(T) /\ Cardinality(T) \in Nat
  BY DatabaseIs, FS_Subset, FS_CardinalityType
<1>2. 0 \in K
  BY <1>1, FS_EmptySet
<1>3. ASSUME NEW k \in Nat, k \in K PROVE k + 1 \in K
  <2> SUFFICES ASSUME NEW T \in SUBSET d, Cardinality(T) = k + 1, T # {} PROVE HasLast(T)
    OBVIOUS
  <2>1. PICK x \in T : TRUE
    OBVIOUS
  <2>2. T \ {x} \in SUBSET d /\ Cardinality(T \ {x}) = k
    BY <1>1, FS_RemoveElement
  <2>3. CASE T \ {x} = {}
    BY <2>3
  <2>4. CASE T \ {x} # {}
    <3>1. PICK r \in T \ {x} : \A o \in (T \ {x}) \ {r} : RowBefore(o, r)
      BY <1>3, <2>2, <2>4
    <3>2. IsRow(x) /\ IsRow(r) /\ \A o \in T : IsRow(o)
      BY DatabaseIs
    <3>3. CASE RowBefore(x, r)
      BY <3>1, <3>3
    <3>4. CASE RowBefore(r, x)
      <4>1. \A o \in T \ {x} : RowBefore(o, x)
        BY <3>1, <3>2, <3>4, RowBeforeTransitive
      <4> QED BY <4>1
    <3> QED BY <3>3, <3>4, RowsAreOrdered
  <2> QED BY <2>3, <2>4
<1>4. \A k \in Nat : k \in K => k + 1 \in K
  BY <1>3
<1>5. Cardinality(S) \in K
  <2> HIDE DEF K
  <2>1. Nat \subseteq K
    BY <1>2, <1>4, Induct
  <2> QED BY <1>1, <2>1
<1> QED BY <1>5

\* Finite sets, element by element in a given order.
Picks(S, pick) == \A s \in SUBSET S : s # {} => pick[s] \in s
Builds(S, pick, T) ==
    {} \in T /\ \A s \in SUBSET S : s # {} /\ s \ {pick[s]} \in T => s \in T

LEMMA SubsetsInduct ==
    ASSUME NEW S, IsFiniteSet(S), NEW pick, Picks(S, pick), NEW T, Builds(S, pick, T)
    PROVE  SUBSET S \subseteq T
<1> DEFINE K == {k \in Nat : \A s \in SUBSET S : Cardinality(s) = k => s \in T}
<1>1. \A s \in SUBSET S : IsFiniteSet(s) /\ Cardinality(s) \in Nat
  BY FS_Subset, FS_CardinalityType
<1>2. \A s \in SUBSET S : Cardinality(s) = 0 <=> s = {}
  BY <1>1, FS_EmptySet
<1>3. 0 \in K
  BY <1>2 DEF Builds
<1>4. ASSUME NEW k \in Nat, k \in K PROVE k + 1 \in K
  <2> SUFFICES ASSUME NEW s \in SUBSET S, Cardinality(s) = k + 1 PROVE s \in T
    OBVIOUS
  <2>1. s # {}
    BY <1>2
  <2>2. pick[s] \in s
    BY <2>1 DEF Picks
  <2>3. s \ {pick[s]} \in SUBSET S /\ Cardinality(s \ {pick[s]}) = k
    BY <1>1, <2>2, FS_RemoveElement
  <2>4. s \ {pick[s]} \in T
    BY <1>4, <2>3
  <2> QED BY <2>1, <2>4 DEF Builds
<1>5. \A k \in Nat : k \in K => k + 1 \in K
  BY <1>4
<1>6. Nat \subseteq K
  <2> HIDE DEF K
  <2> QED BY <1>3, <1>5, Induct
<1> QED BY <1>1, <1>6

\* A fold over a sequence, as its steps.
LEMMA LeftFoldSteps ==
    ASSUME NEW n \in Nat, NEW base, NEW F, NEW f, LeftFolded(n, base, F, f)
    PROVE  \E h : /\ h[0] = base
                  /\ \A k \in 1..n : h[k] = F[<<h[k - 1], k>>]
                  /\ h[n] = f[1..n]
<1> DEFINE h == [k \in 0..n |-> f[1..k]]
<1>1. \A s \in SUBSET (1..n) :
         f[s] = IF s = {} THEN base ELSE F[<<f[s \ {Max(s)}], Max(s)>>]
  BY DEF LeftFolded
<1>2. h[0] = base
  <2>1. 1..0 = {} /\ {} \in SUBSET (1..n) /\ 0 \in 0..n
    OBVIOUS
  <2> QED BY <1>1, <2>1
<1>3. ASSUME NEW k \in 1..n PROVE h[k] = F[<<h[k - 1], k>>]
  <2>1. /\ 1..k \in SUBSET (1..n) /\ 1..k # {}
        /\ Max(1..k) = k
        /\ (1..k) \ {k} = 1..k - 1
    BY PrefixIs
  <2>2. f[1..k] = F[<<f[1..k - 1], k>>]
    BY <1>1, <2>1
  <2> QED BY <2>2
<1>4. h[n] = f[1..n]
  OBVIOUS
<1> HIDE DEF h
<1> QED BY <1>2, <1>3, <1>4

LEMMA AppendTo ==
    ASSUME NEW S, NEW a \in Seq(S), NEW x \in S
    PROVE  Append(a, x) \in Seq(S) /\ ToSet(Append(a, x)) = ToSet(a) \cup {x}
<1> DEFINE b == Append(a, x)
<1>1. /\ b \in Seq(S) /\ Len(b) = Len(a) + 1 /\ Len(a) \in Nat
      /\ \A i \in 1..Len(a) : b[i] = a[i]
      /\ b[Len(a) + 1] = x
  BY AppendProperties, LenProperties
<1> HIDE DEF b
<1>2. DOMAIN b = 1..Len(a) + 1 /\ DOMAIN a = 1..Len(a)
  BY <1>1, LenProperties
<1>3. 1..Len(a) + 1 = (1..Len(a)) \cup {Len(a) + 1}
  BY <1>1
<1> QED BY <1>1, <1>2, <1>3 DEF ToSet, b

LEMMA AppendFold ==
    ASSUME NEW S, IsFiniteSet(S),
           NEW pick, \A s \in SUBSET S : s # {} => pick[s] \in s
    PROVE  \E f : /\ f = [s \in SUBSET S |->
                             IF s = {} THEN <<>> ELSE Append(f[s \ {pick[s]}], pick[s])]
                  /\ \A s \in SUBSET S : f[s] \in Seq(S)
<1> DEFINE A == Seq(S)
           F == [x \in A \X S |-> Append(x[1], x[2])]
           none == <<>>
<1>1. \A a \in A, x \in S : F[<<a, x>>] = Append(a, x) /\ F[<<a, x>>] \in A
  OBVIOUS
<1>2. none \in A
  OBVIOUS
<1> HIDE DEF A, F, none
<1>3. \A a \in A, x \in S : F[<<a, x>>] \in A
  BY <1>1
<1>4. PICK f : Folded(S, none, F, pick, f) /\ \A s \in SUBSET S : f[s] \in A
  BY <1>2, <1>3, FoldExists
<1>5. \A s \in SUBSET S : s # {} =>
         F[<<f[s \ {pick[s]}], pick[s]>>] = Append(f[s \ {pick[s]}], pick[s])
  <2> TAKE s \in SUBSET S
  <2> HAVE s # {}
  <2>1. pick[s] \in S /\ f[s \ {pick[s]}] \in A
    BY <1>4
  <2> QED BY <1>1, <2>1
<1>6. f = [s \in SUBSET S |->
              IF s = {} THEN <<>> ELSE Append(f[s \ {pick[s]}], pick[s])]
  BY <1>4, <1>5 DEF Folded, none
<1> QED BY <1>4, <1>6 DEF A

LEMMA InOrderIs ==
    ASSUME NEW d \in Databases, NEW S, S \in SUBSET d
    PROVE  InOrder(S) \in Seq(S) /\ ToSet(InOrder(S)) = S
<1> DEFINE LastOf(s) == CHOOSE r \in s : \A o \in s \ {r} : RowBefore(o, r)
           pick == [s \in SUBSET S |-> LastOf(s)]
           P(f) == f = [s \in SUBSET S |->
                           IF s = {} THEN <<>> ELSE Append(f[s \ {LastOf(s)}], LastOf(s))]
           g == CHOOSE f : P(f)
<1>1. \A s \in SUBSET S : s # {} => LastOf(s) \in s /\ pick[s] = LastOf(s)
  <2> TAKE s \in SUBSET S
  <2> HAVE s # {}
  <2>1. \E r \in s : \A o \in s \ {r} : RowBefore(o, r)
    BY LastRow
  <2> QED BY <2>1
<1>2. \A s \in SUBSET S : pick[s] = LastOf(s)
  OBVIOUS
<1> HIDE DEF LastOf, pick
<1>3. IsFiniteSet(S)
  BY DatabaseIs, FS_Subset
<1>5. PICK f : /\ f = [s \in SUBSET S |->
                          IF s = {} THEN <<>> ELSE Append(f[s \ {pick[s]}], pick[s])]
               /\ \A s \in SUBSET S : f[s] \in Seq(S)
  <2>1. \A s \in SUBSET S : s # {} => pick[s] \in s
    BY <1>1
  <2> QED BY <1>3, <2>1, AppendFold
<1>7. P(f)
  BY <1>2, <1>5
<1>8. P(g)
  <2> HIDE DEF P
  <2> QED BY <1>7
<1>9. InOrder(S) = g[S]
  BY DEF InOrder, MapThenFoldSet, LastOf
<1> HIDE DEF g
<1> DEFINE T == {s \in SUBSET S : g[s] \in Seq(S) /\ ToSet(g[s]) = s}
<1>10. {} \in T
  <2>1. g[{}] = <<>>
    BY <1>8
  <2>2. <<>> \in Seq(S) /\ ToSet(<<>>) = {}
    BY DEF ToSet
  <2> QED BY <2>1, <2>2
<1>11. ASSUME NEW s \in SUBSET S, s # {}, s \ {pick[s]} \in T PROVE s \in T
  <2> DEFINE a == g[s \ {pick[s]}]
             x == pick[s]
  <2>1. a \in Seq(S) /\ ToSet(a) = s \ {x} /\ x \in s /\ x \in S
    BY <1>1, <1>11
  <2>2. g[s] = Append(a, x)
    BY <1>1, <1>8, <1>11
  <2> HIDE DEF a, x
  <2>3. Append(a, x) \in Seq(S) /\ ToSet(Append(a, x)) = ToSet(a) \cup {x}
    BY <2>1, AppendTo
  <2> QED BY <2>1, <2>2, <2>3
<1>12. SUBSET S \subseteq T
  <2> HIDE DEF T
  <2>1. Picks(S, pick) /\ Builds(S, pick, T)
    BY <1>1, <1>10, <1>11 DEF Picks, Builds
  <2> QED BY <1>3, <2>1, SubsetsInduct
<1> QED BY <1>9, <1>12

VarsFolded(S, V, pick, f) ==
    f = [s \in SUBSET S |-> IF s = {} THEN <<>> ELSE SetVar(f[s \ {pick[s]}], V[pick[s]])]

LEMMA VarsFold ==
    ASSUME NEW S, IsFiniteSet(S), NEW V, \A r \in S : V[r] \in Variable,
           NEW pick, \A s \in SUBSET S : s # {} => pick[s] \in s
    PROVE  \E f : /\ VarsFolded(S, V, pick, f)
                  /\ \A s \in SUBSET S : f[s] \in SortedVars
<1> DEFINE A == SortedVars
           F == [x \in A \X S |-> SetVar(x[1], V[x[2]])]
           none == <<>>
<1>1. \A a \in A, x \in S : F[<<a, x>>] = SetVar(a, V[x]) /\ F[<<a, x>>] \in A
  BY SetVarIs
<1>2. none \in A
  BY EmptyVars
<1> HIDE DEF A, F, none
<1>3. \A a \in A, x \in S : F[<<a, x>>] \in A
  BY <1>1
<1>4. PICK f : Folded(S, none, F, pick, f) /\ \A s \in SUBSET S : f[s] \in A
  BY <1>2, <1>3, FoldExists
<1>5. \A s \in SUBSET S : s # {} =>
         F[<<f[s \ {pick[s]}], pick[s]>>] = SetVar(f[s \ {pick[s]}], V[pick[s]])
  <2> TAKE s \in SUBSET S
  <2> HAVE s # {}
  <2>1. pick[s] \in S /\ f[s \ {pick[s]}] \in A
    BY <1>4
  <2> QED BY <1>1, <2>1
<1>6. f = [s \in SUBSET S |->
              IF s = {} THEN <<>> ELSE SetVar(f[s \ {pick[s]}], V[pick[s]])]
  BY <1>4, <1>5 DEF Folded, none
<1> QED BY <1>4, <1>6 DEF A, VarsFolded

StationRowsOfId(d, st) == {r \in StationRows(d) : r.st = st}

LEMMA StationRowsHaveCodes ==
    ASSUME NEW d \in Databases, NEW st, NEW r \in StationRowsOfId(d, st),
           NEW s \in StationRowsOfId(d, st), r.code = s.code
    PROVE  r = s
<1>1. r \in d /\ s \in d /\ r.ctx = StationCtx /\ s.ctx = StationCtx /\ r.st = s.st
  BY DEF StationRowsOfId, StationRows, IsStationCtx
<1>2. r.when = NoDatetime /\ s.when = NoDatetime
  BY <1>1, DatabasesAssumption DEF IsStationCtx
<1>3. Slot(r) = Slot(s)
  BY <1>1, <1>2 DEF Slot
<1> QED BY <1>1, <1>3, DatabaseIs

LEMMA StationValuesIs ==
    ASSUME NEW d \in Databases, NEW st
    PROVE  /\ StationValues(d, st) \in SortedVars
           /\ ToSet(StationValues(d, st)) = {VarOfRow(r) : r \in StationRowsOfId(d, st)}
<1> DEFINE S == StationRowsOfId(d, st)
<1>3. S \in SUBSET d /\ IsFiniteSet(S)
  BY DatabaseIs, FS_Subset DEF StationRowsOfId, StationRows
<1>12. \A r, s \in S : r.code = s.code => r = s
  BY StationRowsHaveCodes
<1> HIDE DEF S
<1> DEFINE AnyOf(s) == CHOOSE r \in s : TRUE
           pick == [s \in SUBSET S |-> AnyOf(s)]
           V == [r \in S |-> VarOfRow(r)]
           P(f) == f = [s \in SUBSET S |->
                           IF s = {} THEN <<>>
                           ELSE SetVar(f[s \ {AnyOf(s)}], VarOfRow(AnyOf(s)))]
           g == CHOOSE f : P(f)
<1>1. \A s \in SUBSET S : s # {} => AnyOf(s) \in s
  OBVIOUS
<1>2. \A s \in SUBSET S : pick[s] = AnyOf(s)
  OBVIOUS
<1>4. \A r \in S : V[r] = VarOfRow(r) /\ V[r] \in Variable
  BY <1>3, DatabaseIs
<1> HIDE DEF AnyOf, pick, V
<1>5. PICK f : /\ VarsFolded(S, V, pick, f)
               /\ \A s \in SUBSET S : f[s] \in SortedVars
  <2>1. \A s \in SUBSET S : s # {} => pick[s] \in s
    BY <1>1, <1>2
  <2>2. IsFiniteSet(S) /\ \A r \in S : V[r] \in Variable
    BY <1>3, <1>4
  <2> QED BY <2>1, <2>2, VarsFold
<1>6. P(f)
  <2>1. \A s \in SUBSET S : s # {} => pick[s] = AnyOf(s) /\ V[pick[s]] = VarOfRow(AnyOf(s))
    BY <1>1, <1>2, <1>4
  <2> QED BY <1>5, <2>1 DEF VarsFolded
<1>7. P(g)
  <2> HIDE DEF P
  <2> QED BY <1>6
<1>8. StationValues(d, st) = g[S]
  BY DEF StationValues, FoldSet, MapThenFoldSet, AnyOf, StationRowsOfId, S
<1> HIDE DEF g
<1> DEFINE T == {s \in SUBSET S : g[s] \in SortedVars /\ ToSet(g[s]) = {VarOfRow(r) : r \in s}}
<1>9. {} \in T
  <2>1. g[{}] = <<>>
    BY <1>7
  <2>2. <<>> \in SortedVars /\ ToSet(<<>>) = {}
    BY EmptyVars DEF ToSet
  <2> QED BY <2>1, <2>2
<1>10. ASSUME NEW s \in SUBSET S, s # {}, s \ {pick[s]} \in T PROVE s \in T
  <2> DEFINE a == g[s \ {pick[s]}]
             x == pick[s]
  <2>1. a \in SortedVars /\ ToSet(a) = {VarOfRow(r) : r \in s \ {x}} /\ x \in s /\ x \in S
    BY <1>1, <1>2, <1>10
  <2>2. g[s] = SetVar(a, VarOfRow(x))
    BY <1>2, <1>7, <1>10
  <2> HIDE DEF a, x
  <2>3. VarOfRow(x) \in Variable /\ VarOfRow(x).code = x.code
    BY <1>4, <2>1 DEF VarOfRow
  <2>4. /\ SetVar(a, VarOfRow(x)) \in SortedVars
        /\ ToSet(SetVar(a, VarOfRow(x))) =
              {w \in ToSet(a) : w.code # x.code} \cup {VarOfRow(x)}
    BY <2>1, <2>3, SetVarIs
  <2>5. \A r \in s \ {x} : VarOfRow(r).code # x.code
    <3>1. \A r \in s \ {x} : r.code # x.code
      BY <1>12, <2>1
    <3> QED BY <3>1 DEF VarOfRow
  <2>6. {w \in ToSet(a) : w.code # x.code} = ToSet(a)
    BY <2>1, <2>5
  <2> QED BY <2>1, <2>2, <2>4, <2>6
<1>11. SUBSET S \subseteq T
  <2> HIDE DEF T
  <2>1. Picks(S, pick) /\ Builds(S, pick, T)
    BY <1>1, <1>2, <1>9, <1>10 DEF Picks, Builds
  <2> QED BY <1>3, <2>1, SubsetsInduct
<1> QED BY <1>8, <1>11 DEF S

----------------------------------------------------------------------------
(* The rows of each message *)

Together(r, s) == r.st = s.st /\ r.when = s.when
Groups(S) == {g \in Seq(S) : g # <<>> /\ \A i \in 1..Len(g) : Together(g[i], g[1])}
RowsOf(gs) == UNION {ToSet(gs[i]) : i \in 1..Len(gs)}

LEMMA TakeRowIs ==
    ASSUME NEW S, NEW gs \in Seq(Groups(S)), NEW r \in S
    PROVE  /\ TakeRow(gs, r) \in Seq(Groups(S))
           /\ RowsOf(TakeRow(gs, r)) = RowsOf(gs) \cup {r}
<1> DEFINE n == Len(gs)
           new == TakeRow(gs, r)
<1>1. n \in Nat /\ DOMAIN gs = 1..n /\ \A i \in 1..n : gs[i] \in Groups(S)
  BY LenProperties
<1>2. CASE gs # <<>> /\ Last(gs)[1].st = r.st /\ Last(gs)[1].when = r.when
  <2> DEFINE g == gs[n]
             b == Append(g, r)
  <2>1. n \in 1..n /\ Last(gs) = g /\ g \in Groups(S)
    BY <1>1, <1>2, EmptySeq DEF Last
  <2>2. new = [gs EXCEPT ![n] = b]
    BY <1>2 DEF TakeRow
  <2> HIDE DEF g
  <2>3. /\ g \in Seq(S) /\ Len(g) \in Nat /\ Len(g) # 0
        /\ \A i \in 1..Len(g) : Together(g[i], g[1])
    BY <2>1, LenProperties, EmptySeq DEF Groups
  <2>4. /\ b \in Seq(S) /\ Len(b) = Len(g) + 1
        /\ \A i \in 1..Len(g) : b[i] = g[i]
        /\ b[Len(g) + 1] = r
        /\ ToSet(b) = ToSet(g) \cup {r}
    BY <2>3, AppendProperties, AppendTo
  <2> HIDE DEF b
  <2>5. b[1] = g[1] /\ Together(r, b[1])
    BY <1>2, <2>1, <2>3, <2>4 DEF Together
  <2>6. \A i \in 1..Len(b) : Together(b[i], b[1])
    BY <2>3, <2>4, <2>5
  <2>7. b \in Groups(S)
    BY <2>3, <2>4, <2>6, EmptySeq DEF Groups
  <2> HIDE DEF new
  <2>8. new \in Seq(Groups(S)) /\ Len(new) = n
    <3>1. gs \in [1..n -> Groups(S)]
      BY <1>1, LenProperties
    <3>2. new \in [1..n -> Groups(S)]
      BY <1>1, <2>2, <2>7, <3>1
    <3> HIDE DEF n
    <3>3. new \in Seq(Groups(S))
      BY <1>1, <3>2, SeqDef
    <3> QED BY <1>1, <3>2, <3>3, LenProperties
  <2>9. \A i \in 1..n : new[i] = IF i = n THEN b ELSE gs[i]
    BY <1>1, <2>2
  <2>10. RowsOf(new) = RowsOf(gs) \cup {r}
    BY <2>1, <2>4, <2>8, <2>9 DEF RowsOf, g
  <2> QED BY <2>8, <2>10 DEF new
<1>3. CASE ~(gs # <<>> /\ Last(gs)[1].st = r.st /\ Last(gs)[1].when = r.when)
  <2> DEFINE one == <<r>>
  <2>1. new = Append(gs, one)
    BY <1>3 DEF TakeRow
  <2>2. one \in Groups(S) /\ ToSet(one) = {r}
    <3>1. one \in Seq(S) /\ Len(one) = 1 /\ one[1] = r /\ one # <<>>
      OBVIOUS
    <3>2. ToSet(one) = {one[i] : i \in 1..1}
      BY <3>1 DEF ToSet
    <3> QED BY <3>1, <3>2 DEF Groups, Together
  <2> HIDE DEF one
  <2>3. /\ new \in Seq(Groups(S)) /\ Len(new) = n + 1
        /\ \A i \in 1..n : new[i] = gs[i]
        /\ new[n + 1] = one
    BY <2>1, <2>2, AppendProperties
  <2> HIDE DEF new
  <2>4. 1..n + 1 = (1..n) \cup {n + 1}
    BY <1>1
  <2>5. RowsOf(new) = RowsOf(gs) \cup {r}
    BY <2>2, <2>3, <2>4 DEF RowsOf
  <2> QED BY <2>3, <2>5 DEF new
<1> QED BY <1>2, <1>3

LEMMA GroupSteps ==
    ASSUME NEW S, NEW rows \in Seq(S), NEW n, n = Len(rows)
    PROVE  \E h : /\ h[0] = <<>>
                  /\ \A k \in 1..n : h[k] = TakeRow(h[k - 1], rows[k])
                  /\ Group(rows) = h[n]
<1> DEFINE A == Seq(Groups(S))
           F == [x \in A \X (1..n) |-> TakeRow(x[1], rows[x[2]])]
           none == <<>>
           P(f) == f = [s \in SUBSET (1..n) |->
                           IF s = {} THEN <<>>
                           ELSE TakeRow(f[s \ {Max(s)}], rows[Max(s)])]
           g == CHOOSE f : P(f)
<1>1. n \in Nat /\ DOMAIN rows = 1..n /\ \A i \in 1..n : rows[i] \in S
  BY LenProperties
<1>2. \A a \in A, i \in 1..n : F[<<a, i>>] = TakeRow(a, rows[i]) /\ F[<<a, i>>] \in A
  BY <1>1, TakeRowIs
<1>3. none \in A
  OBVIOUS
<1> HIDE DEF F, A, none
<1>4. PICK f : LeftFolded(n, none, F, f) /\ \A s \in SUBSET (1..n) : f[s] \in A
  BY <1>1, <1>2, <1>3, FoldLeftExists
<1>5. \A s \in SUBSET (1..n) : s # {} =>
         F[<<f[s \ {Max(s)}], Max(s)>>] = TakeRow(f[s \ {Max(s)}], rows[Max(s)])
  <2>1. \A s \in SUBSET (1..n) : s # {} => /\ Max(s) \in 1..n
                                           /\ s \ {Max(s)} \in SUBSET (1..n)
    BY <1>1, GreatestPosition
  <2> QED BY <1>2, <1>4, <2>1
<1>6. P(f)
  BY <1>4, <1>5 DEF LeftFolded, none
<1>7. P(g)
  <2> HIDE DEF P
  <2> QED BY <1>6
<1>8. Group(rows) = g[1..n]
  BY <1>1 DEF Group, FoldLeft, MapThenFoldSet
<1>9. PICK h : /\ h[0] = <<>>
               /\ \A k \in 1..n : h[k] = TakeRow(h[k - 1], rows[k])
               /\ h[n] = g[1..n]
  <2> DEFINE h == [k \in 0..n |-> g[1..k]]
  <2>1. h[0] = <<>> /\ h[n] = g[1..n]
    <3> HIDE DEF g
    <3>1. 1..0 = {} /\ {} \in SUBSET (1..n) /\ 0 \in 0..n /\ n \in 0..n
      BY <1>1
    <3> QED BY <1>7, <3>1
  <2>2. ASSUME NEW k \in 1..n PROVE h[k] = TakeRow(h[k - 1], rows[k])
    <3> HIDE DEF g
    <3>1. /\ 1..k \in SUBSET (1..n) /\ 1..k # {}
          /\ Max(1..k) = k
          /\ (1..k) \ {k} = 1..k - 1
      BY <1>1, PrefixIs
    <3>2. g[1..k] = TakeRow(g[1..k - 1], rows[k])
      BY <1>7, <3>1
    <3> QED BY <1>1, <3>2
  <2> HIDE DEF h
  <2> QED BY <2>1, <2>2
<1> HIDE DEF g
<1> QED BY <1>8, <1>9

LEMMA GroupIs ==
    ASSUME NEW S, NEW rows \in Seq(S)
    PROVE  Group(rows) \in Seq(Groups(S)) /\ RowsOf(Group(rows)) = ToSet(rows)
<1> DEFINE n == Len(rows)
<1>1. n \in Nat /\ DOMAIN rows = 1..n /\ \A i \in 1..n : rows[i] \in S
  BY LenProperties
<1>2. PICK h : /\ h[0] = <<>>
               /\ \A k \in 1..n : h[k] = TakeRow(h[k - 1], rows[k])
               /\ Group(rows) = h[n]
  BY GroupSteps
<1> DEFINE K == {k \in Nat : k <= n => /\ h[k] \in Seq(Groups(S))
                                       /\ RowsOf(h[k]) = {rows[i] : i \in 1..k}}
<1>3. 0 \in K
  <2> DEFINE none == h[0]
  <2>1. none \in Seq(Groups(S)) /\ RowsOf(none) = {}
    BY <1>2 DEF RowsOf
  <2>2. {rows[i] : i \in 1..0} = {}
    OBVIOUS
  <2> HIDE DEF none
  <2>3. none \in Seq(Groups(S)) /\ RowsOf(none) = {rows[i] : i \in 1..0}
    BY <2>1, <2>2
  <2> QED BY <2>3 DEF none
<1>4. ASSUME NEW k \in Nat, k \in K PROVE k + 1 \in K
  <2> SUFFICES ASSUME k + 1 <= n PROVE k + 1 \in K
    OBVIOUS
  <2>1. k + 1 \in 1..n /\ k <= n /\ 1..k + 1 = (1..k) \cup {k + 1}
    BY <1>1
  <2>2. h[k + 1] = TakeRow(h[k], rows[k + 1]) /\ rows[k + 1] \in S
    BY <1>1, <1>2, <2>1
  <2>3. h[k] \in Seq(Groups(S)) /\ RowsOf(h[k]) = {rows[i] : i \in 1..k}
    BY <1>4, <2>1
  <2>4. /\ h[k + 1] \in Seq(Groups(S))
        /\ RowsOf(h[k + 1]) = RowsOf(h[k]) \cup {rows[k + 1]}
    <3> DEFINE gs == h[k]
               r == rows[k + 1]
    <3>1. gs \in Seq(Groups(S)) /\ r \in S
      BY <2>2, <2>3
    <3> HIDE DEF gs, r
    <3>2. TakeRow(gs, r) \in Seq(Groups(S)) /\ RowsOf(TakeRow(gs, r)) = RowsOf(gs) \cup {r}
      BY <3>1, TakeRowIs
    <3> QED BY <2>2, <3>2 DEF gs, r
  <2>5. {rows[i] : i \in 1..k + 1} = {rows[i] : i \in 1..k} \cup {rows[k + 1]}
    BY <2>1
  <2> QED BY <2>3, <2>4, <2>5
<1>5. \A k \in Nat : k \in K => k + 1 \in K
  BY <1>4
<1>6. n \in K
  <2> HIDE DEF K
  <2> QED BY <1>1, <1>3, <1>5, Induct
<1>7. ToSet(rows) = {rows[i] : i \in 1..n}
  BY <1>1 DEF ToSet
<1> QED BY <1>1, <1>2, <1>6, <1>7

----------------------------------------------------------------------------
(* A message of its rows *)

\* What the contexts hold, each value with the context that it is in.
Content(cs) == UNION {{<<CtxOf(e), w>> : w \in ToSet(e.values)} : e \in ToSet(cs)}

LEMMA SetInData ==
    ASSUME NEW m \in Msg, NEW c \in Key, c # StationCtx, NEW v \in Variable
    PROVE  /\ SetIn(m, c, v).station = m.station /\ SetIn(m, c, v).type = m.type
           /\ Content(SetIn(m, c, v).data) =
                 {x \in Content(m.data) : ~(x[1] = c /\ x[2].code = v.code)} \cup {<<c, v>>}
<1> DEFINE all == Obtain(m.data, c)
           p == FindCtx(all, c)
           old == ValuesIn(m.data, c)
           w == SetVar(old, v)
           data == [all EXCEPT ![p].values = w]
<1>1. HasKey(c) /\ CtxOf(c) = c /\ m.data \in SortedCtxs
  BY KeysAre, MsgIs
<1>2. old \in SortedVars /\ w \in SortedVars
      /\ ToSet(w) = {x \in ToSet(old) : x.code # v.code} \cup {v}
  BY <1>1, ValuesInAre, SetVarIs
<1>3. /\ p \in DOMAIN all /\ all[p].values = old
      /\ data \in SortedCtxs
      /\ ToSet(data) = {e \in ToSet(m.data) : ~Same(e, c)} \cup {CtxWith(c, w)}
  <2> HIDE DEF w, old
  <2> QED BY <1>1, <1>2, PutIs DEF old
<1>4. SetIn(m, c, v) = [m EXCEPT !.data = data]
  BY <1>3 DEF SetIn, IsStationCtx, WithValues
<1>5. SetIn(m, c, v).station = m.station /\ SetIn(m, c, v).type = m.type
      /\ SetIn(m, c, v).data = data
  BY <1>4 DEF Msg
<1>6. /\ CtxOf(CtxWith(c, w)) = c /\ CtxWith(c, w).values = w
      /\ \A e \in ToSet(m.data) : Same(e, c) <=> CtxOf(e) = c
  BY <1>1, SameCtx DEF CtxOf, CtxWith
<1>7. /\ \A e \in ToSet(m.data) : CtxOf(e) = c => old = e.values
      /\ (\A e \in ToSet(m.data) : CtxOf(e) # c) => old = <<>>
  BY <1>1, <1>6, ValuesInAre DEF ValuesIn
<1> HIDE DEF data, w, old
<1>8. ASSUME NEW x \in Content(data)
      PROVE  x = <<c, v>> \/ (x \in Content(m.data) /\ ~(x[1] = c /\ x[2].code = v.code))
  <2>1. PICK e \in ToSet(data) : \E y \in ToSet(e.values) : x = <<CtxOf(e), y>>
    BY DEF Content
  <2>2. PICK y \in ToSet(e.values) : x = <<CtxOf(e), y>>
    BY <2>1
  <2>3. CASE e = CtxWith(c, w)
    <3>1. x = <<c, y>> /\ y \in ToSet(w)
      BY <1>6, <2>2, <2>3
    <3>2. CASE y # v
      <4>1. y \in ToSet(old) /\ y.code # v.code
        BY <1>2, <3>1, <3>2
      <4>2. old # <<>>
        BY <4>1 DEF ToSet
      <4>3. PICK o \in ToSet(m.data) : CtxOf(o) = c
        BY <1>7, <4>2
      <4>4. y \in ToSet(o.values)
        BY <1>7, <4>1, <4>3
      <4> QED BY <3>1, <4>1, <4>3, <4>4 DEF Content
    <3> QED BY <3>1, <3>2
  <2>4. CASE e \in ToSet(m.data) /\ ~Same(e, c)
    BY <1>6, <2>2, <2>4 DEF Content
  <2> QED BY <1>3, <2>3, <2>4
<1>9. <<c, v>> \in Content(data)
  <2>1. CtxWith(c, w) \in ToSet(data) /\ v \in ToSet(w)
    BY <1>2, <1>3
  <2> QED BY <1>6, <2>1 DEF Content
<1>10. ASSUME NEW x \in Content(m.data), ~(x[1] = c /\ x[2].code = v.code)
       PROVE  x \in Content(data)
  <2>1. PICK e \in ToSet(m.data) : \E y \in ToSet(e.values) : x = <<CtxOf(e), y>>
    BY DEF Content
  <2>2. PICK y \in ToSet(e.values) : x = <<CtxOf(e), y>>
    BY <2>1
  <2>3. CASE CtxOf(e) = c
    <3>1. y \in ToSet(w)
      BY <1>2, <1>7, <1>10, <2>2, <2>3
    <3>2. CtxWith(c, w) \in ToSet(data)
      BY <1>3
    <3> QED BY <1>6, <2>2, <2>3, <3>1, <3>2 DEF Content
  <2>4. CASE CtxOf(e) # c
    <3>1. e \in ToSet(data)
      BY <1>3, <1>6, <2>4
    <3> QED BY <2>2, <3>1 DEF Content
  <2> QED BY <2>3, <2>4
<1> QED BY <1>5, <1>8, <1>9, <1>10

\* What a station and a datetime are, in the values of a message.
KeyVars(st, when) ==
    {Plain(DatetimeCode, when), Plain(RepMemo, Stations[st].rep), Plain(Place, Stations[st].place)}
    \cup IF Stations[st].ident = NoIdent THEN {} ELSE {Plain(Ident, Stations[st].ident)}

LEMMA PlainIs ==
    ASSUME NEW c \in Int, NEW x \in Values
    PROVE  Plain(c, x) \in Variable /\ Plain(c, x).code = c
BY DEF Plain, Variable

LEMMA SetInStation ==
    ASSUME NEW m \in Msg, NEW v \in Variable
    PROVE  /\ SetIn(m, StationCtx, v) \in Msg
           /\ SetIn(m, StationCtx, v).data = m.data /\ SetIn(m, StationCtx, v).type = m.type
           /\ ToSet(SetIn(m, StationCtx, v).station) =
                 {w \in ToSet(m.station) : w.code # v.code} \cup {v}
<1>1. SetIn(m, StationCtx, v) = [m EXCEPT !.station = SetVar(@, v)]
  BY DEF SetIn, IsStationCtx
<1>2. SetIn(m, StationCtx, v) \in Msg
  BY StationIsKey, SetInIs
<1>3. m.station \in SortedVars
  BY MsgIs
<1> QED BY <1>1, <1>2, <1>3, SetVarIs DEF Msg

LEMMA SetInNew ==
    ASSUME NEW m \in Msg, NEW v \in Variable, NEW V, V = ToSet(m.station),
           \A w \in V : w.code # v.code, NEW t, t = m.type, m.data = <<>>
    PROVE  /\ SetIn(m, StationCtx, v) \in Msg
           /\ SetIn(m, StationCtx, v).data = <<>> /\ SetIn(m, StationCtx, v).type = t
           /\ ToSet(SetIn(m, StationCtx, v).station) = V \cup {v}
BY SetInStation

LEMMA NewMessageIs ==
    ASSUME NEW t \in Types
    PROVE  NewMessage(t) \in Msg /\ ToSet(NewMessage(t).station) = {}
           /\ NewMessage(t).data = <<>> /\ NewMessage(t).type = t
<1>1. <<>> \in SortedVars /\ <<>> \in SortedCtxs /\ ToSet(<<>>) = {}
  BY EmptyVars DEF SortedCtxs, ToSet
<1> QED BY <1>1 DEF NewMessage, Msg

LEMMA MessageForIs ==
    ASSUME NEW d \in Databases, NEW r \in d
    PROVE  /\ MessageFor(r) \in Msg
           /\ MessageFor(r).data = <<>> /\ MessageFor(r).type = Stations[r.st].rep
           /\ ToSet(MessageFor(r).station) = KeyVars(r.st, r.when)
<1> DEFINE s == Stations[r.st]
           a == Plain(DatetimeCode, r.when)
           b == Plain(RepMemo, s.rep)
           c == Plain(Place, s.place)
           i == Plain(Ident, s.ident)
           m0 == NewMessage(s.rep)
           m1 == SetIn(m0, StationCtx, a)
           m2 == SetIn(m1, StationCtx, b)
           m3 == SetIn(m2, StationCtx, c)
<1>1. r.st \in DOMAIN Stations /\ s.rep \in Types
  BY DatabaseIs DEF IsRow
<1>2. r.when \in Values /\ s.rep \in Values /\ s.place \in Values /\ s.ident \in Values
  BY <1>1 DEF Values
<1>3. /\ a \in Variable /\ b \in Variable /\ c \in Variable /\ i \in Variable
      /\ a.code = DatetimeCode /\ b.code = RepMemo /\ c.code = Place /\ i.code = Ident
  BY <1>2, PlainIs DEF DatetimeCode, RepMemo, Place, Ident
<1> HIDE DEF a, b, c, i
<1>4. m0 \in Msg /\ ToSet(m0.station) = {} /\ m0.data = <<>> /\ m0.type = s.rep
  BY <1>1, NewMessageIs
<1> HIDE DEF m0
<1>5. m1 \in Msg /\ ToSet(m1.station) = {a} /\ m1.data = <<>> /\ m1.type = s.rep
  BY <1>3, <1>4, SetInStation
<1> HIDE DEF m1
<1> DEFINE A == {a}
           B == {a, b}
           C == {a, b, c}
<1>6. m2 \in Msg /\ ToSet(m2.station) = A \cup {b} /\ m2.data = <<>> /\ m2.type = s.rep
  <2>1. \A w \in A : w.code # b.code
    BY <1>3 DEF DatetimeCode, RepMemo
  <2>2. ToSet(m1.station) = A
    BY <1>5
  <2> HIDE DEF A
  <2> QED BY <1>3, <1>5, <2>1, <2>2, SetInNew
<1> HIDE DEF m2
<1>7. m3 \in Msg /\ ToSet(m3.station) = B \cup {c} /\ m3.data = <<>> /\ m3.type = s.rep
  <2>1. \A w \in B : w.code # c.code
    BY <1>3 DEF DatetimeCode, RepMemo, Place
  <2>2. ToSet(m2.station) = B
    BY <1>6
  <2> HIDE DEF B
  <2> QED BY <1>3, <1>6, <2>1, <2>2, SetInNew
<1> HIDE DEF m3
<1>9. /\ SetIn(m3, StationCtx, i) \in Msg
      /\ ToSet(SetIn(m3, StationCtx, i).station) = C \cup {i}
      /\ SetIn(m3, StationCtx, i).data = <<>> /\ SetIn(m3, StationCtx, i).type = s.rep
  <2>1. \A w \in C : w.code # i.code
    BY <1>3 DEF DatetimeCode, RepMemo, Place, Ident
  <2>2. ToSet(m3.station) = C
    BY <1>7
  <2> HIDE DEF C
  <2> QED BY <1>3, <1>7, <2>1, <2>2, SetInNew
<1>8. MessageFor(r) = IF s.ident = NoIdent THEN m3 ELSE SetIn(m3, StationCtx, i)
  BY DEF MessageFor, m3, m2, m1, m0, a, b, c, i
<1>10. KeyVars(r.st, r.when) = {a, b, c} \cup IF s.ident = NoIdent THEN {} ELSE {i}
  BY DEF KeyVars, a, b, c, i
<1> QED BY <1>7, <1>8, <1>9, <1>10

LEMMA SetRowIs ==
    ASSUME NEW d \in Databases, NEW m \in Msg, NEW r \in d, r.ctx # StationCtx
    PROVE  /\ SetRow(m, r) \in Msg
           /\ SetRow(m, r).station = m.station /\ SetRow(m, r).type = m.type
           /\ Content(SetRow(m, r).data) =
                 {x \in Content(m.data) : ~(x[1] = r.ctx /\ x[2].code = r.code)}
                 \cup {<<r.ctx, VarOfRow(r)>>}
<1>1. r.ctx \in Key /\ VarOfRow(r) \in Variable /\ VarOfRow(r).code = r.code
  BY DatabaseIs DEF IsRow, VarOfRow
<1> DEFINE c == r.ctx
           v == VarOfRow(r)
<1>2. c \in Key /\ c # StationCtx /\ v \in Variable /\ v.code = r.code
  BY <1>1
<1>3. SetRow(m, r) = SetIn(m, c, v)
  BY DEF SetRow
<1> HIDE DEF c, v
<1>4. SetIn(m, c, v) \in Msg
  BY <1>2, SetInIs
<1>5. /\ SetIn(m, c, v).station = m.station /\ SetIn(m, c, v).type = m.type
      /\ Content(SetIn(m, c, v).data) =
            {x \in Content(m.data) : ~(x[1] = c /\ x[2].code = v.code)} \cup {<<c, v>>}
  BY <1>2, SetInData
<1>6. /\ SetRow(m, r) \in Msg
      /\ SetRow(m, r).station = m.station /\ SetRow(m, r).type = m.type
      /\ Content(SetRow(m, r).data) =
            {x \in Content(m.data) : ~(x[1] = c /\ x[2].code = r.code)} \cup {<<c, v>>}
  BY <1>2, <1>3, <1>4, <1>5
<1> QED BY <1>6 DEF c, v

\* h holds the message after each of the first n rows.
RowSteps(m, rows, n, h) ==
    /\ h[0] = m
    /\ \A k \in 1..n : h[k] = SetRow(h[k - 1], rows[k])
    /\ FoldLeft(SetRow, m, rows) = h[n]

LEMMA SetRowSteps ==
    ASSUME NEW d \in Databases, NEW m \in Msg, NEW rows \in Seq(d), NEW n, n = Len(rows),
           \A i \in 1..n : rows[i].ctx # StationCtx
    PROVE  \E h : RowSteps(m, rows, n, h)
<1> DEFINE F == [x \in Msg \X (1..n) |-> SetRow(x[1], rows[x[2]])]
           P(f) == f = [s \in SUBSET (1..n) |->
                           IF s = {} THEN m
                           ELSE SetRow(f[s \ {Max(s)}], rows[Max(s)])]
           g == CHOOSE f : P(f)
<1>1. n \in Nat /\ DOMAIN rows = 1..n /\ \A i \in 1..n : rows[i] \in d
  BY LenProperties
<1>2. \A a \in Msg, i \in 1..n : F[<<a, i>>] = SetRow(a, rows[i]) /\ F[<<a, i>>] \in Msg
  BY <1>1, SetRowIs
<1> HIDE DEF F
<1>4. PICK f : LeftFolded(n, m, F, f) /\ \A s \in SUBSET (1..n) : f[s] \in Msg
  BY <1>1, <1>2, FoldLeftExists
<1>5. \A s \in SUBSET (1..n) : s # {} =>
         F[<<f[s \ {Max(s)}], Max(s)>>] = SetRow(f[s \ {Max(s)}], rows[Max(s)])
  <2>1. \A s \in SUBSET (1..n) : s # {} => /\ Max(s) \in 1..n
                                           /\ s \ {Max(s)} \in SUBSET (1..n)
    BY <1>1, GreatestPosition
  <2> QED BY <1>2, <1>4, <2>1
<1>6. P(f)
  BY <1>4, <1>5 DEF LeftFolded
<1>7. P(g)
  <2> HIDE DEF P
  <2> QED BY <1>6
<1>8. FoldLeft(SetRow, m, rows) = g[1..n]
  BY <1>1 DEF FoldLeft, MapThenFoldSet
<1>9. PICK h : /\ h[0] = m
               /\ \A k \in 1..n : h[k] = SetRow(h[k - 1], rows[k])
               /\ h[n] = g[1..n]
  <2> DEFINE h == [k \in 0..n |-> g[1..k]]
  <2>1. h[0] = m /\ h[n] = g[1..n]
    <3> HIDE DEF g
    <3>1. 1..0 = {} /\ {} \in SUBSET (1..n) /\ 0 \in 0..n /\ n \in 0..n
      BY <1>1
    <3> QED BY <1>7, <3>1
  <2>2. ASSUME NEW k \in 1..n PROVE h[k] = SetRow(h[k - 1], rows[k])
    <3> HIDE DEF g
    <3>1. /\ 1..k \in SUBSET (1..n) /\ 1..k # {}
          /\ Max(1..k) = k
          /\ (1..k) \ {k} = 1..k - 1
      BY <1>1, PrefixIs
    <3>2. g[1..k] = SetRow(g[1..k - 1], rows[k])
      BY <1>7, <3>1
    <3> QED BY <1>1, <3>2
  <2> HIDE DEF h
  <2> QED BY <2>1, <2>2
<1> HIDE DEF g
<1> QED BY <1>8, <1>9 DEF RowSteps

InCtx(r) == <<r.ctx, VarOfRow(r)>>

LEMMA SameCtxCode ==
    ASSUME NEW d \in Databases, NEW r \in d, NEW s \in d, Together(r, s),
           r.ctx = s.ctx, r.code = s.code
    PROVE  r = s
<1>1. Slot(r) = Slot(s)
  BY DEF Slot, Together
<1> QED BY <1>1, DatabaseIs

LEMMA SetRowsAre ==
    ASSUME NEW d \in Databases, NEW m \in Msg, m.data = <<>>,
           NEW rows \in Groups(d), \A i \in 1..Len(rows) : rows[i].ctx # StationCtx,
           NEW full, full = FoldLeft(SetRow, m, rows)
    PROVE  /\ full \in Msg /\ full.station = m.station /\ full.type = m.type
           /\ Content(full.data) = {InCtx(r) : r \in ToSet(rows)}
<1> DEFINE n == Len(rows)
<1>1. rows \in Seq(d) /\ n \in Nat /\ DOMAIN rows = 1..n
      /\ (\A i \in 1..n : rows[i] \in d)
      /\ \A i, j \in 1..n : Together(rows[i], rows[j])
  BY LenProperties DEF Groups, Together
<1>10. PICK h : RowSteps(m, rows, n, h)
  <2>1. n = Len(rows) /\ \A i \in 1..n : rows[i].ctx # StationCtx
    OBVIOUS
  <2> HIDE DEF n
  <2> QED BY <1>1, <2>1, SetRowSteps
<1>2. /\ h[0] = m
      /\ \A k \in 1..n : h[k] = SetRow(h[k - 1], rows[k])
      /\ FoldLeft(SetRow, m, rows) = h[n]
  BY <1>10 DEF RowSteps
<1> DEFINE In(k) == {InCtx(rows[i]) : i \in 1..k}
           Good(k, x) == /\ x \in Msg /\ x.station = m.station /\ x.type = m.type
                         /\ Content(x.data) = In(k)
           K == {k \in Nat : k <= n => Good(k, h[k])}
<1>3. 0 \in K
  <2>1. Content(<<>>) = {}
    BY DEF Content, ToSet
  <2>2. In(0) = {}
    OBVIOUS
  <2>3. Good(0, m)
    BY <2>1, <2>2
  <2> QED BY <1>2, <2>3
<1>4. ASSUME NEW k \in Nat, k \in K PROVE k + 1 \in K
  <2> SUFFICES ASSUME k + 1 <= n PROVE k + 1 \in K
    OBVIOUS
  <2> DEFINE x == h[k]
             r == rows[k + 1]
  <2>1. k + 1 \in 1..n /\ k <= n /\ 1..k + 1 = (1..k) \cup {k + 1}
    BY <1>1
  <2>2. h[k + 1] = SetRow(x, r) /\ r \in d /\ r.ctx # StationCtx
    BY <1>1, <1>2, <2>1
  <2>3. x \in Msg /\ x.station = m.station /\ x.type = m.type /\ Content(x.data) = In(k)
    BY <1>4, <2>1
  <2> HIDE DEF x
  <2>4. /\ SetRow(x, r) \in Msg
        /\ SetRow(x, r).station = m.station /\ SetRow(x, r).type = m.type
        /\ Content(SetRow(x, r).data) =
              {y \in Content(x.data) : ~(y[1] = r.ctx /\ y[2].code = r.code)} \cup {InCtx(r)}
    <3> HIDE DEF r
    <3> QED BY <2>2, <2>3, SetRowIs DEF InCtx
  <2>5. ASSUME NEW y \in In(k), y[1] = r.ctx, y[2].code = r.code PROVE y = InCtx(r)
    <3>1. PICK i \in 1..k : y = InCtx(rows[i])
      BY <2>5
    <3>2. rows[i].ctx = r.ctx /\ rows[i].code = r.code
      BY <2>5, <3>1 DEF InCtx, VarOfRow
    <3>3. rows[i] \in d /\ Together(rows[i], r)
      BY <1>1, <2>1
    <3>4. rows[i] = r
      BY <2>2, <3>2, <3>3, SameCtxCode
    <3> QED BY <3>1, <3>4
  <2>6. In(k + 1) = In(k) \cup {InCtx(r)}
    BY <2>1
  <2> HIDE DEF In
  <2>7. {y \in In(k) : ~(y[1] = r.ctx /\ y[2].code = r.code)} \cup {InCtx(r)} = In(k + 1)
    BY <2>5, <2>6
  <2>8. Good(k + 1, SetRow(x, r))
    BY <2>3, <2>4, <2>7
  <2> QED BY <2>2, <2>8
<1>5. \A k \in Nat : k \in K => k + 1 \in K
  BY <1>4
<1>6. n \in K
  <2> HIDE DEF K
  <2> QED BY <1>1, <1>3, <1>5, Induct
<1>7. Good(n, full)
  BY <1>1, <1>2, <1>6
<1>8. In(n) = {InCtx(r) : r \in ToSet(rows)}
  BY <1>1 DEF ToSet
<1> QED BY <1>7, <1>8

\* The message of some rows before its levels are packed.
Unpacked(d, rows) ==
    FoldLeft(SetRow,
             [MessageFor(rows[1]) EXCEPT !.station = MergeVars(@, StationValues(d, rows[1].st))],
             rows)

LEMMA UnpackedIs ==
    ASSUME NEW d \in Databases, NEW rows \in Groups(d),
           \A i \in 1..Len(rows) : rows[i].ctx # StationCtx
    PROVE  /\ Unpacked(d, rows) \in Msg
           /\ Unpacked(d, rows).type = Stations[rows[1].st].rep
           /\ ToSet(Unpacked(d, rows).station) =
                 {w \in KeyVars(rows[1].st, rows[1].when) :
                     \A r \in StationRowsOfId(d, rows[1].st) : r.code # w.code}
                 \cup {VarOfRow(r) : r \in StationRowsOfId(d, rows[1].st)}
           /\ Content(Unpacked(d, rows).data) = {InCtx(r) : r \in ToSet(rows)}
<1> DEFINE r1 == rows[1]
           m0 == MessageFor(r1)
           sv == StationValues(d, r1.st)
           st1 == MergeVars(m0.station, sv)
           m == [m0 EXCEPT !.station = st1]
           full == FoldLeft(SetRow, m, rows)
<1>1. r1 \in d
  BY LenProperties DEF Groups
<1>2. /\ m0 \in Msg /\ m0.data = <<>> /\ m0.type = Stations[r1.st].rep
      /\ ToSet(m0.station) = KeyVars(r1.st, r1.when)
  <2> HIDE DEF r1
  <2> QED BY <1>1, MessageForIs
<1>3. sv \in SortedVars /\ ToSet(sv) = {VarOfRow(r) : r \in StationRowsOfId(d, r1.st)}
  BY StationValuesIs
<1>4. /\ st1 \in SortedVars
      /\ ToSet(st1) = {w \in ToSet(m0.station) : \A v \in ToSet(sv) : v.code # w.code}
                      \cup ToSet(sv)
  <2>1. m0.station \in SortedVars
    BY <1>2, MsgIs
  <2> HIDE DEF m0, sv
  <2> QED BY <2>1, <1>3, MergeVarsIs
<1>5. m \in Msg /\ m.data = <<>> /\ m.type = m0.type /\ m.station = st1
  <2> HIDE DEF m0, st1
  <2>1. m \in Msg
    BY <1>2, <1>4, MsgOfStation
  <2>2. m0 = [type |-> m0.type, station |-> m0.station, data |-> m0.data]
    BY <1>2 DEF Msg
  <2> QED BY <1>2, <2>1, <2>2
<1>6. /\ full \in Msg /\ full.station = m.station /\ full.type = m.type
      /\ Content(full.data) = {InCtx(r) : r \in ToSet(rows)}
  <2> HIDE DEF m
  <2> QED BY <1>5, SetRowsAre
<1>7. Unpacked(d, rows) = full
  BY DEF Unpacked
<1>8. {w \in ToSet(m0.station) : \A v \in ToSet(sv) : v.code # w.code} =
         {w \in KeyVars(r1.st, r1.when) : \A r \in StationRowsOfId(d, r1.st) : r.code # w.code}
  <2>1. \A r : VarOfRow(r).code = r.code
    BY DEF VarOfRow
  <2> HIDE DEF m0, sv, r1
  <2> QED BY <1>2, <1>3, <2>1
<1> HIDE DEF full, m, st1, m0, sv
<1> QED BY <1>2, <1>3, <1>4, <1>5, <1>6, <1>7, <1>8

\* What a message has measured: rows of d, none of them a station value.
LEMMA MessageOfIs ==
    ASSUME NEW d \in Databases, NEW rows \in Groups(d),
           \A i \in 1..Len(rows) : rows[i].ctx # StationCtx
    PROVE  /\ MessageOf(d, rows) \in Msg
           /\ MessageOf(d, rows).type = Stations[rows[1].st].rep
           /\ MessageOf(d, rows).type \notin SoundingTypes =>
                 MessageOf(d, rows) = Unpacked(d, rows)
<1> DEFINE full == Unpacked(d, rows)
           x == [full EXCEPT !.data = Pack(@)]
<1>1. full \in Msg /\ full.type = Stations[rows[1].st].rep
  BY UnpackedIs
<1>2. MessageOf(d, rows) = IF full.type \in SoundingTypes THEN x ELSE full
  BY DEF MessageOf, Unpacked
<1> HIDE DEF full
<1>3. x \in Msg
  BY <1>1, PackInIs
<1>4. x.type = full.type
  BY <1>1 DEF Msg
<1> QED BY <1>1, <1>2, <1>3, <1>4 DEF full

----------------------------------------------------------------------------
(* What a query returns *)

LEMMA MatchingIs ==
    ASSUME NEW d \in Databases, NEW codes
    PROVE  /\ Matching(d, codes) \subseteq d
           /\ \A r \in Matching(d, codes) : r.ctx # StationCtx /\ r.when # NoDatetime
           /\ Groups(Matching(d, codes)) \subseteq Groups(d)
<1>1. Matching(d, codes) \subseteq d
  BY DEF Matching
<1>2. \A r \in Matching(d, codes) : r.ctx # StationCtx /\ r.when # NoDatetime
  BY DatabasesAssumption DEF Matching, StationRows, IsStationCtx
<1>3. Groups(Matching(d, codes)) \subseteq Groups(d)
  <2> DEFINE M == Matching(d, codes)
  <2>1. M \subseteq d
    BY <1>1
  <2> HIDE DEF M
  <2>2. \A g \in Seq(M) : g \in Seq(d)
    BY <2>1
  <2>3. Groups(M) \subseteq Groups(d)
    BY <2>2 DEF Groups
  <2> QED BY <2>3 DEF M
<1> QED BY <1>1, <1>2, <1>3

\* The rows of the messages that a query returns.
MessageRows(d, codes) == Group(InOrder(Matching(d, codes)))

LEMMA MessagesAre ==
    ASSUME NEW d \in Databases, NEW codes
    PROVE  /\ MessageRows(d, codes) \in Seq(Groups(Matching(d, codes)))
           /\ RowsOf(MessageRows(d, codes)) = Matching(d, codes)
<1> DEFINE S == Matching(d, codes)
           rows == InOrder(S)
<1>1. S \in SUBSET d
  BY MatchingIs
<1>2. rows \in Seq(S) /\ ToSet(rows) = S
  <2> HIDE DEF S
  <2> QED BY <1>1, InOrderIs
<1>3. Group(rows) \in Seq(Groups(S)) /\ RowsOf(Group(rows)) = ToSet(rows)
  <2> HIDE DEF S, rows
  <2> QED BY <1>2, GroupIs
<1> QED BY <1>2, <1>3 DEF MessageRows

LEMMA ExportedIs ==
    ASSUME NEW d \in Databases, NEW codes
    PROVE  /\ Exported(d, codes) \in Seq(Msg)
           /\ Len(Exported(d, codes)) = Len(MessageRows(d, codes))
           /\ \A i \in 1..Len(MessageRows(d, codes)) :
                 /\ MessageRows(d, codes)[i] \in Groups(d)
                 /\ \A j \in 1..Len(MessageRows(d, codes)[i]) :
                       MessageRows(d, codes)[i][j].ctx # StationCtx
                 /\ Exported(d, codes)[i] = MessageOf(d, MessageRows(d, codes)[i])
<1> DEFINE M == Matching(d, codes)
           G == Groups(M)
           gs == MessageRows(d, codes)
           n == Len(gs)
           out == [i \in 1..n |-> MessageOf(d, gs[i])]
<1>1. gs \in Seq(G)
  BY MessagesAre
<1>2. n \in Nat /\ \A i \in 1..n : gs[i] \in G
  <2> HIDE DEF G, gs
  <2> QED BY <1>1, LenProperties
<1>3. Exported(d, codes) = out
  BY DEF Exported, MessageRows
<1>4. ASSUME NEW i \in 1..n
      PROVE  /\ gs[i] \in Groups(d) /\ \A j \in 1..Len(gs[i]) : gs[i][j].ctx # StationCtx
             /\ MessageOf(d, gs[i]) \in Msg
  <2> DEFINE rows == gs[i]
  <2>1. rows \in Groups(d) /\ rows \in Seq(M)
    BY <1>2, MatchingIs DEF Groups
  <2>2. \A j \in 1..Len(rows) : rows[j].ctx # StationCtx
    <3>1. \A j \in 1..Len(rows) : rows[j] \in M
      <4> HIDE DEF M, rows
      <4> QED BY <2>1, LenProperties
    <3> QED BY <3>1, MatchingIs
  <2> HIDE DEF rows
  <2>3. MessageOf(d, rows) \in Msg
    BY <2>1, <2>2, MessageOfIs
  <2> QED BY <2>1, <2>2, <2>3 DEF rows
<1> HIDE DEF gs
<1>5. out \in Seq(Msg) /\ Len(out) = n
  BY <1>2, <1>4
<1> QED BY <1>3, <1>4, <1>5 DEF gs

----------------------------------------------------------------------------
(* Every message is well formed, whatever was done to it *)

MessagesSorted == db \in Databases /\ msgs \in Seq(Msg)

LEMMA EditVarsAre == EditVars \subseteq Variable
BY EditsAssumption DEF Variable, Values

LEMMA EditKeeps ==
    ASSUME MessagesSorted, NEW i \in DOMAIN msgs, NEW m \in Msg, Edit(i, m)
    PROVE  MessagesSorted'
<1>1. msgs' = [msgs EXCEPT ![i] = m] /\ db' = db
  BY DEF Edit
<1>2. msgs \in Seq(Msg) /\ db \in Databases
  BY DEF MessagesSorted
<1>3. [msgs EXCEPT ![i] = m] \in Seq(Msg)
  BY <1>2
<1> QED BY <1>1, <1>2, <1>3 DEF MessagesSorted

LEMMA MessageAt ==
    ASSUME MessagesSorted, NEW i \in DOMAIN msgs
    PROVE  msgs[i] \in Msg
BY DEF MessagesSorted

LEMMA EditMessageKeeps ==
    ASSUME MessagesSorted, NEW i \in DOMAIN msgs, EditMessage(i)
    PROVE  MessagesSorted'
<1>1. msgs[i] \in Msg
  BY MessageAt
<1>2. EditContexts \subseteq Key /\ EditVars \subseteq Variable
  BY EditsAssumption, EditVarsAre
<1>3. ASSUME NEW c \in EditContexts, NEW v \in EditVars, Set(i, c, v) PROVE MessagesSorted'
  <2>1. SetIn(msgs[i], c, v) \in Msg
    BY <1>1, <1>2, SetInIs
  <2>2. Edit(i, SetIn(msgs[i], c, v))
    BY <1>3 DEF Set
  <2> QED BY <2>1, <2>2, EditKeeps
<1>4. ASSUME NEW c \in EditContexts, NEW v \in EditVars, Unset(i, c, v.code) PROVE MessagesSorted'
  <2>1. v.code \in Int
    BY <1>2 DEF Variable
  <2>2. UnsetIn(msgs[i], c, v.code) \in Msg
    BY <1>1, <1>2, <2>1, UnsetInIs
  <2>3. Edit(i, UnsetIn(msgs[i], c, v.code))
    BY <1>4 DEF Unset
  <2> QED BY <2>2, <2>3, EditKeeps
<1>5. ASSUME NEW c \in EditContexts, RemoveContext(i, c) PROVE MessagesSorted'
  <2> DEFINE x == [msgs[i] EXCEPT !.data = Drop(@, c)]
  <2>1. x \in Msg
    BY <1>1, <1>2, DropFromIs
  <2>2. Edit(i, x)
    BY <1>5 DEF RemoveContext
  <2> HIDE DEF x
  <2> QED BY <2>1, <2>2, EditKeeps
<1>6. ASSUME SoundingPackLevels(i) PROVE MessagesSorted'
  <2> DEFINE x == [msgs[i] EXCEPT !.data = Pack(@)]
  <2>1. x \in Msg
    BY <1>1, PackInIs
  <2>2. Edit(i, x)
    BY <1>6 DEF SoundingPackLevels
  <2> HIDE DEF x
  <2> QED BY <2>1, <2>2, EditKeeps
<1> QED BY <1>3, <1>4, <1>5, <1>6 DEF EditMessage

\* Messages keep their values sorted, each code once, and their contexts sorted, each
\* level and time range once, none of them that of the station: what the binary
\* searches of msg.cc and values.cc count on and no call leaves behind otherwise.
THEOREM MessagesStaySorted == Spec => []MessagesSorted
<1>1. Init => MessagesSorted
  BY DEF Init, MessagesSorted
<1>2. ASSUME MessagesSorted, [Next]_vars PROVE MessagesSorted'
  <2>1. ASSUME NEW codes \in Queries, QueryMessages(codes) PROVE MessagesSorted'
    <3>1. msgs' = Exported(db, codes) /\ db' = db /\ db \in Databases
      BY <1>2, <2>1 DEF QueryMessages, MessagesSorted
    <3>2. Exported(db, codes) \in Seq(Msg)
      BY <3>1, ExportedIs
    <3> QED BY <3>1, <3>2 DEF MessagesSorted
  <2>2. ASSUME NEW i \in DOMAIN msgs, EditMessage(i) PROVE MessagesSorted'
    BY <1>2, <2>2, EditMessageKeeps
  <2>3. CASE WriteCsv \/ ReadAndImport \/ EndOfFile
    <3>1. UNCHANGED <<db, msgs>>
      BY <2>3 DEF WriteCsv, ReadAndImport, EndOfFile
    <3> QED BY <1>2, <3>1 DEF MessagesSorted
  <2>4. CASE UNCHANGED vars
    BY <1>2, <2>4 DEF vars, MessagesSorted
  <2> QED BY <1>2, <2>1, <2>2, <2>3, <2>4 DEF Next
<1> QED BY <1>1, <1>2, PTL DEF Spec

----------------------------------------------------------------------------
(* The calls on messages implement those on maps *)

Held == [i \in DOMAIN msgs |-> AsMap(msgs[i])]

LEMMA EditOnMaps ==
    ASSUME MessagesSorted, NEW i \in DOMAIN msgs, NEW m \in Msg, Edit(i, m)
    PROVE  Held' = [Held EXCEPT ![i] = AsMap(m)]
<1>1. msgs' = [msgs EXCEPT ![i] = m]
  BY DEF Edit
<1>2. DOMAIN msgs' = DOMAIN msgs /\ msgs'[i] = m /\ \A j \in DOMAIN msgs \ {i} : msgs'[j] = msgs[j]
  BY <1>1 DEF MessagesSorted
<1>3. Held' = [j \in DOMAIN msgs' |-> AsMap(msgs'[j])]
  BY DEF Held
<1>4. Held = [j \in DOMAIN msgs |-> AsMap(msgs[j])]
  BY DEF Held
<1> QED BY <1>2, <1>3, <1>4

LEMMA SetOnMaps ==
    ASSUME MessagesSorted, NEW i \in DOMAIN msgs, NEW c \in EditContexts, NEW v \in EditVars,
           Set(i, c, v)
    PROVE  Store!Set(i, c, v)
<1> DEFINE f == AsMap(msgs[i])
           x == SetIn(msgs[i], c, v)
<1>1. msgs[i] \in Msg /\ c \in Key /\ v \in Variable
  BY MessageAt, EditVarsAre, EditsAssumption
<1>2. x \in Msg /\ AsMap(x) = Store!With(f, c, Store!With(Store!At(f, c), v.code, v))
  BY <1>1, SetInIs
<1>3. Edit(i, x)
  BY DEF Set
<1> HIDE DEF x
<1>4. Held' = [Held EXCEPT ![i] = AsMap(x)]
  BY <1>2, <1>3, EditOnMaps
<1>5. Held[i] = f
  BY DEF Held
<1>6. Held' = [Held EXCEPT ![i] = Store!With(@, c, Store!With(Store!At(@, c), v.code, v))]
  BY <1>2, <1>4, <1>5
<1> QED BY <1>6 DEF Held, Store!Set

LEMMA UnsetOnMaps ==
    ASSUME MessagesSorted, NEW i \in DOMAIN msgs, NEW c \in EditContexts, NEW v \in EditVars,
           Unset(i, c, v.code)
    PROVE  Store!Unset(i, c, v.code)
<1> DEFINE f == AsMap(msgs[i])
           k == v.code
           x == UnsetIn(msgs[i], c, k)
<1>1. msgs[i] \in Msg /\ c \in Key /\ k \in Int
  BY MessageAt, EditVarsAre, EditsAssumption DEF Variable
<1>3. Edit(i, x)
  BY DEF Unset
<1> HIDE DEF k
<1>2. x \in Msg /\ AsMap(x) = IF c \in DOMAIN f THEN Store!With(f, c, Store!Without(f[c], k)) ELSE f
  BY <1>1, UnsetInIs
<1> HIDE DEF x
<1>4. Held' = [Held EXCEPT ![i] = AsMap(x)]
  BY <1>2, <1>3, EditOnMaps
<1>5. Held[i] = f
  BY DEF Held
<1>6. Held' = [Held EXCEPT ![i] = IF c \in DOMAIN @ THEN Store!With(@, c, Store!Without(@[c], k))
                                  ELSE @]
  BY <1>2, <1>4, <1>5
<1> QED BY <1>6 DEF Held, Store!Unset, k

LEMMA RemoveOnMaps ==
    ASSUME MessagesSorted, NEW i \in DOMAIN msgs, NEW c \in EditContexts, RemoveContext(i, c)
    PROVE  Store!Remove(i, c)
<1> DEFINE f == AsMap(msgs[i])
           x == [msgs[i] EXCEPT !.data = Drop(@, c)]
<1>1. msgs[i] \in Msg /\ c \in Key
  BY MessageAt, EditsAssumption
<1>2. x \in Msg /\ AsMap(x) = IF c = StationCtx THEN f ELSE Store!Without(f, c)
  BY <1>1, DropFromIs
<1>3. Edit(i, x)
  BY DEF RemoveContext
<1> HIDE DEF x
<1>4. Held' = [Held EXCEPT ![i] = AsMap(x)]
  BY <1>2, <1>3, EditOnMaps
<1>5. Held[i] = f
  BY DEF Held
<1>6. Held' = [Held EXCEPT ![i] = IF c = StationCtx THEN @ ELSE Store!Without(@, c)]
  BY <1>2, <1>4, <1>5
<1> QED BY <1>6 DEF Held, Store!Remove

LEMMA PackOnMaps ==
    ASSUME MessagesSorted, NEW i \in DOMAIN msgs, SoundingPackLevels(i)
    PROVE  Store!Pack(i)
<1> DEFINE x == [msgs[i] EXCEPT !.data = Pack(@)]
<1>1. msgs[i] \in Msg
  BY MessageAt
<1>2. x \in Msg /\ PackedTo(AsMap(msgs[i]), AsMap(x))
  BY <1>1, PackInIs
<1>3. Edit(i, x)
  BY DEF SoundingPackLevels
<1> HIDE DEF x
<1>4. Held' = [Held EXCEPT ![i] = AsMap(x)]
  BY <1>2, <1>3, EditOnMaps
<1>5. Held[i] = AsMap(msgs[i]) /\ Held'[i] = AsMap(x) /\ DOMAIN Held' = DOMAIN Held
      /\ \A j \in DOMAIN Held \ {i} : Held'[j] = Held[j]
  <2>1. i \in DOMAIN Held /\ Held[i] = AsMap(msgs[i])
    BY DEF Held
  <2> QED BY <1>4, <2>1
<1>6. PackedTo(Held[i], Held'[i])
  BY <1>2, <1>5
<1> QED BY <1>5, <1>6 DEF Held, Store!Pack, PackedTo, From, CodesFrom, Plainly

\* Every call on a message in memory (set, unset, remove a context, pack the levels of
\* a sounding) does to it what MessageStore says it does to a map: sorted arrays and
\* binary searches lose and repeat nothing, in any sequence of calls.
THEOREM CallsOnMaps == Spec => CallsImplementStore
<1>1. ASSUME MessagesSorted, [Next]_vars
      PROVE  [\A i \in {j \in DOMAIN msgs : OnlyChanges(j)} :
                 /\ \A c \in EditContexts, v \in EditVars :
                       /\ Set(i, c, v) => Store!Set(i, c, v)
                       /\ Unset(i, c, v.code) => Store!Unset(i, c, v.code)
                 /\ \A c \in EditContexts : RemoveContext(i, c) => Store!Remove(i, c)
                 /\ SoundingPackLevels(i) => Store!Pack(i)]_vars
  BY <1>1, SetOnMaps, UnsetOnMaps, RemoveOnMaps, PackOnMaps
<1> QED BY <1>1, MessagesStaySorted, PTL DEF Spec, CallsImplementStore

----------------------------------------------------------------------------
(* What the import of a message makes of it *)

LEMMA ValueOfIs ==
    ASSUME NEW m \in Msg, NEW w \in ToSet(m.station)
    PROVE  HasVar(m.station, w.code) /\ ValueOf(m, w.code) = w.val
<1> DEFINE vals == m.station
<1>1. vals \in SortedVars /\ w \in ToSet(vals)
  BY MsgIs
<1>2. w.code \in Int
  BY <1>1, SortedVarsAre DEF ToSet
<1> HIDE DEF vals
<1>3. HasVar(vals, w.code) /\ VarOf(vals, w.code) \in ToSet(vals) /\ VarOf(vals, w.code).code = w.code
  BY <1>1, <1>2, HasVarIs
<1>4. VarOf(vals, w.code) = w
  BY <1>1, <1>3, VarOnce
<1> QED BY <1>3, <1>4 DEF ValueOf, vals

\* What m has if it was made of the rows g of d.
MadeOf(d, g, m) ==
    /\ m \in Msg
    /\ ToSet(m.station) = KeyVars(g[1].st, g[1].when)
                          \cup {VarOfRow(r) : r \in StationRowsOfId(d, g[1].st)}
    /\ Content(m.data) = {InCtx(r) : r \in ToSet(g)}

LEMMA StoredKeysAre ==
    ASSUME NEW d \in Databases, NoStoredKeys(d), NEW st, NEW r \in StationRowsOfId(d, st)
    PROVE  /\ r.code # DatetimeCode /\ r.code # RepMemo /\ r.code # Place /\ r.code # Ident
           /\ r \in d /\ r.st = st /\ r.ctx = StationCtx /\ r.when = NoDatetime
<1>1. r \in StationRows(d) /\ r.st = st
  BY DEF StationRowsOfId
<1>2. r \in d /\ r.ctx = StationCtx
  BY <1>1 DEF StationRows, IsStationCtx
<1> QED BY <1>1, <1>2, DatabasesAssumption DEF NoStoredKeys, KeyCodes, IsStationCtx

LEMMA UnpackedIsMade ==
    ASSUME NEW d \in Databases, NoStoredKeys(d), NEW g \in Groups(d),
           \A i \in 1..Len(g) : g[i].ctx # StationCtx
    PROVE  MadeOf(d, g, Unpacked(d, g))
<1> DEFINE st == g[1].st
           when == g[1].when
<1>1. \A w \in KeyVars(st, when) : w.code \in {DatetimeCode, RepMemo, Place, Ident}
  BY DEF KeyVars, Plain
<1>2. \A w \in KeyVars(st, when) : \A r \in StationRowsOfId(d, st) : r.code # w.code
  BY <1>1, StoredKeysAre
<1>3. {w \in KeyVars(st, when) : \A r \in StationRowsOfId(d, st) : r.code # w.code} = KeyVars(st, when)
  BY <1>2
<1> QED BY <1>3, UnpackedIs DEF MadeOf

LEMMA StationOfIs ==
    ASSUME NEW d \in Databases, NoStoredKeys(d), NEW g \in Groups(d), NEW m, MadeOf(d, g, m)
    PROVE  StationOf(m) = g[1].st /\ ValueOf(m, DatetimeCode) = g[1].when
<1> DEFINE st == g[1].st
           when == g[1].when
           s == Stations[st]
           at == Plain(DatetimeCode, when)
           rep == Plain(RepMemo, s.rep)
           place == Plain(Place, s.place)
           ident == Plain(Ident, s.ident)
<1>1. g[1] \in d /\ st \in DOMAIN Stations
  <2>1. g[1] \in d
    BY LenProperties DEF Groups
  <2> QED BY <2>1, DatabasesAssumption
<1>2. m \in Msg /\ ToSet(m.station) = KeyVars(st, when) \cup {VarOfRow(r) : r \in StationRowsOfId(d, st)}
  BY DEF MadeOf
<1>3. at.code = DatetimeCode /\ rep.code = RepMemo /\ place.code = Place /\ ident.code = Ident
      /\ at.val = when /\ rep.val = s.rep /\ place.val = s.place /\ ident.val = s.ident
  BY DEF Plain
<1>4. KeyVars(st, when) = {at, rep, place} \cup IF s.ident = NoIdent THEN {} ELSE {ident}
  BY DEF KeyVars
<1> HIDE DEF at, rep, place, ident
<1>5. ValueOf(m, DatetimeCode) = when /\ ValueOf(m, RepMemo) = s.rep /\ ValueOf(m, Place) = s.place
  BY <1>2, <1>3, <1>4, ValueOfIs
<1>6. s.ident # NoIdent => HasVar(m.station, Ident) /\ ValueOf(m, Ident) = s.ident
  BY <1>2, <1>3, <1>4, ValueOfIs
<1>7. ASSUME s.ident = NoIdent PROVE ~HasVar(m.station, Ident)
  <2>1. \A w \in KeyVars(st, when) : w.code # Ident
    BY <1>3, <1>4, <1>7 DEF DatetimeCode, RepMemo, Place, Ident
  <2>2. \A r \in StationRowsOfId(d, st) : VarOfRow(r).code # Ident
    BY StoredKeysAre DEF VarOfRow
  <2>3. \A w \in ToSet(m.station) : w.code # Ident
    BY <1>2, <2>1, <2>2
  <2>4. m.station \in SortedVars /\ Ident \in Int
    BY <1>2, MsgIs DEF Ident
  <2> QED BY <2>3, <2>4, HasVarIs
<1> DEFINE row == [place |-> ValueOf(m, Place), rep |-> ValueOf(m, RepMemo),
                   ident |-> IF HasVar(m.station, Ident) THEN ValueOf(m, Ident) ELSE NoIdent]
<1>8. row = Stations[st]
  <2>1. s = [place |-> s.place, rep |-> s.rep, ident |-> s.ident]
    BY <1>1, StationsAssumption
  <2> QED BY <1>5, <1>6, <1>7, <2>1
<1>9. StationOf(m) = CHOOSE x \in DOMAIN Stations : Stations[x] = row
  BY DEF StationOf
<1> HIDE DEF row
<1>10. StationOf(m) \in DOMAIN Stations /\ Stations[StationOf(m)] = row
  BY <1>1, <1>8, <1>9
<1>11. StationOf(m) = st
  BY <1>1, <1>8, <1>10, StationsAssumption
<1> QED BY <1>5, <1>11

LEMMA DataRowsAre ==
    ASSUME NEW d \in Databases, NoStoredKeys(d), NEW g \in Groups(d), NEW m, MadeOf(d, g, m)
    PROVE  DataRowsOf(m) = ToSet(g)
<1> DEFINE st == g[1].st
           when == g[1].when
           Back(x) == Row(st, when, x[1], x[2])
<1>1. m \in Msg /\ Content(m.data) = {InCtx(r) : r \in ToSet(g)}
  BY DEF MadeOf
<1>2. StationOf(m) = st /\ ValueOf(m, DatetimeCode) = when
  BY StationOfIs
<1>3. \A e, w : Row(st, when, e, w) = Row(st, when, CtxOf(e), w)
  BY DEF Row, CtxOf
<1>4. DataRowsOf(m) = {Back(x) : x \in Content(m.data)}
  <2> DEFINE vals(i) == m.data[i].values
  <2>1. DataRowsOf(m) = UNION {{Row(st, when, m.data[i], vals(i)[j]) : j \in DOMAIN vals(i)} :
                                  i \in DOMAIN m.data}
    BY <1>2 DEF DataRowsOf
  <2>2. ASSUME NEW x \in DataRowsOf(m) PROVE x \in {Back(y) : y \in Content(m.data)}
    <3>1. PICK i \in DOMAIN m.data : \E j \in DOMAIN vals(i) : x = Row(st, when, m.data[i], vals(i)[j])
      BY <2>1, <2>2
    <3>2. PICK j \in DOMAIN vals(i) : x = Row(st, when, m.data[i], vals(i)[j])
      BY <3>1
    <3> DEFINE y == <<CtxOf(m.data[i]), vals(i)[j]>>
    <3>3. m.data[i] \in ToSet(m.data) /\ vals(i)[j] \in ToSet(m.data[i].values)
      BY DEF ToSet
    <3>4. y \in Content(m.data)
      BY <3>3 DEF Content
    <3>5. x = Back(y)
      BY <1>3, <3>2
    <3> HIDE DEF y, Back
    <3> QED BY <3>4, <3>5
  <2>3. ASSUME NEW y \in Content(m.data) PROVE Back(y) \in DataRowsOf(m)
    <3>1. PICK e \in ToSet(m.data) : y \in {<<CtxOf(e), w>> : w \in ToSet(e.values)}
      BY <2>3 DEF Content
    <3>2. PICK w \in ToSet(e.values) : y = <<CtxOf(e), w>>
      BY <3>1
    <3>3. PICK i \in DOMAIN m.data : e = m.data[i]
      BY DEF ToSet
    <3>4. PICK j \in DOMAIN e.values : w = e.values[j]
      BY DEF ToSet
    <3>5. Back(y) = Row(st, when, m.data[i], vals(i)[j])
      BY <1>3, <3>2, <3>3, <3>4
    <3> HIDE DEF Back
    <3> QED BY <2>1, <3>3, <3>4, <3>5
  <2> QED BY <2>2, <2>3
<1>5. \A r \in ToSet(g) : Back(InCtx(r)) = r
  <2> TAKE r \in ToSet(g)
  <2>1. r \in d /\ r.st = st /\ r.when = when
    BY LenProperties DEF Groups, ToSet, Together
  <2>2. r = Row(r.st, r.when, r.ctx, r)
    BY <2>1, DatabasesAssumption
  <2>3. Row(r.st, r.when, r.ctx, r) = Row(r.st, r.when, r.ctx, VarOfRow(r))
    BY DEF Row, VarOfRow
  <2> QED BY <2>1, <2>2, <2>3 DEF InCtx
<1> HIDE DEF Back
<1>6. {Back(x) : x \in Content(m.data)} = ToSet(g)
  BY <1>1, <1>5
<1> QED BY <1>4, <1>6

\* The rows that say what a station is.
KeyRows(st) ==
    {Row(st, NoDatetime, StationCtx, w) :
        w \in {x \in KeyVars(st, NoDatetime) : x.code # DatetimeCode}}

LEMMA StationRowsAre ==
    ASSUME NEW d \in Databases, NoStoredKeys(d), NEW g \in Groups(d), NEW m, MadeOf(d, g, m)
    PROVE  StationRowsOf(m) = KeyRows(g[1].st) \cup StationRowsOfId(d, g[1].st)
<1> DEFINE st == g[1].st
           when == g[1].when
           S == StationRowsOfId(d, st)
           Back(w) == Row(st, NoDatetime, StationCtx, w)
           Keys1(t) == {x \in KeyVars(st, t) : x.code # DatetimeCode}
           Kept(w) == w.code # DatetimeCode \/ w.attr
<1>1. m \in Msg /\ ToSet(m.station) = KeyVars(st, when) \cup {VarOfRow(r) : r \in S}
  BY DEF MadeOf
<1>2. StationRowsOf(m) = {Back(w) : w \in {x \in ToSet(m.station) : Kept(x)}}
  <2>1. StationOf(m) = st
    BY StationOfIs
  <2> QED BY <2>1 DEF StationRowsOf, ToSet
<1>3. Keys1(when) = Keys1(NoDatetime)
  BY DEF KeyVars, Plain
<1>4. \A w \in KeyVars(st, when) : w.attr = FALSE
  BY DEF KeyVars, Plain
<1>5. \A r \in S : VarOfRow(r).code # DatetimeCode
  BY StoredKeysAre DEF VarOfRow
<1>6. {x \in ToSet(m.station) : Kept(x)} = Keys1(when) \cup {VarOfRow(r) : r \in S}
  BY <1>1, <1>4, <1>5
<1>7. \A r \in S : Back(VarOfRow(r)) = r
  <2> TAKE r \in S
  <2>1. r \in d /\ r.st = st /\ r.ctx = StationCtx /\ r.when = NoDatetime
    BY StoredKeysAre
  <2>2. r = Row(r.st, r.when, r.ctx, r)
    BY <2>1, DatabasesAssumption
  <2>3. Row(r.st, r.when, r.ctx, r) = Row(r.st, r.when, r.ctx, VarOfRow(r))
    BY DEF Row, VarOfRow
  <2> QED BY <2>1, <2>2, <2>3
<1>8. KeyRows(st) = {Back(w) : w \in Keys1(NoDatetime)}
  BY DEF KeyRows
<1> HIDE DEF S, Back, Keys1, Kept
<1> QED BY <1>2, <1>3, <1>6, <1>7, <1>8 DEF S

\* The rows that a copy of d may get, in which each slot has one row.
Universe(d) == d \cup UNION {KeyRows(st) : st \in DOMAIN Stations}

LEMMA KeyRowsAre ==
    ASSUME NEW st, NEW r \in KeyRows(st)
    PROVE  /\ r.st = st /\ r.when = NoDatetime /\ r.ctx = StationCtx
           /\ r.code \in KeyCodes
           /\ \A s \in KeyRows(st) : s.code = r.code => s = r
<1> DEFINE K == {x \in KeyVars(st, NoDatetime) : x.code # DatetimeCode}
           Back(w) == Row(st, NoDatetime, StationCtx, w)
<1>1. KeyRows(st) = {Back(w) : w \in K}
  BY DEF KeyRows
<1>2. \A w \in K : w.code \in KeyCodes
  BY DEF KeyVars, Plain, KeyCodes, DatetimeCode
<1>3. \A v, w \in K : v.code = w.code => v = w
  <2> DEFINE rep == Plain(RepMemo, Stations[st].rep)
             place == Plain(Place, Stations[st].place)
             ident == Plain(Ident, Stations[st].ident)
  <2>1. K \subseteq {rep, place, ident}
    BY DEF KeyVars, Plain
  <2>2. rep.code = 2 /\ place.code = 4 /\ ident.code = 1
    BY DEF Plain, RepMemo, Place, Ident
  <2> HIDE DEF rep, place, ident, K
  <2> QED BY <2>1, <2>2
<1>4. \A w \in K : /\ Back(w).st = st /\ Back(w).when = NoDatetime
                   /\ Back(w).ctx = StationCtx /\ Back(w).code = w.code
  BY DEF Row, StationCtx
<1> HIDE DEF K, Back
<1> QED BY <1>1, <1>2, <1>3, <1>4

LEMMA SlotsOfUniverse ==
    ASSUME NEW d \in Databases, NoStoredKeys(d), NEW r \in Universe(d), NEW s \in Universe(d),
           Slot(r) = Slot(s)
    PROVE  r = s
<1>1. r.st = s.st /\ r.when = s.when /\ r.ctx = s.ctx /\ r.code = s.code
  BY DEF Slot
<1>2. CASE r \in d /\ s \in d
  BY <1>2, DatabasesAssumption
<1>3. \A x \in d : x.ctx = StationCtx => x.code \notin KeyCodes
  BY DEF NoStoredKeys, StationRows, IsStationCtx
<1>4. \A x \in Universe(d) : x \in d \/ \E st : x \in KeyRows(st)
  BY DEF Universe
<1>5. CASE r \notin d \/ s \notin d
  <2>1. r.ctx = StationCtx /\ s.ctx = StationCtx /\ r.code \in KeyCodes /\ s.code \in KeyCodes
    BY <1>1, <1>4, <1>5, KeyRowsAre
  <2>2. r \notin d /\ s \notin d
    BY <1>3, <2>1
  <2>3. PICK st : r \in KeyRows(st)
    BY <1>4, <2>2
  <2>4. PICK t : s \in KeyRows(t)
    BY <1>4, <2>2
  <2>5. st = t
    BY <1>1, <2>3, <2>4, KeyRowsAre
  <2> QED BY <1>1, <2>3, <2>4, <2>5, KeyRowsAre
<1> QED BY <1>2, <1>5

LEMMA AddRowsIs ==
    ASSUME NEW d \in Databases, NoStoredKeys(d), NEW c, c \subseteq Universe(d),
           NEW new, new \subseteq Universe(d)
    PROVE  AddRows(c, new) = c \cup new
<1>1. \A r \in new : (\A o \in c : Slot(o) # Slot(r)) \/ r \in c
  BY SlotsOfUniverse
<1> QED BY <1>1 DEF AddRows

\* All that the import of a message of these rows may add.
Given(d, g) == KeyRows(g[1].st) \cup StationRowsOfId(d, g[1].st) \cup ToSet(g)

LEMMA GivenIs ==
    ASSUME NEW d \in Databases, NEW g \in Groups(d)
    PROVE  /\ Given(d, g) \subseteq Universe(d)
           /\ \A r \in Given(d, g) : r.st = g[1].st
           /\ g[1] \in ToSet(g) /\ ToSet(g) \subseteq d
<1>1. /\ g[1] \in ToSet(g) /\ ToSet(g) \subseteq d
      /\ \A r \in ToSet(g) : r.st = g[1].st
  BY LenProperties DEF Groups, ToSet, Together
<1>2. g[1].st \in DOMAIN Stations
  BY <1>1, DatabasesAssumption
<1>3. \A r \in KeyRows(g[1].st) : r.st = g[1].st
  BY KeyRowsAre
<1>4. \A r \in StationRowsOfId(d, g[1].st) : r \in d /\ r.st = g[1].st
  BY DEF StationRowsOfId, StationRows
<1> QED BY <1>1, <1>2, <1>3, <1>4 DEF Given, Universe

LEMMA ImportIs ==
    ASSUME NEW d \in Databases, NoStoredKeys(d), NEW g \in Groups(d), NEW m, MadeOf(d, g, m),
           NEW c, c \subseteq Universe(d)
    PROVE  Import(c, m) = IF \E r \in c : r.st = g[1].st THEN c \cup ToSet(g)
                          ELSE c \cup Given(d, g)
<1> DEFINE D == ToSet(g)
           S == KeyRows(g[1].st) \cup StationRowsOfId(d, g[1].st)
<1>1. StationOf(m) = g[1].st /\ DataRowsOf(m) = D /\ StationRowsOf(m) = S
  BY StationOfIs, DataRowsAre, StationRowsAre
<1>2. D \subseteq Universe(d) /\ S \subseteq Universe(d) /\ Given(d, g) = S \cup D
  BY GivenIs DEF Given
<1> HIDE DEF D, S
<1>3. AddRows(c, D) = c \cup D
  BY <1>2, AddRowsIs
<1>4. AddRows(c, S) = c \cup S
  BY <1>2, AddRowsIs
<1>5. c \cup S \subseteq Universe(d)
  BY <1>2
<1>6. AddRows(c \cup S, D) = (c \cup S) \cup D
  <2> DEFINE b == c \cup S
  <2> HIDE DEF b
  <2>1. b \subseteq Universe(d)
    BY <1>5 DEF b
  <2>2. AddRows(b, D) = b \cup D
    BY <1>2, <2>1, AddRowsIs
  <2> QED BY <2>2 DEF b
<1> QED BY <1>1, <1>2, <1>3, <1>4, <1>6 DEF Import, D

\* The messages ms are made of the rows gs of d, one by one.
AllMade(d, gs, ms) ==
    /\ gs \in Seq(Groups(d)) /\ Len(ms) = Len(gs)
    /\ \A i \in 1..Len(gs) : MadeOf(d, gs[i], ms[i])

GivenBy(d, gs, k) == UNION {Given(d, gs[i]) : i \in 1..k}

LEMMA ImportOne ==
    ASSUME NEW d \in Databases, NoStoredKeys(d), NEW gs, NEW ms, AllMade(d, gs, ms),
           NEW k \in 1..Len(gs)
    PROVE  Import(GivenBy(d, gs, k - 1), ms[k]) = GivenBy(d, gs, k)
<1> DEFINE n == Len(gs)
           c == GivenBy(d, gs, k - 1)
           g == gs[k]
<1>1. n \in Nat /\ \A i \in 1..n : gs[i] \in Groups(d)
  BY LenProperties DEF AllMade
<1>2. k \in 1..n /\ g \in Groups(d) /\ MadeOf(d, g, ms[k])
  BY <1>1 DEF AllMade
<1>3. 1..k - 1 \subseteq 1..n /\ 1..k = (1..k - 1) \cup {k}
  BY <1>1, <1>2
<1>4. GivenBy(d, gs, k) = c \cup Given(d, g)
  BY <1>3 DEF GivenBy
<1>5. \A i \in 1..k - 1 : Given(d, gs[i]) \subseteq Universe(d)
                          /\ \A r \in Given(d, gs[i]) : r.st = gs[i][1].st
  BY <1>1, <1>3, GivenIs
<1>6. c \subseteq Universe(d)
  BY <1>5 DEF GivenBy
<1>7. Import(c, ms[k]) = IF \E r \in c : r.st = g[1].st THEN c \cup ToSet(g)
                         ELSE c \cup Given(d, g)
  <2> HIDE DEF c, g
  <2> QED BY <1>2, <1>6, ImportIs
<1>8. ASSUME NEW r \in c, r.st = g[1].st PROVE c \cup ToSet(g) = c \cup Given(d, g)
  <2>1. PICK i \in 1..k - 1 : r \in Given(d, gs[i])
    BY DEF GivenBy
  <2>2. gs[i][1].st = g[1].st
    BY <1>5, <1>8, <2>1
  <2>3. KeyRows(g[1].st) \cup StationRowsOfId(d, g[1].st) \subseteq Given(d, gs[i])
    BY <2>2 DEF Given
  <2>4. Given(d, gs[i]) \subseteq c
    BY <2>1 DEF GivenBy
  <2> QED BY <2>3, <2>4 DEF Given
<1> HIDE DEF c, g
<1> QED BY <1>4, <1>7, <1>8 DEF c, g

LEMMA ImportAllIs ==
    ASSUME NEW d \in Databases, NoStoredKeys(d), NEW gs, NEW ms, AllMade(d, gs, ms)
    PROVE  ImportAll(ms) = GivenBy(d, gs, Len(gs))
<1> DEFINE n == Len(ms)
           P(f) == f = [i \in 0..n |-> IF i = 0 THEN {} ELSE Import(f[i - 1], ms[i])]
           after == CHOOSE f : P(f)
           want == [k \in 0..n |-> GivenBy(d, gs, k)]
<1>1. n \in Nat /\ n = Len(gs)
  BY LenProperties DEF AllMade
<1>2. GivenBy(d, gs, 0) = {}
  BY DEF GivenBy
<1>3. \A k \in 1..n : Import(want[k - 1], ms[k]) = GivenBy(d, gs, k)
  <2> TAKE k \in 1..n
  <2>1. k - 1 \in 0..n /\ k \in 1..Len(gs)
    BY <1>1
  <2> QED BY <2>1, ImportOne
<1>4. P(want)
  BY <1>1, <1>2, <1>3
<1>5. P(after)
  <2> HIDE DEF P, want
  <2> QED BY <1>4
<1>6. ImportAll(ms) = after[n]
  BY DEF ImportAll
<1> HIDE DEF after, want
<1> DEFINE K == {k \in Nat : k <= n => after[k] = GivenBy(d, gs, k)}
<1>7. 0 \in K
  BY <1>1, <1>2, <1>5
<1>8. ASSUME NEW k \in Nat, k \in K PROVE k + 1 \in K
  <2> SUFFICES ASSUME k + 1 <= n PROVE k + 1 \in K
    OBVIOUS
  <2>1. k + 1 \in 1..n /\ k + 1 \in 0..n /\ k + 1 # 0 /\ (k + 1) - 1 = k
    BY <1>1
  <2>2. after[k] = GivenBy(d, gs, k)
    BY <1>8, <2>1
  <2>3. after[k + 1] = Import(after[k], ms[k + 1])
    BY <1>5, <2>1
  <2>4. Import(GivenBy(d, gs, k), ms[k + 1]) = GivenBy(d, gs, k + 1)
    <3> DEFINE l == k + 1
    <3>1. l \in 1..Len(gs) /\ l - 1 = k
      BY <1>1, <2>1
    <3> HIDE DEF l
    <3>2. Import(GivenBy(d, gs, l - 1), ms[l]) = GivenBy(d, gs, l)
      BY <3>1, ImportOne
    <3> QED BY <3>1, <3>2 DEF l
  <2> QED BY <2>2, <2>3, <2>4
<1>9. \A k \in Nat : k \in K => k + 1 \in K
  BY <1>8
<1>10. n \in K
  <2> HIDE DEF K
  <2> QED BY <1>1, <1>7, <1>9, Induct
<1> QED BY <1>1, <1>6, <1>10

LEMMA AllAreMade ==
    ASSUME NEW d \in Databases, NEW codes, NoStoredKeys(d), NoPacking(Exported(d, codes))
    PROVE  AllMade(d, MessageRows(d, codes), Exported(d, codes))
<1> DEFINE gs == MessageRows(d, codes)
           ms == Exported(d, codes)
           n == Len(gs)
<1>1. /\ ms \in Seq(Msg) /\ Len(ms) = n
      /\ \A i \in 1..n : /\ gs[i] \in Groups(d)
                         /\ \A j \in 1..Len(gs[i]) : gs[i][j].ctx # StationCtx
                         /\ ms[i] = MessageOf(d, gs[i])
  BY ExportedIs
<1>2. DOMAIN ms = 1..n
  <2> HIDE DEF ms
  <2> QED BY <1>1, LenProperties
<1>3. gs \in Seq(Groups(d))
  <2> DEFINE M == Groups(Matching(d, codes))
             G == Groups(d)
  <2>1. gs \in Seq(M) /\ M \subseteq G
    BY MessagesAre, MatchingIs
  <2> HIDE DEF M, G, gs
  <2>2. gs \in Seq(G)
    BY <2>1
  <2> QED BY <2>2 DEF G
<1>4. ASSUME NEW i \in 1..n PROVE MadeOf(d, gs[i], ms[i])
  <2> DEFINE g == gs[i]
             m == ms[i]
  <2>1. g \in Groups(d) /\ (\A j \in 1..Len(g) : g[j].ctx # StationCtx) /\ m = MessageOf(d, g)
    BY <1>1
  <2>2. m.type \notin SoundingTypes
    BY <1>2 DEF NoPacking
  <2> HIDE DEF g, m
  <2>3. m = Unpacked(d, g)
    BY <2>1, <2>2, MessageOfIs
  <2>4. MadeOf(d, g, Unpacked(d, g))
    BY <2>1, UnpackedIsMade
  <2> QED BY <2>3, <2>4 DEF g, m
<1> HIDE DEF gs, ms
<1> QED BY <1>1, <1>3, <1>4 DEF AllMade, gs, ms

LEMMA ExportIsRestored ==
    ASSUME NEW d \in Databases, NEW codes, NoStoredKeys(d), NoPacking(Exported(d, codes))
    PROVE  Proper(ImportAll(Exported(d, codes))) = Selected(d, codes)
<1> DEFINE gs == MessageRows(d, codes)
           ms == Exported(d, codes)
           n == Len(gs)
           M == Matching(d, codes)
           Drawn(st) == StationRowsOfId(d, st)
<1>1. ImportAll(ms) = GivenBy(d, gs, n)
  <2>1. AllMade(d, gs, ms)
    BY AllAreMade
  <2> HIDE DEF gs, ms
  <2> QED BY <2>1, ImportAllIs
<1>2. /\ \A i \in 1..n : gs[i] \in Groups(d)
      /\ M = UNION {ToSet(gs[i]) : i \in 1..n}
  BY ExportedIs, MessagesAre DEF RowsOf
<1>3. \A r \in M : r \in d /\ r.ctx # StationCtx
  BY MatchingIs
<1>5. \A st : \A r \in KeyRows(st) : IsStationCtx(r.ctx) /\ r.code \in KeyCodes
  BY KeyRowsAre DEF IsStationCtx
<1>6. \A st : \A r \in Drawn(st) : r \in StationRows(d) /\ r.st = st /\ r.code \notin KeyCodes
  BY DEF StationRowsOfId, NoStoredKeys
<1>7. Selected(d, codes) = M \cup {r \in StationRows(d) : \E s \in M : s.st = r.st}
  BY DEF Selected
<1>8. ASSUME NEW r \in Selected(d, codes) PROVE r \in Proper(ImportAll(ms))
  <2>1. CASE r \in M
    <3>1. PICK i \in 1..n : r \in ToSet(gs[i])
      BY <1>2, <2>1
    <3>2. r \in GivenBy(d, gs, n)
      BY <3>1 DEF GivenBy, Given
    <3> QED BY <1>1, <1>3, <2>1, <3>2 DEF Proper, IsStationCtx
  <2>2. CASE r \in StationRows(d) /\ \E s \in M : s.st = r.st
    <3>1. PICK s \in M : s.st = r.st
      BY <2>2
    <3>2. PICK i \in 1..n : s \in ToSet(gs[i])
      BY <1>2
    <3>3. s.st = gs[i][1].st
      BY <1>2, <3>2, LenProperties DEF Groups, ToSet, Together
    <3>4. r \in Drawn(gs[i][1].st)
      BY <2>2, <3>1, <3>3 DEF StationRowsOfId
    <3>5. r \in GivenBy(d, gs, n)
      BY <3>4 DEF GivenBy, Given
    <3>6. r.code \notin KeyCodes
      BY <1>6, <3>4
    <3> QED BY <1>1, <3>5, <3>6 DEF Proper
  <2> QED BY <1>7, <1>8, <2>1, <2>2
<1>9. ASSUME NEW r \in Proper(ImportAll(ms)) PROVE r \in Selected(d, codes)
  <2>1. r \in GivenBy(d, gs, n) /\ ~(IsStationCtx(r.ctx) /\ r.code \in KeyCodes)
    BY <1>1, <1>9 DEF Proper
  <2>2. PICK i \in 1..n : r \in Given(d, gs[i])
    BY <2>1 DEF GivenBy
  <2>3. gs[i][1] \in M
    <3>1. gs[i] \in Groups(d)
      BY <1>2
    <3>2. gs[i][1] \in ToSet(gs[i])
      <4> DEFINE g == gs[i]
      <4> HIDE DEF g
      <4>1. g \in Groups(d)
        BY <3>1 DEF g
      <4>2. g[1] \in ToSet(g)
        BY <4>1, GivenIs
      <4> QED BY <4>2 DEF g
    <3> QED BY <1>2, <3>2
  <2>4. r \notin KeyRows(gs[i][1].st)
    BY <1>5, <2>1
  <2>5. CASE r \in ToSet(gs[i])
    BY <1>2, <1>7, <2>5
  <2>6. CASE r \in Drawn(gs[i][1].st)
    BY <1>6, <1>7, <2>3, <2>6
  <2> QED BY <2>2, <2>4, <2>5, <2>6 DEF Given
<1> QED BY <1>8, <1>9

----------------------------------------------------------------------------
(* What the program holds after a query and before it changes anything *)

ExportHeld == edits \in Nat /\ (phase = "held" /\ edits = 0 => msgs = Exported(db, query))

\* The messages that query_messages returns, imported into an empty database, give it
\* what the query selects, with any stations, rows and codes: reports that are not
\* soundings, and station values that do not repeat what a station or a datetime is.
THEOREM ExportsAreRestored == Spec => []ExportRestores
<1>1. Init => ExportHeld
  BY DEF Init, ExportHeld
<1>2. ASSUME ExportHeld, [Next]_vars PROVE ExportHeld'
  <2>1. ASSUME NEW codes \in Queries, QueryMessages(codes) PROVE ExportHeld'
    BY <1>2, <2>1 DEF QueryMessages, ExportHeld
  <2>2. ASSUME NEW i \in DOMAIN msgs, EditMessage(i) PROVE ExportHeld'
    <3>1. edits' = edits + 1
      BY <2>2 DEF EditMessage, Set, Unset, RemoveContext, SoundingPackLevels, Edit
    <3> QED BY <1>2, <3>1 DEF ExportHeld
  <2>3. CASE WriteCsv \/ ReadAndImport \/ EndOfFile
    <3>1. edits' = edits /\ phase' # "held"
      BY <2>3 DEF WriteCsv, ReadAndImport, EndOfFile
    <3> QED BY <1>2, <3>1 DEF ExportHeld
  <2>4. CASE UNCHANGED vars
    BY <1>2, <2>4 DEF vars, ExportHeld
  <2> QED BY <1>2, <2>1, <2>2, <2>3, <2>4 DEF Next
<1>3. MessagesSorted /\ ExportHeld => ExportRestores
  BY ExportIsRestored DEF MessagesSorted, ExportHeld, ExportRestores
<1> QED BY <1>1, <1>2, <1>3, MessagesStaySorted, PTL DEF Spec

----------------------------------------------------------------------------
(* Two arrays side by side *)

\* What a walk goes by: the lengths of two arrays, how their elements compare,
\* and what is counted of two, of one on the left and of one on the right.
Way(w) ==
    /\ w.l \in Nat /\ w.m \in Nat
    /\ w.cmp \in [(1..w.l) \X (1..w.m) -> Int]
    /\ w.both \in [(1..w.l) \X (1..w.m) -> Nat]
    /\ w.left \in [1..w.l -> Nat] /\ w.right \in [1..w.m -> Nat]

Places(w) == (1..w.l + 1) \X (1..w.m + 1)
Ended(w, p) == p[1] > w.l \/ p[2] > w.m
Rest(w, p) == (w.l + 1 - p[1]) + (w.m + 1 - p[2])

Onward(w, p) ==
    IF w.cmp[p] = 0 THEN <<p[1] + 1, p[2] + 1>>
    ELSE IF w.cmp[p] < 0 THEN <<p[1] + 1, p[2]>> ELSE <<p[1], p[2] + 1>>
Amount(w, p) ==
    IF w.cmp[p] = 0 THEN w.both[p] ELSE IF w.cmp[p] < 0 THEN w.left[p[1]] ELSE w.right[p[2]]
Paced(w, f, p) == IF Ended(w, p) THEN Rest(w, p) ELSE Amount(w, p) + f[Onward(w, p)]

LEMMA RestIs ==
    ASSUME NEW w, Way(w), NEW p \in Places(w)
    PROVE  /\ p[1] \in 1..w.l + 1 /\ p[2] \in 1..w.m + 1 /\ p = <<p[1], p[2]>>
           /\ Rest(w, p) \in Nat /\ Rest(w, p) <= w.l + w.m
<1> DEFINE l == w.l
           m == w.m
<1>1. l \in Nat /\ m \in Nat
  BY DEF Way
<1>2. p \in (1..l + 1) \X (1..m + 1)
  BY DEF Places
<1> HIDE DEF l, m
<1>3. p[1] \in 1..l + 1 /\ p[2] \in 1..m + 1 /\ p = <<p[1], p[2]>>
  BY <1>2
<1>4. (l + 1 - p[1]) + (m + 1 - p[2]) \in Nat /\ (l + 1 - p[1]) + (m + 1 - p[2]) <= l + m
  BY <1>1, <1>3
<1> QED BY <1>3, <1>4 DEF Rest, l, m

LEMMA OnwardIs ==
    ASSUME NEW w, Way(w), NEW p \in Places(w), ~Ended(w, p)
    PROVE  /\ p[1] \in 1..w.l /\ p[2] \in 1..w.m /\ w.cmp[p] \in Int
           /\ Onward(w, p) \in Places(w) /\ Rest(w, Onward(w, p)) < Rest(w, p)
           /\ Amount(w, p) \in Nat
<1>1. w.l \in Nat /\ w.m \in Nat /\ p[1] \in 1..w.l /\ p[2] \in 1..w.m /\ p = <<p[1], p[2]>>
  <2>1. w.l \in Nat /\ w.m \in Nat
    BY DEF Way
  <2>2. p[1] \in 1..w.l + 1 /\ p[2] \in 1..w.m + 1 /\ p = <<p[1], p[2]>>
    BY RestIs
  <2>3. ~(p[1] > w.l) /\ ~(p[2] > w.m)
    BY DEF Ended
  <2> QED BY <2>1, <2>2, <2>3
<1>2. p \in (1..w.l) \X (1..w.m)
  BY <1>1
<1>3. w.cmp[p] \in Int /\ w.both[p] \in Nat /\ w.left[p[1]] \in Nat /\ w.right[p[2]] \in Nat
  BY <1>1, <1>2 DEF Way
<1>4. Amount(w, p) \in Nat
  BY <1>3 DEF Amount
<1>5. \A q \in {<<p[1] + 1, p[2] + 1>>, <<p[1] + 1, p[2]>>, <<p[1], p[2] + 1>>} :
          q \in Places(w) /\ Rest(w, q) < Rest(w, p)
  BY <1>1 DEF Places, Rest
<1>6. Onward(w, p) \in {<<p[1] + 1, p[2] + 1>>, <<p[1] + 1, p[2]>>, <<p[1], p[2] + 1>>}
  BY DEF Onward
<1> QED BY <1>1, <1>3, <1>4, <1>5, <1>6

\* There is one way to count.
LEMMA WalkExists ==
    ASSUME NEW w, Way(w)
    PROVE  \E f \in [Places(w) -> Nat] : f = [p \in Places(w) |-> Paced(w, f, p)]
<1> DEFINE Good(f, k) == \A p \in Places(w) : Rest(w, p) <= k => f[p] = Paced(w, f, p)
           S == {k \in Nat : \E f \in [Places(w) -> Nat] : Good(f, k)}
<1>1. 0 \in S
  <2> DEFINE f == [p \in Places(w) |-> 0]
  <2>1. \A p \in Places(w) : Rest(w, p) <= 0 => Ended(w, p) /\ Rest(w, p) = 0
    <3>1. ASSUME NEW p \in Places(w), Rest(w, p) <= 0 PROVE Ended(w, p) /\ Rest(w, p) = 0
      <4>1. Rest(w, p) = 0
        BY <3>1, RestIs
      <4>2. ASSUME ~Ended(w, p) PROVE FALSE
        BY <4>1, <4>2, OnwardIs, RestIs
      <4> QED BY <4>1, <4>2
    <3> QED BY <3>1
  <2>2. Good(f, 0) /\ f \in [Places(w) -> Nat]
    BY <2>1 DEF Paced
  <2> QED BY <2>2
<1>2. ASSUME NEW k \in Nat, k \in S PROVE k + 1 \in S
  <2>1. PICK f \in [Places(w) -> Nat] : Good(f, k)
    BY <1>2
  <2> DEFINE g == [p \in Places(w) |-> Paced(w, f, p)]
  <2>2. g \in [Places(w) -> Nat]
    <3>1. ASSUME NEW p \in Places(w) PROVE Paced(w, f, p) \in Nat
      <4>1. CASE Ended(w, p)
        BY <4>1, RestIs DEF Paced
      <4>2. CASE ~Ended(w, p)
        BY <4>2, OnwardIs DEF Paced
      <4> QED BY <4>1, <4>2
    <3> QED BY <3>1
  <2>3. ASSUME NEW p \in Places(w), Rest(w, p) <= k + 1 PROVE g[p] = Paced(w, g, p)
    <3>1. CASE Ended(w, p)
      BY <3>1 DEF Paced
    <3>2. CASE ~Ended(w, p)
      <4>1. Onward(w, p) \in Places(w) /\ Rest(w, Onward(w, p)) <= k
        BY <2>3, <3>2, OnwardIs, RestIs
      <4>2. g[Onward(w, p)] = f[Onward(w, p)]
        BY <2>1, <4>1
      <4>3. g[p] = Paced(w, f, p)
        OBVIOUS
      <4> HIDE DEF g
      <4> QED BY <3>2, <4>2, <4>3 DEF Paced
    <3> QED BY <3>1, <3>2
  <2>4. Good(g, k + 1) /\ k + 1 \in Nat
    BY <2>3
  <2> HIDE DEF g, Good
  <2> QED BY <2>2, <2>4
<1>3. w.l + w.m \in S
  <2> HIDE DEF S
  <2>1. Nat \subseteq S
    BY <1>1, <1>2, Induct
  <2> QED BY <2>1 DEF Way
<1>4. PICK f \in [Places(w) -> Nat] : Good(f, w.l + w.m)
  BY <1>3
<1>5. \A p \in Places(w) : f[p] = Paced(w, f, p)
  BY <1>4, RestIs
<1>6. f = [p \in Places(w) |-> f[p]]
  OBVIOUS
<1>7. f = [p \in Places(w) |-> Paced(w, f, p)]
  BY <1>5, <1>6
<1> QED BY <1>7

Walked(w, f) == f \in [Places(w) -> Nat] /\ \A p \in Places(w) : f[p] = Paced(w, f, p)

\* Whoever counts in this way counts a natural number.
LEMMA WalkIsWalked ==
    ASSUME NEW w, Way(w), NEW f, f = [p \in Places(w) |-> Paced(w, f, p)]
    PROVE  Walked(w, f)
<1> DEFINE S == {k \in Nat : \A p \in Places(w) : Rest(w, p) < k => f[p] \in Nat}
<1>1. 0 \in S
  BY RestIs
<1>2. ASSUME NEW k \in Nat, k \in S, NEW p \in Places(w), Rest(w, p) < k + 1
      PROVE  f[p] \in Nat
  <2>1. f[p] = Paced(w, f, p)
    OBVIOUS
  <2>2. CASE Ended(w, p)
    BY <2>1, <2>2, RestIs DEF Paced
  <2>3. CASE ~Ended(w, p)
    <3>1. Onward(w, p) \in Places(w) /\ Rest(w, Onward(w, p)) < k /\ Amount(w, p) \in Nat
      BY <1>2, <2>3, OnwardIs, RestIs
    <3>2. f[Onward(w, p)] \in Nat
      BY <1>2, <3>1
    <3> QED BY <2>1, <2>3, <3>1, <3>2 DEF Paced
  <2> QED BY <2>2, <2>3
<1>3. \A k \in Nat : k \in S => k + 1 \in S
  BY <1>2
<1>4. w.l + w.m + 1 \in S
  <2> HIDE DEF S
  <2>1. Nat \subseteq S
    BY <1>1, <1>3, Induct
  <2> QED BY <2>1 DEF Way
<1>5. \A p \in Places(w) : f[p] \in Nat
  <2>1. ASSUME NEW p \in Places(w) PROVE f[p] \in Nat
    <3>1. Rest(w, p) < w.l + w.m + 1
      <4>1. w.l \in Nat /\ w.m \in Nat
        BY DEF Way
      <4> QED BY <4>1, RestIs
    <3> QED BY <1>4, <3>1
  <2> QED BY <2>1
<1>6. DOMAIN f = Places(w) /\ \A p \in Places(w) : f[p] = Paced(w, f, p)
  OBVIOUS
<1>7. f = [p \in Places(w) |-> f[p]]
  OBVIOUS
<1> HIDE DEF S
<1> QED BY <1>5, <1>6, <1>7 DEF Walked

Counts(x, n, exact) ==
    IsFiniteSet(x) /\ Cardinality(x) \in Nat /\ Cardinality(x) <= n /\ (exact => Cardinality(x) = n)

\* A set for each place that gains, from the next place, as many as are counted.
GainsFrom(w, p, y, z) ==
    \E g : y = g \cup z /\ g \cap z = {} /\ IsFiniteSet(g) /\ Cardinality(g) = Amount(w, p)
Gains(w, x, p) == GainsFrom(w, p, x[p], x[Onward(w, p)])
Grows(w, x, exact) ==
    \A p \in Places(w) :
        IF Ended(w, p) THEN Counts(x[p], Rest(w, p), exact) ELSE Gains(w, x, p)

LEMMA DisjointCount ==
    ASSUME NEW x, NEW y, IsFiniteSet(x), IsFiniteSet(y), x \cap y = {}
    PROVE  /\ IsFiniteSet(x \cup y) /\ Cardinality(x) \in Nat /\ Cardinality(y) \in Nat
           /\ Cardinality(x \cup y) = Cardinality(x) + Cardinality(y)
<1>1. /\ IsFiniteSet(x \cup y)
      /\ Cardinality(x \cup y) = Cardinality(x) + Cardinality(y) - Cardinality(x \cap y)
  BY FS_Union
<1>2. Cardinality(x) \in Nat /\ Cardinality(y) \in Nat
  BY FS_CardinalityType
<1>3. Cardinality(x \cap y) = 0
  BY FS_EmptySet
<1> QED BY <1>1, <1>2, <1>3

LEMMA WalkCounts ==
    ASSUME NEW w, Way(w), NEW f, Walked(w, f), NEW x, NEW exact \in BOOLEAN,
           Grows(w, x, exact), NEW r \in Places(w)
    PROVE  Counts(x[r], f[r], exact)
<1> DEFINE S == {k \in Nat : \A p \in Places(w) : Rest(w, p) < k => Counts(x[p], f[p], exact)}
<1>1. 0 \in S
  BY RestIs
<1>2. ASSUME NEW k \in Nat, k \in S, NEW p \in Places(w), Rest(w, p) < k + 1
      PROVE  Counts(x[p], f[p], exact)
  <2>1. f[p] = Paced(w, f, p)
    BY DEF Walked
  <2>2. CASE Ended(w, p)
    BY <2>1, <2>2 DEF Paced, Grows
  <2>3. CASE ~Ended(w, p)
    <3> DEFINE q == Onward(w, p)
    <3>1. q \in Places(w) /\ Rest(w, q) < k /\ Amount(w, p) \in Nat
      BY <1>2, <2>3, OnwardIs, RestIs
    <3>2. Counts(x[q], f[q], exact) /\ f[q] \in Nat
      BY <1>2, <3>1 DEF Walked
    <3>3. f[p] = Amount(w, p) + f[q]
      BY <2>1, <2>3 DEF Paced
    <3>4. Gains(w, x, p)
      BY <2>3 DEF Grows
    <3>5. PICK y : /\ x[p] = y \cup x[q] /\ y \cap x[q] = {}
                   /\ IsFiniteSet(y) /\ Cardinality(y) = Amount(w, p)
      BY <3>4 DEF Gains, GainsFrom
    <3> HIDE DEF q
    <3>6. /\ IsFiniteSet(x[p]) /\ Cardinality(x[q]) \in Nat
          /\ Cardinality(x[p]) = Amount(w, p) + Cardinality(x[q])
      BY <3>2, <3>5, DisjointCount DEF Counts
    <3> QED BY <3>1, <3>2, <3>3, <3>6 DEF Counts
  <2> QED BY <2>2, <2>3
<1>3. \A k \in Nat : k \in S => k + 1 \in S
  BY <1>2
<1>4. w.l + w.m + 1 \in S
  <2> HIDE DEF S
  <2>1. Nat \subseteq S
    BY <1>1, <1>3, Induct
  <2> QED BY <2>1 DEF Way
<1>5. Rest(w, r) < w.l + w.m + 1
  <2>1. w.l \in Nat /\ w.m \in Nat
    BY DEF Way
  <2> QED BY <2>1, RestIs
<1> QED BY <1>4, <1>5

\* The same walk with the arrays swapped.
Mirrored(w, v) ==
    /\ v.l = w.m /\ v.m = w.l /\ v.left = w.right /\ v.right = w.left
    /\ \A i \in 1..w.l, j \in 1..w.m :
          /\ v.cmp[<<j, i>>] = 0 <=> w.cmp[<<i, j>>] = 0
          /\ v.cmp[<<j, i>>] < 0 <=> w.cmp[<<i, j>>] > 0
          /\ v.both[<<j, i>>] = w.both[<<i, j>>]
Turned(p) == <<p[2], p[1]>>

LEMMA TurnedIs ==
    ASSUME NEW w, Way(w), NEW v, Mirrored(w, v), NEW p \in Places(w)
    PROVE  /\ Turned(p) \in Places(v) /\ Rest(v, Turned(p)) = Rest(w, p)
           /\ Ended(v, Turned(p)) = Ended(w, p)
<1>1. w.l \in Nat /\ w.m \in Nat /\ v.l = w.m /\ v.m = w.l
  BY DEF Way, Mirrored
<1>2. p[1] \in 1..w.l + 1 /\ p[2] \in 1..w.m + 1
  BY RestIs
<1>3. Turned(p)[1] = p[2] /\ Turned(p)[2] = p[1]
  BY DEF Turned
<1>4. Turned(p) \in Places(v)
  BY <1>1, <1>2 DEF Places, Turned
<1>5. Rest(v, Turned(p)) = Rest(w, p)
  BY <1>1, <1>2, <1>3 DEF Rest
<1> QED BY <1>1, <1>3, <1>4, <1>5 DEF Ended

LEMMA TurnedOnward ==
    ASSUME NEW w, Way(w), NEW v, Mirrored(w, v), NEW p \in Places(w), ~Ended(w, p)
    PROVE  Onward(v, Turned(p)) = Turned(Onward(w, p)) /\ Amount(v, Turned(p)) = Amount(w, p)
<1>1. p[1] \in 1..w.l /\ p[2] \in 1..w.m /\ w.cmp[p] \in Int /\ p = <<p[1], p[2]>>
  BY OnwardIs, RestIs
<1>2. /\ v.cmp[<<p[2], p[1]>>] = 0 <=> w.cmp[<<p[1], p[2]>>] = 0
      /\ v.cmp[<<p[2], p[1]>>] < 0 <=> w.cmp[<<p[1], p[2]>>] > 0
      /\ v.both[<<p[2], p[1]>>] = w.both[<<p[1], p[2]>>]
      /\ v.left = w.right /\ v.right = w.left
  BY <1>1 DEF Mirrored
<1> DEFINE a == w.cmp[p]
           q == Turned(p)
<1>3. /\ v.cmp[q] = 0 <=> a = 0
      /\ v.cmp[q] < 0 <=> a > 0
      /\ v.both[q] = w.both[p] /\ q[1] = p[2] /\ q[2] = p[1] /\ a \in Int
  BY <1>1, <1>2 DEF Turned
<1> HIDE DEF q
<1>4. w.cmp[p] = a
  OBVIOUS
<1> HIDE DEF a
<1>5. CASE a = 0
  <2>1. Onward(w, p) = <<p[1] + 1, p[2] + 1>> /\ Amount(w, p) = w.both[p]
    BY <1>3, <1>4, <1>5 DEF Onward, Amount
  <2> HIDE DEF a
  <2>0. v.cmp[q] = 0
    BY <1>3, <1>5
  <2>2. Onward(v, q) = <<q[1] + 1, q[2] + 1>> /\ Amount(v, q) = v.both[q]
    BY <2>0 DEF Onward, Amount
  <2>3. Turned(Onward(w, p)) = Onward(v, q)
    BY <1>3, <2>1, <2>2 DEF Turned
  <2> QED BY <1>2, <1>3, <2>1, <2>2, <2>3 DEF q
<1>6. CASE a < 0
  <2>1. Onward(w, p) = <<p[1] + 1, p[2]>> /\ Amount(w, p) = w.left[p[1]]
    BY <1>3, <1>4, <1>6 DEF Onward, Amount
  <2>2. Onward(v, q) = <<q[1], q[2] + 1>> /\ Amount(v, q) = v.right[q[2]]
    BY <1>3, <1>6 DEF Onward, Amount
  <2>3. Turned(Onward(w, p)) = Onward(v, q)
    BY <1>3, <2>1, <2>2 DEF Turned
  <2> QED BY <1>2, <1>3, <2>1, <2>2, <2>3 DEF q
<1>7. CASE a > 0
  <2>1. Onward(w, p) = <<p[1], p[2] + 1>> /\ Amount(w, p) = w.right[p[2]]
    BY <1>3, <1>4, <1>7 DEF Onward, Amount
  <2>2. Onward(v, q) = <<q[1] + 1, q[2]>> /\ Amount(v, q) = v.left[q[1]]
    BY <1>3, <1>7 DEF Onward, Amount
  <2>3. Turned(Onward(w, p)) = Onward(v, q)
    BY <1>3, <2>1, <2>2 DEF Turned
  <2> QED BY <1>2, <1>3, <2>1, <2>2, <2>3 DEF q
<1> QED BY <1>3, <1>5, <1>6, <1>7 DEF q

LEMMA WalkMirrored ==
    ASSUME NEW w, Way(w), NEW v, Mirrored(w, v), NEW f, Walked(w, f), NEW g, Walked(v, g),
           NEW r \in Places(w)
    PROVE  g[Turned(r)] = f[r]
<1> DEFINE S == {k \in Nat : \A p \in Places(w) : Rest(w, p) < k => g[Turned(p)] = f[p]}
<1>1. 0 \in S
  BY RestIs
<1>2. ASSUME NEW k \in Nat, k \in S, NEW p \in Places(w), Rest(w, p) < k + 1
      PROVE  g[Turned(p)] = f[p]
  <2>1. f[p] = Paced(w, f, p) /\ g[Turned(p)] = Paced(v, g, Turned(p))
    BY TurnedIs DEF Walked
  <2>2. CASE Ended(w, p)
    BY <2>1, <2>2, TurnedIs DEF Paced
  <2>3. CASE ~Ended(w, p)
    <3>1. Onward(w, p) \in Places(w) /\ Rest(w, Onward(w, p)) < k
      BY <1>2, <2>3, OnwardIs, RestIs
    <3>2. g[Turned(Onward(w, p))] = f[Onward(w, p)]
      BY <1>2, <3>1
    <3>3. ~Ended(v, Turned(p))
      BY <2>3, TurnedIs
    <3>4. /\ f[p] = Amount(w, p) + f[Onward(w, p)]
          /\ g[Turned(p)] = Amount(v, Turned(p)) + g[Onward(v, Turned(p))]
      BY <2>1, <2>3, <3>3 DEF Paced
    <3> QED BY <2>3, <3>2, <3>4, TurnedOnward
  <2> QED BY <2>2, <2>3
<1>3. \A k \in Nat : k \in S => k + 1 \in S
  BY <1>2
<1>4. w.l + w.m + 1 \in S
  <2> HIDE DEF S
  <2>1. Nat \subseteq S
    BY <1>1, <1>3, Induct
  <2> QED BY <2>1 DEF Way
<1>5. Rest(w, r) < w.l + w.m + 1
  <2>1. w.l \in Nat /\ w.m \in Nat
    BY DEF Way
  <2> QED BY <2>1, RestIs
<1> QED BY <1>4, <1>5

----------------------------------------------------------------------------
(* Differences between variables *)

\* The walk along the variables of two contexts; one that only one of them has counts n.
VarWay(vs, ws, n) ==
    [l |-> Len(vs), m |-> Len(ws),
     cmp |-> [p \in (1..Len(vs)) \X (1..Len(ws)) |-> vs[p[1]].code - ws[p[2]].code],
     both |-> [p \in (1..Len(vs)) \X (1..Len(ws)) |-> Count(vs[p[1]] # ws[p[2]])],
     left |-> [i \in 1..Len(vs) |-> n], right |-> [j \in 1..Len(ws) |-> n]]

LEMMA VarWayIs ==
    ASSUME NEW vs \in SortedVars, NEW ws \in SortedVars, NEW n \in Nat
    PROVE  /\ Way(VarWay(vs, ws, n))
           /\ VarWay(vs, ws, n).l = Len(vs) /\ VarWay(vs, ws, n).m = Len(ws)
           /\ Len(vs) \in Nat /\ Len(ws) \in Nat
           /\ \A i \in 1..Len(vs), j \in 1..Len(ws) :
                 /\ VarWay(vs, ws, n).cmp[<<i, j>>] = vs[i].code - ws[j].code
                 /\ VarWay(vs, ws, n).both[<<i, j>>] = Count(vs[i] # ws[j])
                 /\ VarWay(vs, ws, n).left[i] = n /\ VarWay(vs, ws, n).right[j] = n
<1> DEFINE l == Len(vs)
           m == Len(ws)
           w == VarWay(vs, ws, n)
<1>1. l \in Nat /\ m \in Nat /\ (\A i \in 1..l : vs[i].code \in Int)
      /\ (\A j \in 1..m : ws[j].code \in Int)
  BY SortedVarsAre
<1>2. /\ w.l = l /\ w.m = m
      /\ w.cmp = [p \in (1..l) \X (1..m) |-> vs[p[1]].code - ws[p[2]].code]
      /\ w.both = [p \in (1..l) \X (1..m) |-> Count(vs[p[1]] # ws[p[2]])]
      /\ w.left = [i \in 1..l |-> n] /\ w.right = [j \in 1..m |-> n]
  BY DEF VarWay
<1> HIDE DEF l, m, w
<1>3. \A p \in (1..l) \X (1..m) :
         vs[p[1]].code - ws[p[2]].code \in Int /\ Count(vs[p[1]] # ws[p[2]]) \in Nat
  <2>1. ASSUME NEW p \in (1..l) \X (1..m)
        PROVE  vs[p[1]].code - ws[p[2]].code \in Int /\ Count(vs[p[1]] # ws[p[2]]) \in Nat
    <3>1. p[1] \in 1..l /\ p[2] \in 1..m
      OBVIOUS
    <3>2. vs[p[1]].code \in Int /\ ws[p[2]].code \in Int
      BY <1>1, <3>1
    <3> QED BY <3>2 DEF Count
  <2> QED BY <2>1
<1>4. w.cmp \in [(1..l) \X (1..m) -> Int] /\ w.both \in [(1..l) \X (1..m) -> Nat]
  BY <1>2, <1>3
<1>5. w.left \in [1..l -> Nat] /\ w.right \in [1..m -> Nat]
  BY <1>2
<1>6. Way(w)
  BY <1>1, <1>2, <1>4, <1>5 DEF Way
<1>7. ASSUME NEW i \in 1..l, NEW j \in 1..m
      PROVE  /\ w.cmp[<<i, j>>] = vs[i].code - ws[j].code
             /\ w.both[<<i, j>>] = Count(vs[i] # ws[j])
             /\ w.left[i] = n /\ w.right[j] = n
  <2>1. <<i, j>> \in (1..l) \X (1..m)
    OBVIOUS
  <2> QED BY <1>2, <2>1
<1> QED BY <1>1, <1>2, <1>6, <1>7 DEF l, m, w

\* The body of Walk, for variables.
VarStep(vs, ws, n, f, p) ==
    LET i == p[1]
        j == p[2]
    IN  IF i > Len(vs) \/ j > Len(ws) THEN (Len(vs) + 1 - i) + (Len(ws) + 1 - j)
        ELSE LET cmp == CompareCodes(vs[i], ws[j]) IN
             CASE cmp = 0 -> Count(vs[i] # ws[j]) + f[<<i + 1, j + 1>>]
               [] cmp < 0 -> n + f[<<i + 1, j>>]
               [] OTHER -> n + f[<<i, j + 1>>]

LEMMA VarStepIs ==
    ASSUME NEW vs \in SortedVars, NEW ws \in SortedVars, NEW n \in Nat, NEW f,
           NEW p \in Places(VarWay(vs, ws, n))
    PROVE  VarStep(vs, ws, n, f, p) = Paced(VarWay(vs, ws, n), f, p)
<1> DEFINE w == VarWay(vs, ws, n)
           i == p[1]
           j == p[2]
<1>1. Way(w) /\ w.l = Len(vs) /\ w.m = Len(ws)
  BY VarWayIs
<1>2. CASE Ended(w, p)
  BY <1>1, <1>2 DEF VarStep, Paced, Ended, Rest
<1>3. CASE ~Ended(w, p)
  <2>1. i \in 1..Len(vs) /\ j \in 1..Len(ws) /\ w.cmp[p] \in Int /\ p = <<i, j>>
    BY <1>1, <1>3, OnwardIs, RestIs
  <2>2. /\ w.cmp[p] = vs[i].code - ws[j].code /\ w.both[p] = Count(vs[i] # ws[j])
        /\ w.left[i] = n /\ w.right[j] = n
    BY <2>1, VarWayIs
  <2> DEFINE cmp == CompareCodes(vs[i], ws[j])
             c == Count(vs[i] # ws[j])
             x == <<i + 1, j + 1>>
             y == <<i + 1, j>>
             z == <<i, j + 1>>
  <2>3. ~(i > Len(vs) \/ j > Len(ws))
    BY <1>1, <1>3 DEF Ended
  <2>4. VarStep(vs, ws, n, f, p) =
            CASE cmp = 0 -> c + f[x] [] cmp < 0 -> n + f[y] [] OTHER -> n + f[z]
    BY <2>3 DEF VarStep
  <2>5. cmp = w.cmp[p] /\ w.both[p] = c
    BY <2>2 DEF CompareCodes
  <2>6. Paced(w, f, p) = IF w.cmp[p] = 0 THEN w.both[p] + f[x]
                         ELSE IF w.cmp[p] < 0 THEN w.left[i] + f[y] ELSE w.right[j] + f[z]
    BY <1>3 DEF Paced, Onward, Amount
  <2> HIDE DEF cmp, c, x, y, z, i, j, w
  <2> QED BY <2>1, <2>2, <2>4, <2>5, <2>6 DEF w
<1> QED BY <1>2, <1>3

LEMMA VarWalkIs ==
    ASSUME NEW vs \in SortedVars, NEW ws \in SortedVars, NEW n \in Nat, NEW f,
           f = CHOOSE g : g = [p \in (1..Len(vs) + 1) \X (1..Len(ws) + 1) |->
                                  VarStep(vs, ws, n, g, p)]
    PROVE  Walked(VarWay(vs, ws, n), f)
<1> DEFINE w == VarWay(vs, ws, n)
           P(g) == g = [p \in (1..Len(vs) + 1) \X (1..Len(ws) + 1) |-> VarStep(vs, ws, n, g, p)]
<1>1. Way(w) /\ Places(w) = (1..Len(vs) + 1) \X (1..Len(ws) + 1)
  BY VarWayIs DEF Places
<1>2. ASSUME NEW g PROVE P(g) <=> g = [p \in Places(w) |-> Paced(w, g, p)]
  <2>1. \A p \in Places(w) : VarStep(vs, ws, n, g, p) = Paced(w, g, p)
    BY VarStepIs
  <2> HIDE DEF w
  <2>2. [p \in Places(w) |-> VarStep(vs, ws, n, g, p)] = [p \in Places(w) |-> Paced(w, g, p)]
    BY <2>1
  <2> QED BY <1>1, <2>2
<1>3. \E g : P(g)
  <2>1. PICK g \in [Places(w) -> Nat] : g = [p \in Places(w) |-> Paced(w, g, p)]
    BY <1>1, WalkExists
  <2> HIDE DEF P
  <2> QED BY <1>2, <2>1
<1>4. f = CHOOSE g : P(g)
  OBVIOUS
<1>5. P(f)
  <2> HIDE DEF P
  <2> QED BY <1>3, <1>4
<1> HIDE DEF P, w
<1> QED BY <1>1, <1>2, <1>5, WalkIsWalked DEF w

LEMMA DiffVarsWalks ==
    ASSUME NEW vs \in SortedVars, NEW ws \in SortedVars
    PROVE  \E f : Walked(VarWay(vs, ws, 1), f) /\ DiffVars(vs, ws) = f[<<1, 1>>]
<1> DEFINE f == CHOOSE g : g = [p \in (1..Len(vs) + 1) \X (1..Len(ws) + 1) |->
                                  VarStep(vs, ws, 1, g, p)]
<1>1. DiffVars(vs, ws) = f[<<1, 1>>]
  BY DEF DiffVars, Walk, VarStep
<1> HIDE DEF f
<1>2. Walked(VarWay(vs, ws, 1), f)
  BY VarWalkIs DEF f
<1> QED BY <1>1, <1>2

LEMMA DiffStationWalks ==
    ASSUME NEW vs \in SortedVars, NEW ws \in SortedVars
    PROVE  \E f : Walked(VarWay(vs, ws, 0), f) /\ DiffStation(vs, ws) = f[<<1, 1>>]
<1> DEFINE f == CHOOSE g : g = [p \in (1..Len(vs) + 1) \X (1..Len(ws) + 1) |->
                                  VarStep(vs, ws, 0, g, p)]
<1>1. DiffStation(vs, ws) = f[<<1, 1>>]
  BY DEF DiffStation, Walk, VarStep
<1> HIDE DEF f
<1>2. Walked(VarWay(vs, ws, 0), f)
  BY VarWalkIs DEF f
<1> QED BY <1>1, <1>2

LEMMA VarWaysMirror ==
    ASSUME NEW vs \in SortedVars, NEW ws \in SortedVars, NEW n \in Nat
    PROVE  Mirrored(VarWay(vs, ws, n), VarWay(ws, vs, n))
<1> DEFINE w == VarWay(vs, ws, n)
           v == VarWay(ws, vs, n)
<1>1. v.l = w.m /\ v.m = w.l
  BY VarWayIs
<1>2. v.left = w.right /\ v.right = w.left
  BY DEF VarWay
<1>3. ASSUME NEW i \in 1..w.l, NEW j \in 1..w.m
      PROVE  /\ v.cmp[<<j, i>>] = 0 <=> w.cmp[<<i, j>>] = 0
             /\ v.cmp[<<j, i>>] < 0 <=> w.cmp[<<i, j>>] > 0
             /\ v.both[<<j, i>>] = w.both[<<i, j>>]
  <2>1. i \in 1..Len(vs) /\ j \in 1..Len(ws)
    BY VarWayIs
  <2>2. /\ w.cmp[<<i, j>>] = vs[i].code - ws[j].code /\ w.both[<<i, j>>] = Count(vs[i] # ws[j])
        /\ v.cmp[<<j, i>>] = ws[j].code - vs[i].code /\ v.both[<<j, i>>] = Count(ws[j] # vs[i])
    BY <2>1, VarWayIs
  <2>3. vs[i].code \in Int /\ ws[j].code \in Int
    BY <2>1, SortedVarsAre
  <2>4. Count(ws[j] # vs[i]) = Count(vs[i] # ws[j])
    BY DEF Count
  <2> HIDE DEF w, v
  <2> QED BY <2>2, <2>3, <2>4
<1> HIDE DEF w, v
<1> QED BY <1>1, <1>2, <1>3 DEF Mirrored, w, v

LEMMA FirstPlace ==
    ASSUME NEW w, Way(w)
    PROVE  <<1, 1>> \in Places(w) /\ Turned(<<1, 1>>) = <<1, 1>>
BY DEF Way, Places, Turned

LEMMA DiffVarsIsSymmetric ==
    ASSUME NEW vs \in SortedVars, NEW ws \in SortedVars
    PROVE  /\ DiffVars(vs, ws) \in Nat /\ DiffVars(vs, ws) = DiffVars(ws, vs)
           /\ DiffStation(vs, ws) \in Nat /\ DiffStation(vs, ws) = DiffStation(ws, vs)
<1>1. ASSUME NEW n \in {0, 1}, NEW f, Walked(VarWay(vs, ws, n), f),
             NEW g, Walked(VarWay(ws, vs, n), g)
      PROVE  f[<<1, 1>>] \in Nat /\ f[<<1, 1>>] = g[<<1, 1>>]
  <2>1. Way(VarWay(vs, ws, n)) /\ Mirrored(VarWay(vs, ws, n), VarWay(ws, vs, n))
    BY VarWayIs, VarWaysMirror
  <2>2. <<1, 1>> \in Places(VarWay(vs, ws, n)) /\ Turned(<<1, 1>>) = <<1, 1>>
    BY <2>1, FirstPlace
  <2>3. g[Turned(<<1, 1>>)] = f[<<1, 1>>]
    BY <1>1, <2>1, <2>2, WalkMirrored
  <2> QED BY <1>1, <2>2, <2>3 DEF Walked
<1> QED BY <1>1, DiffVarsWalks, DiffStationWalks

\* The places at which f and g, with domains a and b, differ.
Unlike(a, b, f, g) == {k \in a \cup b : ~(k \in a /\ k \in b /\ f[k] = g[k])}

CodesPast(vs, i) == {vs[x].code : x \in i..Len(vs)}

LEMMA CodesPastAre ==
    ASSUME NEW vs \in SortedVars, NEW i \in 1..Len(vs) + 1
    PROVE  /\ IsFiniteSet(CodesPast(vs, i)) /\ Cardinality(CodesPast(vs, i)) = Len(vs) + 1 - i
           /\ i <= Len(vs) =>
                 /\ CodesPast(vs, i) = {vs[i].code} \cup CodesPast(vs, i + 1)
                 /\ \A k \in CodesPast(vs, i) : k \in Int /\ k >= vs[i].code
                 /\ vs[i].code \notin CodesPast(vs, i + 1)
           /\ i > Len(vs) => CodesPast(vs, i) = {}
<1> DEFINE n == Len(vs)
           f == [x \in i..n |-> vs[x].code]
<1>1. /\ n \in Nat /\ \A x \in 1..n : vs[x].code \in Int
      /\ \A x, y \in 1..n : x < y => vs[x].code < vs[y].code
  BY SortedVarsAre
<1> HIDE DEF n
<1>2. \A x \in i..n : x \in 1..n
  BY <1>1 DEF n
<1>3. f \in Bijection(i..n, CodesPast(vs, i))
  <2>1. \A x, y \in i..n : f[x] = f[y] => x = y
    BY <1>1, <1>2
  <2>2. CodesPast(vs, i) = {vs[x].code : x \in i..n}
    BY DEF CodesPast, n
  <2>3. f \in [i..n -> CodesPast(vs, i)] /\ \A t \in CodesPast(vs, i) : \E x \in i..n : f[x] = t
    BY <2>2
  <2> HIDE DEF f
  <2> QED BY <2>1, <2>3 DEF Bijection, Injection, Surjection, IsInjective
<1>4. IsFiniteSet(CodesPast(vs, i)) /\ Cardinality(CodesPast(vs, i)) = Cardinality(i..n)
  <2>1. IsFiniteSet(i..n)
    BY <1>1, FS_Interval DEF n
  <2>2. ExistsBijection(i..n, CodesPast(vs, i))
    BY <1>3 DEF ExistsBijection
  <2> QED BY <2>1, <2>2, FS_Bijection
<1>5. Cardinality(i..n) = n + 1 - i
  <2>1. i \in Int /\ n \in Int /\ i <= n + 1
    BY <1>1 DEF n
  <2>2. Cardinality(i..n) = IF i > n THEN 0 ELSE n - i + 1
    BY <2>1, FS_Interval
  <2> QED BY <2>1, <2>2
<1>6. ASSUME i <= n
      PROVE  /\ CodesPast(vs, i) = {vs[i].code} \cup CodesPast(vs, i + 1)
             /\ \A k \in CodesPast(vs, i) : k \in Int /\ k >= vs[i].code
             /\ vs[i].code \notin CodesPast(vs, i + 1)
  <2>1. i \in 1..n /\ i..n = {i} \cup ((i + 1)..n)
    BY <1>1, <1>6
  <2>2. CodesPast(vs, i) = {vs[x].code : x \in i..n} /\ CodesPast(vs, i + 1) = {vs[x].code : x \in (i + 1)..n}
    BY DEF CodesPast, n
  <2>3. \A x \in (i + 1)..n : vs[x].code > vs[i].code /\ vs[x].code \in Int /\ vs[i].code \in Int
    BY <1>1, <2>1
  <2>4. vs[i].code \in Int
    BY <1>1, <2>1
  <2> QED BY <2>1, <2>2, <2>3, <2>4
<1>7. i > n => CodesPast(vs, i) = {}
  BY <1>1 DEF CodesPast, n
<1> QED BY <1>4, <1>5, <1>6, <1>7 DEF n

UnlikePast(vs, ws, p) == Unlike(CodesPast(vs, p[1]), CodesPast(ws, p[2]), Map(vs), Map(ws))

LEMMA UnlikeGrows ==
    ASSUME NEW vs \in SortedVars, NEW ws \in SortedVars
    PROVE  LET w == VarWay(vs, ws, 1)
           IN  Grows(w, [p \in Places(w) |-> UnlikePast(vs, ws, p)], TRUE)
<1> DEFINE w == VarWay(vs, ws, 1)
           x == [p \in Places(w) |-> UnlikePast(vs, ws, p)]
<1>1. /\ Way(w) /\ w.l = Len(vs) /\ w.m = Len(ws) /\ Len(vs) \in Nat /\ Len(ws) \in Nat
  BY VarWayIs
<1> HIDE DEF w
<1>2. ASSUME NEW p \in Places(w), Ended(w, p) PROVE Counts(x[p], Rest(w, p), TRUE)
  <2> DEFINE a == CodesPast(vs, p[1])
             b == CodesPast(ws, p[2])
  <2>1. p[1] \in 1..Len(vs) + 1 /\ p[2] \in 1..Len(ws) + 1
    BY <1>1, RestIs
  <2>2. x[p] = Unlike(a, b, Map(vs), Map(ws))
    BY DEF UnlikePast
  <2>3. /\ IsFiniteSet(a) /\ Cardinality(a) = Len(vs) + 1 - p[1]
        /\ IsFiniteSet(b) /\ Cardinality(b) = Len(ws) + 1 - p[2]
        /\ p[1] > Len(vs) => a = {}
        /\ p[2] > Len(ws) => b = {}
    BY <2>1, CodesPastAre
  <2> HIDE DEF x, a, b
  <2>4. CASE p[1] > Len(vs)
    <3>1. x[p] = b
      BY <2>2, <2>3, <2>4 DEF Unlike
    <3>2. p[1] = Len(vs) + 1
      BY <1>1, <2>1, <2>4
    <3>3. Rest(w, p) = Len(ws) + 1 - p[2]
      BY <1>1, <2>1, <3>2 DEF Rest
    <3>4. Rest(w, p) \in Nat
      BY <1>1, <2>1, <3>3
    <3> QED BY <2>3, <3>1, <3>3, <3>4 DEF Counts
  <2>5. CASE p[2] > Len(ws)
    <3>1. x[p] = a
      BY <2>2, <2>3, <2>5 DEF Unlike
    <3>2. p[2] = Len(ws) + 1
      BY <1>1, <2>1, <2>5
    <3>3. Rest(w, p) = Len(vs) + 1 - p[1]
      BY <1>1, <2>1, <3>2 DEF Rest
    <3>4. Rest(w, p) \in Nat
      BY <1>1, <2>1, <3>3
    <3> QED BY <2>3, <3>1, <3>3, <3>4 DEF Counts
  <2> QED BY <1>1, <1>2, <2>4, <2>5 DEF Ended
<1>3. ASSUME NEW p \in Places(w), ~Ended(w, p) PROVE Gains(w, x, p)
  <2> DEFINE i == p[1]
             j == p[2]
             c == vs[i].code
             d == ws[j].code
             q == Onward(w, p)
  <2>1. i \in 1..Len(vs) /\ j \in 1..Len(ws) /\ p = <<i, j>> /\ q \in Places(w)
    BY <1>1, <1>3, OnwardIs, RestIs
  <2>2. /\ w.cmp[p] = c - d /\ w.both[p] = Count(vs[i] # ws[j])
        /\ w.left[i] = 1 /\ w.right[j] = 1
    BY <2>1, VarWayIs DEF w
  <2>3. c \in Int /\ d \in Int
    BY <2>1, SortedVarsAre
  <2>4. /\ CodesPast(vs, i) = {c} \cup CodesPast(vs, i + 1) /\ c \notin CodesPast(vs, i + 1)
        /\ CodesPast(ws, j) = {d} \cup CodesPast(ws, j + 1) /\ d \notin CodesPast(ws, j + 1)
        /\ \A k \in CodesPast(vs, i) : k \in Int /\ k >= c
        /\ \A k \in CodesPast(ws, j) : k \in Int /\ k >= d
    <3>1. i \in 1..Len(vs) + 1 /\ i <= Len(vs) /\ j \in 1..Len(ws) + 1 /\ j <= Len(ws)
      BY <1>1, <2>1
    <3> HIDE DEF i, j
    <3> QED BY <3>1, CodesPastAre
  <2>5. x[p] = UnlikePast(vs, ws, p) /\ x[q] = UnlikePast(vs, ws, q)
    BY <2>1
  <2> HIDE DEF x
  <2> DEFINE f == Map(vs)
             g == Map(ws)
             Gain(y) == /\ x[p] = y \cup x[q] /\ y \cap x[q] = {}
                        /\ IsFiniteSet(y) /\ Cardinality(y) = Amount(w, p)
  <2>6. CASE c = d
    <3>1. w.cmp[p] = 0
      BY <2>2, <2>3, <2>6
    <3>2. q = <<i + 1, j + 1>> /\ Amount(w, p) = Count(vs[i] # ws[j])
      BY <2>2, <3>1 DEF Onward, Amount
    <3> DEFINE y == IF f[c] = g[c] THEN {} ELSE {c}
    <3>3. x[p] = y \cup x[q] /\ c \notin x[q]
      <4>1. x[p] = Unlike(CodesPast(vs, i), CodesPast(ws, j), f, g)
        BY <2>5 DEF UnlikePast
      <4>2. x[q] = Unlike(CodesPast(vs, i + 1), CodesPast(ws, j + 1), f, g)
        BY <2>5, <3>2 DEF UnlikePast
      <4> DEFINE a == CodesPast(vs, i + 1)
                 b == CodesPast(ws, j + 1)
      <4> HIDE DEF a, b, c, d, f, g
      <4>3. c \notin a /\ c \notin b
        BY <2>4, <2>6 DEF a, b
      <4>4. /\ Unlike({c} \cup a, {c} \cup b, f, g) = y \cup Unlike(a, b, f, g)
            /\ c \notin Unlike(a, b, f, g)
        BY <4>3 DEF Unlike
      <4> HIDE DEF y, q
      <4> QED BY <2>4, <2>6, <4>1, <4>2, <4>4 DEF a, b
    <3>4. f[c] = vs[i] /\ g[c] = ws[j]
      <4>1. vs[i] \in ToSet(vs) /\ ws[j] \in ToSet(ws)
        BY <2>1, ElementsOf, SortedVarsAre
      <4> QED BY <2>6, <4>1, MapIs
    <3>5. IsFiniteSet(y) /\ Cardinality(y) = Count(vs[i] # ws[j])
      BY <3>4, FS_EmptySet, FS_Singleton DEF Count
    <3>6. Gain(y)
      <4> HIDE DEF c, q, f, g
      <4> QED BY <3>2, <3>3, <3>5
    <3> QED BY <3>6 DEF Gains, GainsFrom
  <2>7. CASE c < d
    <3>1. q = <<i + 1, j>> /\ Amount(w, p) = 1
      BY <2>2, <2>3, <2>7 DEF Onward, Amount
    <3>2. c \notin CodesPast(ws, j)
      BY <2>3, <2>4, <2>7
    <3>3. x[p] = {c} \cup x[q] /\ c \notin x[q]
      <4>1. x[p] = Unlike(CodesPast(vs, i), CodesPast(ws, j), f, g)
        BY <2>5 DEF UnlikePast
      <4>2. x[q] = Unlike(CodesPast(vs, i + 1), CodesPast(ws, j), f, g)
        BY <2>5, <3>1 DEF UnlikePast
      <4> DEFINE a == CodesPast(vs, i + 1)
                 b == CodesPast(ws, j)
      <4> HIDE DEF a, b, c, d, f, g
      <4>3. c \notin a /\ c \notin b
        BY <2>4, <3>2 DEF a, b
      <4>4. Unlike({c} \cup a, b, f, g) = {c} \cup Unlike(a, b, f, g) /\ c \notin Unlike(a, b, f, g)
        BY <4>3 DEF Unlike
      <4> HIDE DEF q
      <4> QED BY <2>4, <4>1, <4>2, <4>4 DEF a, b
    <3>4. Gain({c})
      <4> HIDE DEF c, q
      <4> QED BY <3>1, <3>3, FS_Singleton
    <3> QED BY <3>4 DEF Gains, GainsFrom
  <2>8. CASE d < c
    <3>1. q = <<i, j + 1>> /\ Amount(w, p) = 1
      BY <2>2, <2>3, <2>8 DEF Onward, Amount
    <3>2. d \notin CodesPast(vs, i)
      BY <2>3, <2>4, <2>8
    <3>3. x[p] = {d} \cup x[q] /\ d \notin x[q]
      <4>1. x[p] = Unlike(CodesPast(vs, i), CodesPast(ws, j), f, g)
        BY <2>5 DEF UnlikePast
      <4>2. x[q] = Unlike(CodesPast(vs, i), CodesPast(ws, j + 1), f, g)
        BY <2>5, <3>1 DEF UnlikePast
      <4> DEFINE a == CodesPast(vs, i)
                 b == CodesPast(ws, j + 1)
      <4> HIDE DEF a, b, c, d, f, g
      <4>3. d \notin a /\ d \notin b
        BY <2>4, <3>2 DEF a, b
      <4>4. Unlike(a, {d} \cup b, f, g) = {d} \cup Unlike(a, b, f, g) /\ d \notin Unlike(a, b, f, g)
        BY <4>3 DEF Unlike
      <4> HIDE DEF q
      <4> QED BY <2>4, <4>1, <4>2, <4>4 DEF a, b
    <3>4. Gain({d})
      <4> HIDE DEF d, q
      <4> QED BY <3>1, <3>3, FS_Singleton
    <3> QED BY <3>4 DEF Gains, GainsFrom
  <2> QED BY <2>3, <2>6, <2>7, <2>8
<1>4. Grows(w, x, TRUE)
  <2> HIDE DEF x
  <2> QED BY <1>2, <1>3 DEF Grows
<1> QED BY <1>4 DEF w

\* As many differences are counted between two contexts as there are.
LEMMA DiffVarsIs ==
    ASSUME NEW vs \in SortedVars, NEW ws \in SortedVars
    PROVE  LET u == Unlike(DOMAIN Map(vs), DOMAIN Map(ws), Map(vs), Map(ws))
           IN  IsFiniteSet(u) /\ Cardinality(u) = DiffVars(vs, ws)
<1> DEFINE w == VarWay(vs, ws, 1)
           x == [p \in Places(w) |-> UnlikePast(vs, ws, p)]
<1>1. PICK f : Walked(w, f) /\ DiffVars(vs, ws) = f[<<1, 1>>]
  BY DiffVarsWalks
<1>2. Way(w) /\ <<1, 1>> \in Places(w)
  BY VarWayIs, FirstPlace
<1>3. Grows(w, x, TRUE)
  BY UnlikeGrows
<1>4. x[<<1, 1>>] = Unlike(CodesPast(vs, 1), CodesPast(ws, 1), Map(vs), Map(ws))
  BY <1>2 DEF UnlikePast
<1>5. CodesPast(vs, 1) = DOMAIN Map(vs) /\ CodesPast(ws, 1) = DOMAIN Map(ws)
  BY SortedVarsAre DEF CodesPast, Map, Codes
<1> HIDE DEF w, x
<1>6. Counts(x[<<1, 1>>], f[<<1, 1>>], TRUE)
  BY <1>1, <1>2, <1>3, WalkCounts
<1> QED BY <1>1, <1>4, <1>5, <1>6 DEF Counts

----------------------------------------------------------------------------
(* Differences between contexts *)

CtxWay(cs, ds) ==
    [l |-> Len(cs), m |-> Len(ds),
     cmp |-> [p \in (1..Len(cs)) \X (1..Len(ds)) |-> Compare(cs[p[1]], ds[p[2]])],
     both |-> [p \in (1..Len(cs)) \X (1..Len(ds)) |-> DiffVars(cs[p[1]].values, ds[p[2]].values)],
     left |-> [i \in 1..Len(cs) |-> Count(cs[i].values # <<>>)],
     right |-> [j \in 1..Len(ds) |-> Count(ds[j].values # <<>>)]]

LEMMA CtxWayIs ==
    ASSUME NEW cs \in SortedCtxs, NEW ds \in SortedCtxs
    PROVE  /\ Way(CtxWay(cs, ds))
           /\ CtxWay(cs, ds).l = Len(cs) /\ CtxWay(cs, ds).m = Len(ds)
           /\ Len(cs) \in Nat /\ Len(ds) \in Nat
           /\ \A i \in 1..Len(cs), j \in 1..Len(ds) :
                 /\ CtxWay(cs, ds).cmp[<<i, j>>] = Compare(cs[i], ds[j])
                 /\ CtxWay(cs, ds).both[<<i, j>>] = DiffVars(cs[i].values, ds[j].values)
                 /\ CtxWay(cs, ds).left[i] = Count(cs[i].values # <<>>)
                 /\ CtxWay(cs, ds).right[j] = Count(ds[j].values # <<>>)
<1> DEFINE l == Len(cs)
           m == Len(ds)
           w == CtxWay(cs, ds)
<1>1. /\ l \in Nat /\ m \in Nat
      /\ \A i \in 1..l : HasKey(cs[i]) /\ cs[i].values \in SortedVars
      /\ \A j \in 1..m : HasKey(ds[j]) /\ ds[j].values \in SortedVars
  BY SortedCtxsAre
<1>2. /\ w.l = l /\ w.m = m
      /\ w.cmp = [p \in (1..l) \X (1..m) |-> Compare(cs[p[1]], ds[p[2]])]
      /\ w.both = [p \in (1..l) \X (1..m) |-> DiffVars(cs[p[1]].values, ds[p[2]].values)]
      /\ w.left = [i \in 1..l |-> Count(cs[i].values # <<>>)]
      /\ w.right = [j \in 1..m |-> Count(ds[j].values # <<>>)]
  BY DEF CtxWay
<1> HIDE DEF l, m, w
<1>3. \A p \in (1..l) \X (1..m) : /\ Compare(cs[p[1]], ds[p[2]]) \in Int
                                  /\ DiffVars(cs[p[1]].values, ds[p[2]].values) \in Nat
  <2>1. ASSUME NEW p \in (1..l) \X (1..m)
        PROVE  /\ Compare(cs[p[1]], ds[p[2]]) \in Int
               /\ DiffVars(cs[p[1]].values, ds[p[2]].values) \in Nat
    <3>1. p[1] \in 1..l /\ p[2] \in 1..m
      OBVIOUS
    <3> QED BY <1>1, <3>1, CompareIs, DiffVarsIsSymmetric
  <2> QED BY <2>1
<1>4. w.cmp \in [(1..l) \X (1..m) -> Int] /\ w.both \in [(1..l) \X (1..m) -> Nat]
  BY <1>2, <1>3
<1>5. w.left \in [1..l -> Nat] /\ w.right \in [1..m -> Nat]
  BY <1>2 DEF Count
<1>6. Way(w)
  BY <1>1, <1>2, <1>4, <1>5 DEF Way
<1>7. ASSUME NEW i \in 1..l, NEW j \in 1..m
      PROVE  /\ w.cmp[<<i, j>>] = Compare(cs[i], ds[j])
             /\ w.both[<<i, j>>] = DiffVars(cs[i].values, ds[j].values)
             /\ w.left[i] = Count(cs[i].values # <<>>)
             /\ w.right[j] = Count(ds[j].values # <<>>)
  <2>1. <<i, j>> \in (1..l) \X (1..m)
    OBVIOUS
  <2> QED BY <1>2, <2>1
<1> QED BY <1>1, <1>2, <1>6, <1>7 DEF l, m, w

CtxStep(cs, ds, f, p) ==
    LET i == p[1]
        j == p[2]
    IN  IF i > Len(cs) \/ j > Len(ds) THEN (Len(cs) + 1 - i) + (Len(ds) + 1 - j)
        ELSE LET cmp == Compare(cs[i], ds[j]) IN
             CASE cmp = 0 -> DiffVars(cs[i].values, ds[j].values) + f[<<i + 1, j + 1>>]
               [] cmp < 0 -> Count(cs[i].values # <<>>) + f[<<i + 1, j>>]
               [] OTHER -> Count(ds[j].values # <<>>) + f[<<i, j + 1>>]

LEMMA CtxStepIs ==
    ASSUME NEW cs \in SortedCtxs, NEW ds \in SortedCtxs, NEW f, NEW p \in Places(CtxWay(cs, ds))
    PROVE  CtxStep(cs, ds, f, p) = Paced(CtxWay(cs, ds), f, p)
<1> DEFINE w == CtxWay(cs, ds)
           i == p[1]
           j == p[2]
<1>1. Way(w) /\ w.l = Len(cs) /\ w.m = Len(ds)
  BY CtxWayIs
<1>2. CASE Ended(w, p)
  BY <1>1, <1>2 DEF CtxStep, Paced, Ended, Rest
<1>3. CASE ~Ended(w, p)
  <2>1. i \in 1..Len(cs) /\ j \in 1..Len(ds) /\ w.cmp[p] \in Int /\ p = <<i, j>>
    BY <1>1, <1>3, OnwardIs, RestIs
  <2> DEFINE cmp == Compare(cs[i], ds[j])
             c == DiffVars(cs[i].values, ds[j].values)
             a == Count(cs[i].values # <<>>)
             b == Count(ds[j].values # <<>>)
             x == <<i + 1, j + 1>>
             y == <<i + 1, j>>
             z == <<i, j + 1>>
  <2>2. w.cmp[p] = cmp /\ w.both[p] = c /\ w.left[i] = a /\ w.right[j] = b
    BY <2>1, CtxWayIs
  <2>3. ~(i > Len(cs) \/ j > Len(ds))
    BY <1>1, <1>3 DEF Ended
  <2>4. CtxStep(cs, ds, f, p) =
            CASE cmp = 0 -> c + f[x] [] cmp < 0 -> a + f[y] [] OTHER -> b + f[z]
    BY <2>3 DEF CtxStep
  <2>5. Paced(w, f, p) = IF w.cmp[p] = 0 THEN w.both[p] + f[x]
                         ELSE IF w.cmp[p] < 0 THEN w.left[i] + f[y] ELSE w.right[j] + f[z]
    BY <1>3 DEF Paced, Onward, Amount
  <2> HIDE DEF cmp, a, b, c, x, y, z, i, j, w
  <2> QED BY <2>1, <2>2, <2>4, <2>5 DEF w
<1> QED BY <1>2, <1>3

LEMMA DiffDataWalks ==
    ASSUME NEW cs \in SortedCtxs, NEW ds \in SortedCtxs
    PROVE  \E f : Walked(CtxWay(cs, ds), f) /\ DiffData(cs, ds) = f[<<1, 1>>]
<1> DEFINE w == CtxWay(cs, ds)
           P(g) == g = [p \in (1..Len(cs) + 1) \X (1..Len(ds) + 1) |-> CtxStep(cs, ds, g, p)]
           f == CHOOSE g : P(g)
<1>1. DiffData(cs, ds) = f[<<1, 1>>]
  BY DEF DiffData, Walk, CtxStep
<1>2. Way(w) /\ Places(w) = (1..Len(cs) + 1) \X (1..Len(ds) + 1)
  BY CtxWayIs DEF Places
<1>3. ASSUME NEW g PROVE P(g) <=> g = [p \in Places(w) |-> Paced(w, g, p)]
  <2>1. \A p \in Places(w) : CtxStep(cs, ds, g, p) = Paced(w, g, p)
    BY CtxStepIs
  <2> HIDE DEF w
  <2>2. [p \in Places(w) |-> CtxStep(cs, ds, g, p)] = [p \in Places(w) |-> Paced(w, g, p)]
    BY <2>1
  <2> QED BY <1>2, <2>2
<1>4. \E g : P(g)
  <2>1. PICK g \in [Places(w) -> Nat] : g = [p \in Places(w) |-> Paced(w, g, p)]
    BY <1>2, WalkExists
  <2> HIDE DEF P
  <2> QED BY <1>3, <2>1
<1>5. P(f)
  <2> HIDE DEF P
  <2> QED BY <1>4
<1> HIDE DEF P, w, f
<1>6. Walked(w, f)
  BY <1>2, <1>3, <1>5, WalkIsWalked
<1> QED BY <1>1, <1>6 DEF w

LEMMA CtxWaysMirror ==
    ASSUME NEW cs \in SortedCtxs, NEW ds \in SortedCtxs
    PROVE  Mirrored(CtxWay(cs, ds), CtxWay(ds, cs))
<1> DEFINE w == CtxWay(cs, ds)
           v == CtxWay(ds, cs)
<1>1. v.l = w.m /\ v.m = w.l
  BY CtxWayIs
<1>2. v.left = w.right /\ v.right = w.left
  BY DEF CtxWay
<1>3. ASSUME NEW i \in 1..w.l, NEW j \in 1..w.m
      PROVE  /\ v.cmp[<<j, i>>] = 0 <=> w.cmp[<<i, j>>] = 0
             /\ v.cmp[<<j, i>>] < 0 <=> w.cmp[<<i, j>>] > 0
             /\ v.both[<<j, i>>] = w.both[<<i, j>>]
  <2>1. i \in 1..Len(cs) /\ j \in 1..Len(ds)
    BY CtxWayIs
  <2>2. /\ w.cmp[<<i, j>>] = Compare(cs[i], ds[j])
        /\ w.both[<<i, j>>] = DiffVars(cs[i].values, ds[j].values)
        /\ v.cmp[<<j, i>>] = Compare(ds[j], cs[i])
        /\ v.both[<<j, i>>] = DiffVars(ds[j].values, cs[i].values)
    BY <2>1, CtxWayIs
  <2>3. HasKey(cs[i]) /\ HasKey(ds[j]) /\ cs[i].values \in SortedVars /\ ds[j].values \in SortedVars
    BY <2>1, SortedCtxsAre
  <2>4. /\ Compare(ds[j], cs[i]) < 0 <=> Compare(cs[i], ds[j]) > 0
        /\ Compare(ds[j], cs[i]) = 0 <=> Compare(cs[i], ds[j]) = 0
    BY <2>3, CompareIs DEF Same
  <2>5. DiffVars(ds[j].values, cs[i].values) = DiffVars(cs[i].values, ds[j].values)
    BY <2>3, DiffVarsIsSymmetric
  <2> HIDE DEF w, v
  <2> QED BY <2>2, <2>4, <2>5
<1> HIDE DEF w, v
<1> QED BY <1>1, <1>2, <1>3 DEF Mirrored, w, v

LEMMA DiffDataIsSymmetric ==
    ASSUME NEW cs \in SortedCtxs, NEW ds \in SortedCtxs
    PROVE  DiffData(cs, ds) \in Nat /\ DiffData(cs, ds) = DiffData(ds, cs)
<1>1. Way(CtxWay(cs, ds)) /\ Mirrored(CtxWay(cs, ds), CtxWay(ds, cs))
  BY CtxWayIs, CtxWaysMirror
<1>2. <<1, 1>> \in Places(CtxWay(cs, ds)) /\ Turned(<<1, 1>>) = <<1, 1>>
  BY <1>1, FirstPlace
<1>3. PICK f : Walked(CtxWay(cs, ds), f) /\ DiffData(cs, ds) = f[<<1, 1>>]
  BY DiffDataWalks
<1>4. PICK g : Walked(CtxWay(ds, cs), g) /\ DiffData(ds, cs) = g[<<1, 1>>]
  BY DiffDataWalks
<1>5. g[Turned(<<1, 1>>)] = f[<<1, 1>>]
  BY <1>1, <1>2, <1>3, <1>4, WalkMirrored
<1> QED BY <1>2, <1>3, <1>4, <1>5 DEF Walked

CtxPast(cs, i) == {CtxOf(cs[x]) : x \in i..Len(cs)}

LEMMA CtxPastIs ==
    ASSUME NEW cs \in SortedCtxs, NEW i \in 1..Len(cs) + 1
    PROVE  /\ IsFiniteSet(CtxPast(cs, i)) /\ Cardinality(CtxPast(cs, i)) = Len(cs) + 1 - i
           /\ i <= Len(cs) => /\ CtxPast(cs, i) = {CtxOf(cs[i])} \cup CtxPast(cs, i + 1)
                              /\ CtxOf(cs[i]) \notin CtxPast(cs, i + 1)
           /\ i > Len(cs) => CtxPast(cs, i) = {}
<1> DEFINE n == Len(cs)
           f == [x \in i..n |-> CtxOf(cs[x])]
<1>1. n \in Nat /\ \A x, y \in 1..n : CtxOf(cs[x]) = CtxOf(cs[y]) => x = y
  BY SortedCtxsAre, CtxOnce, SameCtx
<1> HIDE DEF n
<1>2. \A x \in i..n : x \in 1..n
  BY <1>1 DEF n
<1>3. f \in Bijection(i..n, CtxPast(cs, i))
  <2>1. \A x, y \in i..n : f[x] = f[y] => x = y
    BY <1>1, <1>2
  <2>2. CtxPast(cs, i) = {CtxOf(cs[x]) : x \in i..n}
    BY DEF CtxPast, n
  <2>3. f \in [i..n -> CtxPast(cs, i)] /\ \A t \in CtxPast(cs, i) : \E x \in i..n : f[x] = t
    BY <2>2
  <2> HIDE DEF f
  <2> QED BY <2>1, <2>3 DEF Bijection, Injection, Surjection, IsInjective
<1>4. IsFiniteSet(CtxPast(cs, i)) /\ Cardinality(CtxPast(cs, i)) = Cardinality(i..n)
  <2>1. IsFiniteSet(i..n)
    BY <1>1, FS_Interval DEF n
  <2>2. ExistsBijection(i..n, CtxPast(cs, i))
    BY <1>3 DEF ExistsBijection
  <2> QED BY <2>1, <2>2, FS_Bijection
<1>5. Cardinality(i..n) = n + 1 - i
  <2>1. i \in Int /\ n \in Int /\ i <= n + 1
    BY <1>1 DEF n
  <2>2. Cardinality(i..n) = IF i > n THEN 0 ELSE n - i + 1
    BY <2>1, FS_Interval
  <2> QED BY <2>1, <2>2
<1>6. ASSUME i <= n
      PROVE  /\ CtxPast(cs, i) = {CtxOf(cs[i])} \cup CtxPast(cs, i + 1)
             /\ CtxOf(cs[i]) \notin CtxPast(cs, i + 1)
  <2>1. i \in 1..n /\ i..n = {i} \cup ((i + 1)..n) /\ i \notin (i + 1)..n
    BY <1>1, <1>6
  <2>2. /\ CtxPast(cs, i) = {CtxOf(cs[x]) : x \in i..n}
        /\ CtxPast(cs, i + 1) = {CtxOf(cs[x]) : x \in (i + 1)..n}
    BY DEF CtxPast, n
  <2>3. \A x \in (i + 1)..n : x \in 1..n
    BY <2>1
  <2> QED BY <1>1, <2>1, <2>2, <2>3
<1>7. i > n => CtxPast(cs, i) = {}
  BY <1>1 DEF CtxPast, n
<1> QED BY <1>4, <1>5, <1>6, <1>7 DEF n

LEMMA BeforeThose ==
    ASSUME NEW cs \in SortedCtxs, NEW ds \in SortedCtxs, NEW i \in 1..Len(cs), NEW j \in 1..Len(ds),
           Compare(cs[i], ds[j]) < 0
    PROVE  CtxOf(cs[i]) \notin CtxPast(ds, j)
<1>1. ASSUME NEW x \in j..Len(ds) PROVE CtxOf(cs[i]) # CtxOf(ds[x])
  <2>1. x \in 1..Len(ds) /\ Len(ds) \in Nat
    BY SortedCtxsAre
  <2>2. HasKey(cs[i]) /\ HasKey(ds[j]) /\ HasKey(ds[x])
    BY <2>1, SortedCtxsAre
  <2>3. Compare(cs[i], ds[x]) < 0
    <3>1. CASE x = j
      BY <3>1
    <3>2. CASE x # j
      <4>1. Compare(ds[j], ds[x]) < 0
        BY <2>1, <3>2, SortedCtxsAre
      <4> QED BY <2>2, <4>1, CompareTransitive
    <3> QED BY <3>1, <3>2
  <2>4. ~Same(cs[i], ds[x])
    BY <2>2, <2>3, CompareIs
  <2> QED BY <2>4, SameCtx
<1> QED BY <1>1 DEF CtxPast

\* What differs in context c, which is in a, in b or in both.
InBoth(f, g, c) == {<<c, k>> : k \in Unlike(DOMAIN f[c], DOMAIN g[c], f[c], g[c])}
Alone(f, c) == IF DOMAIN f[c] = {} THEN {} ELSE {<<c, 0>>}
Piece(a, b, f, g, c) ==
    IF c \in a /\ c \in b THEN InBoth(f, g, c) ELSE IF c \in a THEN Alone(f, c) ELSE Alone(g, c)
Pieces(a, b, f, g) == UNION {Piece(a, b, f, g, c) : c \in a \cup b}

\* Contexts d and e are a and b with c in one of them or in both.
Joins(c, a, b, d, e) ==
    /\ c \notin a /\ c \notin b /\ c \in d \cup e
    /\ d = a \/ d = {c} \cup a
    /\ e = b \/ e = {c} \cup b

LEMMA PiecesMore ==
    ASSUME NEW a, NEW b, NEW f, NEW g, NEW c, NEW d, NEW e, Joins(c, a, b, d, e)
    PROVE  /\ Pieces(d, e, f, g) = Piece(d, e, f, g, c) \cup Pieces(a, b, f, g)
           /\ Piece(d, e, f, g, c) \cap Pieces(a, b, f, g) = {}
<1>1. /\ c \in d \cup e /\ d \cup e = {c} \cup (a \cup b)
      /\ \A x \in a \cup b : x # c /\ (x \in d <=> x \in a) /\ (x \in e <=> x \in b)
  BY DEF Joins
<1>2. ASSUME NEW x \in a \cup b PROVE Piece(d, e, f, g, x) = Piece(a, b, f, g, x)
  BY <1>1 DEF Piece
<1>3. \A x, y : y \in Piece(d, e, f, g, x) => y[1] = x
  BY DEF Piece, InBoth, Alone
<1> DEFINE P(x) == Piece(d, e, f, g, x)
           Q(x) == Piece(a, b, f, g, x)
<1> HIDE DEF P, Q
<1>4. UNION {P(x) : x \in d \cup e} = P(c) \cup UNION {P(x) : x \in a \cup b}
  BY <1>1
<1>5. {P(x) : x \in a \cup b} = {Q(x) : x \in a \cup b}
  BY <1>2 DEF P, Q
<1>6. P(c) \cap UNION {P(x) : x \in a \cup b} = {}
  BY <1>1, <1>3 DEF P
<1>7. Pieces(d, e, f, g) = UNION {P(x) : x \in d \cup e}
  BY DEF Pieces, P
<1>8. Pieces(a, b, f, g) = UNION {Q(x) : x \in a \cup b}
  BY DEF Pieces, Q
<1>9. Piece(d, e, f, g, c) = P(c)
  BY DEF P
<1> QED BY <1>4, <1>5, <1>6, <1>7, <1>8, <1>9

LEMMA PairsCount ==
    ASSUME NEW c, NEW s, IsFiniteSet(s)
    PROVE  IsFiniteSet({<<c, k>> : k \in s}) /\ Cardinality({<<c, k>> : k \in s}) = Cardinality(s)
<1> DEFINE f == [k \in s |-> <<c, k>>]
           t == {<<c, k>> : k \in s}
<1>1. \A x, y \in s : f[x] = f[y] => x = y
  OBVIOUS
<1>2. f \in [s -> t] /\ \A y \in t : \E x \in s : f[x] = y
  OBVIOUS
<1> HIDE DEF f, t
<1>3. f \in Bijection(s, t)
  BY <1>1, <1>2 DEF Bijection, Injection, Surjection, IsInjective
<1>4. ExistsBijection(s, t)
  BY <1>3 DEF ExistsBijection
<1>5. IsFiniteSet(t) /\ Cardinality(t) = Cardinality(s)
  BY <1>4, FS_Bijection
<1> QED BY <1>5 DEF t

LEMMA AloneCount ==
    ASSUME NEW a, IsFiniteSet(a), NEW f, NEW exact \in BOOLEAN,
           exact => \A c \in a : DOMAIN f[c] # {}
    PROVE  Counts(UNION {Alone(f, c) : c \in a}, Cardinality(a), exact)
<1> DEFINE b == {c \in a : DOMAIN f[c] # {}}
           g == [c \in b |-> <<c, 0>>]
           t == UNION {Alone(f, c) : c \in a}
<1>1. t = {<<c, 0>> : c \in b}
  BY DEF Alone
<1> HIDE DEF t
<1>2. IsFiniteSet(b) /\ Cardinality(b) <= Cardinality(a) /\ Cardinality(b) \in Nat
  BY FS_Subset, FS_CardinalityType
<1>3. exact => b = a
  OBVIOUS
<1> HIDE DEF b
<1>4. g \in [b -> t] /\ (\A y \in t : \E x \in b : g[x] = y) /\ \A x, y \in b : g[x] = g[y] => x = y
  BY <1>1
<1> HIDE DEF g
<1>5. g \in Bijection(b, t)
  BY <1>4 DEF Bijection, Injection, Surjection, IsInjective
<1>6. ExistsBijection(b, t)
  BY <1>5 DEF ExistsBijection
<1>7. IsFiniteSet(t) /\ Cardinality(t) = Cardinality(b)
  BY <1>2, <1>6, FS_Bijection
<1> QED BY <1>2, <1>3, <1>7 DEF Counts, t

LEMMA MapsOfContexts ==
    ASSUME NEW m \in Msg, NEW i \in 1..Len(m.data)
    PROVE  /\ m.data[i].values \in SortedVars
           /\ AsMap(m)[CtxOf(m.data[i])] = Map(m.data[i].values)
           /\ DOMAIN AsMap(m)[CtxOf(m.data[i])] = {} <=> m.data[i].values = <<>>
<1>1. m.data \in SortedCtxs
  BY MsgIs
<1>2. m.data[i] \in ToSet(m.data) /\ m.data[i].values \in SortedVars
  BY <1>1, SortedCtxsAre
<1>3. AsMap(m)[CtxOf(m.data[i])] = Map(m.data[i].values)
  BY <1>2, AsMapIs
<1>4. ASSUME NEW vals \in SortedVars PROVE DOMAIN Map(vals) = {} <=> vals = <<>>
  <2>1. vals \in Seq(Variable) /\ DOMAIN vals = 1..Len(vals)
    BY SortedVarsAre
  <2>2. DOMAIN Map(vals) = {vals[x].code : x \in 1..Len(vals)}
    BY <2>1 DEF Map, Codes
  <2>3. 1..Len(vals) = {} <=> vals = <<>>
    BY <2>1
  <2> QED BY <2>2, <2>3
<1> QED BY <1>2, <1>3, <1>4

PiecesPast(m, n, p) ==
    Pieces(CtxPast(m.data, p[1]), CtxPast(n.data, p[2]), AsMap(m), AsMap(n))

LEMMA EndCounts ==
    ASSUME NEW m \in Msg, NEW i \in 1..Len(m.data) + 1, NEW exact \in BOOLEAN,
           exact => NoneEmpty(m.data)
    PROVE  Counts(UNION {Alone(AsMap(m), c) : c \in CtxPast(m.data, i)}, Len(m.data) + 1 - i, exact)
<1> DEFINE cs == m.data
           a == CtxPast(cs, i)
           f == AsMap(m)
<1>1. cs \in SortedCtxs /\ Len(cs) \in Nat /\ DOMAIN cs = 1..Len(cs)
  BY MsgIs, SortedCtxsAre
<1>2. IsFiniteSet(a) /\ Cardinality(a) = Len(cs) + 1 - i
  BY <1>1, CtxPastIs
<1>3. ASSUME exact, NEW c \in a PROVE DOMAIN f[c] # {}
  <2>1. PICK x \in i..Len(cs) : c = CtxOf(cs[x])
    BY DEF CtxPast
  <2>2. x \in 1..Len(cs) /\ cs[x].values # <<>>
    BY <1>1, <1>3, <2>1 DEF NoneEmpty
  <2> QED BY <2>1, <2>2, MapsOfContexts
<1> HIDE DEF a, f, cs
<1>4. Counts(UNION {Alone(f, c) : c \in a}, Cardinality(a), exact)
  BY <1>2, <1>3, AloneCount
<1> QED BY <1>2, <1>4 DEF a, f, cs

LEMMA PiecesGain ==
    ASSUME NEW m \in Msg, NEW n \in Msg, NEW w, w = CtxWay(m.data, n.data), Way(w),
           NEW p \in Places(w), ~Ended(w, p)
    PROVE  GainsFrom(w, p, PiecesPast(m, n, p), PiecesPast(m, n, Onward(w, p)))
<1> DEFINE cs == m.data
           ds == n.data
           i == p[1]
           j == p[2]
           c == CtxOf(cs[i])
           d == CtxOf(ds[j])
           F == AsMap(m)
           G == AsMap(n)
           a == CtxPast(cs, i)
           aa == CtxPast(cs, i + 1)
           b == CtxPast(ds, j)
           bb == CtxPast(ds, j + 1)
           q == Onward(w, p)
           y == PiecesPast(m, n, p)
           z == PiecesPast(m, n, q)
           Gain(g) == y = g \cup z /\ g \cap z = {} /\ IsFiniteSet(g) /\ Cardinality(g) = Amount(w, p)
<1> SUFFICES \E g : Gain(g)
  BY DEF GainsFrom
<1>1. cs \in SortedCtxs /\ ds \in SortedCtxs
  BY MsgIs
<1>2. i \in 1..Len(cs) /\ j \in 1..Len(ds) /\ p = <<i, j>> /\ q \in Places(w)
  <2>1. w.l = Len(cs) /\ w.m = Len(ds)
    BY <1>1, CtxWayIs
  <2>2. i \in 1..w.l /\ j \in 1..w.m /\ q \in Places(w)
    BY OnwardIs
  <2>3. p = <<i, j>>
    BY RestIs
  <2> QED BY <2>1, <2>2, <2>3
<1>3. /\ w.cmp[p] = Compare(cs[i], ds[j]) /\ w.both[p] = DiffVars(cs[i].values, ds[j].values)
      /\ w.left[i] = Count(cs[i].values # <<>>) /\ w.right[j] = Count(ds[j].values # <<>>)
  BY <1>1, <1>2, CtxWayIs
<1>4. /\ HasKey(cs[i]) /\ HasKey(ds[j])
      /\ cs[i].values \in SortedVars /\ ds[j].values \in SortedVars
      /\ F[c] = Map(cs[i].values) /\ G[d] = Map(ds[j].values)
      /\ DOMAIN F[c] = {} <=> cs[i].values = <<>>
      /\ DOMAIN G[d] = {} <=> ds[j].values = <<>>
  BY <1>1, <1>2, SortedCtxsAre, MapsOfContexts
<1>5. /\ a = {c} \cup aa /\ c \notin aa
      /\ b = {d} \cup bb /\ d \notin bb
  <2>1. i \in 1..Len(cs) + 1 /\ i <= Len(cs) /\ j \in 1..Len(ds) + 1 /\ j <= Len(ds)
    BY <1>1, <1>2, SortedCtxsAre
  <2> HIDE DEF i, j, cs, ds
  <2> QED BY <1>1, <2>1, CtxPastIs
<1>6. y = Pieces(a, b, F, G)
  BY DEF PiecesPast
<1>7. z = Pieces(CtxPast(cs, q[1]), CtxPast(ds, q[2]), F, G)
  BY DEF PiecesPast
<1> HIDE DEF y, z
<1>8. \A h \in {F, G} : \A x : IsFiniteSet(Alone(h, x)) /\ Cardinality(Alone(h, x)) = Count(DOMAIN h[x] # {})
  BY FS_EmptySet, FS_Singleton DEF Alone, Count
<1>9. CASE w.cmp[p] = 0
  <2>1. q = <<i + 1, j + 1>> /\ Amount(w, p) = DiffVars(cs[i].values, ds[j].values)
    BY <1>3, <1>9 DEF Onward, Amount
  <2>2. c = d
    BY <1>3, <1>4, <1>9, CompareIs, SameCtx
  <2>3. z = Pieces(aa, bb, F, G)
    BY <1>7, <2>1
  <2> DEFINE u == Unlike(DOMAIN F[c], DOMAIN G[c], F[c], G[c])
             g == {<<c, k>> : k \in u}
  <2>4. IsFiniteSet(u) /\ Cardinality(u) = DiffVars(cs[i].values, ds[j].values)
    BY <1>4, <2>2, DiffVarsIs
  <2>5. IsFiniteSet(g) /\ Cardinality(g) = Cardinality(u)
    <3> HIDE DEF u, c
    <3> QED BY <2>4, PairsCount
  <2>6. Piece(a, b, F, G, c) = g
    BY <1>5, <2>2 DEF Piece, InBoth
  <2>7. y = g \cup z /\ g \cap z = {}
    <3> HIDE DEF a, b, aa, bb, c, d, F, G, g, u, q
    <3>1. Joins(c, aa, bb, a, b)
      BY <1>5, <2>2 DEF Joins
    <3>2. /\ Pieces(a, b, F, G) = Piece(a, b, F, G, c) \cup Pieces(aa, bb, F, G)
          /\ Piece(a, b, F, G, c) \cap Pieces(aa, bb, F, G) = {}
      BY <3>1, PiecesMore
    <3> QED BY <1>6, <2>3, <2>6, <3>2
  <2>8. Gain(g)
    <3> HIDE DEF g, q, u
    <3> QED BY <2>1, <2>4, <2>5, <2>7
  <2> QED BY <2>8
<1>10. CASE w.cmp[p] < 0
  <2>1. q = <<i + 1, j>> /\ Amount(w, p) = Count(cs[i].values # <<>>)
    <3>1. w.cmp[p] # 0
      BY <1>3, <1>4, <1>10, CompareIs
    <3> QED BY <1>3, <1>10, <3>1 DEF Onward, Amount
  <2>2. c \notin b
    BY <1>1, <1>2, <1>3, <1>10, BeforeThose
  <2>3. z = Pieces(aa, b, F, G)
    BY <1>7, <2>1
  <2>4. Piece(a, b, F, G, c) = Alone(F, c)
    BY <1>5, <2>2 DEF Piece
  <2>5. y = Alone(F, c) \cup z /\ Alone(F, c) \cap z = {}
    <3> HIDE DEF a, b, aa, c, F, G, q
    <3>1. Joins(c, aa, b, a, b)
      BY <1>5, <2>2 DEF Joins
    <3>2. /\ Pieces(a, b, F, G) = Piece(a, b, F, G, c) \cup Pieces(aa, b, F, G)
          /\ Piece(a, b, F, G, c) \cap Pieces(aa, b, F, G) = {}
      BY <3>1, PiecesMore
    <3> QED BY <1>6, <2>3, <2>4, <3>2
  <2>6. Gain(Alone(F, c))
    <3>1. Count(DOMAIN F[c] # {}) = Amount(w, p)
      BY <1>4, <2>1 DEF Count
    <3> HIDE DEF q, c, F
    <3> QED BY <1>8, <2>5, <3>1
  <2> QED BY <2>6
<1>11. CASE w.cmp[p] > 0
  <2>1. q = <<i, j + 1>> /\ Amount(w, p) = Count(ds[j].values # <<>>)
    <3>1. w.cmp[p] # 0 /\ ~(w.cmp[p] < 0)
      BY <1>3, <1>4, <1>11, CompareIs
    <3> QED BY <1>3, <3>1 DEF Onward, Amount
  <2>2. d \notin a
    <3>1. Compare(ds[j], cs[i]) < 0
      BY <1>3, <1>4, <1>11, CompareIs
    <3> QED BY <1>1, <1>2, <3>1, BeforeThose
  <2>3. z = Pieces(a, bb, F, G)
    BY <1>7, <2>1
  <2>4. Piece(a, b, F, G, d) = Alone(G, d)
    BY <2>2 DEF Piece
  <2>5. y = Alone(G, d) \cup z /\ Alone(G, d) \cap z = {}
    <3> HIDE DEF a, b, bb, d, F, G, q
    <3>1. Joins(d, a, bb, a, b)
      BY <1>5, <2>2 DEF Joins
    <3>2. /\ Pieces(a, b, F, G) = Piece(a, b, F, G, d) \cup Pieces(a, bb, F, G)
          /\ Piece(a, b, F, G, d) \cap Pieces(a, bb, F, G) = {}
      BY <3>1, PiecesMore
    <3> QED BY <1>6, <2>3, <2>4, <3>2
  <2>6. Gain(Alone(G, d))
    <3>1. Count(DOMAIN G[d] # {}) = Amount(w, p)
      BY <1>4, <2>1 DEF Count
    <3> HIDE DEF q, d, G
    <3> QED BY <1>8, <2>5, <3>1
  <2> QED BY <2>6
<1> QED BY <1>3, <1>4, <1>9, <1>10, <1>11, CompareIs

LEMMA PiecesGrow ==
    ASSUME NEW m \in Msg, NEW n \in Msg, NEW exact \in BOOLEAN,
           exact => NoneEmpty(m.data) /\ NoneEmpty(n.data)
    PROVE  LET w == CtxWay(m.data, n.data)
           IN  Grows(w, [p \in Places(w) |-> PiecesPast(m, n, p)], exact)
<1> DEFINE cs == m.data
           ds == n.data
           w == CtxWay(cs, ds)
           x == [p \in Places(w) |-> PiecesPast(m, n, p)]
<1>1. cs \in SortedCtxs /\ ds \in SortedCtxs
  BY MsgIs
<1>2. Way(w) /\ w.l = Len(cs) /\ w.m = Len(ds) /\ Len(cs) \in Nat /\ Len(ds) \in Nat
  BY <1>1, CtxWayIs
<1> HIDE DEF w
<1>3. ASSUME NEW p \in Places(w), Ended(w, p) PROVE Counts(x[p], Rest(w, p), exact)
  <2> DEFINE a == CtxPast(cs, p[1])
             b == CtxPast(ds, p[2])
  <2>1. p[1] \in 1..Len(cs) + 1 /\ p[2] \in 1..Len(ds) + 1
    BY <1>2, RestIs
  <2>2. x[p] = Pieces(a, b, AsMap(m), AsMap(n))
    BY DEF PiecesPast
  <2>3. /\ p[1] > Len(cs) => a = {}
        /\ p[2] > Len(ds) => b = {}
    BY <1>1, <2>1, CtxPastIs
  <2> HIDE DEF x
  <2>4. CASE p[1] > Len(cs)
    <3>1. x[p] = UNION {Alone(AsMap(n), c) : c \in b}
      <4> HIDE DEF a, b
      <4> QED BY <2>2, <2>3, <2>4 DEF Pieces, Piece
    <3>2. p[1] = Len(cs) + 1 /\ Rest(w, p) = (Len(cs) + 1 - p[1]) + (Len(ds) + 1 - p[2])
      BY <1>2, <2>1, <2>4 DEF Rest
    <3>3. Rest(w, p) = Len(ds) + 1 - p[2]
      BY <1>2, <2>1, <3>2
    <3> QED BY <2>1, <3>1, <3>3, EndCounts
  <2>5. CASE p[2] > Len(ds)
    <3>1. x[p] = UNION {Alone(AsMap(m), c) : c \in a}
      <4> HIDE DEF a, b
      <4> QED BY <2>2, <2>3, <2>5 DEF Pieces, Piece
    <3>2. p[2] = Len(ds) + 1 /\ Rest(w, p) = (Len(cs) + 1 - p[1]) + (Len(ds) + 1 - p[2])
      BY <1>2, <2>1, <2>5 DEF Rest
    <3>3. Rest(w, p) = Len(cs) + 1 - p[1]
      BY <1>2, <2>1, <3>2
    <3> QED BY <2>1, <3>1, <3>3, EndCounts
  <2> QED BY <1>2, <1>3, <2>4, <2>5 DEF Ended
<1>4. ASSUME NEW p \in Places(w), ~Ended(w, p) PROVE Gains(w, x, p)
  <2>1. Onward(w, p) \in Places(w)
    BY <1>2, <1>4, OnwardIs
  <2>2. x[p] = PiecesPast(m, n, p) /\ x[Onward(w, p)] = PiecesPast(m, n, Onward(w, p))
    BY <2>1
  <2>3. GainsFrom(w, p, PiecesPast(m, n, p), PiecesPast(m, n, Onward(w, p)))
    <3>1. w = CtxWay(m.data, n.data)
      BY DEF w
    <3> QED BY <1>2, <1>4, <3>1, PiecesGain
  <2> HIDE DEF x
  <2> QED BY <2>2, <2>3 DEF Gains
<1>5. Grows(w, x, exact)
  <2> HIDE DEF x
  <2> QED BY <1>3, <1>4 DEF Grows
<1> QED BY <1>5 DEF w

LEMMA DifferencesAre ==
    ASSUME NEW m \in Msg, NEW n \in Msg
    PROVE  Differences(m, n) = Pieces(Contexts(m), Contexts(n), AsMap(m), AsMap(n))
<1> DEFINE a == Contexts(m)
           b == Contexts(n)
           f == AsMap(m)
           g == AsMap(n)
<1> HIDE DEF a, b, f, g
<1>1. Keys(m) = UNION {{<<c, k>> : k \in DOMAIN f[c]} : c \in a}
  BY DEF Keys, a, f
<1>2. Keys(n) = UNION {{<<c, k>> : k \in DOMAIN g[c]} : c \in b}
  BY DEF Keys, b, g
<1> DEFINE K == Keys(m)
           L == Keys(n)
           s == {x \in K \cup L : /\ x[1] \in a \cap b
                                  /\ ~(x \in K /\ x \in L /\ f[x[1]][x[2]] = g[x[1]][x[2]])}
           t == {<<x[1], 0>> : x \in {y \in K \cup L : y[1] \notin a \cap b}}
           P == Pieces(a, b, f, g)
<1>3. Differences(m, n) = s \cup t
  BY DEF Differences, a, b, f, g
<1> HIDE DEF K, L
<1>4. ASSUME NEW c, NEW k
      PROVE  /\ <<c, k>> \in K <=> c \in a /\ k \in DOMAIN f[c]
             /\ <<c, k>> \in L <=> c \in b /\ k \in DOMAIN g[c]
  BY <1>1, <1>2 DEF K, L
<1>5. \A x \in K \cup L : \E c, k : x = <<c, k>>
  BY <1>1, <1>2 DEF K, L
<1>6. ASSUME NEW x \in s PROVE x \in P
  <2>1. PICK c, k : x = <<c, k>>
    BY <1>5
  <2>2. /\ c \in a /\ c \in b /\ <<c, k>> \in K \cup L
        /\ ~(<<c, k>> \in K /\ <<c, k>> \in L /\ f[c][k] = g[c][k])
    BY <2>1
  <2>3. k \in Unlike(DOMAIN f[c], DOMAIN g[c], f[c], g[c])
    BY <1>4, <2>2 DEF Unlike
  <2>4. x \in Piece(a, b, f, g, c)
    BY <2>1, <2>2, <2>3 DEF Piece, InBoth
  <2> QED BY <2>2, <2>4 DEF Pieces
<1>7. ASSUME NEW x \in t PROVE x \in P
  <2>1. PICK y \in K \cup L : y[1] \notin a \cap b /\ x = <<y[1], 0>>
    OBVIOUS
  <2>2. PICK c, k : y = <<c, k>>
    BY <1>5
  <2>3. c \notin a \cap b /\ x = <<c, 0>> /\ <<c, k>> \in K \cup L
    BY <2>1, <2>2
  <2>4. \/ c \in a /\ c \notin b /\ k \in DOMAIN f[c]
        \/ c \in b /\ c \notin a /\ k \in DOMAIN g[c]
    BY <1>4, <2>3
  <2>5. x \in Piece(a, b, f, g, c)
    BY <2>3, <2>4 DEF Piece, Alone
  <2> QED BY <2>4, <2>5 DEF Pieces
<1>8. ASSUME NEW x \in P PROVE x \in s \cup t
  <2>1. PICK c \in a \cup b : x \in Piece(a, b, f, g, c)
    BY DEF Pieces
  <2>2. CASE c \in a /\ c \in b
    <3>1. PICK k \in Unlike(DOMAIN f[c], DOMAIN g[c], f[c], g[c]) : x = <<c, k>>
      BY <2>1, <2>2 DEF Piece, InBoth
    <3>2. <<c, k>> \in K \cup L /\ ~(<<c, k>> \in K /\ <<c, k>> \in L /\ f[c][k] = g[c][k])
      BY <1>4, <2>2, <3>1 DEF Unlike
    <3> QED BY <2>2, <3>1, <3>2
  <2>3. CASE c \in a /\ c \notin b
    <3>1. x = <<c, 0>> /\ DOMAIN f[c] # {}
      BY <2>1, <2>3 DEF Piece, Alone
    <3>2. PICK k : k \in DOMAIN f[c]
      BY <3>1
    <3>3. <<c, k>> \in K \cup L /\ <<c, k>>[1] \notin a \cap b
      BY <1>4, <2>3, <3>2
    <3> QED BY <3>1, <3>3
  <2>4. CASE c \in b /\ c \notin a
    <3>1. x = <<c, 0>> /\ DOMAIN g[c] # {}
      BY <2>1, <2>4 DEF Piece, Alone
    <3>2. PICK k : k \in DOMAIN g[c]
      BY <3>1
    <3>3. <<c, k>> \in K \cup L /\ <<c, k>>[1] \notin a \cap b
      BY <1>4, <2>4, <3>2
    <3> QED BY <3>1, <3>3
  <2> QED BY <2>2, <2>3, <2>4
<1>9. s \cup t = P
  <2> HIDE DEF s, t, P
  <2> QED BY <1>6, <1>7, <1>8
<1> QED BY <1>3, <1>9 DEF a, b, f, g

\* What is counted of two messages is at least what differs, and no more if no
\* context is empty.
LEMMA DiffDataIs ==
    ASSUME NEW m \in Msg, NEW n \in Msg
    PROVE  /\ DiffData(m.data, n.data) >= Cardinality(Differences(m, n))
           /\ NoneEmpty(m.data) /\ NoneEmpty(n.data) =>
                 DiffData(m.data, n.data) = Cardinality(Differences(m, n))
<1> DEFINE w == CtxWay(m.data, n.data)
           x == [p \in Places(w) |-> PiecesPast(m, n, p)]
           exact == NoneEmpty(m.data) /\ NoneEmpty(n.data)
<1>1. m.data \in SortedCtxs /\ n.data \in SortedCtxs
  BY MsgIs
<1>2. PICK f : Walked(w, f) /\ DiffData(m.data, n.data) = f[<<1, 1>>]
  BY <1>1, DiffDataWalks
<1>3. Way(w) /\ <<1, 1>> \in Places(w)
  BY <1>1, CtxWayIs, FirstPlace
<1>4. exact \in BOOLEAN
  BY DEF NoneEmpty
<1>5. Grows(w, x, exact)
  BY <1>4, PiecesGrow
<1>6. x[<<1, 1>>] = Pieces(CtxPast(m.data, 1), CtxPast(n.data, 1), AsMap(m), AsMap(n))
  BY <1>3 DEF PiecesPast
<1>7. CtxPast(m.data, 1) = Contexts(m) /\ CtxPast(n.data, 1) = Contexts(n)
  BY <1>1, SortedCtxsAre DEF CtxPast, Contexts
<1>8. x[<<1, 1>>] = Differences(m, n)
  BY <1>6, <1>7, DifferencesAre
<1> HIDE DEF w, x, exact
<1>9. Counts(x[<<1, 1>>], f[<<1, 1>>], exact)
  BY <1>2, <1>3, <1>4, <1>5, WalkCounts
<1>10. /\ DiffData(m.data, n.data) >= Cardinality(Differences(m, n))
       /\ exact => DiffData(m.data, n.data) = Cardinality(Differences(m, n))
  <2>1. f[<<1, 1>>] \in Nat
    BY <1>2, <1>3 DEF Walked
  <2> QED BY <1>2, <1>8, <1>9, <2>1 DEF Counts
<1> QED BY <1>10 DEF exact

\* Messages are compared alike from either side, and every difference of what they
\* have measured is counted, whatever was done to them: the walk along two sorted
\* arrays leaves nothing out and counts nothing twice.
THEOREM DiffsAreCounted == Spec => []DiffCountsMeasured
<1>1. MessagesSorted => DiffCountsMeasured
  <2> SUFFICES ASSUME MessagesSorted, NEW i \in DOMAIN msgs, NEW j \in DOMAIN msgs
               PROVE  LET d == DiffData(msgs[i].data, msgs[j].data)
                          expected == Cardinality(Differences(msgs[i], msgs[j]))
                      IN  /\ Diff(msgs[i], msgs[j]) = Diff(msgs[j], msgs[i])
                          /\ Diff(msgs[i], msgs[j]) >= d /\ d >= expected
                          /\ (\A k \in {i, j} : NoneEmpty(msgs[k].data)) => d = expected
    BY DEF DiffCountsMeasured
  <2> DEFINE m == msgs[i]
             n == msgs[j]
  <2>1. m \in Msg /\ n \in Msg
    BY MessageAt
  <2> HIDE DEF m, n
  <2>2. /\ m.station \in SortedVars /\ n.station \in SortedVars
        /\ m.data \in SortedCtxs /\ n.data \in SortedCtxs
    BY <2>1, MsgIs
  <2>3. /\ DiffStation(m.station, n.station) \in Nat
        /\ DiffStation(m.station, n.station) = DiffStation(n.station, m.station)
        /\ DiffData(m.data, n.data) \in Nat
        /\ DiffData(m.data, n.data) = DiffData(n.data, m.data)
    BY <2>2, DiffVarsIsSymmetric, DiffDataIsSymmetric
  <2>4. Count(m.type # n.type) \in Nat /\ Count(m.type # n.type) = Count(n.type # m.type)
    BY DEF Count
  <2>5. Diff(m, n) = Diff(n, m) /\ Diff(m, n) >= DiffData(m.data, n.data)
    BY <2>3, <2>4 DEF Diff
  <2>6. /\ DiffData(m.data, n.data) >= Cardinality(Differences(m, n))
        /\ NoneEmpty(m.data) /\ NoneEmpty(n.data) =>
              DiffData(m.data, n.data) = Cardinality(Differences(m, n))
    BY <2>1, DiffDataIs
  <2>7. (\A k \in {i, j} : NoneEmpty(msgs[k].data)) => NoneEmpty(m.data) /\ NoneEmpty(n.data)
    BY DEF m, n
  <2> QED BY <2>5, <2>6, <2>7 DEF m, n
<1> QED BY <1>1, MessagesStaySorted, PTL

----------------------------------------------------------------------------
(* What a message holds *)

\* Each value of a message with the context that it is in.
Holding(m) == {<<StationCtx, w>> : w \in ToSet(m.station)} \cup Content(m.data)

LEMMA HoldingIs ==
    ASSUME NEW m \in Msg
    PROVE  /\ \A y \in Holding(m) : y = <<y[1], y[2]>> /\ y[1] \in Key /\ y[2] \in Variable
           /\ \A y, z \in Holding(m) : y[1] = z[1] /\ y[2].code = z[2].code => y = z
           /\ \A w : <<StationCtx, w>> \in Holding(m) <=> w \in ToSet(m.station)
           /\ \A y \in Content(m.data) : y[1] # StationCtx
<1>1. /\ m.station \in SortedVars
      /\ \A e \in ToSet(m.data) :
            CtxOf(e) # StationCtx /\ e.values \in SortedVars /\ HasKey(e)
      /\ \A e, d \in ToSet(m.data) : CtxOf(e) = CtxOf(d) => e = d
  BY MsgIs
<1>2. \A vals \in SortedVars :
         /\ \A w \in ToSet(vals) : w \in Variable
         /\ \A v, w \in ToSet(vals) : v.code = w.code => v = w
  BY VarOnce
<1>3. ASSUME NEW y \in Content(m.data)
      PROVE  \E e \in ToSet(m.data) : y = <<CtxOf(e), y[2]>> /\ y[2] \in ToSet(e.values)
  BY DEF Content
<1>4. \A e \in ToSet(m.data) : CtxOf(e) \in Key
  BY <1>1 DEF CtxOf, Key, HasKey
<1>5. \A y \in Content(m.data) : /\ y = <<y[1], y[2]>> /\ y[1] \in Key /\ y[2] \in Variable
                                 /\ y[1] # StationCtx
  BY <1>1, <1>2, <1>3, <1>4
<1>6. ASSUME NEW y \in Content(m.data), NEW z \in Content(m.data),
             y[1] = z[1], y[2].code = z[2].code
      PROVE  y = z
  <2>1. PICK e \in ToSet(m.data) : y = <<CtxOf(e), y[2]>> /\ y[2] \in ToSet(e.values)
    BY <1>3
  <2>2. PICK d \in ToSet(m.data) : z = <<CtxOf(d), z[2]>> /\ z[2] \in ToSet(d.values)
    BY <1>3
  <2>3. e = d
    BY <1>1, <1>6, <2>1, <2>2
  <2>4. y[2] = z[2]
    BY <1>1, <1>2, <1>6, <2>1, <2>2, <2>3
  <2> QED BY <1>6, <2>1, <2>2, <2>4
<1>7. \A w : <<StationCtx, w>> \in Holding(m) <=> w \in ToSet(m.station)
  BY <1>5 DEF Holding
<1>8. ASSUME NEW y \in Holding(m)
      PROVE  \/ y \in Content(m.data)
             \/ y = <<StationCtx, y[2]>> /\ y[2] \in ToSet(m.station) /\ y[1] = StationCtx
  BY DEF Holding
<1>9. \A y \in Holding(m) : y = <<y[1], y[2]>> /\ y[1] \in Key /\ y[2] \in Variable
  BY <1>1, <1>2, <1>5, <1>8, StationIsKey
<1>10. ASSUME NEW y \in Holding(m), NEW z \in Holding(m), y[1] = z[1], y[2].code = z[2].code
       PROVE  y = z
  BY <1>1, <1>2, <1>5, <1>6, <1>8, <1>10
<1> QED BY <1>5, <1>7, <1>9, <1>10

\* Setting a variable replaces the one of its code, and leaves no context empty.
LEMMA SetInHolds ==
    ASSUME NEW m \in Msg, NEW c \in Key, NEW v \in Variable, NoneEmpty(m.data)
    PROVE  /\ SetIn(m, c, v) \in Msg /\ SetIn(m, c, v).type = m.type
           /\ NoneEmpty(SetIn(m, c, v).data)
           /\ Holding(SetIn(m, c, v)) =
                 {y \in Holding(m) : ~(y[1] = c /\ y[2].code = v.code)} \cup {<<c, v>>}
<1> DEFINE x == SetIn(m, c, v)
<1>1. x \in Msg
  BY SetInIs
<1>2. CASE c = StationCtx
  <2>1. /\ x.data = m.data /\ x.type = m.type
        /\ ToSet(x.station) = {w \in ToSet(m.station) : w.code # v.code} \cup {v}
    BY <1>2, SetInStation
  <2> HIDE DEF x
  <2>2. \A y \in Content(m.data) : y[1] # StationCtx
    BY HoldingIs
  <2> QED BY <1>1, <1>2, <2>1, <2>2 DEF Holding, x
<1>3. CASE c # StationCtx
  <2>1. /\ x.station = m.station /\ x.type = m.type
        /\ Content(x.data) =
              {y \in Content(m.data) : ~(y[1] = c /\ y[2].code = v.code)} \cup {<<c, v>>}
    BY <1>3, SetInData
  <2>2. NoneEmpty(x.data)
    <3> DEFINE all == Obtain(m.data, c)
               p == FindCtx(all, c)
               old == ValuesIn(m.data, c)
               w == SetVar(old, v)
               data == [all EXCEPT ![p].values = w]
    <3>1. HasKey(c) /\ m.data \in SortedCtxs
      BY KeysAre, MsgIs
    <3>2. old \in SortedVars /\ w \in SortedVars /\ v \in ToSet(w)
      BY <3>1, ValuesInAre, SetVarIs
    <3>3. /\ p \in DOMAIN all /\ all[p].values = old
          /\ data \in SortedCtxs
          /\ ToSet(data) = {e \in ToSet(m.data) : ~Same(e, c)} \cup {CtxWith(c, w)}
      <4> HIDE DEF w, old
      <4> QED BY <3>1, <3>2, PutIs DEF old
    <3>4. x = [m EXCEPT !.data = data]
      BY <1>3, <3>3 DEF SetIn, IsStationCtx, WithValues
    <3>5. x.data = data
      BY <3>4 DEF Msg
    <3>6. w # <<>>
      BY <3>2 DEF ToSet
    <3>7. \A e \in ToSet(m.data) : e.values # <<>>
      BY DEF NoneEmpty, ToSet
    <3>8. \A e \in ToSet(data) : e.values # <<>>
      <4> HIDE DEF data, w
      <4> QED BY <3>3, <3>6, <3>7 DEF CtxWith
    <3>9. \A i \in DOMAIN data : data[i] \in ToSet(data)
      <4> HIDE DEF data
      <4> QED BY DEF ToSet
    <3> HIDE DEF data, x
    <3> QED BY <3>5, <3>8, <3>9 DEF NoneEmpty
  <2> HIDE DEF x
  <2> QED BY <1>1, <1>3, <2>1, <2>2 DEF Holding, x
<1> QED BY <1>2, <1>3

\* Two sequences of the same elements in the same strict order are one.
LEMMA OneOrder ==
    ASSUME NEW T, NEW a \in Seq(T), NEW b \in Seq(T), NEW L,
           \A i, j \in 1..Len(a) : i < j => <<a[i], a[j]>> \in L,
           \A i, j \in 1..Len(b) : i < j => <<b[i], b[j]>> \in L,
           \A x, y \in ToSet(a) : ~(<<x, y>> \in L /\ <<y, x>> \in L),
           ToSet(a) = ToSet(b)
    PROVE  a = b
<1> DEFINE n == Len(a)
           m == Len(b)
           AsFar(i) == (i <= n <=> i <= m) /\ (1 <= i /\ i <= n => a[i] = b[i])
           K == {k \in Nat : \A i \in 0..k : AsFar(i)}
<1>1. n \in Nat /\ m \in Nat /\ DOMAIN a = 1..n /\ DOMAIN b = 1..m
  BY LenProperties
<1>2. /\ \A i \in 1..n : a[i] \in ToSet(b) /\ a[i] \in ToSet(a)
      /\ \A i \in 1..m : b[i] \in ToSet(a)
  BY <1>1 DEF ToSet
<1>3. /\ \A i \in 1..n : \E p \in 1..m : a[i] = b[p]
      /\ \A i \in 1..m : \E q \in 1..n : b[i] = a[q]
  BY <1>1, <1>2 DEF ToSet
<1>4. 0 \in K
  BY <1>1
<1>5. ASSUME NEW k \in Nat, k \in K PROVE k + 1 \in K
  <2> DEFINE i == k + 1
  <2>1. i \in Nat /\ i >= 1 /\ \A p \in 1..k : AsFar(p)
    BY <1>5
  <2>2. ASSUME i <= n PROVE \E p \in 1..m : p >= i /\ a[i] = b[p]
    <3>1. PICK p \in 1..m : a[i] = b[p]
      BY <1>3, <2>1, <2>2
    <3>2. ASSUME p < i PROVE FALSE
      <4>1. p \in 1..k /\ p \in 1..n /\ a[p] = b[p]
        BY <1>1, <2>1, <2>2, <3>2
      <4>2. <<a[p], a[i]>> \in L /\ a[p] = a[i]
        BY <1>1, <2>1, <2>2, <3>1, <3>2, <4>1
      <4>3. a[i] \in ToSet(a)
        BY <1>2, <2>1, <2>2
      <4> QED BY <4>2, <4>3
    <3> QED BY <1>1, <2>1, <3>1, <3>2
  <2>3. ASSUME i <= m PROVE \E q \in 1..n : q >= i /\ b[i] = a[q]
    <3>1. PICK q \in 1..n : b[i] = a[q]
      BY <1>3, <2>1, <2>3
    <3>2. ASSUME q < i PROVE FALSE
      <4>1. q \in 1..k /\ q \in 1..m /\ a[q] = b[q]
        BY <1>1, <2>1, <2>3, <3>2
      <4>2. <<b[q], b[i]>> \in L /\ b[q] = b[i]
        BY <1>1, <2>1, <2>3, <3>1, <3>2, <4>1
      <4>3. b[i] \in ToSet(a)
        BY <1>2, <2>1, <2>3
      <4> QED BY <4>2, <4>3
    <3> QED BY <1>1, <2>1, <3>1, <3>2
  <2>4. i <= n <=> i <= m
    BY <1>1, <2>1, <2>2, <2>3
  <2>5. ASSUME i <= n PROVE a[i] = b[i]
    <3>1. PICK p \in 1..m : p >= i /\ a[i] = b[p]
      BY <2>2, <2>5
    <3>2. PICK q \in 1..n : q >= i /\ b[i] = a[q]
      BY <2>3, <2>4, <2>5
    <3>3. i \in 1..n /\ i \in 1..m
      BY <2>1, <2>4, <2>5
    <3>4. CASE p = i
      BY <3>1, <3>4
    <3>5. CASE q = i
      BY <3>2, <3>5
    <3>6. CASE p # i /\ q # i
      <4>1. p > i /\ q > i
        BY <1>1, <2>1, <3>1, <3>2, <3>6
      <4>2. <<b[i], a[i]>> \in L /\ <<a[i], b[i]>> \in L
        BY <3>1, <3>2, <3>3, <4>1
      <4> QED BY <1>2, <3>3, <4>2
    <3> QED BY <3>4, <3>5, <3>6
  <2>6. AsFar(i)
    BY <2>4, <2>5
  <2>7. \A p \in 0..i : p = i \/ p \in 0..k
    BY <2>1
  <2> HIDE DEF AsFar
  <2> QED BY <1>5, <2>1, <2>6, <2>7
<1> HIDE DEF AsFar
<1>6. Nat \subseteq K
  <2> HIDE DEF K
  <2> QED BY <1>4, <1>5, Induct
<1>7. ASSUME NEW i \in Nat PROVE AsFar(i)
  <2>1. i \in K
    <3> HIDE DEF K
    <3> QED BY <1>6
  <2>2. i \in 0..i
    OBVIOUS
  <2> QED BY <2>1, <2>2
<1>8. n = m
  <2>1. n <= n /\ m <= m
    BY <1>1
  <2>2. n <= m /\ m <= n
    <3>1. AsFar(n) /\ AsFar(m)
      BY <1>1, <1>7
    <3> QED BY <2>1, <3>1 DEF AsFar
  <2>3. n \in Nat /\ m \in Nat
    BY <1>1
  <2> HIDE DEF n, m
  <2> QED BY <2>2, <2>3
<1>9. \A i \in 1..n : a[i] = b[i]
  BY <1>1, <1>7 DEF AsFar
<1> QED BY <1>1, <1>8, <1>9, SeqEqual

LEMMA SameVars ==
    ASSUME NEW vs \in SortedVars, NEW ws \in SortedVars, ToSet(vs) = ToSet(ws)
    PROVE  vs = ws
<1> DEFINE L == {x \in Variable \X Variable : x[1].code < x[2].code}
<1>1. /\ vs \in Seq(Variable) /\ ws \in Seq(Variable)
      /\ \A i \in 1..Len(vs) : vs[i] \in Variable
      /\ \A i \in 1..Len(ws) : ws[i] \in Variable
      /\ \A i, j \in 1..Len(vs) : i < j => vs[i].code < vs[j].code
      /\ \A i, j \in 1..Len(ws) : i < j => ws[i].code < ws[j].code
  BY SortedVarsAre
<1>2. /\ \A i, j \in 1..Len(vs) : i < j => <<vs[i], vs[j]>> \in L
      /\ \A i, j \in 1..Len(ws) : i < j => <<ws[i], ws[j]>> \in L
  BY <1>1
<1>3. \A x, y \in ToSet(vs) : x.code \in Int /\ y.code \in Int
  BY VarOnce
<1>4. \A x, y \in ToSet(vs) : ~(<<x, y>> \in L /\ <<y, x>> \in L)
  BY <1>3
<1> HIDE DEF L
<1> QED BY <1>1, <1>2, <1>4, OneOrder

LEMMA SameCtxs ==
    ASSUME NEW cs \in SortedCtxs, NEW ds \in SortedCtxs, ToSet(cs) = ToSet(ds)
    PROVE  cs = ds
<1> DEFINE L == {x \in Context \X Context : Compare(x[1], x[2]) < 0}
<1>1. /\ cs \in Seq(Context) /\ ds \in Seq(Context)
      /\ \A i \in 1..Len(cs) : cs[i] \in Context
      /\ \A i \in 1..Len(ds) : ds[i] \in Context
      /\ \A i, j \in 1..Len(cs) : i < j => Compare(cs[i], cs[j]) < 0
      /\ \A i, j \in 1..Len(ds) : i < j => Compare(ds[i], ds[j]) < 0
  BY SortedCtxsAre
<1>2. /\ \A i, j \in 1..Len(cs) : i < j => <<cs[i], cs[j]>> \in L
      /\ \A i, j \in 1..Len(ds) : i < j => <<ds[i], ds[j]>> \in L
  BY <1>1
<1>3. ASSUME NEW x \in ToSet(cs), NEW y \in ToSet(cs), <<x, y>> \in L, <<y, x>> \in L
      PROVE  FALSE
  <2>1. HasKey(x) /\ HasKey(y)
    BY ElementsAreCtxs
  <2>2. Compare(x, y) < 0 /\ Compare(y, x) < 0
    BY <1>3
  <2>3. Compare(y, x) > 0 /\ Compare(y, x) \in Int
    BY <2>1, <2>2, CompareIs
  <2> QED BY <2>2, <2>3
<1> HIDE DEF L
<1> QED BY <1>1, <1>2, <1>3, OneOrder

\* A message without empty contexts is known by what it holds.
LEMMA HoldingSame ==
    ASSUME NEW m \in Msg, NEW x \in Msg, m.type = x.type,
           NoneEmpty(m.data), NoneEmpty(x.data), Holding(m) = Holding(x)
    PROVE  m = x
<1>1. /\ m.station \in SortedVars /\ m.data \in SortedCtxs
      /\ x.station \in SortedVars /\ x.data \in SortedCtxs
  BY MsgIs
<1>2. m.station = x.station
  <2>1. /\ \A w : <<StationCtx, w>> \in Holding(m) <=> w \in ToSet(m.station)
        /\ \A w : <<StationCtx, w>> \in Holding(x) <=> w \in ToSet(x.station)
    BY HoldingIs
  <2>2. ToSet(m.station) = ToSet(x.station)
    BY <2>1
  <2> QED BY <1>1, <2>2, SameVars
<1>3. ASSUME NEW a \in Msg, NEW b \in Msg, NoneEmpty(a.data), Holding(a) = Holding(b)
      PROVE  ToSet(a.data) \subseteq ToSet(b.data)
  <2> SUFFICES ASSUME NEW e \in ToSet(a.data) PROVE e \in ToSet(b.data)
    OBVIOUS
  <2>1. /\ e.values \in SortedVars /\ CtxOf(e) # StationCtx
        /\ \A o \in ToSet(a.data) : CtxOf(o) = CtxOf(e) => o = e
    BY MsgIs
  <2>2. e.values # <<>>
    BY <1>3 DEF NoneEmpty, ToSet
  <2>3. PICK v : v \in ToSet(e.values)
    <3>1. Len(e.values) \in Nat /\ DOMAIN e.values = 1..Len(e.values) /\ e.values \in Seq(Variable)
      BY <2>1, SortedVarsAre
    <3>2. Len(e.values) # 0
      BY <2>2, <3>1, EmptySeq
    <3>3. 1 \in DOMAIN e.values
      BY <3>1, <3>2
    <3> QED BY <3>3 DEF ToSet
  <2>4. \A y : y[1] # StationCtx => (y \in Content(a.data) <=> y \in Content(b.data))
    BY <1>3 DEF Holding
  <2>5. \A w : <<CtxOf(e), w>> \in Content(a.data) <=> w \in ToSet(e.values)
    BY <2>1 DEF Content
  <2>6. PICK d \in ToSet(b.data) : CtxOf(d) = CtxOf(e)
    <3>1. <<CtxOf(e), v>> \in Content(b.data)
      BY <2>1, <2>3, <2>4, <2>5
    <3> QED BY <3>1 DEF Content
  <2>7. /\ d.values \in SortedVars
        /\ \A o \in ToSet(b.data) : CtxOf(o) = CtxOf(d) => o = d
    BY MsgIs
  <2>8. \A w : <<CtxOf(d), w>> \in Content(b.data) <=> w \in ToSet(d.values)
    BY <2>7 DEF Content
  <2>9. ToSet(e.values) = ToSet(d.values)
    BY <2>1, <2>4, <2>5, <2>6, <2>8
  <2>10. e.values = d.values
    BY <2>1, <2>7, <2>9, SameVars
  <2>11. e \in Context /\ d \in Context
    BY <1>3, MsgIs, ElementsAreCtxs
  <2>12. e = d
    BY <2>6, <2>10, <2>11 DEF Context, CtxOf
  <2> QED BY <2>12
<1>4. m.data = x.data
  <2>1. ToSet(m.data) \subseteq ToSet(x.data) /\ ToSet(x.data) \subseteq ToSet(m.data)
    BY <1>3
  <2> QED BY <1>1, <2>1, SameCtxs
<1> QED BY <1>2, <1>4 DEF Msg

----------------------------------------------------------------------------
(* A message without its empty contexts *)

NotEmpty(cs) == FoldLeft(LAMBDA acc, c : IF c.values = <<>> THEN acc ELSE Append(acc, c), <<>>, cs)

LEMMA NotEmptySteps ==
    ASSUME NEW cs \in SortedCtxs, NEW n, n = Len(cs)
    PROVE  \E h : /\ h[0] = <<>>
                  /\ \A k \in 1..n : h[k] = IF cs[k].values = <<>> THEN h[k - 1]
                                            ELSE Append(h[k - 1], cs[k])
                  /\ NotEmpty(cs) = h[n]
<1> DEFINE Step(a, c) == IF c.values = <<>> THEN a ELSE Append(a, c)
           F == [x \in Seq(Context) \X (1..n) |-> Step(x[1], cs[x[2]])]
           P(f) == f = [s \in SUBSET (1..n) |->
                           IF s = {} THEN <<>>
                           ELSE IF cs[Max(s)].values = <<>> THEN f[s \ {Max(s)}]
                                ELSE Append(f[s \ {Max(s)}], cs[Max(s)])]
           g == CHOOSE f : P(f)
<1>1. n \in Nat /\ DOMAIN cs = 1..n /\ \A i \in 1..n : cs[i] \in Context
  BY SortedCtxsAre
<1>2. \A a \in Seq(Context), i \in 1..n :
          F[<<a, i>>] = Step(a, cs[i]) /\ F[<<a, i>>] \in Seq(Context)
  BY <1>1
<1>3. PICK f : LeftFolded(n, <<>>, F, f) /\ \A s \in SUBSET (1..n) : f[s] \in Seq(Context)
  <2>1. <<>> \in Seq(Context)
    OBVIOUS
  <2> HIDE DEF F
  <2> QED BY <1>1, <1>2, <2>1, FoldLeftExists
<1>4. P(f)
  <2>1. \A s \in SUBSET (1..n) : s # {} => /\ Max(s) \in 1..n
                                           /\ s \ {Max(s)} \in SUBSET (1..n)
    BY <1>1, GreatestPosition
  <2> HIDE DEF F
  <2>2. \A s \in SUBSET (1..n) : s # {} =>
            F[<<f[s \ {Max(s)}], Max(s)>>] = Step(f[s \ {Max(s)}], cs[Max(s)])
    BY <1>2, <1>3, <2>1
  <2> QED BY <1>3, <2>2 DEF LeftFolded
<1>5. P(g)
  <2> HIDE DEF P
  <2> QED BY <1>4
<1>6. NotEmpty(cs) = g[1..n]
  BY <1>1 DEF NotEmpty, FoldLeft, MapThenFoldSet
<1> DEFINE h == [k \in 0..n |-> g[1..k]]
<1> HIDE DEF g
<1>7. h[0] = <<>>
  BY <1>1, <1>5
<1>8. ASSUME NEW k \in 1..n PROVE h[k] = Step(h[k - 1], cs[k])
  <2>1. /\ 1..k \in SUBSET (1..n) /\ 1..k # {}
        /\ Max(1..k) = k
        /\ (1..k) \ {k} = 1..k - 1
    BY <1>1, PrefixIs
  <2>2. g[1..k] = Step(g[1..k - 1], cs[k])
    BY <1>5, <2>1
  <2> QED BY <1>1, <2>2
<1>9. h[n] = g[1..n]
  BY <1>1
<1> HIDE DEF h
<1> QED BY <1>6, <1>7, <1>8, <1>9

\* The first k contexts of cs that are not empty, in their order.
FirstOf(cs, k, t) ==
    /\ t \in SortedCtxs
    /\ ToSet(t) = {cs[i] : i \in {j \in 1..k : cs[j].values # <<>>}}

LEMMA NotEmptyIs ==
    ASSUME NEW cs \in SortedCtxs
    PROVE  FirstOf(cs, Len(cs), NotEmpty(cs))
<1> DEFINE n == Len(cs)
<1>1. /\ n \in Nat
      /\ \A i \in 1..n : cs[i] \in Context
      /\ \A i, j \in 1..n : i < j => Compare(cs[i], cs[j]) < 0
  BY SortedCtxsAre
<1>2. PICK h : /\ h[0] = <<>>
               /\ \A k \in 1..n : h[k] = IF cs[k].values = <<>> THEN h[k - 1]
                                         ELSE Append(h[k - 1], cs[k])
               /\ NotEmpty(cs) = h[n]
  BY NotEmptySteps
<1> DEFINE K == {k \in Nat : k <= n => FirstOf(cs, k, h[k])}
<1>3. 0 \in K
  <2>1. <<>> \in SortedCtxs /\ ToSet(<<>>) = {}
    BY DEF SortedCtxs, ToSet
  <2> QED BY <1>2, <2>1 DEF FirstOf
<1>4. ASSUME NEW k \in Nat, k \in K PROVE k + 1 \in K
  <2> SUFFICES ASSUME k + 1 <= n PROVE FirstOf(cs, k + 1, h[k + 1])
    OBVIOUS
  <2> DEFINE c == cs[k + 1]
             t == h[k]
  <2>1. /\ k + 1 \in 1..n /\ k <= n /\ FirstOf(cs, k, t) /\ c \in Context
        /\ h[k + 1] = IF c.values = <<>> THEN t ELSE Append(t, c)
    BY <1>1, <1>2, <1>4
  <2>2. \A j \in 1..k + 1 : j = k + 1 \/ j \in 1..k
    BY <1>4
  <2>3. \A j \in 1..k : j \in 1..k + 1 /\ j \in 1..n /\ j < k + 1
    BY <1>1, <2>1
  <2> HIDE DEF t
  <2>4. CASE c.values = <<>>
    BY <2>1, <2>2, <2>3, <2>4 DEF FirstOf
  <2>5. CASE c.values # <<>>
    <3> DEFINE u == Append(t, c)
    <3>1. t \in Seq(Context) /\ t \in SortedCtxs /\ Len(t) \in Nat
      BY <2>1, SortedCtxsAre DEF FirstOf
    <3>2. u \in Seq(Context) /\ ToSet(u) = ToSet(t) \cup {c}
      BY <2>1, <3>1, AppendTo
    <3>3. /\ Len(u) = Len(t) + 1 /\ \A i \in 1..Len(t) : u[i] = t[i]
          /\ u[Len(t) + 1] = c
      BY <2>1, <3>1, AppendProperties
    <3>4. \A i \in 1..Len(t) : Compare(t[i], c) < 0
      <4> TAKE i \in 1..Len(t)
      <4>1. t[i] \in ToSet(t)
        BY <3>1, SortedCtxsAre
      <4>2. PICK j \in 1..k : t[i] = cs[j]
        BY <2>1, <4>1 DEF FirstOf
      <4> QED BY <1>1, <2>1, <2>3, <4>2
    <3>5. \A i, j \in 1..Len(t) : i < j => Compare(t[i], t[j]) < 0
      BY <3>1, SortedCtxsAre
    <3>6. \A i, j \in 1..Len(u) : i < j => Compare(u[i], u[j]) < 0
      <4> HIDE DEF u, c
      <4> TAKE i, j \in 1..Len(u)
      <4> HAVE i < j
      <4>1. i \in 1..Len(t) /\ (j \in 1..Len(t) \/ j = Len(t) + 1)
        BY <3>1, <3>3
      <4> QED BY <3>3, <3>4, <3>5, <4>1
    <3>7. u \in SortedCtxs
      <4> HIDE DEF u
      <4> QED BY <3>2, <3>6 DEF SortedCtxs
    <3>8. ToSet(u) = {cs[i] : i \in {j \in 1..k + 1 : cs[j].values # <<>>}}
      <4> HIDE DEF u
      <4> QED BY <2>1, <2>2, <2>3, <2>5, <3>2 DEF FirstOf
    <3> QED BY <2>1, <2>5, <3>7, <3>8 DEF FirstOf
  <2> QED BY <2>4, <2>5
<1>5. Nat \subseteq K
  <2> HIDE DEF K
  <2> QED BY <1>3, <1>4, Induct
<1>6. n \in K
  BY <1>1, <1>5
<1> QED BY <1>1, <1>2, <1>6

LEMMA WithoutEmptyIs ==
    ASSUME NEW m \in Msg
    PROVE  /\ WithoutEmpty(m) \in Msg /\ WithoutEmpty(m).type = m.type
           /\ NoneEmpty(WithoutEmpty(m).data)
           /\ Holding(WithoutEmpty(m)) = Holding(m)
<1> DEFINE x == WithoutEmpty(m)
           cs == NotEmpty(m.data)
<1>1. x = [m EXCEPT !.data = cs]
  BY DEF WithoutEmpty, NotEmpty
<1>2. m.data \in SortedCtxs /\ m.station \in SortedVars /\ m.type \in Types
  BY MsgIs
<1>3. ToSet(m.data) = {m.data[i] : i \in 1..Len(m.data)}
  BY <1>2, SortedCtxsAre
<1>4. FirstOf(m.data, Len(m.data), cs)
  BY <1>2, NotEmptyIs
<1> HIDE DEF cs
<1>5. cs \in SortedCtxs /\ ToSet(cs) = {e \in ToSet(m.data) : e.values # <<>>}
  BY <1>3, <1>4 DEF FirstOf
<1>6. x.data = cs /\ x.station = m.station /\ x.type = m.type
      /\ x \in [type : Types, station : SortedVars, data : SortedCtxs]
  BY <1>1, <1>2, <1>5 DEF Msg
<1> HIDE DEF x
<1>7. x \in Msg
  BY <1>5, <1>6, MsgIs DEF Msg
<1>8. NoneEmpty(x.data)
  <2>1. \A i \in DOMAIN cs : cs[i] \in ToSet(cs)
    BY DEF ToSet
  <2> QED BY <1>5, <1>6, <2>1 DEF NoneEmpty
<1>9. Content(cs) = Content(m.data)
  <2>1. \A e \in ToSet(m.data) : e.values = <<>> => ToSet(e.values) = {}
    BY DEF ToSet
  <2> QED BY <1>5, <2>1 DEF Content
<1> QED BY <1>6, <1>7, <1>8, <1>9 DEF x, Holding

----------------------------------------------------------------------------
(* Lines *)

CsvLine ==
    [place : Values, rep : Values, when : Values \cup {NoDatetime}, ctx : Key,
     code : Int, val : Values, isattr : BOOLEAN]

\* The context of the lines of c.
LineCtx(c) == IF c.level = NoLevel THEN StationCtx ELSE CtxOf(c)

LEMMA KeyVarIs ==
    ASSUME NEW m \in Msg, Carried(m), NEW k \in {Place, RepMemo, DatetimeCode}
    PROVE  ValueOf(m, k) \in Values /\ Plain(k, ValueOf(m, k)) \in ToSet(m.station)
<1>1. k \in Int /\ m.station \in SortedVars /\ HasVar(m.station, k)
  BY MsgIs DEF Carried, Place, RepMemo, DatetimeCode
<1>2. VarOf(m.station, k) \in ToSet(m.station) /\ VarOf(m.station, k).code = k
  BY <1>1, HasVarIs
<1> DEFINE v == VarOf(m.station, k)
<1>3. v \in Variable
  BY <1>1, <1>2, VarOnce
<1>4. ~v.attr
  BY <1>2 DEF Carried, ToSet
<1> HIDE DEF v
<1>5. v = Plain(k, v.val) /\ v.val \in Values
  BY <1>2, <1>3, <1>4 DEF Variable, Plain, v
<1> QED BY <1>2, <1>5 DEF ValueOf, v

\* What a line of v says, be it of the variable or of its attribute.
Says(l, m, c, v) ==
    /\ l \in CsvLine
    /\ l.place = ValueOf(m, Place) /\ l.rep = ValueOf(m, RepMemo)
    /\ l.when \in {NoDatetime, ValueOf(m, DatetimeCode)}
    /\ c.level = NoLevel => l.when = NoDatetime
    /\ l.ctx = LineCtx(c) /\ l.code = v.code /\ l.val = v.val

LEMMA LineIs ==
    ASSUME NEW m \in Msg, Carried(m), NEW c, HasKey(c), NEW v \in Variable
    PROVE  /\ Says(Line(m, c, v, FALSE), m, c, v) /\ ~Line(m, c, v, FALSE).isattr
           /\ Says(Line(m, c, v, TRUE), m, c, v) /\ Line(m, c, v, TRUE).isattr
           /\ Line(m, c, v, TRUE).when = Line(m, c, v, FALSE).when
<1>1. /\ ValueOf(m, Place) \in Values /\ ValueOf(m, RepMemo) \in Values
      /\ ValueOf(m, DatetimeCode) \in Values
  BY KeyVarIs
<1>2. LineCtx(c) \in Key
  BY StationIsKey DEF LineCtx, CtxOf, HasKey, Key
<1>3. v.code \in Int /\ v.val \in Values
  BY DEF Variable
<1>4. Says(Line(m, c, v, FALSE), m, c, v) /\ ~Line(m, c, v, FALSE).isattr
  BY <1>1, <1>2, <1>3 DEF Says, Line, CsvLine, LineCtx, CtxOf
<1>5. Says(Line(m, c, v, TRUE), m, c, v) /\ Line(m, c, v, TRUE).isattr
  BY <1>1, <1>2, <1>3 DEF Says, Line, CsvLine, LineCtx, CtxOf
<1>6. Line(m, c, v, TRUE).when = Line(m, c, v, FALSE).when
  BY DEF Line
<1> QED BY <1>4, <1>5, <1>6

----------------------------------------------------------------------------
(* Reading line by line *)

Reading(base, lines) == FoldLeft(ReadLine, base, lines)

\* How far the reading of a message has come.
Reader ==
    [msg : Msg, first : CsvLine, when : Values \cup {NoDatetime}, n : Nat,
     end : BOOLEAN, failed : BOOLEAN]

LEMMA SetDatetimeIs ==
    ASSUME NEW m \in Msg, NEW w \in Values
    PROVE  SetDatetime(m, w) \in Msg
<1>1. Plain(DatetimeCode, w) \in Variable
  BY PlainIs DEF DatetimeCode
<1> QED BY <1>1, SetInStation DEF SetDatetime

LEMMA TakeValueIs ==
    ASSUME NEW m \in Msg, NEW l \in CsvLine, ~Refused(m, l)
    PROVE  TakeValue(m, l) \in Msg
<1>1. l.ctx \in Key /\ l.code \in Int /\ l.val \in Values
  BY DEF CsvLine
<1>2. CASE ~l.isattr
  <2>1. Plain(l.code, l.val) \in Variable
    BY <1>1, PlainIs
  <2> QED BY <1>1, <1>2, <2>1, SetInIs DEF TakeValue
<1>3. CASE l.isattr
  <2> DEFINE p == FindCtx(m.data, l.ctx)
             old == VarOf(m.data[p].values, l.code)
             v == [old EXCEPT !.attr = TRUE]
  <2>1. p # 0 /\ HasVar(m.data[p].values, l.code)
    BY <1>3 DEF Refused
  <2>2. m.data \in SortedCtxs /\ HasKey(l.ctx)
    BY <1>1, MsgIs, KeysAre
  <2>3. p \in 1..Len(m.data)
    BY <2>1, <2>2, FindCtxFinds, SortedCtxsAre
  <2>4. m.data[p].values \in SortedVars
    BY <2>2, <2>3, SortedCtxsAre
  <2>5. old \in Variable
    BY <1>1, <2>1, <2>4, HasVarIs, VarOnce
  <2> HIDE DEF old
  <2>6. v \in Variable
    BY <2>5 DEF Variable
  <2>7. TakeValue(m, l) = SetIn(m, l.ctx, v)
    BY <1>3 DEF TakeValue, old
  <2> HIDE DEF v
  <2> QED BY <1>1, <2>6, <2>7, SetInIs
<1> QED BY <1>2, <1>3

LEMMA ReadLineIs ==
    ASSUME NEW acc \in Reader, NEW l \in CsvLine
    PROVE  ReadLine(acc, l) \in Reader
<1>1. /\ acc.msg \in Msg /\ acc.first \in CsvLine /\ acc.when \in Values \cup {NoDatetime}
      /\ acc.n \in Nat /\ acc.end \in BOOLEAN /\ acc.failed \in BOOLEAN
  BY DEF Reader
<1>2. l.when \in Values \cup {NoDatetime}
  BY DEF CsvLine
<1>3. CASE acc.failed \/ acc.end \/ EndsMessage(acc, l)
  <2>1. ReadLine(acc, l) = [acc EXCEPT !.end = TRUE]
    BY <1>3 DEF ReadLine
  <2> QED BY <2>1 DEF Reader
<1>4. CASE ~(acc.failed \/ acc.end \/ EndsMessage(acc, l))
  <2> DEFINE m == TakeDatetime(acc.msg, acc, l)
  <2>1. m \in Msg
    BY <1>1, <1>2, SetDatetimeIs DEF TakeDatetime
  <2>2. ReadLine(acc, l) = IF Refused(m, l) THEN [acc EXCEPT !.failed = TRUE]
            ELSE [acc EXCEPT !.msg = TakeValue(m, l), !.n = @ + 1,
                             !.when = IF @ = NoDatetime THEN l.when ELSE @]
    BY <1>4 DEF ReadLine
  <2> HIDE DEF m
  <2>3. CASE Refused(m, l)
    <3>1. ReadLine(acc, l) = [acc EXCEPT !.failed = TRUE]
      BY <2>2, <2>3
    <3> QED BY <3>1 DEF Reader
  <2>4. CASE ~Refused(m, l)
    <3> DEFINE x == TakeValue(m, l)
               w == IF acc.when = NoDatetime THEN l.when ELSE acc.when
               k == acc.n + 1
    <3>1. x \in Msg
      BY <2>1, <2>4, TakeValueIs
    <3>2. w \in Values \cup {NoDatetime} /\ k \in Nat
      BY <1>1, <1>2
    <3>3. ReadLine(acc, l) = [acc EXCEPT !.msg = x, !.n = k, !.when = w]
      BY <2>2, <2>4
    <3> HIDE DEF x, w, k
    <3> QED BY <3>1, <3>2, <3>3 DEF Reader
  <2> QED BY <2>3, <2>4
<1> QED BY <1>3, <1>4

LEMMA ReadingSteps ==
    ASSUME NEW base \in Reader, NEW lines \in Seq(CsvLine), NEW n, n = Len(lines)
    PROVE  \E h : /\ h[0] = base
                  /\ \A k \in 1..n : h[k] = ReadLine(h[k - 1], lines[k])
                  /\ \A k \in 0..n : h[k] \in Reader
                  /\ Reading(base, lines) = h[n]
<1> DEFINE F == [x \in Reader \X (1..n) |-> ReadLine(x[1], lines[x[2]])]
           P(f) == f = [s \in SUBSET (1..n) |->
                           IF s = {} THEN base
                           ELSE ReadLine(f[s \ {Max(s)}], lines[Max(s)])]
           g == CHOOSE f : P(f)
<1>1. n \in Nat /\ DOMAIN lines = 1..n /\ \A i \in 1..n : lines[i] \in CsvLine
  BY LenProperties
<1>2. \A a \in Reader, i \in 1..n :
          F[<<a, i>>] = ReadLine(a, lines[i]) /\ F[<<a, i>>] \in Reader
  BY <1>1, ReadLineIs
<1>3. PICK f : LeftFolded(n, base, F, f) /\ \A s \in SUBSET (1..n) : f[s] \in Reader
  <2> HIDE DEF F
  <2> QED BY <1>1, <1>2, FoldLeftExists
<1>4. P(f)
  <2>1. \A s \in SUBSET (1..n) : s # {} => /\ Max(s) \in 1..n
                                           /\ s \ {Max(s)} \in SUBSET (1..n)
    BY <1>1, GreatestPosition
  <2> HIDE DEF F
  <2>2. \A s \in SUBSET (1..n) : s # {} =>
            F[<<f[s \ {Max(s)}], Max(s)>>] = ReadLine(f[s \ {Max(s)}], lines[Max(s)])
    BY <1>2, <1>3, <2>1
  <2> QED BY <1>3, <2>2 DEF LeftFolded
<1>5. P(g)
  <2> HIDE DEF P
  <2> QED BY <1>4
<1>6. Reading(base, lines) = g[1..n]
  BY <1>1 DEF Reading, FoldLeft, MapThenFoldSet
<1> DEFINE h == [k \in 0..n |-> g[1..k]]
<1> HIDE DEF g
<1>7. h[0] = base
  BY <1>1, <1>5
<1>8. ASSUME NEW k \in 1..n PROVE h[k] = ReadLine(h[k - 1], lines[k])
  <2>1. /\ 1..k \in SUBSET (1..n) /\ 1..k # {}
        /\ Max(1..k) = k
        /\ (1..k) \ {k} = 1..k - 1
    BY <1>1, PrefixIs
  <2>2. g[1..k] = ReadLine(g[1..k - 1], lines[k])
    BY <1>5, <2>1
  <2> QED BY <1>1, <2>2
<1>9. h[n] = g[1..n]
  BY <1>1
<1> HIDE DEF h
<1> DEFINE K == {k \in Nat : k <= n => h[k] \in Reader}
<1>10. 0 \in K
  BY <1>7
<1>11. ASSUME NEW k \in Nat, k \in K PROVE k + 1 \in K
  <2> SUFFICES ASSUME k + 1 <= n PROVE h[k + 1] \in Reader
    OBVIOUS
  <2>1. k + 1 \in 1..n /\ k <= n
    BY <1>1
  <2>2. h[k + 1] = ReadLine(h[k], lines[k + 1])
    BY <1>8, <2>1
  <2> QED BY <1>1, <1>11, <2>1, <2>2, ReadLineIs
<1>12. Nat \subseteq K
  <2> HIDE DEF K
  <2> QED BY <1>10, <1>11, Induct
<1>13. \A k \in 0..n : h[k] \in Reader
  BY <1>1, <1>12
<1> HIDE DEF K
<1> QED BY <1>6, <1>7, <1>8, <1>9, <1>13

\* Reading goes by the lines read so far, whatever comes after.
LEMMA ReadingOn ==
    ASSUME NEW base \in Reader, NEW a \in Seq(CsvLine), NEW b \in Seq(CsvLine)
    PROVE  \E h : /\ h[0] = Reading(base, a)
                  /\ \A k \in 1..Len(b) : h[k] = ReadLine(h[k - 1], b[k])
                  /\ Reading(base, a \o b) = h[Len(b)]
<1> DEFINE t == a \o b
           n == Len(a)
           m == Len(b)
<1>1. /\ t \in Seq(CsvLine) /\ Len(t) = n + m /\ n \in Nat /\ m \in Nat
      /\ \A i \in 1..n : t[i] = a[i]
      /\ \A i \in 1..m : t[n + i] = b[i]
  BY ConcatIs, LenProperties
<1>2. PICK f : /\ f[0] = base
               /\ \A k \in 1..n : f[k] = ReadLine(f[k - 1], a[k])
               /\ Reading(base, a) = f[n]
  BY ReadingSteps
<1> HIDE DEF t
<1>3. PICK g : /\ g[0] = base
               /\ \A k \in 1..Len(t) : g[k] = ReadLine(g[k - 1], t[k])
               /\ Reading(base, t) = g[Len(t)]
  BY <1>1, ReadingSteps
<1> DEFINE K == {k \in Nat : k <= n => f[k] = g[k]}
<1>4. 0 \in K
  BY <1>2, <1>3
<1>5. ASSUME NEW k \in Nat, k \in K PROVE k + 1 \in K
  <2> SUFFICES ASSUME k + 1 <= n PROVE f[k + 1] = g[k + 1]
    OBVIOUS
  <2>1. /\ k + 1 \in 1..n /\ k + 1 \in 1..Len(t) /\ (k + 1) - 1 = k
        /\ f[k] = g[k]
    BY <1>1, <1>5
  <2>2. f[k + 1] = ReadLine(f[k], a[k + 1])
    BY <1>2, <2>1
  <2>3. g[k + 1] = ReadLine(g[k], t[k + 1])
    BY <1>3, <2>1
  <2> QED BY <1>1, <2>1, <2>2, <2>3
<1>6. Nat \subseteq K
  <2> HIDE DEF K
  <2> QED BY <1>4, <1>5, Induct
<1>7. f[n] = g[n]
  BY <1>1, <1>6
<1> DEFINE h == [k \in 0..m |-> g[n + k]]
<1>8. h[0] = Reading(base, a)
  BY <1>1, <1>2, <1>7
<1>9. ASSUME NEW k \in 1..m PROVE h[k] = ReadLine(h[k - 1], b[k])
  <2>1. n + k \in 1..Len(t) /\ (n + k) - 1 = n + (k - 1) /\ k \in 0..m /\ k - 1 \in 0..m
    BY <1>1
  <2>2. g[n + k] = ReadLine(g[n + (k - 1)], t[n + k])
    BY <1>3, <2>1
  <2> QED BY <1>1, <2>1, <2>2
<1>10. h[m] = Reading(base, t)
  BY <1>1, <1>3
<1> HIDE DEF h
<1> QED BY <1>8, <1>9, <1>10 DEF t

LEMMA ReadingNone ==
    ASSUME NEW base \in Reader
    PROVE  Reading(base, <<>>) = base
<1> DEFINE none == <<>>
<1>1. none \in Seq(CsvLine)
  BY EmptySeq
<1>2. Len(none) = 0
  BY EmptySeq
<1> HIDE DEF none
<1>3. PICK h : /\ h[0] = base
               /\ \A k \in 1..Len(none) : h[k] = ReadLine(h[k - 1], none[k])
               /\ \A k \in 0..Len(none) : h[k] \in Reader
               /\ Reading(base, none) = h[Len(none)]
  BY <1>1, ReadingSteps
<1> QED BY <1>2, <1>3 DEF none

LEMMA ReadingOne ==
    ASSUME NEW base \in Reader, NEW a \in Seq(CsvLine), NEW l \in CsvLine
    PROVE  Reading(base, a \o <<l>>) = ReadLine(Reading(base, a), l)
<1>1. <<l>> \in Seq(CsvLine) /\ Len(<<l>>) = 1 /\ <<l>>[1] = l
  OBVIOUS
<1>2. PICK h : /\ h[0] = Reading(base, a)
               /\ \A k \in 1..Len(<<l>>) : h[k] = ReadLine(h[k - 1], <<l>>[k])
               /\ Reading(base, a \o <<l>>) = h[Len(<<l>>)]
  BY <1>1, ReadingOn
<1>3. h[1] = ReadLine(h[1 - 1], l) /\ 1 - 1 = 0
  BY <1>1, <1>2
<1> QED BY <1>1, <1>2, <1>3

----------------------------------------------------------------------------
(* Reading a variable *)

First(m) == Line(m, StationCtx, m.station[1], FALSE)
AtLine(m, x, w, n) ==
    [msg |-> x, first |-> First(m), when |-> w, n |-> n, end |-> FALSE, failed |-> FALSE]
Datetimes(m) == {NoDatetime, ValueOf(m, DatetimeCode)}

\* A message that holds some of what m does.
Partial(m, x) ==
    x \in Msg /\ x.type = m.type /\ NoneEmpty(x.data) /\ Holding(x) \subseteq Holding(m)

LEMMA FirstIs ==
    ASSUME NEW m \in Msg, Carried(m)
    PROVE  /\ m.station[1] \in Variable /\ 1 \in 1..Len(m.station) /\ First(m) \in CsvLine
           /\ First(m).place = ValueOf(m, Place) /\ First(m).rep = ValueOf(m, RepMemo)
           /\ First(m).when = NoDatetime
<1>1. /\ m.station \in SortedVars /\ m.station \in Seq(Variable)
      /\ Len(m.station) \in Nat /\ DOMAIN m.station = 1..Len(m.station)
  BY MsgIs, SortedVarsAre
<1>2. Plain(Place, ValueOf(m, Place)) \in ToSet(m.station)
  BY KeyVarIs
<1>3. 1 \in 1..Len(m.station) /\ m.station[1] \in Variable
  BY <1>1, <1>2 DEF ToSet
<1>4. HasKey(StationCtx) /\ StationCtx.level = NoLevel
  BY StationIsKey DEF StationCtx
<1>5. Says(First(m), m, StationCtx, m.station[1])
  BY <1>3, <1>4, LineIs DEF First
<1> QED BY <1>3, <1>4, <1>5 DEF Says

LEMMA PartialSet ==
    ASSUME NEW m \in Msg, NEW x, Partial(m, x), NEW c, NEW v, <<c, v>> \in Holding(m)
    PROVE  /\ Partial(m, SetIn(x, c, v))
           /\ Holding(SetIn(x, c, v)) = Holding(x) \cup {<<c, v>>}
<1> DEFINE p == <<c, v>>
<1>1. c \in Key /\ v \in Variable
  <2>1. p \in Holding(m) /\ p[1] = c /\ p[2] = v
    OBVIOUS
  <2> HIDE DEF p
  <2> QED BY <2>1, HoldingIs
<1>2. x \in Msg /\ x.type = m.type /\ NoneEmpty(x.data) /\ Holding(x) \subseteq Holding(m)
  BY DEF Partial
<1> DEFINE z == SetIn(x, c, v)
<1>3. /\ z \in Msg /\ z.type = x.type /\ NoneEmpty(z.data)
      /\ Holding(z) = {y \in Holding(x) : ~(y[1] = c /\ y[2].code = v.code)} \cup {<<c, v>>}
  BY <1>1, <1>2, SetInHolds
<1>4. \A y \in Holding(x) : y[1] = c /\ y[2].code = v.code => y = <<c, v>>
  BY <1>2, HoldingIs
<1> HIDE DEF z
<1> QED BY <1>2, <1>3, <1>4 DEF Partial, z

LEMMA TakeDatetimeIs ==
    ASSUME NEW m \in Msg, Carried(m), NEW x, Partial(m, x), NEW acc, NEW l,
           l.when \in Datetimes(m), NEW y, y = TakeDatetime(x, acc, l)
    PROVE  Partial(m, y) /\ Holding(x) \subseteq Holding(y)
<1> DEFINE v == Plain(DatetimeCode, ValueOf(m, DatetimeCode))
<1>1. <<StationCtx, v>> \in Holding(m)
  BY KeyVarIs, HoldingIs
<1> HIDE DEF v
<1>2. y = x \/ y = SetIn(x, StationCtx, v)
  BY DEF TakeDatetime, Datetimes, SetDatetime, v
<1> QED BY <1>1, <1>2, PartialSet

LEMMA ReadOn ==
    ASSUME NEW m \in Msg, Carried(m), NEW x, NEW w \in Datetimes(m), NEW n,
           NEW acc, acc = AtLine(m, x, w, n),
           NEW l, l.place = ValueOf(m, Place), l.rep = ValueOf(m, RepMemo),
           l.when \in Datetimes(m),
           NEW y, y = TakeDatetime(x, acc, l), ~Refused(y, l)
    PROVE  ReadLine(acc, l) =
               AtLine(m, TakeValue(y, l), IF w = NoDatetime THEN l.when ELSE w, n + 1)
<1>1. First(m).place = ValueOf(m, Place) /\ First(m).rep = ValueOf(m, RepMemo)
  BY FirstIs
<1>2. /\ acc.msg = x /\ acc.first = First(m) /\ acc.when = w /\ acc.n = n
      /\ acc.end = FALSE /\ acc.failed = FALSE
  BY DEF AtLine
<1>3. ~EndsMessage(acc, l)
  BY <1>1, <1>2 DEF EndsMessage, Datetimes
<1>4. ReadLine(acc, l) =
         [acc EXCEPT !.msg = TakeValue(y, l), !.n = acc.n + 1,
                     !.when = IF acc.when = NoDatetime THEN l.when ELSE acc.when]
  BY <1>2, <1>3 DEF ReadLine
<1> DEFINE z == TakeValue(y, l)
           u == IF w = NoDatetime THEN l.when ELSE w
           k == n + 1
<1>5. ReadLine(acc, l) = [acc EXCEPT !.msg = z, !.n = k, !.when = u]
  BY <1>2, <1>4
<1> HIDE DEF z, u, k
<1>6. ReadLine(acc, l) = AtLine(m, z, u, k)
  BY <1>5 DEF AtLine
<1> QED BY <1>6 DEF z, u, k

\* What is known when n lines of m have been read, and with them the pairs G.
Stage(m, acc, n, G) ==
    \E x, w : /\ acc = AtLine(m, x, w, n) /\ w \in Datetimes(m)
              /\ Partial(m, x) /\ G \subseteq Holding(x)

LEMMA ReadPlain ==
    ASSUME NEW m \in Msg, Carried(m), NEW acc, NEW n, NEW G, Stage(m, acc, n, G),
           NEW c, HasKey(c), NEW v, <<LineCtx(c), v>> \in Holding(m), ~v.attr
    PROVE  Stage(m, ReadLine(acc, Line(m, c, v, FALSE)), n + 1, G \cup {<<LineCtx(c), v>>})
<1> DEFINE l == Line(m, c, v, FALSE)
           k == LineCtx(c)
           p == <<k, v>>
<1>1. PICK x, w : /\ acc = AtLine(m, x, w, n) /\ w \in Datetimes(m)
                  /\ Partial(m, x) /\ G \subseteq Holding(x)
  BY DEF Stage
<1>2. v \in Variable
  <2>1. p \in Holding(m) /\ p[2] = v
    OBVIOUS
  <2> HIDE DEF p
  <2> QED BY <2>1, HoldingIs
<1>3. /\ l.place = ValueOf(m, Place) /\ l.rep = ValueOf(m, RepMemo) /\ l.when \in Datetimes(m)
      /\ l.ctx = k /\ l.code = v.code /\ l.val = v.val /\ ~l.isattr
  <2>1. Says(l, m, c, v) /\ ~l.isattr
    BY <1>2, LineIs
  <2> QED BY <2>1 DEF Says, Datetimes
<1> HIDE DEF l
<1> DEFINE y == TakeDatetime(x, acc, l)
           u == IF w = NoDatetime THEN l.when ELSE w
           z == TakeValue(y, l)
<1>4. Partial(m, y) /\ Holding(x) \subseteq Holding(y)
  BY <1>1, <1>3, TakeDatetimeIs
<1> HIDE DEF y
<1>5. ReadLine(acc, l) = AtLine(m, z, u, n + 1)
  <2>1. ~Refused(y, l)
    BY <1>3 DEF Refused
  <2> QED BY <1>1, <1>3, <2>1, ReadOn DEF y
<1>6. z = SetIn(y, k, v)
  <2>1. Plain(v.code, v.val) = v
    BY <1>2 DEF Plain, Variable
  <2> QED BY <1>3, <2>1 DEF TakeValue
<1>7. Partial(m, z) /\ Holding(z) = Holding(y) \cup {<<k, v>>}
  BY <1>4, <1>6, PartialSet
<1>8. u \in Datetimes(m)
  BY <1>1, <1>3
<1> HIDE DEF z, u, k, p
<1>9. G \cup {<<k, v>>} \subseteq Holding(z)
  BY <1>1, <1>4, <1>7
<1>10. Stage(m, ReadLine(acc, l), n + 1, G \cup {<<k, v>>})
  BY <1>5, <1>7, <1>8, <1>9 DEF Stage
<1> QED BY <1>10 DEF l, k

\* A value in the data of a message is found again.
LEMMA HeldIsFound ==
    ASSUME NEW m \in Msg, NEW c, NEW v, c # StationCtx, <<c, v>> \in Holding(m)
    PROVE  LET p == FindCtx(m.data, c)
           IN  /\ p # 0 /\ HasVar(m.data[p].values, v.code)
               /\ VarOf(m.data[p].values, v.code) = v
<1> DEFINE p == FindCtx(m.data, c)
           vals == m.data[p].values
           y == <<c, v>>
<1>1. /\ c \in Key /\ v \in Variable /\ y \in Content(m.data)
  <2>1. y \in Holding(m) /\ y[1] = c /\ y[2] = v
    OBVIOUS
  <2>2. y \in Content(m.data)
    BY <2>1 DEF Holding
  <2> HIDE DEF y
  <2> QED BY <2>1, <2>2, HoldingIs
<1>2. /\ m.data \in SortedCtxs /\ HasKey(c) /\ CtxOf(c) = c
      /\ Len(m.data) \in Nat /\ ToSet(m.data) = {m.data[i] : i \in 1..Len(m.data)}
  BY <1>1, MsgIs, KeysAre, SortedCtxsAre
<1>3. PICK e \in ToSet(m.data) : CtxOf(e) = c /\ v \in ToSet(e.values)
  BY <1>1 DEF Content
<1>4. Same(e, c)
  BY <1>2, <1>3, SameCtx
<1>5. p # 0 /\ p \in 1..Len(m.data) /\ Same(m.data[p], c)
  BY <1>2, <1>3, <1>4, FindCtxFinds
<1>6. m.data[p] = e
  BY <1>2, <1>3, <1>5, SameCtx, MsgIs
<1>7. vals \in SortedVars /\ v \in ToSet(vals)
  BY <1>3, <1>6, MsgIs
<1> HIDE DEF vals
<1>8. v.code \in Int
  BY <1>1 DEF Variable
<1>9. HasVar(vals, v.code) /\ VarOf(vals, v.code) \in ToSet(vals) /\ VarOf(vals, v.code).code = v.code
  BY <1>7, <1>8, HasVarIs
<1>10. VarOf(vals, v.code) = v
  BY <1>7, <1>9, VarOnce
<1> QED BY <1>5, <1>9, <1>10 DEF vals

LEMMA ReadWithAttr ==
    ASSUME NEW m \in Msg, Carried(m), NEW acc, NEW n \in Nat, NEW G, Stage(m, acc, n, G),
           NEW c, HasKey(c), NEW v, <<LineCtx(c), v>> \in Holding(m), v.attr,
           LineCtx(c) # StationCtx
    PROVE  Stage(m, ReadLine(ReadLine(acc, Line(m, c, v, FALSE)), Line(m, c, v, TRUE)),
                 n + 2, G \cup {<<LineCtx(c), v>>})
<1> DEFINE l == Line(m, c, v, FALSE)
           la == Line(m, c, v, TRUE)
           k == LineCtx(c)
           p == <<k, v>>
           bare == Plain(v.code, v.val)
<1>1. PICK x, w : /\ acc = AtLine(m, x, w, n) /\ w \in Datetimes(m)
                  /\ Partial(m, x) /\ G \subseteq Holding(x)
  BY DEF Stage
<1>2. v \in Variable /\ k \in Key /\ bare \in Variable /\ bare.code = v.code
  <2>1. p \in Holding(m) /\ p[1] = k /\ p[2] = v
    OBVIOUS
  <2>2. v \in Variable /\ k \in Key
    <3> HIDE DEF p, k
    <3> QED BY <2>1, HoldingIs
  <2> QED BY <2>2 DEF Variable, Plain
<1>3. Says(l, m, c, v) /\ ~l.isattr /\ Says(la, m, c, v) /\ la.isattr /\ la.when = l.when
  BY <1>2, LineIs
<1>4. /\ l.place = ValueOf(m, Place) /\ l.rep = ValueOf(m, RepMemo) /\ l.when \in Datetimes(m)
      /\ l.ctx = k /\ l.code = v.code /\ l.val = v.val
      /\ la.place = ValueOf(m, Place) /\ la.rep = ValueOf(m, RepMemo)
      /\ la.ctx = k /\ la.code = v.code
  BY <1>3 DEF Says, Datetimes
<1> HIDE DEF l, la, k
<1> DEFINE y == TakeDatetime(x, acc, l)
           u == IF w = NoDatetime THEN l.when ELSE w
           z == TakeValue(y, l)
           mid == AtLine(m, z, u, n + 1)
           full == TakeValue(z, la)
<1>5. Partial(m, y) /\ Holding(x) \subseteq Holding(y)
  BY <1>1, <1>4, TakeDatetimeIs
<1> HIDE DEF y
<1>6. ReadLine(acc, l) = mid
  <2>1. ~Refused(y, l)
    BY <1>3 DEF Refused
  <2> QED BY <1>1, <1>4, <2>1, ReadOn DEF y
<1>7. z = SetIn(y, k, bare)
  BY <1>3, <1>4 DEF TakeValue
<1> HIDE DEF bare
<1>8. /\ z \in Msg /\ z.type = y.type /\ NoneEmpty(z.data)
      /\ Holding(z) = {o \in Holding(y) : ~(o[1] = k /\ o[2].code = v.code)} \cup {<<k, bare>>}
  BY <1>2, <1>5, <1>7, SetInHolds DEF Partial
<1> HIDE DEF z
<1>9. LET q == FindCtx(z.data, k)
      IN  /\ q # 0 /\ HasVar(z.data[q].values, v.code)
          /\ VarOf(z.data[q].values, v.code) = bare
  <2>1. k # StationCtx /\ <<k, bare>> \in Holding(z)
    BY <1>8 DEF k
  <2>2. z \in Msg /\ bare.code = v.code
    BY <1>2, <1>8
  <2>3. LET q == FindCtx(z.data, k)
        IN  /\ q # 0 /\ HasVar(z.data[q].values, bare.code)
            /\ VarOf(z.data[q].values, bare.code) = bare
    BY <2>1, <2>2, HeldIsFound
  <2> QED BY <2>2, <2>3
<1>10. u \in Datetimes(m)
  BY <1>1, <1>4
<1>11. z = TakeDatetime(z, mid, la)
  BY <1>3, <1>4 DEF TakeDatetime, AtLine
<1> HIDE DEF u
<1>12. ~Refused(z, la)
  <2>1. ~IsStationCtx(la.ctx)
    BY <1>4 DEF IsStationCtx, k
  <2> QED BY <1>4, <1>9, <2>1 DEF Refused
<1>13. ReadLine(mid, la) = AtLine(m, full, IF u = NoDatetime THEN la.when ELSE u, (n + 1) + 1)
  BY <1>3, <1>4, <1>10, <1>11, <1>12, ReadOn
<1>14. full = SetIn(z, k, v)
  <2>1. [bare EXCEPT !.attr = TRUE] = v
    <3>1. v = [code |-> v.code, val |-> v.val, attr |-> v.attr] /\ v.attr \in BOOLEAN
      BY <1>2 DEF Variable
    <3>2. v.attr = TRUE
      BY <3>1
    <3> QED BY <3>1, <3>2 DEF bare, Plain
  <2> QED BY <1>3, <1>4, <1>9, <2>1 DEF TakeValue
<1>15. /\ full \in Msg /\ full.type = z.type /\ NoneEmpty(full.data)
       /\ Holding(full) = {o \in Holding(z) : ~(o[1] = k /\ o[2].code = v.code)} \cup {<<k, v>>}
  BY <1>2, <1>8, <1>14, SetInHolds
<1> HIDE DEF full
<1>16. \A o \in Holding(m) : o[1] = k /\ o[2].code = v.code => o = <<k, v>>
  <2>1. p \in Holding(m) /\ p[1] = k /\ p[2] = v
    BY DEF k
  <2> HIDE DEF p
  <2>2. \A o \in Holding(m) : o[1] = k /\ o[2].code = v.code => o = p
    BY <2>1, HoldingIs
  <2> QED BY <2>2 DEF p
<1>17. Holding(y) \subseteq Holding(m) /\ y.type = m.type
  BY <1>5 DEF Partial
<1>18. <<k, v>> \in Holding(m)
  BY DEF k
<1>19. Holding(y) \subseteq Holding(full) /\ Holding(full) \subseteq Holding(m)
       /\ <<k, v>> \in Holding(full)
  <2>1. <<k, bare>>[1] = k /\ <<k, bare>>[2] = bare
    OBVIOUS
  <2>2. \A o \in Holding(y) : o[1] = k /\ o[2].code = v.code => o = <<k, v>>
    BY <1>16, <1>17
  <2>3. \A o \in Holding(full) : o = <<k, v>> \/ o \in Holding(y)
    BY <1>2, <1>8, <1>15, <2>1
  <2>4. \A o \in Holding(y) : o = <<k, v>> \/ o \in Holding(full)
    BY <1>8, <1>15, <2>2
  <2> QED BY <1>15, <1>17, <1>18, <2>3, <2>4
<1>20. Partial(m, full)
  BY <1>8, <1>15, <1>17, <1>19 DEF Partial
<1>21. G \cup {<<k, v>>} \subseteq Holding(full)
  BY <1>1, <1>5, <1>19
<1>22. ReadLine(mid, la) = AtLine(m, full, IF u = NoDatetime THEN la.when ELSE u, n + 2)
  BY <1>13
<1>23. (IF u = NoDatetime THEN la.when ELSE u) \in Datetimes(m)
  BY <1>3, <1>4, <1>10
<1> HIDE DEF mid
<1>24. Stage(m, ReadLine(mid, la), n + 2, G \cup {<<k, v>>})
  BY <1>20, <1>21, <1>22, <1>23 DEF Stage
<1> QED BY <1>6, <1>24 DEF l, la, k

----------------------------------------------------------------------------
(* What is written *)

LinesOfVar(m, c, v) ==
    <<Line(m, c, v, FALSE)>> \o (IF v.attr THEN <<Line(m, c, v, TRUE)>> ELSE <<>>)

LEMMA LinesOfVarIs ==
    ASSUME NEW m \in Msg, Carried(m), NEW c, HasKey(c), NEW v \in Variable
    PROVE  /\ LinesOfVar(m, c, v) \in Seq(CsvLine)
           /\ LinesOfVar(m, c, v) # <<>> /\ LinesOfVar(m, c, v)[1] = Line(m, c, v, FALSE)
           /\ \A t \in Seq(CsvLine) :
                 t \o <<Line(m, c, v, FALSE)>>
                   \o (IF v.attr THEN <<Line(m, c, v, TRUE)>> ELSE <<>>) = t \o LinesOfVar(m, c, v)
<1> DEFINE l == Line(m, c, v, FALSE)
           la == Line(m, c, v, TRUE)
           a == <<l>>
           b == IF v.attr THEN <<la>> ELSE <<>>
<1>1. l \in CsvLine /\ la \in CsvLine
  BY LineIs DEF Says
<1> HIDE DEF l, la
<1>2. a \in Seq(CsvLine) /\ b \in Seq(CsvLine) /\ Len(a) = 1 /\ a[1] = l
  BY <1>1
<1> HIDE DEF a, b
<1>3. /\ a \o b \in Seq(CsvLine) /\ Len(a \o b) = 1 + Len(b) /\ (a \o b)[1] = l
      /\ Len(b) \in Nat
  <2>1. /\ a \o b \in Seq(CsvLine) /\ Len(a \o b) = Len(a) + Len(b)
        /\ \A i \in 1..Len(a) : (a \o b)[i] = a[i]
    BY <1>2, ConcatIs
  <2>2. 1 \in 1..Len(a) /\ Len(b) \in Nat
    BY <1>2, LenProperties
  <2> QED BY <1>2, <2>1, <2>2
<1>4. a \o b # <<>>
  BY <1>3, EmptySeq
<1>5. \A t \in Seq(CsvLine) : t \o a \o b = t \o (a \o b)
  BY <1>2
<1>6. LinesOfVar(m, c, v) = a \o b
  BY DEF LinesOfVar, a, b, l, la
<1> QED BY <1>3, <1>4, <1>5, <1>6 DEF a, b, l, la

\* h holds the lines after each of the variables.
WritesVars(h, m, c, vals) ==
    /\ h[0] = <<>>
    /\ \A k \in 1..Len(vals) : h[k] = h[k - 1] \o LinesOfVar(m, c, vals[k])
    /\ \A k \in 0..Len(vals) : h[k] \in Seq(CsvLine)
    /\ LinesOf(m, c, vals) = h[Len(vals)]

LEMMA LinesOfSteps ==
    ASSUME NEW m \in Msg, Carried(m), NEW c, HasKey(c), NEW vals \in SortedVars
    PROVE  \E h : WritesVars(h, m, c, vals)
<1> DEFINE n == Len(vals)
           L == Seq(CsvLine)
           Step(a, v) == a \o <<Line(m, c, v, FALSE)>>
                           \o (IF v.attr THEN <<Line(m, c, v, TRUE)>> ELSE <<>>)
           F == [x \in L \X (1..n) |-> Step(x[1], vals[x[2]])]
           P(f) == f = [s \in SUBSET (1..n) |->
                           IF s = {} THEN <<>> ELSE Step(f[s \ {Max(s)}], vals[Max(s)])]
           g == CHOOSE f : P(f)
<1>1. n \in Nat /\ DOMAIN vals = 1..n /\ \A i \in 1..n : vals[i] \in Variable
  BY SortedVarsAre
<1>2. \A a \in L, i \in 1..n :
          /\ Step(a, vals[i]) = a \o LinesOfVar(m, c, vals[i])
          /\ LinesOfVar(m, c, vals[i]) \in L
  BY <1>1, LinesOfVarIs
<1>3. \A a \in L, i \in 1..n : Step(a, vals[i]) \in L
  <2> HIDE DEF Step
  <2> QED BY <1>2, ConcatProperties
<1>4. \A a \in L, i \in 1..n : F[<<a, i>>] = Step(a, vals[i]) /\ F[<<a, i>>] \in L
  <2> HIDE DEF Step
  <2> QED BY <1>1, <1>3
<1>5. PICK f : LeftFolded(n, <<>>, F, f) /\ \A s \in SUBSET (1..n) : f[s] \in L
  <2>1. <<>> \in L
    BY EmptySeq
  <2> HIDE DEF F, L
  <2> QED BY <1>1, <1>4, <2>1, FoldLeftExists
<1>6. \A s \in SUBSET (1..n) : s # {} => /\ Max(s) \in 1..n
                                         /\ s \ {Max(s)} \in SUBSET (1..n)
  BY <1>1, GreatestPosition
<1>7. P(f)
  <2> HIDE DEF F, Step, L
  <2>2. \A s \in SUBSET (1..n) : s # {} =>
            F[<<f[s \ {Max(s)}], Max(s)>>] = Step(f[s \ {Max(s)}], vals[Max(s)])
    BY <1>4, <1>5, <1>6
  <2> QED BY <1>5, <2>2 DEF LeftFolded
<1>8. P(g)
  <2> HIDE DEF P
  <2> QED BY <1>7
<1>9. LinesOf(m, c, vals) = g[1..n]
  BY <1>1 DEF LinesOf, FoldLeft, MapThenFoldSet
<1> DEFINE h == [k \in 0..n |-> g[1..k]]
<1> HIDE DEF g, Step
<1>10. h[0] = <<>>
  BY <1>1, <1>8
<1>11. ASSUME NEW k \in 1..n PROVE h[k] = Step(h[k - 1], vals[k])
  <2>1. /\ 1..k \in SUBSET (1..n) /\ 1..k # {}
        /\ Max(1..k) = k
        /\ (1..k) \ {k} = 1..k - 1
    BY <1>1, PrefixIs
  <2>2. g[1..k] = Step(g[1..k - 1], vals[k])
    BY <1>8, <2>1
  <2> QED BY <1>1, <2>2
<1>12. h[n] = g[1..n]
  BY <1>1
<1> HIDE DEF h, L
<1> DEFINE K == {k \in Nat : k <= n => h[k] \in L}
<1>13. 0 \in K
  BY <1>10, EmptySeq DEF L
<1>14. ASSUME NEW k \in Nat, k \in K PROVE k + 1 \in K
  <2> SUFFICES ASSUME k + 1 <= n PROVE h[k + 1] \in L
    OBVIOUS
  <2>1. k + 1 \in 1..n /\ k <= n /\ (k + 1) - 1 = k
    BY <1>1
  <2>2. h[k + 1] = Step(h[k], vals[k + 1]) /\ h[k] \in L
    BY <1>11, <1>14, <2>1
  <2> QED BY <1>3, <2>1, <2>2
<1>15. Nat \subseteq K
  <2> HIDE DEF K
  <2> QED BY <1>13, <1>14, Induct
<1>16. \A k \in 0..n : h[k] \in L
  BY <1>1, <1>15
<1>17. \A k \in 1..n : h[k] = h[k - 1] \o LinesOfVar(m, c, vals[k])
  <2> TAKE k \in 1..n
  <2>1. k - 1 \in 0..n
    BY <1>1
  <2> QED BY <1>2, <1>11, <1>16, <2>1
<1> HIDE DEF K
<1> QED BY <1>9, <1>10, <1>12, <1>16, <1>17 DEF L, WritesVars

----------------------------------------------------------------------------
(* Reading what is written *)

Start(m) == AtLine(m, BeginWith(First(m)), NoDatetime, 0)

\* The lines t of m have been read, and with them the pairs G.
ReadTo(m, t, G) == t \in Seq(CsvLine) /\ Stage(m, Reading(Start(m), t), Len(t), G)

LEMMA AtLineIs ==
    ASSUME NEW m \in Msg, Carried(m), NEW x \in Msg, NEW w \in Datetimes(m), NEW n \in Nat
    PROVE  AtLine(m, x, w, n) \in Reader
<1>1. First(m) \in CsvLine /\ w \in Values \cup {NoDatetime}
  BY FirstIs, KeyVarIs DEF Datetimes
<1> QED BY <1>1 DEF AtLine, Reader

LEMMA StartIs ==
    ASSUME NEW m \in Msg, Carried(m)
    PROVE  /\ Start(m) \in Reader /\ ReadTo(m, <<>>, {})
           /\ \A t : t[1] = First(m) => FromCsv(t) = Reading(Start(m), t)
<1> DEFINE l == First(m)
           x == BeginWith(l)
           u == NewMessage(l.rep)
           v == Plain(Place, l.place)
           w == Plain(RepMemo, l.rep)
<1>1. /\ l.place = ValueOf(m, Place) /\ l.rep = ValueOf(m, RepMemo) /\ l.when = NoDatetime
      /\ l.rep = m.type
  BY FirstIs DEF Carried
<1>2. <<StationCtx, v>> \in Holding(m) /\ <<StationCtx, w>> \in Holding(m)
  BY <1>1, KeyVarIs, HoldingIs
<1>3. x = SetIn(SetIn(u, StationCtx, v), StationCtx, w)
  BY <1>1 DEF BeginWith
<1>4. Partial(m, u)
  <2>1. u \in Msg /\ ToSet(u.station) = {} /\ u.data = <<>> /\ u.type = m.type
    BY <1>1, MsgIs, NewMessageIs
  <2>2. NoneEmpty(<<>>) /\ Content(<<>>) = {}
    BY DEF NoneEmpty, Content, ToSet
  <2> QED BY <2>1, <2>2 DEF Partial, Holding
<1> HIDE DEF l, u, v, w, x
<1>5. Partial(m, x)
  BY <1>2, <1>3, <1>4, PartialSet
<1>6. Start(m) \in Reader
  BY <1>5, AtLineIs DEF Start, Partial, x, l, Datetimes
<1>7. ReadTo(m, <<>>, {})
  <2>1. <<>> \in Seq(CsvLine) /\ Len(<<>>) = 0
    BY EmptySeq
  <2>2. Reading(Start(m), <<>>) = AtLine(m, x, NoDatetime, 0)
    BY <1>6, ReadingNone DEF Start, x, l
  <2>3. NoDatetime \in Datetimes(m)
    BY DEF Datetimes
  <2> QED BY <1>5, <2>1, <2>2, <2>3 DEF ReadTo, Stage
<1>8. ASSUME NEW t, t[1] = First(m) PROVE FromCsv(t) = Reading(Start(m), t)
  BY <1>1, <1>8 DEF FromCsv, Reading, Start, AtLine, l
<1> QED BY <1>6, <1>7, <1>8

LEMMA ReadsVar ==
    ASSUME NEW m \in Msg, Carried(m), NEW t, NEW G, ReadTo(m, t, G),
           NEW c, HasKey(c), NEW v, <<LineCtx(c), v>> \in Holding(m),
           v.attr => LineCtx(c) # StationCtx
    PROVE  ReadTo(m, t \o LinesOfVar(m, c, v), G \cup {<<LineCtx(c), v>>})
<1> DEFINE l == Line(m, c, v, FALSE)
           la == Line(m, c, v, TRUE)
           p == <<LineCtx(c), v>>
           H == G \cup {p}
           acc == Reading(Start(m), t)
<1>1. /\ t \in Seq(CsvLine) /\ Stage(m, acc, Len(t), G) /\ Len(t) \in Nat
      /\ Start(m) \in Reader
  BY StartIs DEF ReadTo
<1>2. v \in Variable
  <2>1. p \in Holding(m) /\ p[2] = v
    OBVIOUS
  <2> HIDE DEF p
  <2> QED BY <2>1, HoldingIs
<1>3. l \in CsvLine /\ la \in CsvLine
  BY <1>2, LineIs DEF Says
<1>4. CASE ~v.attr
  <2>1. Stage(m, ReadLine(acc, l), Len(t) + 1, H)
    BY <1>1, <1>4, ReadPlain
  <2> HIDE DEF l, H, acc
  <2>2. LinesOfVar(m, c, v) = <<l>>
    <3>1. <<l>> \o <<>> = <<l>>
      BY <1>3
    <3> QED BY <1>4, <3>1 DEF LinesOfVar, l
  <2>3. t \o <<l>> \in Seq(CsvLine) /\ Len(t \o <<l>>) = Len(t) + 1
    BY <1>1, <1>3
  <2>4. Reading(Start(m), t \o <<l>>) = ReadLine(acc, l)
    BY <1>1, <1>3, ReadingOne DEF acc
  <2>5. ReadTo(m, t \o <<l>>, H)
    BY <2>1, <2>3, <2>4 DEF ReadTo
  <2> QED BY <2>2, <2>5 DEF H
<1>5. CASE v.attr
  <2>1. Stage(m, ReadLine(ReadLine(acc, l), la), Len(t) + 2, H)
    <3> HIDE DEF acc
    <3> QED BY <1>1, <1>5, ReadWithAttr
  <2> HIDE DEF l, la, H, acc
  <2>2. LinesOfVar(m, c, v) = <<l>> \o <<la>>
    BY <1>5 DEF LinesOfVar, l, la
  <2>3. t \o <<l>> \in Seq(CsvLine) /\ (t \o <<l>>) \o <<la>> \in Seq(CsvLine)
        /\ Len((t \o <<l>>) \o <<la>>) = Len(t) + 2
        /\ t \o (<<l>> \o <<la>>) = (t \o <<l>>) \o <<la>>
    BY <1>1, <1>3
  <2>4. Reading(Start(m), t \o <<l>>) = ReadLine(acc, l)
    BY <1>1, <1>3, ReadingOne DEF acc
  <2>5. Reading(Start(m), (t \o <<l>>) \o <<la>>) = ReadLine(ReadLine(acc, l), la)
    BY <1>1, <1>3, <2>3, <2>4, ReadingOne
  <2>6. ReadTo(m, (t \o <<l>>) \o <<la>>, H)
    BY <2>1, <2>3, <2>5 DEF ReadTo
  <2> QED BY <2>2, <2>3, <2>6 DEF H
<1> QED BY <1>4, <1>5

LEMMA ConcatOnce ==
    ASSUME NEW S, NEW a \in Seq(S), NEW b \in Seq(S), NEW c \in Seq(S)
    PROVE  (a \o b) \o c = a \o (b \o c)
OBVIOUS

\* The values are of m, those with attributes in its data.
AreOf(vals, m, c) ==
    \A v \in ToSet(vals) : /\ <<LineCtx(c), v>> \in Holding(m)
                           /\ v.attr => LineCtx(c) # StationCtx

LEMMA ReadsLines ==
    ASSUME NEW m \in Msg, Carried(m), NEW t, NEW G, ReadTo(m, t, G),
           NEW c, HasKey(c), NEW vals \in SortedVars, AreOf(vals, m, c)
    PROVE  ReadTo(m, t \o LinesOf(m, c, vals), G \cup {<<LineCtx(c), v>> : v \in ToSet(vals)})
<1> DEFINE n == Len(vals)
           H(k) == G \cup {<<LineCtx(c), vals[i]>> : i \in 1..k}
<1>1. /\ n \in Nat /\ ToSet(vals) = {vals[i] : i \in 1..n}
      /\ \A i \in 1..n : vals[i] \in Variable
  <2>1. n \in Nat /\ DOMAIN vals = 1..n /\ \A i \in 1..n : vals[i] \in Variable
    BY SortedVarsAre
  <2> QED BY <2>1, ElementsOf
<1>2. PICK h : /\ h[0] = <<>>
               /\ \A k \in 1..n : h[k] = h[k - 1] \o LinesOfVar(m, c, vals[k])
               /\ \A k \in 0..n : h[k] \in Seq(CsvLine)
               /\ LinesOf(m, c, vals) = h[n]
  BY LinesOfSteps DEF WritesVars
<1>3. t \in Seq(CsvLine)
  BY DEF ReadTo
<1> DEFINE K == {k \in Nat : k <= n => ReadTo(m, t \o h[k], H(k))}
<1>4. 0 \in K
  <2>1. t \o h[0] = t
    BY <1>2, <1>3
  <2>2. H(0) = G
    OBVIOUS
  <2> HIDE DEF H
  <2> QED BY <2>1, <2>2
<1>5. ASSUME NEW k \in Nat, k \in K PROVE k + 1 \in K
  <2> SUFFICES ASSUME k + 1 <= n PROVE ReadTo(m, t \o h[k + 1], H(k + 1))
    OBVIOUS
  <2> DEFINE v == vals[k + 1]
             s == LinesOfVar(m, c, v)
  <2>1. k + 1 \in 1..n /\ (k + 1) - 1 = k /\ k \in 0..n /\ k <= n
    BY <1>1
  <2>2. /\ h[k + 1] = h[k] \o s /\ h[k] \in Seq(CsvLine)
        /\ v \in ToSet(vals) /\ v \in Variable
    BY <1>1, <1>2, <2>1
  <2>3. ReadTo(m, t \o h[k], H(k))
    BY <1>5, <2>1
  <2>4. s \in Seq(CsvLine)
    BY <2>2, LinesOfVarIs
  <2>5. H(k + 1) = H(k) \cup {<<LineCtx(c), v>>}
    <3>1. \A i \in 1..k + 1 : i = k + 1 \/ i \in 1..k
      OBVIOUS
    <3>2. \A i \in 1..k : i \in 1..k + 1
      OBVIOUS
    <3> QED BY <2>1, <3>1, <3>2
  <2>6. ReadTo(m, (t \o h[k]) \o s, H(k) \cup {<<LineCtx(c), v>>})
    <3> HIDE DEF H, v
    <3>1. <<LineCtx(c), v>> \in Holding(m) /\ (v.attr => LineCtx(c) # StationCtx)
      BY <2>2 DEF AreOf
    <3> QED BY <2>3, <3>1, ReadsVar DEF s
  <2> HIDE DEF s, H, v
  <2>7. (t \o h[k]) \o s = t \o (h[k] \o s)
    <3> DEFINE u == h[k]
    <3>1. u \in Seq(CsvLine)
      BY <2>2
    <3> HIDE DEF u
    <3>2. (t \o u) \o s = t \o (u \o s)
      BY <1>3, <2>4, <3>1, ConcatOnce
    <3> QED BY <3>2 DEF u
  <2> QED BY <2>2, <2>5, <2>6, <2>7
<1>6. Nat \subseteq K
  <2> HIDE DEF K
  <2> QED BY <1>4, <1>5, Induct
<1>7. ReadTo(m, t \o h[n], H(n))
  <2> HIDE DEF H
  <2> QED BY <1>1, <1>6
<1>8. H(n) = G \cup {<<LineCtx(c), v>> : v \in ToSet(vals)}
  BY <1>1
<1> HIDE DEF H
<1> QED BY <1>2, <1>7, <1>8

\* A sequence that goes on begins as it did.
LEMMA StillBegins ==
    ASSUME NEW S, NEW a \in Seq(S), NEW b \in Seq(S), a # <<>>
    PROVE  a \o b \in Seq(S) /\ a \o b # <<>> /\ (a \o b)[1] = a[1]
<1>1. Len(a) \in Nat /\ Len(a) # 0 /\ Len(b) \in Nat
  BY EmptySeq, LenProperties
<1>2. /\ a \o b \in Seq(S) /\ Len(a \o b) = Len(a) + Len(b)
      /\ \A i \in 1..Len(a) : (a \o b)[i] = a[i]
  BY ConcatIs
<1>3. 1 \in 1..Len(a)
  BY <1>1
<1>4. Len(a \o b) # 0
  BY <1>1, <1>2
<1> QED BY <1>2, <1>3, <1>4, EmptySeq

LEMMA LinesOfIs ==
    ASSUME NEW m \in Msg, Carried(m), NEW c, HasKey(c), NEW vals \in SortedVars
    PROVE  /\ LinesOf(m, c, vals) \in Seq(CsvLine)
           /\ 1 \in 1..Len(vals) => /\ LinesOf(m, c, vals) # <<>>
                                    /\ LinesOf(m, c, vals)[1] = Line(m, c, vals[1], FALSE)
<1> DEFINE n == Len(vals)
           l == Line(m, c, vals[1], FALSE)
           Begins(t) == t \in Seq(CsvLine) /\ t # <<>> /\ t[1] = l
<1>1. n \in Nat /\ \A i \in 1..n : vals[i] \in Variable
  BY SortedVarsAre
<1>2. PICK h : WritesVars(h, m, c, vals)
  BY LinesOfSteps
<1>3. /\ h[0] = <<>> /\ LinesOf(m, c, vals) = h[n]
      /\ \A k \in 1..n : h[k] = h[k - 1] \o LinesOfVar(m, c, vals[k])
      /\ \A k \in 0..n : h[k] \in Seq(CsvLine)
  BY <1>2 DEF WritesVars
<1>4. LinesOf(m, c, vals) \in Seq(CsvLine)
  BY <1>1, <1>3
<1>5. ASSUME 1 \in 1..n PROVE Begins(LinesOf(m, c, vals))
  <2> DEFINE K == {k \in Nat : k + 1 <= n => Begins(h[k + 1])}
             first == LinesOfVar(m, c, vals[1])
  <2>1. Begins(first)
    BY <1>1, <1>5, LinesOfVarIs
  <2>2. 0 \in K
    <3>1. h[1] = <<>> \o first
      <4>1. ASSUME NEW k \in 1..n, k = 1 PROVE h[k] = <<>> \o LinesOfVar(m, c, vals[k])
        <5>1. k - 1 = 0
          BY <4>1
        <5> QED BY <1>3, <5>1
      <4> QED BY <1>5, <4>1
    <3>2. <<>> \o first = first
      <4> HIDE DEF first
      <4> QED BY <2>1, ConcatEmptySeq
    <3>3. h[1] = first /\ 0 + 1 = 1
      BY <3>1, <3>2
    <3> HIDE DEF Begins, first
    <3> QED BY <2>1, <3>3
  <2>3. ASSUME NEW k \in Nat, k \in K PROVE k + 1 \in K
    <3> HIDE DEF Begins
    <3> SUFFICES ASSUME (k + 1) + 1 <= n PROVE Begins(h[(k + 1) + 1])
      OBVIOUS
    <3> DEFINE j == (k + 1) + 1
               t == LinesOfVar(m, c, vals[j])
               s == h[k + 1]
    <3>1. j \in 1..n /\ j - 1 = k + 1 /\ k + 1 <= n
      BY <1>1
    <3>2. Begins(s) /\ h[j] = s \o t
      BY <1>3, <2>3, <3>1
    <3>3. t \in Seq(CsvLine)
      BY <1>1, <3>1, LinesOfVarIs
    <3> HIDE DEF s, t, j, l
    <3>4. Begins(s \o t)
      BY <3>2, <3>3, StillBegins DEF Begins
    <3> QED BY <3>2, <3>4 DEF j
  <2>4. Nat \subseteq K
    <3> HIDE DEF K
    <3> QED BY <2>2, <2>3, Induct
  <2>5. n - 1 \in Nat /\ (n - 1) + 1 = n
    BY <1>1, <1>5
  <2>6. Begins(h[(n - 1) + 1])
    <3> HIDE DEF Begins
    <3> QED BY <1>1, <2>4, <2>5
  <2> HIDE DEF Begins
  <2> QED BY <1>3, <2>5, <2>6
<1> QED BY <1>4, <1>5

\* h holds the lines after each of the contexts.
WritesCtxs(h, m) ==
    /\ h[0] = LinesOf(m, StationCtx, m.station)
    /\ \A k \in 1..Len(m.data) : h[k] = h[k - 1] \o LinesOf(m, m.data[k], m.data[k].values)
    /\ \A k \in 0..Len(m.data) : h[k] \in Seq(CsvLine)
    /\ ToCsv(m) = h[Len(m.data)]

LEMMA ToCsvSteps ==
    ASSUME NEW m \in Msg, Carried(m)
    PROVE  \E h : WritesCtxs(h, m)
<1> DEFINE n == Len(m.data)
           cs == m.data
           L == Seq(CsvLine)
           base == LinesOf(m, StationCtx, m.station)
           Step(a, c) == a \o LinesOf(m, c, c.values)
           F == [x \in L \X (1..n) |-> Step(x[1], cs[x[2]])]
           P(f) == f = [s \in SUBSET (1..n) |->
                           IF s = {} THEN base ELSE Step(f[s \ {Max(s)}], cs[Max(s)])]
           g == CHOOSE f : P(f)
<1>1. /\ n \in Nat /\ DOMAIN cs = 1..n
      /\ \A i \in 1..n : HasKey(cs[i]) /\ cs[i].values \in SortedVars
  BY MsgIs, SortedCtxsAre, LenProperties
<1>2. base \in L
  BY MsgIs, StationIsKey, LinesOfIs
<1>3. \A a \in L, i \in 1..n : Step(a, cs[i]) \in L
  <2> TAKE a \in L, i \in 1..n
  <2> DEFINE b == LinesOf(m, cs[i], cs[i].values)
  <2>1. b \in L
    BY <1>1, LinesOfIs
  <2> HIDE DEF b
  <2>2. a \o b \in L
    BY <2>1, ConcatProperties
  <2> QED BY <2>2 DEF b
<1> HIDE DEF base
<1>4. \A a \in L, i \in 1..n : F[<<a, i>>] = Step(a, cs[i]) /\ F[<<a, i>>] \in L
  <2> HIDE DEF Step
  <2> QED BY <1>1, <1>3
<1>5. PICK f : LeftFolded(n, base, F, f) /\ \A s \in SUBSET (1..n) : f[s] \in L
  <2> HIDE DEF F, L
  <2> QED BY <1>1, <1>2, <1>4, FoldLeftExists
<1>6. \A s \in SUBSET (1..n) : s # {} => /\ Max(s) \in 1..n
                                         /\ s \ {Max(s)} \in SUBSET (1..n)
  BY <1>1, GreatestPosition
<1>7. P(f)
  <2> HIDE DEF F, Step, L
  <2>2. \A s \in SUBSET (1..n) : s # {} =>
            F[<<f[s \ {Max(s)}], Max(s)>>] = Step(f[s \ {Max(s)}], cs[Max(s)])
    BY <1>4, <1>5, <1>6
  <2> QED BY <1>5, <2>2 DEF LeftFolded
<1>8. P(g)
  <2> HIDE DEF P
  <2> QED BY <1>7
<1>9. ToCsv(m) = g[1..n]
  BY <1>1 DEF ToCsv, FoldLeft, MapThenFoldSet, base
<1> DEFINE h == [k \in 0..n |-> g[1..k]]
<1> HIDE DEF g, Step
<1>10. h[0] = base
  BY <1>1, <1>8
<1>11. ASSUME NEW k \in 1..n PROVE h[k] = Step(h[k - 1], cs[k])
  <2>1. /\ 1..k \in SUBSET (1..n) /\ 1..k # {}
        /\ Max(1..k) = k
        /\ (1..k) \ {k} = 1..k - 1
    BY <1>1, PrefixIs
  <2>2. g[1..k] = Step(g[1..k - 1], cs[k])
    BY <1>8, <2>1
  <2> QED BY <1>1, <2>2
<1>12. h[n] = g[1..n]
  BY <1>1
<1> HIDE DEF h, L
<1> DEFINE K == {k \in Nat : k <= n => h[k] \in L}
<1>13. 0 \in K
  BY <1>2, <1>10
<1>14. ASSUME NEW k \in Nat, k \in K PROVE k + 1 \in K
  <2> SUFFICES ASSUME k + 1 <= n PROVE h[k + 1] \in L
    OBVIOUS
  <2>1. k + 1 \in 1..n /\ k <= n /\ (k + 1) - 1 = k
    BY <1>1
  <2>2. h[k + 1] = Step(h[k], cs[k + 1]) /\ h[k] \in L
    BY <1>11, <1>14, <2>1
  <2> QED BY <1>3, <2>1, <2>2
<1>15. Nat \subseteq K
  <2> HIDE DEF K
  <2> QED BY <1>13, <1>14, Induct
<1>16. \A k \in 0..n : h[k] \in L
  BY <1>1, <1>15
<1>17. \A k \in 1..n : h[k] = h[k - 1] \o LinesOf(m, m.data[k], m.data[k].values)
  BY <1>11 DEF Step
<1> HIDE DEF K
<1> QED BY <1>9, <1>10, <1>12, <1>16, <1>17 DEF L, WritesCtxs, base

LEMMA ToCsvIs ==
    ASSUME NEW m \in Msg, Carried(m)
    PROVE  ToCsv(m) \in Seq(CsvLine) /\ ToCsv(m) # <<>> /\ ToCsv(m)[1] = First(m)
<1> DEFINE n == Len(m.data)
           cs == m.data
           Begins(t) == t \in Seq(CsvLine) /\ t # <<>> /\ t[1] = First(m)
<1>1. /\ n \in Nat /\ m.station \in SortedVars /\ HasKey(StationCtx)
      /\ \A i \in 1..n : HasKey(cs[i]) /\ cs[i].values \in SortedVars
  BY MsgIs, SortedCtxsAre, StationIsKey
<1>2. PICK h : WritesCtxs(h, m)
  BY ToCsvSteps
<1>3. /\ h[0] = LinesOf(m, StationCtx, m.station) /\ ToCsv(m) = h[n]
      /\ \A k \in 1..n : h[k] = h[k - 1] \o LinesOf(m, cs[k], cs[k].values)
  BY <1>2 DEF WritesCtxs
<1>4. Begins(h[0])
  <2> DEFINE s == m.station
             o == StationCtx
  <2>1. s \in SortedVars /\ HasKey(o) /\ 1 \in 1..Len(s)
    BY <1>1, FirstIs
  <2>2. First(m) = Line(m, o, s[1], FALSE) /\ h[0] = LinesOf(m, o, s)
    BY <1>3 DEF First
  <2> HIDE DEF s, o
  <2>3. /\ LinesOf(m, o, s) \in Seq(CsvLine) /\ LinesOf(m, o, s) # <<>>
        /\ LinesOf(m, o, s)[1] = Line(m, o, s[1], FALSE)
    BY <2>1, LinesOfIs
  <2> QED BY <2>2, <2>3
<1> HIDE DEF Begins
<1> DEFINE K == {k \in Nat : k <= n => Begins(h[k])}
<1>5. 0 \in K
  BY <1>4
<1>6. ASSUME NEW k \in Nat, k \in K PROVE k + 1 \in K
  <2> SUFFICES ASSUME k + 1 <= n PROVE Begins(h[k + 1])
    OBVIOUS
  <2> DEFINE t == LinesOf(m, cs[k + 1], cs[k + 1].values)
             s == h[k]
  <2>1. k + 1 \in 1..n /\ (k + 1) - 1 = k /\ k <= n
    BY <1>1
  <2>2. Begins(s) /\ h[k + 1] = s \o t
    BY <1>3, <1>6, <2>1
  <2>3. t \in Seq(CsvLine)
    BY <1>1, <2>1, LinesOfIs
  <2> HIDE DEF s, t
  <2>4. Begins(s \o t)
    BY <2>2, <2>3, StillBegins DEF Begins
  <2> QED BY <2>2, <2>4
<1>7. Nat \subseteq K
  <2> HIDE DEF K
  <2> QED BY <1>5, <1>6, Induct
<1>8. Begins(h[n])
  BY <1>1, <1>7
<1> QED BY <1>3, <1>8 DEF Begins

\* A message that is written is read whole.
LEMMA ReadsMessage ==
    ASSUME NEW m \in Msg, Carried(m)
    PROVE  ReadTo(m, ToCsv(m), Holding(m))
<1> DEFINE n == Len(m.data)
           cs == m.data
           S == {<<StationCtx, v>> : v \in ToSet(m.station)}
           D(i) == {<<CtxOf(cs[i]), v>> : v \in ToSet(cs[i].values)}
           H(k) == S \cup UNION {D(i) : i \in 1..k}
<1>1. /\ n \in Nat /\ m.station \in SortedVars /\ HasKey(StationCtx)
      /\ ToSet(cs) = {cs[i] : i \in 1..n} /\ DOMAIN cs = 1..n
  BY MsgIs, SortedCtxsAre, StationIsKey, LenProperties
<1>2. ASSUME NEW i \in 1..n
      PROVE  /\ HasKey(cs[i]) /\ cs[i].values \in SortedVars
             /\ LineCtx(cs[i]) = CtxOf(cs[i]) /\ AreOf(cs[i].values, m, cs[i])
  <2>1. cs[i] \in ToSet(cs)
    BY <1>1
  <2>2. HasKey(cs[i]) /\ cs[i].values \in SortedVars /\ CtxOf(cs[i]) # StationCtx
    BY <2>1, MsgIs
  <2>3. LineCtx(cs[i]) = CtxOf(cs[i])
    BY <1>1 DEF Carried, LineCtx
  <2>4. \A v \in ToSet(cs[i].values) : <<CtxOf(cs[i]), v>> \in Holding(m)
    BY <2>1 DEF Holding, Content
  <2> QED BY <2>2, <2>3, <2>4 DEF AreOf
<1>3. LineCtx(StationCtx) = StationCtx /\ AreOf(m.station, m, StationCtx)
  <2>1. LineCtx(StationCtx) = StationCtx
    BY DEF LineCtx, StationCtx
  <2>2. \A v \in ToSet(m.station) : ~v.attr
    BY DEF Carried, ToSet
  <2> QED BY <2>1, <2>2 DEF AreOf, Holding
<1>4. PICK h : WritesCtxs(h, m)
  BY ToCsvSteps
<1>5. /\ h[0] = LinesOf(m, StationCtx, m.station) /\ ToCsv(m) = h[n]
      /\ \A k \in 1..n : h[k] = h[k - 1] \o LinesOf(m, cs[k], cs[k].values)
  BY <1>4 DEF WritesCtxs
<1>6. ReadTo(m, h[0], H(0))
  <2> DEFINE t == LinesOf(m, StationCtx, m.station)
  <2>1. ReadTo(m, <<>>, {})
    BY StartIs
  <2>2. ReadTo(m, <<>> \o t, {} \cup {<<LineCtx(StationCtx), v>> : v \in ToSet(m.station)})
    <3> DEFINE o == StationCtx
               s == m.station
               a == <<>>
               G == {}
    <3>1. ReadTo(m, a, G) /\ HasKey(o) /\ s \in SortedVars /\ AreOf(s, m, o)
      BY <1>1, <1>3, <2>1
    <3> HIDE DEF o, s, a, G
    <3>2. ReadTo(m, a \o LinesOf(m, o, s), G \cup {<<LineCtx(o), v>> : v \in ToSet(s)})
      BY <3>1, ReadsLines
    <3> QED BY <3>2 DEF o, s, a, G
  <2>3. <<>> \o t = t
    BY <1>1, LinesOfIs, ConcatEmptySeq
  <2>4. H(0) = {} \cup {<<LineCtx(StationCtx), v>> : v \in ToSet(m.station)}
    BY <1>3
  <2> QED BY <1>5, <2>2, <2>3, <2>4
<1> DEFINE K == {k \in Nat : k <= n => ReadTo(m, h[k], H(k))}
<1>7. 0 \in K
  <2> HIDE DEF H
  <2> QED BY <1>6
<1>8. ASSUME NEW k \in Nat, k \in K PROVE k + 1 \in K
  <2> SUFFICES ASSUME k + 1 <= n PROVE ReadTo(m, h[k + 1], H(k + 1))
    OBVIOUS
  <2> DEFINE c == cs[k + 1]
  <2>1. k + 1 \in 1..n /\ (k + 1) - 1 = k /\ k <= n
    BY <1>1
  <2>2. ReadTo(m, h[k], H(k)) /\ h[k + 1] = h[k] \o LinesOf(m, c, c.values)
    <3> HIDE DEF H
    <3> QED BY <1>5, <1>8, <2>1
  <2>3. HasKey(c) /\ c.values \in SortedVars /\ LineCtx(c) = CtxOf(c) /\ AreOf(c.values, m, c)
    BY <1>2, <2>1
  <2>4. H(k + 1) = H(k) \cup {<<LineCtx(c), v>> : v \in ToSet(c.values)}
    <3>1. {<<LineCtx(c), v>> : v \in ToSet(c.values)} = D(k + 1)
      BY <2>3
    <3>2. \A i \in 1..k + 1 : i = k + 1 \/ i \in 1..k
      OBVIOUS
    <3>3. \A i \in 1..k : i \in 1..k + 1
      OBVIOUS
    <3> HIDE DEF D
    <3> QED BY <2>1, <3>1, <3>2, <3>3
  <2> HIDE DEF H, c
  <2>5. ReadTo(m, h[k] \o LinesOf(m, c, c.values), H(k) \cup {<<LineCtx(c), v>> : v \in ToSet(c.values)})
    BY <2>2, <2>3, ReadsLines
  <2> QED BY <2>2, <2>4, <2>5
<1>9. Nat \subseteq K
  <2> HIDE DEF K
  <2> QED BY <1>7, <1>8, Induct
<1>10. ReadTo(m, h[n], H(n))
  <2> HIDE DEF H
  <2> QED BY <1>1, <1>9
<1>11. H(n) = Holding(m)
  BY <1>1 DEF Holding, Content
<1> HIDE DEF H
<1> QED BY <1>5, <1>10, <1>11

\* What FromCsv says of lines that begin with those of m.
Taken(acc, m) == ~acc.failed /\ acc.msg = WithoutEmpty(m) /\ acc.n = Len(ToCsv(m))

\* A message of a program that reads lines ends where those of another begin.
Other(r, m) ==
    r # <<>> => r[1].place # ValueOf(m, Place) \/ r[1].rep # ValueOf(m, RepMemo)

LEMMA ReadsOneMessage ==
    ASSUME NEW m \in Msg, Carried(m), NEW r \in Seq(CsvLine), Other(r, m)
    PROVE  Taken(FromCsv(ToCsv(m) \o r), m)
<1> DEFINE t == ToCsv(m)
           acc == Reading(Start(m), t)
           n == Len(r)
<1>1. t \in Seq(CsvLine) /\ t # <<>> /\ t[1] = First(m)
  BY ToCsvIs
<1>2. PICK x, w : /\ acc = AtLine(m, x, w, Len(t)) /\ w \in Datetimes(m)
                  /\ Partial(m, x) /\ Holding(m) \subseteq Holding(x)
  BY ReadsMessage DEF ReadTo, Stage
<1>3. x = WithoutEmpty(m)
  <2> DEFINE y == WithoutEmpty(m)
  <2>1. x \in Msg /\ x.type = m.type /\ NoneEmpty(x.data) /\ Holding(x) = Holding(m)
    BY <1>2 DEF Partial
  <2>2. y \in Msg /\ y.type = m.type /\ NoneEmpty(y.data) /\ Holding(y) = Holding(m)
    BY WithoutEmptyIs
  <2> HIDE DEF y
  <2> QED BY <2>1, <2>2, HoldingSame DEF y
<1>4. Taken(acc, m) /\ acc.first = First(m)
  BY <1>2, <1>3 DEF Taken, AtLine
<1>41. acc \in Reader
  <2>1. Len(t) \in Nat
    BY <1>1, LenProperties
  <2> QED BY <1>2, <2>1, AtLineIs DEF Partial
<1>5. FromCsv(t \o r) = Reading(Start(m), t \o r)
  <2> HIDE DEF t
  <2>1. (t \o r)[1] = First(m)
    BY <1>1, StillBegins
  <2> QED BY <2>1, StartIs
<1>6. Start(m) \in Reader
  BY StartIs
<1> HIDE DEF acc, t
<1>7. PICK h : /\ h[0] = acc
               /\ \A k \in 1..n : h[k] = ReadLine(h[k - 1], r[k])
               /\ Reading(Start(m), t \o r) = h[n]
  BY <1>1, <1>6, ReadingOn DEF acc
<1>8. n \in Nat
  BY LenProperties
<1> DEFINE K == {k \in Nat : k <= n => /\ h[k] \in Reader /\ Taken(h[k], m)
                                    /\ (k = 0 \/ h[k].end)}
<1>9. 0 \in K
  BY <1>4, <1>41, <1>7
<1>10. ASSUME NEW k \in Nat, k \in K PROVE k + 1 \in K
  <2> SUFFICES ASSUME k + 1 <= n PROVE h[k + 1] \in Reader /\ Taken(h[k + 1], m) /\ h[k + 1].end
    OBVIOUS
  <2> DEFINE a == h[k]
             l == r[k + 1]
  <2>1. /\ k + 1 \in 1..n /\ (k + 1) - 1 = k /\ k <= n /\ h[k + 1] = ReadLine(a, l)
        /\ a \in Reader /\ Taken(a, m) /\ (k = 0 \/ a.end) /\ l \in CsvLine
    BY <1>7, <1>8, <1>10, ElementOfSeq
  <2>2. a.end \/ EndsMessage(a, l)
    <3>1. CASE k = 0
      <4>1. a = acc /\ l = r[1] /\ r # <<>>
        BY <1>7, <1>8, <2>1, <3>1, EmptySeq
      <4>2. First(m).place = ValueOf(m, Place) /\ First(m).rep = ValueOf(m, RepMemo)
        BY FirstIs
      <4> QED BY <1>4, <4>1, <4>2 DEF Other, EndsMessage
    <3> QED BY <2>1, <3>1
  <2> HIDE DEF a, l
  <2>3. h[k + 1] = [a EXCEPT !.end = TRUE]
    BY <2>1, <2>2 DEF ReadLine
  <2>4. h[k + 1] \in Reader
    BY <2>1, ReadLineIs
  <2> QED BY <2>1, <2>3, <2>4 DEF Taken, Reader
<1>11. Nat \subseteq K
  <2> HIDE DEF K
  <2> QED BY <1>9, <1>10, Induct
<1>12. Taken(h[n], m)
  BY <1>8, <1>11
<1> QED BY <1>5, <1>7, <1>12 DEF t

----------------------------------------------------------------------------
(* The file *)

\* f holds what the file is after each of the messages.
Written(f, ms) ==
    /\ f[0] = <<>>
    /\ \A k \in 1..Len(ms) : f[k] = f[k - 1] \o ToCsv(ms[k])
    /\ \A k \in 0..Len(ms) : f[k] \in Seq(CsvLine)
    /\ MessagesToCsv(ms) = f[Len(ms)]

LEMMA MessagesToCsvSteps ==
    ASSUME NEW ms \in Seq(Msg), \A i \in 1..Len(ms) : Carried(ms[i])
    PROVE  \E f : Written(f, ms)
<1> DEFINE n == Len(ms)
           L == Seq(CsvLine)
           Step(a, m) == a \o ToCsv(m)
           F == [x \in L \X (1..n) |-> Step(x[1], ms[x[2]])]
           P(f) == f = [s \in SUBSET (1..n) |->
                           IF s = {} THEN <<>> ELSE Step(f[s \ {Max(s)}], ms[Max(s)])]
           g == CHOOSE f : P(f)
<1>1. n \in Nat /\ DOMAIN ms = 1..n /\ \A i \in 1..n : ms[i] \in Msg
  BY LenProperties, ElementOfSeq
<1>2. <<>> \in L
  BY EmptySeq
<1>3. \A a \in L, i \in 1..n : Step(a, ms[i]) \in L
  <2> TAKE a \in L, i \in 1..n
  <2> DEFINE b == ToCsv(ms[i])
  <2>1. b \in L
    BY <1>1, ToCsvIs
  <2> HIDE DEF b
  <2>2. a \o b \in L
    BY <2>1, ConcatProperties
  <2> QED BY <2>2 DEF b
<1>4. \A a \in L, i \in 1..n : F[<<a, i>>] = Step(a, ms[i]) /\ F[<<a, i>>] \in L
  <2> HIDE DEF Step
  <2> QED BY <1>1, <1>3
<1>5. PICK f : LeftFolded(n, <<>>, F, f) /\ \A s \in SUBSET (1..n) : f[s] \in L
  <2> HIDE DEF F, L
  <2> QED BY <1>1, <1>2, <1>4, FoldLeftExists
<1>6. \A s \in SUBSET (1..n) : s # {} => /\ Max(s) \in 1..n
                                         /\ s \ {Max(s)} \in SUBSET (1..n)
  BY <1>1, GreatestPosition
<1>7. P(f)
  <2> HIDE DEF F, Step, L
  <2>2. \A s \in SUBSET (1..n) : s # {} =>
            F[<<f[s \ {Max(s)}], Max(s)>>] = Step(f[s \ {Max(s)}], ms[Max(s)])
    BY <1>4, <1>5, <1>6
  <2> QED BY <1>5, <2>2 DEF LeftFolded
<1>8. P(g)
  <2> HIDE DEF P
  <2> QED BY <1>7
<1>9. MessagesToCsv(ms) = g[1..n]
  BY <1>1 DEF MessagesToCsv, FoldLeft, MapThenFoldSet
<1> DEFINE h == [k \in 0..n |-> g[1..k]]
<1> HIDE DEF g, Step
<1>10. h[0] = <<>>
  BY <1>1, <1>8
<1>11. ASSUME NEW k \in 1..n PROVE h[k] = Step(h[k - 1], ms[k])
  <2>1. /\ 1..k \in SUBSET (1..n) /\ 1..k # {}
        /\ Max(1..k) = k
        /\ (1..k) \ {k} = 1..k - 1
    BY <1>1, PrefixIs
  <2>2. g[1..k] = Step(g[1..k - 1], ms[k])
    BY <1>8, <2>1
  <2> QED BY <1>1, <2>2
<1>12. h[n] = g[1..n]
  BY <1>1
<1> HIDE DEF h, L
<1> DEFINE K == {k \in Nat : k <= n => h[k] \in L}
<1>13. 0 \in K
  BY <1>2, <1>10
<1>14. ASSUME NEW k \in Nat, k \in K PROVE k + 1 \in K
  <2> SUFFICES ASSUME k + 1 <= n PROVE h[k + 1] \in L
    OBVIOUS
  <2>1. k + 1 \in 1..n /\ k <= n /\ (k + 1) - 1 = k
    BY <1>1
  <2>2. h[k + 1] = Step(h[k], ms[k + 1]) /\ h[k] \in L
    BY <1>11, <1>14, <2>1
  <2> QED BY <1>3, <2>1, <2>2
<1>15. Nat \subseteq K
  <2> HIDE DEF K
  <2> QED BY <1>13, <1>14, Induct
<1>16. \A k \in 0..n : h[k] \in L
  BY <1>1, <1>15
<1>17. \A k \in 1..n : h[k] = h[k - 1] \o ToCsv(ms[k])
  BY <1>11 DEF Step
<1> HIDE DEF K
<1> QED BY <1>9, <1>10, <1>12, <1>16, <1>17 DEF L, Written

\* What the file has after the first k messages, when d more are written.
Goes(f, ms, k, d) ==
    \E r \in Seq(CsvLine) :
        /\ f[k + d] = f[k] \o r
        /\ d = 0 => r = <<>>
        /\ d # 0 => r # <<>> /\ r[1] = First(ms[k + 1])

LEMMA FileGoesOn ==
    ASSUME NEW ms \in Seq(Msg), \A i \in 1..Len(ms) : Carried(ms[i]),
           NEW f, Written(f, ms), NEW k \in 0..Len(ms)
    PROVE  Goes(f, ms, k, Len(ms) - k)
<1> DEFINE n == Len(ms)
           S == Seq(CsvLine)
<1>1. /\ n \in Nat /\ k \in Nat /\ n - k \in Nat /\ \A i \in 1..n : ms[i] \in Msg
      /\ \A i \in 0..n : f[i] \in S
      /\ \A i \in 1..n : f[i] = f[i - 1] \o ToCsv(ms[i])
  <2>1. n \in Nat /\ \A i \in 1..n : ms[i] \in Msg
    BY LenProperties, ElementOfSeq
  <2>2. k \in Nat /\ n - k \in Nat
    BY <2>1
  <2> QED BY <2>1, <2>2 DEF Written
<1> DEFINE K == {d \in Nat : k + d <= n => Goes(f, ms, k, d)}
<1>2. 0 \in K
  <2> DEFINE a == f[k]
             none == <<>>
  <2>1. a \in S /\ f[k + 0] = a
    BY <1>1
  <2> HIDE DEF a
  <2>2. none \in S /\ a \o none = a
    BY <2>1, EmptySeq, ConcatEmptySeq
  <2> HIDE DEF none
  <2>3. Goes(f, ms, k, 0)
    BY <2>1, <2>2 DEF Goes, a, none
  <2> QED BY <2>3
<1>3. ASSUME NEW d \in Nat, d \in K PROVE d + 1 \in K
  <2> SUFFICES ASSUME k + (d + 1) <= n PROVE Goes(f, ms, k, d + 1)
    OBVIOUS
  <2> DEFINE b == ToCsv(ms[k + d + 1])
             a == f[k]
  <2>1. /\ k + d + 1 \in 1..n /\ (k + d + 1) - 1 = k + d /\ k + (d + 1) = k + d + 1
        /\ k + d <= n /\ d + 1 # 0
    BY <1>1
  <2>2. Goes(f, ms, k, d) /\ f[k + (d + 1)] = f[k + d] \o b /\ a \in S
    BY <1>1, <1>3, <2>1
  <2>3. b \in S /\ b # <<>> /\ b[1] = First(ms[k + d + 1])
    BY <1>1, <2>1, ToCsvIs
  <2>4. PICK r \in S : /\ f[k + d] = a \o r
                       /\ d = 0 => r = <<>>
                       /\ d # 0 => r # <<>> /\ r[1] = First(ms[k + 1])
    BY <2>2 DEF Goes
  <2> HIDE DEF a, b
  <2>5. (a \o r) \o b = a \o (r \o b)
    <3>1. a \in S /\ r \in S /\ b \in S
      BY <2>2, <2>3
    <3> QED BY <3>1, ConcatOnce
  <2>6. f[k + (d + 1)] = a \o (r \o b)
    BY <2>2, <2>4, <2>5
  <2> DEFINE t == r \o b
  <2>7. t \in S /\ t # <<>> /\ t[1] = First(ms[k + 1])
    <3>1. CASE d = 0
      <4>1. t = b
        BY <2>3, <2>4, <3>1, ConcatEmptySeq
      <4>2. k + d + 1 = k + 1
        BY <3>1
      <4> QED BY <2>3, <4>1, <4>2
    <3>2. CASE d # 0
      BY <2>3, <2>4, <3>2, StillBegins
    <3> QED BY <3>1, <3>2
  <2> HIDE DEF t
  <2> QED BY <2>1, <2>6, <2>7 DEF Goes, t, a
<1>4. Nat \subseteq K
  <2> HIDE DEF K
  <2> QED BY <1>2, <1>3, Induct
<1>5. k + (n - k) <= n
  BY <1>1
<1> QED BY <1>1, <1>4, <1>5

LEMMA RestOf ==
    ASSUME NEW S, NEW a \in Seq(S), NEW b \in Seq(S)
    PROVE  SubSeq(a \o b, Len(a) + 1, Len(a \o b)) = b
<1> DEFINE s == a \o b
           n == Len(a)
           t == SubSeq(s, n + 1, Len(s))
<1>1. /\ n \in Nat /\ Len(b) \in Nat /\ Len(s) = n + Len(b) /\ s \in Seq(S)
      /\ \A i \in 1..Len(b) : s[n + i] = b[i]
  BY ConcatIs, LenProperties
<1>2. \A i \in n + 1..Len(s) : s[i] \in S
  <2> HIDE DEF s, n
  <2>1. \A i \in 1..Len(s) : s[i] \in S
    BY <1>1, ElementOfSeq
  <2> QED BY <1>1, <2>1
<1> HIDE DEF s
<1>3. /\ t \in Seq(S)
      /\ Len(t) = IF n + 1 <= Len(s) THEN Len(s) - (n + 1) + 1 ELSE 0
      /\ \A i \in 1..Len(s) - (n + 1) + 1 : t[i] = s[n + 1 + i - 1]
  <2> HIDE DEF n
  <2> QED BY <1>1, <1>2, SubSeqProperties
<1> HIDE DEF n, t
<1>4. Len(t) = Len(b)
  BY <1>1, <1>3
<1>5. \A i \in 1..Len(b) : t[i] = b[i]
  <2> TAKE i \in 1..Len(b)
  <2>1. n + 1 + i - 1 = n + i /\ i \in 1..Len(s) - (n + 1) + 1
    BY <1>1
  <2> QED BY <1>1, <1>3, <2>1
<1>6. t = b
  BY <1>3, <1>4, <1>5, SeqEqual
<1> QED BY <1>6 DEF t, s, n

\* What is read when k messages have been.
LEMMA ReadsNext ==
    ASSUME NEW ms \in Seq(Msg), Writable(ms), NEW f, Written(f, ms),
           NEW k \in 0..Len(ms), k # Len(ms), NEW all, all = f[Len(ms)]
    PROVE  /\ Len(f[k]) < Len(all)
           /\ Taken(FromCsv(SubSeq(all, Len(f[k]) + 1, Len(all))), ms[k + 1])
           /\ Len(f[k]) + Len(ToCsv(ms[k + 1])) = Len(f[k + 1])
<1> DEFINE n == Len(ms)
           S == Seq(CsvLine)
           m == ms[k + 1]
           a == f[k]
           t == ToCsv(m)
<1>1. /\ n \in Nat /\ k \in Nat /\ k + 1 \in 1..n /\ k + 1 \in 0..n /\ (k + 1) - 1 = k
      /\ \A i \in 1..n : ms[i] \in Msg /\ Carried(ms[i])
      /\ \A i \in 1..n - 1 : ~SameSource(ms[i], ms[i + 1])
  <2>1. n \in Nat /\ DOMAIN ms = 1..n /\ \A i \in 1..n : ms[i] \in Msg
    BY LenProperties, ElementOfSeq
  <2>2. k \in Nat /\ k + 1 \in 1..n /\ k + 1 \in 0..n /\ (k + 1) - 1 = k
    <3> HIDE DEF n
    <3>1. k \in 0..n /\ k # n
      BY DEF n
    <3> QED BY <2>1, <3>1
  <2>3. \A i \in 1..n : Carried(ms[i])
    BY <2>1 DEF Writable
  <2>4. \A i \in 1..n - 1 : ~SameSource(ms[i], ms[i + 1])
    BY DEF Writable
  <2> QED BY <2>1, <2>2, <2>3, <2>4
<1>2. f[k + 1] = a \o t /\ a \in S /\ t \in S /\ t # <<>>
  BY <1>1, ToCsvIs DEF Written
<1>3. Goes(f, ms, k + 1, n - (k + 1))
  BY <1>1, FileGoesOn
<1>4. PICK r \in S : /\ all = f[k + 1] \o r
                     /\ n - (k + 1) = 0 => r = <<>>
                     /\ n - (k + 1) # 0 => r # <<>> /\ r[1] = First(ms[k + 1 + 1])
  <2>1. k + 1 + (n - (k + 1)) = n
    BY <1>1
  <2> QED BY <1>3, <2>1 DEF Goes
<1>5. Other(r, m)
  <2>1. CASE n - (k + 1) = 0
    BY <1>4, <2>1 DEF Other
  <2>2. CASE n - (k + 1) # 0
    <3> DEFINE o == ms[k + 1 + 1]
    <3>1. k + 1 \in 1..n - 1 /\ k + 1 + 1 \in 1..n
      BY <1>1, <2>2
    <3>2. ~SameSource(m, o) /\ o \in Msg /\ Carried(o)
      BY <1>1, <3>1
    <3>3. r[1] = First(o)
      BY <1>4, <2>2
    <3> HIDE DEF o, m
    <3>4. r[1].place = ValueOf(o, Place) /\ r[1].rep = ValueOf(o, RepMemo)
      BY <3>2, <3>3, FirstIs
    <3> QED BY <3>2, <3>4 DEF SameSource, Other
  <2> QED BY <2>1, <2>2
<1>6. m \in Msg /\ Carried(m)
  BY <1>1
<1> HIDE DEF m, t, a
<1>7. all = a \o (t \o r) /\ t \o r \in S
  <2>1. a \in S /\ t \in S /\ r \in S
    BY <1>2
  <2>2. (a \o t) \o r = a \o (t \o r)
    BY <2>1, ConcatOnce
  <2>3. t \o r \in S
    BY <2>1, ConcatProperties
  <2> QED BY <1>2, <1>4, <2>2, <2>3
<1>8. SubSeq(all, Len(a) + 1, Len(all)) = t \o r
  <2> DEFINE u == t \o r
  <2> HIDE DEF u
  <2>1. SubSeq(a \o u, Len(a) + 1, Len(a \o u)) = u
    BY <1>2, <1>7, RestOf DEF u
  <2> QED BY <1>7, <2>1 DEF u
<1>9. Taken(FromCsv(t \o r), m)
  BY <1>5, <1>6, ReadsOneMessage DEF t
<1>10. Len(f[k + 1]) = Len(a) + Len(t)
  BY <1>2, ConcatIs
<1>11. Len(a) < Len(all)
  <2>1. t \o r # <<>> /\ Len(all) = Len(a) + Len(t \o r)
    <3> DEFINE u == t \o r
    <3>1. u # <<>>
      BY <1>2, <1>4, StillBegins
    <3> HIDE DEF u
    <3>2. Len(a \o u) = Len(a) + Len(u)
      BY <1>2, <1>7, ConcatIs DEF u
    <3> QED BY <1>7, <3>1, <3>2 DEF u
  <2>2. Len(t \o r) \in Nat /\ Len(a) \in Nat
    BY <1>2, <1>7, LenProperties
  <2>3. Len(t \o r) # 0
    BY <1>7, <2>1, EmptySeq
  <2> QED BY <2>1, <2>2, <2>3
<1> QED BY <1>8, <1>9, <1>10, <1>11 DEF m, t, a

----------------------------------------------------------------------------
(* What is written is what is read *)

\* f tells what has been written of ms, and r and p what has been read of it.
Progress(f, ms, t, r, p) ==
    /\ Written(f, ms) /\ t = f[Len(ms)]
    /\ r \in Seq(Msg) /\ Len(r) <= Len(ms)
    /\ \A i \in 1..Len(r) : r[i] = WithoutEmpty(ms[i])
    /\ p = Len(f[Len(r)])

ReadWhole ==
    /\ \E f : Progress(f, msgs, file, read, pos)
    /\ phase # "failed"
    /\ phase = "done" => Len(read) = Len(msgs)

\* Nothing is read before it is written; then the lines that have been read are
\* all those of the messages that were.
CsvInv ==
    /\ phase \in {"idle", "held"} => read = <<>> /\ pos = 0
    /\ phase \notin {"idle", "held"} /\ Writable(msgs) => ReadWhole

LEMMA FileBegins ==
    ASSUME NEW ms \in Seq(Msg), Writable(ms)
    PROVE  \E f : Progress(f, ms, MessagesToCsv(ms), <<>>, 0)
<1> DEFINE none == <<>>
<1>1. Len(ms) \in Nat /\ DOMAIN ms = 1..Len(ms)
  BY LenProperties
<1>2. \A i \in 1..Len(ms) : Carried(ms[i])
  BY <1>1 DEF Writable
<1>3. PICK f : Written(f, ms)
  BY <1>2, MessagesToCsvSteps
<1>4. none \in Seq(Msg) /\ Len(none) = 0 /\ f[0] = none
  BY <1>3, EmptySeq DEF Written
<1> HIDE DEF none
<1>5. MessagesToCsv(ms) = f[Len(ms)]
  BY <1>3 DEF Written
<1>6. Progress(f, ms, MessagesToCsv(ms), none, 0)
  BY <1>1, <1>3, <1>4, <1>5 DEF Progress
<1> QED BY <1>6 DEF none

LEMMA ReadingGoesOn ==
    ASSUME NEW ms \in Seq(Msg), Writable(ms), NEW f, NEW t, NEW r, NEW p,
           Progress(f, ms, t, r, p), p < Len(t),
           NEW a, a = FromCsv(SubSeq(t, p + 1, Len(t)))
    PROVE  ~a.failed /\ Progress(f, ms, t, Append(r, a.msg), p + a.n)
<1> DEFINE k == Len(r)
           m == ms[k + 1]
           u == Append(r, a.msg)
<1>1. /\ Written(f, ms) /\ t = f[Len(ms)] /\ r \in Seq(Msg) /\ k <= Len(ms)
      /\ \A i \in 1..k : r[i] = WithoutEmpty(ms[i])
      /\ p = Len(f[k])
  BY DEF Progress
<1>2. Len(ms) \in Nat /\ k \in Nat
  BY <1>1, LenProperties
<1>3. k # Len(ms)
  <2> SUFFICES ASSUME k = Len(ms) PROVE FALSE
    OBVIOUS
  <2>1. k \in 0..Len(ms)
    BY <1>2
  <2>2. f[k] \in Seq(CsvLine)
    BY <1>1, <2>1 DEF Written
  <2>3. Len(t) \in Nat /\ p = Len(t)
    BY <1>1, <2>2, LenProperties
  <2> QED BY <2>3
<1>4. k \in 0..Len(ms) /\ k + 1 \in 1..Len(ms) /\ k + 1 <= Len(ms)
  BY <1>1, <1>2, <1>3
<1>5. Taken(a, m) /\ p + Len(ToCsv(m)) = Len(f[k + 1])
  <2> HIDE DEF k
  <2> QED BY <1>1, <1>3, <1>4, ReadsNext
<1>6. m \in Msg
  BY <1>4, ElementOfSeq
<1>7. ~a.failed /\ a.msg = WithoutEmpty(m) /\ a.msg \in Msg /\ p + a.n = Len(f[k + 1])
  BY <1>5, <1>6, WithoutEmptyIs DEF Taken
<1>8. /\ u \in Seq(Msg) /\ Len(u) = k + 1
      /\ \A i \in 1..k : u[i] = r[i]
      /\ u[k + 1] = a.msg
  BY <1>1, <1>7, AppendProperties
<1> HIDE DEF u
<1>9. \A i \in 1..Len(u) : u[i] = WithoutEmpty(ms[i])
  <2> TAKE i \in 1..Len(u)
  <2>1. i \in 1..k \/ i = k + 1
    BY <1>2, <1>8
  <2> QED BY <1>1, <1>7, <1>8, <2>1
<1>10. Progress(f, ms, t, u, p + a.n)
  BY <1>1, <1>4, <1>7, <1>8, <1>9 DEF Progress
<1> QED BY <1>7, <1>10 DEF u

LEMMA ReadingEnds ==
    ASSUME NEW ms \in Seq(Msg), Writable(ms), NEW f, NEW t, NEW r, NEW p,
           Progress(f, ms, t, r, p), p = Len(t)
    PROVE  Len(r) = Len(ms)
<1> DEFINE k == Len(r)
<1>1. /\ Written(f, ms) /\ t = f[Len(ms)] /\ r \in Seq(Msg) /\ k <= Len(ms) /\ p = Len(f[k])
  BY DEF Progress
<1>2. Len(ms) \in Nat /\ k \in Nat
  BY <1>1, LenProperties
<1>3. k \in 0..Len(ms)
  BY <1>1, <1>2
<1> SUFFICES ASSUME k # Len(ms) PROVE FALSE
  OBVIOUS
<1> HIDE DEF k
<1>4. Len(f[k]) < Len(t)
  BY <1>1, <1>3, ReadsNext
<1>5. f[k] \in Seq(CsvLine)
  BY <1>1, <1>3 DEF Written
<1> QED BY <1>1, <1>4, <1>5, LenProperties

\* What can be written is read back message by message, to the end of the file.
THEOREM CsvIsReadBack == Spec => []CsvReadsBack
<1>1. Init => CsvInv
  BY DEF Init, CsvInv
<1>2. ASSUME MessagesSorted, CsvInv, [Next]_vars PROVE CsvInv'
  <2>1. msgs \in Seq(Msg)
    BY <1>2 DEF MessagesSorted
  <2>2. ASSUME NEW codes \in Queries, QueryMessages(codes) PROVE CsvInv'
    BY <1>2, <2>2 DEF QueryMessages, CsvInv
  <2>3. ASSUME NEW i \in DOMAIN msgs, EditMessage(i) PROVE CsvInv'
    <3>1. phase = "held" /\ phase' = phase /\ read' = read /\ pos' = pos
      BY <2>3 DEF EditMessage, Edit, Set, Unset, RemoveContext, SoundingPackLevels
    <3> QED BY <1>2, <3>1 DEF CsvInv
  <2>4. CASE WriteCsv
    <3>1. /\ phase = "held" /\ phase' = "written" /\ msgs' = msgs /\ file' = MessagesToCsv(msgs)
          /\ read' = read /\ pos' = pos /\ read = <<>> /\ pos = 0
      BY <1>2, <2>4 DEF WriteCsv, CsvInv
    <3>2. Writable(msgs) => \E f : Progress(f, msgs, file', read', pos')
      BY <2>1, <3>1, FileBegins
    <3> QED BY <3>1, <3>2 DEF CsvInv, ReadWhole
  <2>5. CASE ReadAndImport
    <3> DEFINE a == FromCsv(SubSeq(file, pos + 1, Len(file)))
    <3>1. /\ phase = "written" /\ pos < Len(file) /\ msgs' = msgs /\ file' = file
          /\ \/ a.failed
             \/ /\ ~a.failed /\ read' = Append(read, a.msg) /\ pos' = pos + a.n
                /\ phase' = phase
      BY <2>5 DEF ReadAndImport
    <3>2. phase' \in {"written", "failed"}
      BY <2>5 DEF ReadAndImport
    <3> HIDE DEF a
    <3>3. ASSUME Writable(msgs) PROVE ReadWhole'
      <4>1. PICK f : Progress(f, msgs, file, read, pos)
        BY <1>2, <3>1, <3>3 DEF CsvInv, ReadWhole
      <4>2. ~a.failed /\ Progress(f, msgs, file, Append(read, a.msg), pos + a.n)
        BY <2>1, <3>1, <3>3, <4>1, ReadingGoesOn DEF a
      <4>3. phase' = "written" /\ Progress(f, msgs', file', read', pos')
        BY <3>1, <4>2
      <4> QED BY <4>3 DEF ReadWhole
    <3> QED BY <3>1, <3>2, <3>3 DEF CsvInv
  <2>6. CASE EndOfFile
    <3>1. /\ phase = "written" /\ pos = Len(file) /\ phase' = "done"
          /\ msgs' = msgs /\ file' = file /\ read' = read /\ pos' = pos
      BY <2>6 DEF EndOfFile
    <3>2. ASSUME Writable(msgs) PROVE ReadWhole'
      <4>1. PICK f : Progress(f, msgs, file, read, pos)
        BY <1>2, <3>1, <3>2 DEF CsvInv, ReadWhole
      <4>2. Len(read) = Len(msgs)
        BY <2>1, <3>1, <3>2, <4>1, ReadingEnds
      <4> QED BY <3>1, <4>1, <4>2 DEF ReadWhole
    <3> QED BY <3>1, <3>2 DEF CsvInv
  <2>7. CASE UNCHANGED vars
    BY <1>2, <2>7 DEF vars, CsvInv, ReadWhole
  <2> QED BY <1>2, <2>2, <2>3, <2>4, <2>5, <2>6, <2>7 DEF Next
<1>3. MessagesSorted /\ CsvInv => CsvReadsBack
  <2> SUFFICES ASSUME MessagesSorted, CsvInv, Writable(msgs)
               PROVE  /\ phase # "failed"
                      /\ \A i \in DOMAIN read : read[i] = WithoutEmpty(msgs[i])
                      /\ phase = "done" => Len(read) = Len(msgs)
    BY DEF CsvReadsBack
  <2>1. CASE phase \in {"idle", "held"}
    BY <2>1 DEF CsvInv
  <2>2. CASE phase \notin {"idle", "held"}
    <3>1. ReadWhole
      BY <2>2 DEF CsvInv
    <3>2. PICK f : Progress(f, msgs, file, read, pos)
      BY <3>1 DEF ReadWhole
    <3>3. read \in Seq(Msg) /\ \A i \in 1..Len(read) : read[i] = WithoutEmpty(msgs[i])
      BY <3>2 DEF Progress
    <3>4. DOMAIN read = 1..Len(read)
      BY <3>3, LenProperties
    <3> QED BY <3>1, <3>3, <3>4 DEF ReadWhole
  <2> QED BY <2>1, <2>2
<1> QED BY <1>1, <1>2, <1>3, MessagesStaySorted, PTL DEF Spec
=============================================================================
