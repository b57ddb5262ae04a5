---------------------------- MODULE MessageStore ----------------------------
(***************************************************************************)
(* What the messages that a program holds promise it: each is a map from   *)
(* context and code to a variable, in which there are no arrays, no order  *)
(* and no searches.  Contexts without values are contexts all the same.    *)
(***************************************************************************)
EXTENDS Integers, Sequences

CONSTANTS
    StationCtx,
    IsVsig(_, _),    \* whether these values, in this context, are a level of a sounding
    Packed(_)        \* the level of its pressure

VARIABLE held        \* a sequence of functions: context -> code -> variable

None == [c \in {} |-> 0]

At(f, c) == IF c \in DOMAIN f THEN f[c] ELSE None

With(f, c, g) == [x \in DOMAIN f \cup {c} |-> IF x = c THEN g ELSE f[x]]
Without(f, c) == [x \in DOMAIN f \ {c} |-> f[x]]

Set(i, c, v) == held' = [held EXCEPT ![i] = With(@, c, With(At(@, c), v.code, v))]

Unset(i, c, k) ==
    held' = [held EXCEPT ![i] = IF c \in DOMAIN @ THEN With(@, c, Without(@[c], k)) ELSE @]

\* The values of the station cannot be removed together.
Remove(i, c) ==
    held' = [held EXCEPT ![i] = IF c = StationCtx THEN @ ELSE Without(@, c)]

\* Which context a context of f goes to when its levels are packed.
Target(f, c) == IF c # StationCtx /\ IsVsig(c, f[c]) THEN Packed(c) ELSE c

\* Each level holds values that one of those packed into it had: all their codes,
\* unless the level was there already and was not of a sounding.
Pack(i) ==
    LET f == held[i]
        g == held'[i]
        From(d) == {c \in DOMAIN f : Target(f, c) = d}
        Codes(d) == UNION {DOMAIN f[c] : c \in From(d)}
    IN  /\ DOMAIN held' = DOMAIN held
        /\ \A j \in DOMAIN held \ {i} : held'[j] = held[j]
        /\ DOMAIN g = {Target(f, c) : c \in DOMAIN f}
        /\ \A d \in DOMAIN g :
              /\ DOMAIN g[d] = IF d \in From(d) /\ ~IsVsig(d, f[d]) THEN DOMAIN f[d] ELSE Codes(d)
              /\ \A k \in DOMAIN g[d] : \E c \in From(d) : k \in DOMAIN f[c] /\ g[d][k] = f[c][k]
=============================================================================
