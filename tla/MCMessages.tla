----------------------------- MODULE MCMessages -----------------------------
(* Small instances of Messages for TLC. *)
EXTENDS MessagesProps, TLC

\* Two stations of one network, a sounding, and what is left of a station whose
\* identifier is lost.
SomeStations ==
    1 :> [place |-> 1, rep |-> "synop", ident |-> NoIdent] @@
    2 :> [place |-> 2, rep |-> "synop", ident |-> "ship"] @@
    3 :> [place |-> 2, rep |-> "temp", ident |-> NoIdent] @@
    4 :> [place |-> 2, rep |-> "synop", ident |-> NoIdent]

Ctx(l, t) == [level |-> l, trange |-> t]
Ground == Ctx(<<0, Missing, Missing, Missing>>, 3)
GroundLater == Ctx(<<0, Missing, Missing, Missing>>, 4)
Pressure == Ctx(<<1, 5, Missing, Missing>>, Instant)
PressureOf(s) == Ctx(<<1, 5, 0, s>>, Instant)

D(st, when, c, code, x, a) ==
    [st |-> st, when |-> when, ctx |-> c, code |-> code, val |-> x, attr |-> a]
S(st, code, x, a) == D(st, NoDatetime, StationCtx, code, x, a)

\* One station at two datetimes, and one that is there only once.
Network ==
    {S(1, Height, 5, FALSE), D(1, 1, Ground, Temperature, 1, TRUE),
     D(1, 2, GroundLater, Temperature, 2, FALSE), D(1, 2, Ground, Temperature, 3, FALSE),
     S(2, Height, 6, FALSE), D(2, 1, Ground, Temperature, 1, FALSE)}

\* Stations without measured values, station values with attributes.
Sparse ==
    {S(1, Height, 5, TRUE), D(1, 1, Ground, Temperature, 1, TRUE), S(2, Height, 6, FALSE)}

\* Each station once.
Once ==
    {D(1, 1, Ground, Temperature, 1, TRUE), D(1, 1, GroundLater, Vsig, 2, FALSE),
     S(2, Height, 6, FALSE), D(2, 1, Ground, Temperature, 1, TRUE),
      D(2, 1, PressureOf(1), Temperature, 3, FALSE), D(2, 1, PressureOf(1), Vsig, 1, FALSE)}

\* A level of pressure with two significances, and as such.
Sounding ==
    {D(3, 1, PressureOf(1), Vsig, 1, FALSE), D(3, 1, PressureOf(1), Temperature, 1, FALSE),
     D(3, 1, PressureOf(2), Vsig, 2, FALSE), D(3, 1, Pressure, Temperature, 3, TRUE),
     D(1, 1, Ground, Temperature, 2, FALSE)}

\* A value whose level is missing.
Unplaced == {D(1, 1, Ctx(NoLevel, 3), Temperature, 1, FALSE)}

SomeDatabases == {Network, Sparse, Once, Sounding, Unplaced}
SomeQueries == {{Temperature}, {Vsig, Temperature}}
SomeContexts == {StationCtx, GroundLater, Pressure, PressureOf(2)}
SomeVars == {Plain(Vsig, 1), [code |-> Temperature, val |-> 4, attr |-> TRUE]}
=============================================================================
