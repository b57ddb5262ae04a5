---------------------------- MODULE MCDbSession ----------------------------
(* Small instances of DbSession for TLC. *)
EXTENDS DbSessionProps

v(c, x, a) == [code |-> c, val |-> x, attr |-> a]

AllModes == {[ana |-> a, data |-> d, attr |-> t] :
               a \in {"read", "write"}, d \in {"read", "add", "write"}, t \in {"read", "write"}}

\* One station of two, with a station value and a measured value of the same row id, the
\* second with attributes.
OneStation ==
    {[station |-> {[id |-> 1, key |-> "here"]}, levtr |-> {[id |-> 1, lt |-> 1]},
      rows |-> {[id |-> 1, st |-> 1, ctx |-> c, lt |-> IF c = StationCtx THEN MissingId ELSE 1,
                 code |-> 1, val |-> "a", attr |-> c # StationCtx] : c \in {StationCtx, 1}}]}

SomeStationVars == {{v(1, "b", FALSE)}}
SomeVars == {{v(1, "b", FALSE), v(2, "b", FALSE)}}

Select(C) == [ids |-> {1}, codes |-> C, attrOnly |-> FALSE]
SomeQueries == {Select({1}), Select(Codes)}

\* A message that overwrites what there is, one that adds to it and one without datetime.
Overwriting == [key |-> "here", svars |-> {v(1, "b", TRUE)}, dt |-> 1,
                data |-> {[lt |-> 1, code |-> 1, val |-> "b", attr |-> FALSE]}]
Adding == [key |-> "here", svars |-> {}, dt |-> 1,
           data |-> {[lt |-> 1, code |-> 2, val |-> "b", attr |-> TRUE]}]
Undated == [key |-> "here", svars |-> {}, dt |-> NoDatetime,
            data |-> {[lt |-> 1, code |-> 2, val |-> "b", attr |-> TRUE]}]
SomeMessages == {Overwriting, Adding, Undated}
SomeInput == {<<<<Undated, Overwriting>>, Broken, <<Adding>>>>}
=============================================================================
