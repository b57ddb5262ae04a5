---------------------------- MODULE MCMsgSession ----------------------------
(* Small instances of MsgSession for TLC. *)
EXTENDS MsgSessionProps, TLC

Datum(v) == [value |-> v, attrs |-> {}]

\* One variable, another one with a new value of it, and so on.
SomeVars == {"t" :> Datum(1), ("t" :> Datum(2)) @@ ("u" :> Datum(3))}

\* A broken bulletin between two of one message, one of them without rows; and one of
\* two messages between broken ones.
SomeFiles == {<<<<2>>, Broken, <<0>>>>, <<Broken, <<1, 1>>, Broken>>}

\* How many calls to insert_data there are when a file is read, and written.
InsertBounds == [r |-> 1, w |-> 3]
=============================================================================
