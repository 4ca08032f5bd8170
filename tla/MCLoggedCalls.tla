--------------------------- MODULE MCLoggedCalls ---------------------------
(* An instance of LoggedCalls in which one request logger may hang. *)
EXTENDS LoggedCalls

CONSTANT c1

MCStalled == {<<c1, "transport">>, <<c1, "handler">>}
============================================================================
