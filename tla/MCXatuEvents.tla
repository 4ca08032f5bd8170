---------------------------- MODULE MCXatuEvents ----------------------------
(* Two calls of one handler and a call for the version. *)
EXTENDS XatuEvents

CONSTANTS p1, p2, v

MCHandler == [c \in Calls |-> IF c = v THEN "clientVersion" ELSE "newPayload"]
============================================================================
