--------------------------- MODULE MessageChannel ---------------------------
(***************************************************************************)
(* What the two ends of the control protocol (src/modules/manager.go and   *)
(* src/cmd/snooper-hook/main.go) count on: whole messages come out in the  *)
(* order they went in, none twice, none left out and none put together     *)
(* from two.  The last ones may never come out.  HookSession implements it *)
(* with frames.                                                            *)
(***************************************************************************)
EXTENDS Naturals, Sequences

CONSTANT Messages

VARIABLES sent, received

vars == <<sent, received>>

Init == sent = <<>> /\ received = <<>>

Send == /\ \E m \in Messages : sent' = Append(sent, m)
        /\ UNCHANGED received

Receive == /\ Len(received) < Len(sent)
           /\ received' = Append(received, sent[Len(received) + 1])
           /\ UNCHANGED sent

Next == Send \/ Receive

Spec == Init /\ [][Next]_vars
=============================================================================
