---------------------------- MODULE AtLeastOnce ----------------------------
(***************************************************************************)
(* What an outbox of the coordination engine promises for the intents put  *)
(* into it: an intent it accepted is owed until its sink has run once, or  *)
(* until the outbox has openly given it up.  Nothing is forgotten, and no  *)
(* delivery is taken back.  A late run may still deliver an intent that    *)
(* was given up.                                                           *)
(***************************************************************************)
CONSTANT Intents

VARIABLE status

Statuses == {"new", "owed", "delivered", "abandoned"}

Init == status = [i \in Intents |-> "new"]

Accept(i) == /\ status[i] = "new"
             /\ status' = [status EXCEPT ![i] = "owed"]

Deliver(i) == /\ status[i] \in {"owed", "abandoned"}
              /\ status' = [status EXCEPT ![i] = "delivered"]

Abandon(i) == /\ status[i] = "owed"
              /\ status' = [status EXCEPT ![i] = "abandoned"]

Next == \E i \in Intents : Accept(i) \/ Deliver(i) \/ Abandon(i)

Spec == Init /\ [][Next]_status
=============================================================================
