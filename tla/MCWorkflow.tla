----------------------------- MODULE MCWorkflow -----------------------------
(***************************************************************************)
(* The approval workflow of the design document in small: "act" starts a   *)
(* worker and waits for its join, "resume" is woken by the inbox, "report" *)
(* has no effects and follows the receipt of "resume".                     *)
(***************************************************************************)
EXTENDS Workflow

MCSteps     == {"act", "resume", "report"}
MCTrigger   == [s \in MCSteps |-> CASE s = "act" -> "user"
                                    [] s = "resume" -> "inbox"
                                    [] s = "report" -> "resume"]
MCNextSteps == [s \in MCSteps |-> CASE s = "act" -> {"resume"}
                                    [] s = "resume" -> {"report"}
                                    [] s = "report" -> {}]
=============================================================================
