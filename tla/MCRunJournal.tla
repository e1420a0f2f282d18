---------------------------- MODULE MCRunJournal ----------------------------
(* Model values, symmetry and a bound for checking RunJournal.             *)
EXTENDS RunJournal, TLC

Symmetry == Permutations(Tasks) \cup Permutations(Ids) \cup Permutations(Proposals)

\* A third round only follows in an activation that answered a proposal again:
\* it is there for what the kept answer does to a later call.
ThirdRoundAfterReplay == round = 2 /\ pc = "admit" => prior # NoPrior
=============================================================================
