---------------------------- MODULE MCFlowLedger ----------------------------
EXTENDS FlowLedger, TLC

RoleSymmetry == Permutations(Roles \ {Lead})

\* Without faults, flows that may fan out more than once and reach the limit;
\* with one fault, shorter flows.
MCSettings == {[hops |-> 5, roleHops |-> 3, faults |-> 0],
               [hops |-> 4, roleHops |-> 1, faults |-> 1]}

MCSettingsLive  == {[hops |-> 4, roleHops |-> 3, faults |-> 2]}
MCSettingsEarly == {[hops |-> 4, roleHops |-> 1, faults |-> 0]}

=============================================================================
