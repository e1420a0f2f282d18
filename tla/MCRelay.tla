------------------------------ MODULE MCRelay ------------------------------
(***************************************************************************)
(* Two peers.  The first request can be done by both and is for p2 while   *)
(* it is there, or about a tab of p1; only p1 can do the second.           *)
(***************************************************************************)
EXTENDS Relay

CONSTANTS p1, p2

MCPeers == {p1, p2}
MCSupports == [r \in 1 .. 2 |-> IF r = 1 THEN {p1, p2} ELSE {p1}]
Preferred(p) == [prefer |-> p, lock |-> NoPeer]
Locked(p) == [prefer |-> NoPeer, lock |-> p]
Anybody == [prefer |-> NoPeer, lock |-> NoPeer]
MCAsks == [r \in 1 .. 2 |-> IF r = 1 THEN {Preferred(p2), Locked(p1)} ELSE {Anybody}]

\* A relay adapter configured with a preferred peer asks for it whatever tab
\* the actions are about.
MCAsksLocked == [r \in 1 .. 2 |-> {[prefer |-> p2, lock |-> p1]}]
=============================================================================
