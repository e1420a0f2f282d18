------------------------------- MODULE Relay -------------------------------
(***************************************************************************)
(* The browser relay: the gateway that hands browser actions to the peers  *)
(* (relay-gateway.ts) and the worker of each peer, a Chrome extension's    *)
(* service worker, that polls for them (peer-runtime.ts, peer-loop.ts).    *)
(*                                                                         *)
(* A request is pending until a peer's pull claims it.  A claim is a lease *)
(* with a token: heartbeats of the peer extend it, and once it has run out *)
(* the next call that looks makes the request pending again, so that the   *)
(* actions of one request may be carried out more than once; one result at *)
(* most is accepted.  A timer rejects what nobody answered.                *)
(*                                                                         *)
(* Every call of the gateway is synchronous and therefore one step; the    *)
(* worker's cycle (report, heartbeat, pull, execute, submit) is one step   *)
(* per call, since time passes and others act in between.  Requests are    *)
(* numbered in the order of their dispatch, which is the order the gateway *)
(* scans.  A claim token is the number of the attempt.                     *)
(*                                                                         *)
(* Left out: what the actions do, capabilities that change, tabs that come *)
(* and go (a peer's tab is known once it was reported), the wording of     *)
(* errors.  A dispatch that throws has the effect of ListActionRequests.   *)
(***************************************************************************)
EXTENDS Integers, FiniteSets, Sequences, SequencesExt, FiniteSetsExt

CONSTANTS Peers, NoPeer,
          MaxRequests,    \* bound: requests dispatched
          Supports,       \* request -> the peers able to do its kinds of action
          Asks,           \* request -> the preferences and locks it may come with
          Lease,          \* claimLeaseMs
          ActionTimeout,  \* actionTimeoutMs
          StaleAfter,     \* staleAfterMs
          PullWait,       \* pullWaitMs
          MaxTime,        \* bound: the clock
          MaxFaults       \* bound: lost calls and answers, killed workers, restarts

Requests == 1 .. MaxRequests
Times == 0 .. MaxTime

ASSUME RelayAssumption ==
  /\ NoPeer \notin Peers
  /\ Supports \in [Requests -> SUBSET Peers]
  /\ Asks \in [Requests -> SUBSET [prefer : Peers \cup {NoPeer}, lock : Peers \cup {NoPeer}]]
  /\ {MaxRequests, Lease, ActionTimeout, StaleAfter, PullWait, MaxTime, MaxFaults} \subseteq Nat

VARIABLES
  now,
  peers,     \* the gateway's record of each peer: registered, last seen, its tab reported
  requests,  \* what was dispatched; kept here after the gateway forgets it
  waiters,   \* long polls the gateway holds, oldest first; heard: somebody still reads the answer
  worker,    \* the worker of each peer: its next call, and the work it has
  underway,  \* results sent by workers that were killed since
  faults

vars == <<now, peers, requests, waiters, worker, underway, faults>>

Open == {"pending", "inflight"}

NoRequest == [state |-> "new", prefer |-> NoPeer, lock |-> NoPeer, expires |-> 0,
              attempts |-> 0, holder |-> NoPeer, claimEnds |-> 0, accepted |-> 0]
\* What is kept of a request the gateway has forgotten: how it ended.
Settle(q, how) == [NoRequest EXCEPT !.state = how, !.attempts = q.attempts]

Idle == [started |-> FALSE, next |-> "register", request |-> 0, token |-> 0, beat |-> 0]

Init ==
  /\ now = 0
  /\ peers = [p \in Peers |-> [known |-> FALSE, seen |-> 0, reported |-> FALSE]]
  /\ requests = [r \in Requests |-> NoRequest]
  /\ waiters = << >>
  /\ worker = [p \in Peers |-> Idle]
  /\ underway = {}
  /\ faults = 0

(***************************************************************************)
(* The gateway.                                                            *)
(***************************************************************************)
Sooner(a, b) == IF a <= b THEN a ELSE b

IsPeerOnline(ps, p) == ps[p].known /\ now - ps[p].seen <= StaleAfter

\* Whether peer p may take request r, whose record is q.
CanPeerClaimAction(ps, p, r, q) ==
  /\ IsPeerOnline(ps, p)
  /\ q.lock \in {NoPeer, p}
  /\ \/ q.prefer \in {NoPeer, p}
     \/ ~IsPeerOnline(ps, q.prefer)
     \/ q.prefer \notin Supports[r]
  /\ p \in Supports[r]

\* A lease that ran out makes its request pending, unless the request itself
\* is due: that one is left to its timer.
ReclaimExpired(rs) ==
  [r \in Requests |->
     IF rs[r].state = "inflight" /\ rs[r].claimEnds <= now /\ rs[r].expires > now
       THEN [rs[r] EXCEPT !.state = "pending", !.holder = NoPeer, !.claimEnds = 0]
       ELSE rs[r]]

LeaseEnd(q) == Sooner(q.expires, now + Lease)

\* Mutant of RenewInflightClaims: heartbeats only say that the peer is there.
RenewNothing(rs, p) == rs

\* Extends every claim of the peer, one that ran out included.
RenewInflightClaims(rs, p) ==
  [r \in Requests |->
     IF rs[r].state = "inflight" /\ rs[r].holder = p
       THEN [rs[r] EXCEPT !.claimEnds = LeaseEnd(rs[r])]
       ELSE rs[r]]

Seen(ps, p) == [ps EXCEPT ![p].seen = now]

FindClaimable(ps, rs, p) ==
  {r \in Requests : rs[r].state = "pending" /\ CanPeerClaimAction(ps, p, r, rs[r])}

ClaimNext(ps, rs, p) ==
  LET r == Min(FindClaimable(ps, rs, p)) IN
  [rs EXCEPT ![r].state = "inflight", ![r].holder = p, ![r].attempts = @ + 1,
             ![r].claimEnds = LeaseEnd(rs[r])]

\* The worker has the request its peer claimed between rs and claimed.
Works(w, rs, claimed) ==
  LET r == CHOOSE r \in Requests : claimed[r].attempts > rs[r].attempts IN
  [w EXCEPT !.next = "execute", !.request = r, !.token = claimed[r].attempts, !.beat = now]

\* A waiting pull is offered the first request its peer may take, whether or
\* not somebody still reads the answer; g is the state the last one left.
NotifyPullWaiter(g, w) ==
  LET ps == Seen(g.peers, w.peer)
      claimed == ClaimNext(ps, g.requests, w.peer)
  IN IF FindClaimable(ps, g.requests, w.peer) = {}
       THEN [g EXCEPT !.peers = ps]
       ELSE [peers |-> ps, requests |-> claimed, waiters |-> RemoveFirst(g.waiters, w),
             worker |-> IF w.heard
                          THEN [g.worker EXCEPT ![w.peer] = Works(@, g.requests, claimed)]
                          ELSE g.worker]

\* Mutant of NotifyPullWaiters: the waiters ask again when their wait is over.
NotifyNobody(rs) ==
  [peers |-> peers, requests |-> ReclaimExpired(rs), waiters |-> waiters, worker |-> worker]

NotifyPullWaiters(rs) ==
  FoldLeft(NotifyPullWaiter,
           [peers |-> peers, requests |-> ReclaimExpired(rs), waiters |-> waiters, worker |-> worker],
           waiters)

\* Somebody asks for browser actions: of any peer, of the preferred one while
\* it is there, or of the one whose tab the actions are about.
DispatchActionRequest(r, ask) ==
  /\ requests[r].state = "new"
  /\ \A s \in 1 .. r - 1 : requests[s].state # "new"
  /\ now + ActionTimeout <= MaxTime
  /\ IF ask.lock # NoPeer
       THEN peers[ask.lock].reported /\ ask.lock \in Supports[r]
       ELSE \E p \in Supports[r] : IsPeerOnline(peers, p)
  /\ LET asked == [NoRequest EXCEPT !.state = "pending", !.prefer = ask.prefer, !.lock = ask.lock,
                                    !.expires = now + ActionTimeout]
         g == NotifyPullWaiters([requests EXCEPT ![r] = asked])
     IN /\ peers' = g.peers
        /\ requests' = g.requests
        /\ waiters' = g.waiters
        /\ worker' = g.worker
  /\ UNCHANGED <<now, underway, faults>>

\* An operator looks at the queue, or a dispatch is refused.
ListActionRequests ==
  /\ requests' = ReclaimExpired(requests)
  /\ UNCHANGED <<now, peers, waiters, worker, underway, faults>>

\* Mutant of RequestTimesOut: only what nobody claimed is rejected.
PendingTimesOut(r) ==
  /\ requests[r].state = "pending"
  /\ requests[r].expires <= now
  /\ requests' = [requests EXCEPT ![r] = Settle(@, "timed_out")]
  /\ UNCHANGED <<now, peers, waiters, worker, underway, faults>>

RequestTimesOut(r) ==
  /\ requests[r].state \in Open
  /\ requests[r].expires <= now
  /\ requests' = [requests EXCEPT ![r] = Settle(@, "timed_out")]
  /\ UNCHANGED <<now, peers, waiters, worker, underway, faults>>

(***************************************************************************)
(* A peer's worker.  A call that fails ends the cycle, and the loop begins *)
(* another; a call to a gateway that does not know the peer fails.         *)
(***************************************************************************)
CycleEnds(w) ==
  [Idle EXCEPT !.started = w.started, !.next = IF w.started THEN "report" ELSE "register"]

\* The worker's next call is c, and it reaches a gateway that knows the peer.
Calls(p, c) == worker[p].next = c /\ peers[p].known

Goes(p, c) == worker' = [worker EXCEPT ![p].next = c]

RegisterPeer(p) ==
  /\ worker[p].next = "register"
  /\ peers' = [peers EXCEPT ![p].known = TRUE, ![p].seen = now]
  /\ worker' = [worker EXCEPT ![p].started = TRUE, ![p].next = "report"]
  /\ UNCHANGED <<now, requests, waiters, underway, faults>>

ReportTargets(p) ==
  /\ Calls(p, "report")
  /\ peers' = [peers EXCEPT ![p].seen = now, ![p].reported = TRUE]
  /\ Goes(p, "heartbeat")
  /\ UNCHANGED <<now, requests, waiters, underway, faults>>

HeartbeatPeer(p) ==
  /\ peers' = Seen(peers, p)
  /\ requests' = RenewInflightClaims(requests, p)
  /\ UNCHANGED <<now, waiters, underway, faults>>

CycleHeartbeat(p) == Calls(p, "heartbeat") /\ HeartbeatPeer(p) /\ Goes(p, "pull")

\* The heartbeats the worker sends while it executes.
ExecutionHeartbeat(p) ==
  /\ Calls(p, "execute")
  /\ HeartbeatPeer(p)
  /\ worker' = [worker EXCEPT ![p].beat = now]

\* A long poll: the first request the peer may take, or a place among the
\* waiters.  The answer may be lost on its way (heard = FALSE).
PullNextActionRequestWait(p, heard) ==
  /\ Calls(p, "pull")
  /\ peers' = Seen(peers, p)
  /\ LET rs == ReclaimExpired(requests)
         claimed == ClaimNext(peers', rs, p)
         none == FindClaimable(peers', rs, p) = {}
     IN /\ requests' = IF none THEN rs ELSE claimed
        /\ waiters' = IF none THEN Append(waiters, [peer |-> p, until |-> now + PullWait, heard |-> heard])
                              ELSE waiters
        /\ worker' = [worker EXCEPT ![p] =
                        IF ~heard THEN CycleEnds(@)
                        ELSE IF none THEN [@ EXCEPT !.next = "wait"]
                        ELSE Works(@, rs, claimed)]
  /\ UNCHANGED <<now, underway>>

Pull(p) == PullNextActionRequestWait(p, TRUE) /\ UNCHANGED faults

PullWaitEnds(i) ==
  /\ waiters[i].until <= now
  /\ waiters' = RemoveAt(waiters, i)
  /\ worker' = IF waiters[i].heard
                 THEN [worker EXCEPT ![waiters[i].peer] = CycleEnds(@)]
                 ELSE worker
  /\ UNCHANGED <<now, peers, requests, underway, faults>>

\* The actions were carried out or failed; there is a result to submit.
Execute(p) ==
  /\ worker[p].next = "execute"
  /\ worker' = [worker EXCEPT ![p].next = "submit", ![p].beat = 0]
  /\ UNCHANGED <<now, peers, requests, waiters, underway, faults>>

\* They failed, and there is no tab to name in a result.
ExecuteThrows(p) ==
  /\ worker[p].next = "execute"
  /\ worker' = [worker EXCEPT ![p] = CycleEnds(@)]
  /\ UNCHANGED <<now, peers, requests, waiters, underway, faults>>

\* Mutant of IsActiveClaim: the token is not compared.
IsPeersClaim(q, sent) == q.state = "inflight" /\ q.holder = sent.peer

IsActiveClaim(q, sent) ==
  q.state = "inflight" /\ q.holder = sent.peer /\ q.attempts = sent.token

\* The gateway looks for expired claims only when the result is not the
\* active claim's: the holder's result is taken although its lease ran out.
SubmitActionResult(sent) ==
  /\ peers[sent.peer].known
  /\ LET r == sent.request
         q == requests[r]
     IN /\ requests' = CASE q.state \notin Open -> requests
                         [] IsActiveClaim(q, sent) ->
                              [requests EXCEPT ![r] = [Settle(@, "answered") EXCEPT !.accepted = sent.token]]
                         [] OTHER -> ReclaimExpired(requests)
        /\ peers' = IF IsActiveClaim(q, sent)
                      THEN [peers EXCEPT ![sent.peer].seen = now, ![sent.peer].reported = TRUE]
                      ELSE Seen(peers, sent.peer)
  /\ UNCHANGED <<now, waiters, faults>>

Result(p) == [peer |-> p, request |-> worker[p].request, token |-> worker[p].token]

Submit(p) ==
  /\ worker[p].next = "submit"
  /\ SubmitActionResult(Result(p))
  /\ worker' = [worker EXCEPT ![p] = CycleEnds(@)]
  /\ UNCHANGED underway

\* The result of a worker that is no more arrives.
LateSubmit(sent) ==
  /\ SubmitActionResult(sent)
  /\ underway' = underway \ {sent}
  /\ UNCHANGED worker

\* A call that throws because the gateway does not know the peer.
CallRefused(p) ==
  /\ worker[p].next \in {"heartbeat", "pull", "submit"}
  /\ ~peers[p].known
  /\ worker' = [worker EXCEPT ![p] = CycleEnds(@)]
  /\ UNCHANGED <<now, peers, requests, waiters, underway, faults>>

(***************************************************************************)
(* What goes wrong, MaxFaults times in all.                                *)
(***************************************************************************)
Fault == faults < MaxFaults /\ faults' = faults + 1

Abandoned(p) == [i \in DOMAIN waiters |->
                   IF waiters[i].peer = p THEN [waiters[i] EXCEPT !.heard = FALSE] ELSE waiters[i]]

\* A call does not arrive; a result is not submitted again.
CallLost(p) ==
  /\ Fault
  /\ worker[p].next \in {"heartbeat", "pull", "submit"}
  /\ worker' = [worker EXCEPT ![p] = CycleEnds(@)]
  /\ UNCHANGED <<now, peers, requests, waiters, underway>>

\* The answer to a pull does not arrive, or the connection of a long poll
\* breaks before there is one: the gateway keeps the claim or the waiter.
PullAnswerLost(p) == Fault /\ PullNextActionRequestWait(p, FALSE)

\* The browser stops the service worker, whose last call may be on its way;
\* an event starts another.
WorkerKilled(p) ==
  /\ Fault
  /\ worker[p].started
  /\ worker' = [worker EXCEPT ![p] = Idle]
  /\ waiters' = Abandoned(p)
  /\ \/ UNCHANGED underway
     \/ worker[p].next = "submit" /\ underway' = underway \cup {Result(p)}
  /\ UNCHANGED <<now, peers, requests>>

\* Everything the gateway knows is in memory; the workers notice nothing.
DaemonRestart ==
  /\ Fault
  /\ peers' = [p \in Peers |-> [known |-> FALSE, seen |-> 0, reported |-> FALSE]]
  /\ requests' = [r \in Requests |->
                    IF requests[r].state \in Open THEN Settle(requests[r], "lost") ELSE requests[r]]
  /\ waiters' = << >>
  /\ worker' = [p \in Peers |-> IF worker[p].next = "wait" THEN CycleEnds(worker[p]) ELSE worker[p]]
  /\ UNCHANGED <<now, underway>>

Tick == now < MaxTime /\ now' = now + 1 /\ UNCHANGED <<peers, requests, waiters, worker, underway, faults>>

Next ==
  \/ \E r \in Requests : \/ \E ask \in Asks[r] : DispatchActionRequest(r, ask)
                         \/ RequestTimesOut(r)
  \/ ListActionRequests
  \/ \E p \in Peers :
       \/ RegisterPeer(p) \/ ReportTargets(p) \/ CycleHeartbeat(p) \/ Pull(p)
       \/ ExecutionHeartbeat(p) \/ Execute(p) \/ ExecuteThrows(p) \/ Submit(p)
       \/ CallRefused(p)
       \/ CallLost(p) \/ PullAnswerLost(p) \/ WorkerKilled(p)
  \/ \E i \in DOMAIN waiters : PullWaitEnds(i)
  \/ \E sent \in underway : LateSubmit(sent)
  \/ DaemonRestart
  \/ Tick

Spec == Init /\ [][Next]_vars

\* Time passes, and a timer that is due fires.  Nothing is asked of the peers.
Fairness == WF_vars(Tick) /\ \A r \in Requests : WF_vars(RequestTimesOut(r))

FairSpec == Spec /\ Fairness

(***************************************************************************)
(* What the relay promises.                                                *)
(***************************************************************************)
\* The result a dispatch resolves with is that of the last attempt handed
\* out: of all the workers that carried the actions out, those whose claim
\* was withdrawn are turned away (submitActionResult).
LastAttemptAnswers ==
  \A r \in Requests : requests[r].state = "answered" => requests[r].accepted = requests[r].attempts

\* A worker that executes under its claim and was heard within a lease keeps
\* it: nobody else is handed the request meanwhile, whatever other peers,
\* operators and dispatches do, and it is not made pending
\* (renewInflightClaims, reclaimExpiredActionRequests).
KeptWhileBeating ==
  [][\A p \in Peers, r \in Requests :
       /\ worker[p].next = "execute" /\ worker[p].request = r
       /\ requests[r].state = "inflight" /\ requests[r].attempts = worker[p].token
       /\ now < Sooner(requests[r].expires, worker[p].beat + Lease)
       => /\ requests'[r].state # "pending"
          /\ requests'[r].attempts = worker[p].token]_vars

\* A worker that waits for work has not been passed over: a request it may
\* take is pending only if it was handed out before and fell back (nobody
\* wakes the waiters then), or was kept for a preferred peer that has gone
\* stale since (notifyPullWaiters).
NotPassedOver ==
  \A p \in Peers : worker[p].next = "wait" =>
    \A r \in FindClaimable(peers, requests, p) :
      requests[r].attempts > 0 \/ requests[r].prefer \notin {NoPeer, p}

\* Every dispatch is settled: answered, rejected by its timer, or gone with
\* the daemon.  No peer need do anything for that.
AwaitsAnswer == \E r \in Requests : requests[r].state \in Open
Settled == []<>~AwaitsAnswer

\* The relay's design: peer identity, capability, target lock and claim token
\* decide whether an action can be executed.  A peer that is there, able and
\* the one the request is locked to may take it.
LockedPeerMayClaim ==
  \A r \in Requests :
    LET q == requests[r] IN
    q.state = "pending" /\ q.lock # NoPeer /\ q.lock \in Supports[r] /\ IsPeerOnline(peers, q.lock)
      => CanPeerClaimAction(peers, q.lock, r, q)
=============================================================================
