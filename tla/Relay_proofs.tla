----------------------------- MODULE Relay_proofs -----------------------------
(***************************************************************************)
(* The proofs of Relay's invariants and of its action property, for every  *)
(* number of peers, requests, lengths of time and faults.                  *)
(*                                                                         *)
(* The waiters are notified by a fold over them, oldest first.  It is      *)
(* treated once (NotifyKeeps): what holds before the first waiter and is   *)
(* carried by each of them to the next holds after the last.               *)
(***************************************************************************)
EXTENDS Relay, TLAPS, FiniteSetTheorems

-----------------------------------------------------------------------------
States    == {"new", "pending", "inflight", "timed_out", "answered", "lost"}
Nobody    == Peers \cup {NoPeer}
PeerKinds == [known : BOOLEAN, seen : Nat, reported : BOOLEAN]
RequestKinds == [state : States, prefer : Nobody, lock : Nobody, expires : Nat,
                 attempts : Nat, holder : Nobody, claimEnds : Nat, accepted : Nat]
WaiterKinds == [peer : Peers, until : Nat, heard : BOOLEAN]
WorkerKinds == [started : BOOLEAN,
                next : {"register", "report", "heartbeat", "pull", "wait", "execute", "submit"},
                request : 0 .. MaxRequests, token : Nat, beat : Nat]
ResultKinds == [peer : Peers, request : Requests, token : Nat]

\* Every variable keeps its type.
TypeOK ==
  /\ now \in Times
  /\ peers \in [Peers -> PeerKinds]
  /\ requests \in [Requests -> RequestKinds]
  /\ waiters \in Seq(WaiterKinds)
  /\ worker \in [Peers -> WorkerKinds]
  /\ underway \subseteq ResultKinds
  /\ faults \in 0 .. MaxFaults

RequestMaps == [Requests -> RequestKinds]

\* The gateway's own: a claim was counted, and what was answered was answered
\* by the last one.
Counted(q) ==
  /\ q.state = "new" => q.attempts = 0
  /\ q.state = "inflight" => q.attempts > 0
  /\ q.state = "answered" => q.accepted = q.attempts

CountInv == \A r \in Requests : Counted(requests[r])

\* A worker has a request that its peer was handed, and while that is the last
\* attempt the claim is its peer's, for as long as it was heard to work.
Holds(rs, w, p) == w.next \in {"execute", "submit"} =>
  /\ w.request \in Requests
  /\ w.token <= rs[w.request].attempts
  /\ rs[w.request].state = "inflight" /\ rs[w.request].attempts = w.token =>
       /\ rs[w.request].holder = p
       /\ w.next = "execute" => rs[w.request].claimEnds >= Sooner(rs[w.request].expires, w.beat + Lease)

WorkInv == \A p \in Peers : Holds(requests, worker[p], p) /\ worker[p].beat <= now

\* Somebody still reads the answer to a pull of p.
Awaited(ws, p) == \E i \in DOMAIN ws : ws[i].peer = p /\ ws[i].heard

\* The gateway knows whom it keeps waiting, and a worker that waits is kept.
WaiterInv ==
  /\ \A i \in DOMAIN waiters : peers[waiters[i].peer].known
  /\ \A p \in Peers : worker[p].next = "wait" => Awaited(waiters, p)

\* A request that was never handed out and that p may take whoever is there.
Owed(q, p, r) ==
  /\ q.state = "pending"
  /\ q.attempts = 0
  /\ q.lock \in {NoPeer, p}
  /\ q.prefer \in {NoPeer, p}
  /\ p \in Supports[r]

OwedInv == \A p \in Peers, r \in Requests : worker[p].next = "wait" => ~Owed(requests[r], p, r)

IInv == TypeOK /\ CountInv /\ WorkInv /\ WaiterInv /\ OwedInv

-----------------------------------------------------------------------------
(* Least and greatest numbers.                                             *)

\* Some number of a set of naturals is the least.
LEMMA LeastNumber ==
  ASSUME NEW T \in SUBSET Nat, T # {}
  PROVE  \E x \in T : \A y \in T : x <= y
<1> DEFINE R == OpToRel(<, Nat)
<1>1. IsWellFoundedOn(R, Nat)
  BY NatLessThanWellFounded
<1>2. \A x, y \in Nat : y < x => <<y, x>> \in R
  BY DEF OpToRel
<1> HIDE DEF R
<1>3. \E x \in T : \A y \in T : ~(<<y, x>> \in R)
  BY <1>1, WFMin
<1>4. PICK x \in T : \A y \in T : ~(y < x)
  BY <1>2, <1>3
<1>5. \A y \in T : x <= y
  BY <1>4
<1> QED BY <1>5

\* Min is that number.
LEMMA MinOf ==
  ASSUME NEW T \in SUBSET Nat, T # {}
  PROVE  Min(T) \in T
BY LeastNumber DEF Min

\* Max is the greatest number of a set that has a bound.
LEMMA MaxOf ==
  ASSUME NEW n \in Nat, NEW T \in SUBSET (1 .. n), T # {}
  PROVE  Max(T) \in T /\ \A y \in T : y <= Max(T)
<1> DEFINE U == {n - x : x \in T}
<1>1. U \in SUBSET Nat /\ U # {}
  <2>1. \A x \in T : n - x \in Nat
    OBVIOUS
  <2> QED BY <2>1
<1>2. PICK u \in U : \A v \in U : u <= v
  <2> HIDE DEF U
  <2> QED BY <1>1, LeastNumber
<1>3. PICK x \in T : u = n - x
  OBVIOUS
<1>4. \A y \in T : n - y \in U
  OBVIOUS
<1>5. \A y \in T : y <= x
  <2> SUFFICES ASSUME NEW y \in T PROVE y <= x
    OBVIOUS
  <2>1. u <= n - y
    BY <1>2, <1>4
  <2> QED BY <1>3, <2>1
<1> QED BY <1>5 DEF Max

-----------------------------------------------------------------------------
(* The fold over the waiters.                                              *)

\* The state after the waiters at the places s.
NotifyStep(h, base, s) ==
  IF s = {} THEN base ELSE NotifyPullWaiter(h[s \ {Max(s)}], waiters[Max(s)])

IsNotified(h, base, A) == h = [s \in SUBSET A |-> NotifyStep(h, base, s)]

\* There is a function with that recursion.
LEMMA NotifiedExists ==
  ASSUME NEW base, NEW m \in Nat
  PROVE  \E h : IsNotified(h, base, 1 .. m)
<1> DEFINE U == {n \in Nat : ~\E h : IsNotified(h, base, 1 .. n)}
<1> SUFFICES ASSUME m \in U PROVE FALSE
  OBVIOUS
<1>1. PICK x \in U : \A y \in U : x <= y
  <2> HIDE DEF U
  <2>1. U # {} 
    OBVIOUS
  <2>2. U \in SUBSET Nat
    BY DEF U
  <2> QED BY <2>1, <2>2, LeastNumber
<1>2. x # 0
  <2> SUFFICES ASSUME x = 0 PROVE \E h : IsNotified(h, base, 1 .. 0)
    OBVIOUS
  <2> DEFINE h == [s \in SUBSET (1 .. 0) |-> base]
  <2>1. \A s \in SUBSET (1 .. 0) : s = {}
    OBVIOUS
  <2>2. h = [s \in SUBSET (1 .. 0) |-> NotifyStep(h, base, s)]
    <3>1. \A s \in SUBSET (1 .. 0) : NotifyStep(h, base, s) = base
      BY <2>1 DEF NotifyStep
    <3> QED BY <3>1
  <2> HIDE DEF h
  <2> QED BY <2>2 DEF IsNotified
<1>3. x \in Nat /\ x - 1 \in Nat /\ x - 1 < x
  BY <1>2
<1>4. x - 1 \notin U
  BY <1>1, <1>3
<1>5. PICK h : IsNotified(h, base, 1 .. (x - 1))
  BY <1>3, <1>4
<1> HIDE DEF U
<1> DEFINE g == [s \in SUBSET (1 .. x) |-> NotifyStep(h, base, s)]
<1>6. ASSUME NEW s \in SUBSET (1 .. (x - 1)) PROVE g[s] = h[s]
  <2>1. s \in SUBSET (1 .. x)
    BY <1>3
  <2> QED BY <1>5, <2>1 DEF IsNotified
<1>7. ASSUME NEW s \in SUBSET (1 .. x) PROVE g[s] = NotifyStep(g, base, s)
  <2>1. g[s] = NotifyStep(h, base, s)
    OBVIOUS
  <2>2. ASSUME s # {} PROVE g[s \ {Max(s)}] = h[s \ {Max(s)}]
    <3>1. Max(s) \in s /\ \A y \in s : y <= Max(s)
      BY <1>3, <2>2, MaxOf
    <3>2. \A y \in s \ {Max(s)} : y \in 1 .. (x - 1)
      <4> SUFFICES ASSUME NEW y \in s, y # Max(s) PROVE y \in 1 .. (x - 1)
        OBVIOUS
      <4>1. y \in 1 .. x /\ Max(s) \in 1 .. x /\ y <= Max(s)
        BY <3>1
      <4> QED BY <1>3, <4>1
    <3>3. s \ {Max(s)} \in SUBSET (1 .. (x - 1))
      BY <3>2
    <3> HIDE DEF g
    <3> QED BY <1>6, <3>3
  <2> HIDE DEF g
  <2> QED BY <2>1, <2>2 DEF NotifyStep
<1>8. g = [s \in SUBSET (1 .. x) |-> NotifyStep(g, base, s)]
  <2>1. g = [s \in SUBSET (1 .. x) |-> g[s]]
    OBVIOUS
  <2> HIDE DEF g
  <2> QED BY <1>7, <2>1
<1>9. \E f : IsNotified(f, base, 1 .. x)
  <2> HIDE DEF g
  <2> QED BY <1>8 DEF IsNotified
<1> QED BY <1>9 DEF U

\* The state before the first waiter is notified.
Unnotified(rs) ==
  [peers |-> peers, requests |-> ReclaimExpired(rs), waiters |-> waiters, worker |-> worker]

\* What holds before the first waiter, and after each one if it held before it,
\* holds in the end.
LEMMA NotifyKeeps ==
  ASSUME NEW rs, waiters \in Seq(WaiterKinds), NEW P, Unnotified(rs) \in P[0],
         \A k \in 1 .. Len(waiters) : \A g \in P[k - 1] : NotifyPullWaiter(g, waiters[k]) \in P[k]
  PROVE  NotifyPullWaiters(rs) \in P[Len(waiters)]
<1> DEFINE m == Len(waiters)
           base == Unnotified(rs)
           u == CHOOSE h : IsNotified(h, base, 1 .. m)
           U == {k \in 0 .. m : u[1 .. k] \notin P[k]}
<1>1. m \in Nat /\ DOMAIN waiters = 1 .. m
  OBVIOUS
<1>2. NotifyPullWaiters(rs) = u[1 .. m]
  BY <1>1 DEF NotifyPullWaiters, FoldLeft, MapThenFoldSet, IsNotified, NotifyStep, Unnotified
<1>3. IsNotified(u, base, 1 .. m)
  <2> HIDE DEF base, m
  <2> QED BY <1>1, NotifiedExists
<1> HIDE DEF u
<1>4. SUFFICES ASSUME m \in U PROVE FALSE
  BY <1>1, <1>2
<1>5. PICK x \in U : \A y \in U : x <= y
  <2>1. U \in SUBSET Nat /\ U # {}
    BY <1>4
  <2> HIDE DEF U
  <2> QED BY <2>1, LeastNumber
<1>6. x # 0
  <2> SUFFICES ASSUME x = 0 PROVE u[1 .. 0] \in P[0]
    OBVIOUS
  <2>1. 1 .. 0 = {}
    OBVIOUS
  <2>2. u[{}] = base
    BY <1>3 DEF IsNotified, NotifyStep
  <2> QED BY <2>1, <2>2
<1>7. x \in 1 .. m /\ x - 1 \in 0 .. m /\ x - 1 < x
  BY <1>1, <1>6
<1>8. u[1 .. (x - 1)] \in P[x - 1]
  BY <1>5, <1>7
<1>9. Max(1 .. x) = x
  <2>1. 1 .. x \in SUBSET (1 .. x) /\ x \in 1 .. x /\ x \in Nat
    BY <1>7
  <2>2. Max(1 .. x) \in 1 .. x /\ \A y \in 1 .. x : y <= Max(1 .. x)
    BY <2>1, MaxOf
  <2> QED BY <2>1, <2>2
<1>10. (1 .. x) \ {x} = 1 .. (x - 1)
  BY <1>7
<1>11. u[1 .. x] = NotifyPullWaiter(u[1 .. (x - 1)], waiters[x])
  <2>1. 1 .. x \in SUBSET (1 .. m) /\ 1 .. x # {}
    <3>1. x \in Nat /\ 1 <= x /\ x <= m
      BY <1>1, <1>7
    <3>2. \A y \in 1 .. x : y \in 1 .. m
      BY <1>1, <3>1
    <3>3. x \in 1 .. x
      BY <3>1
    <3> HIDE DEF m
    <3> QED BY <3>2, <3>3
  <2>2. u[1 .. x] = NotifyStep(u, base, 1 .. x)
    <3> HIDE DEF base, m
    <3> QED BY <1>3, <2>1 DEF IsNotified
  <2> HIDE DEF base, m
  <2> QED BY <1>9, <1>10, <2>1, <2>2 DEF NotifyStep
<1> QED BY <1>7, <1>8, <1>11

-----------------------------------------------------------------------------
(* What may become of a request.                                           *)

\* A request q may come to be n at once: a claim is counted, or stays with its
\* holder; and one whose lease has not run out is neither withdrawn nor handed
\* out again.
Advances(q, n) ==
  /\ Counted(n)
  /\ n.attempts >= q.attempts
  /\ n.state = "inflight" /\ n.attempts = q.attempts =>
       /\ q.state = "inflight"
       /\ n.holder = q.holder
       /\ n.expires = q.expires
       /\ n.claimEnds \in {q.claimEnds, LeaseEnd(q)}
  /\ q.state = "inflight" /\ q.claimEnds > now => n.state # "pending" /\ n.attempts = q.attempts

\* It is not handed out yet only if it was so before.
StillFirst(q, n) ==
  n.state = "pending" /\ n.attempts = 0 =>
    q.state = "pending" /\ q.attempts = 0 /\ n.lock = q.lock /\ n.prefer = q.prefer

Moves(q, n) == Advances(q, n) /\ StillFirst(q, n)

\* The claim that a pull of p makes of a request.
ClaimedBy(q, p) ==
  [q EXCEPT !.state = "inflight", !.holder = p, !.attempts = @ + 1, !.claimEnds = LeaseEnd(q)]

Claimed(rs, r, p) == [rs EXCEPT ![r] = ClaimedBy(rs[r], p)]

\* The worker that has it.
WorksOn(w, r, token) == [w EXCEPT !.next = "execute", !.request = r, !.token = token, !.beat = now]

\* Bounds and lengths of time are natural numbers.
LEMMA Numbers ==
  ASSUME now \in Times
  PROVE  /\ now \in Nat /\ Lease \in Nat /\ StaleAfter \in Nat /\ PullWait \in Nat /\ ActionTimeout \in Nat
         /\ MaxRequests \in Nat /\ Requests \in SUBSET Nat
         /\ \A q \in RequestKinds : LeaseEnd(q) \in Nat
<1>1. /\ MaxTime \in Nat /\ Lease \in Nat /\ StaleAfter \in Nat /\ PullWait \in Nat
      /\ ActionTimeout \in Nat /\ MaxRequests \in Nat
  BY RelayAssumption
<1>2. now \in Nat
  BY <1>1 DEF Times
<1>3. Requests \in SUBSET Nat
  BY <1>1 DEF Requests
<1>4. ASSUME NEW q \in RequestKinds PROVE LeaseEnd(q) \in Nat
  <2>1. q.expires \in Nat
    BY DEF RequestKinds
  <2> QED BY <1>1, <1>2, <2>1 DEF LeaseEnd, Sooner
<1> QED BY <1>1, <1>2, <1>3, <1>4

\* Nothing happens to a request.
LEMMA StaysMoves ==
  ASSUME NEW q \in RequestKinds, Counted(q)
  PROVE  Moves(q, q)
BY DEF Moves, Advances, StillFirst, RequestKinds, States

\* The reclaim withdraws claims whose lease ran out.
LEMMA ReclaimMoves ==
  ASSUME now \in Times, NEW rs \in RequestMaps, \A r \in Requests : Counted(rs[r])
  PROVE  /\ ReclaimExpired(rs) \in RequestMaps
         /\ \A r \in Requests : Moves(rs[r], ReclaimExpired(rs)[r])
<1> SUFFICES ASSUME NEW r \in Requests
             PROVE  ReclaimExpired(rs)[r] \in RequestKinds /\ Moves(rs[r], ReclaimExpired(rs)[r])
  BY DEF ReclaimExpired, RequestMaps
<1> DEFINE q == rs[r]
           n == [q EXCEPT !.state = "pending", !.holder = NoPeer, !.claimEnds = 0]
<1>1. q \in RequestKinds /\ Counted(q)
  BY DEF RequestMaps
<1>2. now \in Nat
  BY Numbers
<1>3. CASE q.state = "inflight" /\ q.claimEnds <= now /\ q.expires > now
  <2>1. ReclaimExpired(rs)[r] = n
    BY <1>3 DEF ReclaimExpired
  <2>2. n \in RequestKinds
    BY <1>1 DEF RequestKinds, States, Nobody
  <2>3. n.state = "pending" /\ n.attempts = q.attempts /\ q.attempts \in Nat /\ q.claimEnds \in Nat
    BY <1>1 DEF RequestKinds
  <2> HIDE DEF n
  <2>4. Counted(n)
    BY <2>3 DEF Counted
  <2>5. Advances(q, n)
    BY <1>2, <1>3, <2>3, <2>4 DEF Advances
  <2>6. StillFirst(q, n)
    BY <1>1, <1>3, <2>3 DEF StillFirst, Counted
  <2> QED BY <2>1, <2>2, <2>5, <2>6 DEF Moves
<1>4. CASE ~(q.state = "inflight" /\ q.claimEnds <= now /\ q.expires > now)
  <2>1. ReclaimExpired(rs)[r] = q
    BY <1>4 DEF ReclaimExpired
  <2> HIDE DEF q
  <2> QED BY <1>1, <2>1, StaysMoves DEF q
<1> QED BY <1>3, <1>4

\* A heartbeat renews the claims of its peer.
LEMMA RenewMoves ==
  ASSUME now \in Times, NEW rs \in RequestMaps, \A r \in Requests : Counted(rs[r]), NEW p \in Peers
  PROVE  /\ RenewInflightClaims(rs, p) \in RequestMaps
         /\ \A r \in Requests : Moves(rs[r], RenewInflightClaims(rs, p)[r])
         /\ \A r \in Requests : rs[r].state = "inflight" /\ rs[r].holder = p =>
              /\ RenewInflightClaims(rs, p)[r].claimEnds = LeaseEnd(rs[r])
              /\ RenewInflightClaims(rs, p)[r].expires = rs[r].expires
         /\ \A r \in Requests : RenewInflightClaims(rs, p)[r].attempts = rs[r].attempts
<1> SUFFICES ASSUME NEW r \in Requests
             PROVE  /\ RenewInflightClaims(rs, p)[r] \in RequestKinds
                    /\ Moves(rs[r], RenewInflightClaims(rs, p)[r])
                    /\ rs[r].state = "inflight" /\ rs[r].holder = p =>
                         /\ RenewInflightClaims(rs, p)[r].claimEnds = LeaseEnd(rs[r])
                         /\ RenewInflightClaims(rs, p)[r].expires = rs[r].expires
                    /\ RenewInflightClaims(rs, p)[r].attempts = rs[r].attempts
  BY DEF RenewInflightClaims, RequestMaps
<1> DEFINE q == rs[r]
           n == [q EXCEPT !.claimEnds = LeaseEnd(q)]
<1>1. q \in RequestKinds /\ Counted(q)
  BY DEF RequestMaps
<1>2. LeaseEnd(q) \in Nat
  BY <1>1, Numbers
<1>3. CASE q.state = "inflight" /\ q.holder = p
  <2>1. RenewInflightClaims(rs, p)[r] = n
    BY <1>3 DEF RenewInflightClaims
  <2>2. n \in RequestKinds
    BY <1>1, <1>2 DEF RequestKinds
  <2>3. /\ n.state = q.state /\ n.attempts = q.attempts /\ n.holder = q.holder
        /\ n.expires = q.expires /\ n.claimEnds = LeaseEnd(q) /\ n.accepted = q.accepted
        /\ q.attempts \in Nat
    BY <1>1 DEF RequestKinds
  <2> HIDE DEF n
  <2>4. Counted(n)
    BY <1>1, <2>3 DEF Counted
  <2>5. Advances(q, n)
    BY <1>3, <2>3, <2>4 DEF Advances
  <2>6. StillFirst(q, n)
    BY <1>3, <2>3 DEF StillFirst
  <2> QED BY <2>1, <2>2, <2>3, <2>5, <2>6 DEF Moves
<1>4. CASE ~(q.state = "inflight" /\ q.holder = p)
  <2>1. RenewInflightClaims(rs, p)[r] = q
    BY <1>4 DEF RenewInflightClaims
  <2> HIDE DEF q
  <2> QED BY <1>1, <1>4, <2>1, StaysMoves DEF q
<1> QED BY <1>3, <1>4

\* A request that is not settled ends.
LEMMA SettleMoves ==
  ASSUME NEW q \in RequestKinds, Counted(q), NEW how \in {"timed_out", "lost"}
  PROVE  Settle(q, how) \in RequestKinds /\ Moves(q, Settle(q, how))
<1> DEFINE n == Settle(q, how)
<1>1. n \in RequestKinds /\ n.state = how /\ n.attempts = q.attempts /\ q.attempts \in Nat
  BY DEF Settle, NoRequest, RequestKinds, States, Nobody
<1> HIDE DEF n
<1>2. Counted(n)
  BY <1>1 DEF Counted
<1>3. Advances(q, n) /\ StillFirst(q, n)
  BY <1>1, <1>2 DEF Advances, StillFirst
<1> QED BY <1>1, <1>3 DEF Moves, n

\* The result of the active claim is taken.
LEMMA AnswerMoves ==
  ASSUME NEW q \in RequestKinds, Counted(q), NEW sent \in ResultKinds, IsActiveClaim(q, sent)
  PROVE  LET n == [Settle(q, "answered") EXCEPT !.accepted = sent.token] IN
         n \in RequestKinds /\ Moves(q, n)
<1> DEFINE n == [Settle(q, "answered") EXCEPT !.accepted = sent.token]
<1>1. sent.token \in Nat /\ sent.token = q.attempts
  BY DEF ResultKinds, IsActiveClaim
<1>2. n \in RequestKinds /\ n.state = "answered" /\ n.attempts = q.attempts /\ n.accepted = q.attempts
  BY <1>1 DEF Settle, NoRequest, RequestKinds, States, Nobody
<1> HIDE DEF n
<1>3. Counted(n)
  BY <1>2 DEF Counted
<1>4. Advances(q, n) /\ StillFirst(q, n)
  BY <1>1, <1>2, <1>3 DEF Advances, StillFirst
<1> QED BY <1>2, <1>4 DEF Moves, n

\* A pending request is claimed, whatever became of it before.
LEMMA ClaimMoves ==
  ASSUME now \in Times, NEW q \in RequestKinds, NEW n \in RequestKinds, NEW p \in Peers,
         Moves(q, n), n.state = "pending"
  PROVE  /\ ClaimedBy(n, p) \in RequestKinds
         /\ Moves(q, ClaimedBy(n, p))
<1> DEFINE c == ClaimedBy(n, p)
<1>1. LeaseEnd(n) \in Nat
  BY Numbers
<1>2. n.attempts \in Nat /\ q.attempts \in Nat
  BY DEF RequestKinds
<1>3. c \in RequestKinds /\ c.state = "inflight" /\ c.attempts = n.attempts + 1
  <2> DEFINE d == n.attempts + 1
             e == LeaseEnd(n)
  <2>1. d \in Nat /\ e \in Nat
    BY <1>1, <1>2
  <2>2. c = [n EXCEPT !.state = "inflight", !.holder = p, !.attempts = d, !.claimEnds = e]
    BY DEF ClaimedBy
  <2> HIDE DEF c, d, e
  <2>3. c \in RequestKinds /\ c.state = "inflight" /\ c.attempts = d
    BY <2>1, <2>2 DEF RequestKinds, States, Nobody
  <2> QED BY <2>3 DEF d
<1> HIDE DEF c
<1>4. Counted(c)
  BY <1>2, <1>3 DEF Counted
<1>5. ~(q.state = "inflight" /\ q.claimEnds > now) /\ n.attempts >= q.attempts
  BY DEF Moves, Advances
<1>6. Advances(q, c)
  BY <1>2, <1>3, <1>4, <1>5 DEF Advances
<1>7. StillFirst(q, c)
  BY <1>3 DEF StillFirst
<1> QED BY <1>3, <1>6, <1>7 DEF Moves, c

\* What claimNextActionRequest does, and with which request the worker goes on.
LEMMA ClaimNextIs ==
  ASSUME now \in Times, NEW ps, NEW rs \in RequestMaps, NEW p \in Peers, NEW w,
         FindClaimable(ps, rs, p) # {}
  PROVE  \E r \in FindClaimable(ps, rs, p) :
           /\ ClaimNext(ps, rs, p) = Claimed(rs, r, p)
           /\ Works(w, rs, ClaimNext(ps, rs, p)) = WorksOn(w, r, rs[r].attempts + 1)
<1> DEFINE r == Min(FindClaimable(ps, rs, p))
           claimed == ClaimNext(ps, rs, p)
<1>1. FindClaimable(ps, rs, p) \in SUBSET Requests
  BY DEF FindClaimable
<1>2. r \in FindClaimable(ps, rs, p) /\ r \in Requests
  <2>1. FindClaimable(ps, rs, p) \in SUBSET Nat
    BY <1>1, Numbers
  <2> QED BY <1>1, <2>1, MinOf
<1> HIDE DEF r
<1>3. claimed = Claimed(rs, r, p)
  BY DEF ClaimNext, Claimed, ClaimedBy, r
<1> HIDE DEF claimed
<1>4. rs[r] \in RequestKinds /\ rs[r].attempts \in Nat
  BY <1>2 DEF RequestMaps, RequestKinds
<1>5. claimed[r].attempts = rs[r].attempts + 1
  BY <1>2, <1>3, <1>4 DEF Claimed, ClaimedBy, RequestMaps, RequestKinds
<1>6. \A s \in Requests : s # r => claimed[s] = rs[s]
  BY <1>3 DEF Claimed, RequestMaps
<1>7. \A s \in Requests : claimed[s].attempts > rs[s].attempts <=> s = r
  <2> SUFFICES ASSUME NEW s \in Requests PROVE claimed[s].attempts > rs[s].attempts <=> s = r
    OBVIOUS
  <2>1. rs[s].attempts \in Nat
    BY DEF RequestMaps, RequestKinds
  <2> QED BY <1>4, <1>5, <1>6, <2>1
<1>8. (CHOOSE s \in Requests : claimed[s].attempts > rs[s].attempts) = r
  BY <1>2, <1>7
<1>9. Works(w, rs, claimed) = WorksOn(w, r, rs[r].attempts + 1)
  BY <1>5, <1>8 DEF Works, WorksOn
<1> QED BY <1>2, <1>3, <1>9 DEF claimed

-----------------------------------------------------------------------------
(* The waiters.                                                            *)

\* What RemoveAt leaves.
LEMMA RemoveAtIs ==
  ASSUME NEW ws \in Seq(WaiterKinds), NEW i \in 1 .. Len(ws)
  PROVE  /\ RemoveAt(ws, i) \in Seq(WaiterKinds)
         /\ \A j \in DOMAIN RemoveAt(ws, i) : \E k \in DOMAIN ws : RemoveAt(ws, i)[j] = ws[k]
         /\ \A k \in DOMAIN ws : k # i => \E j \in DOMAIN RemoveAt(ws, i) : RemoveAt(ws, i)[j] = ws[k]
<1> DEFINE m == Len(ws)
           a == SubSeq(ws, 1, i - 1)
           b == SubSeq(ws, i + 1, m)
           t == a \o b
<1>1. m \in Nat /\ i \in Nat /\ 1 <= i /\ i <= m /\ DOMAIN ws = 1 .. m
  OBVIOUS
<1>2. /\ a \in Seq(WaiterKinds) /\ Len(a) = i - 1
      /\ \A j \in 1 .. (i - 1) : a[j] = ws[j]
  BY <1>1
<1>3. /\ b \in Seq(WaiterKinds) /\ Len(b) = m - i
      /\ \A j \in 1 .. (m - i) : b[j] = ws[i + j]
  <2>1. \A j \in (i + 1) .. m : ws[j] \in WaiterKinds
    BY <1>1
  <2>2. b = [j \in 1 .. (m - i) |-> ws[i + j]]
    <3>1. m - (i + 1) + 1 = m - i /\ \A j \in 1 .. (m - i) : j + (i + 1) - 1 = i + j
      BY <1>1
    <3> QED BY <1>1, <3>1
  <2>3. \A j \in 1 .. (m - i) : i + j \in (i + 1) .. m
    BY <1>1
  <2>4. m - i \in Nat
    BY <1>1
  <2> HIDE DEF b, m
  <2> QED BY <2>1, <2>2, <2>3, <2>4
<1> HIDE DEF a, b, m
<1>4. /\ t \in Seq(WaiterKinds) /\ DOMAIN t = 1 .. (m - 1)
      /\ \A j \in 1 .. (m - 1) : t[j] = IF j <= i - 1 THEN a[j] ELSE b[j - (i - 1)]
  BY <1>1, <1>2, <1>3
<1> HIDE DEF t
<1>5. ASSUME NEW j \in 1 .. (m - 1) PROVE \E k \in DOMAIN ws : t[j] = ws[k]
  <2>1. CASE j <= i - 1
    <3>1. j \in 1 .. (i - 1) /\ j \in 1 .. m
      BY <1>1, <2>1
    <3>2. t[j] = ws[j]
      BY <1>2, <1>4, <2>1, <3>1
    <3> QED BY <1>1, <3>1, <3>2
  <2>2. CASE ~(j <= i - 1)
    <3>1. j - (i - 1) \in 1 .. (m - i) /\ i + (j - (i - 1)) = j + 1 /\ j + 1 \in 1 .. m
      BY <1>1, <2>2
    <3>2. t[j] = ws[j + 1]
      BY <1>3, <1>4, <2>2, <3>1
    <3> QED BY <1>1, <3>1, <3>2
  <2> QED BY <2>1, <2>2
<1>6. ASSUME NEW k \in DOMAIN ws, k # i PROVE \E j \in 1 .. (m - 1) : t[j] = ws[k]
  <2>1. CASE k < i
    <3>1. k \in 1 .. (i - 1) /\ k \in 1 .. (m - 1) /\ k <= i - 1
      BY <1>1, <2>1
    <3> QED BY <1>2, <1>4, <3>1
  <2>2. CASE k > i
    <3>1. k - i \in 1 .. (m - i) /\ i + (k - i) = k /\ k - 1 \in 1 .. (m - 1)
          /\ ~(k - 1 <= i - 1) /\ (k - 1) - (i - 1) = k - i
      BY <1>1, <2>2
    <3>2. t[k - 1] = ws[k]
      BY <1>3, <1>4, <3>1
    <3> QED BY <3>1, <3>2
  <2> QED BY <1>1, <1>6, <2>1, <2>2
<1>7. RemoveAt(ws, i) = t
  BY DEF RemoveAt, t, a, b, m
<1> QED BY <1>4, <1>5, <1>6, <1>7

\* What RemoveFirst leaves: every waiter but one that is equal to w.
LEMMA RemoveFirstIs ==
  ASSUME NEW ws \in Seq(WaiterKinds), NEW w
  PROVE  /\ RemoveFirst(ws, w) \in Seq(WaiterKinds)
         /\ \A j \in DOMAIN RemoveFirst(ws, w) : \E k \in DOMAIN ws : RemoveFirst(ws, w)[j] = ws[k]
         /\ \A k \in DOMAIN ws : ws[k] # w =>
              \E j \in DOMAIN RemoveFirst(ws, w) : RemoveFirst(ws, w)[j] = ws[k]
<1> DEFINE I == {i \in 1 .. Len(ws) : ws[i] = w}
<1>1. CASE I = {}
  BY <1>1 DEF RemoveFirst
<1>2. CASE I # {}
  <2>1. I \in SUBSET Nat
    OBVIOUS
  <2>2. Min(I) \in I
    <3> HIDE DEF I
    <3> QED BY <1>2, <2>1, MinOf
  <2>3. SelectInSeq(ws, LAMBDA v : v = w) = Min(I)
    BY <1>2 DEF SelectInSeq
  <2>4. RemoveFirst(ws, w) = RemoveAt(ws, Min(I))
    BY <1>2, <2>3 DEF RemoveFirst
  <2>5. Min(I) \in 1 .. Len(ws) /\ ws[Min(I)] = w
    BY <2>2
  <2> DEFINE i == Min(I)
  <2> HIDE DEF i, I
  <2>6. i \in 1 .. Len(ws) /\ ws[i] = w /\ RemoveFirst(ws, w) = RemoveAt(ws, i)
    BY <2>4, <2>5 DEF i
  <2>7. \A k \in DOMAIN ws : ws[k] # w => k # i
    BY <2>6
  <2> DEFINE t == RemoveAt(ws, i)
  <2>8. /\ t \in Seq(WaiterKinds)
        /\ \A j \in DOMAIN t : \E k \in DOMAIN ws : t[j] = ws[k]
        /\ \A k \in DOMAIN ws : k # i => \E j \in DOMAIN t : t[j] = ws[k]
    BY <2>6, RemoveAtIs
  <2> HIDE DEF t
  <2>9. RemoveFirst(ws, w) = t
    BY <2>6 DEF t
  <2> QED BY <2>7, <2>8, <2>9
<1> QED BY <1>1, <1>2

-----------------------------------------------------------------------------
(* What notifyPullWaiters does.                                            *)

\* A worker holds what it held when no claim of its peer was withdrawn.
LEMMA HoldsMoves ==
  ASSUME now \in Times, NEW rs \in RequestMaps, NEW ns \in RequestMaps,
         \A r \in Requests : Advances(rs[r], ns[r]),
         NEW p \in Peers, NEW w \in WorkerKinds, w.beat <= now, Holds(rs, w, p)
  PROVE  Holds(ns, w, p)
<1> SUFFICES ASSUME w.next \in {"execute", "submit"}
             PROVE  /\ w.request \in Requests
                    /\ w.token <= ns[w.request].attempts
                    /\ ns[w.request].state = "inflight" /\ ns[w.request].attempts = w.token =>
                         /\ ns[w.request].holder = p
                         /\ w.next = "execute" =>
                              ns[w.request].claimEnds >= Sooner(ns[w.request].expires, w.beat + Lease)
  BY DEF Holds
<1> DEFINE q == rs[w.request]
           n == ns[w.request]
<1>1. /\ w.request \in Requests
      /\ w.token <= q.attempts
      /\ q.state = "inflight" /\ q.attempts = w.token =>
           /\ q.holder = p
           /\ w.next = "execute" => q.claimEnds >= Sooner(q.expires, w.beat + Lease)
  BY DEF Holds
<1>2. Advances(q, n) /\ q \in RequestKinds /\ n \in RequestKinds
  BY <1>1 DEF RequestMaps
<1> HIDE DEF q, n
<1>3. /\ q.attempts \in Nat /\ n.attempts \in Nat /\ q.expires \in Nat /\ q.claimEnds \in Nat
      /\ n.claimEnds \in Nat
  BY <1>2 DEF RequestKinds
<1>4. w.token \in Nat /\ w.beat \in Nat
  BY DEF WorkerKinds
<1>5. w.token <= n.attempts
  BY <1>1, <1>2, <1>3, <1>4 DEF Advances
<1>6. ASSUME n.state = "inflight", n.attempts = w.token
      PROVE  /\ n.holder = p
             /\ w.next = "execute" => n.claimEnds >= Sooner(n.expires, w.beat + Lease)
  <2>1. n.attempts = q.attempts
    BY <1>1, <1>2, <1>3, <1>4, <1>6 DEF Advances
  <2>2. /\ q.state = "inflight" /\ n.holder = q.holder /\ n.expires = q.expires
        /\ n.claimEnds \in {q.claimEnds, LeaseEnd(q)}
    BY <1>2, <1>6, <2>1 DEF Advances
  <2>3. /\ n.holder = p
        /\ w.next = "execute" => q.claimEnds >= Sooner(q.expires, w.beat + Lease)
    BY <1>1, <1>6, <2>1, <2>2
  <2>4. LeaseEnd(q) >= Sooner(q.expires, w.beat + Lease)
    <3>1. now \in Nat /\ Lease \in Nat
      BY Numbers
    <3> QED BY <1>3, <1>4, <3>1 DEF LeaseEnd, Sooner
  <2> QED BY <2>2, <2>3, <2>4
<1> QED BY <1>1, <1>5, <1>6 DEF q, n

\* The worker that was just handed a request holds it.
LEMMA HoldsNew ==
  ASSUME now \in Times, NEW rs \in RequestMaps, NEW r \in Requests, NEW p \in Peers,
         NEW w \in WorkerKinds
  PROVE  LET v == WorksOn(w, r, rs[r].attempts + 1) IN
         /\ v \in WorkerKinds
         /\ v.next = "execute"
         /\ v.beat <= now
         /\ Holds(Claimed(rs, r, p), v, p)
<1> DEFINE q == rs[r]
           d == q.attempts + 1
           v == WorksOn(w, r, d)
           n == ClaimedBy(q, p)
           ns == Claimed(rs, r, p)
<1>1. q \in RequestKinds
  BY DEF RequestMaps
<1>2. now \in Nat /\ MaxRequests \in Nat /\ r \in 0 .. MaxRequests
  BY Numbers DEF Requests
<1>3. ns[r] = n
  BY DEF Claimed, RequestMaps
<1> HIDE DEF q, ns
<1>4. d \in Nat
  BY <1>1 DEF RequestKinds
<1>5. n.attempts = d /\ n.holder = p /\ n.claimEnds = LeaseEnd(q) /\ n.expires = q.expires
  BY <1>1 DEF ClaimedBy, RequestKinds
<1>6. LeaseEnd(q) = Sooner(q.expires, now + Lease)
  BY DEF LeaseEnd
<1> HIDE DEF n, d
<1>7. /\ v \in WorkerKinds
      /\ v.next = "execute" /\ v.request = r /\ v.token = d /\ v.beat = now
  BY <1>2, <1>4 DEF WorksOn, WorkerKinds
<1> HIDE DEF v
<1>8. LeaseEnd(q) \in Nat
  BY <1>1, Numbers
<1>9. Holds(ns, v, p)
  BY <1>3, <1>4, <1>5, <1>6, <1>7, <1>8 DEF Holds
<1> QED BY <1>2, <1>7, <1>9 DEF v, ns, n, d, q

\* What was never handed out and is for p, p may take while it is heard.
LEMMA OwedClaimable ==
  ASSUME now \in Times, NEW ps, NEW rs, NEW p \in Peers, NEW r \in Requests,
         ps[p].known, ps[p].seen = now, Owed(rs[r], p, r)
  PROVE  r \in FindClaimable(ps, rs, p)
<1>1. IsPeerOnline(ps, p)
  BY Numbers DEF IsPeerOnline
<1> QED BY <1>1 DEF FindClaimable, CanPeerClaimAction, Owed

NotifyStates == [peers : [Peers -> PeerKinds], requests : RequestMaps,
                 waiters : Seq(WaiterKinds), worker : [Peers -> WorkerKinds]]

\* Who waits after the first k of the waiters were notified.
StillWaits(g, k, p) ==
  /\ worker[p].next = "wait"
  /\ Awaited(waiters, p) => Awaited(g.waiters, p)
  /\ \A i \in 1 .. k : waiters[i].peer = p /\ waiters[i].heard =>
       \A r \in Requests : ~Owed(g.requests[r], p, r)

\* The state after the first k of the waiters were notified of the requests rs.
Between(rs, k, g) ==
  /\ \A r \in Requests : Moves(rs[r], g.requests[r])
  /\ \A p \in Peers : peers[p].known => g.peers[p].known
  /\ \A p \in Peers : Holds(g.requests, g.worker[p], p) /\ g.worker[p].beat <= now
  /\ \A p \in Peers : g.worker[p].next = "wait" => StillWaits(g, k, p)
  /\ \A j \in DOMAIN g.waiters : \E i \in DOMAIN waiters : g.waiters[j] = waiters[i]

\* One waiter is notified.
LEMMA NotifyOne ==
  ASSUME now \in Times, waiters \in Seq(WaiterKinds), NEW rs \in RequestMaps,
         \A i \in DOMAIN waiters : peers[waiters[i].peer].known,
         NEW k \in 1 .. Len(waiters), NEW g \in NotifyStates, Between(rs, k - 1, g)
  PROVE  /\ NotifyPullWaiter(g, waiters[k]) \in NotifyStates
         /\ Between(rs, k, NotifyPullWaiter(g, waiters[k]))
<1> DEFINE w == waiters[k]
           p == w.peer
           ps == Seen(g.peers, p)
           claimed == ClaimNext(ps, g.requests, p)
           none == FindClaimable(ps, g.requests, p) = {}
           n == NotifyPullWaiter(g, w)
<1>1. w \in WaiterKinds /\ p \in Peers /\ k \in DOMAIN waiters /\ peers[p].known
  <2>1. k \in DOMAIN waiters
    OBVIOUS
  <2>2. w \in WaiterKinds
    BY <2>1
  <2>3. p \in Peers
    BY <2>2 DEF WaiterKinds
  <2> QED BY <2>1, <2>2, <2>3
<1>2. /\ g.peers \in [Peers -> PeerKinds] /\ g.requests \in RequestMaps
      /\ g.waiters \in Seq(WaiterKinds) /\ g.worker \in [Peers -> WorkerKinds]
  BY DEF NotifyStates
<1>3. /\ ps \in [Peers -> PeerKinds]
      /\ ps[p].seen = now
      /\ \A x \in Peers : ps[x].known = g.peers[x].known
  <2>1. now \in Nat
    BY Numbers
  <2> HIDE DEF w
  <2> QED BY <1>1, <1>2, <2>1 DEF Seen, PeerKinds
<1>4. \A x \in Peers : peers[x].known => ps[x].known
  BY <1>3 DEF Between
<1>5. CASE none
  <2>1. n = [g EXCEPT !.peers = ps]
    BY <1>5 DEF NotifyPullWaiter
  <2> HIDE DEF n, ps, none
  <2>2. /\ n \in NotifyStates
        /\ n.peers = ps /\ n.requests = g.requests /\ n.waiters = g.waiters /\ n.worker = g.worker
    BY <1>3, <2>1 DEF NotifyStates
  <2>3. ASSUME NEW x \in Peers, n.worker[x].next = "wait" PROVE StillWaits(n, k, x)
    <3>1. StillWaits(g, k - 1, x)
      BY <2>2, <2>3 DEF Between
    <3>2. ASSUME NEW i \in 1 .. k, waiters[i].peer = x, waiters[i].heard, NEW r \in Requests
          PROVE  ~Owed(n.requests[r], x, r)
      <4>1. CASE i = k
        <5>1. x = p
          BY <3>2, <4>1
        <5>2. ps[p].known /\ r \notin FindClaimable(ps, g.requests, p)
          BY <1>1, <1>4, <1>5 DEF none
        <5> QED BY <1>1, <1>3, <2>2, <5>1, <5>2, OwedClaimable
      <4>2. CASE i # k
        <5>1. i \in 1 .. (k - 1)
          BY <4>2
        <5> QED BY <2>2, <3>1, <3>2, <5>1 DEF StillWaits
      <4> QED BY <4>1, <4>2
    <3> QED BY <2>2, <3>1, <3>2 DEF StillWaits
  <2>4. Between(rs, k, n)
    BY <1>4, <2>2, <2>3 DEF Between
  <2> QED BY <2>2, <2>4 DEF n
<1>6. CASE ~none
  <2>1. PICK r \in FindClaimable(ps, g.requests, p) :
          /\ claimed = Claimed(g.requests, r, p)
          /\ Works(g.worker[p], g.requests, claimed) =
               WorksOn(g.worker[p], r, g.requests[r].attempts + 1)
    <3> DEFINE u == g.worker[p]
               gr == g.requests
    <3>1. gr \in RequestMaps /\ p \in Peers /\ FindClaimable(ps, gr, p) # {}
      BY <1>1, <1>2, <1>6
    <3> HIDE DEF ps, u, gr, p
    <3>2. \E r \in FindClaimable(ps, gr, p) :
            /\ ClaimNext(ps, gr, p) = Claimed(gr, r, p)
            /\ Works(u, gr, ClaimNext(ps, gr, p)) = WorksOn(u, r, gr[r].attempts + 1)
      BY <3>1, ClaimNextIs
    <3> QED BY <3>2 DEF gr, u
  <2>2. r \in Requests /\ g.requests[r].state = "pending"
    BY <2>1 DEF FindClaimable
  <2> DEFINE v == WorksOn(g.worker[p], r, g.requests[r].attempts + 1)
             ws == RemoveFirst(g.waiters, w)
             workers == IF w.heard THEN [g.worker EXCEPT ![p] = v] ELSE g.worker
  <2>3. n = [peers |-> ps, requests |-> claimed, waiters |-> ws, worker |-> workers]
    BY <1>6, <2>1 DEF NotifyPullWaiter
  <2>4. n.peers = ps /\ n.requests = claimed /\ n.waiters = ws /\ n.worker = workers
    BY <2>3
  <2> HIDE DEF n, ps, none, claimed
  \* The requests.
  <2>5. g.requests[r] \in RequestKinds /\ Counted(g.requests[r])
    BY <1>2, <2>2 DEF RequestMaps, Between, Moves, Advances
  <2>6. ClaimedBy(g.requests[r], p) \in RequestKinds /\ Moves(g.requests[r], ClaimedBy(g.requests[r], p))
    BY <1>1, <2>2, <2>5, StaysMoves, ClaimMoves
  <2>7. Moves(rs[r], ClaimedBy(g.requests[r], p))
    <3>1. rs[r] \in RequestKinds /\ Moves(rs[r], g.requests[r])
      BY <2>2 DEF RequestMaps, Between
    <3> QED BY <1>1, <2>2, <2>5, <3>1, ClaimMoves
  <2>8. /\ claimed \in RequestMaps
        /\ claimed[r] = ClaimedBy(g.requests[r], p)
        /\ \A s \in Requests : s # r => claimed[s] = g.requests[s]
    BY <1>2, <2>1, <2>2, <2>6 DEF RequestMaps, Claimed
  <2>9. \A s \in Requests : Moves(rs[s], claimed[s])
    BY <2>7, <2>8 DEF Between
  <2>10. \A s \in Requests : Advances(g.requests[s], claimed[s])
    <3> SUFFICES ASSUME NEW s \in Requests PROVE Advances(g.requests[s], claimed[s])
      OBVIOUS
    <3>1. CASE s = r
      BY <2>6, <2>8, <3>1 DEF Moves
    <3>2. CASE s # r
      <4>1. g.requests[s] \in RequestKinds /\ Counted(g.requests[s])
        BY <1>2 DEF RequestMaps, Between, Moves, Advances
      <4> QED BY <2>8, <3>2, <4>1, StaysMoves DEF Moves
    <3> QED BY <3>1, <3>2
  <2>11. claimed[r].state = "inflight"
    BY <2>5, <2>8 DEF ClaimedBy, RequestKinds
  \* The workers.
  <2>12. v \in WorkerKinds /\ v.next = "execute" /\ v.beat <= now /\ Holds(claimed, v, p)
    <3> DEFINE u == g.worker[p]
    <3>1. u \in WorkerKinds
      BY <1>1, <1>2
    <3> HIDE DEF u, w
    <3> QED BY <1>1, <1>2, <2>1, <2>2, <3>1, HoldsNew
  <2> HIDE DEF v
  <2>13. /\ workers \in [Peers -> WorkerKinds]
         /\ w.heard => workers[p] = v
         /\ \A x \in Peers : x # p \/ ~w.heard => workers[x] = g.worker[x]
    <3> HIDE DEF w
    <3> QED BY <1>1, <1>2, <2>12
  <2> HIDE DEF workers
  <2>14. \A x \in Peers : Holds(claimed, workers[x], x) /\ workers[x].beat <= now
    <3> SUFFICES ASSUME NEW x \in Peers PROVE Holds(claimed, workers[x], x) /\ workers[x].beat <= now
      OBVIOUS
    <3>1. CASE x = p /\ w.heard
      BY <2>12, <2>13, <3>1
    <3>2. CASE x # p \/ ~w.heard
      <4>1. workers[x] = g.worker[x]
        BY <2>13, <3>2
      <4>2. Holds(g.requests, workers[x], x) /\ workers[x].beat <= now /\ workers[x] \in WorkerKinds
        BY <2>13, <4>1 DEF Between
      <4> QED BY <1>2, <2>8, <2>10, <4>2, HoldsMoves
    <3> QED BY <3>1, <3>2
  \* The waiters.
  <2>15. /\ ws \in Seq(WaiterKinds)
         /\ \A j \in DOMAIN ws : \E i \in DOMAIN g.waiters : ws[j] = g.waiters[i]
         /\ \A i \in DOMAIN g.waiters : g.waiters[i] # w => \E j \in DOMAIN ws : ws[j] = g.waiters[i]
    <3> DEFINE gw == g.waiters
    <3>1. gw \in Seq(WaiterKinds)
      BY <1>2
    <3> HIDE DEF w, gw
    <3>2. /\ RemoveFirst(gw, w) \in Seq(WaiterKinds)
          /\ \A j \in DOMAIN RemoveFirst(gw, w) : \E i \in DOMAIN gw : RemoveFirst(gw, w)[j] = gw[i]
          /\ \A i \in DOMAIN gw : gw[i] # w =>
               \E j \in DOMAIN RemoveFirst(gw, w) : RemoveFirst(gw, w)[j] = gw[i]
      BY <3>1, RemoveFirstIs
    <3> QED BY <3>2 DEF gw
  <2> HIDE DEF ws
  <2>16. \A j \in DOMAIN ws : \E i \in DOMAIN waiters : ws[j] = waiters[i]
    BY <2>15 DEF Between
  <2>17. ASSUME NEW x \in Peers, workers[x].next = "wait" PROVE StillWaits(n, k, x)
    <3>1. x # p \/ ~w.heard
      BY <2>12, <2>13, <2>17
    <3>2. StillWaits(g, k - 1, x)
      BY <2>13, <2>17, <3>1 DEF Between
    <3>3. Awaited(g.waiters, x) => Awaited(ws, x)
      BY <2>15, <3>1 DEF Awaited
    <3>4. ASSUME NEW i \in 1 .. k, waiters[i].peer = x, waiters[i].heard, NEW s \in Requests
          PROVE  ~Owed(claimed[s], x, s)
      <4>1. i \in 1 .. (k - 1)
        BY <3>1, <3>4
      <4>2. ~Owed(g.requests[s], x, s)
        BY <3>2, <3>4, <4>1 DEF StillWaits
      <4> QED BY <2>8, <2>11, <4>2 DEF Owed
    <3> QED BY <2>4, <3>2, <3>3, <3>4 DEF StillWaits
  <2>18. Between(rs, k, n)
    BY <1>4, <2>4, <2>9, <2>14, <2>16, <2>17 DEF Between
  <2>19. n \in NotifyStates
    BY <1>3, <2>3, <2>8, <2>13, <2>15 DEF NotifyStates
  <2> QED BY <2>18, <2>19 DEF n
<1> QED BY <1>5, <1>6

\* All of them are notified, beginning with the oldest.
LEMMA NotifyAll ==
  ASSUME TypeOK, WorkInv, WaiterInv, NEW rs \in RequestMaps, \A r \in Requests : Counted(rs[r]),
         \A r \in Requests : Advances(requests[r], rs[r])
  PROVE  /\ NotifyPullWaiters(rs) \in NotifyStates
         /\ Between(rs, Len(waiters), NotifyPullWaiters(rs))
<1> DEFINE P == [k \in Nat |-> {g \in NotifyStates : Between(rs, k, g)}]
           base == Unnotified(rs)
           ns == ReclaimExpired(rs)
<1>1. /\ now \in Times /\ waiters \in Seq(WaiterKinds) /\ Len(waiters) \in Nat
      /\ peers \in [Peers -> PeerKinds] /\ worker \in [Peers -> WorkerKinds]
      /\ requests \in RequestMaps
  BY DEF TypeOK, RequestMaps
<1>2. ns \in RequestMaps /\ \A r \in Requests : Moves(rs[r], ns[r])
  BY <1>1, ReclaimMoves
<1>3. \A p \in Peers : Holds(ns, worker[p], p) /\ worker[p].beat <= now
  <2> SUFFICES ASSUME NEW p \in Peers PROVE Holds(ns, worker[p], p) /\ worker[p].beat <= now
    OBVIOUS
  <2>1. Holds(requests, worker[p], p) /\ worker[p].beat <= now /\ worker[p] \in WorkerKinds
    BY <1>1 DEF WorkInv
  <2>2. Holds(rs, worker[p], p)
    BY <1>1, <2>1, HoldsMoves
  <2>3. \A r \in Requests : Advances(rs[r], ns[r])
    BY <1>2 DEF Moves
  <2> HIDE DEF ns
  <2> QED BY <1>1, <1>2, <2>1, <2>2, <2>3, HoldsMoves
<1> HIDE DEF ns
<1>4. base = [peers |-> peers, requests |-> ns, waiters |-> waiters, worker |-> worker]
  BY DEF Unnotified, ns
<1> HIDE DEF base
<1>5. base \in NotifyStates
  BY <1>1, <1>2, <1>4 DEF NotifyStates
<1>6. \A p \in Peers : worker[p].next = "wait" => StillWaits(base, 0, p)
  BY <1>4 DEF StillWaits
<1>7. Between(rs, 0, base)
  BY <1>2, <1>3, <1>4, <1>6 DEF Between
<1>8. ASSUME NEW k \in 1 .. Len(waiters), NEW g \in P[k - 1]
      PROVE  NotifyPullWaiter(g, waiters[k]) \in P[k]
  <2>1. k - 1 \in Nat /\ k \in Nat
    BY <1>1
  <2>2. g \in NotifyStates /\ Between(rs, k - 1, g)
    BY <1>8, <2>1
  <2>3. \A i \in DOMAIN waiters : peers[waiters[i].peer].known
    BY DEF WaiterInv
  <2>4. /\ NotifyPullWaiter(g, waiters[k]) \in NotifyStates
        /\ Between(rs, k, NotifyPullWaiter(g, waiters[k]))
    BY <1>1, <2>2, <2>3, NotifyOne
  <2> QED BY <2>1, <2>4
<1>9. base \in P[0]
  BY <1>5, <1>7
<1>10. NotifyPullWaiters(rs) \in P[Len(waiters)]
  <2> HIDE DEF P
  <2> QED BY <1>1, <1>8, <1>9, NotifyKeeps DEF base
<1> QED BY <1>1, <1>10

-----------------------------------------------------------------------------
(* What a step does to the invariant.                                      *)

\* What KeptWhileBeating says of a step.
Kept == \A p \in Peers, r \in Requests :
  /\ worker[p].next = "execute" /\ worker[p].request = r
  /\ requests[r].state = "inflight" /\ requests[r].attempts = worker[p].token
  /\ now < Sooner(requests[r].expires, worker[p].beat + Lease)
  => /\ requests'[r].state # "pending"
     /\ requests'[r].attempts = worker[p].token

\* A request that advances is kept for the worker that is heard.
LEMMA KeptByAdvances ==
  ASSUME IInv, \A r \in Requests : Advances(requests[r], requests'[r])
  PROVE  Kept
<1> SUFFICES ASSUME NEW p \in Peers, NEW r \in Requests,
                    worker[p].next = "execute", worker[p].request = r,
                    requests[r].state = "inflight", requests[r].attempts = worker[p].token,
                    now < Sooner(requests[r].expires, worker[p].beat + Lease)
             PROVE  requests'[r].state # "pending" /\ requests'[r].attempts = worker[p].token
  BY DEF Kept
<1>1. Holds(requests, worker[p], p)
  BY DEF IInv, WorkInv
<1>2. requests[r].claimEnds >= Sooner(requests[r].expires, worker[p].beat + Lease)
  BY <1>1 DEF Holds
<1>3. now \in Nat /\ Lease \in Nat
  BY Numbers DEF IInv, TypeOK
<1>4. requests[r].claimEnds \in Nat /\ requests[r].expires \in Nat
  BY DEF IInv, TypeOK, RequestKinds
<1>5. worker[p].beat \in Nat
  BY DEF IInv, TypeOK, WorkerKinds
<1>6. requests[r].claimEnds > now
  BY <1>2, <1>3, <1>4, <1>5 DEF Sooner
<1> QED BY <1>6 DEF Advances

\* What is to be shown of a step at which no time passes.
LEMMA AnyStep ==
  ASSUME IInv, TypeOK', now' = now,
         \A r \in Requests : Advances(requests[r], requests'[r]),
         \A p \in Peers : Holds(requests', worker'[p], p) /\ worker'[p].beat <= now,
         \A i \in DOMAIN waiters' : peers'[waiters'[i].peer].known,
         \A p \in Peers : worker'[p].next = "wait" =>
           Awaited(waiters', p) /\ \A r \in Requests : ~Owed(requests'[r], p, r)
  PROVE  IInv' /\ Kept
<1>1. CountInv'
  BY DEF CountInv, Advances
<1>2. WorkInv'
  BY DEF WorkInv
<1>3. WaiterInv' /\ OwedInv'
  BY DEF WaiterInv, OwedInv
<1>4. Kept
  BY KeptByAdvances
<1> QED BY <1>1, <1>2, <1>3, <1>4 DEF IInv

\* A step by which no worker gets anything to do and none begins to wait.
LEMMA PlainStep ==
  ASSUME IInv, TypeOK', now' = now,
         \A r \in Requests : Moves(requests[r], requests'[r]),
         \A p \in Peers : \/ worker'[p] = worker[p]
                          \/ /\ worker'[p].next \notin {"execute", "submit", "wait"}
                             /\ worker'[p].beat <= now,
         \A i \in DOMAIN waiters' : peers'[waiters'[i].peer].known,
         \A p \in Peers : worker'[p].next = "wait" /\ Awaited(waiters, p) => Awaited(waiters', p)
  PROVE  IInv' /\ Kept
<1>1. \A r \in Requests : Advances(requests[r], requests'[r])
  BY DEF Moves
<1>2. /\ now \in Times /\ requests \in RequestMaps /\ requests' \in RequestMaps
      /\ worker \in [Peers -> WorkerKinds]
  BY DEF IInv, TypeOK, RequestMaps
<1>3. ASSUME NEW p \in Peers PROVE Holds(requests', worker'[p], p) /\ worker'[p].beat <= now
  <2>1. CASE worker'[p] = worker[p]
    <3>1. Holds(requests, worker'[p], p) /\ worker'[p].beat <= now /\ worker'[p] \in WorkerKinds
      BY <1>2, <2>1 DEF IInv, WorkInv
    <3> DEFINE w == worker'[p]
               ns == requests'
    <3>2. /\ Holds(requests, w, p) /\ w.beat <= now /\ w \in WorkerKinds /\ ns \in RequestMaps
          /\ \A r \in Requests : Advances(requests[r], ns[r])
      BY <1>1, <1>2, <3>1
    <3> HIDE DEF w, ns
    <3>3. Holds(ns, w, p) /\ w.beat <= now
      BY <1>2, <3>2, HoldsMoves
    <3> QED BY <3>3 DEF w, ns
  <2>2. CASE worker'[p].next \notin {"execute", "submit", "wait"} /\ worker'[p].beat <= now
    BY <2>2 DEF Holds
  <2> QED BY <2>1, <2>2
<1>4. ASSUME NEW p \in Peers, worker'[p].next = "wait"
      PROVE  Awaited(waiters', p) /\ \A r \in Requests : ~Owed(requests'[r], p, r)
  <2>1. worker[p].next = "wait"
    BY <1>4
  <2>2. Awaited(waiters, p) /\ \A r \in Requests : ~Owed(requests[r], p, r)
    BY <2>1 DEF IInv, WaiterInv, OwedInv
  <2>3. ASSUME NEW r \in Requests PROVE ~Owed(requests'[r], p, r)
    <3>1. StillFirst(requests[r], requests'[r]) /\ ~Owed(requests[r], p, r)
      BY <2>2 DEF Moves
    <3> QED BY <3>1 DEF StillFirst, Owed
  <2> QED BY <1>4, <2>2, <2>3
<1> QED BY <1>1, <1>3, <1>4, AnyStep

\* Nothing happens to the requests, or to the waiters.
LEMMA Unmoved ==
  ASSUME IInv, requests' = requests
  PROVE  \A r \in Requests : Moves(requests[r], requests'[r])
<1> SUFFICES ASSUME NEW r \in Requests PROVE Moves(requests[r], requests[r])
  OBVIOUS
<1>1. requests[r] \in RequestKinds /\ Counted(requests[r])
  BY DEF IInv, TypeOK, CountInv
<1> QED BY <1>1, StaysMoves

\* The gateway goes on to know the peers of its waiters.
LEMMA SameWaiters ==
  ASSUME IInv, waiters' = waiters, \A p \in Peers : peers[p].known => peers'[p].known
  PROVE  /\ \A i \in DOMAIN waiters' : peers'[waiters'[i].peer].known
         /\ \A p \in Peers : worker'[p].next = "wait" /\ Awaited(waiters, p) => Awaited(waiters', p)
<1>1. \A i \in DOMAIN waiters : waiters[i].peer \in Peers
  <2>1. waiters \in Seq(WaiterKinds)
    BY DEF IInv, TypeOK
  <2>2. \A i \in DOMAIN waiters : waiters[i] \in WaiterKinds
    BY <2>1
  <2> QED BY <2>2 DEF WaiterKinds
<1> QED BY <1>1 DEF IInv, WaiterInv

\* A cycle ends.
LEMMA CycleEndsIs ==
  ASSUME NEW w \in WorkerKinds
  PROVE  /\ CycleEnds(w) \in WorkerKinds
         /\ CycleEnds(w).next \notin {"execute", "submit", "wait"}
         /\ CycleEnds(w).beat = 0
<1>1. MaxRequests \in Nat /\ 0 \in 0 .. MaxRequests
  BY RelayAssumption
<1> QED BY <1>1 DEF CycleEnds, Idle, WorkerKinds

\* A peer is seen.
LEMMA SeenIs ==
  ASSUME now \in Times, peers \in [Peers -> PeerKinds], NEW p \in Peers
  PROVE  /\ Seen(peers, p) \in [Peers -> PeerKinds]
         /\ Seen(peers, p)[p].seen = now
         /\ \A x \in Peers : Seen(peers, p)[x].known = peers[x].known
<1>1. now \in Nat
  BY Numbers
<1> QED BY <1>1 DEF Seen, PeerKinds

-----------------------------------------------------------------------------
(* The steps.                                                              *)

\* An operator looks at the queue.
LEMMA ListStep ==
  ASSUME IInv, ListActionRequests
  PROVE  IInv' /\ Kept
<1>1. now \in Times /\ requests \in RequestMaps /\ \A r \in Requests : Counted(requests[r])
  BY DEF IInv, TypeOK, CountInv, RequestMaps
<1>2. requests' \in RequestMaps /\ \A r \in Requests : Moves(requests[r], requests'[r])
  BY <1>1, ReclaimMoves DEF ListActionRequests
<1>3. TypeOK'
  BY <1>2 DEF IInv, TypeOK, ListActionRequests, RequestMaps
<1>4. now' = now /\ peers' = peers /\ waiters' = waiters /\ worker' = worker
  BY DEF ListActionRequests
<1>5. /\ \A i \in DOMAIN waiters' : peers'[waiters'[i].peer].known
      /\ \A p \in Peers : worker'[p].next = "wait" /\ Awaited(waiters, p) => Awaited(waiters', p)
  BY <1>4, SameWaiters
<1> QED BY <1>2, <1>3, <1>4, <1>5, PlainStep

\* A timer rejects what nobody answered.
LEMMA TimeOutStep ==
  ASSUME IInv, NEW r \in Requests, RequestTimesOut(r)
  PROVE  IInv' /\ Kept
<1>1. requests \in RequestMaps /\ \A s \in Requests : Counted(requests[s])
  BY DEF IInv, TypeOK, CountInv, RequestMaps
<1>2. /\ requests' = [requests EXCEPT ![r] = Settle(requests[r], "timed_out")]
      /\ now' = now /\ peers' = peers /\ waiters' = waiters /\ worker' = worker
      /\ underway' = underway /\ faults' = faults
  BY DEF RequestTimesOut
<1> DEFINE n == Settle(requests[r], "timed_out")
<1>3. n \in RequestKinds /\ Moves(requests[r], n)
  BY <1>1, SettleMoves DEF RequestMaps
<1> HIDE DEF n
<1>4. requests' \in RequestMaps /\ requests'[r] = n /\ \A s \in Requests : s # r => requests'[s] = requests[s]
  BY <1>1, <1>2, <1>3 DEF n, RequestMaps
<1>5. \A s \in Requests : Moves(requests[s], requests'[s])
  <2> SUFFICES ASSUME NEW s \in Requests PROVE Moves(requests[s], requests'[s])
    OBVIOUS
  <2>1. requests[s] \in RequestKinds /\ Counted(requests[s])
    BY <1>1 DEF RequestMaps
  <2>2. Moves(requests[s], requests[s])
    BY <2>1, StaysMoves
  <2> QED BY <1>3, <1>4, <2>2
<1>6. TypeOK'
  BY <1>2, <1>4 DEF IInv, TypeOK, RequestMaps
<1>7. /\ \A i \in DOMAIN waiters' : peers'[waiters'[i].peer].known
      /\ \A p \in Peers : worker'[p].next = "wait" /\ Awaited(waiters, p) => Awaited(waiters', p)
  BY <1>2, SameWaiters
<1> QED BY <1>2, <1>5, <1>6, <1>7, PlainStep

\* A worker goes on, and has nothing to do for it.
WorkerMoves(p, v) ==
  /\ worker' = [worker EXCEPT ![p] = v]
  /\ v \in WorkerKinds
  /\ v.next \notin {"execute", "submit", "wait"}
  /\ v.beat <= now

\* It alone does.
LEMMA WorkerMoved ==
  ASSUME IInv, NEW p \in Peers, NEW v, WorkerMoves(p, v)
  PROVE  /\ worker' \in [Peers -> WorkerKinds]
         /\ \A x \in Peers : \/ worker'[x] = worker[x]
                             \/ /\ worker'[x].next \notin {"execute", "submit", "wait"}
                                /\ worker'[x].beat <= now
BY DEF WorkerMoves, IInv, TypeOK

\* A worker goes on by a call that changes nothing of a request or a waiter.
LEMMA QuietStep ==
  ASSUME IInv, NEW p \in Peers, NEW v, WorkerMoves(p, v),
         requests' = requests, waiters' = waiters, now' = now,
         peers' \in [Peers -> PeerKinds], \A x \in Peers : peers[x].known => peers'[x].known,
         underway' \subseteq ResultKinds, faults' \in 0 .. MaxFaults
  PROVE  IInv' /\ Kept
<1>1. /\ worker' \in [Peers -> WorkerKinds]
      /\ \A x \in Peers : \/ worker'[x] = worker[x]
                          \/ /\ worker'[x].next \notin {"execute", "submit", "wait"}
                             /\ worker'[x].beat <= now
  BY WorkerMoved
<1>2. TypeOK'
  BY <1>1 DEF IInv, TypeOK
<1>3. \A r \in Requests : Moves(requests[r], requests'[r])
  BY Unmoved
<1>4. /\ \A i \in DOMAIN waiters' : peers'[waiters'[i].peer].known
      /\ \A x \in Peers : worker'[x].next = "wait" /\ Awaited(waiters, x) => Awaited(waiters', x)
  BY SameWaiters
<1> QED BY <1>1, <1>2, <1>3, <1>4, PlainStep

\* A worker's cycle ends.
LEMMA EndsMoves ==
  ASSUME IInv, NEW p \in Peers, worker' = [worker EXCEPT ![p] = CycleEnds(worker[p])]
  PROVE  WorkerMoves(p, CycleEnds(worker[p]))
<1>1. worker[p] \in WorkerKinds /\ now \in Nat
  BY Numbers DEF IInv, TypeOK
<1>2. CycleEnds(worker[p]) \in WorkerKinds /\ CycleEnds(worker[p]).next \notin {"execute", "submit", "wait"}
      /\ CycleEnds(worker[p]).beat = 0
  BY <1>1, CycleEndsIs
<1> QED BY <1>1, <1>2 DEF WorkerMoves

\* It goes on with the call c.
LEMMA GoesMoves ==
  ASSUME IInv, NEW p \in Peers, NEW c \in {"report", "heartbeat", "pull"}, NEW b \in BOOLEAN,
         worker' = [worker EXCEPT ![p].started = b, ![p].next = c]
  PROVE  WorkerMoves(p, [worker[p] EXCEPT !.started = b, !.next = c])
<1>1. worker[p] \in WorkerKinds /\ worker[p].beat <= now
  BY DEF IInv, TypeOK, WorkInv
<1>2. worker' = [worker EXCEPT ![p] = [worker[p] EXCEPT !.started = b, !.next = c]]
  OBVIOUS
<1> QED BY <1>1, <1>2 DEF WorkerMoves, WorkerKinds

\* A peer registers.
LEMMA RegisterStep ==
  ASSUME IInv, NEW p \in Peers, RegisterPeer(p)
  PROVE  IInv' /\ Kept
<1>1. /\ requests' = requests /\ waiters' = waiters /\ now' = now /\ underway' = underway /\ faults' = faults
      /\ worker' = [worker EXCEPT ![p].started = TRUE, ![p].next = "report"]
      /\ peers' = [peers EXCEPT ![p].known = TRUE, ![p].seen = now]
  BY DEF RegisterPeer
<1>2. WorkerMoves(p, [worker[p] EXCEPT !.started = TRUE, !.next = "report"])
  BY <1>1, GoesMoves
<1>3. now \in Nat /\ peers \in [Peers -> PeerKinds]
  BY Numbers DEF IInv, TypeOK
<1>4. peers' \in [Peers -> PeerKinds] /\ \A x \in Peers : peers[x].known => peers'[x].known
  BY <1>1, <1>3 DEF PeerKinds
<1>5. underway' \subseteq ResultKinds /\ faults' \in 0 .. MaxFaults
  BY <1>1 DEF IInv, TypeOK
<1> QED BY <1>1, <1>2, <1>4, <1>5, QuietStep

\* The next call alone.
LEMMA NextMoves ==
  ASSUME IInv, NEW p \in Peers, NEW c \in {"report", "heartbeat", "pull"}, Goes(p, c)
  PROVE  WorkerMoves(p, [worker[p] EXCEPT !.next = c])
<1>1. worker[p] \in WorkerKinds /\ worker[p].beat <= now
  BY DEF IInv, TypeOK, WorkInv
<1>2. worker' = [worker EXCEPT ![p] = [worker[p] EXCEPT !.next = c]]
  BY DEF Goes
<1> QED BY <1>1, <1>2 DEF WorkerMoves, WorkerKinds

\* A peer reports its tabs.
LEMMA ReportStep ==
  ASSUME IInv, NEW p \in Peers, ReportTargets(p)
  PROVE  IInv' /\ Kept
<1>1. /\ requests' = requests /\ waiters' = waiters /\ now' = now /\ underway' = underway /\ faults' = faults
      /\ peers' = [peers EXCEPT ![p].seen = now, ![p].reported = TRUE]
      /\ Goes(p, "heartbeat")
  BY DEF ReportTargets
<1>2. WorkerMoves(p, [worker[p] EXCEPT !.next = "heartbeat"])
  BY <1>1, NextMoves
<1>3. now \in Nat /\ peers \in [Peers -> PeerKinds]
  BY Numbers DEF IInv, TypeOK
<1>4. peers' \in [Peers -> PeerKinds] /\ \A x \in Peers : peers[x].known => peers'[x].known
  BY <1>1, <1>3 DEF PeerKinds
<1>5. underway' \subseteq ResultKinds /\ faults' \in 0 .. MaxFaults
  BY <1>1 DEF IInv, TypeOK
<1> QED BY <1>1, <1>2, <1>4, <1>5, QuietStep

\* A cycle ends with nothing else: CallRefused, CallLost and ExecuteThrows.
LEMMA EndStep ==
  ASSUME IInv, NEW p \in Peers, worker' = [worker EXCEPT ![p] = CycleEnds(worker[p])],
         UNCHANGED <<now, peers, requests, waiters, underway>>, faults' \in 0 .. MaxFaults
  PROVE  IInv' /\ Kept
<1>1. WorkerMoves(p, CycleEnds(worker[p]))
  BY EndsMoves
<1>2. peers' \in [Peers -> PeerKinds] /\ underway' \subseteq ResultKinds
  BY DEF IInv, TypeOK
<1> QED BY <1>1, <1>2, QuietStep

\* A fault is counted.
LEMMA Counts ==
  ASSUME TypeOK, Fault
  PROVE  faults' \in 0 .. MaxFaults
<1>1. MaxFaults \in Nat
  BY RelayAssumption
<1> QED BY <1>1 DEF TypeOK, Fault

\* A heartbeat is heard.
LEMMA HeartbeatIs ==
  ASSUME IInv, NEW p \in Peers, HeartbeatPeer(p)
  PROVE  /\ requests' \in RequestMaps
         /\ \A r \in Requests : Moves(requests[r], requests'[r])
         /\ \A r \in Requests : requests[r].state = "inflight" /\ requests[r].holder = p =>
              requests'[r].claimEnds = LeaseEnd(requests[r]) /\ requests'[r].expires = requests[r].expires
         /\ \A r \in Requests : requests'[r].attempts = requests[r].attempts
         /\ peers' \in [Peers -> PeerKinds]
         /\ \A x \in Peers : peers[x].known => peers'[x].known
         /\ now' = now /\ waiters' = waiters /\ underway' = underway /\ faults' = faults
<1>1. /\ now \in Times /\ requests \in RequestMaps /\ \A r \in Requests : Counted(requests[r])
      /\ peers \in [Peers -> PeerKinds]
  BY DEF IInv, TypeOK, CountInv, RequestMaps
<1>2. /\ requests' = RenewInflightClaims(requests, p)
      /\ peers' = Seen(peers, p)
      /\ now' = now /\ waiters' = waiters /\ underway' = underway /\ faults' = faults
  BY DEF HeartbeatPeer
<1>3. /\ Seen(peers, p) \in [Peers -> PeerKinds]
      /\ \A x \in Peers : Seen(peers, p)[x].known = peers[x].known
  BY <1>1, SeenIs
<1> DEFINE n == RenewInflightClaims(requests, p)
<1>4. /\ n \in RequestMaps
      /\ \A r \in Requests : Moves(requests[r], n[r])
      /\ \A r \in Requests : requests[r].state = "inflight" /\ requests[r].holder = p =>
           n[r].claimEnds = LeaseEnd(requests[r]) /\ n[r].expires = requests[r].expires
      /\ \A r \in Requests : n[r].attempts = requests[r].attempts
  BY <1>1, RenewMoves
<1> HIDE DEF n
<1> QED BY <1>2, <1>3, <1>4 DEF n

\* A cycle's heartbeat, before the worker asks for work.
LEMMA CycleHeartbeatStep ==
  ASSUME IInv, NEW p \in Peers, CycleHeartbeat(p)
  PROVE  IInv' /\ Kept
<1>1. HeartbeatPeer(p) /\ Goes(p, "pull")
  BY DEF CycleHeartbeat
<1>2. /\ requests' \in RequestMaps
      /\ \A r \in Requests : Moves(requests[r], requests'[r])
      /\ peers' \in [Peers -> PeerKinds]
      /\ \A x \in Peers : peers[x].known => peers'[x].known
      /\ now' = now /\ waiters' = waiters /\ underway' = underway /\ faults' = faults
  BY <1>1, HeartbeatIs
<1>3. WorkerMoves(p, [worker[p] EXCEPT !.next = "pull"])
  BY <1>1, NextMoves
<1>4. /\ worker' \in [Peers -> WorkerKinds]
      /\ \A x \in Peers : \/ worker'[x] = worker[x]
                          \/ /\ worker'[x].next \notin {"execute", "submit", "wait"}
                             /\ worker'[x].beat <= now
  BY <1>3, WorkerMoved
<1>5. TypeOK'
  BY <1>2, <1>4 DEF IInv, TypeOK, RequestMaps
<1>6. /\ \A i \in DOMAIN waiters' : peers'[waiters'[i].peer].known
      /\ \A x \in Peers : worker'[x].next = "wait" /\ Awaited(waiters, x) => Awaited(waiters', x)
  BY <1>2, SameWaiters
<1> QED BY <1>2, <1>4, <1>5, <1>6, PlainStep

\* Nobody who waits is owed anything, and waits for the same.
LEMMA StillWaiting ==
  ASSUME IInv, \A r \in Requests : Moves(requests[r], requests'[r]), waiters' = waiters,
         NEW x \in Peers, worker[x].next = "wait"
  PROVE  Awaited(waiters', x) /\ \A r \in Requests : ~Owed(requests'[r], x, r)
<1>1. Awaited(waiters, x) /\ \A r \in Requests : ~Owed(requests[r], x, r)
  BY DEF IInv, WaiterInv, OwedInv
<1>2. ASSUME NEW r \in Requests PROVE ~Owed(requests'[r], x, r)
  <2>1. StillFirst(requests[r], requests'[r]) /\ ~Owed(requests[r], x, r)
    BY <1>1 DEF Moves
  <2> QED BY <2>1 DEF StillFirst, Owed
<1> QED BY <1>1, <1>2

\* Nobody's work is disturbed.
LEMMA StillHolds ==
  ASSUME IInv, requests' \in RequestMaps, \A r \in Requests : Advances(requests[r], requests'[r]),
         NEW x \in Peers
  PROVE  Holds(requests', worker[x], x) /\ worker[x].beat <= now
<1>1. /\ now \in Times /\ requests \in RequestMaps /\ worker[x] \in WorkerKinds
      /\ Holds(requests, worker[x], x) /\ worker[x].beat <= now
  BY DEF IInv, TypeOK, WorkInv, RequestMaps
<1> DEFINE ns == requests'
<1>2. ns \in RequestMaps /\ \A r \in Requests : Advances(requests[r], ns[r])
  OBVIOUS
<1> HIDE DEF ns
<1>3. Holds(ns, worker[x], x)
  BY <1>1, <1>2, HoldsMoves
<1> QED BY <1>1, <1>3 DEF ns

\* A heartbeat while the worker executes: its claim now ends a lease from now.
LEMMA ExecutionHeartbeatStep ==
  ASSUME IInv, NEW p \in Peers, ExecutionHeartbeat(p)
  PROVE  IInv' /\ Kept
<1> DEFINE w == worker[p]
           v == [w EXCEPT !.beat = now]
<1>1. HeartbeatPeer(p) /\ worker' = [worker EXCEPT ![p] = v] /\ w.next = "execute"
  BY DEF ExecutionHeartbeat, Calls
<1>2. /\ requests' \in RequestMaps
      /\ \A r \in Requests : Moves(requests[r], requests'[r])
      /\ \A r \in Requests : requests[r].state = "inflight" /\ requests[r].holder = p =>
           requests'[r].claimEnds = LeaseEnd(requests[r]) /\ requests'[r].expires = requests[r].expires
      /\ \A r \in Requests : requests'[r].attempts = requests[r].attempts
      /\ peers' \in [Peers -> PeerKinds]
      /\ \A x \in Peers : peers[x].known => peers'[x].known
      /\ now' = now /\ waiters' = waiters /\ underway' = underway /\ faults' = faults
  BY <1>1, HeartbeatIs
<1>3. \A r \in Requests : Advances(requests[r], requests'[r])
  BY <1>2 DEF Moves
<1>4. /\ w \in WorkerKinds /\ now \in Nat /\ worker \in [Peers -> WorkerKinds]
      /\ Holds(requests, w, p)
  BY Numbers DEF IInv, TypeOK, WorkInv
<1>5. /\ v \in WorkerKinds /\ v.next = "execute" /\ v.request = w.request /\ v.token = w.token
      /\ v.beat = now
  BY <1>1, <1>4 DEF WorkerKinds
<1>6. worker'[p] = v /\ \A x \in Peers : x # p => worker'[x] = worker[x]
  BY <1>1, <1>4
<1>7. worker' \in [Peers -> WorkerKinds]
  BY <1>1, <1>4, <1>5
<1> HIDE DEF v, w
<1>8. Holds(requests', v, p)
  <2> DEFINE q == requests[w.request]
             n == requests'[w.request]
  <2>1. /\ w.request \in Requests
        /\ w.token <= q.attempts
        /\ q.state = "inflight" /\ q.attempts = w.token => q.holder = p
    BY <1>1, <1>4 DEF Holds
  <2>2. n.attempts = q.attempts /\ Advances(q, n)
    BY <1>2, <1>3, <2>1
  <2>3. n.state = "inflight" => q.state = "inflight" /\ n.holder = q.holder
    BY <2>2 DEF Advances
  <2>4. n.state = "inflight" /\ n.attempts = w.token =>
          /\ n.holder = p
          /\ n.claimEnds = LeaseEnd(q) /\ n.expires = q.expires
    BY <1>2, <2>1, <2>2, <2>3
  <2>5. LeaseEnd(q) = Sooner(q.expires, now + Lease) /\ LeaseEnd(q) \in Nat
    <3>1. q \in RequestKinds
      BY <2>1 DEF IInv, TypeOK
    <3>2. now \in Times
      BY DEF IInv, TypeOK
    <3> QED BY <3>1, <3>2, Numbers DEF LeaseEnd
  <2>6. v.request \in Requests /\ v.token <= n.attempts
    BY <1>5, <2>1, <2>2
  <2>7. n.state = "inflight" /\ n.attempts = v.token =>
          /\ n.holder = p
          /\ n.claimEnds >= Sooner(n.expires, v.beat + Lease)
    BY <1>5, <2>4, <2>5
  <2> QED BY <1>5, <2>6, <2>7 DEF Holds
<1>9. ASSUME NEW x \in Peers PROVE Holds(requests', worker'[x], x) /\ worker'[x].beat <= now
  <2>1. CASE x = p
    BY <1>4, <1>5, <1>6, <1>8, <2>1
  <2>2. CASE x # p
    BY <1>2, <1>3, <1>6, <2>2, StillHolds
  <2> QED BY <2>1, <2>2
<1>10. ASSUME NEW x \in Peers, worker'[x].next = "wait"
       PROVE  Awaited(waiters', x) /\ \A r \in Requests : ~Owed(requests'[r], x, r)
  <2>1. worker[x].next = "wait"
    BY <1>5, <1>6, <1>10
  <2> QED BY <1>2, <2>1, StillWaiting
<1>11. \A i \in DOMAIN waiters' : peers'[waiters'[i].peer].known
  BY <1>2, SameWaiters
<1>12. TypeOK'
  BY <1>2, <1>7 DEF IInv, TypeOK, RequestMaps
<1> QED BY <1>2, <1>3, <1>9, <1>10, <1>11, <1>12, AnyStep

\* The execution is over, and the claim is the worker's still or somebody else's.
LEMMA ExecuteStep ==
  ASSUME IInv, NEW p \in Peers, Execute(p)
  PROVE  IInv' /\ Kept
<1> DEFINE w == worker[p]
           v == [w EXCEPT !.next = "submit", !.beat = 0]
<1>1. /\ worker' = [worker EXCEPT ![p] = v] /\ w.next = "execute"
      /\ now' = now /\ peers' = peers /\ requests' = requests /\ waiters' = waiters
      /\ underway' = underway /\ faults' = faults
  BY DEF Execute
<1>2. /\ w \in WorkerKinds /\ now \in Nat /\ worker \in [Peers -> WorkerKinds]
      /\ Holds(requests, w, p)
  BY Numbers DEF IInv, TypeOK, WorkInv
<1>3. /\ v \in WorkerKinds /\ v.next = "submit" /\ v.request = w.request /\ v.token = w.token
      /\ v.beat = 0
  BY <1>1, <1>2 DEF WorkerKinds
<1>4. worker'[p] = v /\ \A x \in Peers : x # p => worker'[x] = worker[x]
  BY <1>1, <1>2
<1>5. TypeOK'
  BY <1>1, <1>2, <1>3 DEF IInv, TypeOK
<1> HIDE DEF v, w
<1>6. Holds(requests, v, p)
  BY <1>1, <1>2, <1>3 DEF Holds
<1>7. ASSUME NEW x \in Peers PROVE Holds(requests', worker'[x], x) /\ worker'[x].beat <= now
  <2>1. CASE x = p
    BY <1>1, <1>2, <1>3, <1>4, <1>6, <2>1
  <2>2. CASE x # p
    BY <1>1, <1>4, <2>2 DEF IInv, WorkInv
  <2> QED BY <2>1, <2>2
<1>8. \A r \in Requests : Moves(requests[r], requests'[r])
  BY <1>1, Unmoved
<1>9. ASSUME NEW x \in Peers, worker'[x].next = "wait"
      PROVE  Awaited(waiters', x) /\ \A r \in Requests : ~Owed(requests'[r], x, r)
  <2>1. worker[x].next = "wait"
    BY <1>3, <1>4, <1>9
  <2> QED BY <1>1, <1>8, <2>1, StillWaiting
<1>10. \A i \in DOMAIN waiters' : peers'[waiters'[i].peer].known
  BY <1>1, SameWaiters
<1>11. \A r \in Requests : Advances(requests[r], requests'[r])
  BY <1>8 DEF Moves
<1> QED BY <1>1, <1>5, <1>7, <1>9, <1>10, <1>11, AnyStep

\* A long poll is over without an answer.
LEMMA PullWaitStep ==
  ASSUME IInv, NEW i \in DOMAIN waiters, PullWaitEnds(i)
  PROVE  IInv' /\ Kept
<1> DEFINE w == waiters[i]
           p == w.peer
           ws == RemoveAt(waiters, i)
           v == CycleEnds(worker[p])
<1>1. /\ now' = now /\ peers' = peers /\ requests' = requests /\ waiters' = ws
      /\ underway' = underway /\ faults' = faults
      /\ worker' = IF w.heard THEN [worker EXCEPT ![p] = v] ELSE worker
  BY DEF PullWaitEnds
<1>2. waiters \in Seq(WaiterKinds) /\ i \in 1 .. Len(waiters) /\ worker \in [Peers -> WorkerKinds]
      /\ now \in Nat
  BY Numbers DEF IInv, TypeOK
<1>3. /\ ws \in Seq(WaiterKinds)
      /\ \A j \in DOMAIN ws : \E k \in DOMAIN waiters : ws[j] = waiters[k]
      /\ \A k \in DOMAIN waiters : k # i => \E j \in DOMAIN ws : ws[j] = waiters[k]
  BY <1>2, RemoveAtIs
<1> HIDE DEF ws
<1>4. w \in WaiterKinds
  BY <1>2
<1>5. p \in Peers
  BY <1>4 DEF WaiterKinds
<1>6. v \in WorkerKinds /\ v.next \notin {"execute", "submit", "wait"} /\ v.beat = 0
  <2> DEFINE u == worker[p]
  <2>1. u \in WorkerKinds
    BY <1>2, <1>5
  <2> HIDE DEF u
  <2> QED BY <2>1, CycleEndsIs DEF u
<1> HIDE DEF v
<1>7. /\ worker' \in [Peers -> WorkerKinds]
      /\ w.heard => worker'[p] = v
      /\ \A x \in Peers : x # p \/ ~w.heard => worker'[x] = worker[x]
  <2> HIDE DEF w
  <2> QED BY <1>1, <1>2, <1>5, <1>6
<1>8. \A x \in Peers : \/ worker'[x] = worker[x]
                       \/ /\ worker'[x].next \notin {"execute", "submit", "wait"}
                          /\ worker'[x].beat <= now
  BY <1>2, <1>6, <1>7
<1>9. \A j \in DOMAIN waiters' : peers'[waiters'[j].peer].known
  BY <1>1, <1>3 DEF IInv, WaiterInv
<1>10. ASSUME NEW x \in Peers, worker'[x].next = "wait", Awaited(waiters, x) PROVE Awaited(waiters', x)
  <2>1. x # p \/ ~w.heard
    BY <1>6, <1>7, <1>10
  <2>2. PICK k \in DOMAIN waiters : waiters[k].peer = x /\ waiters[k].heard
    BY <1>10 DEF Awaited
  <2>3. k # i
    BY <2>1, <2>2
  <2>4. PICK j \in DOMAIN ws : ws[j] = waiters[k]
    BY <1>3, <2>2, <2>3
  <2> QED BY <1>1, <2>2, <2>4 DEF Awaited
<1>11. TypeOK'
  BY <1>1, <1>3, <1>7 DEF IInv, TypeOK
<1>12. \A r \in Requests : Moves(requests[r], requests'[r])
  BY <1>1, Unmoved
<1> QED BY <1>1, <1>8, <1>9, <1>10, <1>11, <1>12, PlainStep

\* What the gateway makes of a result.
LEMMA SubmitIs ==
  ASSUME IInv, NEW sent \in ResultKinds, SubmitActionResult(sent)
  PROVE  /\ requests' \in RequestMaps
         /\ \A r \in Requests : Moves(requests[r], requests'[r])
         /\ peers' \in [Peers -> PeerKinds]
         /\ \A x \in Peers : peers[x].known => peers'[x].known
         /\ now' = now /\ waiters' = waiters /\ faults' = faults
<1> DEFINE r == sent.request
           q == requests[r]
           n == [Settle(q, "answered") EXCEPT !.accepted = sent.token]
<1>1. /\ now \in Times /\ now \in Nat /\ requests \in RequestMaps
      /\ \A s \in Requests : requests[s] \in RequestKinds /\ Counted(requests[s])
      /\ peers \in [Peers -> PeerKinds]
  BY Numbers DEF IInv, TypeOK, CountInv, RequestMaps
<1>2. r \in Requests /\ sent.peer \in Peers
  BY DEF ResultKinds
<1>3. /\ requests' = CASE q.state \notin Open -> requests
                       [] IsActiveClaim(q, sent) -> [requests EXCEPT ![r] = n]
                       [] OTHER -> ReclaimExpired(requests)
      /\ peers' = IF IsActiveClaim(q, sent)
                    THEN [peers EXCEPT ![sent.peer].seen = now, ![sent.peer].reported = TRUE]
                    ELSE Seen(peers, sent.peer)
      /\ now' = now /\ waiters' = waiters /\ faults' = faults
  BY DEF SubmitActionResult
<1>4. /\ peers' \in [Peers -> PeerKinds]
      /\ \A x \in Peers : peers[x].known => peers'[x].known
  <2>1. CASE IsActiveClaim(q, sent)
    <3>1. peers' = [peers EXCEPT ![sent.peer].seen = now, ![sent.peer].reported = TRUE]
      BY <1>3, <2>1
    <3> QED BY <1>1, <1>2, <3>1 DEF PeerKinds
  <2>2. CASE ~IsActiveClaim(q, sent)
    <3>1. peers' = Seen(peers, sent.peer)
      BY <1>3, <2>2
    <3> QED BY <1>1, <1>2, <3>1, SeenIs
  <2> QED BY <2>1, <2>2
<1>5. \A s \in Requests : Moves(requests[s], requests[s])
  BY <1>1, StaysMoves
<1>6. requests' \in RequestMaps /\ \A s \in Requests : Moves(requests[s], requests'[s])
  <2>1. IsActiveClaim(q, sent) => q.state \in Open
    BY DEF IsActiveClaim, Open
  <2>2. CASE q.state \notin Open
    <3>1. requests' = requests
      BY <1>3, <2>1, <2>2
    <3> QED BY <1>1, <1>5, <3>1
  <2>3. CASE IsActiveClaim(q, sent)
    <3>1. requests' = [requests EXCEPT ![r] = n]
      BY <1>3, <2>1, <2>3
    <3>2. n \in RequestKinds /\ Moves(q, n)
      BY <1>1, <1>2, <2>3, AnswerMoves
    <3> HIDE DEF n
    <3>3. requests' \in RequestMaps /\ requests'[r] = n
          /\ \A s \in Requests : s # r => requests'[s] = requests[s]
      BY <1>1, <1>2, <3>1, <3>2 DEF RequestMaps
    <3> QED BY <1>5, <3>2, <3>3
  <2>4. CASE q.state \in Open /\ ~IsActiveClaim(q, sent)
    <3>1. requests' = ReclaimExpired(requests)
      BY <1>3, <2>4
    <3> QED BY <1>1, <3>1, ReclaimMoves
  <2> QED BY <2>2, <2>3, <2>4
<1> QED BY <1>3, <1>4, <1>6

\* A worker with a result has one of a request that was dispatched.
LEMMA ResultIs ==
  ASSUME IInv, NEW p \in Peers, worker[p].next = "submit"
  PROVE  Result(p) \in ResultKinds
<1>1. worker[p].request \in Requests /\ worker[p].token \in Nat
  BY DEF IInv, TypeOK, WorkInv, Holds, WorkerKinds
<1> QED BY <1>1 DEF Result, ResultKinds

\* A result is submitted.
LEMMA SubmitStep ==
  ASSUME IInv, NEW p \in Peers, Submit(p)
  PROVE  IInv' /\ Kept
<1>1. /\ Result(p) \in ResultKinds /\ SubmitActionResult(Result(p)) /\ underway' = underway
      /\ worker' = [worker EXCEPT ![p] = CycleEnds(worker[p])]
  BY ResultIs DEF Submit
<1>2. WorkerMoves(p, CycleEnds(worker[p]))
  BY <1>1, EndsMoves
<1>3. /\ worker' \in [Peers -> WorkerKinds]
      /\ \A x \in Peers : \/ worker'[x] = worker[x]
                          \/ /\ worker'[x].next \notin {"execute", "submit", "wait"}
                             /\ worker'[x].beat <= now
  BY <1>2, WorkerMoved
<1>4. /\ requests' \in RequestMaps
      /\ \A r \in Requests : Moves(requests[r], requests'[r])
      /\ peers' \in [Peers -> PeerKinds]
      /\ \A x \in Peers : peers[x].known => peers'[x].known
      /\ now' = now /\ waiters' = waiters /\ faults' = faults
  BY <1>1, SubmitIs
<1>5. TypeOK'
  BY <1>1, <1>3, <1>4 DEF IInv, TypeOK, RequestMaps
<1>6. /\ \A i \in DOMAIN waiters' : peers'[waiters'[i].peer].known
      /\ \A x \in Peers : worker'[x].next = "wait" /\ Awaited(waiters, x) => Awaited(waiters', x)
  BY <1>4, SameWaiters
<1> QED BY <1>3, <1>4, <1>5, <1>6, PlainStep

\* The result of a worker that is no more arrives.
LEMMA LateSubmitStep ==
  ASSUME IInv, NEW sent \in underway, LateSubmit(sent)
  PROVE  IInv' /\ Kept
<1>1. /\ sent \in ResultKinds /\ SubmitActionResult(sent) /\ underway' \subseteq underway
      /\ worker' = worker
  BY DEF IInv, TypeOK, LateSubmit
<1>2. /\ requests' \in RequestMaps
      /\ \A r \in Requests : Moves(requests[r], requests'[r])
      /\ peers' \in [Peers -> PeerKinds]
      /\ \A x \in Peers : peers[x].known => peers'[x].known
      /\ now' = now /\ waiters' = waiters /\ faults' = faults
  BY <1>1, SubmitIs
<1>3. TypeOK'
  BY <1>1, <1>2 DEF IInv, TypeOK, RequestMaps
<1>4. /\ \A i \in DOMAIN waiters' : peers'[waiters'[i].peer].known
      /\ \A x \in Peers : worker'[x].next = "wait" /\ Awaited(waiters, x) => Awaited(waiters', x)
  BY <1>2, SameWaiters
<1> QED BY <1>1, <1>2, <1>3, <1>4, PlainStep

\* A cycle ends because a call failed or the execution threw.
LEMMA CycleEndsStep ==
  ASSUME IInv, NEW p \in Peers, CallRefused(p) \/ CallLost(p) \/ ExecuteThrows(p)
  PROVE  IInv' /\ Kept
<1>1. /\ worker' = [worker EXCEPT ![p] = CycleEnds(worker[p])]
      /\ UNCHANGED <<now, peers, requests, waiters, underway>>
      /\ faults' = faults \/ Fault
  BY DEF CallRefused, CallLost, ExecuteThrows
<1>2. faults' \in 0 .. MaxFaults
  BY <1>1, Counts DEF IInv, TypeOK
<1> QED BY <1>1, <1>2, EndStep

\* A worker is killed: nobody reads the answers its peer waits for.
LEMMA WorkerKilledStep ==
  ASSUME IInv, NEW p \in Peers, WorkerKilled(p)
  PROVE  IInv' /\ Kept
<1> DEFINE ws == Abandoned(p)
<1>1. /\ worker' = [worker EXCEPT ![p] = Idle] /\ waiters' = ws
      /\ now' = now /\ peers' = peers /\ requests' = requests
  BY DEF WorkerKilled
<1>2. /\ worker \in [Peers -> WorkerKinds] /\ waiters \in Seq(WaiterKinds) /\ now \in Nat
      /\ \A i \in DOMAIN waiters : waiters[i] \in WaiterKinds
  BY Numbers DEF IInv, TypeOK
<1>3. faults' \in 0 .. MaxFaults
  BY Counts DEF IInv, WorkerKilled
<1>4. underway' \subseteq ResultKinds
  BY ResultIs DEF WorkerKilled, IInv, TypeOK
<1>5. Idle \in WorkerKinds /\ Idle.next \notin {"execute", "submit", "wait"} /\ Idle.beat <= now
  <2>1. 0 \in 0 .. MaxRequests
    BY RelayAssumption
  <2> QED BY <1>2, <2>1 DEF Idle, WorkerKinds
<1>6. /\ worker' \in [Peers -> WorkerKinds]
      /\ worker'[p] = Idle /\ \A x \in Peers : x # p => worker'[x] = worker[x]
  BY <1>1, <1>2, <1>5
<1>7. /\ ws \in Seq(WaiterKinds) /\ DOMAIN ws = DOMAIN waiters
      /\ \A i \in DOMAIN waiters : ws[i].peer = waiters[i].peer
      /\ \A i \in DOMAIN waiters : waiters[i].peer # p => ws[i] = waiters[i]
  <2>1. \A i \in DOMAIN waiters : ws[i] \in WaiterKinds /\ ws[i].peer = waiters[i].peer
    BY <1>2 DEF Abandoned, WaiterKinds
  <2>2. ws = [i \in DOMAIN waiters |-> ws[i]] /\ DOMAIN waiters = 1 .. Len(waiters) /\ Len(waiters) \in Nat
    BY <1>2 DEF Abandoned
  <2>3. \A i \in DOMAIN waiters : waiters[i].peer # p => ws[i] = waiters[i]
    BY DEF Abandoned
  <2> HIDE DEF ws
  <2>4. ws \in Seq(WaiterKinds) /\ DOMAIN ws = DOMAIN waiters
    BY <2>1, <2>2
  <2> QED BY <2>1, <2>3, <2>4
<1> HIDE DEF ws
<1>8. TypeOK'
  BY <1>1, <1>3, <1>4, <1>6, <1>7 DEF IInv, TypeOK
<1>9. \A i \in DOMAIN waiters' : peers'[waiters'[i].peer].known
  BY <1>1, <1>7 DEF IInv, WaiterInv
<1>10. ASSUME NEW x \in Peers, worker'[x].next = "wait", Awaited(waiters, x) PROVE Awaited(waiters', x)
  <2>1. x # p
    BY <1>5, <1>6, <1>10
  <2>2. PICK i \in DOMAIN waiters : waiters[i].peer = x /\ waiters[i].heard
    BY <1>10 DEF Awaited
  <2> QED BY <1>1, <1>7, <2>1, <2>2 DEF Awaited
<1>11. \A r \in Requests : Moves(requests[r], requests'[r])
  BY <1>1, Unmoved
<1>12. \A x \in Peers : \/ worker'[x] = worker[x]
                        \/ /\ worker'[x].next \notin {"execute", "submit", "wait"}
                           /\ worker'[x].beat <= now
  BY <1>5, <1>6
<1> QED BY <1>1, <1>8, <1>9, <1>10, <1>11, <1>12, PlainStep

\* The daemon restarts: nobody is waiting afterwards.
LEMMA RestartStep ==
  ASSUME IInv, DaemonRestart
  PROVE  IInv' /\ Kept
<1> DEFINE n(r) == IF requests[r].state \in Open THEN Settle(requests[r], "lost") ELSE requests[r]
           v(p) == IF worker[p].next = "wait" THEN CycleEnds(worker[p]) ELSE worker[p]
<1>1. /\ now' = now /\ waiters' = << >> /\ underway' = underway
      /\ peers' = [p \in Peers |-> [known |-> FALSE, seen |-> 0, reported |-> FALSE]]
      /\ requests' = [r \in Requests |-> n(r)]
      /\ worker' = [p \in Peers |-> v(p)]
  BY DEF DaemonRestart
<1>2. faults' \in 0 .. MaxFaults
  BY Counts DEF IInv, DaemonRestart
<1>3. now \in Nat
  BY Numbers DEF IInv, TypeOK
<1>4. \A r \in Requests : n(r) \in RequestKinds /\ Moves(requests[r], n(r))
  <2> SUFFICES ASSUME NEW r \in Requests PROVE n(r) \in RequestKinds /\ Moves(requests[r], n(r))
    OBVIOUS
  <2>1. requests[r] \in RequestKinds /\ Counted(requests[r])
    BY DEF IInv, TypeOK, CountInv
  <2> DEFINE q == requests[r]
             how == "lost"
  <2>2. Settle(q, how) \in RequestKinds /\ Moves(q, Settle(q, how)) /\ Moves(q, q)
    BY <2>1, SettleMoves, StaysMoves
  <2> QED BY <2>1, <2>2
<1>5. \A p \in Peers : /\ v(p) \in WorkerKinds
                       /\ v(p).next # "wait"
                       /\ \/ v(p) = worker[p]
                          \/ v(p).next \notin {"execute", "submit", "wait"} /\ v(p).beat <= now
  <2> SUFFICES ASSUME NEW p \in Peers
               PROVE  /\ v(p) \in WorkerKinds
                      /\ v(p).next # "wait"
                      /\ \/ v(p) = worker[p]
                         \/ v(p).next \notin {"execute", "submit", "wait"} /\ v(p).beat <= now
    OBVIOUS
  <2>1. worker[p] \in WorkerKinds
    BY DEF IInv, TypeOK
  <2>2. CycleEnds(worker[p]) \in WorkerKinds /\ CycleEnds(worker[p]).beat = 0
        /\ CycleEnds(worker[p]).next \notin {"execute", "submit", "wait"}
    BY <2>1, CycleEndsIs
  <2> QED BY <1>3, <2>1, <2>2
<1> HIDE DEF n, v
<1>6. /\ requests' \in RequestMaps /\ \A r \in Requests : Moves(requests[r], requests'[r])
  BY <1>1, <1>4 DEF RequestMaps
<1>7. worker' \in [Peers -> WorkerKinds] /\ \A p \in Peers : worker'[p] = v(p)
  BY <1>1, <1>5
<1>8. peers' \in [Peers -> PeerKinds]
  BY <1>1 DEF PeerKinds
<1>9. TypeOK'
  BY <1>1, <1>2, <1>6, <1>7, <1>8 DEF IInv, TypeOK, RequestMaps
<1>10. \A i \in DOMAIN waiters' : peers'[waiters'[i].peer].known
  BY <1>1
<1>11. \A p \in Peers : worker'[p].next # "wait"
  BY <1>5, <1>7
<1>12. \A x \in Peers : \/ worker'[x] = worker[x]
                        \/ /\ worker'[x].next \notin {"execute", "submit", "wait"}
                           /\ worker'[x].beat <= now
  BY <1>5, <1>7
<1> QED BY <1>1, <1>6, <1>9, <1>10, <1>11, <1>12, PlainStep

\* A long poll is answered with a request, or kept waiting.
LEMMA PullStep ==
  ASSUME IInv, NEW p \in Peers, NEW heard \in BOOLEAN, PullNextActionRequestWait(p, heard),
         faults' \in 0 .. MaxFaults
  PROVE  IInv' /\ Kept
<1> DEFINE w == worker[p]
           ps == Seen(peers, p)
           rs == ReclaimExpired(requests)
           claimed == ClaimNext(ps, rs, p)
           none == FindClaimable(ps, rs, p) = {}
           e == [peer |-> p, until |-> now + PullWait, heard |-> heard]
           v == IF ~heard THEN CycleEnds(w)
                ELSE IF none THEN [w EXCEPT !.next = "wait"]
                ELSE Works(w, rs, claimed)
<1>1. /\ peers' = ps
      /\ requests' = IF none THEN rs ELSE claimed
      /\ waiters' = IF none THEN Append(waiters, e) ELSE waiters
      /\ worker' = [worker EXCEPT ![p] = v]
      /\ now' = now /\ underway' = underway
      /\ peers[p].known /\ w.next = "pull"
  BY DEF PullNextActionRequestWait, Calls
<1>2. /\ now \in Times /\ now \in Nat /\ now + PullWait \in Nat
      /\ requests \in RequestMaps /\ peers \in [Peers -> PeerKinds]
      /\ worker \in [Peers -> WorkerKinds] /\ waiters \in Seq(WaiterKinds)
      /\ \A r \in Requests : requests[r] \in RequestKinds /\ Counted(requests[r])
      /\ \A x \in Peers : Holds(requests, worker[x], x) /\ worker[x].beat <= now
  BY Numbers DEF IInv, TypeOK, CountInv, WorkInv, RequestMaps
<1>3. /\ ps \in [Peers -> PeerKinds] /\ ps[p].seen = now
      /\ \A x \in Peers : ps[x].known = peers[x].known
  BY <1>2, SeenIs
<1>4. rs \in RequestMaps /\ \A r \in Requests : Moves(requests[r], rs[r])
  BY <1>2, ReclaimMoves
<1>5. w \in WorkerKinds /\ w.beat <= now
  BY <1>2
<1>6. /\ CycleEnds(w) \in WorkerKinds /\ CycleEnds(w).next \notin {"execute", "submit", "wait"}
      /\ CycleEnds(w).beat = 0
  BY <1>5, CycleEndsIs
<1>7. CASE none
  <2>1. /\ requests' = rs /\ waiters' = Append(waiters, e)
        /\ v = IF heard THEN [w EXCEPT !.next = "wait"] ELSE CycleEnds(w)
    BY <1>1, <1>7
  <2> HIDE DEF v, rs, ps
  <2>2. e \in WaiterKinds /\ e.peer = p /\ e.heard = heard
    BY <1>2 DEF WaiterKinds
  <2> HIDE DEF e, w
  <2>3. /\ v \in WorkerKinds /\ v.next \notin {"execute", "submit"} /\ v.beat <= now
        /\ v.next = "wait" => heard
    <3>1. CASE heard
      BY <1>5, <2>1, <3>1 DEF WorkerKinds
    <3>2. CASE ~heard
      BY <1>2, <1>6, <2>1, <3>2
    <3> QED BY <3>1, <3>2
  <2>4. /\ worker' \in [Peers -> WorkerKinds] /\ worker'[p] = v
        /\ \A x \in Peers : x # p => worker'[x] = worker[x]
    BY <1>1, <1>2, <2>3
  <2>5. /\ waiters' \in Seq(WaiterKinds) /\ DOMAIN waiters' = 1 .. (Len(waiters) + 1)
        /\ Len(waiters) \in Nat /\ DOMAIN waiters = 1 .. Len(waiters)
        /\ \A i \in DOMAIN waiters : waiters'[i] = waiters[i]
        /\ waiters'[Len(waiters) + 1] = e
    BY <1>2, <2>1, <2>2
  <2>6. TypeOK'
    BY <1>1, <1>2, <1>3, <1>4, <2>1, <2>4, <2>5 DEF IInv, TypeOK, RequestMaps
  <2>7. \A r \in Requests : Moves(requests[r], requests'[r])
    BY <1>4, <2>1
  <2>8. \A r \in Requests : Advances(requests[r], requests'[r])
    BY <2>7 DEF Moves
  <2>9. ASSUME NEW x \in Peers PROVE Holds(requests', worker'[x], x) /\ worker'[x].beat <= now
    <3>1. CASE x = p
      BY <2>3, <2>4, <3>1 DEF Holds
    <3>2. CASE x # p
      BY <1>4, <2>1, <2>4, <2>8, <3>2, StillHolds
    <3> QED BY <3>1, <3>2
  <2>10. ASSUME NEW i \in DOMAIN waiters' PROVE peers'[waiters'[i].peer].known
    <3>1. CASE i = Len(waiters) + 1
      BY <1>1, <1>3, <2>2, <2>5, <3>1
    <3>2. CASE i # Len(waiters) + 1
      <4>1. i \in DOMAIN waiters
        BY <2>5, <3>2
      <4>2. waiters[i] \in WaiterKinds
        BY <1>2, <4>1
      <4>3. waiters[i].peer \in Peers
        BY <4>2 DEF WaiterKinds
      <4> QED BY <1>1, <1>3, <2>5, <4>1, <4>3 DEF IInv, WaiterInv
    <3> QED BY <3>1, <3>2
  <2>11. ASSUME NEW x \in Peers, worker'[x].next = "wait"
         PROVE  Awaited(waiters', x) /\ \A r \in Requests : ~Owed(requests'[r], x, r)
    <3>1. CASE x = p
      <4>1. heard
        BY <2>3, <2>4, <2>11, <3>1
      <4>2. Awaited(waiters', x)
        <5> DEFINE j == Len(waiters) + 1
        <5>1. j \in DOMAIN waiters' /\ waiters'[j] = e
          BY <2>5
        <5> HIDE DEF j
        <5>2. e.peer = x /\ e.heard
          BY <2>2, <3>1, <4>1
        <5> QED BY <5>1, <5>2 DEF Awaited
      <4>3. ASSUME NEW r \in Requests PROVE ~Owed(rs[r], p, r)
        <5>1. ps[p].known /\ r \notin FindClaimable(ps, rs, p)
          BY <1>1, <1>3, <1>7 DEF none
        <5> QED BY <1>2, <1>3, <5>1, OwedClaimable
      <4> QED BY <2>1, <3>1, <4>2, <4>3
    <3>2. CASE x # p
      <4>1. worker[x].next = "wait"
        BY <2>4, <2>11, <3>2
      <4>2. Awaited(waiters, x) /\ \A r \in Requests : ~Owed(requests[r], x, r)
        BY <4>1 DEF IInv, WaiterInv, OwedInv
      <4>3. Awaited(waiters', x)
        <5>1. PICK i \in DOMAIN waiters : waiters[i].peer = x /\ waiters[i].heard
          BY <4>2 DEF Awaited
        <5>2. i \in DOMAIN waiters'
          BY <2>5
        <5> QED BY <2>5, <5>1, <5>2 DEF Awaited
      <4>4. ASSUME NEW r \in Requests PROVE ~Owed(requests'[r], x, r)
        <5>1. StillFirst(requests[r], requests'[r]) /\ ~Owed(requests[r], x, r)
          BY <2>7, <4>2 DEF Moves
        <5> QED BY <5>1 DEF StillFirst, Owed
      <4> QED BY <4>3, <4>4
    <3> QED BY <3>1, <3>2
  <2> QED BY <1>1, <2>6, <2>8, <2>9, <2>10, <2>11, AnyStep
<1>8. CASE ~none
  <2>1. requests' = claimed /\ waiters' = waiters
    BY <1>1, <1>8
  <2>2. PICK r \in FindClaimable(ps, rs, p) :
          /\ claimed = Claimed(rs, r, p)
          /\ Works(w, rs, claimed) = WorksOn(w, r, rs[r].attempts + 1)
    <3> HIDE DEF ps, rs, w
    <3> QED BY <1>2, <1>4, <1>8, ClaimNextIs
  <2>3. r \in Requests /\ rs[r].state = "pending"
    BY <2>2 DEF FindClaimable
  <2> DEFINE u == WorksOn(w, r, rs[r].attempts + 1)
  <2>4. v = IF heard THEN u ELSE CycleEnds(w)
    BY <1>8, <2>2
  <2> HIDE DEF v, claimed, ps, none, e
  <2>5. u \in WorkerKinds /\ u.next = "execute" /\ u.beat <= now /\ Holds(claimed, u, p)
    <3> HIDE DEF w, rs
    <3> QED BY <1>2, <1>4, <1>5, <2>2, <2>3, HoldsNew
  <2> HIDE DEF u
  <2>6. v \in WorkerKinds /\ v.next # "wait" /\ v.beat <= now /\ Holds(claimed, v, p)
    <3>1. CASE heard
      BY <2>4, <2>5, <3>1
    <3>2. CASE ~heard
      BY <1>2, <1>6, <2>4, <3>2 DEF Holds
    <3> QED BY <3>1, <3>2
  <2>7. ClaimedBy(rs[r], p) \in RequestKinds /\ Moves(requests[r], ClaimedBy(rs[r], p))
    <3> DEFINE q == requests[r]
               n == rs[r]
    <3>1. q \in RequestKinds /\ n \in RequestKinds /\ Moves(q, n) /\ n.state = "pending"
      BY <1>2, <1>4, <2>3 DEF RequestMaps
    <3> HIDE DEF q, n, rs
    <3>2. ClaimedBy(n, p) \in RequestKinds /\ Moves(q, ClaimedBy(n, p))
      BY <1>2, <3>1, ClaimMoves
    <3> QED BY <3>2 DEF q, n
  <2> HIDE DEF rs
  <2>8. /\ claimed \in RequestMaps
        /\ claimed[r] = ClaimedBy(rs[r], p)
        /\ \A s \in Requests : s # r => claimed[s] = rs[s]
    BY <1>4, <2>2, <2>3, <2>7 DEF RequestMaps, Claimed
  <2>9. \A s \in Requests : Moves(requests[s], requests'[s])
    BY <1>4, <2>1, <2>7, <2>8
  <2>10. \A s \in Requests : Advances(requests[s], requests'[s])
    BY <2>9 DEF Moves
  <2>11. /\ worker' \in [Peers -> WorkerKinds] /\ worker'[p] = v
         /\ \A x \in Peers : x # p => worker'[x] = worker[x]
    BY <1>1, <1>2, <2>6
  <2>12. ASSUME NEW x \in Peers PROVE Holds(requests', worker'[x], x) /\ worker'[x].beat <= now
    <3>1. CASE x = p
      BY <2>1, <2>6, <2>11, <3>1
    <3>2. CASE x # p
      BY <2>1, <2>8, <2>10, <2>11, <3>2, StillHolds
    <3> QED BY <3>1, <3>2
  <2>13. \A i \in DOMAIN waiters' : peers'[waiters'[i].peer].known
    <3>1. \A x \in Peers : peers[x].known => peers'[x].known
      BY <1>1, <1>3
    <3> QED BY <2>1, <3>1, SameWaiters
  <2>14. ASSUME NEW x \in Peers, worker'[x].next = "wait"
         PROVE  Awaited(waiters', x) /\ \A s \in Requests : ~Owed(requests'[s], x, s)
    <3>1. worker[x].next = "wait"
      BY <2>6, <2>11, <2>14
    <3> QED BY <2>1, <2>9, <3>1, StillWaiting
  <2>15. TypeOK'
    BY <1>1, <1>2, <1>3, <2>1, <2>8, <2>11 DEF IInv, TypeOK, RequestMaps
  <2> QED BY <1>1, <2>10, <2>12, <2>13, <2>14, <2>15, AnyStep
<1> QED BY <1>7, <1>8

\* A request is dispatched, and the waiters are notified.
LEMMA DispatchStep ==
  ASSUME IInv, NEW r \in Requests, NEW ask \in Asks[r], DispatchActionRequest(r, ask)
  PROVE  IInv' /\ Kept
<1> DEFINE asked == [NoRequest EXCEPT !.state = "pending", !.prefer = ask.prefer, !.lock = ask.lock,
                                      !.expires = now + ActionTimeout]
           rs == [requests EXCEPT ![r] = asked]
           g == NotifyPullWaiters(rs)
<1>1. /\ requests[r].state = "new"
      /\ peers' = g.peers /\ requests' = g.requests /\ waiters' = g.waiters /\ worker' = g.worker
      /\ now' = now /\ underway' = underway /\ faults' = faults
  BY DEF DispatchActionRequest
<1>2. /\ TypeOK /\ WorkInv /\ WaiterInv /\ requests \in RequestMaps /\ now + ActionTimeout \in Nat
      /\ waiters \in Seq(WaiterKinds)
      /\ \A s \in Requests : requests[s] \in RequestKinds /\ Counted(requests[s])
  BY Numbers DEF IInv, TypeOK, CountInv, RequestMaps
<1>3. ask.prefer \in Nobody /\ ask.lock \in Nobody
  <2>1. Asks[r] \subseteq [prefer : Peers \cup {NoPeer}, lock : Peers \cup {NoPeer}]
    BY RelayAssumption
  <2> QED BY <2>1 DEF Nobody
<1>4. asked \in RequestKinds /\ asked.state = "pending" /\ asked.attempts = 0
  BY <1>2, <1>3 DEF NoRequest, RequestKinds, States, Nobody
<1> HIDE DEF asked
<1>5. Counted(asked)
  BY <1>4 DEF Counted
<1>6. requests[r].attempts = 0
  BY <1>1, <1>2 DEF Counted
<1>7. Advances(requests[r], asked)
  BY <1>1, <1>4, <1>5, <1>6 DEF Advances
<1>8. rs \in RequestMaps /\ rs[r] = asked /\ \A s \in Requests : s # r => rs[s] = requests[s]
  BY <1>2, <1>4 DEF RequestMaps
<1> HIDE DEF rs
<1>9. \A s \in Requests : Counted(rs[s]) /\ Advances(requests[s], rs[s])
  <2> SUFFICES ASSUME NEW s \in Requests PROVE Counted(rs[s]) /\ Advances(requests[s], rs[s])
    OBVIOUS
  <2>1. Moves(requests[s], requests[s])
    BY <1>2, StaysMoves
  <2>2. Counted(requests[s]) /\ Advances(requests[s], requests[s])
    BY <1>2, <2>1 DEF Moves
  <2> QED BY <1>5, <1>7, <1>8, <2>2
<1>10. g \in NotifyStates /\ Between(rs, Len(waiters), g)
  BY <1>2, <1>8, <1>9, NotifyAll
<1> HIDE DEF g
<1>11. ASSUME NEW s \in Requests PROVE Advances(requests[s], requests'[s])
  <2>1. Moves(rs[s], requests'[s])
    BY <1>1, <1>10 DEF Between
  <2>2. CASE s # r
    BY <1>8, <2>1, <2>2 DEF Moves
  <2>3. CASE s = r
    <3>1. Counted(requests'[r]) /\ requests'[r].attempts >= 0
      BY <1>4, <1>8, <2>1, <2>3 DEF Moves, Advances
    <3>2. ~(requests'[r].state = "inflight" /\ requests'[r].attempts = 0)
      BY <3>1 DEF Counted
    <3> QED BY <1>1, <1>6, <2>3, <3>1, <3>2 DEF Advances
  <2> QED BY <2>2, <2>3
<1>12. TypeOK'
  BY <1>1, <1>2, <1>10 DEF NotifyStates, TypeOK, RequestMaps
<1>13. \A p \in Peers : Holds(requests', worker'[p], p) /\ worker'[p].beat <= now
  BY <1>1, <1>10 DEF Between
<1>14. ASSUME NEW j \in DOMAIN waiters' PROVE peers'[waiters'[j].peer].known
  <2>1. PICK i \in DOMAIN waiters : waiters'[j] = waiters[i]
    BY <1>1, <1>10 DEF Between
  <2>2. waiters[i] \in WaiterKinds
    BY <1>2
  <2>3. waiters[i].peer \in Peers /\ peers[waiters[i].peer].known
    BY <1>2, <2>2 DEF WaiterKinds, WaiterInv
  <2> QED BY <1>1, <1>10, <2>1, <2>3 DEF Between
<1>15. ASSUME NEW p \in Peers, worker'[p].next = "wait"
       PROVE  Awaited(waiters', p) /\ \A s \in Requests : ~Owed(requests'[s], p, s)
  <2>1. StillWaits(g, Len(waiters), p)
    BY <1>1, <1>10, <1>15 DEF Between
  <2>2. Awaited(waiters, p) /\ Awaited(g.waiters, p)
    BY <1>2, <2>1 DEF StillWaits, WaiterInv
  <2>3. PICK i \in DOMAIN waiters : waiters[i].peer = p /\ waiters[i].heard
    BY <2>2 DEF Awaited
  <2>4. i \in 1 .. Len(waiters)
    BY <1>2
  <2> QED BY <1>1, <2>1, <2>2, <2>3, <2>4 DEF StillWaits
<1> QED BY <1>1, <1>11, <1>12, <1>13, <1>14, <1>15, AnyStep

\* Time passes.
LEMMA TickStep ==
  ASSUME IInv, Tick
  PROVE  IInv' /\ Kept
<1>1. /\ now < MaxTime /\ now' = now + 1 /\ peers' = peers /\ requests' = requests
      /\ waiters' = waiters /\ worker' = worker /\ underway' = underway /\ faults' = faults
  BY DEF Tick
<1>2. now \in Nat /\ MaxTime \in Nat /\ \A p \in Peers : worker[p].beat \in Nat
  BY Numbers, RelayAssumption DEF IInv, TypeOK, WorkerKinds
<1>3. now' \in Times
  BY <1>1, <1>2 DEF Times
<1>4. TypeOK'
  BY <1>1, <1>3 DEF IInv, TypeOK
<1>5. CountInv' /\ WaiterInv' /\ OwedInv'
  BY <1>1 DEF IInv, CountInv, WaiterInv, OwedInv
<1>6. WorkInv'
  BY <1>1, <1>2 DEF IInv, WorkInv
<1>7. \A r \in Requests : Advances(requests[r], requests'[r])
  BY <1>1, Unmoved DEF Moves
<1> QED BY <1>4, <1>5, <1>6, <1>7, KeptByAdvances DEF IInv

\* Nothing happens.
LEMMA Stutter ==
  ASSUME IInv, UNCHANGED vars
  PROVE  IInv' /\ Kept
<1>1. /\ now' = now /\ peers' = peers /\ requests' = requests
      /\ waiters' = waiters /\ worker' = worker /\ underway' = underway /\ faults' = faults
  BY DEF vars
<1>2. IInv'
  BY <1>1 DEF IInv, TypeOK, CountInv, WorkInv, WaiterInv, OwedInv
<1>3. \A r \in Requests : Advances(requests[r], requests'[r])
  BY <1>1, Unmoved DEF Moves
<1> QED BY <1>2, <1>3, KeptByAdvances

\* It holds before anything was dispatched.
LEMMA InitHolds ==
  ASSUME Init
  PROVE  IInv
<1>1. MaxRequests \in Nat /\ MaxTime \in Nat /\ MaxFaults \in Nat
  BY RelayAssumption
<1>2. NoRequest \in RequestKinds /\ Counted(NoRequest) /\ NoRequest.state = "new"
  BY DEF NoRequest, RequestKinds, States, Nobody, Counted
<1>3. Idle \in WorkerKinds /\ Idle.next = "register" /\ Idle.beat = 0
  BY <1>1 DEF Idle, WorkerKinds
<1>4. /\ now = 0 /\ peers \in [Peers -> PeerKinds] /\ waiters = << >> /\ underway = {} /\ faults = 0
      /\ requests \in [Requests -> RequestKinds] /\ \A r \in Requests : requests[r] = NoRequest
      /\ worker \in [Peers -> WorkerKinds] /\ \A p \in Peers : worker[p] = Idle
  BY <1>2, <1>3 DEF Init, PeerKinds
<1>5. TypeOK
  BY <1>1, <1>4 DEF TypeOK, Times
<1>6. CountInv /\ OwedInv /\ WaiterInv
  BY <1>2, <1>3, <1>4 DEF CountInv, OwedInv, WaiterInv
<1>7. WorkInv
  BY <1>3, <1>4 DEF WorkInv, Holds
<1> QED BY <1>5, <1>6, <1>7 DEF IInv

\* Every step keeps the invariant, and does what KeptWhileBeating says.
LEMMA StepHolds ==
  ASSUME IInv, [Next]_vars
  PROVE  IInv' /\ Kept
<1>1. ASSUME NEW r \in Requests, NEW ask \in Asks[r], DispatchActionRequest(r, ask) PROVE IInv' /\ Kept
  BY <1>1, DispatchStep
<1>2. ASSUME NEW r \in Requests, RequestTimesOut(r) PROVE IInv' /\ Kept
  BY <1>2, TimeOutStep
<1>3. CASE ListActionRequests
  BY <1>3, ListStep
<1>4. ASSUME NEW p \in Peers,
             \/ RegisterPeer(p) \/ ReportTargets(p) \/ CycleHeartbeat(p) \/ Pull(p)
             \/ ExecutionHeartbeat(p) \/ Execute(p) \/ ExecuteThrows(p) \/ Submit(p)
             \/ CallRefused(p)
             \/ CallLost(p) \/ PullAnswerLost(p) \/ WorkerKilled(p)
      PROVE  IInv' /\ Kept
  <2>1. CASE RegisterPeer(p)
    BY <2>1, RegisterStep
  <2>2. CASE ReportTargets(p)
    BY <2>2, ReportStep
  <2>3. CASE CycleHeartbeat(p)
    BY <2>3, CycleHeartbeatStep
  <2>4. CASE Pull(p)
    <3>1. PullNextActionRequestWait(p, TRUE) /\ faults' \in 0 .. MaxFaults
      BY <2>4 DEF Pull, IInv, TypeOK
    <3> QED BY <3>1, PullStep
  <2>5. CASE ExecutionHeartbeat(p)
    BY <2>5, ExecutionHeartbeatStep
  <2>6. CASE Execute(p)
    BY <2>6, ExecuteStep
  <2>7. CASE ExecuteThrows(p) \/ CallRefused(p) \/ CallLost(p)
    BY <2>7, CycleEndsStep
  <2>8. CASE Submit(p)
    BY <2>8, SubmitStep
  <2>9. CASE PullAnswerLost(p)
    <3>1. PullNextActionRequestWait(p, FALSE) /\ faults' \in 0 .. MaxFaults
      BY <2>9, Counts DEF PullAnswerLost, IInv
    <3> QED BY <3>1, PullStep
  <2>10. CASE WorkerKilled(p)
    BY <2>10, WorkerKilledStep
  <2> QED BY <1>4, <2>1, <2>2, <2>3, <2>4, <2>5, <2>6, <2>7, <2>8, <2>9, <2>10
<1>5. ASSUME NEW i \in DOMAIN waiters, PullWaitEnds(i) PROVE IInv' /\ Kept
  BY <1>5, PullWaitStep
<1>6. ASSUME NEW sent \in underway, LateSubmit(sent) PROVE IInv' /\ Kept
  BY <1>6, LateSubmitStep
<1>7. CASE DaemonRestart
  BY <1>7, RestartStep
<1>8. CASE Tick
  BY <1>8, TickStep
<1>9. CASE UNCHANGED vars
  BY <1>9, Stutter
<1> QED BY <1>1, <1>2, <1>3, <1>4, <1>5, <1>6, <1>7, <1>8, <1>9 DEF Next

-----------------------------------------------------------------------------
(* The theorems.                                                           *)

\* Gateway and workers agree: a worker with a request was handed an attempt that
\* was counted, the claim of the last one is its peer's and runs for a lease from
\* when it was last heard, and whoever waits for work is among the waiters
\* (claimNextActionRequest, renewInflightClaims, pullNextActionRequestWait).
THEOREM Agreement == Spec => []IInv
<1>1. Init => IInv
  BY InitHolds
<1>2. IInv /\ [Next]_vars => IInv'
  BY StepHolds
<1> QED BY <1>1, <1>2, PTL DEF Spec

\* Records, clocks and claims keep their types: who holds a request is a peer,
\* a claim token counts attempts, and a result names a request that was
\* dispatched (relay-gateway.ts, peer-runtime.ts).
THEOREM TypeCorrect == Spec => []TypeOK
<1>1. IInv => TypeOK
  BY DEF IInv
<1> QED BY <1>1, Agreement, PTL

\* A dispatch resolves with the result of the last attempt that was handed
\* out: submitActionResult turns away every worker whose claim was withdrawn,
\* however many there are and however late they come.
THEOREM LastAnswers == Spec => []LastAttemptAnswers
<1>1. IInv => LastAttemptAnswers
  BY DEF IInv, CountInv, Counted, LastAttemptAnswers
<1> QED BY <1>1, Agreement, PTL

\* notifyPullWaiters passes no waiting worker over: what it may take is pending
\* only if it was handed out before, or was meant for another peer first.
THEOREM NobodyPassedOver == Spec => []NotPassedOver
<1>1. IInv => NotPassedOver
  <2> SUFFICES ASSUME IInv, NEW p \in Peers, worker[p].next = "wait",
                      NEW r \in FindClaimable(peers, requests, p)
               PROVE  requests[r].attempts > 0 \/ requests[r].prefer \notin {NoPeer, p}
    BY DEF NotPassedOver
  <2>1. r \in Requests /\ requests[r].state = "pending" /\ CanPeerClaimAction(peers, p, r, requests[r])
    BY DEF FindClaimable
  <2>2. ~Owed(requests[r], p, r)
    BY <2>1 DEF IInv, OwedInv
  <2>3. requests[r].attempts \in Nat
    BY <2>1 DEF IInv, TypeOK, RequestKinds
  <2> QED BY <2>1, <2>2, <2>3 DEF Owed, CanPeerClaimAction
<1> QED BY <1>1, Agreement, PTL

\* A claim is not withdrawn under a worker that is heard within a lease: no
\* call of reclaimExpiredActionRequests, whoever makes it, finds it expired,
\* since renewInflightClaims moved its end with every heartbeat.
THEOREM KeptLease == Spec => KeptWhileBeating
<1>1. IInv /\ [Next]_vars =>
        [\A p \in Peers, r \in Requests :
           /\ worker[p].next = "execute" /\ worker[p].request = r
           /\ requests[r].state = "inflight" /\ requests[r].attempts = worker[p].token
           /\ now < Sooner(requests[r].expires, worker[p].beat + Lease)
           => /\ requests'[r].state # "pending"
              /\ requests'[r].attempts = worker[p].token]_vars
  BY StepHolds DEF Kept
<1> QED BY <1>1, Agreement, PTL DEF Spec, KeptWhileBeating
=============================================================================
