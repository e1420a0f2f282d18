---------------------------- MODULE Outbox_proofs ----------------------------
(***************************************************************************)
(* Theorems of Outbox, for any batches, lease tokens, delays and limits.   *)
(***************************************************************************)
EXTENDS Outbox, TLAPS

\* Exactly the inflight files carry a lease, and one whose lease ran out is
\* known to have an excuse for a second delivery.
LeaseInv ==
  \A b \in Batches :
    /\ records[b].state = "inflight" <=> records[b].lease # NoLease
    /\ Expired(records[b]) => excused[b]
    /\ records[b].state = "absent" => records[b].attempt = 0

\* What the drain has claimed, it holds; between two claims it has nothing.
DrainInv ==
  /\ \A b \in Batches : claim[b] # NoClaim => /\ claim[b].lease # NoLease
                                              /\ Holds(b, claim[b].lease)
  /\ drainPc \in {"sink", "ack", "fail"} => cur \in Batches /\ claim[cur] # NoClaim
  /\ drainPc = "drop" => cur \in Batches
  /\ drainPc \in {"idle", "claim"} => \A b \in Batches : claim[b] = NoClaim

\* A fast path holds its lease until it is overtaken, and never the drain's.
FastInv ==
  \A b \in Batches :
    /\ fast[b].pc \in {"sink", "ack", "release"} =>
         /\ fast[b].lease # NoLease
         /\ fast[b].lease # claim[b].lease
         /\ Holds(b, fast[b].lease) \/ excused[b]
    /\ fast[b].pc = "threw" => excused[b]

\* Whoever is about to acknowledge has delivered.
AckInv ==
  /\ \A b \in Batches : fast[b].pc = "ack" => delivered[b] > 0
  /\ drainPc = "ack" => delivered[cur] > 0

\* Without an excuse a delivery is the last one: nobody is left to repeat it.
OnceInv ==
  \A b \in Batches : delivered[b] > 0 /\ ~excused[b] =>
    /\ delivered[b] = 1
    /\ fast[b].pc \notin {"sink", "release"}
    /\ records[b].state \in {"absent", "inflight"}
    /\ claim[b] # NoClaim => b = cur /\ drainPc = "ack"

\* Every attempt a file or a claim has counted was a failure of the drain.
AttemptInv ==
  /\ \A b \in Batches : claim[b].attempt <= failures[b]
  /\ drainPc = "fail" => claim[cur].attempt + 1 <= failures[cur]
  /\ DeadLetterEarned

\* Nothing happens to a batch before it is enqueued.
NewInv ==
  \A b \in Batches : ~accepted[b] =>
    /\ records[b].state = "absent"
    /\ fast[b].pc = "idle"
    /\ delivered[b] = 0

IInv ==
  /\ TypeOK
  /\ LeaseInv
  /\ DrainInv
  /\ FastInv
  /\ AckInv
  /\ OnceInv
  /\ AttemptInv
  /\ NewInv
  /\ NoSilentLoss

-----------------------------------------------------------------------------
\* What the three ways of rewriting a batch file leave in its fields.
LEMMA ClaimedFields ==
  ASSUME NEW r \in Record, NEW lease \in Leases
  PROVE  /\ Claimed(r, lease) \in Record
         /\ Claimed(r, lease).state = "inflight"
         /\ Claimed(r, lease).lease = lease
         /\ Claimed(r, lease).left = LeaseDuration
         /\ Claimed(r, lease).attempt = r.attempt
BY OutboxAssumption DEF Claimed, Record, RecordStates

LEMMA UnleasedFields ==
  ASSUME NEW r \in Record, NEW state \in RecordStates, NEW attempt \in Nat, NEW wait \in Nat
  PROVE  /\ Unleased(r, state, attempt, wait) \in Record
         /\ Unleased(r, state, attempt, wait).state = state
         /\ Unleased(r, state, attempt, wait).lease = NoLease
         /\ Unleased(r, state, attempt, wait).attempt = attempt
BY DEF Unleased, Record

LEMMA AbsentFields ==
  /\ Absent \in Record
  /\ Absent.state = "absent"
  /\ Absent.lease = NoLease
  /\ Absent.attempt = 0
BY DEF Absent, Record, RecordStates

LEMMA TickFields ==
  ASSUME NEW r \in Record, NEW q, q = [r EXCEPT !.wait = Less(@), !.left = Less(@)]
  PROVE  /\ q \in Record
         /\ q.state = r.state /\ q.lease = r.lease /\ q.attempt = r.attempt
<1>1. \A n \in Nat : Less(n) \in Nat
  BY DEF Less
<1>2. r.wait \in Nat /\ r.left \in Nat
  BY DEF Record
<1>3. Less(r.wait) \in Nat /\ Less(r.left) \in Nat
  BY <1>1, <1>2
<1> QED
  BY <1>3 DEF Record

\* An update of one batch file that clears its lease, as seen from each file.
LEMMA UnleasedRecords ==
  ASSUME TypeOK, NEW b \in Batches, NEW state \in RecordStates, NEW attempt \in Nat, NEW wait \in Nat,
         records' = [records EXCEPT ![b] = Unleased(records[b], state, attempt, wait)]
  PROVE  /\ records' \in [Batches -> Record]
         /\ \A c \in Batches \ {b} : records'[c] = records[c]
         /\ records'[b].state = state
         /\ records'[b].lease = NoLease
         /\ records'[b].attempt = attempt
<1>1. records[b] \in Record
  BY DEF TypeOK
<1>2. Unleased(records[b], state, attempt, wait) \in Record
  BY <1>1, UnleasedFields
<1>3. /\ records' \in [Batches -> Record]
      /\ \A c \in Batches \ {b} : records'[c] = records[c]
      /\ records'[b] = Unleased(records[b], state, attempt, wait)
  BY <1>2 DEF TypeOK
<1> QED
  BY <1>1, <1>3, UnleasedFields

LEMMA NoClaimFields == NoClaim.lease = NoLease /\ NoClaim.attempt = 0
BY DEF NoClaim

LEMMA InitInv == Init => IInv
<1> SUFFICES ASSUME Init PROVE IInv
  OBVIOUS
<1>1. TypeOK
  BY OutboxAssumption DEF Init, TypeOK, Record, RecordStates, FastPcs, DrainPcs, Absent, NoFast, NoClaim
<1>2. LeaseInv /\ DrainInv /\ FastInv /\ AckInv /\ OnceInv /\ AttemptInv /\ NewInv /\ NoSilentLoss
  BY OutboxAssumption DEF Init, LeaseInv, DrainInv, FastInv, AckInv, OnceInv, AttemptInv, NewInv,
     NoSilentLoss, DeadLetterEarned, Expired, Absent, NoFast, NoClaim
<1> QED
  BY <1>1, <1>2 DEF IInv

LEMMA NextInv == IInv /\ [Next]_vars => IInv'
<1> SUFFICES ASSUME IInv, [Next]_vars PROVE IInv'
  OBVIOUS
<1> USE OutboxAssumption
<1>0. TypeOK
  BY DEF IInv
<1>1. ASSUME NEW b \in Batches, Enqueue(b) PROVE IInv'
  BY <1>1 DEF IInv, TypeOK, LeaseInv, DrainInv, FastInv, AckInv, OnceInv, AttemptInv, NewInv, NoSilentLoss, DeadLetterEarned, Holds, Expired, Record, RecordStates, FastPcs, DrainPcs, drainVars, historyVars, Enqueue, Absent, NoFast, NoClaim
<1>2. ASSUME NEW b \in Batches, NEW lease \in Leases, EnqueueClaimed(b, lease) PROVE IInv'
  <2>0. /\ records' \in [Batches -> Record]
        /\ \A c \in Batches \ {b} : records'[c] = records[c]
        /\ records'[b].state = "inflight" /\ records'[b].lease = lease
        /\ records'[b].left # 0 /\ records'[b].attempt = 0
    <3>1. records' = [records EXCEPT ![b] = Claimed(Absent, lease)]
      BY <1>2 DEF EnqueueClaimed
    <3>2. Claimed(Absent, lease) \in Record
      BY AbsentFields, ClaimedFields
    <3>3. /\ records' \in [Batches -> Record] /\ records'[b] = Claimed(Absent, lease)
          /\ \A c \in Batches \ {b} : records'[c] = records[c]
      BY <1>0, <3>1, <3>2 DEF TypeOK
    <3> QED
      BY <3>3, AbsentFields, ClaimedFields
  <2>1. TypeOK'
    BY <1>2, <1>0, <2>0 DEF IInv, TypeOK, FastPcs, DrainPcs, drainVars, historyVars, EnqueueClaimed, Fresh, NoClaim
  <2>2. LeaseInv'
    BY <1>2, <1>0, <2>0 DEF IInv, LeaseInv, Expired, TypeOK, FastPcs, DrainPcs, drainVars, historyVars, EnqueueClaimed, Fresh, NoClaim
  <2>3. DrainInv'
    BY <1>2, <1>0, <2>0 DEF IInv, DrainInv, NewInv, Holds, TypeOK, FastPcs, DrainPcs, drainVars, historyVars, EnqueueClaimed, Fresh
  <2>4. FastInv'
    BY <1>2, <1>0, <2>0 DEF IInv, FastInv, LeaseInv, DrainInv, Holds, Expired, TypeOK, FastPcs, DrainPcs, drainVars, historyVars, EnqueueClaimed, Fresh, NoClaim
  <2>5. AckInv'
    BY <1>2, <1>0, <2>0 DEF IInv, AckInv, DrainInv, TypeOK, FastPcs, DrainPcs, drainVars, historyVars, EnqueueClaimed, Fresh, NoClaim
  <2>6. OnceInv'
    BY <1>2, <1>0, <2>0 DEF IInv, OnceInv, FastInv, DrainInv, LeaseInv, NewInv, Holds, Expired, TypeOK, FastPcs, DrainPcs, drainVars, historyVars, EnqueueClaimed, Fresh, NoClaim
  <2>7. AttemptInv'
    BY <1>2, <1>0, <2>0 DEF IInv, AttemptInv, DrainInv, LeaseInv, DeadLetterEarned, TypeOK, FastPcs, DrainPcs, drainVars, historyVars, EnqueueClaimed, Fresh
  <2>8. NewInv'
    BY <1>2, <1>0, <2>0 DEF IInv, NewInv, FastInv, DrainInv, Holds, TypeOK, FastPcs, DrainPcs, drainVars, historyVars, EnqueueClaimed, Fresh, NoClaim
  <2>9. NoSilentLoss'
    BY <1>2, <1>0, <2>0 DEF IInv, NoSilentLoss, AckInv, NewInv, DrainInv, Holds, TypeOK, FastPcs, DrainPcs, drainVars, historyVars, EnqueueClaimed, Fresh, NoClaim
  <2> QED
    BY <2>1, <2>2, <2>3, <2>4, <2>5, <2>6, <2>7, <2>8, <2>9 DEF IInv
<1>3. ASSUME NEW b \in Batches, FastSinkOk(b) PROVE IInv'
  BY <1>3 DEF IInv, TypeOK, LeaseInv, DrainInv, FastInv, AckInv, OnceInv, AttemptInv, NewInv, NoSilentLoss, DeadLetterEarned, Holds, Expired, Record, RecordStates, FastPcs, DrainPcs, drainVars, historyVars, FastSinkOk
<1>4. ASSUME NEW b \in Batches, FastSinkFail(b) PROVE IInv'
  BY <1>4 DEF IInv, TypeOK, LeaseInv, DrainInv, FastInv, AckInv, OnceInv, AttemptInv, NewInv, NoSilentLoss, DeadLetterEarned, Holds, Expired, Record, RecordStates, FastPcs, DrainPcs, drainVars, historyVars, FastSinkFail
<1>5. ASSUME NEW b \in Batches, FastAck(b) PROVE IInv'
  BY <1>5 DEF IInv, TypeOK, LeaseInv, DrainInv, FastInv, AckInv, OnceInv, AttemptInv, NewInv, NoSilentLoss, DeadLetterEarned, Holds, Expired, Record, RecordStates, FastPcs, DrainPcs, drainVars, historyVars, FastAck, AckedRecords, Absent
<1>6. ASSUME NEW b \in Batches, FastAckFault(b) PROVE IInv'
  BY <1>6 DEF IInv, TypeOK, LeaseInv, DrainInv, FastInv, AckInv, OnceInv, AttemptInv, NewInv, NoSilentLoss, DeadLetterEarned, Holds, Expired, Record, RecordStates, FastPcs, DrainPcs, drainVars, historyVars, FastAckFault
<1>24. ASSUME NEW b \in Batches, FastReleaseFault(b) PROVE IInv'
  BY <1>24 DEF IInv, TypeOK, LeaseInv, DrainInv, FastInv, AckInv, OnceInv, AttemptInv, NewInv, NoSilentLoss, DeadLetterEarned, Holds, Expired, Record, RecordStates, FastPcs, DrainPcs, drainVars, historyVars, FastReleaseFault
<1>7. ASSUME NEW b \in Batches, FastRelease(b) PROVE IInv'
  <2>1. CASE Holds(b, fast[b].lease)
    <3>0. /\ records' \in [Batches -> Record]
          /\ \A c \in Batches \ {b} : records'[c] = records[c]
          /\ records'[b].state = "pending" /\ records'[b].lease = NoLease
          /\ records'[b].attempt = records[b].attempt
      <4>1. records' = [records EXCEPT ![b] = Unleased(records[b], "pending", records[b].attempt, 0)]
        BY <1>7, <2>1 DEF FastRelease, ReleasedRecords
      <4>2. records[b].attempt \in Nat /\ "pending" \in RecordStates
        BY <1>0 DEF TypeOK, Record, RecordStates
      <4> QED
        BY <1>0, <4>1, <4>2, UnleasedRecords
    <3>1. TypeOK'
      BY <1>7, <1>0, <3>0, <2>1 DEF IInv, TypeOK, FastPcs, DrainPcs, drainVars, historyVars, FastRelease, NoClaim
    <3>2. LeaseInv'
      BY <1>7, <1>0, <3>0, <2>1 DEF IInv, LeaseInv, Expired, TypeOK, FastPcs, DrainPcs, drainVars, historyVars, FastRelease, NoClaim
    <3>3. DrainInv'
      BY <1>7, <1>0, <3>0, <2>1 DEF IInv, DrainInv, FastInv, Holds, TypeOK, FastPcs, DrainPcs, drainVars, historyVars, FastRelease
    <3>4. FastInv'
      BY <1>7, <1>0, <3>0, <2>1 DEF IInv, FastInv, LeaseInv, DrainInv, Holds, Expired, TypeOK, FastPcs, DrainPcs, drainVars, historyVars, FastRelease, NoClaim
    <3>5. AckInv'
      BY <1>7, <1>0, <3>0, <2>1 DEF IInv, AckInv, DrainInv, TypeOK, FastPcs, DrainPcs, drainVars, historyVars, FastRelease, NoClaim
    <3>6. OnceInv'
      BY <1>7, <1>0, <3>0, <2>1 DEF IInv, OnceInv, FastInv, DrainInv, LeaseInv, NewInv, Holds, Expired, TypeOK, FastPcs, DrainPcs, drainVars, historyVars, FastRelease, NoClaim
    <3>7. AttemptInv'
      BY <1>7, <1>0, <3>0, <2>1 DEF IInv, AttemptInv, DrainInv, LeaseInv, DeadLetterEarned, TypeOK, FastPcs, DrainPcs, drainVars, historyVars, FastRelease
    <3>8. NewInv'
      BY <1>7, <1>0, <3>0, <2>1 DEF IInv, NewInv, FastInv, DrainInv, Holds, TypeOK, FastPcs, DrainPcs, drainVars, historyVars, FastRelease, NoClaim
    <3>9. NoSilentLoss'
      BY <1>7, <1>0, <3>0, <2>1 DEF IInv, NoSilentLoss, AckInv, NewInv, DrainInv, Holds, TypeOK, FastPcs, DrainPcs, drainVars, historyVars, FastRelease, NoClaim
    <3> QED
      BY <3>1, <3>2, <3>3, <3>4, <3>5, <3>6, <3>7, <3>8, <3>9 DEF IInv
  <2>2. CASE ~Holds(b, fast[b].lease)
    <3>1. /\ records' = records /\ fast' = [fast EXCEPT ![b] = [pc |-> "threw", lease |-> NoLease]]
          /\ UNCHANGED <<up, scheduled, drainVars, faults, historyVars>>
      BY <1>7, <2>2 DEF FastRelease, ReleasedRecords
    <3>2. excused[b] /\ fast[b].pc = "release"
      BY <1>7, <2>2 DEF IInv, FastInv, FastRelease
    <3>3. TypeOK'
      BY <1>0, <3>1 DEF TypeOK, FastPcs, drainVars, historyVars
    <3>4. FastInv' /\ AckInv' /\ OnceInv' /\ NewInv'
      BY <1>0, <3>1, <3>2 DEF IInv, TypeOK, FastInv, AckInv, OnceInv, NewInv, Holds, drainVars, historyVars
    <3>5. LeaseInv' /\ DrainInv' /\ AttemptInv' /\ NoSilentLoss'
      BY <3>1 DEF IInv, LeaseInv, DrainInv, AttemptInv, DeadLetterEarned, NoSilentLoss, Holds, Expired,
         drainVars, historyVars
    <3> QED
      BY <3>3, <3>4, <3>5 DEF IInv
  <2> QED
    BY <2>1, <2>2
<1>8. ASSUME TimerFires PROVE IInv'
  BY <1>8 DEF IInv, TypeOK, LeaseInv, DrainInv, FastInv, AckInv, OnceInv, AttemptInv, NewInv, NoSilentLoss, DeadLetterEarned, Holds, Expired, Record, RecordStates, FastPcs, DrainPcs, drainVars, historyVars, TimerFires
<1>9. ASSUME Flush PROVE IInv'
  BY <1>9 DEF IInv, TypeOK, LeaseInv, DrainInv, FastInv, AckInv, OnceInv, AttemptInv, NewInv, NoSilentLoss, DeadLetterEarned, Holds, Expired, Record, RecordStates, FastPcs, DrainPcs, drainVars, historyVars, Flush
<1>10. ASSUME DrainEmpty PROVE IInv'
  BY <1>10 DEF IInv, TypeOK, LeaseInv, DrainInv, FastInv, AckInv, OnceInv, AttemptInv, NewInv, NoSilentLoss, DeadLetterEarned, Holds, Expired, Record, RecordStates, FastPcs, DrainPcs, drainVars, historyVars, DrainEmpty, StopDraining, Due, NoClaim
<1>11. ASSUME NEW taken \in SUBSET Batches, NEW first \in taken, NEW leaseOf \in [taken -> Leases],
              DrainClaim(taken, first, leaseOf)
       PROVE  IInv'
  <2>a. \A c \in taken : Due(c) /\ Fresh(leaseOf[c]) /\ records[c] \in Record
    BY <1>11, <1>0 DEF DrainClaim, Claim, TypeOK
  <2>b. \A c \in taken : records'[c] = Claimed(records[c], leaseOf[c])
    BY <1>11 DEF DrainClaim, Claim
  <2>c. \A c \in taken : /\ records'[c] \in Record
                        /\ records'[c].state = "inflight" /\ records'[c].lease = leaseOf[c]
                        /\ records'[c].left = LeaseDuration
                        /\ records'[c].attempt = records[c].attempt
    BY <2>a, <2>b, ClaimedFields
  <2>d. \A c \in Batches \ taken : records'[c] = records[c] /\ claim'[c] = claim[c]
    BY <1>11 DEF DrainClaim, Claim
  <2>e. \A c \in taken : /\ claim'[c].lease = leaseOf[c]
                        /\ claim'[c].attempt = records[c].attempt
    BY <1>11 DEF DrainClaim, Claim
  <2>f. /\ \A c \in Batches : claim[c] = NoClaim
        /\ \A c \in taken : leaseOf[c] \in Leases /\ leaseOf[c] # NoLease
    BY <1>11 DEF IInv, DrainInv, DrainClaim
  <2>0. records' \in [Batches -> Record] /\ claim' \in [Batches -> [lease : Leases \cup {NoLease}, attempt : Nat]]
    <3>1. \A c \in Batches : records'[c] \in Record
      BY <1>0, <2>c, <2>d DEF TypeOK
    <3>2. \A c \in taken : [lease |-> leaseOf[c], attempt |-> records[c].attempt]
                              \in [lease : Leases \cup {NoLease}, attempt : Nat]
      BY <2>a, <2>f DEF Record
    <3> QED
      BY <1>11, <1>0, <3>1, <3>2 DEF DrainClaim, Claim, TypeOK
  <2>g. /\ drainPc' = "sink" /\ cur' = first
        /\ UNCHANGED <<fast, up, scheduled, force, faults, historyVars>>
    BY <1>11 DEF DrainClaim
  <2>1. TypeOK'
    BY <1>0, <2>0, <2>a, <2>c, <2>d, <2>e, <2>f, <2>g, NoClaimFields DEF IInv, TypeOK, FastPcs, DrainPcs, drainVars, historyVars, Fresh, Due
  <2>2. LeaseInv'
    BY <1>0, <2>0, <2>a, <2>c, <2>d, <2>e, <2>f, <2>g, NoClaimFields DEF IInv, LeaseInv, Expired, TypeOK, FastPcs, DrainPcs, drainVars, historyVars, Fresh, Due
  <2>3. DrainInv'
    BY <1>0, <2>0, <2>a, <2>c, <2>d, <2>e, <2>f, <2>g, NoClaimFields DEF IInv, DrainInv, Holds, TypeOK, FastPcs, DrainPcs, drainVars, historyVars, Fresh, Due
  <2>4. FastInv'
    <3>1. \A c \in Batches : fast[c].pc \in {"sink", "ack", "release"} => fast[c].lease # claim'[c].lease
      BY <2>a, <2>d, <2>e DEF IInv, FastInv, Fresh
    <3>2. \A c \in taken : fast[c].pc \in {"sink", "ack", "release"} => excused[c]
      BY <2>a DEF IInv, FastInv, LeaseInv, Due, Holds, Expired
    <3> QED
      BY <2>d, <2>g, <3>1, <3>2 DEF IInv, FastInv, Holds, historyVars
  <2>5. AckInv'
    BY <1>0, <2>0, <2>a, <2>c, <2>d, <2>e, <2>f, <2>g, NoClaimFields DEF IInv, AckInv, DrainInv, TypeOK, FastPcs, DrainPcs, drainVars, historyVars, Fresh, Due
  <2>6. OnceInv'
    BY <1>0, <2>0, <2>a, <2>c, <2>d, <2>e, <2>f, <2>g, NoClaimFields DEF IInv, OnceInv, FastInv, DrainInv, LeaseInv, NewInv, Holds, Expired, TypeOK, FastPcs, DrainPcs, drainVars, historyVars, Fresh, Due
  <2>7. AttemptInv'
    BY <1>0, <2>0, <2>a, <2>c, <2>d, <2>e, <2>f, <2>g, NoClaimFields DEF IInv, AttemptInv, DrainInv, LeaseInv, DeadLetterEarned, TypeOK, FastPcs, DrainPcs, drainVars, historyVars, Fresh, Due
  <2>8. NewInv'
    BY <2>a, <2>d, <2>g DEF IInv, NewInv, Due, Expired, historyVars
  <2>9. NoSilentLoss'
    BY <1>0, <2>0, <2>a, <2>c, <2>d, <2>e, <2>f, <2>g, NoClaimFields DEF IInv, NoSilentLoss, AckInv, NewInv, DrainInv, Holds, TypeOK, FastPcs, DrainPcs, drainVars, historyVars, Fresh, Due
  <2> QED
    BY <2>1, <2>2, <2>3, <2>4, <2>5, <2>6, <2>7, <2>8, <2>9 DEF IInv
<1>12. ASSUME DrainSinkOk PROVE IInv'
  BY <1>12 DEF IInv, TypeOK, LeaseInv, DrainInv, FastInv, AckInv, OnceInv, AttemptInv, NewInv, NoSilentLoss, DeadLetterEarned, Holds, Expired, Record, RecordStates, FastPcs, DrainPcs, drainVars, historyVars, DrainSinkOk
<1>13. ASSUME DrainSinkFail PROVE IInv'
  BY <1>13 DEF IInv, TypeOK, LeaseInv, DrainInv, FastInv, AckInv, OnceInv, AttemptInv, NewInv, NoSilentLoss, DeadLetterEarned, Holds, Expired, Record, RecordStates, FastPcs, DrainPcs, drainVars, historyVars, DrainSinkFail
<1>14. ASSUME DrainAck PROVE IInv'
  BY <1>14 DEF IInv, TypeOK, LeaseInv, DrainInv, FastInv, AckInv, OnceInv, AttemptInv, NewInv, NoSilentLoss, DeadLetterEarned, Holds, Expired, Record, RecordStates, FastPcs, DrainPcs, drainVars, historyVars, DrainAck, AckedRecords, Absent, NextBatch, NoClaim
<1>15. ASSUME DrainAckFault PROVE IInv'
  BY <1>15 DEF IInv, TypeOK, LeaseInv, DrainInv, FastInv, AckInv, OnceInv, AttemptInv, NewInv, NoSilentLoss, DeadLetterEarned, Holds, Expired, Record, RecordStates, FastPcs, DrainPcs, drainVars, historyVars, DrainAckFault
<1>16. ASSUME DrainReschedule PROVE IInv'
  <2>a. cur \in Batches /\ Holds(cur, claim[cur].lease) /\ records[cur] \in Record
    BY <1>16, <1>0 DEF IInv, DrainInv, TypeOK, DrainReschedule
  <2>b. /\ claim[cur].attempt \in Nat /\ claim[cur].attempt + 1 \in Nat
        /\ claim[cur].attempt + 1 <= failures[cur]
        /\ records[cur].wait \in Nat
    BY <1>16, <1>0, <2>a DEF IInv, AttemptInv, TypeOK, Record, DrainReschedule
  <2>c. NextDelay(claim[cur].attempt + 1) \in Nat
    BY DEF NextDelay
  <2>0. /\ records' \in [Batches -> Record]
        /\ \A c \in Batches \ {cur} : records'[c] = records[c]
        /\ records'[cur].state = "pending" /\ records'[cur].lease = NoLease
        /\ records'[cur].attempt = claim[cur].attempt + 1
    <3> DEFINE wait == IF force THEN 0 ELSE NextDelay(claim[cur].attempt + 1)
    <3>1. wait \in Nat /\ "pending" \in RecordStates
      BY <2>b, <2>c DEF RecordStates
    <3>2. records' = [records EXCEPT ![cur] = Unleased(records[cur], "pending", claim[cur].attempt + 1, wait)]
      BY <1>16, <2>a DEF DrainReschedule
    <3> HIDE DEF wait
    <3> QED
      BY <1>0, <2>a, <2>b, <3>1, <3>2, UnleasedRecords
  <2>1. TypeOK'
    BY <1>16, <1>0, <2>0, <2>a, <2>b DEF IInv, TypeOK, FastPcs, DrainPcs, drainVars, historyVars, DrainReschedule, NextBatch, NoClaim
  <2>2. LeaseInv'
    BY <1>16, <1>0, <2>0, <2>a, <2>b DEF IInv, LeaseInv, Expired, TypeOK, FastPcs, DrainPcs, drainVars, historyVars, DrainReschedule, NextBatch, NoClaim
  <2>3. DrainInv'
    BY <1>16, <1>0, <2>0, <2>a, <2>b DEF IInv, DrainInv, Holds, TypeOK, FastPcs, DrainPcs, drainVars, historyVars, DrainReschedule, NextBatch, NoClaim
  <2>4. FastInv'
    BY <1>16, <1>0, <2>0, <2>a, <2>b DEF IInv, FastInv, LeaseInv, DrainInv, Holds, Expired, TypeOK, FastPcs, DrainPcs, drainVars, historyVars, DrainReschedule, NextBatch, NoClaim
  <2>5. AckInv'
    BY <1>16, <1>0, <2>0, <2>a, <2>b DEF IInv, AckInv, DrainInv, TypeOK, FastPcs, DrainPcs, drainVars, historyVars, DrainReschedule, NextBatch, NoClaim
  <2>6. OnceInv'
    BY <1>16, <1>0, <2>0, <2>a, <2>b DEF IInv, OnceInv, FastInv, DrainInv, LeaseInv, NewInv, Holds, Expired, TypeOK, FastPcs, DrainPcs, drainVars, historyVars, DrainReschedule, NextBatch, NoClaim
  <2>7. AttemptInv'
    <3>1. claim' = [claim EXCEPT ![cur] = NoClaim] /\ drainPc' # "fail" /\ failures' = failures
      BY <1>16, <2>a DEF DrainReschedule, NextBatch, historyVars
    <3>2. \A c \in Batches : claim'[c].attempt <= failures[c]
      BY <1>0, <2>a, <3>1, NoClaimFields DEF IInv, AttemptInv, TypeOK
    <3> QED
      BY <2>0, <2>a, <2>b, <3>1, <3>2 DEF IInv, AttemptInv, DeadLetterEarned
  <2>8. NewInv'
    BY <1>16, <1>0, <2>0, <2>a, <2>b DEF IInv, NewInv, FastInv, DrainInv, Holds, TypeOK, FastPcs, DrainPcs, drainVars, historyVars, DrainReschedule, NextBatch, NoClaim
  <2>9. NoSilentLoss'
    BY <1>16, <1>0, <2>0, <2>a, <2>b DEF IInv, NoSilentLoss, AckInv, NewInv, DrainInv, Holds, TypeOK, FastPcs, DrainPcs, drainVars, historyVars, DrainReschedule, NextBatch, NoClaim
  <2> QED
    BY <2>1, <2>2, <2>3, <2>4, <2>5, <2>6, <2>7, <2>8, <2>9 DEF IInv
<1>17. ASSUME DrainDeadLetter PROVE IInv'
  <2>a. cur \in Batches /\ Holds(cur, claim[cur].lease) /\ records[cur] \in Record
    BY <1>17, <1>0 DEF IInv, DrainInv, TypeOK, DrainDeadLetter
  <2>b. /\ claim[cur].attempt \in Nat /\ claim[cur].attempt + 1 \in Nat
        /\ claim[cur].attempt + 1 <= failures[cur]
        /\ records[cur].wait \in Nat
    BY <1>17, <1>0, <2>a DEF IInv, AttemptInv, TypeOK, Record, DrainDeadLetter
  <2>c. NextDelay(claim[cur].attempt + 1) \in Nat
    BY DEF NextDelay
  <2>0. /\ records' \in [Batches -> Record]
        /\ \A c \in Batches \ {cur} : records'[c] = records[c]
        /\ records'[cur].state = "dead_letter" /\ records'[cur].lease = NoLease
        /\ records'[cur].attempt = claim[cur].attempt + 1
    <3> DEFINE wait == records[cur].wait
    <3>1. wait \in Nat /\ "dead_letter" \in RecordStates
      BY <2>b, <2>c DEF RecordStates
    <3>2. records' = [records EXCEPT ![cur] = Unleased(records[cur], "dead_letter", claim[cur].attempt + 1, wait)]
      BY <1>17, <2>a DEF DrainDeadLetter
    <3> HIDE DEF wait
    <3> QED
      BY <1>0, <2>a, <2>b, <3>1, <3>2, UnleasedRecords
  <2>1. TypeOK'
    BY <1>17, <1>0, <2>0, <2>a, <2>b DEF IInv, TypeOK, FastPcs, DrainPcs, drainVars, historyVars, DrainDeadLetter, NoClaim
  <2>2. LeaseInv'
    BY <1>17, <1>0, <2>0, <2>a, <2>b DEF IInv, LeaseInv, Expired, TypeOK, FastPcs, DrainPcs, drainVars, historyVars, DrainDeadLetter, NoClaim
  <2>3. DrainInv'
    BY <1>17, <1>0, <2>0, <2>a, <2>b DEF IInv, DrainInv, Holds, TypeOK, FastPcs, DrainPcs, drainVars, historyVars, DrainDeadLetter, NoClaim
  <2>4. FastInv'
    BY <1>17, <1>0, <2>0, <2>a, <2>b DEF IInv, FastInv, LeaseInv, DrainInv, Holds, Expired, TypeOK, FastPcs, DrainPcs, drainVars, historyVars, DrainDeadLetter, NoClaim
  <2>5. AckInv'
    BY <1>17, <1>0, <2>0, <2>a, <2>b DEF IInv, AckInv, DrainInv, TypeOK, FastPcs, DrainPcs, drainVars, historyVars, DrainDeadLetter, NoClaim
  <2>6. OnceInv'
    BY <1>17, <1>0, <2>0, <2>a, <2>b DEF IInv, OnceInv, FastInv, DrainInv, LeaseInv, NewInv, Holds, Expired, TypeOK, FastPcs, DrainPcs, drainVars, historyVars, DrainDeadLetter, NoClaim
  <2>7. AttemptInv'
    <3>1. claim' = [claim EXCEPT ![cur] = NoClaim] /\ drainPc' # "fail" /\ failures' = failures
      BY <1>17, <2>a DEF DrainDeadLetter, historyVars
    <3>2. \A c \in Batches : claim'[c].attempt <= failures[c]
      BY <1>0, <2>a, <3>1, NoClaimFields DEF IInv, AttemptInv, TypeOK
    <3>3. failures[cur] > MaxRetries
      BY <1>0, <1>17, <2>a, <2>b DEF TypeOK, DrainDeadLetter
    <3> QED
      BY <2>0, <2>a, <2>b, <3>1, <3>2, <3>3 DEF IInv, AttemptInv, DeadLetterEarned
  <2>8. NewInv'
    BY <1>17, <1>0, <2>0, <2>a, <2>b DEF IInv, NewInv, FastInv, DrainInv, Holds, TypeOK, FastPcs, DrainPcs, drainVars, historyVars, DrainDeadLetter, NoClaim
  <2>9. NoSilentLoss'
    BY <1>17, <1>0, <2>0, <2>a, <2>b DEF IInv, NoSilentLoss, AckInv, NewInv, DrainInv, Holds, TypeOK, FastPcs, DrainPcs, drainVars, historyVars, DrainDeadLetter, NoClaim
  <2> QED
    BY <2>1, <2>2, <2>3, <2>4, <2>5, <2>6, <2>7, <2>8, <2>9 DEF IInv
<1>18. ASSUME DrainDropped PROVE IInv'
  BY <1>18 DEF IInv, TypeOK, LeaseInv, DrainInv, FastInv, AckInv, OnceInv, AttemptInv, NewInv, NoSilentLoss, DeadLetterEarned, Holds, Expired, Record, RecordStates, FastPcs, DrainPcs, drainVars, historyVars, DrainDropped, NextBatch, NoClaim
<1>19. ASSUME Tick PROVE IInv'
  <2>0. /\ records' \in [Batches -> Record]
        /\ \A c \in Batches : /\ records'[c].state = records[c].state
                             /\ records'[c].lease = records[c].lease
                             /\ records'[c].attempt = records[c].attempt
    <3>1. \A c \in Batches :
            /\ records[c] \in Record
            /\ records'[c] = [records[c] EXCEPT !.wait = Less(@), !.left = Less(@)]
      <4>1. \A c \in Batches : records[c] \in Record
        BY <1>0 DEF TypeOK
      <4>2. records' = [c \in Batches |-> [records[c] EXCEPT !.wait = Less(@), !.left = Less(@)]]
        BY <1>19 DEF Tick
      <4> QED
        BY <4>1, <4>2
    <3>2. \A c \in Batches : /\ records'[c] \in Record
                             /\ records'[c].state = records[c].state
                             /\ records'[c].lease = records[c].lease
                             /\ records'[c].attempt = records[c].attempt
      BY <3>1, TickFields
    <3> QED
      BY <1>19, <3>2 DEF Tick
  <2>a. /\ \A c \in Batches : excused'[c] = (excused[c] \/ Expired(records'[c]))
        /\ excused' \in [Batches -> BOOLEAN]
        /\ UNCHANGED <<fast, up, scheduled, drainVars, faults, accepted, delivered, failures, dropped>>
    BY <1>19, <1>0 DEF Tick, TypeOK, Expired
  <2>1. TypeOK'
    BY <1>0, <2>0, <2>a DEF IInv, TypeOK, FastPcs, DrainPcs, drainVars, historyVars, NoClaim
  <2>2. LeaseInv'
    BY <1>0, <2>0, <2>a DEF IInv, LeaseInv, Expired, TypeOK, FastPcs, DrainPcs, drainVars, historyVars, NoClaim
  <2>3. DrainInv'
    BY <1>0, <2>0, <2>a DEF IInv, DrainInv, Holds, TypeOK, FastPcs, DrainPcs, drainVars, historyVars, NoClaim
  <2>4. FastInv'
    BY <1>0, <2>0, <2>a DEF IInv, FastInv, LeaseInv, DrainInv, Holds, Expired, TypeOK, FastPcs, DrainPcs, drainVars, historyVars, NoClaim
  <2>5. AckInv'
    BY <1>0, <2>0, <2>a DEF IInv, AckInv, DrainInv, TypeOK, FastPcs, DrainPcs, drainVars, historyVars, NoClaim
  <2>6. OnceInv'
    BY <1>0, <2>0, <2>a DEF IInv, OnceInv, FastInv, DrainInv, LeaseInv, NewInv, Holds, Expired, TypeOK, FastPcs, DrainPcs, drainVars, historyVars, NoClaim
  <2>7. AttemptInv'
    BY <1>0, <2>0, <2>a DEF IInv, AttemptInv, DrainInv, LeaseInv, DeadLetterEarned, TypeOK, FastPcs, DrainPcs, drainVars, historyVars
  <2>8. NewInv'
    BY <1>0, <2>0, <2>a DEF IInv, NewInv, FastInv, DrainInv, Holds, TypeOK, FastPcs, DrainPcs, drainVars, historyVars, NoClaim
  <2>9. NoSilentLoss'
    BY <1>0, <2>0, <2>a DEF IInv, NoSilentLoss, AckInv, NewInv, DrainInv, Holds, TypeOK, FastPcs, DrainPcs, drainVars, historyVars, NoClaim
  <2> QED
    BY <2>1, <2>2, <2>3, <2>4, <2>5, <2>6, <2>7, <2>8, <2>9 DEF IInv
<1>20. ASSUME Crash PROVE IInv'
  <2>1. TypeOK'
    <3>1. NoFast \in [pc : FastPcs, lease : Leases \cup {NoLease}]
      BY DEF NoFast, FastPcs
    <3>2. NoClaim \in [lease : Leases \cup {NoLease}, attempt : Nat]
      BY DEF NoClaim
    <3>3. fast' \in [Batches -> [pc : FastPcs, lease : Leases \cup {NoLease}]]
      BY <1>20, <3>1 DEF Crash
    <3>4. claim' \in [Batches -> [lease : Leases \cup {NoLease}, attempt : Nat]]
      BY <1>20, <3>2 DEF Crash
    <3> QED
      <4>1. UNCHANGED <<records, accepted, delivered, failures, excused, dropped>>
        BY <1>20 DEF Crash, historyVars
      <4>2. faults' \in Nat
        <5>1. faults' = faults + 1
          BY <1>20 DEF Crash
        <5> QED
          BY <1>0, <5>1 DEF TypeOK
      <4>4. up' \in BOOLEAN /\ scheduled' \in BOOLEAN /\ force' \in BOOLEAN
        BY <1>20 DEF Crash
      <4>3. drainPc' \in DrainPcs /\ cur' \in Batches \cup {NoBatch}
        BY <1>20 DEF Crash, DrainPcs
      <4> QED
        BY <1>0, <3>3, <3>4, <4>1, <4>2, <4>3, <4>4 DEF TypeOK
  <2>2. NoFast.pc = "idle"
    BY DEF NoFast
  <2>3. LeaseInv' /\ DrainInv' /\ FastInv' /\ AckInv' /\ OnceInv' /\ NewInv' /\ NoSilentLoss'
    BY <1>20, <2>2, NoClaimFields DEF IInv, LeaseInv, DrainInv, FastInv, AckInv, OnceInv, NewInv, NoSilentLoss,
       Holds, Expired, Crash, historyVars
  <2>4. AttemptInv'
    BY <1>0, <1>20, NoClaimFields DEF IInv, AttemptInv, DeadLetterEarned, TypeOK, Crash, historyVars
  <2> QED
    BY <2>1, <2>3, <2>4 DEF IInv
<1>21. ASSUME Restart PROVE IInv'
  BY <1>21 DEF IInv, TypeOK, LeaseInv, DrainInv, FastInv, AckInv, OnceInv, AttemptInv, NewInv, NoSilentLoss, DeadLetterEarned, Holds, Expired, Record, RecordStates, FastPcs, DrainPcs, drainVars, historyVars, Restart
<1>22. ASSUME UNCHANGED vars PROVE IInv'
  BY <1>22 DEF IInv, TypeOK, LeaseInv, DrainInv, FastInv, AckInv, OnceInv, AttemptInv, NewInv, NoSilentLoss, DeadLetterEarned, Holds, Expired, Record, RecordStates, FastPcs, DrainPcs, drainVars, historyVars, vars
<1>23. ASSUME DrainThrows PROVE IInv'
  BY <1>23 DEF IInv, TypeOK, LeaseInv, DrainInv, FastInv, AckInv, OnceInv, AttemptInv, NewInv, NoSilentLoss, DeadLetterEarned, Holds, Expired, Record, RecordStates, FastPcs, DrainPcs, drainVars, historyVars, DrainThrows, StopDraining, NoClaim
<1> QED
  BY <1>1, <1>2, <1>3, <1>4, <1>5, <1>6, <1>7, <1>8, <1>9, <1>10, <1>11, <1>12, <1>13, <1>14, <1>15, <1>16, <1>17, <1>18, <1>19, <1>20, <1>21, <1>22, <1>23, <1>24 DEF Next, FastStep, DrainStep, DrainBegin
-----------------------------------------------------------------------------
\* Every reachable state satisfies the inductive invariant.
THEOREM Invariance == Spec => []IInv
BY InitInv, NextInv, PTL DEF Spec

\* The variables keep their types, for any number of batches and tokens.
THEOREM TypeCorrect == Spec => []TypeOK
BY Invariance, PTL DEF IInv

\* No accepted batch loses its file before a sink run of it succeeded.
THEOREM NothingLost == Spec => []NoSilentLoss
BY Invariance, PTL DEF IInv

\* A second delivery needs a lease that ran out or a failed acknowledgement:
\* by OnceInv, without one nobody is left who would run the sink again.
THEOREM NoNeedlessDuplicate == Spec => []DuplicateOnlyAfterFault
<1>1. IInv => DuplicateOnlyAfterFault
  BY DEF IInv, OnceInv, DuplicateOnlyAfterFault, TypeOK
<1> QED
  BY <1>1, Invariance, PTL

\* reschedule and deadLetter never throw a lease mismatch at the drain.
THEOREM DrainNeverOvertaken == Spec => []DrainOwnsClaims
<1>1. IInv => DrainOwnsClaims
  BY DEF IInv, DrainInv, DrainOwnsClaims
<1> QED
  BY <1>1, Invariance, PTL

\* A fast path sees its release refused only after its lease ran out.
THEOREM RefusalExplained == Spec => []ThrowOnlyWhenOvertaken
<1>1. IInv => ThrowOnlyWhenOvertaken
  BY DEF IInv, FastInv, ThrowOnlyWhenOvertaken
<1> QED
  BY <1>1, Invariance, PTL

\* A dead letter has seen more than maxRetries failures.
THEOREM DeadLettersEarned == Spec => []DeadLetterEarned
<1>1. IInv => DeadLetterEarned
  BY DEF IInv, AttemptInv
<1> QED
  BY <1>1, Invariance, PTL

-----------------------------------------------------------------------------
(* Dead letters are final.                                                 *)

\* DeadLetterFinal is not inductive alone: what is about to be reported is a
\* dead letter already.
FinalInv ==
  /\ DeadLetterFinal
  /\ drainPc = "drop" => records[cur].state = "dead_letter"

\* The step neither makes nor unmakes a dead letter.
SameDead ==
  \A b \in Batches : records'[b].state = "dead_letter" <=> records[b].state = "dead_letter"

\* A step that leaves the drain, the faults and the reports as they are, too.
LEMMA FinalKept ==
  ASSUME IInv, FinalInv, SameDead, UNCHANGED <<drainPc, cur, faults, dropped>>
  PROVE  FinalInv'
BY DEF IInv, DrainInv, FinalInv, SameDead, DeadLetterFinal

\* Leaving any stage but "drop" for any stage but "drop" changes nothing either.
LEMMA FinalMoved ==
  ASSUME IInv, FinalInv, SameDead, drainPc # "drop", drainPc' # "drop", UNCHANGED <<faults, dropped>>
  PROVE  FinalInv'
BY DEF IInv, FinalInv, SameDead, DeadLetterFinal

\* After a fault only what was reported counts.
LEMMA FinalFaulted ==
  ASSUME IInv, FinalInv, SameDead, drainPc' # "drop", faults' = faults + 1, UNCHANGED dropped
  PROVE  FinalInv'
<1>1. faults' # 0
  BY DEF IInv, TypeOK
<1> QED
  BY <1>1 DEF FinalInv, SameDead, DeadLetterFinal

\* Whoever holds a lease does not hold a dead letter.
LEMMA HeldAlive ==
  ASSUME IInv, NEW b \in Batches, NEW lease, lease # NoLease, Holds(b, lease)
  PROVE  records[b].state = "inflight"
BY DEF IInv, LeaseInv, Holds

LEMMA NextFinal ==
  ASSUME IInv, FinalInv, [Next]_vars
  PROVE  FinalInv'
<1>0. TypeOK /\ LeaseInv /\ DrainInv /\ FastInv /\ NewInv
  BY DEF IInv
<1>1. ASSUME NEW b \in Batches, Enqueue(b) \/ \E lease \in Leases : EnqueueClaimed(b, lease)
      PROVE  FinalInv'
  <2>1. records[b].state = "absent"
    BY <1>0, <1>1 DEF NewInv, Enqueue, EnqueueClaimed
  <2>2. PICK r : records' = [records EXCEPT ![b] = r] /\ r.state \in {"pending", "inflight"}
    <3>1. [Absent EXCEPT !.state = "pending"].state = "pending"
      BY DEF Absent
    <3>2. \A lease \in Leases : Claimed(Absent, lease).state = "inflight"
      BY AbsentFields, ClaimedFields
    <3> QED
      BY <1>1, <3>1, <3>2 DEF Enqueue, EnqueueClaimed
  <2>3. SameDead
    BY <1>0, <2>1, <2>2 DEF SameDead, TypeOK
  <2> QED
    BY <1>1, <2>3, FinalKept DEF Enqueue, EnqueueClaimed, drainVars
<1>2. ASSUME NEW b \in Batches, FastSinkOk(b) \/ FastSinkFail(b)
      PROVE  FinalInv'
  BY <1>2, FinalKept DEF SameDead, FastSinkOk, FastSinkFail, drainVars, historyVars
<1>3. ASSUME NEW b \in Batches, FastAck(b)
      PROVE  FinalInv'
  <2>1. Holds(b, fast[b].lease) => records[b].state = "inflight"
    BY <1>0, <1>3, HeldAlive DEF FastInv, FastAck
  <2>2. SameDead
    BY <1>0, <1>3, <2>1 DEF SameDead, TypeOK, FastAck, AckedRecords, Absent
  <2> QED
    BY <1>3, <2>2, FinalKept DEF FastAck, drainVars, historyVars
<1>4. ASSUME NEW b \in Batches, FastAckFault(b) \/ FastReleaseFault(b)
      PROVE  FinalInv'
  <2>1. SameDead /\ faults' = faults + 1 /\ UNCHANGED <<records, drainPc, cur, dropped>>
    BY <1>4 DEF SameDead, FastAckFault, FastReleaseFault, drainVars, historyVars
  <2>2. faults' # 0
    BY <1>0, <2>1 DEF TypeOK
  <2> QED
    BY <2>1, <2>2 DEF FinalInv, DeadLetterFinal
<1>5. ASSUME NEW b \in Batches, FastRelease(b)
      PROVE  FinalInv'
  <2>1. Holds(b, fast[b].lease) => records[b].state = "inflight"
    BY <1>0, <1>5, HeldAlive DEF FastInv, FastRelease
  <2>2. SameDead
    BY <1>0, <1>5, <2>1 DEF SameDead, TypeOK, Record, FastRelease, ReleasedRecords, Unleased
  <2> QED
    BY <1>5, <2>2, FinalKept DEF FastRelease, drainVars, historyVars
<1>6. ASSUME TimerFires \/ Flush \/ DrainEmpty \/ DrainSinkOk \/ DrainSinkFail
      PROVE  FinalInv'
  <2>1. SameDead /\ UNCHANGED <<faults, dropped>>
    BY <1>6 DEF SameDead, TimerFires, Flush, DrainEmpty, DrainSinkOk, DrainSinkFail, historyVars
  <2>2. \/ UNCHANGED <<drainPc, cur>>
        \/ drainPc # "drop" /\ drainPc' # "drop"
    BY <1>6 DEF TimerFires, Flush, DrainEmpty, DrainSinkOk, DrainSinkFail, StopDraining
  <2> QED
    BY <2>1, <2>2, FinalKept, FinalMoved
<1>7. ASSUME NEW taken \in SUBSET Batches, NEW first \in taken, NEW leaseOf \in [taken -> Leases],
             DrainClaim(taken, first, leaseOf)
      PROVE  FinalInv'
  <2>1. \A b \in taken : records[b].state # "dead_letter"
    BY <1>7 DEF DrainClaim, Due, Expired
  <2>2. \A b \in Batches : IF b \in taken THEN records'[b].state = "inflight"
                                          ELSE records'[b] = records[b]
    BY <1>0, <1>7 DEF DrainClaim, Claim, Claimed, TypeOK, Record
  <2>3. SameDead
    BY <2>1, <2>2 DEF SameDead
  <2> QED
    BY <1>7, <2>3, FinalMoved DEF DrainClaim, historyVars
<1>8. ASSUME DrainAck
      PROVE  FinalInv'
  <2>1. cur \in Batches /\ records[cur].state = "inflight"
    BY <1>0, <1>8, HeldAlive DEF DrainInv, DrainAck
  <2>2. SameDead
    BY <1>0, <1>8, <2>1 DEF SameDead, TypeOK, DrainAck, AckedRecords, Absent
  <2> QED
    BY <1>8, <2>2, FinalMoved DEF DrainAck, NextBatch, historyVars
<1>9. ASSUME DrainAckFault \/ DrainThrows \/ Crash
      PROVE  FinalInv'
  <2>1. SameDead /\ drainPc' # "drop" /\ faults' = faults + 1 /\ UNCHANGED dropped
    BY <1>9 DEF SameDead, DrainAckFault, DrainThrows, StopDraining, Crash, historyVars
  <2> QED
    BY <2>1, FinalFaulted
<1>10. ASSUME DrainReschedule
       PROVE  FinalInv'
  <2>1. cur \in Batches /\ records[cur].state = "inflight" /\ Holds(cur, claim[cur].lease)
    BY <1>0, <1>10, HeldAlive DEF DrainInv, DrainReschedule
  <2>2. PICK attempt, delay :
          /\ records' = [records EXCEPT ![cur] = Unleased(@, "pending", attempt, delay)]
          /\ NextBatch
    BY <1>10, <2>1 DEF DrainReschedule
  <2>3. SameDead
    BY <1>0, <2>1, <2>2 DEF SameDead, TypeOK, Record, Unleased
  <2> QED
    BY <1>10, <2>2, <2>3, FinalMoved DEF DrainReschedule, NextBatch, historyVars
<1>11. ASSUME DrainDeadLetter
       PROVE  FinalInv'
  <2>1. cur \in Batches /\ records[cur].state = "inflight" /\ Holds(cur, claim[cur].lease)
    BY <1>0, <1>11, HeldAlive DEF DrainInv, DrainDeadLetter
  <2>2. PICK attempt :
          records' = [records EXCEPT ![cur] = Unleased(@, "dead_letter", attempt, @.wait)]
    BY <1>11, <2>1 DEF DrainDeadLetter
  <2>3. Unleased(records[cur], "dead_letter", attempt, records[cur].wait).state = "dead_letter"
    BY <1>0, <2>1 DEF TypeOK, Record, Unleased
  <2>4. /\ records'[cur].state = "dead_letter"
        /\ \A b \in Batches \ {cur} : records'[b] = records[b]
    BY <1>0, <2>1, <2>2, <2>3 DEF TypeOK
  <2>5. /\ drainPc = "fail" /\ drainPc' = "drop"
        /\ UNCHANGED <<cur, faults, dropped>>
    BY <1>11, <2>1 DEF DrainDeadLetter, historyVars
  <2> QED
    BY <2>1, <2>4, <2>5 DEF FinalInv, DeadLetterFinal
<1>12. ASSUME DrainDropped
       PROVE  FinalInv'
  BY <1>0, <1>12 DEF FinalInv, DeadLetterFinal, DrainInv, DrainDropped, NextBatch
<1>13. ASSUME Tick
       PROVE  FinalInv'
  <2>1. \A b \in Batches : records[b] \in Record
    BY <1>0 DEF TypeOK
  <2>2. \A b \in Batches : records'[b] = [records[b] EXCEPT !.wait = Less(@), !.left = Less(@)]
    BY <1>13 DEF Tick
  <2>3. SameDead
    BY <2>1, <2>2, TickFields DEF SameDead
  <2> QED
    BY <1>13, <2>3, FinalKept DEF Tick, drainVars
<1>14. ASSUME Restart \/ UNCHANGED vars
       PROVE  FinalInv'
  BY <1>14, FinalKept DEF SameDead, Restart, vars, drainVars, historyVars
<1> QED
  BY <1>1, <1>2, <1>3, <1>4, <1>5, <1>6, <1>7, <1>8, <1>9, <1>10, <1>11, <1>12, <1>13, <1>14
  DEF Next, FastStep, DrainStep, DrainBegin

\* A batch once reported as given up is never taken up again, and without a
\* fault every batch that is given up is reported.
THEOREM DeadLettersFinal == Spec => []DeadLetterFinal
<1>1. Init => FinalInv
  BY DEF Init, FinalInv, DeadLetterFinal, Absent
<1>2. FinalInv => DeadLetterFinal
  BY DEF FinalInv
<1> QED
  BY <1>1, <1>2, Invariance, NextFinal, PTL DEF Spec

-----------------------------------------------------------------------------
(* Refinement: the outbox implements AtLeastOnce.                          *)

statusBar == [b \in Batches |-> Status(b)]

\* The status of a batch depends on three facts about it.
SameFacts(b) ==
  /\ accepted'[b] = accepted[b]
  /\ (delivered'[b] > 0) = (delivered[b] > 0)
  /\ delivered[b] > 0 \/ records'[b].state = records[b].state
     \/ {records'[b].state, records[b].state} \subseteq {"pending", "inflight"}

LEMMA SameStatus ==
  ASSUME NEW b \in Batches, SameFacts(b)
  PROVE  Status(b)' = Status(b)
BY DEF SameFacts, Status

LEMMA StatusStutter ==
  ASSUME \A b \in Batches : SameFacts(b)
  PROVE  UNCHANGED statusBar
BY SameStatus DEF statusBar

LEMMA StatusChange ==
  ASSUME NEW b \in Batches, \A c \in Batches \ {b} : SameFacts(c), NEW s, Status(b)' = s
  PROVE  statusBar' = [statusBar EXCEPT ![b] = s]
BY SameStatus DEF statusBar

\* The batches that a fast path or the drain is working on are in the outbox.
LEMMA Working ==
  ASSUME IInv, NEW b \in Batches
  PROVE  /\ fast[b].pc # "idle" => accepted[b] = TRUE
         /\ claim[b] # NoClaim => /\ accepted[b] = TRUE
                                 /\ records[b].state = "inflight"
         /\ delivered[b] \in Nat
<1>1. /\ fast[b].pc # "idle" => accepted[b] = TRUE
      /\ records[b].state # "absent" => accepted[b] = TRUE
      /\ delivered[b] \in Nat
  BY DEF IInv, NewInv, TypeOK
<1>2. claim[b] # NoClaim => records[b].state = "inflight"
  BY DEF IInv, DrainInv, LeaseInv, Holds
<1> QED
  BY <1>1, <1>2

LEMMA RefinesInit == Init => Delivery!Init
BY DEF Init, Delivery!Init, Status, Absent

\* Every step accepts, delivers or gives up one batch, or leaves all statuses.
LEMMA RefinesNext == IInv /\ [Next]_vars => [Delivery!Next]_statusBar
<1> SUFFICES ASSUME IInv, [Next]_vars
             PROVE  \/ UNCHANGED statusBar
                    \/ Delivery!Next
  BY DEF statusBar
<1>0. \A b \in Batches : statusBar[b] = Status(b)
  BY DEF statusBar
<1>1. ASSUME NEW b \in Batches, Enqueue(b) \/ \E lease \in Leases : EnqueueClaimed(b, lease)
      PROVE  Delivery!Next
  <2>1. Status(b) = "new" /\ Status(b)' = "owed"
    <3>1. ~accepted[b] /\ delivered[b] = 0
      BY <1>1 DEF IInv, NewInv, Enqueue, EnqueueClaimed
    <3>2. /\ records'[b].state \in {"pending", "inflight"}
          /\ accepted'[b] = TRUE /\ delivered'[b] = delivered[b]
      <4>1. CASE Enqueue(b)
        BY <4>1 DEF IInv, TypeOK, Enqueue, Absent
      <4>2. ASSUME NEW lease \in Leases, EnqueueClaimed(b, lease)
            PROVE  /\ records'[b].state = "inflight"
                   /\ accepted'[b] = TRUE /\ delivered'[b] = delivered[b]
        BY <4>2, AbsentFields, ClaimedFields DEF IInv, TypeOK, EnqueueClaimed
      <4> QED
        BY <1>1, <4>1, <4>2
    <3> QED
      BY <3>1, <3>2 DEF Status
  <2>2. \A c \in Batches \ {b} : SameFacts(c)
    BY <1>1 DEF IInv, TypeOK, Enqueue, EnqueueClaimed, SameFacts
  <2>3. statusBar' = [statusBar EXCEPT ![b] = "owed"]
    BY <2>1, <2>2, StatusChange
  <2> QED
    BY <1>0, <2>1, <2>3 DEF Delivery!Next, Delivery!Accept, statusBar
<1>2. ASSUME NEW b \in Batches, accepted[b] = TRUE,
             delivered' = [delivered EXCEPT ![b] = @ + 1], UNCHANGED <<records, accepted>>
      PROVE  UNCHANGED statusBar \/ Delivery!Next
  <2>0. delivered[b] \in Nat /\ delivered'[b] = delivered[b] + 1
        /\ \A c \in Batches \ {b} : SameFacts(c)
    BY <1>2 DEF IInv, TypeOK, SameFacts
  <2>1. CASE delivered[b] > 0
    BY <1>2, <2>0, <2>1, StatusStutter DEF SameFacts
  <2>2. CASE delivered[b] = 0
    <3>1. Status(b) \in {"owed", "abandoned"}
      BY <1>2, <2>2 DEF IInv, NoSilentLoss, Status
    <3>2. Status(b)' = "delivered"
      BY <2>0, <2>2 DEF Status
    <3>3. statusBar' = [statusBar EXCEPT ![b] = "delivered"]
      BY <2>0, <3>2, StatusChange
    <3> QED
      BY <1>0, <3>1, <3>3 DEF Delivery!Next, Delivery!Deliver, statusBar
  <2> QED
    BY <2>0, <2>1, <2>2
<1>3. ASSUME NEW b \in Batches, FastSinkOk(b) PROVE UNCHANGED statusBar \/ Delivery!Next
  BY <1>2, <1>3, Working DEF FastSinkOk
<1>4. ASSUME DrainSinkOk PROVE UNCHANGED statusBar \/ Delivery!Next
  <2>1. cur \in Batches /\ accepted[cur] = TRUE
    BY <1>4, Working DEF IInv, DrainInv, DrainSinkOk
  <2> QED
    BY <1>2, <1>4, <2>1 DEF DrainSinkOk
<1>5. ASSUME NEW b \in Batches, FastSinkFail(b) \/ FastAckFault(b) \/ FastReleaseFault(b)
      PROVE  UNCHANGED statusBar
  BY <1>5, StatusStutter DEF FastSinkFail, FastAckFault, FastReleaseFault, historyVars, SameFacts
<1>6. ASSUME NEW b \in Batches, FastAck(b) PROVE UNCHANGED statusBar
  <2>1. delivered[b] > 0
    BY <1>6 DEF IInv, AckInv, FastAck
  <2> QED
    BY <1>6, <2>1, StatusStutter DEF IInv, TypeOK, FastAck, AckedRecords, historyVars, SameFacts
<1>7. ASSUME NEW b \in Batches, FastRelease(b) PROVE UNCHANGED statusBar
  <2>1. CASE Holds(b, fast[b].lease)
    <3>1. records[b].state = "inflight"
      BY <1>7, <2>1 DEF IInv, FastInv, LeaseInv, FastRelease, Holds
    <3>2. records'[b].state = "pending" /\ \A c \in Batches \ {b} : records'[c] = records[c]
      BY <1>7, <2>1 DEF IInv, TypeOK, Record, FastRelease, ReleasedRecords, Unleased
    <3> QED
      BY <1>7, <3>1, <3>2, StatusStutter DEF FastRelease, historyVars, SameFacts
  <2>2. CASE ~Holds(b, fast[b].lease)
    BY <1>7, <2>2, StatusStutter DEF FastRelease, ReleasedRecords, historyVars, SameFacts
  <2> QED
    BY <2>1, <2>2
<1>8. ASSUME TimerFires \/ Flush \/ DrainEmpty \/ DrainSinkFail \/ DrainAckFault \/ DrainDropped \/ DrainThrows \/ Crash \/ Restart
      PROVE  UNCHANGED statusBar
  BY <1>8, StatusStutter DEF TimerFires, Flush, DrainEmpty, DrainSinkFail, DrainAckFault, DrainDropped, DrainThrows, StopDraining,
     Crash, Restart, historyVars, SameFacts
<1>9. ASSUME NEW taken \in SUBSET Batches, NEW first \in taken, NEW leaseOf \in [taken -> Leases],
             DrainClaim(taken, first, leaseOf)
      PROVE  UNCHANGED statusBar
  <2>1. \A c \in taken : records[c].state \in {"pending", "inflight"}
    BY <1>9 DEF DrainClaim, Due, Expired
  <2>2. \A c \in taken : records'[c].state = "inflight"
    BY <1>9 DEF IInv, TypeOK, Record, DrainClaim, Claim, Claimed
  <2>3. \A c \in Batches \ taken : records'[c] = records[c]
    BY <1>9 DEF DrainClaim, Claim
  <2>4. UNCHANGED <<accepted, delivered>>
    BY <1>9 DEF DrainClaim, historyVars
  <2> QED
    BY <2>1, <2>2, <2>3, <2>4, StatusStutter DEF SameFacts
<1>10. ASSUME DrainAck PROVE UNCHANGED statusBar
  <2>1. delivered[cur] > 0 /\ \A c \in Batches \ {cur} : records'[c] = records[c]
    BY <1>10 DEF IInv, TypeOK, AckInv, DrainAck, AckedRecords
  <2>2. UNCHANGED <<accepted, delivered>>
    BY <1>10 DEF DrainAck, historyVars
  <2> QED
    BY <2>1, <2>2, StatusStutter DEF SameFacts
<1>11. ASSUME DrainReschedule PROVE UNCHANGED statusBar
  <2>1. cur \in Batches /\ Holds(cur, claim[cur].lease) /\ records[cur].state = "inflight"
    BY <1>11, Working DEF IInv, DrainInv, DrainReschedule
  <2>2. records'[cur].state = "pending" /\ \A c \in Batches \ {cur} : records'[c] = records[c]
    <3>1. PICK attempt, delay : records' = [records EXCEPT ![cur] = Unleased(@, "pending", attempt, delay)]
      BY <1>11, <2>1 DEF DrainReschedule
    <3>2. records[cur] \in Record /\ records \in [Batches -> Record]
      BY <2>1 DEF IInv, TypeOK
    <3>3. Unleased(records[cur], "pending", attempt, delay).state = "pending"
      BY <3>2 DEF Record, Unleased
    <3> QED
      BY <2>1, <3>1, <3>2, <3>3
  <2>3. UNCHANGED <<accepted, delivered>>
    BY <1>11 DEF DrainReschedule, historyVars
  <2> QED
    BY <2>1, <2>2, <2>3, StatusStutter DEF SameFacts
<1>12. ASSUME DrainDeadLetter PROVE UNCHANGED statusBar \/ Delivery!Next
  <2>1. PICK b \in Batches : b = cur /\ claim[b] # NoClaim
    BY <1>12 DEF IInv, DrainInv, DrainDeadLetter
  <2>2. Holds(b, claim[b].lease) /\ records[b].state = "inflight" /\ accepted[b] = TRUE
    BY <2>1, Working DEF IInv, DrainInv
  <2>3. records'[b].state = "dead_letter" /\ \A c \in Batches \ {b} : records'[c] = records[c]
    <3>1. PICK attempt, wait : records' = [records EXCEPT ![b] = Unleased(@, "dead_letter", attempt, wait)]
      BY <1>12, <2>1, <2>2 DEF DrainDeadLetter
    <3>2. records[b] \in Record /\ records \in [Batches -> Record]
      BY DEF IInv, TypeOK
    <3>3. Unleased(records[b], "dead_letter", attempt, wait).state = "dead_letter"
      BY <3>2 DEF Record, Unleased
    <3> QED
      BY <3>1, <3>2, <3>3
  <2>4. UNCHANGED <<accepted, delivered>>
    BY <1>12 DEF DrainDeadLetter, historyVars
  <2>5. CASE delivered[b] > 0
    BY <2>3, <2>4, <2>5, StatusStutter DEF SameFacts
  <2>6. CASE ~(delivered[b] > 0)
    <3>1. Status(b) = "owed" /\ Status(b)' = "abandoned"
      BY <2>2, <2>3, <2>4, <2>6 DEF Status
    <3>2. statusBar' = [statusBar EXCEPT ![b] = "abandoned"]
      BY <2>3, <2>4, <3>1, StatusChange DEF SameFacts
    <3> QED
      BY <1>0, <3>1, <3>2 DEF Delivery!Next, Delivery!Abandon, statusBar
  <2> QED
    BY <2>5, <2>6
<1>13. ASSUME Tick PROVE UNCHANGED statusBar
  <2>1. \A c \in Batches : records'[c].state = records[c].state
    BY <1>13 DEF IInv, TypeOK, Record, Tick
  <2> QED
    BY <1>13, <2>1, StatusStutter DEF Tick, SameFacts
<1>14. ASSUME UNCHANGED vars PROVE UNCHANGED statusBar
  BY <1>14, StatusStutter DEF vars, historyVars, SameFacts
<1> QED
  BY <1>1, <1>3, <1>4, <1>5, <1>6, <1>7, <1>8, <1>9, <1>10, <1>11, <1>12, <1>13, <1>14
  DEF Next, FastStep, DrainStep, DrainBegin

\* The outbox implements AtLeastOnce: whatever happens to processes, leases and
\* retries, an accepted batch is owed until it is delivered or openly given up.
THEOREM Refinement == Spec => ImplementsAtLeastOnce
<1>1. Spec => Delivery!Init /\ [][Delivery!Next]_statusBar
  BY RefinesInit, RefinesNext, Invariance, PTL DEF Spec
<1> QED
  BY <1>1, PTL DEF ImplementsAtLeastOnce, Delivery!Spec, statusBar
=============================================================================
