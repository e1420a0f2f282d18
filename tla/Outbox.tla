------------------------------- MODULE Outbox -------------------------------
(***************************************************************************)
(* One durable outbox of the coordination engine: the batch files of       *)
(* FileBatchOutbox, the background drain of OutboxBatchShipper and the     *)
(* fast path of the engine (startFlowViaOutbox, dispatchViaOutbox,         *)
(* startRoleOutcomeViaOutbox), which writes a batch already leased to      *)
(* itself, runs the sink at once and then acknowledges or releases it.     *)
(*                                                                         *)
(* Every FileBatchOutbox operation runs under one mutex and ends in one    *)
(* atomic file write or unlink, so it is one action.  The sink is an       *)
(* interval: it starts in one step and succeeds or throws in a later one.  *)
(*                                                                         *)
(* A deadline is kept as the time that is left until it.  The sort of the  *)
(* due batches is abstracted: the drain takes any of them, in any order.   *)
(***************************************************************************)
EXTENDS Integers, FiniteSets

CONSTANTS
  Batches,           \* the batches ever enqueued
  Leases,            \* the lease tokens `lease:<now>:<random>`
  NoBatch, NoLease,  \* absent values
  LeaseDuration,     \* leaseDurationMs
  MaxRetries,        \* maxRetries
  RetryDelay,        \* retryDelayMs
  Backoff,           \* backoffMultiplier
  MaxRetryDelay,     \* maxRetryDelayMs
  ClaimLimit,        \* how many due batches one claim takes
  MaxFaults          \* bound on the crashes and failed reads, writes and hooks

ASSUME OutboxAssumption ==
  /\ NoBatch \notin Batches
  /\ NoLease \notin Leases
  /\ LeaseDuration \in Nat \ {0}
  /\ MaxRetries \in Nat
  /\ RetryDelay \in Nat
  /\ Backoff \in Nat \ {0}
  /\ MaxRetryDelay \in Nat
  /\ RetryDelay <= MaxRetryDelay
  /\ ClaimLimit \in Nat \ {0}
  /\ MaxFaults \in Nat

VARIABLES
  records,      \* the batch files, by batch
  fast,         \* the fast path that enqueued each batch
  up,           \* the process runs
  scheduled,    \* the shipper's timer is armed
  drainPc,      \* where the drain is; "idle" when `draining` is false
  force,        \* the drain was started by flush()
  cur,          \* the batch the drain processes
  claim,        \* lease and attemptCount of the batches it has claimed
  faults        \* crashes and failed operations so far

\* History of each batch, read by no action.
VARIABLES
  accepted,     \* its enqueue was durable
  delivered,    \* sink runs that succeeded
  failures,     \* processing failures the drain has counted
  excused,      \* its lease ran out, or an acknowledgement of it failed
  dropped       \* onDroppedBatch was told of it

drainVars   == <<drainPc, force, cur, claim>>
historyVars == <<accepted, delivered, failures, excused, dropped>>
vars == <<records, fast, up, scheduled, drainVars, faults, historyVars>>

-----------------------------------------------------------------------------
RecordStates == {"absent", "pending", "inflight", "dead_letter"}
FastPcs  == {"idle", "sink", "ack", "release", "done", "threw"}
DrainPcs == {"idle", "claim", "sink", "ack", "fail", "drop"}

Record == [state : RecordStates,
           attempt : Nat,               \* attemptCount
           wait : Nat,                  \* time left until availableAt
           lease : Leases \cup {NoLease},
           left : Nat]                  \* time left until leaseExpiresAt

NoFast == [pc |-> "idle", lease |-> NoLease]
NoClaim == [lease |-> NoLease, attempt |-> 0]

Absent == [state |-> "absent", attempt |-> 0, wait |-> 0,
           lease |-> NoLease, left |-> 0]

\* Mutant of Expired: the lease deadline is not compared with the clock.
ExpiredAtOnce(r) == r.state = "inflight"

\* isExpiredInflightBatch and the filter of selectDueRecords
Expired(r) == r.state = "inflight" /\ r.left = 0
Due(b) == \/ records[b].state = "pending" /\ records[b].wait = 0
          \/ Expired(records[b])

\* The file exists and still carries this lease.
Holds(b, lease) == records[b].state # "absent" /\ records[b].lease = lease

\* A claim draws a random token: one that no file and no holder has.
Fresh(lease) ==
  /\ lease \in Leases
  /\ \A b \in Batches : lease \notin {records[b].lease, fast[b].lease, claim[b].lease}

Claimed(r, lease) ==
  [r EXCEPT !.state = "inflight", !.lease = lease, !.left = LeaseDuration]

Unleased(r, state, attempt, wait) ==
  [r EXCEPT !.state = state, !.attempt = attempt, !.wait = wait,
            !.lease = NoLease, !.left = 0]

\* nextDelayMs: exponential backoff with a ceiling
NextDelay(attempt) ==
  LET delay == RetryDelay * Backoff ^ (attempt - 1)
  IN  IF delay \in 0..MaxRetryDelay THEN delay ELSE MaxRetryDelay

-----------------------------------------------------------------------------
Init ==
  /\ records = [b \in Batches |-> Absent]
  /\ fast = [b \in Batches |-> NoFast]
  /\ up = TRUE
  /\ scheduled = TRUE
  /\ drainPc = "idle"
  /\ force = FALSE
  /\ cur = NoBatch
  /\ claim = [b \in Batches |-> NoClaim]
  /\ faults = 0
  /\ accepted = [b \in Batches |-> FALSE]
  /\ delivered = [b \in Batches |-> 0]
  /\ failures = [b \in Batches |-> 0]
  /\ excused = [b \in Batches |-> FALSE]
  /\ dropped = {}

-----------------------------------------------------------------------------
(* Enqueueing and the fast path.                                           *)

\* shipper.enqueue: a pending batch for the drain alone, and a prompt kick
Enqueue(b) ==
  /\ up /\ ~accepted[b]
  /\ records' = [records EXCEPT ![b] = [Absent EXCEPT !.state = "pending"]]
  /\ scheduled' = TRUE
  /\ accepted' = [accepted EXCEPT ![b] = TRUE]
  /\ UNCHANGED <<fast, up, drainVars, faults, delivered, failures, excused, dropped>>

\* enqueueClaimed: the file is born inflight, leased to the caller
EnqueueClaimed(b, lease) ==
  /\ up /\ ~accepted[b] /\ Fresh(lease)
  /\ records' = [records EXCEPT ![b] = Claimed(Absent, lease)]
  /\ fast' = [fast EXCEPT ![b] = [pc |-> "sink", lease |-> lease]]
  /\ accepted' = [accepted EXCEPT ![b] = TRUE]
  /\ UNCHANGED <<up, scheduled, drainVars, faults, delivered, failures, excused, dropped>>

FastSinkOk(b) ==
  /\ fast[b].pc = "sink"
  /\ fast' = [fast EXCEPT ![b].pc = "ack"]
  /\ delivered' = [delivered EXCEPT ![b] = @ + 1]
  /\ UNCHANGED <<records, up, scheduled, drainVars, faults, accepted, failures, excused, dropped>>

\* Mutant of FastSinkFail: the error is swallowed and the batch acknowledged.
FastSinkSwallowed(b) ==
  /\ fast[b].pc = "sink"
  /\ fast' = [fast EXCEPT ![b].pc = "ack"]
  /\ UNCHANGED <<records, up, scheduled, drainVars, faults, historyVars>>

FastSinkFail(b) ==
  /\ fast[b].pc = "sink"
  /\ fast' = [fast EXCEPT ![b].pc = "release"]
  /\ UNCHANGED <<records, up, scheduled, drainVars, faults, historyVars>>

\* What ack(batchId, leaseId) leaves: nothing, if the lease still matches.
AckedRecords(b, lease) ==
  IF Holds(b, lease) THEN [records EXCEPT ![b] = Absent] ELSE records

\* ackClaim; the engine ignores its boolean result
FastAck(b) ==
  /\ fast[b].pc = "ack"
  /\ records' = AckedRecords(b, fast[b].lease)
  /\ fast' = [fast EXCEPT ![b] = [pc |-> "done", lease |-> NoLease]]
  /\ UNCHANGED <<up, scheduled, drainVars, faults, historyVars>>

\* The unlink fails: the catch clause treats it as a failure of the sink.
FastAckFault(b) ==
  /\ fast[b].pc = "ack" /\ faults < MaxFaults
  /\ fast' = [fast EXCEPT ![b].pc = "release"]
  /\ faults' = faults + 1
  /\ excused' = [excused EXCEPT ![b] = TRUE]
  /\ UNCHANGED <<records, up, scheduled, drainVars, accepted, delivered, failures, dropped>>

\* Mutant of ReleasedRecords: release() does not compare the lease.
ReleasedUnfenced(b, lease) ==
  IF records[b].state # "absent"
  THEN [records EXCEPT ![b] = Unleased(@, "pending", @.attempt, 0)]
  ELSE records

\* What releaseClaim leaves; the attempt count is not raised.
ReleasedRecords(b, lease) ==
  IF Holds(b, lease)
  THEN [records EXCEPT ![b] = Unleased(@, "pending", @.attempt, 0)]
  ELSE records

\* releaseClaim kicks the drain, or throws when the lease was lost
FastRelease(b) ==
  /\ fast[b].pc = "release"
  /\ records' = ReleasedRecords(b, fast[b].lease)
  /\ IF Holds(b, fast[b].lease)
     THEN /\ fast' = [fast EXCEPT ![b] = [pc |-> "done", lease |-> NoLease]]
          /\ scheduled' = TRUE
     ELSE /\ fast' = [fast EXCEPT ![b] = [pc |-> "threw", lease |-> NoLease]]
          /\ UNCHANGED scheduled
  /\ UNCHANGED <<up, drainVars, faults, historyVars>>

\* The write of releaseClaim fails: the file stays leased until the lease runs
\* out, and nobody kicks the drain.  (Only a refusal is called "threw".)
FastReleaseFault(b) ==
  /\ fast[b].pc = "release" /\ Holds(b, fast[b].lease)
  /\ faults < MaxFaults
  /\ fast' = [fast EXCEPT ![b] = [pc |-> "done", lease |-> NoLease]]
  /\ faults' = faults + 1
  /\ UNCHANGED <<records, up, scheduled, drainVars, historyVars>>

-----------------------------------------------------------------------------
(* The drain.                                                              *)

\* The timer fires; drain() returns at once when another one is draining.
TimerFires ==
  /\ up /\ scheduled
  /\ scheduled' = FALSE
  /\ IF drainPc = "idle"
     THEN drainPc' = "claim" /\ force' = FALSE
     ELSE UNCHANGED <<drainPc, force>>
  /\ UNCHANGED <<records, fast, up, cur, claim, faults, historyVars>>

Flush ==
  /\ up /\ drainPc = "idle"
  /\ drainPc' = "claim"
  /\ force' = TRUE
  /\ UNCHANGED <<records, fast, up, scheduled, cur, claim, faults, historyVars>>

\* Mutant of StopDraining: the finally clause forgets the kick.
StopWithoutKick ==
  /\ drainPc' = "idle"
  /\ UNCHANGED scheduled
  /\ cur' = NoBatch
  /\ claim' = [b \in Batches |-> NoClaim]

\* The finally clause of drain(): whatever happened, look again in a while.
StopDraining ==
  /\ drainPc' = "idle"
  /\ scheduled' = TRUE
  /\ cur' = NoBatch
  /\ claim' = [b \in Batches |-> NoClaim]

\* claimDue gives every batch it takes a lease of its own.
Claim(taken, leaseOf) ==
  /\ \A b \in taken : Fresh(leaseOf[b])
  /\ \A b, c \in taken : leaseOf[b] = leaseOf[c] => b = c
  /\ records' = [b \in Batches |-> IF b \in taken THEN Claimed(records[b], leaseOf[b])
                                                  ELSE records[b]]
  /\ claim' = [b \in Batches |->
                 IF b \in taken
                 THEN [lease |-> leaseOf[b], attempt |-> records[b].attempt]
                 ELSE claim[b]]

\* claimDue returned nothing: the drain ends
DrainEmpty ==
  /\ drainPc = "claim"
  /\ {b \in Batches : Due(b)} = {}
  /\ StopDraining
  /\ UNCHANGED <<records, fast, up, force, faults, historyVars>>

\* claimDue takes up to its limit and the drain starts on the first of them
DrainClaim(taken, first, leaseOf) ==
  /\ drainPc = "claim"
  /\ taken \subseteq {b \in Batches : Due(b)}
  /\ \/ taken = {b \in Batches : Due(b)} /\ Cardinality(taken) <= ClaimLimit
     \/ Cardinality(taken) = ClaimLimit
  /\ first \in taken
  /\ Claim(taken, leaseOf)
  /\ drainPc' = "sink"
  /\ cur' = first
  /\ UNCHANGED <<fast, up, scheduled, force, faults, historyVars>>

DrainSinkOk ==
  /\ drainPc = "sink"
  /\ drainPc' = "ack"
  /\ delivered' = [delivered EXCEPT ![cur] = @ + 1]
  /\ UNCHANGED <<records, fast, up, scheduled, force, cur, claim, faults,
                 accepted, failures, excused, dropped>>

\* Mutant of DrainSinkFail: the error is swallowed and the batch acknowledged.
DrainSinkSwallowed ==
  /\ drainPc = "sink"
  /\ drainPc' = "ack"
  /\ UNCHANGED <<records, fast, up, scheduled, force, cur, claim, faults, historyVars>>

DrainSinkFail ==
  /\ drainPc = "sink"
  /\ drainPc' = "fail"
  /\ failures' = [failures EXCEPT ![cur] = @ + 1]
  /\ UNCHANGED <<records, fast, up, scheduled, force, cur, claim, faults,
                 accepted, delivered, excused, dropped>>

\* The loop goes on with the next claimed batch, or claims again.
NextBatch ==
  LET todo == {b \in Batches : claim[b] # NoClaim} \ {cur}
  IN  /\ claim' = [claim EXCEPT ![cur] = NoClaim]
      /\ IF todo = {}
         THEN drainPc' = "claim" /\ cur' = NoBatch
         ELSE drainPc' = "sink" /\ cur' \in todo

DrainAck ==
  /\ drainPc = "ack"
  /\ records' = AckedRecords(cur, claim[cur].lease)
  /\ NextBatch
  /\ UNCHANGED <<fast, up, scheduled, force, faults, historyVars>>

DrainAckFault ==
  /\ drainPc = "ack" /\ faults < MaxFaults
  /\ drainPc' = "fail"
  /\ faults' = faults + 1
  /\ excused' = [excused EXCEPT ![cur] = TRUE]
  /\ failures' = [failures EXCEPT ![cur] = @ + 1]
  /\ UNCHANGED <<records, fast, up, scheduled, force, cur, claim, accepted, delivered, dropped>>

\* reschedule; a lost lease makes it throw, which ends the whole drain
DrainReschedule ==
  LET attempt == claim[cur].attempt + 1
      delay == IF force THEN 0 ELSE NextDelay(attempt)
  IN  /\ drainPc = "fail" /\ attempt <= MaxRetries
      /\ IF Holds(cur, claim[cur].lease)
         THEN /\ records' = [records EXCEPT ![cur] = Unleased(@, "pending", attempt, delay)]
              /\ NextBatch
              /\ UNCHANGED scheduled
         ELSE StopDraining /\ UNCHANGED records
      /\ UNCHANGED <<fast, up, force, faults, historyVars>>

\* Mutant of DrainDeadLetter: >= where the code has >.
DrainDeadLetterEarly ==
  LET attempt == claim[cur].attempt + 1
  IN  /\ drainPc = "fail" /\ attempt >= MaxRetries
      /\ records' = [records EXCEPT ![cur] = Unleased(@, "dead_letter", attempt, @.wait)]
      /\ drainPc' = "drop"
      /\ claim' = [claim EXCEPT ![cur] = NoClaim]
      /\ UNCHANGED <<fast, up, scheduled, force, cur, faults, historyVars>>

\* deadLetter, when the retries are used up; onDroppedBatch comes after it
DrainDeadLetter ==
  LET attempt == claim[cur].attempt + 1
  IN  /\ drainPc = "fail" /\ attempt > MaxRetries
      /\ IF Holds(cur, claim[cur].lease)
         THEN /\ records' = [records EXCEPT ![cur] =
                               Unleased(@, "dead_letter", attempt, @.wait)]
              /\ drainPc' = "drop"
              /\ claim' = [claim EXCEPT ![cur] = NoClaim]
              /\ UNCHANGED <<scheduled, cur>>
         ELSE StopDraining /\ UNCHANGED records
      /\ UNCHANGED <<fast, up, force, faults, historyVars>>

DrainDropped ==
  /\ drainPc = "drop"
  /\ dropped' = dropped \cup {cur}
  /\ NextBatch
  /\ UNCHANGED <<records, fast, up, scheduled, force, faults,
                 accepted, delivered, failures, excused>>

\* claimDue, reschedule, deadLetter or the onDroppedBatch hook throws: the
\* drain ends, its claims wait for their leases, nobody repeats the hook.
DrainThrows ==
  /\ drainPc \in {"claim", "fail", "drop"} /\ faults < MaxFaults
  /\ StopDraining
  /\ faults' = faults + 1
  /\ UNCHANGED <<records, fast, up, force, historyVars>>

-----------------------------------------------------------------------------
(* The environment: time, crashes and restarts.                            *)

\* Mutant of Less: a deadline is met at one instant only (=== for <=).
LessUnclamped(n) == n - 1

\* A deadline once passed stays passed: `availableAt <= now`.
Less(n) == IF n > 0 THEN n - 1 ELSE 0

Tick ==
  /\ \E b \in Batches : records[b].wait + records[b].left > 0
  /\ records' = [b \in Batches |-> [records[b] EXCEPT !.wait = Less(@), !.left = Less(@)]]
  /\ excused' = [b \in Batches |-> excused[b] \/ Expired(records'[b])]
  /\ UNCHANGED <<fast, up, scheduled, drainVars, faults, accepted, delivered, failures, dropped>>

\* The files survive; the timer, the drain and the fast paths do not.
Crash ==
  /\ up /\ faults < MaxFaults
  /\ up' = FALSE
  /\ faults' = faults + 1
  /\ fast' = [b \in Batches |-> NoFast]
  /\ scheduled' = FALSE
  /\ drainPc' = "idle"
  /\ force' = FALSE
  /\ cur' = NoBatch
  /\ claim' = [b \in Batches |-> NoClaim]
  /\ UNCHANGED <<records, historyVars>>

\* The engine's constructor calls start().
Restart ==
  /\ ~up
  /\ up' = TRUE
  /\ scheduled' = TRUE
  /\ UNCHANGED <<records, fast, drainVars, faults, historyVars>>

-----------------------------------------------------------------------------
FastStep(b) ==
  \/ Enqueue(b)
  \/ \E lease \in Leases : EnqueueClaimed(b, lease)
  \/ FastSinkOk(b) \/ FastSinkFail(b)
  \/ FastAck(b) \/ FastAckFault(b)
  \/ FastRelease(b) \/ FastReleaseFault(b)

DrainBegin ==
  \/ DrainEmpty
  \/ \E taken \in SUBSET Batches : \E first \in taken :
       \E leaseOf \in [taken -> Leases] : DrainClaim(taken, first, leaseOf)

DrainStep ==
  \/ DrainBegin
  \/ DrainSinkOk \/ DrainSinkFail
  \/ DrainAck \/ DrainAckFault
  \/ DrainReschedule \/ DrainDeadLetter \/ DrainDropped
  \/ DrainThrows

Next ==
  \/ \E b \in Batches : FastStep(b)
  \/ TimerFires \/ Flush
  \/ DrainStep
  \/ Tick \/ Crash \/ Restart

Spec == Init /\ [][Next]_vars

\* The event loop runs timers and promises, sinks end, clocks advance and
\* the process is restarted.  Nothing is assumed of the fast paths.
Fairness ==
  /\ WF_vars(TimerFires)
  /\ WF_vars(DrainStep)
  /\ WF_vars(Tick)
  /\ WF_vars(Restart)

FairSpec == Spec /\ Fairness

-----------------------------------------------------------------------------
\* Types.  A dead letter, a pending batch and an absent file are told apart by
\* state alone; attemptCount and both deadlines are never negative.
TypeOK ==
  /\ records \in [Batches -> Record]
  /\ fast \in [Batches -> [pc : FastPcs, lease : Leases \cup {NoLease}]]
  /\ up \in BOOLEAN /\ scheduled \in BOOLEAN /\ force \in BOOLEAN
  /\ drainPc \in DrainPcs
  /\ cur \in Batches \cup {NoBatch}
  /\ claim \in [Batches -> [lease : Leases \cup {NoLease}, attempt : Nat]]
  /\ faults \in Nat
  /\ accepted \in [Batches -> BOOLEAN]
  /\ delivered \in [Batches -> Nat]
  /\ failures \in [Batches -> Nat]
  /\ excused \in [Batches -> BOOLEAN]
  /\ dropped \in SUBSET Batches

\* At least once: an accepted batch whose file is gone was delivered.  Only
\* ack() unlinks a file, after a sink run of the lease holder.
NoSilentLoss ==
  \A b \in Batches : accepted[b] /\ records[b].state = "absent" => delivered[b] > 0

\* A batch is delivered twice only if a holder outlived its lease (or died
\* holding it) or an acknowledgement failed: drain and fast path never
\* process one batch side by side while its lease is running.
DuplicateOnlyAfterFault ==
  \A b \in Batches : delivered[b] > 1 => excused[b]

\* The lease check in reschedule and deadLetter never throws in the drain:
\* no late fast path can touch a batch that the drain has taken over.  A
\* throw there would abort the drain and strand its other claimed batches.
DrainOwnsClaims ==
  \A b \in Batches : claim[b] # NoClaim => Holds(b, claim[b].lease)

\* releaseClaim throws at a fast path (so the user sees an error for a batch
\* the outbox still delivers) only if its lease had run out before.
ThrowOnlyWhenOvertaken ==
  \A b \in Batches : fast[b].pc = "threw" => excused[b]

\* A batch is given up only after one failure more than maxRetries, however
\* crashes, releases and expired leases interleave with the attempts.
DeadLetterEarned ==
  \A b \in Batches :
    /\ records[b].attempt <= failures[b]
    /\ records[b].state = "dead_letter" => failures[b] > MaxRetries

\* What was reported to onDroppedBatch, which cancels the edge of a dispatch,
\* stays a dead letter, whatever a late fast path does to the batch; and
\* without a fault no dead letter goes unreported.
DeadLetterFinal ==
  \A b \in Batches :
    /\ b \in dropped => records[b].state = "dead_letter"
    /\ records[b].state = "dead_letter" /\ faults = 0 =>
         b \in dropped \/ (drainPc = "drop" /\ cur = b)

\* The outbox implements AtLeastOnce: a batch is delivered once a sink run of
\* it succeeded, and given up while its file is a dead letter before that.
Status(b) ==
  IF delivered[b] > 0 THEN "delivered"
  ELSE IF ~accepted[b] THEN "new"
  ELSE IF records[b].state = "absent" THEN "lost"
  ELSE IF records[b].state = "dead_letter" THEN "abandoned"
  ELSE "owed"

Delivery == INSTANCE AtLeastOnce
  WITH Intents <- Batches, status <- [b \in Batches |-> Status(b)]

\* Leases, drain, retries and crashes only ever move a batch from owed to
\* delivered or given up: the promise the engine's callers rely on.
ImplementsAtLeastOnce == Delivery!Spec

\* Every accepted batch is settled in the end: its file is gone or it is a
\* dead letter.  A fast path may hang for ever without preventing it.
EventuallySettled ==
  \A b \in Batches :
    accepted[b] ~> records[b].state \in {"absent", "dead_letter"}
=============================================================================
