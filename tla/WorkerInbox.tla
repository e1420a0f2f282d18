---------------------------- MODULE WorkerInbox ----------------------------
(***************************************************************************)
(* The durable inbox of detached worker results: the notification of one   *)
(* worker's result, the join that waits for it, and the two who use them.  *)
(* The mission-thread bridge mirrors the thread every two seconds and on   *)
(* request, one pass at a time: it acknowledges results that a durable     *)
(* user message carries, enqueues a late result, satisfies the joins that  *)
(* wait for it, and abandons the ones that expired.  A follow-up of the    *)
(* user projects pending results into its message.                         *)
(*                                                                         *)
(* A step is one operation of a store, under the store's mutex.  Module    *)
(* Workflow puts the join.  The worker ends once: a session that is        *)
(* continued gives another notification, which no join asks for.           *)
(***************************************************************************)
EXTENDS Integers, FiniteSets

CONSTANTS
  MaxTime,     \* bound on the clock
  Deadlines,   \* joinExpiresAt that the host may ask for
  Turns,       \* the user's follow-ups
  NoTurn,
  MaxFaults    \* bound on crashes, failed writes and changes of the role runs

ASSUME InboxAssumption ==
  /\ MaxTime \in Nat
  /\ Deadlines \subseteq Nat
  /\ NoTurn \notin Turns
  /\ MaxFaults \in Nat

VARIABLES
  now,       \* the clock
  doneAt,    \* state.updatedAt of the worker session once it is done
  active,    \* some role run of the thread is active
  note,      \* the notification of the result
  join,      \* the join that waits for the result
  covered,   \* a recovery event covers the result
  pass,      \* where the bridge's pass is
  turn,      \* where each follow-up is, and whether it projects the result
  posted,    \* follow-ups whose durable message carries the result
  faults     \* faults so far

inboxVars == <<now, doneAt, active, note, join, covered, pass, turn, posted, faults>>

-----------------------------------------------------------------------------
Times == 0..MaxTime
Running == -1
Never   == -1  \* a join without expiresAt
Done == doneAt # Running

Notes == [state : {"absent", "pending", "consumed"}, by : Turns \cup {NoTurn}]
\* "late" is history: a join without expiresAt that was put when the bridge had
\* gone over the joins.
Joins == [state : {"none", "waiting", "satisfied", "abandoned"}, createdAt : Times,
          expiresAt : Deadlines \cup {Never}, late : BOOLEAN]
PassStages == {"idle", "acknowledge", "look", "enqueue", "satisfy", "audit", "abandon"}
TurnStages == {"none", "prepared", "posted", "over"}

InboxTypeOK ==
  /\ now \in Times
  /\ doneAt \in Times \cup {Running}
  /\ active \in BOOLEAN
  /\ note \in Notes
  /\ join \in Joins
  /\ covered \in BOOLEAN
  /\ pass \in [stage : PassStages, carriers : SUBSET Turns]
  /\ turn \in [Turns -> [stage : TurnStages, carries : BOOLEAN]]
  /\ posted \subseteq Turns
  /\ faults \in 0..MaxFaults

InboxInit ==
  /\ now = 0
  /\ doneAt = Running
  /\ active = TRUE
  /\ note = [state |-> "absent", by |-> NoTurn]
  /\ join = [state |-> "none", createdAt |-> 0, expiresAt |-> Never, late |-> FALSE]
  /\ covered = FALSE
  /\ pass = [stage |-> "idle", carriers |-> {}]
  /\ turn = [t \in Turns |-> [stage |-> "none", carries |-> FALSE]]
  /\ posted = {}
  /\ faults = 0

Fault ==
  /\ faults < MaxFaults
  /\ faults' = faults + 1

-----------------------------------------------------------------------------
(* The stores                                                              *)

\* putNotification: the same source and version is the same notification
PutNotification ==
  note' = IF note.state = "absent" THEN [note EXCEPT !.state = "pending"] ELSE note

\* consumeNotification, and the callers' look at what is pending
ConsumedBy(t) ==
  note' = IF note.state = "pending" THEN [state |-> "consumed", by |-> t] ELSE note

\* assertSameJoinIdentity: a join is put again only with the same times.
JoinAccepts(at, expiresAt) ==
  \/ join.state = "none"
  \/ join.createdAt = at /\ join.expiresAt = expiresAt

\* putJoin
PutJoin(at, expiresAt) ==
  join' = IF join.state = "none"
          THEN [state |-> "waiting", createdAt |-> at, expiresAt |-> expiresAt,
                late |-> expiresAt = Never /\ (covered \/ pass.stage = "audit")]
          ELSE join

\* Mutant of Satisfiable: joins that are decided are not left out.
SatisfiableAgain(resolvedAt) ==
  join.state # "none" /\ (join.expiresAt = Never \/ resolvedAt <= join.expiresAt)

Satisfiable(resolvedAt) ==
  join.state = "waiting" /\ (join.expiresAt = Never \/ resolvedAt <= join.expiresAt)

\* satisfyWaitingJoins
SatisfyWaitingJoins(resolvedAt) ==
  join' = IF Satisfiable(resolvedAt)
          THEN [join EXCEPT !.state = "satisfied"]
          ELSE join

\* abandonExpiredJoins; a join without a deadline is never abandoned
AbandonExpiredJoins ==
  join' = IF join.state = "waiting" /\ join.expiresAt # Never /\ join.expiresAt <= now
          THEN [join EXCEPT !.state = "abandoned"]
          ELSE join

-----------------------------------------------------------------------------
(* A pass of the bridge                                                    *)

To(stage) == pass' = [stage |-> stage, carriers |-> {}]

\* The pass begins with the messages of the thread.
PassStarts ==
  /\ pass.stage = "idle"
  /\ pass' = [stage |-> "acknowledge", carriers |-> posted]
  /\ UNCHANGED <<now, doneAt, active, note, join, covered, turn, posted, faults>>

\* reconcileInboxConsumption
PassAcknowledges ==
  /\ pass.stage = "acknowledge"
  /\ IF pass.carriers = {} THEN UNCHANGED note
     ELSE \E t \in pass.carriers : ConsumedBy(t)
  /\ To("look")
  /\ UNCHANGED <<now, doneAt, active, join, covered, turn, posted, faults>>

\* recoverLateWorkerCompletions: nothing is enqueued while a role run is active.
PassLooks ==
  /\ pass.stage = "look"
  /\ To(IF Done /\ ~covered /\ ~active THEN "enqueue" ELSE "abandon")
  /\ UNCHANGED <<now, doneAt, active, note, join, covered, turn, posted, faults>>

\* Mutant of PassEnqueues: the recovery event is written first.
PassAuditsFirst ==
  /\ pass.stage = "enqueue"
  /\ covered' = TRUE
  /\ PutNotification
  /\ To("satisfy")
  /\ UNCHANGED <<now, doneAt, active, join, turn, posted, faults>>

PassEnqueues ==
  /\ pass.stage = "enqueue"
  /\ PutNotification
  /\ To("satisfy")
  /\ UNCHANGED <<now, doneAt, active, join, covered, turn, posted, faults>>

\* The join is satisfied as of the time the worker ended.
PassSatisfies ==
  /\ pass.stage = "satisfy"
  /\ SatisfyWaitingJoins(doneAt)
  /\ To("audit")
  /\ UNCHANGED <<now, doneAt, active, note, covered, turn, posted, faults>>

\* appendLateWorkerCompletionEvent
PassAudits ==
  /\ pass.stage = "audit"
  /\ covered' = TRUE
  /\ To("abandon")
  /\ UNCHANGED <<now, doneAt, active, note, join, turn, posted, faults>>

\* A write of the inbox or of the recovery event fails: the rest of the
\* recovery is left to the next pass.
PassWriteFails ==
  /\ pass.stage \in {"enqueue", "satisfy", "audit"}
  /\ Fault
  /\ To("abandon")
  /\ UNCHANGED <<now, doneAt, active, note, join, covered, turn, posted>>

\* abandonExpiredMissionJoins, by the clock of the pass
PassAbandons ==
  /\ pass.stage = "abandon"
  /\ AbandonExpiredJoins
  /\ To("idle")
  /\ UNCHANGED <<now, doneAt, active, note, covered, turn, posted, faults>>

Pass ==
  \/ PassStarts
  \/ PassAcknowledges
  \/ PassLooks
  \/ PassEnqueues
  \/ PassSatisfies
  \/ PassAudits
  \/ PassAbandons

-----------------------------------------------------------------------------
(* Follow-ups of the user                                                  *)

TurnTo(t, stage) == turn' = [turn EXCEPT ![t].stage = stage]
TurnOver == [stage |-> "over", carries |-> FALSE]
TurnEnds(t) == turn' = [turn EXCEPT ![t] = TurnOver]

\* prepareUserMessage
Prepare(t) ==
  /\ turn[t].stage = "none"
  /\ turn' = [turn EXCEPT ![t] = [stage |-> "prepared", carries |-> note.state = "pending"]]
  /\ UNCHANGED <<now, doneAt, active, note, join, covered, pass, posted, faults>>

\* The message is durable under the id of the delivery.
Post(t) ==
  /\ turn[t].stage = "prepared"
  /\ posted' = IF turn[t].carries THEN posted \cup {t} ELSE posted
  /\ TurnTo(t, "posted")
  /\ UNCHANGED <<now, doneAt, active, note, join, covered, pass, faults>>

\* Mutant of Acknowledge: the message need not be durable.
AcknowledgeUnposted(t) ==
  /\ turn[t].stage \in {"prepared", "posted"}
  /\ IF turn[t].carries THEN ConsumedBy(t) ELSE UNCHANGED note
  /\ TurnEnds(t)
  /\ UNCHANGED <<now, doneAt, active, join, covered, pass, posted, faults>>

\* acknowledgePreparedUserMessage, when the post returned
Acknowledge(t) ==
  /\ turn[t].stage = "posted"
  /\ IF turn[t].carries THEN ConsumedBy(t) ELSE UNCHANGED note
  /\ TurnEnds(t)
  /\ UNCHANGED <<now, doneAt, active, join, covered, pass, posted, faults>>

\* The message is not stored, or its flow fails after it was.
PostFails(t) ==
  /\ turn[t].stage \in {"prepared", "posted"}
  /\ Fault
  /\ TurnEnds(t)
  /\ UNCHANGED <<now, doneAt, active, note, join, covered, pass, posted>>

-----------------------------------------------------------------------------
(* What goes on around them                                                *)

Tick ==
  /\ now < MaxTime
  /\ now' = now + 1
  /\ UNCHANGED <<doneAt, active, note, join, covered, pass, turn, posted, faults>>

\* The detached worker ends (module WorkerSession).
WorkerEnds ==
  /\ ~Done
  /\ doneAt' = now
  /\ UNCHANGED <<now, active, note, join, covered, pass, turn, posted, faults>>

\* The role runs of the thread end, and others begin (module RoleRun).
RolesRest ==
  /\ active
  /\ active' = FALSE
  /\ UNCHANGED <<now, doneAt, note, join, covered, pass, turn, posted, faults>>

RolesWork ==
  /\ ~active
  /\ Fault
  /\ active' = TRUE
  /\ UNCHANGED <<now, doneAt, note, join, covered, pass, turn, posted>>

\* The process restarts: what it was doing is forgotten.
InboxCrash ==
  /\ Fault
  /\ To("idle")
  /\ turn' = [t \in Turns |-> IF turn[t].stage \in {"prepared", "posted"}
                              THEN TurnOver ELSE turn[t]]
  /\ UNCHANGED <<now, doneAt, active, note, join, covered, posted>>

InboxNext ==
  \/ Pass
  \/ PassWriteFails
  \/ \E t \in Turns : Prepare(t) \/ Post(t) \/ Acknowledge(t) \/ PostFails(t)
  \/ Tick
  \/ RolesRest
  \/ RolesWork

-----------------------------------------------------------------------------
(* What the code promises for every interleaving                           *)

\* A result is consumed only by a follow-up whose durable message carries
\* it: acknowledgePreparedUserMessage and reconcileInboxConsumption.
ConsumedByCarrier == note.state = "consumed" => note.by \in posted

\* What the bridge still has to do: a result to enqueue, a join to decide, or a
\* result to consume that a durable message carries.  Nobody decides a join
\* without a deadline whose worker does not end, or that was put when the result
\* had been recovered already.
Owed ==
  \/ Done /\ note.state = "absent"
  \/ join.state = "waiting" /\ (join.expiresAt # Never \/ (Done /\ ~join.late))
  \/ posted # {} /\ note.state # "consumed"

\* Whatever is interrupted, nothing of it is owed for ever, if the clock comes to
\* every deadline.
ResultsArrive == []<>~Owed

=============================================================================
