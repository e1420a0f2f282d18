------------------------------ MODULE RoleRun ------------------------------
(***************************************************************************)
(* The delivery of handoffs to one role run and the loop that works them   *)
(* off: the delivery part of CoordinationEngine (dispatchViaOutbox,        *)
(* deliverDispatchIntent, abandonDispatchIntent and the materialisation of *)
(* role outcomes), DefaultRoleRunCoordinator, InlineRoleLoopRunner and     *)
(* recoverRoleRunsOnStartup, all for one run key.                          *)
(*                                                                         *)
(* Each handoff (task) has one flow edge and one dispatch intent in an     *)
(* outbox.  Up to two attempts deliver it: the fast path of the dispatcher *)
(* and the background drain, which starts after the fast path or, when its *)
(* lease lapsed, beside it.  Of the outboxes only what module AtLeastOnce  *)
(* promises is used.  An action is what runs between two awaits that       *)
(* another actor can observe: one store write or one mutex section.        *)
(***************************************************************************)
EXTENDS Integers, SequencesExt

CONSTANTS
  Tasks,            \* the handoffs to this role; also the hop limit of the flow
  NoTask,
  MaxIterations,    \* memberMaxIterations
  MaxInbox,         \* maxQueuedHandoffsPerRole
  MaxRetries,       \* dispatchOutboxMaxRetries
  ShardRetries,     \* retries of a failed shard: 1, or 0 when there is no fan-out
  FaultKinds,       \* which of "crash", "lapse" and "store" may happen
  MaxFaults         \* bound on the faults of a behaviour

ASSUME RoleRunAssumption ==
  /\ NoTask \notin Tasks
  /\ MaxIterations \in Nat \ {0}
  /\ MaxInbox \in Nat \ {0}
  /\ MaxRetries \in Nat
  /\ ShardRetries \in {0, 1}
  /\ FaultKinds \subseteq {"crash", "lapse", "store"}
  /\ MaxFaults \in Nat

VARIABLES
  run,         \* the RoleRunState record in its store
  edge,        \* the state of each task's flow edge
  intent,      \* each task's dispatch intent in the outbox
  attempt,     \* the delivery attempts of each task, by path
  retries,     \* processing failures the drain counted, by task
  loop,        \* the role loop; "off" when activeRuns lacks the run key
  acks,        \* edge acknowledgements fired and not awaited by the loop
  outcome,     \* what the role answered to each task
  stage,       \* how far the outcome is materialised
  child,       \* the retry handoff that a failed task was given
  retryCount,  \* retryCounts[roleId] of the shard group
  recovering,  \* the process restarted and has not reconciled the run yet
  faults       \* faults so far

\* History, read by no action.
VARIABLES
  activations, \* how often each task was given to the role runtime
  replayed,    \* tasks whose intent may be delivered again
  excused      \* tasks the program gave up without an answer

deliveryVars == <<intent, attempt, retries>>
outcomeVars  == <<outcome, stage, child, retryCount>>
historyVars  == <<activations, replayed, excused>>
vars == <<run, edge, deliveryVars, loop, acks, outcomeVars, recovering, faults, historyVars>>

-----------------------------------------------------------------------------
Statuses   == {"idle", "queued", "running", "failed"}
EdgeStates == {"none", "created", "delivered", "acked", "responded", "closed", "cancelled"}
Paths      == {"fast", "drain"}
AttemptPcs == {"idle", "persist", "read", "get", "enqueue", "signal", "mark",
               "settle", "fail", "drop", "cancel", "threw"}
LoopPcs    == {"off", "start", "setRunning", "check", "limitDequeue", "limitFail",
               "dequeue", "setIdle", "increment", "ack", "activate", "fail",
               "reply", "report", "await"}
Stages     == {"none", "respond", "close", "plan", "dispatch", "child", "done"}

Idle    == [pc |-> "idle", created |-> FALSE]
LoopOff == [pc |-> "off", held |-> NoTask, aborted |-> FALSE]

\* getOrCreate: the run that the first delivery creates
NewRun == [status |-> "idle", inbox |-> <<>>, iter |-> 0, last |-> NoTask]

Queued == ToSet(run.inbox)

\* hasTrackedHandoff
Tracked(t) == run.last = t \/ t \in Queued

\* dispatchDeliveryMutex: between reading the edge and leaving the section
Locked(t) == \E p \in Paths : attempt[t][p].pc \in {"get", "enqueue", "cancel"}

Goto(t, p, pc) == attempt' = [attempt EXCEPT ![t][p].pc = pc]

\* A fault of an enabled kind, within the bound.
Fault(kind) ==
  /\ kind \in FaultKinds
  /\ faults < MaxFaults
  /\ faults' = faults + 1

\* No attempt of the task is still going to signal the loop.
Unsignalled(t) == \A p \in Paths :
  attempt[t][p].pc \notin {"read", "get", "enqueue", "signal"}

\* The queue that an ending loop leaves behind with nobody to wake it.
LeftBehind == {t \in Queued : Unsignalled(t)}

\* A handoff the loop has taken out of the inbox and not yet answered.
Unanswered == IF loop.pc \in {"limitFail", "increment", "ack", "activate",
                              "fail", "reply", "report"}
              THEN {loop.held} ELSE {}

Init ==
  /\ run = NewRun
  /\ edge = [t \in Tasks |-> "none"]
  /\ intent = [t \in Tasks |-> "none"]
  /\ attempt = [t \in Tasks |-> [p \in Paths |-> Idle]]
  /\ retries = [t \in Tasks |-> 0]
  /\ loop = LoopOff
  /\ acks = {}
  /\ outcome = [t \in Tasks |-> "none"]
  /\ stage = [t \in Tasks |-> "none"]
  /\ child = [t \in Tasks |-> NoTask]
  /\ retryCount = 0
  /\ recovering = FALSE
  /\ faults = 0
  /\ activations = [t \in Tasks |-> 0]
  /\ replayed = {}
  /\ excused = {}

-----------------------------------------------------------------------------
(* Dispatch and delivery                                                   *)

\* recordHandoff: the edge is in the ledger, the intent not yet in the outbox.
RecordHandoff(t) ==
  /\ edge[t] = "none"
  /\ edge' = [edge EXCEPT ![t] = "created"]
  /\ Goto(t, "fast", "persist")

Dispatch(t) ==
  /\ ~recovering
  /\ RecordHandoff(t)
  /\ UNCHANGED <<run, intent, retries, loop, acks, outcomeVars, recovering, faults, historyVars>>

PersistIntent(t) ==
  /\ attempt[t]["fast"].pc = "persist"
  /\ intent' = [intent EXCEPT ![t] = "owed"]
  /\ Goto(t, "fast", "read")
  /\ UNCHANGED <<run, edge, retries, loop, acks, outcomeVars, recovering, faults, historyVars>>

\* enqueueClaimed throws: the edge is cancelled and the error is thrown on.
PersistIntentFails(t) ==
  /\ attempt[t]["fast"].pc = "persist"
  /\ Fault("store")
  /\ edge' = [edge EXCEPT ![t] = "cancelled"]
  /\ Goto(t, "fast", "threw")
  /\ UNCHANGED <<run, intent, retries, loop, acks, outcomeVars, recovering, historyVars>>

\* Mutant of DrainStart: the intent was not enqueued as claimed.
DrainStartUnclaimed(t) ==
  /\ intent[t] = "owed"
  /\ attempt[t]["drain"].pc = "idle"
  /\ Goto(t, "drain", "read")
  /\ UNCHANGED <<run, edge, intent, retries, loop, acks, outcomeVars, recovering, faults, historyVars>>

\* The drain claims the intent once the fast path is over.
DrainStart(t) ==
  /\ intent[t] = "owed"
  /\ attempt[t]["drain"].pc = "idle"
  /\ attempt[t]["fast"].pc \in {"idle", "threw"}
  /\ Goto(t, "drain", "read")
  /\ UNCHANGED <<run, edge, intent, retries, loop, acks, outcomeVars, recovering, faults, historyVars>>

\* The lease of the fast path lapses and the drain claims the intent beside it.
DrainOvertakes(t) ==
  /\ intent[t] = "owed"
  /\ attempt[t]["drain"].pc = "idle"
  /\ attempt[t]["fast"].pc \notin {"idle", "threw"}
  /\ Fault("lapse")
  /\ Goto(t, "drain", "read")
  /\ replayed' = replayed \cup {t}
  /\ UNCHANGED <<run, edge, intent, retries, loop, acks, outcomeVars, recovering, activations, excused>>

DeliverRead(t, p) ==
  /\ attempt[t][p].pc = "read"
  /\ ~Locked(t)
  /\ attempt' = [attempt EXCEPT ![t][p] =
       [pc |-> IF edge[t] \in {"cancelled", "responded", "closed"} THEN "settle" ELSE "get",
        created |-> edge[t] = "created"]]
  /\ UNCHANGED <<run, edge, intent, retries, loop, acks, outcomeVars, recovering, faults, historyVars>>

\* The test that decides on the enqueue, over the run getOrCreate returned.
ShouldEnqueue(t, p) == attempt[t][p].created /\ ~Tracked(t)

DeliverGet(t, p) ==
  /\ attempt[t][p].pc = "get"
  /\ Goto(t, p, IF ShouldEnqueue(t, p) THEN "enqueue" ELSE "signal")
  /\ UNCHANGED <<run, edge, intent, retries, loop, acks, outcomeVars, recovering, faults, historyVars>>

\* Mutant of InboxFull: one handoff too many.
InboxOverfull == Len(run.inbox) > MaxInbox

InboxFull == Len(run.inbox) >= MaxInbox

\* enqueue of a run that has failed starts it afresh: one handoff, no steps used.
Reentered == run.status = "failed"

\* Mutant of Enqueued: the status of a running run is overwritten.
EnqueuedAsQueued(t) ==
  [run EXCEPT !.inbox = IF Reentered THEN <<t>> ELSE Append(@, t),
              !.iter = IF Reentered THEN 0 ELSE @,
              !.status = "queued"]

Enqueued(t) ==
  [run EXCEPT !.inbox = IF Reentered THEN <<t>> ELSE Append(@, t),
              !.iter = IF Reentered THEN 0 ELSE @,
              !.status = IF @ = "running" THEN "running" ELSE "queued"]

DeliverEnqueue(t, p) ==
  /\ attempt[t][p].pc = "enqueue"
  /\ IF InboxFull
     THEN Goto(t, p, "fail") /\ UNCHANGED <<run, excused>>
     ELSE /\ run' = Enqueued(t)
          /\ Goto(t, p, "signal")
          /\ excused' = excused \cup (Queued \ ToSet(run'.inbox))
  /\ UNCHANGED <<edge, intent, retries, loop, acks, outcomeVars, recovering, faults, activations, replayed>>

\* Mutant of EnsureRunning: the durable status is asked instead of activeRuns.
EnsureUnlessRunning ==
  loop' = IF loop.pc = "off" /\ run.status # "running"
          THEN [LoopOff EXCEPT !.pc = "start"] ELSE loop

\* ensureRunning up to its first await
EnsureRunning ==
  loop' = IF loop.pc = "off" THEN [LoopOff EXCEPT !.pc = "start"] ELSE loop

DeliverSignal(t, p) ==
  /\ attempt[t][p].pc = "signal"
  /\ EnsureRunning
  /\ Goto(t, p, IF attempt[t][p].created THEN "mark" ELSE "settle")
  /\ UNCHANGED <<run, edge, intent, retries, acks, outcomeVars, recovering, faults, historyVars>>

\* recordDeliveredAfterRoleSignal, outside of the mutex
DeliverMark(t, p) ==
  /\ attempt[t][p].pc = "mark"
  /\ edge' = [edge EXCEPT ![t] = IF @ = "created" THEN "delivered" ELSE @]
  /\ Goto(t, p, "settle")
  /\ UNCHANGED <<run, intent, retries, loop, acks, outcomeVars, recovering, faults, historyVars>>

DeliverMarkFails(t, p) ==
  /\ attempt[t][p].pc = "mark"
  /\ Fault("store")
  /\ Goto(t, p, "fail")
  /\ replayed' = replayed \cup {t}
  /\ UNCHANGED <<run, edge, intent, retries, loop, acks, outcomeVars, recovering, activations, excused>>

\* ackClaim of the fast path, or ack of the drain
DeliverSettle(t, p) ==
  /\ attempt[t][p].pc = "settle"
  /\ intent' = [intent EXCEPT ![t] = IF @ = "owed" THEN "settled" ELSE @]
  /\ Goto(t, p, "idle")
  /\ UNCHANGED <<run, edge, retries, loop, acks, outcomeVars, recovering, faults, historyVars>>

\* The fast path releases its claim and throws.
FastFails(t) ==
  /\ attempt[t]["fast"].pc = "fail"
  /\ Goto(t, "fast", "threw")
  /\ UNCHANGED <<run, edge, intent, retries, loop, acks, outcomeVars, recovering, faults, historyVars>>

\* The drain reschedules the intent, or gives it up.
DrainFails(t) ==
  /\ attempt[t]["drain"].pc = "fail"
  /\ IF intent[t] = "owed"
     THEN /\ retries' = [retries EXCEPT ![t] = @ + 1]
          /\ IF retries[t] + 1 > MaxRetries
             THEN /\ intent' = [intent EXCEPT ![t] = "dropped"]
                  /\ Goto(t, "drain", "drop")
             ELSE /\ Goto(t, "drain", "idle")
                  /\ UNCHANGED intent
     ELSE /\ Goto(t, "drain", "idle")
          /\ UNCHANGED <<retries, intent>>
  /\ UNCHANGED <<run, edge, loop, acks, outcomeVars, recovering, faults, historyVars>>

\* abandonDispatchIntent: reads the edge under the mutex, then cancels it.
AbandonRead(t) ==
  /\ attempt[t]["drain"].pc = "drop"
  /\ ~Locked(t)
  /\ Goto(t, "drain", IF edge[t] = "created" THEN "cancel" ELSE "idle")
  /\ UNCHANGED <<run, edge, intent, retries, loop, acks, outcomeVars, recovering, faults, historyVars>>

AbandonCancel(t) ==
  /\ attempt[t]["drain"].pc = "cancel"
  /\ edge' = [edge EXCEPT ![t] = "cancelled"]
  /\ Goto(t, "drain", "idle")
  /\ UNCHANGED <<run, intent, retries, loop, acks, outcomeVars, recovering, faults, historyVars>>

\* The ledger throws out of abandonDispatchIntent: the intent is a dead letter
\* and nobody cancels the edge any more.
AbandonFails(t) ==
  /\ attempt[t]["drain"].pc \in {"drop", "cancel"}
  /\ Fault("store")
  /\ Goto(t, "drain", "idle")
  /\ excused' = excused \cup (IF edge[t] = "created" THEN {t} ELSE {})
  /\ UNCHANGED <<run, edge, intent, retries, loop, acks, outcomeVars, recovering, activations, replayed>>

-----------------------------------------------------------------------------
(* The role loop                                                           *)

LoopAt(pc) == loop.pc = pc
LoopTo(pc) == loop' = [loop EXCEPT !.pc = pc]

\* The finally block; what stays in the inbox then waits for another signal.
LoopExit ==
  /\ loop' = LoopOff
  /\ excused' = excused \cup LeftBehind

LoopStart ==
  /\ LoopAt("start")
  /\ LoopTo(IF run.status = "running" THEN "check" ELSE "setRunning")
  /\ UNCHANGED <<run, edge, deliveryVars, acks, outcomeVars, recovering, faults, historyVars>>

LoopSetRunning ==
  /\ LoopAt("setRunning")
  /\ run' = [run EXCEPT !.status = "running"]
  /\ LoopTo("check")
  /\ UNCHANGED <<edge, deliveryVars, acks, outcomeVars, recovering, faults, historyVars>>

BudgetSpent == run.iter >= MaxIterations

LoopCheck ==
  /\ LoopAt("check")
  /\ LoopTo(IF BudgetSpent THEN "limitDequeue" ELSE "dequeue")
  /\ UNCHANGED <<run, edge, deliveryVars, acks, outcomeVars, recovering, faults, historyVars>>

LoopDequeue ==
  /\ loop.pc \in {"dequeue", "limitDequeue"}
  /\ IF run.inbox = <<>>
     THEN LoopTo("setIdle") /\ UNCHANGED run
     ELSE /\ run' = [run EXCEPT !.inbox = Tail(@)]
          /\ loop' = [loop EXCEPT
               !.held = Head(run.inbox),
               !.pc = IF loop.pc = "dequeue" THEN "increment" ELSE "limitFail"]
  /\ UNCHANGED <<edge, deliveryVars, acks, outcomeVars, recovering, faults, historyVars>>

LoopSetIdle ==
  /\ LoopAt("setIdle")
  /\ run' = [run EXCEPT !.status = "idle"]
  /\ LoopExit
  /\ UNCHANGED <<edge, deliveryVars, acks, outcomeVars, recovering, faults, activations, replayed>>

LoopIncrement ==
  /\ LoopAt("increment")
  /\ run' = [run EXCEPT !.iter = @ + 1]
  /\ LoopTo("ack")
  /\ UNCHANGED <<edge, deliveryVars, acks, outcomeVars, recovering, faults, historyVars>>

\* ack of the run, then the edge acknowledgement is fired and not awaited and
\* the runtime is given the handoff.
LoopAck ==
  /\ LoopAt("ack")
  /\ run' = [run EXCEPT !.last = loop.held]
  /\ acks' = acks \cup {loop.held}
  /\ loop' = [loop EXCEPT !.pc = "activate", !.aborted = FALSE]
  /\ activations' = [activations EXCEPT ![loop.held] = @ + 1]
  /\ UNCHANGED <<edge, deliveryVars, outcomeVars, recovering, faults, replayed, excused>>

\* Mutant of AckedState: the state of the edge is not asked.
AckedAlways(state) == "acked"

AckedState(state) == IF state \in {"created", "delivered"} THEN "acked" ELSE state

\* onHandoffAck
EdgeAck(t) ==
  /\ t \in acks
  /\ acks' = acks \ {t}
  /\ edge' = [edge EXCEPT ![t] = AckedState(@)]
  /\ UNCHANGED <<run, deliveryVars, loop, outcomeVars, recovering, faults, historyVars>>

\* cancel(runKey) aborts the activation that runs.
Cancel ==
  /\ LoopAt("activate")
  /\ ~loop.aborted
  /\ loop' = [loop EXCEPT !.aborted = TRUE]
  /\ UNCHANGED <<run, edge, deliveryVars, acks, outcomeVars, recovering, faults, historyVars>>

\* runActivation returns; an aborted activation counts as failed.
ActivationEnds(ok) ==
  /\ LoopAt("activate")
  /\ LoopTo(IF ok /\ ~loop.aborted THEN "reply" ELSE "fail")
  /\ UNCHANGED <<run, edge, deliveryVars, acks, outcomeVars, recovering, faults, historyVars>>

\* coordinator.fail, for a failed activation and for a spent budget
LoopFail ==
  /\ loop.pc \in {"fail", "limitFail"}
  /\ run' = [run EXCEPT !.status = "failed"]
  /\ LoopTo("report")
  /\ UNCHANGED <<edge, deliveryVars, acks, outcomeVars, recovering, faults, historyVars>>

\* handleRoleReply, onRoleFailure: the outcome is durable, and materialised
\* while the loop waits.
LoopAnswer ==
  /\ loop.pc \in {"reply", "report"}
  /\ outcome' = [outcome EXCEPT ![loop.held] = IF LoopAt("reply") THEN "reply" ELSE "failure"]
  /\ stage' = [stage EXCEPT ![loop.held] = "respond"]
  /\ LoopTo("await")
  /\ UNCHANGED <<run, edge, deliveryVars, acks, child, retryCount, recovering, faults, historyVars>>

\* The loop goes on after a reply and ends after a failure.
LoopResume ==
  IF outcome[loop.held] = "reply"
  THEN loop' = [LoopOff EXCEPT !.pc = "check"] /\ UNCHANGED excused
  ELSE LoopExit

LoopAwait ==
  /\ LoopAt("await")
  /\ stage[loop.held] = "done"
  /\ LoopResume
  /\ UNCHANGED <<run, edge, deliveryVars, acks, outcomeVars, recovering, faults, activations, replayed>>

\* A store throws out of the loop: the finally block and nothing else.
LoopThrows ==
  /\ loop.pc \notin {"off", "await"}
  /\ Fault("store")
  /\ loop' = LoopOff
  /\ excused' = excused \cup LeftBehind \cup Unanswered
  /\ UNCHANGED <<run, edge, deliveryVars, acks, outcomeVars, recovering, activations, replayed>>

-----------------------------------------------------------------------------
(* Materialisation of an outcome, by the loop's call or by a replay        *)

Respond(t) ==
  /\ stage[t] = "respond"
  /\ edge' = [edge EXCEPT ![t] = "responded"]
  /\ stage' = [stage EXCEPT ![t] = "close"]
  /\ UNCHANGED <<run, deliveryVars, loop, acks, outcome, child, retryCount, recovering, faults, historyVars>>

Close(t) ==
  /\ stage[t] = "close"
  /\ edge' = [edge EXCEPT ![t] = "closed"]
  /\ stage' = [stage EXCEPT ![t] = IF outcome[t] = "reply" THEN "done" ELSE "plan"]
  /\ UNCHANGED <<run, deliveryVars, loop, acks, outcome, child, retryCount, recovering, faults, historyVars>>

\* planFanOutFailureAction: one more try for the shard, or a merge elsewhere.
PlanRetry(t) ==
  /\ stage[t] = "plan"
  /\ IF retryCount < ShardRetries
     THEN /\ retryCount' = retryCount + 1
          /\ stage' = [stage EXCEPT ![t] = "dispatch"]
     ELSE /\ stage' = [stage EXCEPT ![t] = "done"]
          /\ UNCHANGED retryCount
  /\ UNCHANGED <<run, edge, deliveryVars, loop, acks, outcome, child, recovering, faults, historyVars>>

\* handleFanOutFailure dispatches the shard to the role that failed it.
DispatchRetry(t, u) ==
  /\ stage[t] = "dispatch"
  /\ RecordHandoff(u)
  /\ child' = [child EXCEPT ![t] = u]
  /\ stage' = [stage EXCEPT ![t] = "child"]
  /\ UNCHANGED <<run, intent, retries, loop, acks, outcome, retryCount, recovering, faults, historyVars>>

\* recordHandoff returns null: the flow is out of hops.
DispatchRefused(t) ==
  /\ stage[t] = "dispatch"
  /\ \A u \in Tasks : edge[u] # "none"
  /\ stage' = [stage EXCEPT ![t] = "done"]
  /\ UNCHANGED <<run, edge, deliveryVars, loop, acks, outcome, child, retryCount, recovering, faults, historyVars>>

RetryDelivered(t) ==
  /\ stage[t] = "child"
  /\ attempt[child[t]]["fast"].pc = "idle"
  /\ stage' = [stage EXCEPT ![t] = "done"]
  /\ UNCHANGED <<run, edge, deliveryVars, loop, acks, outcome, child, retryCount, recovering, faults, historyVars>>

\* The materialisation throws: the claim is released for a replay, which starts
\* over, and a loop that waits for it is let go.
Rematerialize(t) ==
  /\ stage' = [stage EXCEPT ![t] = "respond"]
  /\ IF loop.pc = "await" /\ loop.held = t
     THEN LoopResume
     ELSE UNCHANGED <<loop, excused>>
  /\ UNCHANGED <<run, edge, deliveryVars, acks, outcome, child, retryCount, recovering, activations, replayed>>

OutcomeFails(t) ==
  /\ stage[t] \in {"respond", "close", "plan", "dispatch"}
  /\ Fault("store")
  /\ Rematerialize(t)

RetryThrows(t) ==
  /\ stage[t] = "child"
  /\ attempt[child[t]]["fast"].pc = "threw"
  /\ Rematerialize(t)
  /\ UNCHANGED faults

-----------------------------------------------------------------------------
(* Crash and restart                                                       *)

\* Handoffs that only memory knew of, or that lie in a run no restart resumes.
LostByCrash ==
  Unanswered
    \cup {t \in Tasks : attempt[t]["fast"].pc = "persist"
                        \/ attempt[t]["drain"].pc \in {"drop", "cancel"}}
    \cup (IF run.status \in {"queued", "running"} THEN {} ELSE Queued)

\* The outcomes whose batch is still in the outbox: those that are under way,
\* and the one the loop waits for, unless it was acknowledged already.
Unacknowledged(acknowledged) ==
  {t \in Tasks :
     \/ stage[t] \notin {"none", "done"}
     \/ loop.pc = "await" /\ loop.held = t /\ ~acknowledged}

Crash ==
  /\ Fault("crash")
  /\ recovering' = TRUE
  /\ loop' = LoopOff
  /\ attempt' = [t \in Tasks |-> [p \in Paths |-> Idle]]
  /\ acks' = {}
  /\ \E acknowledged \in BOOLEAN :
       stage' = [t \in Tasks |-> IF t \in Unacknowledged(acknowledged) THEN "respond" ELSE stage[t]]
  /\ replayed' = replayed \cup {t \in Tasks : intent[t] = "owed"}
  /\ excused' = excused \cup LostByCrash
  /\ UNCHANGED <<run, edge, intent, retries, outcome, child, retryCount, activations>>

\* recoverRoleRunsOnStartup
EmptyQueued == run.status = "queued" /\ run.inbox = <<>>

\* Mutant of Restartable: a run that was running is left alone.
RestartQueuedOnly == run.status = "queued" /\ ~EmptyQueued

Restartable == run.status \in {"queued", "running"} /\ ~EmptyQueued

Recover ==
  /\ recovering
  /\ recovering' = FALSE
  /\ run' = [run EXCEPT !.status = IF EmptyQueued THEN "idle" ELSE @]
  /\ IF Restartable THEN EnsureRunning ELSE UNCHANGED loop
  /\ UNCHANGED <<edge, deliveryVars, acks, outcomeVars, faults, historyVars>>

-----------------------------------------------------------------------------
Deliver(t) ==
  \/ PersistIntent(t)
  \/ PersistIntentFails(t)
  \/ DrainStart(t)
  \/ DrainOvertakes(t)
  \/ \E p \in Paths : \/ DeliverRead(t, p)
                      \/ DeliverGet(t, p)
                      \/ DeliverEnqueue(t, p)
                      \/ DeliverSignal(t, p)
                      \/ DeliverMark(t, p)
                      \/ DeliverMarkFails(t, p)
                      \/ DeliverSettle(t, p)
  \/ FastFails(t)
  \/ DrainFails(t)
  \/ AbandonRead(t)
  \/ AbandonCancel(t)
  \/ AbandonFails(t)

LoopStep ==
  \/ LoopStart
  \/ LoopSetRunning
  \/ LoopCheck
  \/ LoopDequeue
  \/ LoopSetIdle
  \/ LoopIncrement
  \/ LoopAck
  \/ \E ok \in BOOLEAN : ActivationEnds(ok)
  \/ LoopFail
  \/ LoopAnswer
  \/ LoopAwait

Materialize(t) ==
  \/ Respond(t)
  \/ Close(t)
  \/ PlanRetry(t)
  \/ \E u \in Tasks : DispatchRetry(t, u)
  \/ DispatchRefused(t)
  \/ RetryDelivered(t)
  \/ OutcomeFails(t)
  \/ RetryThrows(t)

Next ==
  \/ \E t \in Tasks : Dispatch(t) \/ Deliver(t) \/ EdgeAck(t) \/ Materialize(t)
  \/ LoopStep
  \/ LoopThrows
  \/ Cancel
  \/ Crash
  \/ Recover

Spec == Init /\ [][Next]_vars

\* Every delivery, activation and materialisation that started goes on: the
\* promises are settled by the event loop, activations end by their timeouts.
Fairness ==
  /\ \A t \in Tasks : WF_vars(Deliver(t)) /\ WF_vars(EdgeAck(t)) /\ WF_vars(Materialize(t))
  /\ WF_vars(LoopStep)
  /\ WF_vars(Recover)

FairSpec == Spec /\ Fairness

-----------------------------------------------------------------------------
(* Properties                                                              *)

\* Every variable keeps its type: the run record, the edges, both attempts of
\* every handoff, the loop and the outcomes.
TypeOK ==
  /\ run \in [status : Statuses, inbox : Seq(Tasks), iter : Nat, last : Tasks \cup {NoTask}]
  /\ Len(run.inbox) <= MaxInbox
  /\ edge \in [Tasks -> EdgeStates]
  /\ intent \in [Tasks -> {"none", "owed", "settled", "dropped"}]
  /\ attempt \in [Tasks -> [Paths -> [pc : AttemptPcs, created : BOOLEAN]]]
  /\ retries \in [Tasks -> 0..(MaxRetries + 1)]
  /\ loop \in [pc : LoopPcs, held : Tasks \cup {NoTask}, aborted : BOOLEAN]
  /\ acks \subseteq Tasks
  /\ outcome \in [Tasks -> {"none", "reply", "failure"}]
  /\ stage \in [Tasks -> Stages]
  /\ child \in [Tasks -> Tasks \cup {NoTask}]
  /\ retryCount \in 0..ShardRetries
  /\ recovering \in BOOLEAN
  /\ faults \in 0..MaxFaults
  /\ activations \in [Tasks -> Nat]
  /\ replayed \subseteq Tasks
  /\ excused \subseteq Tasks

\* While the loop takes handoffs and works on them the run says "running", so
\* that no enqueue can take it for a finished run and throw its queue away,
\* and every activation is within the step budget, across all re-entries.
LoopOwnsRun ==
  /\ loop.pc \in {"check", "limitDequeue", "limitFail", "dequeue", "setIdle",
                  "increment", "ack", "activate", "fail", "reply"} => run.status = "running"
  /\ loop.pc = "activate" => run.iter \in 1..MaxIterations

\* A fault (a lapsed lease, a failed store, a crash) costs at most one more
\* activation of a handoff; without one it is activated at most once.
ActivationsBounded == \A t \in Tasks : activations[t] <= 1 + faults

\* An edge is cancelled under a handoff that was delivered after all only when
\* the delivery was repeated; otherwise a cancelled handoff never runs.
CancelledNeverRuns == \A t \in Tasks :
  edge[t] = "cancelled" /\ t \in Queued \cup {loop.held} => t \in replayed

AtRest ==
  /\ loop.pc = "off"
  /\ ~recovering
  /\ acks = {}
  /\ \A t \in Tasks :
       /\ \A p \in Paths : attempt[t][p].pc \in {"idle", "threw"}
       /\ intent[t] # "owed"
       /\ stage[t] \in {"none", "done"}

\* When nothing is left to do, every handoff is closed or cancelled. The only
\* ones that are not are those the program is known to give up: taken out of
\* the inbox at a crash or a store failure, replaced on re-entry, left in the
\* inbox of a loop that ended after their signal, or given up without the edge
\* being cancelled.
NoUnexplainedStranding == AtRest =>
  \A t \in Tasks : edge[t] \in {"none", "closed", "cancelled"} \/ t \in excused

\* A closed edge is opened again only by an outcome that is materialised anew or
\* under a repeated delivery; a late acknowledgement or delivery never does it.
ClosedStaysClosed == [][\A t \in Tasks :
  edge[t] = "closed" /\ edge'[t] # "closed" => stage[t] = "respond" \/ t \in replayed]_vars

\* Every dispatched handoff is answered, cancelled, or known to be given up.
EveryHandoffDecided == \A t \in Tasks :
  edge[t] = "created" ~> (edge[t] \in {"closed", "cancelled"} \/ t \in excused)

=============================================================================
