# TurnkeyAI: a verification project

TLA+ models of the parts of TurnkeyAI on which the others rely not to lose, repeat or
invent work: the durable outboxes of the coordination engine, the delivery of handoffs to
role runs, the flow ledger with its fan-out and merge, the journal of a role run with its
effect ledger, the sessions of workers, the inbox their results arrive in, the explicit
workflows that wait for them, and the relay that hands browser actions to its peers. TLC
checks every module on small instances; TLAPS proves for every instance the safety
properties of all of them, and that the outbox implements its abstract specification.

All paths below are relative to `packages/` unless they begin with `docs/`.

- [1. The system](#1-the-system)
- [2. The models](#2-the-models)
- [3. Runs and bounds](#3-runs-and-bounds)
- [4. Fairness](#4-fairness)
- [5. What is proved](#5-what-is-proved)
- [6. What the runs found](#6-what-the-runs-found)
- [7. What is not modelled](#7-what-is-not-modelled)
- [8. Plan](#8-plan)
- [9. Running it](#9-running-it)

## 1. The system

A local daemon (the gateway) runs teams of language-model roles on behalf of a user. A user
message or a scheduled task starts a *flow*: the lead role receives a *handoff*, its reply
may mention other roles, each mention becomes a further handoff, and the flow ends when the
lead answers without mentioning anyone, or is aborted. A role works in rounds: it asks a
model, carries out the tool calls the model proposes, and asks again. Some tool calls start
*workers* (browsing, exploring), which may go on in the background. Everything that must
survive a restart is a file; one Node process does all the work, so interleavings arise at
`await`, and every store operation is atomic under a keyed mutex and an atomic rename.

### Components

**Durable outbox** (`team-runtime/src/file-batch-outbox.ts`, `outbox-batch-shipper.ts`).
*State:* one JSON file per batch: pending, inflight with a lease, or dead letter; in memory
a timer and a `draining` flag. *Operations:* enqueue, enqueueClaimed, claimDue, ack, release,
reschedule, deadLetter, flush, start. *Used by* the engine three times (flow starts, dispatch
intents, role outcomes), each time with a fast path that writes the batch already leased to
itself, runs the sink at once and acknowledges or releases it. *Hard:* the fast path may
outlive its lease while the drain has taken the batch over; a crash or a failed unlink comes
after the sink; one throw ends the whole drain. *Correct if* nothing accepted is lost, nothing
is delivered twice without a cause, a batch is given up only after its retries, for good, and
openly, and everything is settled in the end.

**Coordination engine, dispatch** (`team-runtime/src/coordination-engine.ts`). *State:* the
dispatch intents and the edges of the flow ledger; a mutex per edge. *Operations:*
recordHandoff, dispatchViaOutbox, deliverDispatchIntent, abandonDispatchIntent, the edge's
passage created, delivered, acked, responded, closed or cancelled. *Hard:* delivery has two
attempts which can overlap; the edge is marked after the mutex was left. *Correct if* a
handoff is in the inbox once, a cancelled one does not run, a closed one stays closed.

**Role run and role loop** (`role-run-coordinator.ts`, `inline-role-loop-runner.ts`,
`app-gateway/src/role-run-startup-recovery.ts`). *State:* the run record (status, inbox,
iteration count, last task) in a store; in memory the set `activeRuns` and an abort
controller. *Operations:* getOrCreate, enqueue, dequeue, setStatus, incrementIteration, fail,
ensureRunning, cancel, restart. *Hard:* "is a loop active" lives in memory, "what is there to
do" in the store, and every change of either is an `await` apart; the report of a failure can
dispatch to the run that is about to end. *Correct if* no handoff is stranded and the step
budget holds.

**Flow ledger, fan-out and merge** (`coordination-engine.ts`, `handoff-planner.ts`,
`recovery-director.ts`). *State:* the flow's status, active, completed and failed roles, its
edges and its shard groups. *Operations:* the materialisation of a reply or failure in a
sequence of mutex sections, the plan for merge or retry, hop limits, recovery by the lead.
*Hard:* the outcomes of shards are materialised side by side, section by section; an outcome
can be materialised again after a crash or a failed acknowledgement. *Correct if* a fan-out is
merged with what its shards said, merged again only after a failure, no message is
dispatched twice, and the flow ends.

**Run journal, effect ledger, write-ahead log** (`role-runtime/src/react-engine/run-journal.ts`,
`effect-ledger.ts`, `effect-wal.ts`, driven by `agent-core/src/react-agent.ts` and
`role-runtime/src/llm-response-generator.ts`). *State:* the journal message of a run, a log
file, the ledger in memory, the transcript. *Operations:* load, restore, checkpoint, complete,
admit, start, record, replay. *Hard:* a restart between any two of them; torn lines; results of
an aborted activation that arrive later; providers that reuse tool-call ids. *Correct if* an
effect is carried out at most once per proposal, none is forgotten, and no call is answered
with another effect's result.

**Worker runtime** (`worker-runtime/src/in-memory-worker-runtime.ts`,
`team-store/src/worker/file-worker-session-store.ts`). *State:* sessions with a status, an
execution token, an abort controller and, for background work, a pending invocation; one file
per session. *Operations:* spawn, send, resume, interrupt, cancel, hydrate, restart of
background work. *Hard:* a completion races an interrupt, a deadline, a cancellation, another
send and another spawn of the same key, and the token decides; the writes of the file are not
ordered among themselves. *Correct if* who was overtaken settles nothing, every run can still be
stopped, and background work that a restart interrupted is taken up exactly if it was not over.

**Worker result inbox and joins** (`team-store/src/worker/file-worker-result-inbox-store.ts`,
`app-gateway/src/mission-thread-bridge.ts`, `app-gateway/src/routes/mission-routes.ts`).
*State:* notifications pending or consumed, joins waiting, satisfied or abandoned, recovery
events. *Operations:* putNotification, consumeNotification, putJoin, satisfyWaitingJoins,
abandonExpiredJoins; the pass of the bridge; the projection of results into a user's follow-up.
*Hard:* the bridge and the follow-ups consume side by side, each in several writes; a result and
a deadline meet; a pass fails half-way. *Correct if* every result arrives, a consumed one is in
the message that consumed it, and the join is decided once.

**Scheduled tasks** (`team-runtime/src/scheduled-task-runtime.ts` and its store). *State:* tasks
with a next run and a version. *Operations:* claimDue with a lease of a minute, dispatch, next
run. *Hard:* the dispatch comes before the record that it happened. *Correct if* a due task is
dispatched once per run time and again later.

**Explicit workflows** (`team-runtime/src/explicit-workflow-runtime.ts`). *State:* one record
per workflow: the status, the steps with their attempts, grants, proposals and receipts, the
events processed, the retries left. *Operations:* signal, admitEffect, recordEffectReceipt (with
its retry or its join), reconcileJoin, each a read, a computation and a put against the version
that was read. *Hard:* overlapping calls; the join and the record are two files; receipts of
attempts that are over; clocks read at the beginning of a call. *Correct if* what was handed out
or acknowledged is in the record for good, and a step goes on exactly as its join was decided.

**Uploaders and recorders** (`coalescing-state-uploader.ts`, `serial-batch-uploader.ts`, the
`runtime-*-recorder.ts`). Bounded queues in front of slow stores; correct if the newest value
of a key is written last and drops are reported.

**Context and memory** (`context-state-maintainer.ts`, `workspace-memory-writer.ts`,
`session-memory-refresh-worker.ts`). Summaries of threads; a small queue of refresh jobs.

**File stores** (`team-store/src`, `shared-utils/src`). Versioned puts, atomic writes, keyed
mutexes: the ground on which "one store operation is one step" rests in every module.

**Gateway** (`app-gateway/src`). HTTP routes, missions, startup reconciliation, recovery actions,
tool permissions, and an idempotency store for requests, correct if a key is carried out once
within its time.

**Browser relay** (`browser-bridge/src/transport/relay-gateway.ts`,
`browser-relay-peer/src/peer-runtime.ts`, `peer-loop.ts`). *State:* in the gateway, requests
pending or inflight with a claim, the peers with what they reported, pulls that wait; in each
peer the next call of its cycle and the work it has. *Operations:* dispatch, register, report
targets, heartbeat, pull, submit, list, the timer of a request. *Hard:* claims lapse while their
holder works, heartbeats renew them, a result may come late or from a worker that was killed, and
the daemon forgets everything when it restarts. *Correct if* the result a caller gets is that of
the last attempt, a worker that is heard keeps its claim, nobody who waits is passed over, and
every dispatch is settled.

**Browser sessions** (`browser-bridge/src`), **response generation** (`role-runtime/src`), **model
adapter** (`llm-adapter/src`), **quality suites** (`qc-runtime/src`), **user interfaces**
(`control-center`, `tui`, `cli`, `desktop`), **MCP adapter** (`agent-core-mcp`), **types**
(`core-types`): mostly input and output, text and presentation.

### How they interact

```
user, schedule --> gateway --> flow-start outbox --> engine --> dispatch outbox --> role run inbox
                                                       ^                                |
                                                       |                            role loop
                                                 flow ledger                            |
                                                       |                         role runtime: rounds,
                                                 role-outcome outbox <-- reply/ -- run journal, tools
                                                                         failure        |
                                                                                    workers, browser
```

The outboxes turn each of the engine's calls into at-least-once delivery; everything behind an
outbox has to be idempotent. A worker's result that nobody waits for any more goes through the inbox:
the bridge enqueues it, satisfies the join of the workflow that asked for it, and a follow-up of the user
carries it into the thread. Browser actions go through the relay to a peer. The dispatch side does this by the state of the edge and by looking
for the task in the run, the ledger side by `hasDuplicateHandoff`, retry counts and the status of
the group, the role runtime by the effect ledger. The models follow this division.

`PROJECT.json` lists the hazards of the code line by line, with the properties that would catch
each going wrong, or a note where none does.

## 2. The models

| Module | What it models | Source |
| --- | --- | --- |
| `AtLeastOnce` | abstract: an accepted intent is owed until delivered or openly given up | the contract of an outbox |
| `Outbox` | batch files, leases, drain, fast paths, crashes; refines `AtLeastOnce` | `file-batch-outbox.ts`, `outbox-batch-shipper.ts`, fast paths of the engine |
| `Outbox_proofs` | the inductive invariant of `Outbox`, its theorems, the refinement | |
| `RoleRun` | dispatch and delivery to one run key, coordinator, role loop, restart | `coordination-engine.ts`, `role-run-coordinator.ts`, `inline-role-loop-runner.ts`, `role-run-startup-recovery.ts` |
| `RoleRun_proofs` | the inductive invariant of `RoleRun`, and its theorems | |
| `FlowLedger` | edges, shard groups, status and hop limits of one flow | `coordination-engine.ts`, `handoff-planner.ts`, `recovery-director.ts` |
| `FlowLedger_proofs` | the inductive invariant of `FlowLedger`, and its theorems | |
| `RunJournal` | journal, effect ledger and log of one run, over restarts | `run-journal.ts`, `effect-ledger.ts`, `effect-wal.ts`, `react-agent.ts`, `llm-response-generator.ts` |
| `Replay_proofs` | what the replay of a log computes, for every log | |
| `RunJournal_proofs` | the inductive invariant of `RunJournal`, and its theorems | |
| `WorkerSession` | one session: spawns, calls, interrupts, deadlines, its file, crash and restart | `in-memory-worker-runtime.ts`, `file-worker-session-store.ts` |
| `WorkerSession_proofs` | the inductive invariant of `WorkerSession`, and its theorems | |
| `WorkerInbox` | notification and join of one worker result, the bridge's pass, follow-ups | `file-worker-result-inbox-store.ts`, `mission-thread-bridge.ts`, `routes/mission-routes.ts` |
| `Workflow` | one explicit workflow, over `WorkerInbox` | `explicit-workflow-runtime.ts` |
| `Workflow_proofs` | the inductive invariant of `Workflow` with `WorkerInbox`, and its theorems | |
| `Relay` | the relay gateway and the workers of its peers | `relay-gateway.ts`, `peer-runtime.ts`, `peer-loop.ts` |
| `Relay_proofs` | the inductive invariant of `Relay`, and its theorems | |
| `MC...` | symmetry, and the values that a cfg cannot write | |

`Workflow` EXTENDS `WorkerInbox` and is checked together with it: the workflow's calls, the bridge, the
follow-ups and the worker in one state space. The others compose by assumption and guarantee. `Outbox` implements
`AtLeastOnce`. `RoleRun` and `FlowLedger` use of an outbox what `AtLeastOnce` promises: an intent
stays owed until a delivery succeeded or was abandoned, and a delivery may be repeated. `FlowLedger`
uses of `RoleRun` that a recorded handoff is answered, abandoned or lost, and `RoleRun` shows when the
last can be. `RunJournal` is what happens inside one activation of `RoleRun`. `WorkerInbox` uses of
`WorkerSession` that a worker ends once.

**Granularity.** An action is what runs between two awaits that another actor can observe: a store
write, a mutex section, an in-memory decision. Where the code reads in one section and writes in a
later one, so does the model, with the value read kept in a variable.

### Outbox

| Variable | Code |
| --- | --- |
| `records` | the batch files: `state`, `attemptCount`, `leaseId`; `availableAt` and `leaseExpiresAt` as the time left |
| `fast` | where the fast path of a batch is, and the lease it holds |
| `scheduled`, `drainPc`, `force`, `cur`, `claim` | the timer, `draining`, the argument of `drain`, the batch in process, the claimed list |
| `up`, `faults` | the process and the bound on crashes and failed operations |
| `accepted`, `delivered`, `failures`, `excused`, `dropped` | history, read by no action |

`TimerFires`, `Flush`, `DrainClaim`, `DrainEmpty`, `DrainSinkOk`, `DrainSinkFail`, `DrainAck`,
`DrainAckFault`, `DrainReschedule`, `DrainDeadLetter`, `DrainDropped` and `DrainThrows` are the
statements of `drain` and `processBatch`; `EnqueueClaimed`, `FastSinkOk`, `FastSinkFail`, `FastAck`,
`FastAckFault`, `FastRelease` and `FastReleaseFault` are one fast path. Abstracted: the order of due batches (any), the
content of a batch, the delays 0 and 100 ms before a drain (the timer may fire at any time). A claim
that fails half-way is a claim of all followed by `DrainThrows`.

### RoleRun

`run` is the stored record, `loop` the role loop ("off" when `activeRuns` lacks the key), `attempt`
the fast path and the drain of each handoff, `edge` and `intent` the ledger's and the outbox's view of
it, `outcome` and `stage` how far its answer is materialised, `acks` the acknowledgements that were
fired and not awaited. `Deliver...` are the steps of `deliverDispatchIntent`, `Loop...` those of
`ensureRunning`'s loop, `Respond`, `Close`, `PlanRetry`, `DispatchRetry` those of the outcome's
materialisation that touch the run. Faults: `crash` (memory is gone, `Recover` is the reconciliation
at startup), `lapse` (the fast path's lease runs out and the drain delivers beside it), `store` (a
write throws; `AbandonFails` is the one of a dead letter whose edge is not cancelled then). A crash starts over
the outcomes that are under way, and may start over the one the loop waits for, whose acknowledgement may be missing. Abstracted: the number of tasks stands for the hop limit, since every handoff is a new
task; a failed task may be given a retry while one is left (the fan-out is `FlowLedger`'s); a second
answer of the same task restarts its materialisation. `excused` is the history of the handoffs the
program is known to give up; every action that adds to it says why.

### FlowLedger

`edges` are the handoffs in the order they were recorded; `groups` the shard groups by the edge whose
reply fanned out; `outcome` the reply or failure of each edge and the mutex section its materialisation
has reached: respond, mark, close, shard, decide, planMerge, planFailure, recover, dispatch. `settings`,
chosen in Init, are the hop limits of the flow and the faults it may meet, so that one run covers long flows
without faults and shorter ones with them; `MaxHops` is how many handoffs have a name, and no setting
allows more. Every
section is an action (`Materialize` is their union), so outcomes of several shards interleave at each
of them. Dispatches inside one outcome are a set that is worked off in any order, an over-approximation
of the code's fixed order. Faults: `crash` and `throw` stop a materialisation, which starts again;
`replay` repeats one that was finished; `abandon` is the outbox giving a dispatch up, and `lose` (`Lose`) stands for
whatever loses a handoff for good, a crash between its edge and its intent or between the inbox and its outcome.
`fate` says what became of a handoff: a lost one is never answered, a given-up one may be answered all the same,
since the delivery that failed may have reached the run before its edge was cancelled; its edge is then opened again. The contents of
merges and briefs are data. History: `merges` counts, `early` names the groups merged with a shard
outstanding.

### RunJournal

`journal`, `wal` and `native` are on disk, `ledger`, `transcript`, `calls`, `walSeq` in memory. A call
goes proposed, admitted, execute, record, done; each step is an append to the log that may fail. An
effect is an event, and a receipt is the number of the event it comes from, so that an answer can be
traced to what happened. `Activate` begins an activation of the same or another task under the same run
key; `LoadJournal` replays the log above the watermark and answers what was open (`Reconciled`,
`ResumeResults`). `prior` is `priorResults`: the answer to a proposal that was carried out before is kept under its id
for the whole activation, and `AnswerAgain` gives it to every later call of that id, whose effect is then never started.
Faults: `crash` (which may tear the last line), `abort` (the calls go on and write
late, `LateResult`), `write` (an append or a checkpoint throws). History: `events`, `fresh`, and `gap`,
which records per task that journal and log may disagree because a checkpoint or a line was lost; a gap
concerns the task at work and, while it is there, the journal of another task, into which the log would be
replayed. Properties that leave such runs out say so in their name or comment, and the hazards list them.

### WorkerSession

One key. `entries` are the objects the map held for it, the last one being the current: a second spawn of a
foreground key replaces the entry, and calls of the old one go on. `calls` are the invocations of `send`, by
whom they were made (spawn, ask, the summary pass of a timed-out spawn, the restart of background work), each
asked, started, ended or lost. `Start` and `StartUnavailable` are the beginning of `send`; `Finish`, `Throw`
and `Rejected` its three ends (a result, an error, the abort that `raceWorkerExecutionWithAbort` turns into
one); `Interrupt`, `Cancel`, `Deadline` and `ParentAbort` who may stop it. `Persist` puts a snapshot under
way and `Land` lets any of them reach the `file`, since the store renames without a mutex; the caller awaits
only the write that its call started. `Crash` and `Restart` are the end of the daemon and
`hydrateSessions` with `restartBackgroundInvocations`. Abstracted: what a handler does (it ends in any of four
results, or throws), bindings and progress records. A write of the file that fails is not modelled, nor is
`waiting_input`, which needs an interrupt without a reason that nobody sends. History: `interrupted`, `work` and
`recovery`, and in a call `overtaken`, which says whether another call or spawn (displaced) or a cancellation
(stopped) came after it.

### WorkerInbox and Workflow

`note` and `join` are the two files of the inbox, `covered` the recovery event in the thread's log, `doneAt` the
time the worker's session carries. `pass` is where the bridge's pass is; its stages are the steps of
`reconcileInboxConsumption`, `recoverLateWorkerCompletions` and `abandonExpiredMissionJoins`, one store operation
each. `turn` is a follow-up of the user, `posted` the durable messages that carry the result: the result is
projected (`Prepare`), stored with the message (`Post`) and consumed (`Acknowledge`), or by the next pass if
the acknowledgement was lost.

`record` is the stored workflow, `calls` the calls of the runtime in progress: a call reads, computes a
`Draft`, puts the join if its draft needs one, and puts the record if it is still the one it read, up to
`Tries` times. The host names the deadline of the join with its receipt (`Deadlines`), or none (`Never`), as
`joinExpiresAt` is optional. History in `join`: `late`, that a join without a deadline was put when the bridge had
recovered the result already, or was about to say so. There is one join: a retry of the detached step that asks for
another is not told apart from the first asking again. `Signalled`, `Admitted`, `Received` and `Reconciled` are the transitions as functions of the record.
One effect is asked for in each attempt, so an effect is named by its step and attempt; the host names a
retry allowance where the step owns one. The bridge's tick is assumed to reach the mission (its limit is 50
missions a tick), and the role runs of the thread appear as one bit, `active`, that delays the recovery. Two calls
that overlap count as a fault (`Admissible`), so that a run has either an overlap or a crash or failed write.
History: `handed` and `told`, what the host was told.

### Relay

`requests` is the gateway's map, which goes on to say how a request ended after the gateway has forgotten it;
an attempt's number stands for its claim token. `worker` is the service worker of each peer with its next call:
register, report, heartbeat, pull, wait, execute, submit. Every call of the gateway is synchronous and is one
step that begins with the reclaim of what lapsed (`ReclaimExpired`) where the code does; between two calls of a
worker anything may happen. Faults: a call is lost (`CallLost`), the answer of a pull is (`PullAnswerLost`), a
worker is killed while it works, leaving its result `underway` (`WorkerKilled`, `LateSubmit`), or the daemon
restarts with nothing. `CallRefused` is the gateway turning away what it does not know. Abstracted: what the
actions do, capabilities that change, tabs that close.

## 3. Runs and bounds

| Run | Instance | Shows |
| --- | --- | --- |
| `outbox` | 2 batches, 5 tokens, 1 retry, 1 fault | nothing lost, duplicated without cause, or given up early, silently or revocably; the drain owns what it claimed; refines `AtLeastOnce` |
| `outbox_live` | 1 batch, 3 tokens, 2 faults | every accepted batch is settled, even if its fast path hangs |
| `role_run` | 2 handoffs, inbox of 1, 1 step, 1 fault of any kind | the loop owns a running run, cancelled handoffs do not run, closed edges stay closed, nothing is stranded but what is accounted for |
| `role_run_live` | 1 handoff, 2 faults | at most one more activation per fault, every handoff decided |
| `flow_ledger` | lead and 2 roles; 5 hops and no faults, or 4 hops and a throw, replay or abandonment | the flow ends, its group is merged again only after a failure, no recorded result is lost |
| `flow_ledger_live` | lead and 1 role, 4 hops, 2 crashes, throws, replays or lost handoffs | no message twice, no endless wait but for a lost handoff |
| `flow_ledger_early` | lead and 2 roles, 4 hops, no faults | a merge without a shard (section 6) |
| `run_journal` | 2 tasks, 2 proposals, 1 recycled id, 2 rounds and a third after an answer was given again, 3 activations, 2 faults | while the log follows the journal: effects are at most once, durable before they start, answered, and answered with what happened under their id |
| `worker_session` | 3 calls, 2 spawns, 2 writes under way, 2 respawns, stops or crashes | who was overtaken settles nothing, every run can be stopped, a restart takes up exactly what was not over, a deadline ends its runs |
| `workflow` | 3 steps (detached, woken by the inbox, without effects), a join with or without a deadline, 2 callers, 1 retry, times 0 to 2, 1 follow-up, 1 fault or overlap | promises stay in the record, a step follows its join, a consumed result is in its message, the bridge leaves nothing undone |
| `relay` | 2 peers, 2 requests, times 0 to 3, 1 fault | the last attempt answers, claims are kept while their holder is heard, nobody who waits is passed over, every dispatch is settled |
| `relay_lock` | 2 peers, 1 request locked to one and preferring the other, no faults | a locked peer that may not claim (section 6) |

Why these bounds reach the interesting cases:

- *Outbox.* Batches interact only through the drain's list, which needs two: one is worked on while the
  lease of the other runs out. A batch can have three tokens at a time (the file's, a stale fast path's
  and the one being drawn), so two need five; six give the same states. One retry distinguishes a
  rescheduled batch from a dead letter, a lease of one tick a running one from a lapsed one. Delays of 1
  and 2 let the backoff and its ceiling differ.
- *RoleRun.* An inbox of one makes "full" reachable with two handoffs; a budget of one makes the limit
  and the re-entry after a failure reachable. One fault in the large run, two with one handoff. The
  budget and inbox are two in the runs in which the handoffs must fit.
- *FlowLedger.* A fan-out needs two shards; a merge round, a retry and its merge need the fifth hop. Two
  shards are symmetric, the third role adds no new kind of step.
- *RunJournal.* A recycled id needs two rounds; a stale log needs an activation that wrote it, one that
  overlooks it and one that reads it, so three; the worst sequences need two faults. What the kept answer of a repeated proposal does to a later
  call shows in the third round; `ThirdRoundAfterReplay`, a constraint in `MCRunJournal`, allows one only after such
  an answer, since without it a third round repeats the second. With one id the
  calls of a round do not run side by side; every call has a record of its own, and what two calls share
  (the ledger's queue, the sequence number) is serialised in the code. A run with two ids is in the plan.

- *WorkerSession.* A call that overtakes another and a restart's own call are the second and third; two writes
  are what can land in the wrong order. Two events allow an interrupt and a cancellation, a respawn and a stop,
  a stop and a crash.
- *Workflow.* The instance is the approval workflow of `docs/design/explicit-workflow-runtime-slice.md` in small. The
  join has no deadline or expires at 1 of 0..2: a result comes before, at, or after it. Two callers give the lost update that
  the version prevents, two tries that a call gives up; one retry makes a receipt of an attempt that is over.
- *Relay.* The first request may be done by both peers and prefers or is locked to one; the second only by the other.
  A lease of 1 in an action timeout of 2 lapses and is renewed within one request; a peer is stale after 2 and a pull
  waits 1. Peers are told apart by what the requests ask, so there is no symmetry.

Type invariants are run where a module has a constraint worth stating; `WorkerSession` and `Relay` have none.

Deadlock is not checked where the system really stops: the flow is over, the activations are used up.
`Outbox` never stops: its timer fires for ever, so its runs check deadlock.

Every property has a mutant in `PROJECT.json`: a plausible bug of the code, stated in the module above
the definition it replaces, under which the property fails in the same run.

## 4. Fairness

- *Outbox.* Weak fairness of the timer, the drain's next step, the clock and the restart of the process:
  Node runs a due timer and a settled promise, and the gateway is started again. Sinks of the drain are
  assumed to return, since nothing in the code bounds them. Of the fast paths nothing is assumed, so
  `EventuallySettled` holds although one hangs.
- *RoleRun.* Weak fairness of each handoff's delivery, acknowledgement and materialisation, of the loop's
  next step and of the reconciliation at startup. That an activation ends (answer, failure or abort) is an
  assumption: the loop itself sets it no deadline. Weak fairness is enough because no step is disabled again
  and again by another actor: a mutex section ends by a step of its own.
- *FlowLedger.* Weak fairness of the answer to each handoff that is open and not lost (`Awaited`), and of each
  materialisation. That a role answers what is not lost is `RoleRun`'s `EveryHandoffDecided`, taken here as an
  assumption. Of a lost handoff nothing is assumed, nor that a cancelled one is answered.
- *RunJournal.* No liveness is claimed; a tool may run for ever.
- *WorkerSession.* Writes that are under way land, deadlines fire and rejections are delivered: timers and
  promises. No handler is assumed to end, so `DeadlineEndsRuns` speaks of handlers that ignore their abort.
- *Workflow.* The bridge passes every two seconds, time goes on, and the role runs of a thread come to rest
  (which is `RoleRun`'s `EveryHandoffDecided`). The clock comes to every deadline (`Deadlines` are below `MaxTime` in
  the run), which `ResultsArrive` says it needs. Nothing is assumed of the host, the user or the worker: a join without
  a deadline may wait for ever, and is owed only once its worker has ended.
- *Relay.* The clock, and the timer of a request that is due. Nothing is assumed of the peers: `Settled` must
  hold when all of them are gone.

`NeverWaitsForever` is checked with crashes, throws, replays and lost handoffs, and allows the wait for a lost one.
It is checked without fan-out and without abandoned dispatches: with them the hazards at `coordination-engine.ts:1017`
and `:1795` end in a wait.

## 5. What is proved

`Outbox_proofs` proves for all sets of batches and tokens, all delays and limits that satisfy
`OutboxAssumption`, and any number of faults:

| Theorem | Statement |
| --- | --- |
| `TypeCorrect` | `Spec => []TypeOK` |
| `NothingLost` | `Spec => []NoSilentLoss` |
| `NoNeedlessDuplicate` | `Spec => []DuplicateOnlyAfterFault` |
| `DrainNeverOvertaken` | `Spec => []DrainOwnsClaims` |
| `RefusalExplained` | `Spec => []ThrowOnlyWhenOvertaken` |
| `DeadLettersEarned` | `Spec => []DeadLetterEarned` |
| `DeadLettersFinal` | `Spec => []DeadLetterFinal` |
| `Refinement` | `Spec => ImplementsAtLeastOnce` |

`OutboxAssumption` asks only that the absent values are no batch and no token and that the limits are
natural numbers, the lease and the claim limit positive, the retry delay at most its ceiling: what the
constructor of the shipper enforces with `Math.max`.

None of the properties is inductive. `DuplicateOnlyAfterFault` needs to know *who could still deliver* a
batch that was delivered: nobody but the one who is about to acknowledge it (`OnceInv`). That in turn
needs that two holders never have the same lease (`FastInv`), that exactly the inflight files carry one
and a lapsed one is on record (`LeaseInv`), that the drain holds what it claimed (`DrainInv`), that who
acknowledges has delivered (`AckInv`), and that nothing happens to a batch before it is enqueued
(`NewInv`). `AttemptInv` carries the count of failures through claims, releases and reschedules. Their
conjunction `IInv` is proved by one step per action, and under it one per conjunct the action can
disturb. `DeadLettersFinal` adds `FinalInv`: what is about to be reported is a dead letter. For the
refinement every action is shown to be a step of `AtLeastOnce` for one batch or to leave the status of all
batches alone; the lemma `SameFacts` reduces the latter to three facts per batch.

`RoleRun_proofs` proves for any number of handoffs, steps, inbox places, retries and faults:

| Theorem | Statement |
| --- | --- |
| `TypeCorrect` | `Spec => []TypeOK` |
| `LoopOwnership` | `Spec => []LoopOwnsRun` |
| `BoundedActivations` | `Spec => []ActivationsBounded` |
| `NoCancelledActivation` | `Spec => []CancelledNeverRuns` |
| `NothingStranded` | `Spec => []NoUnexplainedStranding` |
| `ClosedForGood` | `Spec => ClosedStaysClosed` |

`RoleRunAssumption` asks that the absent value is no handoff, that limits are natural numbers, with room in the inbox and
at least one step, and that fault kinds are those of the model. The invariant has four layers, each proved from the ones
above it. `BaseInv` ties the loop, the attempts and the stages of an outcome to what they hold: who works has a handoff,
the inbox has none twice, at most one attempt of a handoff is inside the edge's mutex, and what an attempt read there is
still true. `BudgetInv` is bookkeeping: a handoff has a *right* to an activation for each place from which it may still
come to one (the inbox, the loop, the fast path, the drain); its rights and its activations together are at most one more
than the faults, and only a fault makes a right. `ActivationsBounded` alone is not inductive, because nothing in the
number of activations says how many are still coming. `OnceInv` says that without a repeated delivery one attempt is
under way at a time, and that it ends without a second enqueue or a cancellation once the run has the handoff;
`CareInv` that every handoff which was taken is on its way, or is among those known to be lost, with somebody to wake the
loop for what is in the inbox. `NoUnexplainedStranding` is what is left of `CareInv` when nothing moves.

`FlowLedger_proofs` proves for any number of roles, any set of hop limits and any faults:

| Theorem | Statement |
| --- | --- |
| `TypeCorrect` | `Spec => []TypeOK` |
| `HandedOnce` | `Spec => []NoDoubleDispatch` |
| `SecondMergeFollowsFailure` | `Spec => []MergedAgainAfterFailure` |
| `NoResultLost` | `Spec => MissingExplained` |
| `RestIsOver` | `Spec => []FlowOver` |

`FlowAssumption` asks that the lead is a role, that an edge can be absent, and that settings are hop limits from one up,
with as many names for handoffs as the largest one.  `HandedOnce` is almost inductive: `hasDuplicateHandoff` is asked in
the section that records, and overlooks cancelled edges only; those, and the ones opened again, are among the given-up
handoffs, which `NoDoubleDispatch` leaves out (`CancelledIsGivenUp`). `MergedAgainAfterFailure` needs `MergedOnce`: a group without a failed shard was merged never,
or once and says so, which is what the planner reads. `NoResultLost` needs `Results`: the group knows the result of each
shard whose materialisation is past its recording, and the failed ones are in its list, so that a refresh, which starts
from the flow, takes nothing away. Both need only that outcomes, edges and groups fit together (`Shape`), whatever
faults occur.

`RestIsOver` speaks of flows without faults and is the hard one. A flow that is not over must have somebody who moves it on
(`Goes`): a role that is still asked, an outcome that is still to be materialised, or a shard whose group is not merged.
When the last such outcome ends in a wait, the others it waits for must exist, and when the last shard decides on a merge,
its group must expect exactly the shards that were dispatched. So `Undisturbed` also says that an edge is closed exactly
when its outcome says so (`States`), that nothing answers a message before it is dispatched (`Fresh`), that what is still
to be dispatched is a shard not recorded yet or a retry (`Todo`), that a group expects whom its reply mentions
(`Expected`), that active roles have an open edge (`Active`), and that a group merged in time has all its results
(`Settled`). `MergeComplete` is false (section 6), so all of this leaves out the groups merged early. The proof describes
what each action does to stages, edges and groups in a lemma of its own (`...Does`), and then treats the steps that
neither plan nor dispatch together (`PlainStep`).

`RunJournal_proofs` proves for any number of tasks, ids, proposals, rounds, activations and faults:

| Theorem | Statement |
| --- | --- |
| `TypeCorrect` | `Spec => []TypeOK` |
| `HandedOverOnce` | `Spec => []AtMostOnce` |
| `DispatchIsDurable` | `Spec => []DispatchDurable` |
| `AnsweredBeforeAsked` | `Spec => []AnsweredUnlessRecycled` |
| `ReceiptsAreTrue` | `Spec => []ReceiptsTrue` |
| `Agreement` | `Spec => []IInv` |

`JournalAssumption` asks that the absent values are no task and no proposal, that there is a round and an activation, and
that fault kinds are those of the model. Three descriptions of a run have to agree as long as its log follows its
journal (`gap`; `Gapless` of the run at work): the history of what was handed to tools, the ledger and transcript in memory, and the ledger that a restart
would build from journal and log (`OnDisk`). Every layer of the invariant is one of these agreements. `DispatchIsDurable` is about the moments
at which they agree, the other theorems about the runs that read them while they did; where a checkpoint or a line was
lost, the code loses effects (section 6), and nothing is claimed. `BaseInv` is about
memory alone: what a call in each place of its round has in the ledger, and that the journal just written is what memory
holds. `OnceInv` is `AtMostOnce` of every task at any moment, also when no activation is at work. `MemoryInv` relates
memory to history: every effect of the round under way is known to the ledger (which is why its id is not handed over
again), every earlier one has its answer, and receipts are true. `PriorInv` says of an answer that is kept for the activation that
the transcript has it, of an effect under the same id, so that giving it again adds no receipt of another's. `FoundInv` and `DiskInv` say the same of what a restart
would find, which is what `LoadJournal` turns into memory. `SyncInv` relates the two: record for record, `OnDisk` is
the ledger, or is ahead of it by an entry whose append failed but is in the file. That case is why `LogInv` is
needed: such an entry has the number that the next append uses again, so the log may hold two entries of one number, and
the replay is right only because the first is of an effect that is still active, and says of it what is true. `LateInv`
is about the calls that an aborted activation left behind, whose results land in the log under the old numbers.

The replay itself is treated in `Replay_proofs`. `Replayed` is a fold over the places above the watermark in the order of
their numbers. Its recursion is shown to have a solution on the subsets of a finite set, and only one, by taking the
smallest subset on which that fails (`SubsetInduction`), since the induction theorems of the library cannot be
instantiated. What the invariant needs follows: `ReplayAppend` (an entry behind all others is applied last),
`ReplaySame` (what the watermark covers changes nothing), `ReplayNothing` (so after a checkpoint the replay is the
journal's ledger), and `ReplayKeeps` (what each entry preserves, the replay preserves).

`WorkerSession_proofs` proves for any number of calls, spawns, writes under way and events:

| Theorem | Statement |
| --- | --- |
| `TypeCorrect` | `Spec => []TypeOK`, the types, stated in the module of the proofs |
| `Reachable` | `Spec => []RunReachable` |
| `ExactRecovery` | `Spec => []RecoveryExact` |
| `OvertakenUnseen` | `Spec => OvertakenNeverSettles` |

Three relations carry them. `CallInv` says of each call how its token, its abort and its history stand to those of its
entry: a call that was not overtaken has the entry's token, and the controller of a run that is not aborted is its own.
`WorkInv` says that the entry of a background session owes an invocation exactly if the newest one is not over.
`FileInv` is about snapshots: a later one knows of everything an earlier one knew, and a file on which no older snapshot
landed tells what the last write told. `RecoveryExact` is about a restart, and is inductive only with all three: what a
restart finds was decided by writes that any number of later ones may have passed.

`Workflow_proofs` proves for any definition of steps that satisfies `WorkflowAssumption`, any number of callers,
follow-ups, tries and faults:

| Theorem | Statement |
| --- | --- |
| `TypeCorrect` | `Spec => []TypeOK` |
| `PromisesHold` | `Spec => []PromisesKept` |
| `StepsFollowJoins` | `Spec => []StepFollowsJoin` |
| `ConsumptionCarried` | `Spec => []ConsumedByCarrier` |

The assumption asks that a workflow has steps and names only its own (`validateDefinition`), that limits are natural
numbers, and that one step at most is detached, since the model has one join.

The argument has two halves. The first is about records alone: `Good` says what the attempts of a step look like in
every record that is put (each but the last failed and has a receipt, so a proposal without one is the last), and `Keeps`
that a later record says of every attempt what an earlier one said. One lemma per transition (`SignalledGood`,
`AdmittedGood`, `ReceivedGood`, `ReconciledGood`) shows that it makes a good record of a good one, keeps what it says,
and follows the join; they need nothing about other calls. The second is about who may put: `CallInv` says what a call
has seen, what its decision rests on, and that a receipt that starts a join finds it put. A put against the version that
was read is then a transition of the stored record, whatever went on in between; that a decided join stays as it is
(`JoinMoves`) keeps a reconciliation valid that read the join earlier. `CarrierInv` is the inbox's own: who is about to
acknowledge has posted. That `PromisesKept` is not inductive alone shows in the receipts: a receipt recorded for an
attempt that has one would replace it, and only `Drafts`, which is true of what the call *read*, together with the
version excludes that.

`Relay_proofs` proves for any number of peers, requests and faults, any capabilities, preferences and locks, and any
lengths of leases, waits and time-outs:

| Theorem | Statement |
| --- | --- |
| `TypeCorrect` | `Spec => []TypeOK`, the types, stated in the module of the proofs |
| `LastAnswers` | `Spec => []LastAttemptAnswers` |
| `NobodyPassedOver` | `Spec => []NotPassedOver` |
| `KeptLease` | `Spec => KeptWhileBeating` |
| `Agreement` | `Spec => []IInv` |

`RelayAssumption` asks that the absent value is no peer, that capabilities and wishes are about peers, and that numbers
and lengths of time are natural. What may become of one request at once is said without regard to who does it: `Advances`
(a claim is counted, or stays with its holder, and is not withdrawn before its lease ran out) and `StillFirst` (a request
never handed out was so before). Reclaim, renewal, time-out, answer, claim and restart are each shown to move a request
so (`...Moves`); the steps then only combine them. `WorkInv` relates the gateway to the workers: the request of a worker
was handed to its peer, and while its attempt is the last one its peer holds the claim, which ends no sooner than a lease
after the worker was last heard. That is what `KeptWhileBeating` needs before a step, and `Advances` is what it needs of
the step. `NotPassedOver` has the clock in it (a preferred peer may go stale at any tick), so the invariant behind it is
about requests that are owed to a waiting worker whoever is there (`OwedInv`). It is decided at one place, when a dispatch
notifies the waiters; and there only for a worker that is among them, which is `WaiterInv`: a waiter whose answer nobody
reads any more may stand before it, take the request, and be gone. The notification is a fold over the waiters, which
changes the very list it goes over. `NotifyKeeps` treats it once: what is carried from before a waiter to after it, for
each of them, holds after the last; what is carried here is `Between`.

Every inductive invariant was checked by TLC as an invariant of the instances of section 3 (and of larger ones, with all
fault kinds at once) before it was proved, and is stated at the beginning of its module.

Every invariant and every action property of the passing runs is the statement of a theorem. Only model-checked is
liveness: `EventuallySettled`, `EveryHandoffDecided`, `NeverWaitsForever`, `DeadlineEndsRuns`, `ResultsArrive`,
`Settled`. Fairness and ENABLED are beyond the prover.

## 6. What the runs found

Two runs end in a violation of what the repository says of itself:

1. `flow_ledger_early`: the gate of the merge looks at the edges recorded so far, while the fan-out still
   records its shards; the lead is sent a merge without one (`coordination-engine.ts:998`).
2. `relay_lock`: `docs/design/browser-relay-bridge-v1.md:302` lets peer identity, capability, target lock and
   claim token decide who executes. The preference for a peer is weighed before the lock, so a request that is
   locked to one peer's tab and prefers another peer that is online is kept from both (`relay-gateway.ts:368`).

Also seen while modelling. Where a property would fail because of one of these, its statement excludes exactly
that case and says so. Some disagree with a document as well, which is then named: of the kept answers, the failed
checkpoint, the join that is abandoned in time and the repeated receipt TLC found the violation, too, with an invariant
that is not kept, since the set of runs is kept small (section 8).

- *Role runs.* Between the role loop's last, empty dequeue and its removal from `activeRuns` lies an `await`; a
  handoff enqueued and signalled there stays in the inbox of an idle run (`inline-role-loop-runner.ts:135`). A
  failed shard's retry is dispatched inside the report of the failure, while its loop still counts as active, and
  nobody wakes it (`:279`). A handoff behind a failing activation stays in the failed run's inbox until the next
  signal; one that was taken out of the inbox at a crash is not put back; a replayed reply reopens a closed edge.
- *Flows.* A replayed failure sets a completed flow to failed; a crash between "merged" and the dispatch of the
  merge leaves the flow waiting; a group is merged a second time after a shard's retry
  (`docs/design/coordination-concurrency-audit.md:125` speaks of one merge); a shard that succeeds in its retry
  stays among the failed ones. A dead letter whose report was interrupted is never reported.
- *Journal.* The answer to a proposal that was carried out before is kept by id in `priorResults`, which lives as long
  as the activation (`engine-agent-runner.ts:77`). A call of a later round under that id is admitted, answered with the
  old receipt and never started, where the comment at `effect-ledger.ts:64` wants fresh work "neither replayed from a
  stale receipt nor rejected". `ReceiptsTrue` says what remains true of such an answer. A checkpoint that fails is only
  logged (`llm-response-generator.ts:1383`), and what is dispatched after it may be found nowhere by a restart, where
  `docs/design/effect-ledger-migration-slice.md:53` promises `effect_indeterminate`. Reconciliation asks for a result by id alone, although a recycled id may be admitted in a later round
  (`effect-ledger.ts:151`); an effect that was carried out may then be reported as never dispatched (`:317`). A
  run that does not resume starts its log at 0 on top of an old log; a torn line makes the next one unreadable. Because the log belongs to the run key and not to the task, what a second
  task appends after its first checkpoint failed is replayed into the journal of the first, if that is still in flight
  (`run-journal.ts:115`, `llm-response-generator.ts:1383`): the first then finds effects of the second in its ledger.
  This sequence came out of the proof; without it in `gap` the inductive invariant fails.
- *Worker sessions.* A handler that answers the abort of a time-out with another error than the abort's reason makes
  the resumable session "cancelled" and not retryable (`in-memory-worker-runtime.test.ts:982` has the same error). An
  interrupt that preserves late results makes the session deaf to later aborts until some call's `finally`
  (`DeadlineEndsRuns` excludes it). A snapshot "running" that lands after the snapshot "cancelled" runs a cancelled
  background invocation again after a restart (`RecoveryExact` excludes it).
- *Inbox.* A join can be abandoned although its result came before the deadline: results count from the time the
  worker ended, but abandonment goes by the clock of the pass, and a pass that finds a role run active, or whose write
  failed, abandons without having looked (`mission-thread-bridge.ts:512`, `:298`;
  `docs/design/durable-inbox-join-migration-slice.md:134` says event times decide). A join that is put after its
  notification was recovered is never satisfied: with a deadline it is abandoned, without one it waits for ever, as
  does one whose worker never ends (`explicit-workflow-runtime.ts:254`). Two follow-ups may both carry one result.
- *Workflows.* After a crash between the join and the record, the receipt is repeated with another creation time and
  refused ("worker join id reused"), and the step stays where it is (`explicit-workflow-runtime.ts:248`;
  `docs/design/explicit-workflow-runtime-slice.md:59` counts receipts among what can be repeated after a restart). A detached
  step that a join completes emits no event of its receipt, so a step triggered by it is not woken. Receipts and
  retries are taken in a workflow that has failed.
- *Relay.* A heartbeat renews every claim of its peer, also one whose worker never got the answer of its pull: a lone
  peer's lost request is not handed out again before it times out. A worker that runs does not register again after
  the daemon restarted (`peer-runtime.ts:156`). A reclaimed request wakes no waiting pull, and a waiter nobody reads
  any more may claim. A refused result of a withdrawn claim means that the actions were carried out twice.

## 7. What is not modelled

- What the properties leave out because the code does it (section 6): in the journal, runs that read journal and log
  while these disagreed, and recycled ids; among role runs, the handoffs known to be given up (`excused`); among flows,
  lost handoffs, and abandoned ones in a fan-out; among joins, those nobody can decide. The hazards say so of each.
- A second crash between an outcome's last section and its acknowledgement by the drain (the one by the loop is in
  `Crash`); a failing read of the file at the release of a fast path; a second join of one step.
- Of the modelled components: forced tool rounds, `reconcileEffect` (no executor implements it), journals of
  older formats and compaction in the run journal; the delegated result and `finish()` of a role run, which
  nothing in the repository produces; worker bindings, heartbeats and progress records; failing writes of a
  worker's session; several effects in one attempt of a workflow; a worker that is continued after its result.
- Wording, formatting, prompts, model protocols, HTTP, driving a browser, user interfaces: no state whose
  interleavings matter, or nothing TLC could check against.
- Components with state that are still to be done are in the plan.

## 8. Plan

The set of runs is kept small: a new module takes one passing run with its safety and liveness properties together
(or joins the run of a module it composes with), and a violation run only for a real disagreement with a document.
Done so far: the outbox and its refinement, role runs, the flow ledger, the journal, worker sessions, the inbox with
the workflows, the relay. Left, in order:

1. `ScheduledTasks`: claim, dispatch, next run. The search for the next run steps in minutes from the trigger
   and requires second 0; first the arithmetic against its definition, then the effect on the lease.
2. `IdempotencyStore`: pending and persisted answers, pruning, restart; abstract: once per key within its time.
3. `CoalescingUploader`, browser session leases, tool permissions, recovery runs.
4. `RunJournal` with two concurrent ids; `FlowLedger` composed with `AtLeastOnce` for the
   role-outcome outbox instead of its fault kinds.

Theorems: every module is proved about. Left are the safety halves of the liveness properties: that what is still to
come always has somebody who can do it, as `CareInv` says of role runs and `Undisturbed` of flows, for the outbox, the
worker sessions and the workflows.

## 9. Running it

```
tlc -workers 2 -config MCOutbox.cfg MCOutbox        # any run: its cfg, its MC module
tlapm Outbox_proofs.tla                             # any module of proofs
```

The largest runs (`role_run`, 2.7 million states; `run_journal`, 2.1; `workflow`, 2.0; `flow_ledger`, 1.9; `relay`,
1.1) take one to two minutes each on two cores, `workflow` three to four because of its liveness; the proofs of `RoleRun` and `RunJournal` about five, those of each other module one or two.
