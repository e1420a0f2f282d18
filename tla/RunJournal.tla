----------------------------- MODULE RunJournal -----------------------------
(***************************************************************************)
(* The journal of one role run and its effect ledger: createRunJournal,    *)
(* RunEffectLedger and the write-ahead log of effect transitions, driven   *)
(* by the ReAct loop of the role runtime.                                  *)
(*                                                                         *)
(* A tool call is an effect.  Its admission and its start are appended to  *)
(* the log before the call is handed to its tool, and its result when the  *)
(* tool has answered.  Before every model call the transcript and the      *)
(* ledger are written to the journal and the log is deleted.  A restarted  *)
(* activation of the same task loads the journal, replays the log above    *)
(* the journal's watermark and answers what had no result yet.             *)
(*                                                                         *)
(* An action is one durable write, one hand-over or one decision of the    *)
(* loop.  The transitions of a ledger are serialised by its queue.  The    *)
(* calls of a round run side by side.  Calls of an aborted activation may  *)
(* still return and write to the log when another activation of the run    *)
(* has begun.                                                              *)
(***************************************************************************)
EXTENDS Integers, SequencesExt

CONSTANTS
  Tasks,            \* what an activation works on, by its fingerprint
  Ids,              \* the tool-call ids a provider draws from; it may recycle them
  Proposals,        \* what a call asks for: the signature of its tool and input
  NoTask, NoProposal,
  MaxRounds,        \* maxRounds of the loop
  MaxActivations,   \* bound on the activations of a behaviour
  FaultKinds,       \* which of "crash", "abort" and "write" may happen
  MaxFaults         \* bound on the faults of a behaviour

ASSUME JournalAssumption ==
  /\ NoTask \notin Tasks
  /\ NoProposal \notin Proposals
  /\ MaxRounds \in Nat \ {0}
  /\ MaxActivations \in Nat \ {0}
  /\ FaultKinds \subseteq {"crash", "abort", "write"}
  /\ MaxFaults \in Nat

VARIABLES
  journal,     \* the journal message in the store, one for the run key
  wal,         \* the log file, one for the run key
  native,      \* ids whose error text went to the thread's tool messages
  pc,          \* where the activation is
  task,        \* what it works on
  round,       \* the round of its loop
  transcript,  \* the tool calls in its messages, with their results
  ledger,      \* its RunEffectLedger
  walSeq,      \* the sequence number of its last log entry
  calls,       \* the calls of its current round
  prior,       \* the answers it gave to repeated proposals, by id (priorResults)
  late,        \* the calls an aborted activation still waits for, its number and its walSeq
  activations, \* activations so far
  faults       \* faults so far

\* History, read by no action.
VARIABLES
  events,      \* every call that was handed to its tool
  fresh,       \* per task, the events before its activation last began anew
  gap          \* per task, whether its journal and the log may disagree: "open" while
               \* an activation could still close it, "read" once a restart read them so

diskVars    == <<journal, wal, native>>
runVars     == <<task, round, transcript>>
ledgerVars  == <<ledger, walSeq>>
historyVars == <<events, fresh, gap>>
vars == <<diskVars, pc, runVars, ledgerVars, calls, prior, late, activations, faults, historyVars>>

-----------------------------------------------------------------------------
(* Receipts are the numbers of the events they answer, or one of these.    *)
NoReceipt     == 0
NotDispatched == -1
Indeterminate == -2
Errored       == -3

Receipts == Nat \cup {NotDispatched, Indeterminate, Errored}
Statuses == {"none", "admitted", "started", "committed", "failed", "indeterminate"}
Active   == {"admitted", "started"}
Pcs      == {"off", "load", "restore", "restoreCut", "checkpoint", "checkpointCut",
             "model", "admit", "batch", "complete", "completeCut"}
CallPcs  == {"none", "proposed", "admitted", "execute", "record", "done"}

Rounds  == 0..MaxRounds
Records == [status : Statuses, sig : Proposals \cup {NoProposal}, round : Rounds, receipt : Receipts]
Results == [id : Ids, sig : Proposals, round : Rounds, receipt : Receipts]
Entries == [seq : Nat, op : {"admit", "start", "result"}, id : Ids,
            sig : Proposals, round : Rounds, receipt : Receipts]
TornLine == [seq |-> 0, op |-> "torn"]

NoRecord    == [status |-> "none", sig |-> NoProposal, round |-> 0, receipt |-> NoReceipt]
EmptyLedger == [i \in Ids |-> NoRecord]
NoCall      == [pc |-> "none", sig |-> NoProposal, receipt |-> NoReceipt]
NoCalls     == [i \in Ids |-> NoCall]
NoPrior     == [i \in Ids |-> NoReceipt]
NoLate      == [seq |-> 0, running |-> {}, by |-> 0]
NoJournal   == [task |-> NoTask, status |-> "none", transcript |-> {}, round |-> 0,
                ledger |-> EmptyLedger, watermark |-> 0]

Answered(results) == {x.id : x \in results}

Fault(kind) ==
  /\ kind \in FaultKinds
  /\ faults < MaxFaults
  /\ faults' = faults + 1

-----------------------------------------------------------------------------
(* RunEffectLedger                                                         *)

\* Mutant of Reusable: the round is not asked.
ReusableSameRound(record, r, sig) ==
  \/ record.status \in {"committed", "failed"}
  \/ record.status = "indeterminate" /\ record.sig # sig

\* effectIdReusable: the id of a finished effect, in another round; that of an
\* indeterminate one only for other work.
Reusable(record, r, sig) ==
  /\ record.round # r
  /\ \/ record.status \in {"committed", "failed"}
     \/ record.status = "indeterminate" /\ record.sig # sig

Admissible(l, i, sig, r) == l[i].status = "none" \/ Reusable(l[i], r, sig)

\* admit, start and recordResult; a transition that cannot be applied throws,
\* which the replay of the log skips.
AfterAdmit(l, i, sig, r) ==
  IF Admissible(l, i, sig, r)
  THEN [l EXCEPT ![i] = [status |-> "admitted", sig |-> sig, round |-> r, receipt |-> NoReceipt]]
  ELSE l

AfterStart(l, i) ==
  IF l[i].status = "admitted" THEN [l EXCEPT ![i].status = "started"] ELSE l

AfterResult(l, i, receipt) ==
  IF l[i].status = "started"
  THEN [l EXCEPT ![i].status = "committed", ![i].receipt = receipt]
  ELSE l

\* Mutant of Released: the record goes with its receipt.
ReleasedRecord(l, results) == [i \in Ids \ Answered(results) |-> l[i]]

\* releaseDurableResults: what the transcript has, the ledger need not keep.
Released(l, results) ==
  [i \in Ids |-> IF i \in Answered(results) /\ l[i].status \in {"committed", "failed"}
                 THEN [l[i] EXCEPT !.receipt = NoReceipt] ELSE l[i]]

-----------------------------------------------------------------------------
(* The log                                                                 *)

Apply(l, e) ==
  IF e.op = "admit" THEN AfterAdmit(l, e.id, e.sig, e.round)
  ELSE IF e.op = "start" THEN AfterStart(l, e.id)
  ELSE AfterResult(l, e.id, e.receipt)

\* The places of the log that the watermark does not cover.
Above(entries, watermark) == {k \in DOMAIN entries : entries[k].seq > watermark}

\* The one that is replayed last: by sequence number, then by place.
LastOf(entries, places) ==
  CHOOSE k \in places : \A j \in places :
    entries[j].seq < entries[k].seq \/ (entries[j].seq = entries[k].seq /\ j <= k)

\* replayEffectWal
Replayed(l, entries, watermark) ==
  MapThenFoldSet(LAMBDA e, known : Apply(known, e), l,
                 LAMBDA k : entries[k], LAMBDA places : LastOf(entries, places),
                 Above(entries, watermark))

HighestSeq(entries, watermark) ==
  Max({watermark} \cup {entries[k].seq : k \in DOMAIN entries})

Entry(op, i, receipt) ==
  [seq |-> walSeq + 1, op |-> op, id |-> i, sig |-> calls[i].sig,
   round |-> round + 1, receipt |-> receipt]

Torn == wal # <<>> /\ Last(wal) = TornLine

\* append: a line that is put behind a torn one is unreadable like that.
Appended(e) == IF Torn THEN Front(wal) ELSE Append(wal, e)

\* The log is no more what follows the journal: neither for the task at work, nor
\* for another whose journal is still there.
GapOpens == gap' = [t \in Tasks |->
  IF t \in {task, journal.task} /\ gap[t] = "none" THEN "open" ELSE gap[t]]

\* commitLedgerTransition: one entry is appended, then the sequence advances.
Commit(op, i, receipt, l) ==
  /\ wal' = Appended(Entry(op, i, receipt))
  /\ walSeq' = walSeq + 1
  /\ ledger' = l
  /\ IF Torn THEN GapOpens ELSE UNCHANGED gap

\* The append throws when nothing, a part or all of the line is in the file.
AppendFails(e) ==
  /\ Fault("write")
  /\ wal' \in {wal, Appended(TornLine), Appended(e)}

\* The ledger is then rolled back.
CommitFails(op, i, receipt) ==
  /\ AppendFails(Entry(op, i, receipt))
  /\ UNCHANGED <<ledgerVars, historyVars>>

-----------------------------------------------------------------------------
Init ==
  /\ journal = NoJournal
  /\ wal = <<>>
  /\ native = {}
  /\ pc = "off"
  /\ task = NoTask
  /\ round = 0
  /\ transcript = {}
  /\ ledger = EmptyLedger
  /\ walSeq = 0
  /\ calls = NoCalls
  /\ prior = NoPrior
  /\ late = NoLate
  /\ activations = 0
  /\ faults = 0
  /\ events = <<>>
  /\ fresh = [t \in Tasks |-> 0]
  /\ gap = [t \in Tasks |-> "none"]

\* The activation is over and its memory is gone.
Ended ==
  /\ pc' = "off"
  /\ task' = NoTask
  /\ round' = 0
  /\ transcript' = {}
  /\ ledger' = EmptyLedger
  /\ walSeq' = 0
  /\ calls' = NoCalls
  /\ prior' = NoPrior

Goto(next) == pc' = next

-----------------------------------------------------------------------------
(* Start and resume of an activation                                       *)

Activate(t) ==
  /\ pc = "off"
  /\ activations < MaxActivations
  /\ activations' = activations + 1
  /\ task' = t
  /\ Goto("load")
  /\ UNCHANGED <<diskVars, round, transcript, ledgerVars, calls, prior, late, faults, historyVars>>

\* The activation begins with an empty transcript, perhaps on another's log.
BeginsAnew(read) ==
  /\ fresh' = [fresh EXCEPT ![task] = Len(events)]
  /\ gap' = [gap EXCEPT ![task] = read]

Resumable == journal.status = "in_flight" /\ journal.task = task

\* load finds no journal of this task in flight.
LoadNothing ==
  /\ pc = "load"
  /\ ~Resumable
  /\ BeginsAnew(IF wal = <<>> THEN "none" ELSE "open")
  /\ Goto("checkpoint")
  /\ UNCHANGED <<diskVars, runVars, ledgerVars, calls, prior, late, activations, faults, events>>

\* Started effects with a tool message in the thread take its text; the
\* message was written without waiting, so it may be missing.
WithNative(l, found) ==
  [i \in Ids |-> IF i \in found THEN AfterResult(l, i, Errored)[i] ELSE l[i]]

\* Mutant of Reconciled: a started effect is taken for one never handed over.
ReconciledAsNew(l, results) ==
  [i \in Ids |->
     IF i \in Answered(results) \/ l[i].status \notin Active THEN l[i]
     ELSE [l[i] EXCEPT !.status = "failed", !.receipt = NotDispatched]]

\* reconcileForResume: an effect whose id has no result in the transcript was
\* not dispatched or is indeterminate.
Reconciled(l, results) ==
  [i \in Ids |->
     IF i \in Answered(results) \/ l[i].status \notin Active THEN l[i]
     ELSE IF l[i].status = "admitted"
     THEN [l[i] EXCEPT !.status = "failed", !.receipt = NotDispatched]
     ELSE [l[i] EXCEPT !.status = "indeterminate", !.receipt = Indeterminate]]

\* Mutant of ResumeResults: only a real receipt is restored.
ResumeReceipts(l, results) ==
  {[id |-> i, sig |-> l[i].sig, round |-> l[i].round, receipt |-> l[i].receipt] :
     i \in {j \in Ids : j \notin Answered(results) /\ l[j].receipt > 0}}

\* The results that the resumed transcript gets from the reconciled ledger.
ResumeResults(l, results) ==
  {[id |-> i, sig |-> l[i].sig, round |-> l[i].round, receipt |-> l[i].receipt] :
     i \in {j \in Ids : j \notin Answered(results) /\ l[j].receipt # NoReceipt}}

\* load of a journal in flight
LoadJournal(found) ==
  LET replayed == WithNative(Replayed(journal.ledger, wal, journal.watermark), found)
      restored == Reconciled(replayed, journal.transcript)
      results  == ResumeResults(restored, journal.transcript)
  IN  /\ pc = "load"
      /\ Resumable
      /\ ledger' = restored
      /\ walSeq' = HighestSeq(wal, journal.watermark)
      /\ transcript' = journal.transcript \cup results
      /\ round' = Max({journal.round} \cup {x.round : x \in results})
      /\ Goto(IF restored = EmptyLedger THEN "checkpoint" ELSE "restore")
      /\ gap' = [gap EXCEPT ![task] = IF @ = "open" THEN "read" ELSE @]
      /\ UNCHANGED <<diskVars, task, calls, prior, late, activations, faults, events, fresh>>

-----------------------------------------------------------------------------
(* The journal                                                             *)

\* writeAt up to store.append: the watermark is the sequence number now.
Written(status) ==
  /\ ledger' = Released(ledger, transcript)
  /\ journal' = [task |-> task, status |-> status, transcript |-> transcript,
                 round |-> round, ledger |-> ledger', watermark |-> walSeq]
  /\ native' = {}

Restore ==
  /\ pc = "restore"
  /\ Written("in_flight")
  /\ Goto("restoreCut")
  /\ UNCHANGED <<wal, runVars, walSeq, calls, prior, late, activations, faults, historyVars>>

Checkpoint ==
  /\ pc = "checkpoint"
  /\ Written("in_flight")
  /\ Goto("checkpointCut")
  /\ UNCHANGED <<wal, runVars, walSeq, calls, prior, late, activations, faults, historyVars>>

Complete ==
  /\ pc = "complete"
  /\ Written("completed")
  /\ Goto("completeCut")
  /\ UNCHANGED <<wal, runVars, walSeq, calls, prior, late, activations, faults, historyVars>>

\* truncate deletes the file.
Truncate ==
  /\ wal' = <<>>
  /\ gap' = [gap EXCEPT ![task] = IF @ = "open" THEN "none" ELSE @]
  /\ UNCHANGED <<journal, native, activations, faults, events, fresh, late>>

RestoreTruncate ==
  /\ pc = "restoreCut"
  /\ Truncate
  /\ Goto("checkpoint")
  /\ UNCHANGED <<runVars, ledgerVars, calls, prior>>

CheckpointTruncate ==
  /\ pc = "checkpointCut"
  /\ Truncate
  /\ Goto("model")
  /\ UNCHANGED <<runVars, ledgerVars, calls, prior>>

CompleteTruncate ==
  /\ pc = "completeCut"
  /\ Truncate
  /\ Ended

\* load throws: loadRunJournalSafely makes it a run without a journal, but the
\* restored ledger stays.
RestoreFails ==
  /\ pc \in {"restore", "restoreCut"}
  /\ Fault("write")
  /\ ledger' = IF pc = "restore" THEN Released(ledger, transcript) ELSE ledger
  /\ transcript' = {}
  /\ round' = 0
  /\ BeginsAnew("read")
  /\ Goto("checkpoint")
  /\ UNCHANGED <<diskVars, task, walSeq, calls, prior, late, activations, events>>

\* checkpointRunJournalSafely: a checkpoint that fails is only logged.
CheckpointFails ==
  /\ pc \in {"checkpoint", "checkpointCut"}
  /\ Fault("write")
  /\ ledger' = Released(ledger, transcript)
  /\ IF pc = "checkpoint" THEN GapOpens ELSE UNCHANGED gap
  /\ Goto("model")
  /\ UNCHANGED <<diskVars, runVars, walSeq, calls, prior, late, activations, events, fresh>>

CompleteFails ==
  /\ pc \in {"complete", "completeCut"}
  /\ Fault("write")
  /\ Ended
  /\ UNCHANGED <<diskVars, late, activations, historyVars>>

-----------------------------------------------------------------------------
(* A round of the loop                                                     *)

\* The model proposes calls with different ids; it may have none and be asked
\* again, when its calls are suppressed or its answer is to be repaired.
Propose(sigs) ==
  /\ pc = "model"
  /\ round < MaxRounds
  /\ calls' = [i \in Ids |-> IF i \in DOMAIN sigs
                             THEN [pc |-> "proposed", sig |-> sigs[i], receipt |-> NoReceipt]
                             ELSE NoCall]
  /\ Goto("admit")
  /\ UNCHANGED <<diskVars, runVars, ledgerVars, prior, late, activations, faults, historyVars>>

\* It has none and the loop ends.
Finish ==
  /\ pc = "model"
  /\ Goto("complete")
  /\ UNCHANGED <<diskVars, runVars, ledgerVars, calls, prior, late, activations, faults, historyVars>>

CallTo(i, to, receipt) ==
  calls' = [calls EXCEPT ![i].pc = to, ![i].receipt = receipt]

\* admit of a fresh effect
Admit(i) ==
  /\ pc = "admit"
  /\ calls[i].pc = "proposed"
  /\ Admissible(ledger, i, calls[i].sig, round + 1)
  /\ Commit("admit", i, NoReceipt, AfterAdmit(ledger, i, calls[i].sig, round + 1))
  /\ CallTo(i, "admitted", NoReceipt)
  /\ UNCHANGED <<journal, native, pc, runVars, prior, late, activations, faults, events, fresh>>

\* readDurableEffectReceipt: from the ledger, else the last result of the id
\* in the transcript.
PriorReceipts(i) ==
  IF ledger[i].receipt # NoReceipt THEN {ledger[i].receipt}
  ELSE {x.receipt : x \in {y \in transcript : y.id = i /\
          \A z \in transcript : z.id = i => z.round <= y.round}}

\* The same proposal of a finished effect is answered with its receipt.
Replays(i) ==
  /\ ~Admissible(ledger, i, calls[i].sig, round + 1)
  /\ ledger[i].sig = calls[i].sig
  /\ ledger[i].status \notin Active

AdmitReplay(i) ==
  /\ pc = "admit"
  /\ calls[i].pc = "proposed"
  /\ Replays(i)
  /\ \E receipt \in PriorReceipts(i) :
       /\ CallTo(i, "done", receipt)
       /\ prior' = [prior EXCEPT ![i] = receipt]
  /\ UNCHANGED <<diskVars, pc, runVars, ledgerVars, late, activations, faults, historyVars>>

\* An active effect of this id, a different proposal or a lost receipt: admit
\* throws, and the run with it.
AdmitRefused(i) ==
  /\ pc = "admit"
  /\ calls[i].pc = "proposed"
  /\ ~Admissible(ledger, i, calls[i].sig, round + 1)
  /\ ~Replays(i) \/ PriorReceipts(i) = {}
  /\ Ended
  /\ UNCHANGED <<diskVars, late, activations, faults, historyVars>>

AdmitFails(i) ==
  /\ pc = "admit"
  /\ calls[i].pc = "proposed"
  /\ AppendFails(Entry("admit", i, NoReceipt))
  /\ Ended
  /\ UNCHANGED <<journal, native, late, activations, historyVars>>

AllAdmitted ==
  /\ pc = "admit"
  /\ \A i \in Ids : calls[i].pc # "proposed"
  /\ Goto("batch")
  /\ UNCHANGED <<diskVars, runVars, ledgerVars, calls, prior, late, activations, faults, historyVars>>

\* runOne: what answered a call of this id once in this activation answers every
\* later one.  It is not started, and its record stays admitted.
AnswerAgain(i) ==
  /\ pc = "batch"
  /\ calls[i].pc = "admitted"
  /\ prior[i] # NoReceipt
  /\ CallTo(i, "done", prior[i])
  /\ UNCHANGED <<diskVars, pc, runVars, ledgerVars, prior, late, activations, faults, historyVars>>

Start(i) ==
  /\ pc = "batch"
  /\ calls[i].pc = "admitted"
  /\ prior[i] = NoReceipt
  /\ Commit("start", i, NoReceipt, AfterStart(ledger, i))
  /\ CallTo(i, "execute", NoReceipt)
  /\ UNCHANGED <<journal, native, pc, runVars, prior, late, activations, faults, events, fresh>>

\* runToolBatch makes an error of runOne the result of the call.
StartFails(i) ==
  /\ pc = "batch"
  /\ calls[i].pc = "admitted"
  /\ prior[i] = NoReceipt
  /\ CommitFails("start", i, NoReceipt)
  /\ CallTo(i, "done", Errored)
  /\ UNCHANGED <<journal, native, pc, runVars, prior, late, activations>>

\* Mutant of Dispatch: the call is handed over before its start is durable.
DispatchEarly(i) ==
  /\ pc = "batch"
  /\ calls[i].pc = "admitted"
  /\ events' = Append(events, [task |-> task, round |-> round + 1, id |-> i, sig |-> calls[i].sig])
  /\ CallTo(i, "record", Len(events'))
  /\ UNCHANGED <<diskVars, pc, runVars, ledgerVars, prior, late, activations, faults, fresh, gap>>

\* The call is handed to its tool.
Dispatch(i) ==
  /\ pc = "batch"
  /\ calls[i].pc = "execute"
  /\ events' = Append(events, [task |-> task, round |-> round + 1, id |-> i, sig |-> calls[i].sig])
  /\ CallTo(i, "record", Len(events'))
  /\ UNCHANGED <<diskVars, pc, runVars, ledgerVars, prior, late, activations, faults, fresh, gap>>

\* recordResult
Record(i) ==
  /\ pc = "batch"
  /\ calls[i].pc = "record"
  /\ Commit("result", i, calls[i].receipt, AfterResult(ledger, i, calls[i].receipt))
  /\ CallTo(i, "done", calls[i].receipt)
  /\ UNCHANGED <<journal, native, pc, runVars, prior, late, activations, faults, events, fresh>>

RecordFails(i) ==
  /\ pc = "batch"
  /\ calls[i].pc = "record"
  /\ CommitFails("result", i, calls[i].receipt)
  /\ CallTo(i, "done", Errored)
  /\ UNCHANGED <<journal, native, pc, runVars, prior, late, activations>>

\* The results go into the transcript; the next round starts with a checkpoint,
\* unless they end the loop.
BatchEnds(next) ==
  /\ pc = "batch"
  /\ \A i \in Ids : calls[i].pc \in {"none", "done"}
  /\ transcript' = transcript \cup
       {[id |-> i, sig |-> calls[i].sig, round |-> round + 1, receipt |-> calls[i].receipt] :
          i \in {j \in Ids : calls[j].pc = "done"}}
  /\ native' = native \cup {i \in Ids : calls[i].receipt = Errored}
  /\ round' = round + 1
  /\ calls' = NoCalls
  /\ Goto(next)
  /\ UNCHANGED <<journal, wal, task, ledgerVars, prior, late, activations, faults, historyVars>>

-----------------------------------------------------------------------------
(* Aborted activations and crashes                                         *)

\* The signal of the activation is aborted.  Calls that were handed over go on
\* and record their result later.
Abort ==
  /\ pc \in {"checkpoint", "model", "batch"}
  /\ late.running = {}
  /\ Fault("abort")
  /\ late' = [seq |-> walSeq, by |-> activations, running |->
                {[id |-> i, sig |-> calls[i].sig, round |-> round + 1, receipt |-> calls[i].receipt] :
                   i \in {j \in Ids : calls[j].pc = "record"}}]
  /\ Ended
  /\ UNCHANGED <<diskVars, activations, historyVars>>

LateResult(x) ==
  /\ x \in late.running
  /\ wal' = Appended([seq |-> late.seq + 1, op |-> "result", id |-> x.id,
                       sig |-> x.sig, round |-> x.round, receipt |-> x.receipt])
  /\ late' = [late EXCEPT !.seq = @ + 1, !.running = @ \ {x}]
  /\ IF pc = "off" /\ late.by = activations THEN UNCHANGED gap ELSE GapOpens
  /\ UNCHANGED <<journal, native, pc, runVars, ledgerVars, calls, prior, activations, faults, events, fresh>>

\* The process ends, perhaps in the middle of an append.
Crash ==
  /\ pc # "off" \/ late.running # {}
  /\ Fault("crash")
  /\ wal' \in IF pc \in {"admit", "batch"} \/ late.running # {}
             THEN {wal, Appended(TornLine)} ELSE {wal}
  /\ late' = NoLate
  /\ Ended
  /\ UNCHANGED <<journal, native, activations, historyVars>>

-----------------------------------------------------------------------------
CallStep(i) ==
  \/ Admit(i) \/ AdmitReplay(i) \/ AdmitRefused(i) \/ AdmitFails(i)
  \/ AnswerAgain(i)
  \/ Start(i) \/ StartFails(i)
  \/ Dispatch(i)
  \/ Record(i) \/ RecordFails(i)

JournalStep ==
  \/ Restore \/ RestoreTruncate \/ RestoreFails
  \/ Checkpoint \/ CheckpointTruncate \/ CheckpointFails
  \/ Complete \/ CompleteTruncate \/ CompleteFails

Next ==
  \/ \E t \in Tasks : Activate(t)
  \/ LoadNothing
  \/ \E found \in SUBSET native : LoadJournal(found)
  \/ JournalStep
  \/ \E chosen \in SUBSET Ids : \E sigs \in [chosen -> Proposals] : Propose(sigs)
  \/ Finish
  \/ \E i \in Ids : CallStep(i)
  \/ AllAdmitted
  \/ \E next \in {"checkpoint", "complete"} : BatchEnds(next)
  \/ \E x \in late.running : LateResult(x)
  \/ Abort
  \/ Crash

Spec == Init /\ [][Next]_vars

-----------------------------------------------------------------------------
(* Properties                                                              *)

\* Every variable keeps its type.
TypeOK ==
  /\ journal \in [task : Tasks \cup {NoTask}, status : {"none", "in_flight", "completed"},
                  transcript : SUBSET Results, round : Rounds, ledger : [Ids -> Records],
                  watermark : Nat]
  /\ wal \in Seq(Entries \cup {TornLine})
  /\ native \subseteq Ids
  /\ pc \in Pcs
  /\ task \in Tasks \cup {NoTask}
  /\ round \in Rounds
  /\ transcript \subseteq Results
  /\ ledger \in [Ids -> Records]
  /\ walSeq \in Nat
  /\ calls \in [Ids -> [pc : CallPcs, sig : Proposals \cup {NoProposal}, receipt : Receipts]]
  /\ prior \in [Ids -> Receipts]
  /\ late \in [seq : Nat, running : SUBSET Results, by : 0..MaxActivations]
  /\ activations \in 0..MaxActivations
  /\ faults \in 0..MaxFaults
  /\ events \in Seq([task : Tasks, round : Rounds, id : Ids, sig : Proposals])
  /\ fresh \in [Tasks -> Nat]
  /\ gap \in [Tasks -> {"none", "open", "read"}]

\* The effects of the run that the activation began or goes on with.
Own == {n \in DOMAIN events : events[n].task = task /\ n > fresh[task]}

AnsweredIn(results, n) ==
  \E x \in results : x.id = events[n].id /\ x.round = events[n].round

\* The id of the effect has a result of an earlier round.
Recycled(results, n) ==
  \E x \in results : x.id = events[n].id /\ x.round < events[n].round

KnownTo(l, n) ==
  /\ l[events[n].id].round = events[n].round
  /\ l[events[n].id].status \notin {"none", "admitted"}

Running == pc \notin {"off", "load"}
Gapless == Running /\ gap[task] # "read"

\* As long as the log follows the journal, an effect that was handed to its tool
\* can be found on disk: in the journal's transcript, or as started in the ledger
\* that a restart would build from journal and log.  The log does not follow it
\* (gap) from a checkpoint that failed, a line lost behind a torn one or another
\* activation's entry to the next journal that is written: there the code does
\* lose effects.  An effect whose id was used in an earlier round is left out too.
\* The order of the appends in createRunJournal and of checkpoint and truncation
\* in writeAt.
DispatchDurable == Running /\ gap[task] = "none" => \A n \in Own :
  \/ AnsweredIn(journal.transcript, n)
  \/ Recycled(journal.transcript, n)
  \/ KnownTo(Replayed(journal.ledger, wal, journal.watermark), n)

\* A call of one round is handed to its tool once, over any number of
\* restarts, unless one of them read journal and log while the log did not follow
\* the journal (Gapless): RunEffectLedger.admit and reconcileForResume.
AtMostOnce == Gapless => \A m, n \in Own :
  events[m].id = events[n].id /\ events[m].round = events[n].round => m = n

\* Before the model is asked again, every effect has an answer in the
\* transcript, be it that its outcome is unknown.  Left out are an effect whose
\* id was used in an earlier round, which appendEffectLedgerResumeRound overlooks,
\* and runs that were read while the log did not follow the journal (Gapless).
AnsweredUnlessRecycled == Gapless /\ pc \in {"checkpoint", "model"} =>
  \A n \in Own : AnsweredIn(transcript, n) \/ Recycled(transcript, n)

\* A receipt in the transcript is that of an effect of this run under the same
\* id: of the call it answers, or of an earlier call whose answer the transcript
\* has already, which this one repeats.  What is said not to have been handed over
\* was not, unless its id was used in an earlier round.  Left out are runs that
\* were read from journal and log while these disagreed (Gapless): the receipt of
\* another task gets into those.  readDurableEffectReceipt, reconcileForResume and
\* the answers that are kept for a whole activation.
ReceiptsTrue == Gapless => \A x \in transcript :
  /\ x.receipt > 0 =>
       /\ x.receipt \in Own
       /\ events[x.receipt].id = x.id
       /\ \/ events[x.receipt].round = x.round /\ events[x.receipt].sig = x.sig
          \/ \E y \in transcript : y.id = x.id /\ y.round < x.round /\ y.receipt = x.receipt
  /\ x.receipt = NotDispatched =>
       \A n \in Own : events[n].id = x.id /\ events[n].round = x.round => Recycled(transcript, n)

=============================================================================
