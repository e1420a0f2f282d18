-------------------------- MODULE RunJournal_proofs --------------------------
(***************************************************************************)
(* The proofs of RunJournal's invariants, for every number of tasks, ids,  *)
(* proposals, rounds, activations and faults.                              *)
(*                                                                         *)
(* While the log follows the journal of a task, three descriptions of what *)
(* that task did agree: the history of calls that were handed to tools,    *)
(* the ledger and the transcript of the activation at work, and the ledger *)
(* that a restart would build from journal and log.  Each layer of the     *)
(* inductive invariant IInv is one of these agreements.                    *)
(***************************************************************************)
EXTENDS Replay_proofs

-----------------------------------------------------------------------------
\* What a task's run has handed to tools since it began.
EventsOf(t) == {n \in DOMAIN events : events[n].task = t /\ n > fresh[t]}

Same(m, n) == events[m].id = events[n].id /\ events[m].round = events[n].round

\* The ledger that a restart would build.
OnDisk == Replayed(journal.ledger, wal, journal.watermark)

\* The journal's own log is what follows it.
Followed == journal.task \in Tasks /\ gap[journal.task] = "none"

\* Places of the loop at which the journal was written in this round.
Working == {"model", "admit", "batch"}
Cuts    == {"restoreCut", "checkpointCut", "completeCut"}

\* Memory is empty when there is no activation, and calls belong to a round.
ActivationInv ==
  /\ pc = "off" <=> task = NoTask
  /\ pc \in {"off", "load"} =>
       round = 0 /\ transcript = {} /\ ledger = EmptyLedger /\ walSeq = 0
  /\ pc \notin {"admit", "batch"} => calls = NoCalls
  /\ pc \in {"admit", "batch"} => round < MaxRounds
  /\ late.by <= activations
  /\ pc # "off" => late.by < activations
  /\ \A t \in Tasks : fresh[t] <= Len(events)

\* The record of an admitted or started call.
Mine(i, status) ==
  ledger[i] = [status |-> status, sig |-> calls[i].sig, round |-> round + 1, receipt |-> NoReceipt]

\* A call and its record in the ledger.
CallHolds(i) ==
  /\ pc = "admit" => calls[i].pc \in {"none", "proposed", "admitted", "done"}
  /\ pc = "batch" => calls[i].pc # "proposed"
  /\ calls[i].pc # "none" => calls[i].sig \in Proposals
  /\ calls[i].pc = "admitted" => Mine(i, "admitted")
  /\ calls[i].pc \in {"execute", "record"} => Mine(i, "started")
  /\ calls[i].pc = "record" =>
       /\ calls[i].receipt \in EventsOf(task)
       /\ events[calls[i].receipt] =
            [task |-> task, round |-> round + 1, id |-> i, sig |-> calls[i].sig]
CallInv == \A i \in Ids : CallHolds(i)

\* The journal that was just written is what memory holds.
CutInv == pc \in Cuts =>
  /\ journal.task = task
  /\ pc # "completeCut" => journal.status = "in_flight"
  /\ journal.round = round
  /\ journal.transcript = transcript
  /\ journal.ledger = ledger
  /\ journal.watermark = walSeq
  /\ Released(ledger, transcript) = ledger

\* A record that was made for a call has its signature, and only it a receipt.
Signed(l) == \A i \in Ids :
  IF l[i].status = "none" THEN l[i].receipt = NoReceipt ELSE l[i].sig \in Proposals

SignedInv == Signed(ledger) /\ Signed(journal.ledger)

BaseInv == TypeOK /\ ActivationInv /\ CallInv /\ CutInv /\ SignedInv

\* An effect is of an earlier round, or the ledger knows it.
Placed(n, r, l) == events[n].round <= r \/ (events[n].round = r + 1 /\ KnownTo(l, n))

\* Its answer is in the transcript, or its id was used before.
Answer(n, results) == AnsweredIn(results, n) \/ Recycled(results, n)

\* What can be resumed has a receipt.
Receipted(l, results) == \A i \in Ids \ Answered(results) :
  l[i].status \in {"committed", "failed", "indeterminate"} => l[i].receipt # NoReceipt

\* A result is that of its effect, or repeats an earlier one of its id.
TrueResult(x, t, results) ==
  /\ x.receipt > 0 =>
       /\ x.receipt \in EventsOf(t)
       /\ events[x.receipt].id = x.id
       /\ \/ events[x.receipt].round = x.round /\ events[x.receipt].sig = x.sig
          \/ \E y \in results : y.id = x.id /\ y.round < x.round /\ y.receipt = x.receipt
  /\ x.receipt = NotDispatched =>
       \A n \in EventsOf(t) : events[n].id = x.id /\ events[n].round = x.round => Recycled(results, n)

\* So is a record's, and one that was not handed over is of a finished round.
TrueRecord(l, i, t, r) ==
  /\ l[i].receipt > 0 =>
       /\ l[i].status = "committed"
       /\ l[i].receipt \in EventsOf(t)
       /\ events[l[i].receipt] = [task |-> t, round |-> l[i].round, id |-> i, sig |-> l[i].sig]
  /\ l[i].receipt = NotDispatched => l[i].round <= r

\* In memory.
OnceInv == \A t \in Tasks : gap[t] # "read" =>
  \A m, n \in EventsOf(t) : Same(m, n) => m = n

PlacedInMemory == \A n \in EventsOf(task) : Placed(n, round, ledger)

AnsweredInMemory == \A n \in EventsOf(task) :
  \/ Answer(n, transcript)
  \/ /\ pc = "batch"
     /\ events[n].round = round + 1
     /\ calls[events[n].id].pc \in {"record", "done"}

\* A call that is not handed over yet has no event.
NotHandedOver == \A i \in Ids : calls[i].pc \in {"admitted", "execute"} =>
  \A n \in EventsOf(task) : ~(events[n].id = i /\ events[n].round = round + 1)

RoundsSoFar    == \A x \in transcript : x.round <= round
TrueTranscript == \A x \in transcript : TrueResult(x, task, transcript)
TrueLedger     == \A i \in Ids : TrueRecord(ledger, i, task, round)

\* The result that a call which is done will be in the transcript.
ResultOf(i) == [id |-> i, sig |-> calls[i].sig, round |-> round + 1, receipt |-> calls[i].receipt]
TrueAnswers == \A i \in Ids : calls[i].pc = "done" => TrueResult(ResultOf(i), task, transcript)

MemoryHolds ==
  /\ PlacedInMemory
  /\ AnsweredInMemory
  /\ NotHandedOver
  /\ RoundsSoFar
  /\ Receipted(ledger, transcript)
  /\ TrueTranscript
  /\ TrueLedger
  /\ TrueAnswers
MemoryInv == Gapless => MemoryHolds

\* On disk.
FoundInv == Followed => \A n \in EventsOf(journal.task) :
  /\ Placed(n, journal.round, OnDisk)
  /\ Answer(n, journal.transcript) \/ (events[n].round = journal.round + 1 /\ KnownTo(OnDisk, n))

DiskInv == Followed /\ journal.status = "in_flight" =>
  /\ \A x \in journal.transcript : x.round <= journal.round
  /\ Receipted(OnDisk, journal.transcript)
  /\ \A x \in journal.transcript : TrueResult(x, journal.task, journal.transcript)
  /\ \A i \in Ids : TrueRecord(OnDisk, i, journal.task, journal.round)

\* An entry of a failed append, which nothing in memory followed.
Stale(e) ==
  /\ e.op \in {"start", "result"}
  /\ ledger[e.id].status \in Active
  /\ e.op = "result" =>
       /\ e.receipt \in EventsOf(task)
       /\ events[e.receipt] = [task |-> task, round |-> ledger[e.id].round, id |-> e.id,
                               sig |-> ledger[e.id].sig]

\* The log beside the memory that writes it.
LogInv == Running /\ gap[task] = "none" => \A k \in DOMAIN wal :
  /\ wal[k].seq <= walSeq + 1
  /\ wal[k].seq > walSeq => Stale(wal[k])

SyncInv ==
  /\ Running /\ gap[task] = "none" =>
       \/ journal.task = task /\ (journal.status = "in_flight" \/ pc = "completeCut")
       \/ pc = "checkpoint" /\ EventsOf(task) = {}
  /\ pc \in Working \cup {"complete"} /\ Followed => journal.task = task
  /\ pc \in Working /\ gap[task] = "none" =>
       /\ journal.round = round
       /\ journal.transcript = transcript
       /\ journal.watermark <= walSeq
       /\ \A i \in Ids : \/ OnDisk[i] = ledger[i]
                         \/ /\ ledger[i].status \in Active
                            /\ calls[i].pc \notin {"admitted", "execute", "record"}

\* The calls that an aborted activation left behind.
LateInv == pc = "off" /\ late.by = activations /\ late.running # {} /\ Followed =>
  /\ journal.watermark <= late.seq
  /\ \A k \in DOMAIN wal : wal[k].seq <= late.seq + 1
  /\ \A x, y \in late.running : x.id = y.id => x = y
  /\ \A x \in late.running :
       /\ OnDisk[x.id] = [status |-> "started", sig |-> x.sig, round |-> x.round, receipt |-> NoReceipt]
       /\ x.receipt \in EventsOf(journal.task)
       /\ events[x.receipt] = [task |-> journal.task, round |-> x.round, id |-> x.id, sig |-> x.sig]

\* What answers an id again has answered it before, in the transcript or in this round.
PriorAnswers == \A i \in Ids : prior[i] > 0 =>
  \/ \E y \in transcript : y.id = i /\ y.receipt = prior[i]
  \/ calls[i].pc = "done" /\ calls[i].receipt = prior[i]

PriorInv ==
  /\ pc \in {"off", "load"} => prior = NoPrior
  /\ Gapless => PriorAnswers

IInv == BaseInv /\ OnceInv /\ MemoryInv /\ PriorInv /\ FoundInv /\ DiskInv /\ LogInv /\ SyncInv /\ LateInv

-----------------------------------------------------------------------------
(* What the transitions of a ledger do.                                    *)

Ledgers     == [Ids -> Records]
CallRecords == [pc : CallPcs, sig : Proposals \cup {NoProposal}, receipt : Receipts]

\* The empty values have their types.
LEMMA EmptyTyped ==
  /\ NoRecord \in Records
  /\ EmptyLedger \in Ledgers
  /\ NoCalls \in [Ids -> CallRecords]
  /\ NoPrior \in [Ids -> Receipts]
  /\ Signed(EmptyLedger)
  /\ \A i \in Ids : EmptyLedger[i] = NoRecord /\ NoCalls[i] = NoCall
  /\ 0 \in Rounds
  /\ \A r \in Rounds : r \in Nat
<1>1. 0 \in Rounds /\ \A r \in Rounds : r \in Nat
  BY JournalAssumption DEF Rounds
<1>2. NoReceipt \in Receipts
  BY DEF Receipts, NoReceipt
<1>3. NoRecord \in Records
  BY <1>1, <1>2 DEF NoRecord, Records, Statuses
<1>4. NoCall \in CallRecords
  BY <1>2 DEF NoCall, CallRecords, CallPcs
<1> QED BY <1>1, <1>2, <1>3, <1>4 DEF EmptyLedger, Ledgers, NoCalls, NoPrior, Signed, NoRecord

\* What admit does.
LEMMA AfterAdmitIs ==
  ASSUME NEW l \in Ledgers, NEW i \in Ids, NEW sig \in Proposals, NEW r \in Rounds
  PROVE  /\ AfterAdmit(l, i, sig, r) \in Ledgers
         /\ \A j \in Ids : j # i => AfterAdmit(l, i, sig, r)[j] = l[j]
         /\ Admissible(l, i, sig, r) => AfterAdmit(l, i, sig, r)[i] =
              [status |-> "admitted", sig |-> sig, round |-> r, receipt |-> NoReceipt]
         /\ ~Admissible(l, i, sig, r) => AfterAdmit(l, i, sig, r)[i] = l[i]
<1> DEFINE rec == [status |-> "admitted", sig |-> sig, round |-> r, receipt |-> NoReceipt]
<1>1. rec \in Records
  BY DEF Records, Statuses, Receipts, NoReceipt
<1>2. AfterAdmit(l, i, sig, r) = IF Admissible(l, i, sig, r) THEN [l EXCEPT ![i] = rec] ELSE l
  BY DEF AfterAdmit
<1> HIDE DEF rec
<1>3. AfterAdmit(l, i, sig, r) \in Ledgers
  BY <1>1, <1>2 DEF Ledgers
<1>4. /\ \A j \in Ids : j # i => AfterAdmit(l, i, sig, r)[j] = l[j]
      /\ Admissible(l, i, sig, r) => AfterAdmit(l, i, sig, r)[i] = rec
      /\ ~Admissible(l, i, sig, r) => AfterAdmit(l, i, sig, r)[i] = l[i]
  BY <1>2 DEF Ledgers
<1> QED BY <1>3, <1>4 DEF rec

\* What start does.
LEMMA AfterStartIs ==
  ASSUME NEW l \in Ledgers, NEW i \in Ids
  PROVE  /\ AfterStart(l, i) \in Ledgers
         /\ \A j \in Ids : j # i => AfterStart(l, i)[j] = l[j]
         /\ l[i].status = "admitted" => AfterStart(l, i)[i] =
              [status |-> "started", sig |-> l[i].sig, round |-> l[i].round, receipt |-> l[i].receipt]
         /\ l[i].status # "admitted" => AfterStart(l, i)[i] = l[i]
<1> DEFINE rec == [status |-> "started", sig |-> l[i].sig, round |-> l[i].round, receipt |-> l[i].receipt]
<1>1. rec \in Records /\ [l[i] EXCEPT !.status = "started"] = rec
  BY DEF Records, Statuses, Ledgers
<1>2. AfterStart(l, i) = IF l[i].status = "admitted" THEN [l EXCEPT ![i] = rec] ELSE l
  <2>1. [l EXCEPT ![i].status = "started"] = [l EXCEPT ![i] = [l[i] EXCEPT !.status = "started"]]
    OBVIOUS
  <2> HIDE DEF rec
  <2> QED BY <1>1, <2>1 DEF AfterStart
<1> HIDE DEF rec
<1>3. AfterStart(l, i) \in Ledgers
  BY <1>1, <1>2 DEF Ledgers
<1>4. /\ \A j \in Ids : j # i => AfterStart(l, i)[j] = l[j]
      /\ l[i].status = "admitted" => AfterStart(l, i)[i] = rec
      /\ l[i].status # "admitted" => AfterStart(l, i)[i] = l[i]
  BY <1>2 DEF Ledgers
<1> QED BY <1>3, <1>4 DEF rec

\* What recordResult does.
LEMMA AfterResultIs ==
  ASSUME NEW l \in Ledgers, NEW i \in Ids, NEW receipt \in Receipts
  PROVE  /\ AfterResult(l, i, receipt) \in Ledgers
         /\ \A j \in Ids : j # i => AfterResult(l, i, receipt)[j] = l[j]
         /\ l[i].status = "started" => AfterResult(l, i, receipt)[i] =
              [status |-> "committed", sig |-> l[i].sig, round |-> l[i].round, receipt |-> receipt]
         /\ l[i].status # "started" => AfterResult(l, i, receipt)[i] = l[i]
<1> DEFINE rec == [status |-> "committed", sig |-> l[i].sig, round |-> l[i].round, receipt |-> receipt]
<1>1. /\ rec \in Records
      /\ [l[i] EXCEPT !.status = "committed", !.receipt = receipt] = rec
  <2>1. l[i] \in Records
    BY DEF Ledgers
  <2>2. rec \in Records
    BY <2>1 DEF Records, Statuses
  <2>3. [l[i] EXCEPT !.status = "committed", !.receipt = receipt] = rec
    <3> DEFINE first == [status |-> "committed", sig |-> l[i].sig, round |-> l[i].round,
                         receipt |-> l[i].receipt]
    <3>1. [l[i] EXCEPT !.status = "committed"] = first
      BY <2>1 DEF Records
    <3>2. [first EXCEPT !.receipt = receipt] = rec
      OBVIOUS
    <3>3. [l[i] EXCEPT !.status = "committed", !.receipt = receipt]
            = [[l[i] EXCEPT !.status = "committed"] EXCEPT !.receipt = receipt]
      OBVIOUS
    <3> QED BY <3>1, <3>2, <3>3
  <2> QED BY <2>2, <2>3
<1>2. AfterResult(l, i, receipt) = IF l[i].status = "started" THEN [l EXCEPT ![i] = rec] ELSE l
  <2>1. [l EXCEPT ![i].status = "committed", ![i].receipt = receipt]
          = [l EXCEPT ![i] = [l[i] EXCEPT !.status = "committed", !.receipt = receipt]]
    BY DEF Ledgers
  <2> HIDE DEF rec
  <2> QED BY <1>1, <2>1 DEF AfterResult
<1> HIDE DEF rec
<1>3. AfterResult(l, i, receipt) \in Ledgers
  BY <1>1, <1>2 DEF Ledgers
<1>4. /\ \A j \in Ids : j # i => AfterResult(l, i, receipt)[j] = l[j]
      /\ l[i].status = "started" => AfterResult(l, i, receipt)[i] = rec
      /\ l[i].status # "started" => AfterResult(l, i, receipt)[i] = l[i]
  BY <1>2 DEF Ledgers
<1> QED BY <1>3, <1>4 DEF rec

\* What an entry of the log does to the record of its id; it leaves the others.
AppliedRecord(l, e) ==
  IF e.op = "admit"
  THEN IF Admissible(l, e.id, e.sig, e.round)
       THEN [status |-> "admitted", sig |-> e.sig, round |-> e.round, receipt |-> NoReceipt]
       ELSE l[e.id]
  ELSE IF e.op = "start" /\ l[e.id].status = "admitted"
  THEN [status |-> "started", sig |-> l[e.id].sig, round |-> l[e.id].round, receipt |-> l[e.id].receipt]
  ELSE IF e.op = "result" /\ l[e.id].status = "started"
  THEN [status |-> "committed", sig |-> l[e.id].sig, round |-> l[e.id].round, receipt |-> e.receipt]
  ELSE l[e.id]

\* What Apply returns, and where.
LEMMA ApplyIs ==
  ASSUME NEW l \in Ledgers, NEW e \in Entries
  PROVE  /\ Apply(l, e) \in Ledgers
         /\ \A j \in Ids : j # e.id => Apply(l, e)[j] = l[j]
         /\ Apply(l, e)[e.id] = AppliedRecord(l, e)
<1>1. /\ e.id \in Ids
      /\ e.sig \in Proposals
      /\ e.round \in Rounds
      /\ e.receipt \in Receipts
      /\ e.op \in {"admit", "start", "result"}
  BY DEF Entries
<1>2. CASE e.op = "admit"
  <2>1. Apply(l, e) = AfterAdmit(l, e.id, e.sig, e.round)
    BY <1>2 DEF Apply
  <2> QED BY <1>1, <1>2, <2>1, AfterAdmitIs DEF AppliedRecord
<1>3. CASE e.op = "start"
  <2>1. Apply(l, e) = AfterStart(l, e.id)
    BY <1>3 DEF Apply
  <2> QED BY <1>1, <1>3, <2>1, AfterStartIs DEF AppliedRecord
<1>4. CASE e.op = "result"
  <2>1. Apply(l, e) = AfterResult(l, e.id, e.receipt)
    BY <1>4 DEF Apply
  <2> QED BY <1>1, <1>4, <2>1, AfterResultIs DEF AppliedRecord
<1> QED BY <1>1, <1>2, <1>3, <1>4

\* An entry leaves a ledger signed.
LEMMA ApplySigned ==
  ASSUME NEW l \in Ledgers, Signed(l), NEW e \in Entries
  PROVE  Signed(Apply(l, e))
<1> DEFINE m == Apply(l, e)
<1>1. e.id \in Ids /\ e.sig \in Proposals
  BY DEF Entries
<1>2. /\ \A j \in Ids : j # e.id => m[j] = l[j]
      /\ m[e.id] = AppliedRecord(l, e)
  BY ApplyIs
<1> HIDE DEF m
<1>3. IF m[e.id].status = "none" THEN m[e.id].receipt = NoReceipt ELSE m[e.id].sig \in Proposals
  BY <1>1, <1>2 DEF AppliedRecord, Signed
<1>4. Signed(m)
  BY <1>2, <1>3 DEF Signed
<1> QED BY <1>4 DEF m

\* So does the replay.
LEMMA ReplayTyped ==
  ASSUME NEW l \in Ledgers, NEW entries \in Seq(Lines), NEW watermark \in Nat
  PROVE  /\ Replayed(l, entries, watermark) \in Ledgers
         /\ Signed(l) => Signed(Replayed(l, entries, watermark))
<1>1. \A k \in Above(entries, watermark) : entries[k] \in Entries
  BY AboveNumbered
<1>2. Replayed(l, entries, watermark) \in Ledgers
  <2>1. \A k \in Above(entries, watermark), m \in Ledgers : Apply(m, entries[k]) \in Ledgers
    BY <1>1, ApplyIs
  <2> QED BY <2>1, ReplayKeeps
<1>3. ASSUME Signed(l) PROVE Signed(Replayed(l, entries, watermark))
  <2> DEFINE P == {m \in Ledgers : Signed(m)}
  <2>1. \A k \in Above(entries, watermark), m \in P : Apply(m, entries[k]) \in P
    BY <1>1, ApplyIs, ApplySigned
  <2>2. l \in P
    BY <1>3
  <2>3. Replayed(l, entries, watermark) \in P
    <3> HIDE DEF P
    <3> QED BY <2>1, <2>2, ReplayKeeps
  <2> QED BY <2>3
<1> QED BY <1>2, <1>3

-----------------------------------------------------------------------------
(* What the transitions of whole ledgers do.                               *)

\* What releaseDurableResults does.
LEMMA ReleasedIs ==
  ASSUME NEW l \in Ledgers, NEW results
  PROVE  /\ Released(l, results) \in Ledgers
         /\ Signed(l) => Signed(Released(l, results))
         /\ Released(Released(l, results), results) = Released(l, results)
         /\ \A i \in Ids :
              /\ Released(l, results)[i].status = l[i].status
              /\ Released(l, results)[i].sig = l[i].sig
              /\ Released(l, results)[i].round = l[i].round
              /\ i \notin Answered(results) => Released(l, results)[i] = l[i]
              /\ l[i].status \notin {"committed", "failed"} => Released(l, results)[i] = l[i]
              /\ \/ Released(l, results)[i].receipt = l[i].receipt
                 \/ Released(l, results)[i].receipt = NoReceipt
<1> DEFINE r(m, i) == [status |-> m[i].status, sig |-> m[i].sig, round |-> m[i].round, receipt |-> NoReceipt]
           g == [i \in Ids |-> IF i \in Answered(results) /\ l[i].status \in {"committed", "failed"}
                               THEN r(l, i) ELSE l[i]]
<1>1. ASSUME NEW m \in Ledgers, NEW i \in Ids
      PROVE  r(m, i) \in Records /\ [m[i] EXCEPT !.receipt = NoReceipt] = r(m, i)
  <2>1. m[i] \in Records
    BY DEF Ledgers
  <2>2. NoReceipt \in Receipts
    BY DEF NoReceipt, Receipts
  <2> QED BY <2>1, <2>2 DEF Records
<1>2. Released(l, results) = g
  <2> HIDE DEF r
  <2> QED BY <1>1 DEF Released
<1>3. g \in Ledgers
  <2>1. \A i \in Ids : l[i] \in Records /\ r(l, i) \in Records
    BY <1>1 DEF Ledgers
  <2> HIDE DEF r
  <2> QED BY <2>1 DEF Ledgers
<1>4. \A i \in Ids : g[i] = IF i \in Answered(results) /\ l[i].status \in {"committed", "failed"}
                            THEN r(l, i) ELSE l[i]
  OBVIOUS
<1> HIDE DEF g
<1>5. Released(g, results) = g
  <2>1. Released(g, results) = [i \in Ids |-> IF i \in Answered(results) /\ g[i].status \in {"committed", "failed"}
                                              THEN r(g, i) ELSE g[i]]
    <3> HIDE DEF r
    <3> QED BY <1>1, <1>3 DEF Released
  <2>2. ASSUME NEW i \in Ids
        PROVE  (IF i \in Answered(results) /\ g[i].status \in {"committed", "failed"}
                THEN r(g, i) ELSE g[i]) = g[i]
    <3>1. CASE i \in Answered(results) /\ l[i].status \in {"committed", "failed"}
      <4>1. g[i] = r(l, i)
        BY <1>4, <3>1
      <4>2. r(g, i) = r(l, i)
        BY <4>1
      <4> QED BY <4>1, <4>2
    <3>2. CASE ~(i \in Answered(results) /\ l[i].status \in {"committed", "failed"})
      BY <1>4, <3>2
    <3> QED BY <3>1, <3>2
  <2>3. g = [i \in Ids |-> g[i]]
    BY <1>3 DEF Ledgers
  <2> HIDE DEF r
  <2> QED BY <2>1, <2>2, <2>3
<1>6. \A i \in Ids :
        /\ g[i].status = l[i].status
        /\ g[i].sig = l[i].sig
        /\ g[i].round = l[i].round
        /\ i \notin Answered(results) => g[i] = l[i]
        /\ l[i].status \notin {"committed", "failed"} => g[i] = l[i]
        /\ g[i].receipt = l[i].receipt \/ g[i].receipt = NoReceipt
  <2> TAKE i \in Ids
  <2>1. CASE i \in Answered(results) /\ l[i].status \in {"committed", "failed"}
    <3>1. g[i] = r(l, i)
      BY <1>4, <2>1
    <3> QED BY <2>1, <3>1
  <2>2. CASE ~(i \in Answered(results) /\ l[i].status \in {"committed", "failed"})
    <3>1. g[i] = l[i]
      BY <1>4, <2>2
    <3> HIDE DEF r
    <3> QED BY <3>1
  <2> QED BY <2>1, <2>2
<1>7. Signed(l) => Signed(g)
  BY <1>6 DEF Signed
<1> QED BY <1>2, <1>3, <1>5, <1>6, <1>7

\* What a restart makes of the replayed ledger: finished records stay, an
\* admitted effect without a result was not handed over, and a started one has
\* the error text that the thread kept of it, or is indeterminate.
LEMMA RestoredIs ==
  ASSUME NEW l \in Ledgers, Signed(l), NEW found \in SUBSET Ids, NEW results
  PROVE  LET r == Reconciled(WithNative(l, found), results) IN
         /\ r \in Ledgers
         /\ Signed(r)
         /\ \A i \in Ids :
              /\ r[i].sig = l[i].sig
              /\ r[i].round = l[i].round
              /\ l[i].status \notin Active => r[i] = l[i]
              /\ l[i].status = "admitted" /\ i \in Answered(results) => r[i] = l[i]
              /\ l[i].status = "admitted" /\ i \notin Answered(results) =>
                   r[i].status = "failed" /\ r[i].receipt = NotDispatched
              /\ l[i].status = "started" =>
                   \/ r[i].status = "committed" /\ r[i].receipt = Errored
                   \/ /\ i \notin Answered(results)
                      /\ r[i].status = "indeterminate"
                      /\ r[i].receipt = Indeterminate
                   \/ i \in Answered(results) /\ r[i] = l[i]
<1> DEFINE w == WithNative(l, found)
           v == Reconciled(w, results)
           a(i) == [status |-> "failed", sig |-> w[i].sig, round |-> w[i].round, receipt |-> NotDispatched]
           b(i) == [status |-> "indeterminate", sig |-> w[i].sig, round |-> w[i].round, receipt |-> Indeterminate]
<1>1. Errored \in Receipts /\ NotDispatched \in Receipts /\ Indeterminate \in Receipts
  BY DEF Receipts
<1>2. \A i \in Ids : w[i] = IF i \in found THEN AfterResult(l, i, Errored)[i] ELSE l[i]
  BY DEF WithNative
<1>3. w \in Ledgers
  <2>1. \A i \in Ids : AfterResult(l, i, Errored)[i] \in Records /\ l[i] \in Records
    <3>1. \A i \in Ids : AfterResult(l, i, Errored) \in Ledgers
      BY <1>1, AfterResultIs
    <3> QED BY <3>1 DEF Ledgers
  <2> QED BY <2>1 DEF WithNative, Ledgers
<1>4. \A i \in Ids :
        \/ w[i] = l[i]
        \/ /\ l[i].status = "started"
           /\ w[i] = [status |-> "committed", sig |-> l[i].sig, round |-> l[i].round, receipt |-> Errored]
  BY <1>1, <1>2, AfterResultIs
<1> HIDE DEF w
<1>5. ASSUME NEW i \in Ids
      PROVE  /\ w[i] \in Records
             /\ a(i) \in Records
             /\ b(i) \in Records
             /\ [w[i] EXCEPT !.status = "failed", !.receipt = NotDispatched] = a(i)
             /\ [w[i] EXCEPT !.status = "indeterminate", !.receipt = Indeterminate] = b(i)
  <2>1. w[i] \in Records
    BY <1>3 DEF Ledgers
  <2>2. a(i) \in Records /\ b(i) \in Records
    BY <1>1, <2>1 DEF Records, Statuses
  <2>3. ASSUME NEW s, NEW c
        PROVE  [w[i] EXCEPT !.status = s, !.receipt = c]
                 = [status |-> s, sig |-> w[i].sig, round |-> w[i].round, receipt |-> c]
    <3> DEFINE first == [status |-> s, sig |-> w[i].sig, round |-> w[i].round, receipt |-> w[i].receipt]
    <3>1. [w[i] EXCEPT !.status = s] = first
      BY <2>1 DEF Records
    <3>2. [first EXCEPT !.receipt = c] = [status |-> s, sig |-> w[i].sig, round |-> w[i].round, receipt |-> c]
      OBVIOUS
    <3>3. [w[i] EXCEPT !.status = s, !.receipt = c] = [[w[i] EXCEPT !.status = s] EXCEPT !.receipt = c]
      OBVIOUS
    <3> QED BY <3>1, <3>2, <3>3
  <2>4. [w[i] EXCEPT !.status = "failed", !.receipt = NotDispatched] = a(i)
    BY <2>3
  <2>5. [w[i] EXCEPT !.status = "indeterminate", !.receipt = Indeterminate] = b(i)
    BY <2>3
  <2> QED BY <2>1, <2>2, <2>4, <2>5
<1> HIDE DEF a, b
<1>6. v = [i \in Ids |-> IF i \in Answered(results) \/ w[i].status \notin Active THEN w[i]
                         ELSE IF w[i].status = "admitted" THEN a(i) ELSE b(i)]
  BY <1>5 DEF Reconciled
<1>7. v \in Ledgers
  BY <1>5, <1>6 DEF Ledgers
<1>8. \A i \in Ids :
        v[i] = IF i \in Answered(results) \/ w[i].status \notin Active THEN w[i]
               ELSE IF w[i].status = "admitted" THEN a(i) ELSE b(i)
  BY <1>6
<1> HIDE DEF v
<1>9. ASSUME NEW i \in Ids
      PROVE  /\ v[i].sig = l[i].sig
             /\ v[i].round = l[i].round
             /\ l[i].status \notin Active => v[i] = l[i]
             /\ l[i].status = "admitted" /\ i \in Answered(results) => v[i] = l[i]
             /\ l[i].status = "admitted" /\ i \notin Answered(results) =>
                  v[i].status = "failed" /\ v[i].receipt = NotDispatched
             /\ l[i].status = "started" =>
                  \/ v[i].status = "committed" /\ v[i].receipt = Errored
                  \/ /\ i \notin Answered(results)
                     /\ v[i].status = "indeterminate"
                     /\ v[i].receipt = Indeterminate
                  \/ i \in Answered(results) /\ v[i] = l[i]
  <2>1. CASE w[i] = [status |-> "committed", sig |-> l[i].sig, round |-> l[i].round, receipt |-> Errored]
             /\ l[i].status = "started"
    <3>1. v[i] = w[i]
      BY <1>8, <2>1 DEF Active
    <3> QED BY <2>1, <3>1 DEF Active
  <2>2. CASE w[i] = l[i]
    <3>1. CASE i \in Answered(results) \/ l[i].status \notin Active
      <4>1. v[i] = l[i]
        BY <1>8, <2>2, <3>1
      <4> QED BY <3>1, <4>1 DEF Active
    <3>2. CASE i \notin Answered(results) /\ l[i].status = "admitted"
      <4>1. v[i] = a(i)
        BY <1>8, <2>2, <3>2 DEF Active
      <4> QED BY <2>2, <3>2, <4>1 DEF a, Active
    <3>3. CASE i \notin Answered(results) /\ l[i].status = "started"
      <4>1. v[i] = b(i)
        BY <1>8, <2>2, <3>3 DEF Active
      <4> QED BY <2>2, <3>3, <4>1 DEF b, Active
    <3> QED BY <3>1, <3>2, <3>3 DEF Active
  <2> QED BY <1>4, <2>1, <2>2
<1>10. Signed(v)
  <2>1. \A i \in Ids : v[i].status = "none" => l[i].status = "none" /\ v[i] = l[i]
    BY <1>9, <1>4, <1>8 DEF a, b, Active
  <2>2. \A i \in Ids : l[i].status = "none" => v[i] = l[i]
    BY <1>9 DEF Active
  <2> QED BY <1>9, <2>1, <2>2 DEF Signed
<1> QED BY <1>7, <1>9, <1>10 DEF v, w

\* What the resumed transcript gets: a result for each record with a receipt
\* whose id has none yet.
LEMMA ResultsAre ==
  ASSUME NEW l \in Ledgers, Signed(l), NEW results \in SUBSET Results
  PROVE  /\ ResumeResults(l, results) \in SUBSET Results
         /\ \A x \in ResumeResults(l, results) :
              /\ x.id \in Ids
              /\ x.id \notin Answered(results)
              /\ l[x.id].receipt # NoReceipt
              /\ x.sig = l[x.id].sig
              /\ x.round = l[x.id].round
              /\ x.receipt = l[x.id].receipt
         /\ \A i \in Ids : i \notin Answered(results) /\ l[i].receipt # NoReceipt =>
              \E x \in ResumeResults(l, results) : x.id = i /\ x.round = l[i].round
<1> DEFINE S == {j \in Ids : j \notin Answered(results) /\ l[j].receipt # NoReceipt}
           r(i) == [id |-> i, sig |-> l[i].sig, round |-> l[i].round, receipt |-> l[i].receipt]
<1>1. ResumeResults(l, results) = {r(i) : i \in S}
  BY DEF ResumeResults
<1>2. \A i \in S : r(i) \in Results
  BY DEF Results, Ledgers, Records, Signed
<1>3. \A i \in S : r(i).id = i /\ r(i).sig = l[i].sig /\ r(i).round = l[i].round /\ r(i).receipt = l[i].receipt
  OBVIOUS
<1>4. \A i \in S : i \in Ids /\ i \notin Answered(results) /\ l[i].receipt # NoReceipt
  OBVIOUS
<1>5. \A i \in Ids : i \notin Answered(results) /\ l[i].receipt # NoReceipt => i \in S
  OBVIOUS
<1> HIDE DEF r, S
<1> QED BY <1>1, <1>2, <1>3, <1>4, <1>5

\* The round with which a resumed activation goes on.
LEMMA ResumeRound ==
  ASSUME NEW r \in Rounds, NEW results \in SUBSET Results
  PROVE  /\ Max({r} \cup {x.round : x \in results}) \in Rounds
         /\ r <= Max({r} \cup {x.round : x \in results})
         /\ \A y \in results : y.round <= Max({r} \cup {x.round : x \in results})
<1> DEFINE S == {r} \cup {x.round : x \in results}
<1>1. \A x \in results : x.round \in Rounds
  BY DEF Results
<1>2. MaxRounds \in Nat
  BY JournalAssumption
<1>3. S \in SUBSET (0..MaxRounds) /\ r \in S /\ \A x \in results : x.round \in S
  BY <1>1 DEF Rounds
<1> HIDE DEF S
<1>4. IsFiniteSet(S)
  <2>1. IsFiniteSet(0..MaxRounds)
    BY <1>2, FS_Interval
  <2> QED BY <1>3, <2>1, FS_Subset
<1>5. S \in SUBSET Nat
  BY <1>2, <1>3
<1>6. Max(S) \in S /\ \A n \in S : n <= Max(S)
  BY <1>3, <1>4, <1>5, MaxOf
<1>7. Max(S) \in Rounds /\ r <= Max(S) /\ \A x \in results : x.round <= Max(S)
  BY <1>3, <1>6 DEF Rounds
<1> QED BY <1>7 DEF S

-----------------------------------------------------------------------------
(* What the steps do to the log, the calls and the gaps.                   *)

Gaps == {"none", "open", "read"}
EventRecords == [task : Tasks, round : Rounds, id : Ids, sig : Proposals]

\* The types of the parts.
LEMMA TypeFacts ==
  ASSUME TypeOK
  PROVE  /\ journal.task \in Tasks \cup {NoTask}
         /\ journal.transcript \in SUBSET Results
         /\ journal.round \in Rounds
         /\ journal.ledger \in Ledgers
         /\ journal.watermark \in Nat
         /\ wal \in Seq(Lines)
         /\ task \in Tasks \cup {NoTask}
         /\ round \in Rounds /\ round \in Nat
         /\ transcript \in SUBSET Results
         /\ ledger \in Ledgers
         /\ walSeq \in Nat
         /\ calls \in [Ids -> CallRecords]
         /\ prior \in [Ids -> Receipts]
         /\ \A i \in Ids : calls[i].pc \in CallPcs /\ calls[i].receipt \in Receipts
         /\ late.seq \in Nat
         /\ late.running \in SUBSET Results
         /\ late.by \in 0..MaxActivations
         /\ events \in Seq(EventRecords)
         /\ \A n \in DOMAIN events : events[n] \in EventRecords /\ n \in Nat \ {0}
         /\ fresh \in [Tasks -> Nat]
         /\ gap \in [Tasks -> Gaps]
<1>1. /\ journal.task \in Tasks \cup {NoTask}
      /\ journal.transcript \in SUBSET Results
      /\ journal.round \in Rounds
      /\ journal.ledger \in Ledgers
      /\ journal.watermark \in Nat
  BY DEF TypeOK, Ledgers
<1>2. round \in Rounds /\ round \in Nat
  BY EmptyTyped DEF TypeOK
<1>3. calls \in [Ids -> CallRecords]
  BY DEF TypeOK, CallRecords
<1>4. \A i \in Ids : calls[i].pc \in CallPcs /\ calls[i].receipt \in Receipts
  BY <1>3 DEF CallRecords
<1>5. events \in Seq(EventRecords)
  BY DEF TypeOK, EventRecords
<1>6. \A n \in DOMAIN events : events[n] \in EventRecords /\ n \in Nat \ {0}
  BY <1>5
<1>7. late.seq \in Nat /\ late.running \in SUBSET Results /\ late.by \in 0..MaxActivations
  BY DEF TypeOK
<1> QED BY <1>1, <1>2, <1>3, <1>4, <1>5, <1>6, <1>7 DEF TypeOK, Ledgers, Lines, Gaps

\* What is in the log after a line was appended.
LEMMA AppendedIs ==
  ASSUME wal \in Seq(Lines), NEW e \in Lines
  PROVE  /\ Appended(e) \in Seq(Lines)
         /\ \A k \in DOMAIN Appended(e) :
              \/ k \in DOMAIN wal /\ Appended(e)[k] = wal[k]
              \/ ~Torn /\ k = Len(wal) + 1 /\ Appended(e)[k] = e
         /\ ~Torn => /\ Len(wal) + 1 \in DOMAIN Appended(e)
                     /\ Appended(e)[Len(wal) + 1] = e
         /\ \A k \in DOMAIN wal :
              \/ k \in DOMAIN Appended(e) /\ Appended(e)[k] = wal[k]
              \/ Torn /\ wal[k] = TornLine
<1>1. CASE Torn
  <2>1. wal # <<>> /\ wal[Len(wal)] = TornLine
    BY <1>1 DEF Torn, Last
  <2> DEFINE s == SubSeq(wal, 1, Len(wal) - 1)
  <2>2. Appended(e) = s
    BY <1>1 DEF Appended, Front
  <2>3. /\ s \in Seq(Lines)
        /\ DOMAIN s = 1..Len(wal) - 1
        /\ \A k \in 1..Len(wal) - 1 : s[k] = wal[k]
    BY <2>1
  <2> HIDE DEF s
  <2>4. DOMAIN wal = 1..Len(wal) /\ Len(wal) \in Nat
    OBVIOUS
  <2>5. \A k \in DOMAIN wal : k \in 1..Len(wal) - 1 \/ k = Len(wal)
    BY <2>4
  <2> QED BY <1>1, <2>1, <2>2, <2>3, <2>4, <2>5
<1>2. CASE ~Torn
  <2>1. Appended(e) = Append(wal, e)
    BY <1>2 DEF Appended
  <2> DEFINE s == Append(wal, e)
  <2>2. /\ s \in Seq(Lines)
        /\ DOMAIN s = 1..Len(wal) + 1
        /\ s[Len(wal) + 1] = e
        /\ \A k \in DOMAIN wal : k \in DOMAIN s /\ s[k] = wal[k]
    OBVIOUS
  <2> HIDE DEF s
  <2>3. DOMAIN wal = 1..Len(wal) /\ Len(wal) \in Nat
    OBVIOUS
  <2>4. \A k \in DOMAIN s : k \in DOMAIN wal \/ k = Len(wal) + 1
    BY <2>2, <2>3
  <2> QED BY <1>2, <2>1, <2>2, <2>3, <2>4 DEF s
<1> QED BY <1>1, <1>2

\* What a restart reads of the log after a line was appended: as before, when
\* the line is lost or the watermark covers it, else its entry is replayed last.
LEMMA LogAfter ==
  ASSUME wal \in Seq(Lines), NEW e \in Lines, NEW l, NEW watermark \in Nat
  PROVE  /\ Torn \/ e.seq <= watermark =>
              Replayed(l, Appended(e), watermark) = Replayed(l, wal, watermark)
         /\ ~Torn /\ e \in Entries /\ e.seq > watermark /\ (\A k \in DOMAIN wal : wal[k].seq <= e.seq) =>
              Replayed(l, Appended(e), watermark) = Apply(Replayed(l, wal, watermark), e)
<1>1. Appended(e) \in Seq(Lines)
  BY AppendedIs
<1>2. ASSUME Torn \/ e.seq <= watermark
      PROVE  Replayed(l, Appended(e), watermark) = Replayed(l, wal, watermark)
  <2> DEFINE s == Appended(e)
  <2>1. e.seq \in Nat /\ TornLine.seq = 0
    BY DEF Lines, Entries, TornLine
  <2>2. \A k \in DOMAIN s : (k \in DOMAIN wal /\ s[k] = wal[k]) \/ (~Torn /\ s[k] = e)
    BY AppendedIs
  <2>3. \A k \in DOMAIN wal : (k \in DOMAIN s /\ s[k] = wal[k]) \/ wal[k] = TornLine
    BY AppendedIs
  <2> HIDE DEF s
  <2>4. ASSUME NEW k \in DOMAIN s, s[k].seq > watermark
        PROVE  k \in DOMAIN wal /\ s[k] = wal[k]
    BY <1>2, <2>1, <2>2, <2>4
  <2>5. ASSUME NEW k \in DOMAIN wal, wal[k].seq > watermark
        PROVE  k \in DOMAIN s /\ s[k] = wal[k]
    BY <2>1, <2>3, <2>5
  <2>6. Above(s, watermark) = Above(wal, watermark)
    BY <2>4, <2>5 DEF Above
  <2>7. \A k \in Above(s, watermark) : s[k] = wal[k]
    BY <2>4 DEF Above
  <2>8. s \in Seq(Lines)
    BY <1>1 DEF s
  <2>9. Replayed(l, s, watermark) = Replayed(l, wal, watermark)
    BY <2>6, <2>7, <2>8, ReplaySame
  <2> QED BY <2>9 DEF s
<1>3. ASSUME ~Torn, e \in Entries, e.seq > watermark, \A k \in DOMAIN wal : wal[k].seq <= e.seq
      PROVE  Replayed(l, Appended(e), watermark) = Apply(Replayed(l, wal, watermark), e)
  <2>1. Appended(e) = Append(wal, e)
    BY <1>3 DEF Appended
  <2>2. \A k \in Above(wal, watermark) : wal[k].seq <= e.seq
    BY <1>3 DEF Above
  <2> QED BY <1>3, <2>1, <2>2, ReplayAppend
<1> QED BY <1>2, <1>3

\* The entry of a call.
LEMMA EntryIs ==
  ASSUME TypeOK, NEW i \in Ids, NEW receipt \in Receipts, NEW op \in {"admit", "start", "result"},
         calls[i].sig \in Proposals, round < MaxRounds
  PROVE  /\ Entry(op, i, receipt) \in Entries
         /\ Entry(op, i, receipt) \in Lines
         /\ Entry(op, i, receipt).seq = walSeq + 1
         /\ Entry(op, i, receipt).op = op
         /\ Entry(op, i, receipt).id = i
         /\ Entry(op, i, receipt).sig = calls[i].sig
         /\ Entry(op, i, receipt).round = round + 1
         /\ Entry(op, i, receipt).receipt = receipt
         /\ round + 1 \in Rounds
<1>1. round + 1 \in Rounds
  BY TypeFacts, JournalAssumption DEF Rounds
<1>2. walSeq + 1 \in Nat
  BY TypeFacts
<1> QED BY <1>1, <1>2 DEF Entry, Entries, Lines

\* A call goes on.
LEMMA CallToIs ==
  ASSUME TypeOK, NEW i \in Ids, NEW to \in CallPcs, NEW receipt \in Receipts, CallTo(i, to, receipt)
  PROVE  /\ calls' \in [Ids -> CallRecords]
         /\ calls'[i].pc = to
         /\ calls'[i].sig = calls[i].sig
         /\ calls'[i].receipt = receipt
         /\ \A j \in Ids : j # i => calls'[j] = calls[j]
<1> DEFINE first == [pc |-> to, sig |-> calls[i].sig, receipt |-> calls[i].receipt]
           rec == [pc |-> to, sig |-> calls[i].sig, receipt |-> receipt]
<1>1. calls \in [Ids -> CallRecords]
  BY TypeFacts
<1>2. calls[i] \in CallRecords
  BY <1>1
<1>3. rec \in CallRecords
  BY <1>2 DEF CallRecords
<1>4. [calls[i] EXCEPT !.pc = to, !.receipt = receipt] = rec
  <2>1. [calls[i] EXCEPT !.pc = to] = first
    BY <1>2 DEF CallRecords
  <2>2. [first EXCEPT !.receipt = receipt] = rec
    OBVIOUS
  <2>3. [calls[i] EXCEPT !.pc = to, !.receipt = receipt]
          = [[calls[i] EXCEPT !.pc = to] EXCEPT !.receipt = receipt]
    OBVIOUS
  <2> QED BY <2>1, <2>2, <2>3
<1>5. calls' = [calls EXCEPT ![i] = rec]
  <2>1. [calls EXCEPT ![i].pc = to, ![i].receipt = receipt]
          = [calls EXCEPT ![i] = [calls[i] EXCEPT !.pc = to, !.receipt = receipt]]
    BY <1>1
  <2> HIDE DEF rec
  <2> QED BY <1>4, <2>1 DEF CallTo
<1>6. /\ rec.pc = to
      /\ rec.sig = calls[i].sig
      /\ rec.receipt = receipt
  OBVIOUS
<1> HIDE DEF rec
<1> QED BY <1>1, <1>3, <1>5, <1>6

\* A gap opens for the task at work and for that of the journal.
LEMMA GapOpensDoes ==
  ASSUME TypeOK, GapOpens
  PROVE  /\ gap' \in [Tasks -> Gaps]
         /\ \A t \in Tasks : gap[t] = "read" <=> gap'[t] = "read"
         /\ task \in Tasks => gap'[task] # "none"
         /\ journal.task \in Tasks => gap'[journal.task] # "none"
<1>1. gap \in [Tasks -> Gaps]
  BY TypeFacts
<1> QED BY <1>1 DEF GapOpens, Gaps

\* A run that begins anew has handed nothing to tools.
LEMMA BeginsAnewDoes ==
  ASSUME TypeOK, task \in Tasks, NEW read \in Gaps, BeginsAnew(read)
  PROVE  /\ fresh' \in [Tasks -> Nat]
         /\ gap' \in [Tasks -> Gaps]
         /\ fresh'[task] = Len(events)
         /\ gap'[task] = read
         /\ \A t \in Tasks : t # task => fresh'[t] = fresh[t] /\ gap'[t] = gap[t]
<1>1. Len(events) \in Nat
  BY TypeFacts
<1>2. fresh \in [Tasks -> Nat] /\ gap \in [Tasks -> Gaps]
  BY TypeFacts
<1> QED BY <1>1, <1>2 DEF BeginsAnew

\* The gap of a task, where it is given by what it was.
LEMMA GapIs ==
  ASSUME TypeOK, task \in Tasks, NEW a \in Gaps,
         gap' = [gap EXCEPT ![task] = IF @ = "open" THEN a ELSE @]
  PROVE  /\ gap' \in [Tasks -> Gaps]
         /\ gap'[task] = IF gap[task] = "open" THEN a ELSE gap[task]
         /\ \A t \in Tasks : t # task => gap'[t] = gap[t]
<1> DEFINE v == IF gap[task] = "open" THEN a ELSE gap[task]
<1>1. gap \in [Tasks -> Gaps]
  BY TypeFacts
<1>2. v \in Gaps
  BY <1>1
<1>3. gap' = [gap EXCEPT ![task] = v]
  OBVIOUS
<1> HIDE DEF v
<1>4. /\ gap' \in [Tasks -> Gaps]
      /\ gap'[task] = v
      /\ \A t \in Tasks : t # task => gap'[t] = gap[t]
  BY <1>1, <1>2, <1>3
<1> QED BY <1>4 DEF v

\* An aborted activation's call has returned.
LEMMA LateIs ==
  ASSUME TypeOK, NEW x, LateResult(x)
  PROVE  /\ late' \in [seq : Nat, running : SUBSET Results, by : 0..MaxActivations]
         /\ late'.seq = late.seq + 1
         /\ late'.running = late.running \ {x}
         /\ late'.by = late.by
<1> DEFINE rec == [seq |-> late.seq + 1, running |-> late.running \ {x}, by |-> late.by]
           first == [seq |-> late.seq + 1, running |-> late.running, by |-> late.by]
<1>1. late \in [seq : Nat, running : SUBSET Results, by : 0..MaxActivations]
  BY DEF TypeOK
<1>2. late' = [late EXCEPT !.seq = late.seq + 1, !.running = late.running \ {x}]
  BY <1>1 DEF LateResult
<1>3. [late EXCEPT !.seq = late.seq + 1] = first
  BY <1>1
<1>4. [first EXCEPT !.running = late.running \ {x}] = rec
  OBVIOUS
<1>5. [late EXCEPT !.seq = late.seq + 1, !.running = late.running \ {x}]
        = [[late EXCEPT !.seq = late.seq + 1] EXCEPT !.running = late.running \ {x}]
  OBVIOUS
<1>6. late' = rec
  BY <1>2, <1>3, <1>4, <1>5
<1>7. late.seq \in Nat /\ late.running \in SUBSET Results /\ late.by \in 0..MaxActivations
  BY <1>1
<1> QED BY <1>6, <1>7

-----------------------------------------------------------------------------
(* Types, and what belongs together in memory.                             *)

\* The steps, one by one.
LEMMA NextCases ==
  ASSUME Next
  PROVE  \/ \E t \in Tasks : Activate(t)
         \/ LoadNothing
         \/ \E found \in SUBSET native : LoadJournal(found)
         \/ Restore \/ RestoreTruncate \/ RestoreFails
         \/ Checkpoint \/ CheckpointTruncate \/ CheckpointFails
         \/ Complete \/ CompleteTruncate \/ CompleteFails
         \/ \E chosen \in SUBSET Ids : \E sigs \in [chosen -> Proposals] : Propose(sigs)
         \/ Finish
         \/ \E i \in Ids : Admit(i)
         \/ \E i \in Ids : AdmitReplay(i)
         \/ \E i \in Ids : AdmitRefused(i)
         \/ \E i \in Ids : AdmitFails(i)
         \/ \E i \in Ids : AnswerAgain(i)
         \/ \E i \in Ids : Start(i)
         \/ \E i \in Ids : StartFails(i)
         \/ \E i \in Ids : Dispatch(i)
         \/ \E i \in Ids : Record(i)
         \/ \E i \in Ids : RecordFails(i)
         \/ AllAdmitted
         \/ \E next \in {"checkpoint", "complete"} : BatchEnds(next)
         \/ \E x \in late.running : LateResult(x)
         \/ Abort
         \/ Crash
BY DEF Next, CallStep, JournalStep

\* A fault is counted.
LEMMA FaultTyped ==
  ASSUME TypeOK, NEW kind, Fault(kind)
  PROVE  faults' \in 0..MaxFaults
BY JournalAssumption DEF TypeOK, Fault

\* The memory of an activation that is over has its type.
LEMMA EndedTyped ==
  ASSUME Ended
  PROVE  /\ pc' \in Pcs
         /\ task' \in Tasks \cup {NoTask}
         /\ round' \in Rounds
         /\ transcript' \subseteq Results
         /\ ledger' \in Ledgers
         /\ Signed(ledger')
         /\ walSeq' \in Nat
         /\ calls' \in [Ids -> CallRecords]
         /\ prior' \in [Ids -> Receipts]
<1>1. 0 \in Rounds
  BY EmptyTyped
<1> QED BY <1>1, EmptyTyped DEF Ended, Pcs

\* So has the log after an append that throws.
LEMMA AppendFailsTyped ==
  ASSUME TypeOK, NEW e \in Lines, AppendFails(e)
  PROVE  wal' \in Seq(Lines) /\ faults' \in 0..MaxFaults
<1>1. faults' \in 0..MaxFaults
  BY FaultTyped DEF AppendFails
<1>2. TornLine \in Lines
  BY DEF Lines
<1>3. wal \in Seq(Lines) /\ Appended(TornLine) \in Seq(Lines) /\ Appended(e) \in Seq(Lines)
  BY <1>2, TypeFacts, AppendedIs
<1>4. wal' = wal \/ wal' = Appended(TornLine) \/ wal' = Appended(e)
  BY DEF AppendFails
<1> QED BY <1>1, <1>3, <1>4

\* And the journal that is written.
LEMMA WrittenTyped ==
  ASSUME TypeOK, SignedInv, NEW status \in {"in_flight", "completed"}, Written(status)
  PROVE  /\ journal' \in [task : Tasks \cup {NoTask}, status : {"none", "in_flight", "completed"},
                          transcript : SUBSET Results, round : Rounds, ledger : Ledgers,
                          watermark : Nat]
         /\ ledger' = Released(ledger, transcript)
         /\ ledger' \in Ledgers
         /\ Signed(ledger')
         /\ native' = {}
         /\ journal'.task = task
         /\ journal'.status = status
         /\ journal'.transcript = transcript
         /\ journal'.round = round
         /\ journal'.ledger = ledger'
         /\ journal'.watermark = walSeq
<1>1. ledger \in Ledgers
  BY TypeFacts
<1>2. ledger' = Released(ledger, transcript)
  BY DEF Written
<1>3. ledger' \in Ledgers /\ Signed(ledger')
  BY <1>1, <1>2, ReleasedIs DEF SignedInv
<1> DEFINE l == ledger'
<1>4. journal' = [task |-> task, status |-> status, transcript |-> transcript,
                  round |-> round, ledger |-> l, watermark |-> walSeq]
  BY DEF Written
<1>5. l \in Ledgers
  BY <1>3
<1> HIDE DEF l
<1>6. journal' \in [task : Tasks \cup {NoTask}, status : {"none", "in_flight", "completed"},
                    transcript : SUBSET Results, round : Rounds, ledger : Ledgers, watermark : Nat]
  BY <1>4, <1>5, TypeFacts
<1>7. /\ journal'.task = task
      /\ journal'.status = status
      /\ journal'.transcript = transcript
      /\ journal'.round = round
      /\ journal'.ledger = l
      /\ journal'.watermark = walSeq
  BY <1>4
<1>8. native' = {}
  BY DEF Written
<1> QED BY <1>2, <1>3, <1>6, <1>7, <1>8 DEF l

\* TypeOK, part by part.
LEMMA TypeIs ==
  ASSUME journal' \in [task : Tasks \cup {NoTask}, status : {"none", "in_flight", "completed"},
                       transcript : SUBSET Results, round : Rounds, ledger : Ledgers, watermark : Nat],
         wal' \in Seq(Lines),
         native' \in SUBSET Ids,
         pc' \in Pcs,
         task' \in Tasks \cup {NoTask},
         round' \in Rounds,
         transcript' \subseteq Results,
         ledger' \in Ledgers,
         walSeq' \in Nat,
         calls' \in [Ids -> CallRecords],
         prior' \in [Ids -> Receipts],
         late' \in [seq : Nat, running : SUBSET Results, by : 0..MaxActivations],
         activations' \in 0..MaxActivations,
         faults' \in 0..MaxFaults,
         events' \in Seq(EventRecords),
         fresh' \in [Tasks -> Nat],
         gap' \in [Tasks -> Gaps]
  PROVE  TypeOK'
BY DEF TypeOK, Ledgers, Lines, CallRecords, EventRecords, Gaps

\* The types before a step, in the same form.
LEMMA TypeWas ==
  ASSUME TypeOK
  PROVE  /\ journal \in [task : Tasks \cup {NoTask}, status : {"none", "in_flight", "completed"},
                         transcript : SUBSET Results, round : Rounds, ledger : Ledgers, watermark : Nat]
         /\ wal \in Seq(Lines)
         /\ native \in SUBSET Ids
         /\ pc \in Pcs
         /\ task \in Tasks \cup {NoTask}
         /\ round \in Rounds
         /\ transcript \subseteq Results
         /\ ledger \in Ledgers
         /\ walSeq \in Nat
         /\ calls \in [Ids -> CallRecords]
         /\ prior \in [Ids -> Receipts]
         /\ late \in [seq : Nat, running : SUBSET Results, by : 0..MaxActivations]
         /\ activations \in 0..MaxActivations
         /\ faults \in 0..MaxFaults
         /\ events \in Seq(EventRecords)
         /\ fresh \in [Tasks -> Nat]
         /\ gap \in [Tasks -> Gaps]
BY DEF TypeOK, Ledgers, Lines, CallRecords, EventRecords, Gaps

\* The activation at work has a task.
LEMMA AtWork ==
  ASSUME TypeOK, ActivationInv, pc # "off"
  PROVE  task \in Tasks
BY JournalAssumption DEF TypeOK, ActivationInv

\* Initially every variable has its type.
LEMMA TypeInit ==
  ASSUME Init
  PROVE  TypeOK
<1>1. NoJournal \in [task : Tasks \cup {NoTask}, status : {"none", "in_flight", "completed"},
                     transcript : SUBSET Results, round : Rounds, ledger : Ledgers, watermark : Nat]
  <2> DEFINE l == EmptyLedger
  <2>1. l \in Ledgers /\ 0 \in Rounds
    BY EmptyTyped
  <2>2. NoJournal = [task |-> NoTask, status |-> "none", transcript |-> {}, round |-> 0,
                     ledger |-> l, watermark |-> 0]
    BY DEF NoJournal
  <2> HIDE DEF l
  <2> QED BY <2>1, <2>2
<1>2. EmptyLedger \in Ledgers /\ NoCalls \in [Ids -> CallRecords] /\ 0 \in Rounds
  BY EmptyTyped
<1>3. NoLate \in [seq : Nat, running : SUBSET Results, by : 0..MaxActivations]
  BY JournalAssumption DEF NoLate
<1>4. journal \in [task : Tasks \cup {NoTask}, status : {"none", "in_flight", "completed"},
                   transcript : SUBSET Results, round : Rounds, ledger : [Ids -> Records], watermark : Nat]
  BY <1>1 DEF Init, Ledgers
<1>5. ledger \in [Ids -> Records]
  BY <1>2 DEF Init, Ledgers
<1>6. calls \in [Ids -> [pc : CallPcs, sig : Proposals \cup {NoProposal}, receipt : Receipts]]
  BY <1>2 DEF Init, CallRecords
<1>7. late \in [seq : Nat, running : SUBSET Results, by : 0..MaxActivations]
  BY <1>3 DEF Init
<1>8. /\ wal \in Seq(Entries \cup {TornLine})
      /\ native \subseteq Ids
      /\ pc \in Pcs
      /\ task \in Tasks \cup {NoTask}
      /\ round \in Rounds
      /\ transcript \subseteq Results
      /\ walSeq \in Nat
      /\ prior \in [Ids -> Receipts]
      /\ activations \in 0..MaxActivations
      /\ faults \in 0..MaxFaults
      /\ events \in Seq([task : Tasks, round : Rounds, id : Ids, sig : Proposals])
      /\ fresh \in [Tasks -> Nat]
      /\ gap \in [Tasks -> {"none", "open", "read"}]
  BY <1>2, EmptyTyped, JournalAssumption DEF Init, Pcs
<1> QED BY <1>4, <1>5, <1>6, <1>7, <1>8 DEF TypeOK

\* A call of the round has a signature, and the round is one that may begin.
LEMMA AtCall ==
  ASSUME BaseInv, NEW i \in Ids, calls[i].pc # "none"
  PROVE  /\ calls[i].sig \in Proposals
         /\ round < MaxRounds
         /\ round + 1 \in Rounds
         /\ pc \in {"admit", "batch"}
<1>1. pc \in {"admit", "batch"}
  <2>1. calls = NoCalls => calls[i].pc = "none"
    BY DEF NoCalls, NoCall
  <2> QED BY <2>1 DEF BaseInv, ActivationInv
<1>2. calls[i].sig \in Proposals /\ round < MaxRounds
  BY <1>1 DEF BaseInv, ActivationInv, CallInv, CallHolds
<1>3. round + 1 \in Rounds
  BY <1>2, TypeFacts, JournalAssumption DEF BaseInv, Rounds
<1> QED BY <1>1, <1>2, <1>3

\* The results of the calls that are at some point are results.
LEMMA CallResults ==
  ASSUME BaseInv, NEW at \in CallPcs \ {"none"}
  PROVE  {[id |-> i, sig |-> calls[i].sig, round |-> round + 1, receipt |-> calls[i].receipt] :
            i \in {j \in Ids : calls[j].pc = at}} \subseteq Results
<1>1. TypeOK
  BY DEF BaseInv
<1> SUFFICES ASSUME NEW i \in Ids, calls[i].pc = at
             PROVE  [id |-> i, sig |-> calls[i].sig, round |-> round + 1, receipt |-> calls[i].receipt] \in Results
  OBVIOUS
<1>2. calls[i].sig \in Proposals /\ round < MaxRounds
  BY AtCall
<1>3. round + 1 \in Rounds /\ calls[i].receipt \in Receipts
  BY <1>1, <1>2, TypeFacts, JournalAssumption DEF Rounds
<1> QED BY <1>2, <1>3 DEF Results

\* A committed transition leaves log, sequence and gaps typed.
LEMMA CommitTyped ==
  ASSUME BaseInv, NEW i \in Ids, calls[i].pc # "none", NEW receipt \in Receipts,
         NEW op \in {"admit", "start", "result"}, NEW l, Commit(op, i, receipt, l)
  PROVE  /\ wal' \in Seq(Lines)
         /\ walSeq' \in Nat
         /\ gap' \in [Tasks -> Gaps]
         /\ ledger' = l
<1>1. TypeOK
  BY DEF BaseInv
<1>2. Entry(op, i, receipt) \in Lines
  BY <1>1, AtCall, EntryIs
<1>3. wal' \in Seq(Lines)
  BY <1>1, <1>2, TypeFacts, AppendedIs DEF Commit
<1>4. walSeq' \in Nat /\ ledger' = l
  BY <1>1, TypeFacts DEF Commit
<1>5. gap' \in [Tasks -> Gaps]
  BY <1>1, TypeFacts, GapOpensDoes DEF Commit
<1> QED BY <1>3, <1>4, <1>5

\* Types are kept by every step.
LEMMA TypeStep ==
  ASSUME BaseInv, Next
  PROVE  TypeOK' /\ SignedInv'
<1>0. TypeOK /\ SignedInv /\ ActivationInv
  BY DEF BaseInv
<1> USE DEF diskVars, runVars, ledgerVars, historyVars
<1>1. ASSUME NEW t \in Tasks, Activate(t) PROVE TypeOK' /\ SignedInv'
  <2>1. activations' \in 0..MaxActivations
    BY <1>0, <1>1, JournalAssumption, TypeWas DEF Activate
  <2>2. TypeOK'
    BY <1>0, <1>1, <2>1, TypeWas, TypeIs DEF Activate, Goto, Pcs
  <2> QED BY <1>0, <1>1, <2>2 DEF Activate, SignedInv
<1>2. CASE LoadNothing
  <2>1. fresh' \in [Tasks -> Nat] /\ gap' \in [Tasks -> Gaps]
    BY <1>0, <1>2, AtWork, BeginsAnewDoes DEF LoadNothing, Gaps
  <2>2. TypeOK'
    BY <1>0, <1>2, <2>1, TypeWas, TypeIs DEF LoadNothing, Goto, Pcs
  <2> QED BY <1>0, <1>2, <2>2 DEF LoadNothing, SignedInv
<1>3. ASSUME NEW found \in SUBSET native, LoadJournal(found) PROVE TypeOK' /\ SignedInv'
  <2> DEFINE l == Replayed(journal.ledger, wal, journal.watermark)
             r == Reconciled(WithNative(l, found), journal.transcript)
             s == ResumeResults(r, journal.transcript)
  <2>1. /\ ledger' = r
        /\ walSeq' = HighestSeq(wal, journal.watermark)
        /\ transcript' = journal.transcript \cup s
        /\ round' = Max({journal.round} \cup {x.round : x \in s})
        /\ pc' \in {"checkpoint", "restore"}
        /\ gap' = [gap EXCEPT ![task] = IF @ = "open" THEN "read" ELSE @]
        /\ UNCHANGED <<diskVars, task, calls, prior, late, activations, faults, events, fresh>>
    BY <1>3 DEF LoadJournal, Goto
  <2>2. l \in Ledgers /\ Signed(l)
    BY <1>0, TypeFacts, ReplayTyped DEF SignedInv
  <2>3. found \in SUBSET Ids
    BY <1>0, TypeWas
  <2> HIDE DEF l
  <2>4. r \in Ledgers /\ Signed(r)
    BY <2>2, <2>3, RestoredIs
  <2> HIDE DEF r
  <2>5. s \in SUBSET Results
    BY <1>0, <2>4, TypeFacts, ResultsAre
  <2> HIDE DEF s
  <2>6. round' \in Rounds
    BY <1>0, <2>1, <2>5, TypeFacts, ResumeRound
  <2>7. walSeq' \in Nat
    BY <1>0, <2>1, TypeFacts, HighestIs
  <2>8. transcript' \subseteq Results
    BY <1>0, <2>1, <2>5, TypeFacts
  <2>9. gap' \in [Tasks -> Gaps]
    BY <1>0, <1>3, <2>1, AtWork, GapIs DEF Gaps, LoadJournal
  <2>10. TypeOK'
    BY <1>0, <2>1, <2>4, <2>6, <2>7, <2>8, <2>9, TypeWas, TypeIs DEF Pcs
  <2> QED BY <1>0, <2>1, <2>4, <2>10 DEF SignedInv
<1>4. ASSUME NEW status \in {"in_flight", "completed"}, Written(status), pc' \in Pcs,
             UNCHANGED <<wal, runVars, walSeq, calls, prior, late, activations, faults, historyVars>>
      PROVE  TypeOK' /\ SignedInv'
  <2>1. TypeOK'
    BY <1>0, <1>4, TypeWas, TypeIs, WrittenTyped
  <2> QED BY <1>0, <1>4, <2>1, WrittenTyped DEF SignedInv
<1>5. CASE Restore
  BY <1>4, <1>5 DEF Restore, Goto, Pcs
<1>6. CASE Checkpoint
  BY <1>4, <1>6 DEF Checkpoint, Goto, Pcs
<1>7. CASE Complete
  BY <1>4, <1>7 DEF Complete, Goto, Pcs
<1>8. ASSUME Truncate, pc # "off" PROVE wal' \in Seq(Lines) /\ gap' \in [Tasks -> Gaps]
  BY <1>0, <1>8, AtWork, GapIs DEF Truncate, Gaps
<1>9. CASE RestoreTruncate \/ CheckpointTruncate
  <2>1. TypeOK'
    BY <1>0, <1>8, <1>9, TypeWas, TypeIs DEF RestoreTruncate, CheckpointTruncate, Truncate, Goto, Pcs
  <2> QED BY <1>0, <1>9, <2>1 DEF RestoreTruncate, CheckpointTruncate, Truncate, SignedInv
<1>10. CASE CompleteTruncate
  <2>1. TypeOK'
    BY <1>0, <1>8, <1>10, TypeWas, TypeIs, EndedTyped DEF CompleteTruncate, Truncate
  <2> QED BY <1>0, <1>10, <2>1, EndedTyped DEF CompleteTruncate, Truncate, SignedInv
<1>11. CASE RestoreFails
  <2>1. ledger' \in Ledgers /\ Signed(ledger')
    BY <1>0, <1>11, TypeFacts, ReleasedIs DEF RestoreFails, SignedInv
  <2>2. fresh' \in [Tasks -> Nat] /\ gap' \in [Tasks -> Gaps]
    BY <1>0, <1>11, AtWork, BeginsAnewDoes DEF RestoreFails, Gaps
  <2>3. faults' \in 0..MaxFaults
    BY <1>0, <1>11, FaultTyped DEF RestoreFails
  <2>4. TypeOK'
    BY <1>0, <1>11, <2>1, <2>2, <2>3, TypeWas, TypeIs, EmptyTyped DEF RestoreFails, Goto, Pcs
  <2> QED BY <1>0, <1>11, <2>1, <2>4 DEF RestoreFails, SignedInv
<1>12. CASE CheckpointFails
  <2>1. ledger' \in Ledgers /\ Signed(ledger')
    BY <1>0, <1>12, TypeFacts, ReleasedIs DEF CheckpointFails, SignedInv
  <2>2. gap' \in [Tasks -> Gaps]
    BY <1>0, <1>12, TypeWas, GapOpensDoes DEF CheckpointFails
  <2>3. faults' \in 0..MaxFaults
    BY <1>0, <1>12, FaultTyped DEF CheckpointFails
  <2>4. TypeOK'
    BY <1>0, <1>12, <2>1, <2>2, <2>3, TypeWas, TypeIs DEF CheckpointFails, Goto, Pcs
  <2> QED BY <1>0, <1>12, <2>1, <2>4 DEF CheckpointFails, SignedInv
<1>13. CASE CompleteFails
  <2>1. TypeOK'
    BY <1>0, <1>13, TypeWas, TypeIs, EndedTyped, FaultTyped DEF CompleteFails
  <2> QED BY <1>0, <1>13, <2>1, EndedTyped DEF CompleteFails, SignedInv
<1>14. ASSUME NEW chosen \in SUBSET Ids, NEW sigs \in [chosen -> Proposals], Propose(sigs)
       PROVE  TypeOK' /\ SignedInv'
  <2>1. \A i \in DOMAIN sigs : sigs[i] \in Proposals
    OBVIOUS
  <2>2. \A i \in DOMAIN sigs : [pc |-> "proposed", sig |-> sigs[i], receipt |-> NoReceipt] \in CallRecords
    BY <2>1 DEF CallRecords, CallPcs, Receipts, NoReceipt
  <2>3. NoCall \in CallRecords
    BY DEF NoCall, CallRecords, CallPcs, Receipts, NoReceipt
  <2>4. calls' \in [Ids -> CallRecords]
    BY <1>14, <2>2, <2>3 DEF Propose
  <2>5. TypeOK'
    BY <1>0, <1>14, <2>4, TypeWas, TypeIs DEF Propose, Goto, Pcs
  <2> QED BY <1>0, <1>14, <2>5 DEF Propose, SignedInv
<1>15. CASE Finish \/ AllAdmitted
  <2>1. TypeOK'
    BY <1>0, <1>15, TypeWas, TypeIs DEF Finish, AllAdmitted, Goto, Pcs
  <2> QED BY <1>0, <1>15, <2>1 DEF Finish, AllAdmitted, SignedInv
<1>16. ASSUME NEW i \in Ids, calls[i].pc # "none", NEW receipt \in Receipts, NEW r \in Receipts,
              NEW op \in {"admit", "start", "result"}, NEW l \in Ledgers, Signed(l),
              NEW to \in CallPcs, Commit(op, i, receipt, l), CallTo(i, to, r),
              UNCHANGED <<journal, native, pc, runVars, prior, late, activations, faults, events, fresh>>
       PROVE  TypeOK' /\ SignedInv'
  <2>1. calls' \in [Ids -> CallRecords]
    BY <1>0, <1>16, CallToIs
  <2>2. wal' \in Seq(Lines) /\ walSeq' \in Nat /\ gap' \in [Tasks -> Gaps] /\ ledger' = l
    BY <1>16, CommitTyped
  <2>3. TypeOK'
    BY <1>0, <1>16, <2>1, <2>2, TypeWas, TypeIs
  <2> QED BY <1>0, <1>16, <2>2, <2>3 DEF SignedInv
<1>17. NoReceipt \in Receipts /\ Errored \in Receipts /\ {"proposed", "admitted", "execute", "record", "done"} \subseteq CallPcs
  BY DEF Receipts, NoReceipt, Errored, CallPcs
<1>18. ASSUME NEW i \in Ids, Admit(i) PROVE TypeOK' /\ SignedInv'
  <2>1. calls[i].sig \in Proposals
    BY <1>18, AtCall DEF Admit
  <2>2. round + 1 \in Rounds
    BY <1>18, AtCall DEF Admit
  <2> DEFINE l == AfterAdmit(ledger, i, calls[i].sig, round + 1)
  <2>3. l \in Ledgers /\ \A j \in Ids : j # i => l[j] = ledger[j]
    <3>1. ledger \in Ledgers
      BY <1>0, TypeFacts
    <3> QED BY <2>1, <2>2, <3>1, AfterAdmitIs
  <2>4. l[i] = [status |-> "admitted", sig |-> calls[i].sig, round |-> round + 1, receipt |-> NoReceipt]
    BY <1>0, <1>18, <2>1, <2>2, TypeFacts, AfterAdmitIs DEF Admit
  <2> HIDE DEF l
  <2>5. Signed(l)
    BY <1>0, <2>1, <2>3, <2>4 DEF Signed, SignedInv
  <2>6. calls[i].pc # "none" /\ Commit("admit", i, NoReceipt, l) /\ CallTo(i, "admitted", NoReceipt)
    BY <1>18 DEF Admit, l
  <2>7. UNCHANGED <<journal, native, pc, runVars, prior, late, activations, faults, events, fresh>>
    BY <1>18 DEF Admit
  <2> QED BY <1>16, <1>17, <2>3, <2>5, <2>6, <2>7
<1>19. ASSUME NEW i \in Ids, NEW to \in CallPcs, NEW receipt \in Receipts, CallTo(i, to, receipt),
              prior' \in [Ids -> Receipts],
              wal' \in Seq(Lines), faults' \in 0..MaxFaults, events' \in Seq(EventRecords),
              UNCHANGED <<journal, native, pc, runVars, ledgerVars, late, activations, fresh, gap>>
       PROVE  TypeOK' /\ SignedInv'
  <2>1. calls' \in [Ids -> CallRecords]
    BY <1>0, <1>19, CallToIs
  <2>2. TypeOK'
    BY <1>0, <1>19, <2>1, TypeWas, TypeIs
  <2> QED BY <1>0, <1>19, <2>2 DEF SignedInv
<1>20. ASSUME NEW i \in Ids, AdmitReplay(i) PROVE TypeOK' /\ SignedInv'
  <2>1. PICK receipt \in PriorReceipts(i) :
          CallTo(i, "done", receipt) /\ prior' = [prior EXCEPT ![i] = receipt]
    BY <1>20 DEF AdmitReplay
  <2>2. receipt \in Receipts
    <3>1. ledger[i].receipt \in Receipts
      BY <1>0, TypeFacts DEF Ledgers, Records
    <3>2. \A x \in transcript : x.receipt \in Receipts
      BY <1>0, TypeFacts DEF Results
    <3> QED BY <2>1, <3>1, <3>2 DEF PriorReceipts
  <2>3. prior' \in [Ids -> Receipts]
    BY <1>0, <2>1, <2>2, TypeWas
  <2> QED BY <1>0, <1>17, <1>19, <1>20, <2>1, <2>2, <2>3, TypeWas DEF AdmitReplay
<1>32. ASSUME NEW i \in Ids, AnswerAgain(i) PROVE TypeOK' /\ SignedInv'
  <2>1. prior[i] \in Receipts
    BY <1>0, TypeWas
  <2> QED BY <1>0, <1>17, <1>19, <1>32, <2>1, TypeWas DEF AnswerAgain
<1>21. ASSUME NEW i \in Ids, AdmitRefused(i) PROVE TypeOK' /\ SignedInv'
  <2>1. TypeOK'
    BY <1>0, <1>21, TypeWas, TypeIs, EndedTyped DEF AdmitRefused
  <2> QED BY <1>0, <1>21, <2>1, EndedTyped DEF AdmitRefused, SignedInv
<1>22. ASSUME NEW i \in Ids, NEW op \in {"admit", "start", "result"}, NEW receipt \in Receipts,
              calls[i].pc # "none", AppendFails(Entry(op, i, receipt))
       PROVE  wal' \in Seq(Lines) /\ faults' \in 0..MaxFaults
  <2>1. Entry(op, i, receipt) \in Lines
    BY <1>0, <1>22, AtCall, EntryIs
  <2> QED BY <1>0, <1>22, <2>1, AppendFailsTyped
<1>23. ASSUME NEW i \in Ids, AdmitFails(i) PROVE TypeOK' /\ SignedInv'
  <2>1. wal' \in Seq(Lines) /\ faults' \in 0..MaxFaults
    BY <1>17, <1>22, <1>23 DEF AdmitFails
  <2>2. TypeOK'
    BY <1>0, <1>23, <2>1, TypeWas, TypeIs, EndedTyped DEF AdmitFails
  <2> QED BY <1>0, <1>23, <2>2, EndedTyped DEF AdmitFails, SignedInv
<1>24. ASSUME NEW i \in Ids, Start(i) PROVE TypeOK' /\ SignedInv'
  <2> DEFINE l == AfterStart(ledger, i)
  <2>1. /\ l \in Ledgers
        /\ \A j \in Ids : j # i => l[j] = ledger[j]
        /\ \/ l[i] = ledger[i]
           \/ /\ ledger[i].status = "admitted"
              /\ l[i] = [status |-> "started", sig |-> ledger[i].sig, round |-> ledger[i].round,
                         receipt |-> ledger[i].receipt]
    BY <1>0, TypeFacts, AfterStartIs
  <2> HIDE DEF l
  <2>2. Signed(l)
    BY <1>0, <2>1 DEF Signed, SignedInv
  <2>3. calls[i].pc # "none" /\ Commit("start", i, NoReceipt, l) /\ CallTo(i, "execute", NoReceipt)
    BY <1>24 DEF Start, l
  <2>4. UNCHANGED <<journal, native, pc, runVars, prior, late, activations, faults, events, fresh>>
    BY <1>24 DEF Start
  <2> QED BY <1>16, <1>17, <2>1, <2>2, <2>3, <2>4
<1>25. ASSUME NEW i \in Ids, StartFails(i) \/ RecordFails(i) PROVE TypeOK' /\ SignedInv'
  <2>1. wal' \in Seq(Lines) /\ faults' \in 0..MaxFaults
    BY <1>0, <1>17, <1>22, <1>25, TypeFacts DEF StartFails, RecordFails, CommitFails
  <2>2. CallTo(i, "done", Errored) /\ events' = events /\ prior' = prior
    BY <1>25 DEF StartFails, RecordFails, CommitFails
  <2>3. UNCHANGED <<journal, native, pc, runVars, ledgerVars, late, activations, fresh, gap>>
    BY <1>25 DEF StartFails, RecordFails, CommitFails
  <2> QED BY <1>0, <1>17, <1>19, <2>1, <2>2, <2>3, TypeWas
<1>26. ASSUME NEW i \in Ids, Dispatch(i) PROVE TypeOK' /\ SignedInv'
  <2>1. calls[i].sig \in Proposals /\ pc = "batch"
    BY <1>26, AtCall DEF Dispatch
  <2>2. round + 1 \in Rounds
    BY <1>26, AtCall DEF Dispatch
  <2>3. task \in Tasks
    BY <1>0, <2>1, AtWork
  <2> DEFINE e == [task |-> task, round |-> round + 1, id |-> i, sig |-> calls[i].sig]
  <2>4. e \in EventRecords
    BY <2>1, <2>2, <2>3 DEF EventRecords
  <2>5. events' = Append(events, e)
    BY <1>26 DEF Dispatch
  <2> HIDE DEF e
  <2>6. events' \in Seq(EventRecords) /\ Len(events') \in Receipts
    BY <1>0, <2>4, <2>5, TypeFacts DEF Receipts
  <2> QED BY <1>0, <1>17, <1>19, <1>26, <2>6, TypeWas DEF Dispatch
<1>27. ASSUME NEW i \in Ids, Record(i) PROVE TypeOK' /\ SignedInv'
  <2>0. calls[i].receipt \in Receipts
    BY <1>0, TypeFacts
  <2> DEFINE l == AfterResult(ledger, i, calls[i].receipt)
  <2>1. /\ l \in Ledgers
        /\ \A j \in Ids : j # i => l[j] = ledger[j]
        /\ \/ l[i] = ledger[i]
           \/ /\ ledger[i].status = "started"
              /\ l[i] = [status |-> "committed", sig |-> ledger[i].sig, round |-> ledger[i].round,
                         receipt |-> calls[i].receipt]
    BY <1>0, <2>0, TypeFacts, AfterResultIs
  <2> HIDE DEF l
  <2>2. Signed(l)
    BY <1>0, <2>1 DEF Signed, SignedInv
  <2>3. /\ calls[i].pc # "none"
        /\ Commit("result", i, calls[i].receipt, l)
        /\ CallTo(i, "done", calls[i].receipt)
    BY <1>27 DEF Record, l
  <2>4. UNCHANGED <<journal, native, pc, runVars, prior, late, activations, faults, events, fresh>>
    BY <1>27 DEF Record
  <2> QED BY <1>16, <1>17, <2>0, <2>1, <2>2, <2>3, <2>4
<1>28. ASSUME NEW next \in {"checkpoint", "complete"}, BatchEnds(next) PROVE TypeOK' /\ SignedInv'
  <2>1. round' \in Rounds
    BY <1>0, <1>28, TypeFacts, JournalAssumption DEF BatchEnds, ActivationInv, Rounds
  <2>2. transcript' \subseteq Results
    <3>1. "done" \in CallPcs \ {"none"}
      BY DEF CallPcs
    <3> QED BY <1>0, <1>28, <3>1, TypeFacts, CallResults DEF BatchEnds
  <2>3. native' \in SUBSET Ids
    BY <1>0, <1>28, TypeWas DEF BatchEnds
  <2>4. TypeOK'
    BY <1>0, <1>28, <2>1, <2>2, <2>3, TypeWas, TypeIs, EmptyTyped DEF BatchEnds, Goto, Pcs
  <2> QED BY <1>0, <1>28, <2>4 DEF BatchEnds, SignedInv
<1>29. ASSUME NEW x \in late.running, LateResult(x) PROVE TypeOK' /\ SignedInv'
  <2> DEFINE e == [seq |-> late.seq + 1, op |-> "result", id |-> x.id,
                   sig |-> x.sig, round |-> x.round, receipt |-> x.receipt]
  <2>1. x \in Results /\ late.seq + 1 \in Nat
    BY <1>0, TypeFacts
  <2>2. e \in Lines
    BY <2>1 DEF Lines, Entries, Results
  <2>3. wal' = Appended(e)
    BY <1>29 DEF LateResult
  <2> HIDE DEF e
  <2>4. wal' \in Seq(Lines)
    BY <1>0, <2>2, <2>3, TypeFacts, AppendedIs
  <2>5. late' \in [seq : Nat, running : SUBSET Results, by : 0..MaxActivations]
    BY <1>0, <1>29, LateIs
  <2>6. gap' \in [Tasks -> Gaps]
    BY <1>0, <1>29, TypeWas, GapOpensDoes DEF LateResult
  <2>7. TypeOK'
    BY <1>0, <1>29, <2>4, <2>5, <2>6, TypeWas, TypeIs DEF LateResult
  <2> QED BY <1>0, <1>29, <2>7 DEF LateResult, SignedInv
<1>30. CASE Abort
  <2>1. late' \in [seq : Nat, running : SUBSET Results, by : 0..MaxActivations]
    <3>1. "record" \in CallPcs \ {"none"}
      BY DEF CallPcs
    <3> QED BY <1>0, <1>30, <3>1, TypeWas, CallResults DEF Abort
  <2>2. TypeOK'
    BY <1>0, <1>30, <2>1, TypeWas, TypeIs, EndedTyped, FaultTyped DEF Abort
  <2> QED BY <1>0, <1>30, <2>2, EndedTyped DEF Abort, SignedInv
<1>31. CASE Crash
  <2>1. wal' \in Seq(Lines)
    <3>1. TornLine \in Lines
      BY DEF Lines
    <3>2. wal' = wal \/ wal' = Appended(TornLine)
      BY <1>31 DEF Crash
    <3> QED BY <1>0, <3>1, <3>2, TypeFacts, AppendedIs
  <2>2. late' \in [seq : Nat, running : SUBSET Results, by : 0..MaxActivations]
    BY <1>31, JournalAssumption DEF Crash, NoLate
  <2>3. TypeOK'
    BY <1>0, <1>31, <2>1, <2>2, TypeWas, TypeIs, EndedTyped, FaultTyped DEF Crash
  <2> QED BY <1>0, <1>31, <2>3, EndedTyped DEF Crash, SignedInv
<1> QED BY <1>1, <1>2, <1>3, <1>5, <1>6, <1>7, <1>9, <1>10, <1>11, <1>12, <1>13, <1>14, <1>15,
           <1>18, <1>20, <1>21, <1>23, <1>24, <1>25, <1>26, <1>27, <1>28, <1>29, <1>30, <1>31,
           <1>32, NextCases

\* What the load of a journal in flight leaves: the ledger that the replay
\* gives, reconciled, and the journal's transcript with what it answers.
LEMMA LoadJournalDoes ==
  ASSUME BaseInv, NEW found \in SUBSET native, LoadJournal(found)
  PROVE  LET s == ResumeResults(ledger', journal.transcript) IN
         /\ pc = "load" /\ Resumable
         /\ OnDisk \in Ledgers
         /\ ledger' \in Ledgers
         /\ \A i \in Ids :
              /\ ledger'[i].sig = OnDisk[i].sig
              /\ ledger'[i].round = OnDisk[i].round
              /\ OnDisk[i].status \notin Active => ledger'[i] = OnDisk[i]
              /\ OnDisk[i].status = "admitted" /\ i \in Answered(journal.transcript) =>
                   ledger'[i] = OnDisk[i]
              /\ OnDisk[i].status = "admitted" /\ i \notin Answered(journal.transcript) =>
                   ledger'[i].status = "failed" /\ ledger'[i].receipt = NotDispatched
              /\ OnDisk[i].status = "started" =>
                   \/ ledger'[i].status = "committed" /\ ledger'[i].receipt = Errored
                   \/ /\ i \notin Answered(journal.transcript)
                      /\ ledger'[i].status = "indeterminate"
                      /\ ledger'[i].receipt = Indeterminate
                   \/ i \in Answered(journal.transcript) /\ ledger'[i] = OnDisk[i]
         /\ s \in SUBSET Results
         /\ \A x \in s :
              /\ x.id \in Ids
              /\ x.id \notin Answered(journal.transcript)
              /\ ledger'[x.id].receipt # NoReceipt
              /\ x.sig = ledger'[x.id].sig
              /\ x.round = ledger'[x.id].round
              /\ x.receipt = ledger'[x.id].receipt
         /\ \A i \in Ids : i \notin Answered(journal.transcript) /\ ledger'[i].receipt # NoReceipt =>
              \E x \in s : x.id = i /\ x.round = ledger'[i].round
         /\ transcript' = journal.transcript \cup s
         /\ round' \in Rounds
         /\ journal.round <= round'
         /\ \A x \in s : x.round <= round'
         /\ walSeq' = HighestSeq(wal, journal.watermark)
         /\ pc' \in {"checkpoint", "restore"}
         /\ gap' = [gap EXCEPT ![task] = IF @ = "open" THEN "read" ELSE @]
         /\ UNCHANGED <<journal, wal, native, task, calls, late, activations, faults, events, fresh>>
<1>0. TypeOK /\ SignedInv
  BY DEF BaseInv
<1> DEFINE l == OnDisk
           r == Reconciled(WithNative(l, found), journal.transcript)
           s == ResumeResults(r, journal.transcript)
<1>1. /\ ledger' = r
      /\ pc = "load" /\ Resumable
      /\ walSeq' = HighestSeq(wal, journal.watermark)
      /\ transcript' = journal.transcript \cup s
      /\ round' = Max({journal.round} \cup {x.round : x \in s})
      /\ pc' \in {"checkpoint", "restore"}
      /\ gap' = [gap EXCEPT ![task] = IF @ = "open" THEN "read" ELSE @]
      /\ UNCHANGED <<journal, wal, native, task, calls, late, activations, faults, events, fresh>>
  BY DEF LoadJournal, Goto, OnDisk, diskVars
<1>2. l \in Ledgers /\ Signed(l)
  BY <1>0, TypeFacts, ReplayTyped DEF SignedInv, OnDisk
<1>3. found \in SUBSET Ids
  BY <1>0, TypeWas
<1> HIDE DEF l
<1>4. /\ r \in Ledgers
      /\ Signed(r)
      /\ \A i \in Ids :
              /\ r[i].sig = l[i].sig
              /\ r[i].round = l[i].round
              /\ l[i].status \notin Active => r[i] = l[i]
              /\ l[i].status = "admitted" /\ i \in Answered(journal.transcript) => r[i] = l[i]
              /\ l[i].status = "admitted" /\ i \notin Answered(journal.transcript) =>
                   r[i].status = "failed" /\ r[i].receipt = NotDispatched
              /\ l[i].status = "started" =>
                   \/ r[i].status = "committed" /\ r[i].receipt = Errored
                   \/ /\ i \notin Answered(journal.transcript)
                      /\ r[i].status = "indeterminate"
                      /\ r[i].receipt = Indeterminate
                   \/ i \in Answered(journal.transcript) /\ r[i] = l[i]
  BY <1>2, <1>3, RestoredIs
<1> HIDE DEF r
<1>5. /\ s \in SUBSET Results
      /\ \A x \in s :
           /\ x.id \in Ids
           /\ x.id \notin Answered(journal.transcript)
           /\ r[x.id].receipt # NoReceipt
           /\ x.sig = r[x.id].sig
           /\ x.round = r[x.id].round
           /\ x.receipt = r[x.id].receipt
      /\ \A i \in Ids : i \notin Answered(journal.transcript) /\ r[i].receipt # NoReceipt =>
           \E x \in s : x.id = i /\ x.round = r[i].round
  BY <1>0, <1>4, TypeFacts, ResultsAre
<1>6. ResumeResults(ledger', journal.transcript) = s
  BY <1>1
<1> HIDE DEF s
<1>7. round' \in Rounds /\ journal.round <= round' /\ \A x \in s : x.round <= round'
  BY <1>0, <1>1, <1>5, TypeFacts, ResumeRound
<1>8. ledger' = r /\ OnDisk = l
  BY <1>1 DEF l
<1> QED BY <1>1, <1>2, <1>4, <1>5, <1>6, <1>7, <1>8

\* Memory is empty when there is no activation, at every step.
LEMMA ActivationStep ==
  ASSUME BaseInv, Next
  PROVE  ActivationInv'
<1>0. TypeOK /\ ActivationInv
  BY DEF BaseInv
<1> USE DEF diskVars, runVars, ledgerVars, historyVars
<1>1. /\ activations \in Nat /\ late.by \in Nat
      /\ NoTask \notin Tasks /\ MaxRounds \in Nat \ {0}
      /\ Len(events) \in Nat
      /\ \A t \in Tasks : fresh[t] \in Nat /\ fresh[t] <= Len(events)
  BY <1>0, TypeFacts, TypeWas, JournalAssumption DEF ActivationInv
<1>2. ASSUME Ended, late'.by <= activations, activations' = activations, UNCHANGED <<events, fresh>>
      PROVE  ActivationInv'
  BY <1>1, <1>2 DEF Ended, ActivationInv
<1>3. ASSUME pc \notin {"off", "load"}, pc' \notin {"off", "load"},
             calls' = NoCalls \/ (pc' \in {"admit", "batch"} /\ round' < MaxRounds),
             pc' \in {"admit", "batch"} => round' < MaxRounds,
             UNCHANGED <<task, late, activations, events, fresh>>
      PROVE  ActivationInv'
  BY <1>0, <1>1, <1>3 DEF ActivationInv
<1>4. ASSUME NEW t \in Tasks, Activate(t) PROVE ActivationInv'
  BY <1>0, <1>1, <1>4 DEF Activate, Goto, ActivationInv
<1>5. ASSUME pc # "off", NEW read \in Gaps, BeginsAnew(read), pc' = "checkpoint", calls' = calls,
             calls = NoCalls, UNCHANGED <<task, late, activations, events>>
      PROVE  ActivationInv'
  <2>1. /\ fresh'[task] = Len(events)
        /\ \A t \in Tasks : t # task => fresh'[t] = fresh[t]
    BY <1>0, <1>5, AtWork, BeginsAnewDoes
  <2>2. \A t \in Tasks : fresh'[t] <= Len(events)
    BY <1>1, <2>1
  <2> QED BY <1>0, <1>1, <1>5, <2>2 DEF ActivationInv
<1>6. CASE LoadNothing
  BY <1>0, <1>5, <1>6 DEF LoadNothing, ActivationInv, Goto, Gaps
<1>7. ASSUME NEW found \in SUBSET native, LoadJournal(found) PROVE ActivationInv'
  <2>1. /\ pc = "load"
        /\ pc' \in {"checkpoint", "restore"}
        /\ UNCHANGED <<task, calls, late, activations, events, fresh>>
    BY <1>7, LoadJournalDoes
  <2> QED BY <1>0, <1>1, <2>1 DEF ActivationInv
<1>8. CASE Restore \/ RestoreTruncate \/ Checkpoint \/ CheckpointTruncate \/ Complete
  <2>1. pc \notin {"off", "load", "admit", "batch"} /\ pc' \notin {"off", "load", "admit", "batch"}
    BY <1>8 DEF Restore, RestoreTruncate, Checkpoint, CheckpointTruncate, Complete, Goto
  <2>2. UNCHANGED <<task, calls, late, activations, events, fresh>>
    BY <1>8 DEF Restore, RestoreTruncate, Checkpoint, CheckpointTruncate, Complete, Truncate
  <2> QED BY <1>0, <1>3, <2>1, <2>2 DEF ActivationInv
<1>9. CASE RestoreFails
  BY <1>0, <1>5, <1>9 DEF RestoreFails, ActivationInv, Goto, Gaps
<1>10. CASE CheckpointFails
  <2>1. pc \in {"checkpoint", "checkpointCut"} /\ pc' = "model"
    BY <1>10 DEF CheckpointFails, Goto
  <2>2. UNCHANGED <<task, calls, late, activations, events, fresh>>
    BY <1>10 DEF CheckpointFails
  <2> QED BY <1>0, <1>3, <2>1, <2>2 DEF ActivationInv
<1>11. CASE CompleteTruncate \/ CompleteFails \/ (\E i \in Ids : AdmitRefused(i) \/ AdmitFails(i))
  <2>1. Ended /\ UNCHANGED <<late, activations, events, fresh>>
    BY <1>11 DEF CompleteTruncate, Truncate, CompleteFails, AdmitRefused, AdmitFails
  <2> QED BY <1>0, <1>2, <2>1 DEF ActivationInv
<1>12. ASSUME NEW chosen \in SUBSET Ids, NEW sigs \in [chosen -> Proposals], Propose(sigs)
       PROVE  ActivationInv'
  <2>1. pc = "model" /\ pc' = "admit" /\ round' < MaxRounds /\ UNCHANGED <<task, late, activations, events, fresh>>
    BY <1>12 DEF Propose, Goto
  <2> QED BY <1>3, <2>1
<1>13. CASE Finish \/ AllAdmitted
  <2>1. /\ \/ pc = "model" /\ pc' = "complete"
           \/ pc = "admit" /\ pc' = "batch"
        /\ UNCHANGED <<task, round, calls, late, activations, events, fresh>>
    BY <1>13 DEF Finish, AllAdmitted, Goto
  <2> QED BY <1>0, <1>3, <2>1 DEF ActivationInv
<1>14. ASSUME pc \in {"admit", "batch"}, UNCHANGED <<pc, task, round, late, activations, fresh>>,
              events' = events
       PROVE  ActivationInv'
  <2>1. round' < MaxRounds /\ pc' = pc
    BY <1>0, <1>14 DEF ActivationInv
  <2> QED BY <1>3, <1>14, <2>1
<1>15. CASE \E i \in Ids : Admit(i) \/ AdmitReplay(i) \/ AnswerAgain(i) \/ Start(i) \/ StartFails(i) \/ Record(i)
                            \/ RecordFails(i)
  <2>1. pc \in {"admit", "batch"} /\ UNCHANGED <<pc, task, round, late, activations, fresh, events>>
    BY <1>15 DEF Admit, AdmitReplay, AnswerAgain, Start, StartFails, Record, RecordFails, CommitFails
  <2> QED BY <1>14, <2>1
<1>16. ASSUME NEW i \in Ids, Dispatch(i) PROVE ActivationInv'
  <2>1. pc = "batch" /\ UNCHANGED <<pc, task, round, late, activations, fresh>>
    BY <1>16 DEF Dispatch
  <2> DEFINE e == [task |-> task, round |-> round + 1, id |-> i, sig |-> calls[i].sig]
  <2>2. events' = Append(events, e)
    BY <1>16 DEF Dispatch
  <2> HIDE DEF e
  <2>3. Len(events') = Len(events) + 1
    BY <1>0, <2>2, TypeFacts
  <2>4. \A t \in Tasks : fresh'[t] <= Len(events')
    BY <1>1, <2>1, <2>3
  <2> QED BY <1>0, <1>1, <2>1, <2>4 DEF ActivationInv
<1>17. ASSUME NEW next \in {"checkpoint", "complete"}, BatchEnds(next) PROVE ActivationInv'
  BY <1>3, <1>17 DEF BatchEnds, Goto
<1>18. ASSUME NEW x \in late.running, LateResult(x) PROVE ActivationInv'
  <2>1. late'.by = late.by
    BY <1>0, <1>18, LateIs
  <2>2. UNCHANGED <<pc, runVars, ledgerVars, calls, activations, events, fresh>>
    BY <1>18 DEF LateResult
  <2> QED BY <1>0, <2>1, <2>2 DEF ActivationInv
<1>19. CASE Abort
  <2>1. Ended /\ late'.by = activations /\ UNCHANGED <<activations, events, fresh>>
    BY <1>19 DEF Abort
  <2> QED BY <1>1, <1>2, <2>1
<1>20. CASE Crash
  <2>1. Ended /\ late'.by = 0 /\ UNCHANGED <<activations, events, fresh>>
    BY <1>20 DEF Crash, NoLate
  <2> QED BY <1>1, <1>2, <2>1
<1> QED BY <1>4, <1>6, <1>7, <1>8, <1>9, <1>10, <1>11, <1>12, <1>13, <1>15, <1>16, <1>17, <1>18,
           <1>19, <1>20, NextCases

\* A call that is handed over is one more event of the task at work.
LEMMA DispatchDoes ==
  ASSUME BaseInv, NEW i \in Ids, Dispatch(i)
  PROVE  LET n == Len(events) + 1 IN
         /\ pc = "batch" /\ calls[i].pc = "execute"
         /\ n \in Nat \ {0}
         /\ n \notin DOMAIN events
         /\ DOMAIN events' = DOMAIN events \cup {n}
         /\ \A k \in DOMAIN events : events'[k] = events[k]
         /\ events'[n] = [task |-> task, round |-> round + 1, id |-> i, sig |-> calls[i].sig]
         /\ EventsOf(task)' = EventsOf(task) \cup {n}
         /\ \A t \in Tasks : t # task => EventsOf(t)' = EventsOf(t)
         /\ \A t \in Tasks : EventsOf(t) \subseteq DOMAIN events
         /\ calls'[i].pc = "record"
         /\ calls'[i].sig = calls[i].sig
         /\ calls'[i].receipt = n
         /\ \A j \in Ids : j # i => calls'[j] = calls[j]
         /\ UNCHANGED <<journal, wal, native, pc, task, round, transcript, ledger, walSeq, late,
                        activations, faults, fresh, gap>>
<1> DEFINE n == Len(events) + 1
           e == [task |-> task, round |-> round + 1, id |-> i, sig |-> calls[i].sig]
<1>0. TypeOK /\ ActivationInv
  BY DEF BaseInv
<1>1. pc = "batch" /\ calls[i].pc = "execute"
  BY DEF Dispatch
<1>2. task \in Tasks
  BY <1>0, <1>1, AtWork
<1>3. events' = Append(events, e) /\ events \in Seq(EventRecords) /\ Len(events) \in Nat
  BY <1>0, TypeFacts DEF Dispatch
<1>4. e.task = task
  OBVIOUS
<1> HIDE DEF e
<1>5. /\ n \in Nat \ {0}
      /\ n \notin DOMAIN events
      /\ DOMAIN events' = DOMAIN events \cup {n}
      /\ \A k \in DOMAIN events : events'[k] = events[k]
      /\ events'[n] = e
      /\ Len(events') = n
  BY <1>3
<1>6. UNCHANGED <<journal, wal, native, pc, task, round, transcript, ledger, walSeq, late,
                  activations, faults, fresh, gap>>
  BY DEF Dispatch, diskVars, runVars, ledgerVars
<1>7. fresh[task] < n
  BY <1>0, <1>2, <1>3, TypeFacts DEF ActivationInv
<1> HIDE DEF n
<1>8. EventsOf(task)' = EventsOf(task) \cup {n}
  BY <1>4, <1>5, <1>6, <1>7 DEF EventsOf
<1>9. \A t \in Tasks : t # task => EventsOf(t)' = EventsOf(t)
  BY <1>4, <1>5, <1>6 DEF EventsOf
<1>10. \A t \in Tasks : EventsOf(t) \subseteq DOMAIN events
  BY DEF EventsOf
<1>11. "record" \in CallPcs /\ Len(events') \in Receipts /\ CallTo(i, "record", Len(events'))
  BY <1>5 DEF CallPcs, Receipts, Dispatch
<1>12. /\ calls'[i].pc = "record"
       /\ calls'[i].sig = calls[i].sig
       /\ calls'[i].receipt = n
       /\ \A j \in Ids : j # i => calls'[j] = calls[j]
  BY <1>0, <1>5, <1>11, CallToIs
<1> QED BY <1>1, <1>5, <1>6, <1>8, <1>9, <1>10, <1>12 DEF n, e

\* What is kept of a call that is not concerned.
LEMMA CallKept ==
  ASSUME NEW j \in Ids, CallHolds(j), calls'[j] = calls[j], ledger'[j] = ledger[j],
         UNCHANGED <<pc, task, round, fresh>>,
         \A n \in DOMAIN events : n \in DOMAIN events' /\ events'[n] = events[n]
  PROVE  CallHolds(j)'
BY DEF CallHolds, Mine, EventsOf

\* A call and its record agree, at every step.
LEMMA CallStepKeeps ==
  ASSUME BaseInv, Next
  PROVE  CallInv'
<1>0. TypeOK /\ ActivationInv /\ CallInv /\ ActivationInv'
  BY ActivationStep DEF BaseInv
<1> USE DEF diskVars, runVars, ledgerVars, historyVars
<1>1. CASE pc' \notin {"admit", "batch"}
  <2>1. \A i \in Ids : calls'[i] = NoCall
    BY <1>0, <1>1 DEF ActivationInv, NoCalls
  <2> QED BY <1>1, <2>1 DEF CallInv, CallHolds, NoCall
<1>2. ASSUME NEW chosen \in SUBSET Ids, NEW sigs \in [chosen -> Proposals], Propose(sigs)
      PROVE  CallInv'
  <2>1. \A i \in Ids : /\ calls'[i].pc \in {"none", "proposed"}
                       /\ calls'[i].pc # "none" => calls'[i].sig \in Proposals
    BY <1>2 DEF Propose, NoCall
  <2>2. pc' = "admit"
    BY <1>2 DEF Propose, Goto
  <2> QED BY <2>1, <2>2 DEF CallInv, CallHolds
<1>3. ASSUME NEW i \in Ids, NEW to \in CallPcs, NEW receipt \in Receipts, CallTo(i, to, receipt),
             UNCHANGED <<pc, task, round, fresh, events>>,
             \A j \in Ids : j # i => ledger'[j] = ledger[j],
             calls[i].pc # "none",
             pc = "admit" => to \in {"admitted", "done"},
             pc = "batch" => to # "proposed",
             to \in {"none", "record"} => FALSE,
             to = "admitted" => ledger'[i] =
               [status |-> "admitted", sig |-> calls[i].sig, round |-> round + 1, receipt |-> NoReceipt],
             to = "execute" => ledger'[i] =
               [status |-> "started", sig |-> calls[i].sig, round |-> round + 1, receipt |-> NoReceipt]
      PROVE  CallInv'
  <2>1. /\ calls'[i].pc = to
        /\ calls'[i].sig = calls[i].sig
        /\ \A j \in Ids : j # i => calls'[j] = calls[j]
    BY <1>0, <1>3, CallToIs
  <2>2. \A j \in Ids : j # i => CallHolds(j)'
    BY <1>0, <1>3, <2>1, CallKept DEF CallInv
  <2>3. calls[i].sig \in Proposals
    BY <1>3, AtCall
  <2>4. CallHolds(i)'
    BY <1>3, <2>1, <2>3 DEF CallHolds, Mine
  <2> QED BY <2>2, <2>4 DEF CallInv
<1>4. NoReceipt \in Receipts /\ Errored \in Receipts /\ {"proposed", "admitted", "execute", "record", "done"} \subseteq CallPcs
  BY DEF Receipts, NoReceipt, Errored, CallPcs
<1>5. ledger \in Ledgers
  BY <1>0, TypeFacts
<1>6. ASSUME NEW i \in Ids, Admit(i) PROVE CallInv'
  <2>1. calls[i].sig \in Proposals
    BY <1>6, AtCall DEF Admit
  <2>2. round + 1 \in Rounds
    BY <1>6, AtCall DEF Admit
  <2> DEFINE l == AfterAdmit(ledger, i, calls[i].sig, round + 1)
  <2>3. \A j \in Ids : j # i => l[j] = ledger[j]
    BY <1>5, <2>1, <2>2, AfterAdmitIs
  <2>4. l[i] = [status |-> "admitted", sig |-> calls[i].sig, round |-> round + 1, receipt |-> NoReceipt]
    BY <1>5, <1>6, <2>1, <2>2, AfterAdmitIs DEF Admit
  <2>5. ledger' = l
    BY <1>6 DEF Admit, Commit
  <2> HIDE DEF l
  <2>6. calls[i].pc # "none" /\ CallTo(i, "admitted", NoReceipt) /\ UNCHANGED <<pc, task, round, fresh, events>>
    BY <1>6 DEF Admit
  <2> QED BY <1>3, <1>4, <2>3, <2>4, <2>5, <2>6
<1>7. ASSUME NEW i \in Ids, AdmitReplay(i) PROVE CallInv'
  <2>1. PICK receipt \in PriorReceipts(i) : CallTo(i, "done", receipt)
    BY <1>7 DEF AdmitReplay
  <2>2. receipt \in Receipts
    <3>1. ledger[i].receipt \in Receipts
      BY <1>5 DEF Ledgers, Records
    <3>2. \A x \in transcript : x.receipt \in Receipts
      BY <1>0, TypeFacts DEF Results
    <3> QED BY <2>1, <3>1, <3>2 DEF PriorReceipts
  <2>3. calls[i].pc # "none" /\ ledger' = ledger /\ UNCHANGED <<pc, task, round, fresh, events>>
    BY <1>7 DEF AdmitReplay
  <2> QED BY <1>3, <1>4, <2>1, <2>2, <2>3
<1>16. ASSUME NEW i \in Ids, AnswerAgain(i) PROVE CallInv'
  <2>1. prior[i] \in Receipts
    BY <1>0, TypeFacts
  <2>2. /\ CallTo(i, "done", prior[i]) /\ pc = "batch"
        /\ calls[i].pc # "none" /\ ledger' = ledger /\ UNCHANGED <<pc, task, round, fresh, events>>
    BY <1>16 DEF AnswerAgain
  <2> QED BY <1>3, <1>4, <2>1, <2>2
<1>8. ASSUME NEW i \in Ids, Start(i) PROVE CallInv'
  <2>1. /\ Mine(i, "admitted")
        /\ pc = "batch"
        /\ calls[i].pc # "none"
        /\ ledger' = AfterStart(ledger, i)
        /\ CallTo(i, "execute", NoReceipt)
        /\ UNCHANGED <<pc, task, round, fresh, events>>
    BY <1>0, <1>8 DEF Start, Commit, CallInv, CallHolds
  <2>2. /\ ledger[i].status = "admitted"
        /\ ledger[i].sig = calls[i].sig
        /\ ledger[i].round = round + 1
        /\ ledger[i].receipt = NoReceipt
    BY <2>1 DEF Mine
  <2>3. /\ \A j \in Ids : j # i => ledger'[j] = ledger[j]
        /\ ledger'[i] = [status |-> "started", sig |-> calls[i].sig, round |-> round + 1, receipt |-> NoReceipt]
    BY <1>5, <2>1, <2>2, AfterStartIs
  <2> QED BY <1>3, <1>4, <2>1, <2>3
<1>9. ASSUME NEW i \in Ids, StartFails(i) \/ RecordFails(i) PROVE CallInv'
  <2>1. /\ pc = "batch"
        /\ calls[i].pc # "none"
        /\ ledger' = ledger
        /\ CallTo(i, "done", Errored)
        /\ UNCHANGED <<pc, task, round, fresh, events>>
    BY <1>9 DEF StartFails, RecordFails, CommitFails
  <2> QED BY <1>3, <1>4, <2>1
<1>10. ASSUME NEW i \in Ids, Record(i) PROVE CallInv'
  <2> DEFINE r == calls[i].receipt
  <2>1. /\ pc = "batch"
        /\ calls[i].pc # "none"
        /\ ledger' = AfterResult(ledger, i, r)
        /\ CallTo(i, "done", r)
        /\ UNCHANGED <<pc, task, round, fresh, events>>
    BY <1>10 DEF Record, Commit
  <2>2. r \in Receipts
    BY <1>0, TypeFacts
  <2> HIDE DEF r
  <2>3. \A j \in Ids : j # i => ledger'[j] = ledger[j]
    <3> DEFINE m == AfterResult(ledger, i, r)
    <3>1. /\ m \in Ledgers
          /\ \A j \in Ids : j # i => m[j] = ledger[j]
          /\ \/ m[i] = ledger[i]
             \/ /\ ledger[i].status = "started"
                /\ m[i] = [status |-> "committed", sig |-> ledger[i].sig, round |-> ledger[i].round,
                           receipt |-> r]
      BY <1>5, <2>2, AfterResultIs
    <3> QED BY <2>1, <3>1
  <2> QED BY <1>3, <1>4, <2>1, <2>2, <2>3
<1>11. ASSUME NEW i \in Ids, Dispatch(i) PROVE CallInv'
  <2> DEFINE n == Len(events) + 1
  <2>1. /\ pc = "batch" /\ calls[i].pc = "execute"
        /\ DOMAIN events' = DOMAIN events \cup {n}
        /\ \A k \in DOMAIN events : events'[k] = events[k]
        /\ events'[n] = [task |-> task, round |-> round + 1, id |-> i, sig |-> calls[i].sig]
        /\ EventsOf(task)' = EventsOf(task) \cup {n}
        /\ calls'[i].pc = "record"
        /\ calls'[i].sig = calls[i].sig
        /\ calls'[i].receipt = n
        /\ \A j \in Ids : j # i => calls'[j] = calls[j]
        /\ UNCHANGED <<pc, task, round, ledger, fresh>>
    BY <1>11, DispatchDoes
  <2> HIDE DEF n
  <2>2. \A j \in Ids : j # i => CallHolds(j)'
    BY <1>0, <2>1, CallKept DEF CallInv
  <2>3. Mine(i, "started") /\ calls[i].sig \in Proposals
    BY <1>0, <2>1 DEF CallInv, CallHolds
  <2>4. CallHolds(i)'
    BY <2>1, <2>3 DEF CallHolds, Mine
  <2> QED BY <2>2, <2>4 DEF CallInv
<1>12. ASSUME pc' = "batch", pc \in {"admit", "batch"}, UNCHANGED <<task, round, ledger, calls, events, fresh>>,
              \A i \in Ids : calls[i].pc # "proposed"
       PROVE  CallInv'
  BY <1>0, <1>12 DEF CallInv, CallHolds, Mine, EventsOf
<1>13. CASE AllAdmitted
  BY <1>12, <1>13 DEF AllAdmitted, Goto
<1>14. ASSUME NEW x \in late.running, LateResult(x) PROVE CallInv'
  <2>1. UNCHANGED <<pc, task, round, ledger, calls, events, fresh>>
    BY <1>14 DEF LateResult
  <2> QED BY <1>0, <2>1, CallKept DEF CallInv
<1>15. ASSUME (\E t \in Tasks : Activate(t)) \/ LoadNothing \/ Restore \/ RestoreTruncate \/ RestoreFails
         \/ Checkpoint \/ CheckpointTruncate \/ CheckpointFails \/ Complete \/ CompleteTruncate
         \/ CompleteFails \/ Finish \/ Abort \/ Crash
         \/ (\E i \in Ids : AdmitRefused(i) \/ AdmitFails(i))
         \/ (\E next \in {"checkpoint", "complete"} : BatchEnds(next))
         \/ (\E found \in SUBSET native : LoadJournal(found))
       PROVE  pc' \notin {"admit", "batch"}
  <2>1. Ended => pc' \notin {"admit", "batch"}
    BY DEF Ended
  <2>2. \A found \in SUBSET native : LoadJournal(found) => pc' \notin {"admit", "batch"}
    BY DEF LoadJournal, Goto
  <2> QED BY <1>15, <2>1, <2>2
        DEF Activate, LoadNothing, Restore, RestoreTruncate, RestoreFails, Checkpoint,
            CheckpointTruncate, CheckpointFails, Complete, CompleteTruncate, CompleteFails, Finish,
            Abort, Crash, AdmitRefused, AdmitFails, BatchEnds, Goto
<1> QED BY <1>1, <1>2, <1>6, <1>7, <1>8, <1>9, <1>10, <1>11, <1>13, <1>14, <1>15, <1>16, NextCases

\* The journal that was just written is what memory holds, at every step.
LEMMA CutStep ==
  ASSUME BaseInv, Next
  PROVE  CutInv'
<1>0. TypeOK /\ SignedInv /\ CutInv
  BY DEF BaseInv
<1> USE DEF diskVars, runVars, ledgerVars, historyVars
<1>1. ASSUME NEW status \in {"in_flight", "completed"}, Written(status),
             pc' = "completeCut" \/ status = "in_flight",
             UNCHANGED <<task, round, transcript, walSeq>>
      PROVE  CutInv'
  <2>1. ledger \in Ledgers
    BY <1>0, TypeFacts
  <2>2. /\ ledger' = Released(ledger, transcript)
        /\ journal'.task = task
        /\ journal'.status = status
        /\ journal'.transcript = transcript
        /\ journal'.round = round
        /\ journal'.ledger = ledger'
        /\ journal'.watermark = walSeq
    BY <1>0, <1>1, WrittenTyped
  <2>3. Released(ledger', transcript) = ledger'
    BY <2>1, <2>2, ReleasedIs
  <2> QED BY <1>1, <2>2, <2>3 DEF CutInv
<1>2. CASE Restore
  BY <1>1, <1>2 DEF Restore, Goto
<1>3. CASE Checkpoint
  BY <1>1, <1>3 DEF Checkpoint, Goto
<1>4. CASE Complete
  BY <1>1, <1>4 DEF Complete, Goto
<1>5. ASSUME NEW x \in late.running, LateResult(x) PROVE CutInv'
  <2>1. UNCHANGED <<journal, pc, task, round, transcript, ledger, walSeq>>
    BY <1>5 DEF LateResult
  <2> QED BY <1>0, <2>1 DEF CutInv
<1>6. CASE pc' \notin Cuts
  BY <1>6 DEF CutInv
<1>7. ASSUME pc \in {"admit", "batch"}, pc' = pc PROVE pc' \notin Cuts
  BY <1>7 DEF Cuts
<1>8. ASSUME \E i \in Ids : Admit(i) \/ AdmitReplay(i) \/ AnswerAgain(i) \/ Start(i) \/ StartFails(i)
                            \/ Dispatch(i) \/ Record(i) \/ RecordFails(i)
      PROVE  pc' \notin Cuts
  BY <1>7, <1>8 DEF Admit, AdmitReplay, AnswerAgain, Start, StartFails, Dispatch, Record, RecordFails
<1>9. ASSUME (\E t \in Tasks : Activate(t)) \/ LoadNothing \/ RestoreTruncate \/ RestoreFails
         \/ CheckpointTruncate \/ CheckpointFails \/ CompleteTruncate
         \/ CompleteFails \/ Finish \/ AllAdmitted \/ Abort \/ Crash
         \/ (\E i \in Ids : AdmitRefused(i) \/ AdmitFails(i))
         \/ (\E next \in {"checkpoint", "complete"} : BatchEnds(next))
         \/ (\E found \in SUBSET native : LoadJournal(found))
         \/ (\E chosen \in SUBSET Ids : \E sigs \in [chosen -> Proposals] : Propose(sigs))
       PROVE  pc' \notin Cuts
  <2>1. Ended => pc' \notin Cuts
    BY DEF Ended, Cuts
  <2>2. \A found \in SUBSET native : LoadJournal(found) => pc' \notin Cuts
    BY DEF LoadJournal, Goto, Cuts
  <2>3. \A chosen \in SUBSET Ids : \A sigs \in [chosen -> Proposals] : Propose(sigs) => pc' \notin Cuts
    BY DEF Propose, Goto, Cuts
  <2> QED BY <1>9, <2>1, <2>2, <2>3
        DEF Activate, LoadNothing, RestoreTruncate, RestoreFails,
            CheckpointTruncate, CheckpointFails, CompleteTruncate, CompleteFails, Finish, AllAdmitted,
            Abort, Crash, AdmitRefused, AdmitFails, BatchEnds, Goto, Cuts
<1> QED BY <1>2, <1>3, <1>4, <1>5, <1>6, <1>8, <1>9, NextCases

\* The first layer of the invariant is kept by every step.
LEMMA BaseStep ==
  ASSUME BaseInv, Next
  PROVE  BaseInv'
BY TypeStep, ActivationStep, CallStepKeeps, CutStep DEF BaseInv

-----------------------------------------------------------------------------
(* The history of a task, and that no call of it was handed over twice.    *)

\* A task whose activation begins anew has no events, and those of the others
\* stay.
LEMMA AnewEmpties ==
  ASSUME TypeOK, task \in Tasks, NEW read \in Gaps, BeginsAnew(read), events' = events
  PROVE  /\ {n \in DOMAIN events : events[n].task = task /\ n > fresh'[task]} = {}
         /\ \A t \in Tasks : t # task => EventsOf(t)' = EventsOf(t)
<1>1. /\ fresh'[task] = Len(events)
      /\ \A t \in Tasks : t # task => fresh'[t] = fresh[t]
  BY BeginsAnewDoes
<1>2. events \in Seq(EventRecords)
  BY TypeFacts
<1>3. \A n \in DOMAIN events : n <= Len(events) /\ n \in Nat /\ Len(events) \in Nat
  BY <1>2
<1>4. {n \in DOMAIN events : events[n].task = task /\ n > fresh'[task]} = {}
  BY <1>1, <1>3
<1>5. \A t \in Tasks : t # task => EventsOf(t)' = EventsOf(t)
  BY <1>1 DEF EventsOf
<1> QED BY <1>4, <1>5

\* A step leaves the history and never closes the gap of a task that was read in
\* it, unless the task's activation begins anew or hands over a call.
LEMMA HistoryStep ==
  ASSUME BaseInv, Next
  PROVE  \/ /\ UNCHANGED <<events, fresh>>
            /\ \A t \in Tasks : gap[t] = "read" => gap'[t] = "read"
         \/ /\ pc # "off"
            /\ task' = task
            /\ events' = events
            /\ \E read \in Gaps : BeginsAnew(read)
         \/ \E i \in Ids : Dispatch(i)
<1>0. TypeOK /\ ActivationInv
  BY DEF BaseInv
<1> USE DEF diskVars, runVars, ledgerVars, historyVars
<1>1. ASSUME UNCHANGED <<events, fresh, gap>> PROVE UNCHANGED <<events, fresh>> /\ \A t \in Tasks : gap[t] = "read" => gap'[t] = "read"
  BY <1>1
<1>2. ASSUME UNCHANGED <<events, fresh>>, UNCHANGED gap \/ GapOpens
      PROVE  UNCHANGED <<events, fresh>> /\ \A t \in Tasks : gap[t] = "read" => gap'[t] = "read"
  BY <1>0, <1>2, GapOpensDoes
<1>3. ASSUME (\E t \in Tasks : Activate(t)) \/ Restore \/ Checkpoint \/ Complete \/ CompleteFails
         \/ Finish \/ AllAdmitted \/ Abort \/ Crash
         \/ (\E i \in Ids : AdmitReplay(i) \/ AnswerAgain(i) \/ AdmitRefused(i) \/ AdmitFails(i) \/ StartFails(i)
                             \/ RecordFails(i))
         \/ (\E next \in {"checkpoint", "complete"} : BatchEnds(next))
         \/ (\E chosen \in SUBSET Ids : \E sigs \in [chosen -> Proposals] : Propose(sigs))
      PROVE  UNCHANGED <<events, fresh, gap>>
  BY <1>3 DEF Activate, Restore, Checkpoint, Complete, CompleteFails, Finish, AllAdmitted, Abort, Crash,
              AdmitReplay, AnswerAgain, AdmitRefused, AdmitFails, StartFails, RecordFails, CommitFails, BatchEnds,
              Propose
<1>4. ASSUME CheckpointFails \/ (\E i \in Ids : Admit(i) \/ Start(i) \/ Record(i))
             \/ (\E x \in late.running : LateResult(x))
      PROVE  UNCHANGED <<events, fresh>> /\ (UNCHANGED gap \/ GapOpens)
  BY <1>4 DEF CheckpointFails, Admit, Start, Record, Commit, LateResult
<1>5. ASSUME RestoreTruncate \/ CheckpointTruncate \/ CompleteTruncate
      PROVE  UNCHANGED <<events, fresh>> /\ \A t \in Tasks : gap[t] = "read" => gap'[t] = "read"
  <2>1. pc # "off" /\ Truncate
    BY <1>5 DEF RestoreTruncate, CheckpointTruncate, CompleteTruncate
  <2>2. task \in Tasks
    BY <1>0, <2>1, AtWork
  <2>3. gap' = [gap EXCEPT ![task] = IF @ = "open" THEN "none" ELSE @] /\ UNCHANGED <<events, fresh>>
    BY <2>1 DEF Truncate
  <2>4. "none" \in Gaps
    BY DEF Gaps
  <2> QED BY <1>0, <2>2, <2>3, <2>4, GapIs
<1>6. ASSUME NEW found \in SUBSET native, LoadJournal(found)
      PROVE  UNCHANGED <<events, fresh>> /\ \A t \in Tasks : gap[t] = "read" => gap'[t] = "read"
  <2>1. /\ pc = "load"
        /\ gap' = [gap EXCEPT ![task] = IF @ = "open" THEN "read" ELSE @]
        /\ UNCHANGED <<events, fresh>>
    BY <1>6, LoadJournalDoes
  <2>2. task \in Tasks /\ "read" \in Gaps
    BY <1>0, <2>1, AtWork DEF Gaps
  <2> QED BY <1>0, <2>1, <2>2, GapIs
<1>7. ASSUME LoadNothing \/ RestoreFails
      PROVE  pc # "off" /\ task' = task /\ events' = events /\ \E read \in Gaps : BeginsAnew(read)
  BY <1>7 DEF LoadNothing, RestoreFails, Gaps
<1> QED BY <1>1, <1>2, <1>3, <1>4, <1>5, <1>6, <1>7, NextCases

\* No step hands a call over for the second time.
LEMMA OnceStep ==
  ASSUME BaseInv, OnceInv, MemoryInv, Next
  PROVE  OnceInv'
<1>0. TypeOK /\ ActivationInv
  BY DEF BaseInv
<1>1. CASE UNCHANGED <<events, fresh>> /\ \A t \in Tasks : gap[t] = "read" => gap'[t] = "read"
  BY <1>1 DEF OnceInv, EventsOf, Same
<1>2. ASSUME NEW read \in Gaps, BeginsAnew(read), pc # "off", events' = events
      PROVE  OnceInv'
  <2>1. task \in Tasks
    BY <1>0, <1>2, AtWork
  <2>2. /\ {n \in DOMAIN events : events[n].task = task /\ n > fresh'[task]} = {}
        /\ \A t \in Tasks : t # task => EventsOf(t)' = EventsOf(t)
        /\ \A t \in Tasks : t # task => gap'[t] = gap[t]
    BY <1>0, <1>2, <2>1, AnewEmpties, BeginsAnewDoes
  <2>3. ASSUME NEW t \in Tasks, gap'[t] # "read", NEW m \in EventsOf(t)', NEW n \in EventsOf(t)', Same(m, n)'
        PROVE  m = n
    <3>1. t # task
      BY <1>2, <2>2, <2>3 DEF EventsOf
    <3>2. m \in EventsOf(t) /\ n \in EventsOf(t) /\ gap[t] # "read"
      BY <2>2, <2>3, <3>1
    <3>3. Same(m, n)
      BY <1>2, <2>3 DEF Same
    <3> QED BY <3>2, <3>3 DEF OnceInv
  <2> QED BY <2>3 DEF OnceInv
<1>3. ASSUME NEW i \in Ids, Dispatch(i)
      PROVE  OnceInv'
  <2> DEFINE k == Len(events) + 1
  <2>1. /\ pc = "batch" /\ calls[i].pc = "execute"
        /\ k \notin DOMAIN events
        /\ \A n \in DOMAIN events : events'[n] = events[n]
        /\ events'[k] = [task |-> task, round |-> round + 1, id |-> i, sig |-> calls[i].sig]
        /\ EventsOf(task)' = EventsOf(task) \cup {k}
        /\ \A t \in Tasks : t # task => EventsOf(t)' = EventsOf(t)
        /\ \A t \in Tasks : EventsOf(t) \subseteq DOMAIN events
        /\ UNCHANGED <<task, gap>>
    BY <1>3, DispatchDoes
  <2> HIDE DEF k
  <2>2. task \in Tasks
    BY <1>0, <2>1, AtWork
  <2>3. ASSUME gap[task] # "read", NEW n \in EventsOf(task)
        PROVE  ~(events[n].id = i /\ events[n].round = round + 1)
    BY <2>1, <2>3 DEF MemoryInv, MemoryHolds, NotHandedOver, Gapless, Running
  <2>4. ASSUME NEW t \in Tasks, gap'[t] # "read", NEW m \in EventsOf(t)', NEW n \in EventsOf(t)', Same(m, n)'
        PROVE  m = n
    <3>1. CASE t # task
      <4>1. m \in EventsOf(t) /\ n \in EventsOf(t) /\ gap[t] # "read" /\ m \in DOMAIN events /\ n \in DOMAIN events
        BY <2>1, <2>4, <3>1
      <4>2. Same(m, n)
        BY <2>1, <2>4, <4>1 DEF Same
      <4> QED BY <4>1, <4>2 DEF OnceInv
    <3>2. CASE t = task
      <4>1. (m \in EventsOf(task) \/ m = k) /\ (n \in EventsOf(task) \/ n = k) /\ gap[task] # "read"
        BY <2>1, <2>4, <3>2
      <4>2. events'[m].id = events'[n].id /\ events'[m].round = events'[n].round
        BY <2>4 DEF Same
      <4>3. CASE m \in EventsOf(task) /\ n \in EventsOf(task)
        <5>1. Same(m, n)
          BY <2>1, <2>2, <4>2, <4>3 DEF Same
        <5> QED BY <2>2, <4>1, <4>3, <5>1 DEF OnceInv
      <4>4. ASSUME NEW a \in EventsOf(task), events'[a].id = events'[k].id, events'[a].round = events'[k].round
            PROVE  FALSE
        <5>1. events'[a] = events[a]
          BY <2>1, <2>2
        <5>2. events[a].id = i /\ events[a].round = round + 1
          BY <2>1, <4>4, <5>1
        <5> QED BY <2>3, <4>1, <5>2
      <4> QED BY <4>1, <4>2, <4>3, <4>4
    <3> QED BY <3>1, <3>2
  <2> QED BY <2>4 DEF OnceInv
<1> QED BY <1>1, <1>2, <1>3, HistoryStep

-----------------------------------------------------------------------------
(* What memory says of the events.                                         *)

\* The same memory, and the released ledger.
LEMMA MemoryKept ==
  ASSUME TypeOK, MemoryHolds,
         UNCHANGED <<task, round, transcript, calls, events, fresh>>,
         ledger' = ledger \/ ledger' = Released(ledger, transcript),
         pc = "batch" => pc' = "batch"
  PROVE  MemoryHolds'
<1>1. EventsOf(task)' = EventsOf(task)
  BY DEF EventsOf
<1>2. \A i \in Ids :
        /\ ledger'[i].status = ledger[i].status
        /\ ledger'[i].sig = ledger[i].sig
        /\ ledger'[i].round = ledger[i].round
        /\ i \notin Answered(transcript) => ledger'[i] = ledger[i]
        /\ ledger'[i].receipt = ledger[i].receipt \/ ledger'[i].receipt = NoReceipt
  <2>1. ledger \in Ledgers
    BY TypeFacts
  <2> QED BY <2>1, ReleasedIs
<1>3. \A n \in EventsOf(task) : events[n].id \in Ids
  BY TypeFacts DEF EventsOf, EventRecords
<1>4. PlacedInMemory'
  BY <1>1, <1>2, <1>3 DEF MemoryHolds, PlacedInMemory, Placed, KnownTo
<1>5. AnsweredInMemory'
  BY <1>1 DEF MemoryHolds, AnsweredInMemory, Answer, AnsweredIn, Recycled
<1>6. NotHandedOver'
  BY <1>1 DEF MemoryHolds, NotHandedOver
<1>7. RoundsSoFar'
  BY DEF MemoryHolds, RoundsSoFar
<1>8. Receipted(ledger, transcript)'
  BY <1>2 DEF MemoryHolds, Receipted, Answered
<1>9. TrueTranscript'
  BY <1>1 DEF MemoryHolds, TrueTranscript, TrueResult, EventsOf, Recycled
<1>10. TrueLedger'
  <2> SUFFICES ASSUME NEW i \in Ids PROVE TrueRecord(ledger, i, task, round)'
    BY DEF TrueLedger
  <2>1. TrueRecord(ledger, i, task, round)
    BY DEF MemoryHolds, TrueLedger
  <2> QED BY <1>1, <1>2, <2>1 DEF TrueRecord, NoReceipt, NotDispatched, EventsOf
<1>11. TrueAnswers'
  BY <1>1 DEF MemoryHolds, TrueAnswers, TrueResult, ResultOf, EventsOf, Recycled
<1> QED BY <1>4, <1>5, <1>6, <1>7, <1>8, <1>9, <1>10, <1>11 DEF MemoryHolds

\* An admission: the id had no effect of this round.
LEMMA MemoryAdmit ==
  ASSUME BaseInv, MemoryHolds, NEW i \in Ids, Admit(i)
  PROVE  MemoryHolds'
<1>0. TypeOK
  BY DEF BaseInv
<1>1. /\ ledger \in Ledgers
      /\ calls[i].sig \in Proposals
      /\ round + 1 \in Rounds
      /\ round \in Nat
  BY <1>0, AtCall, TypeFacts DEF Admit
<1>2. /\ pc = "admit" /\ pc' = "admit"
      /\ Admissible(ledger, i, calls[i].sig, round + 1)
      /\ ledger' = AfterAdmit(ledger, i, calls[i].sig, round + 1)
      /\ CallTo(i, "admitted", NoReceipt)
      /\ UNCHANGED <<task, round, transcript, events, fresh>>
  BY DEF Admit, Commit, runVars
<1>3. /\ \A j \in Ids : j # i => ledger'[j] = ledger[j]
      /\ ledger'[i] = [status |-> "admitted", sig |-> calls[i].sig, round |-> round + 1, receipt |-> NoReceipt]
  BY <1>1, <1>2, AfterAdmitIs
<1>4. /\ calls'[i].pc = "admitted"
      /\ \A j \in Ids : j # i => calls'[j] = calls[j]
  <2>1. "admitted" \in CallPcs /\ NoReceipt \in Receipts
    BY DEF CallPcs, Receipts, NoReceipt
  <2> QED BY <1>0, <1>2, <2>1, CallToIs
<1>5. EventsOf(task)' = EventsOf(task)
  BY <1>2 DEF EventsOf
<1>6. \A n \in EventsOf(task) : events[n].id \in Ids /\ events[n].round \in Nat
  BY <1>0, TypeFacts, EmptyTyped DEF EventsOf, EventRecords
<1>7. \A n \in EventsOf(task) : ~(events[n].id = i /\ events[n].round = round + 1)
  <2> SUFFICES ASSUME NEW n \in EventsOf(task), events[n].id = i, events[n].round = round + 1 PROVE FALSE
    OBVIOUS
  <2>1. KnownTo(ledger, n)
    BY <1>1 DEF MemoryHolds, PlacedInMemory, Placed
  <2>2. ledger[i].round = round + 1 /\ ledger[i].status # "none"
    BY <2>1 DEF KnownTo
  <2> QED BY <1>2, <2>2 DEF Admissible, Reusable
<1>8. PlacedInMemory'
  <2> SUFFICES ASSUME NEW n \in EventsOf(task) PROVE Placed(n, round, ledger)'
    BY <1>5 DEF PlacedInMemory
  <2>1. Placed(n, round, ledger)
    BY DEF MemoryHolds, PlacedInMemory
  <2>2. events[n].round = round + 1 => ledger'[events[n].id] = ledger[events[n].id]
    BY <1>3, <1>6, <1>7
  <2> QED BY <1>2, <2>1, <2>2 DEF Placed, KnownTo
<1>9. AnsweredInMemory'
  <2>1. \A n \in EventsOf(task) : Answer(n, transcript)
    BY <1>2 DEF MemoryHolds, AnsweredInMemory
  <2> QED BY <1>2, <1>5, <2>1 DEF AnsweredInMemory, Answer, AnsweredIn, Recycled
<1>10. NotHandedOver'
  <2> SUFFICES ASSUME NEW j \in Ids, calls'[j].pc \in {"admitted", "execute"}, NEW n \in EventsOf(task)
               PROVE  ~(events[n].id = j /\ events[n].round = round + 1)
    BY <1>2, <1>5 DEF NotHandedOver
  <2>1. CASE j = i
    BY <1>7, <2>1
  <2>2. CASE j # i
    BY <1>4, <2>2 DEF MemoryHolds, NotHandedOver
  <2> QED BY <2>1, <2>2
<1>11. RoundsSoFar'
  BY <1>2 DEF MemoryHolds, RoundsSoFar
<1>12. Receipted(ledger, transcript)'
  BY <1>2, <1>3 DEF MemoryHolds, Receipted, Answered
<1>13. TrueTranscript'
  BY <1>2, <1>5 DEF MemoryHolds, TrueTranscript, TrueResult, EventsOf, Recycled
<1>14. TrueLedger'
  <2> SUFFICES ASSUME NEW j \in Ids PROVE TrueRecord(ledger, j, task, round)'
    BY DEF TrueLedger
  <2>1. TrueRecord(ledger, j, task, round)
    BY DEF MemoryHolds, TrueLedger
  <2>2. j = i => ledger'[j].receipt = 0
    BY <1>3 DEF NoReceipt
  <2> QED BY <1>2, <1>3, <1>5, <2>1, <2>2 DEF TrueRecord, NotDispatched, EventsOf
<1>15. TrueAnswers'
  <2> SUFFICES ASSUME NEW j \in Ids, calls'[j].pc = "done" PROVE TrueResult(ResultOf(j), task, transcript)'
    BY DEF TrueAnswers
  <2>1. calls'[j] = calls[j]
    BY <1>4
  <2>2. TrueResult(ResultOf(j), task, transcript)
    BY <2>1 DEF MemoryHolds, TrueAnswers
  <2> QED BY <1>2, <1>5, <2>1, <2>2 DEF TrueResult, ResultOf, EventsOf, Recycled
<1> QED BY <1>8, <1>9, <1>10, <1>11, <1>12, <1>13, <1>14, <1>15 DEF MemoryHolds

\* One call is done; the ledger stays, or its record is committed with the
\* receipt of the call's event.
LEMMA MemoryDone ==
  ASSUME BaseInv, MemoryHolds, NEW i \in Ids, NEW receipt \in Receipts, CallTo(i, "done", receipt),
         calls[i].pc # "none",
         UNCHANGED <<pc, task, round, transcript, events, fresh>>,
         TrueResult([id |-> i, sig |-> calls[i].sig, round |-> round + 1, receipt |-> receipt], task, transcript),
         \A j \in Ids : j # i => ledger'[j] = ledger[j],
         \/ ledger' = ledger
         \/ /\ ledger'[i].status = "committed"
            /\ ledger[i].status = "started"
            /\ ledger'[i].sig = ledger[i].sig
            /\ ledger'[i].round = ledger[i].round
            /\ ledger'[i].receipt \in EventsOf(task)
            /\ events[ledger'[i].receipt] =
                 [task |-> task, round |-> ledger[i].round, id |-> i, sig |-> ledger[i].sig]
  PROVE  MemoryHolds'
<1>0. TypeOK
  BY DEF BaseInv
<1>1. /\ calls'[i].pc = "done"
      /\ calls'[i].sig = calls[i].sig
      /\ calls'[i].receipt = receipt
      /\ \A j \in Ids : j # i => calls'[j] = calls[j]
  <2>1. "done" \in CallPcs
    BY DEF CallPcs
  <2> QED BY <1>0, <2>1, CallToIs
<1>2. EventsOf(task)' = EventsOf(task)
  BY DEF EventsOf
<1>3. \A n \in EventsOf(task) : events[n].id \in Ids /\ events[n].round \in Nat /\ n \in Nat \ {0}
  BY <1>0, TypeFacts, EmptyTyped DEF EventsOf, EventRecords
<1>4. PlacedInMemory'
  <2> SUFFICES ASSUME NEW n \in EventsOf(task) PROVE Placed(n, round, ledger)'
    BY <1>2 DEF PlacedInMemory
  <2>1. Placed(n, round, ledger)
    BY DEF MemoryHolds, PlacedInMemory
  <2>2. KnownTo(ledger, n) => KnownTo(ledger, n)'
    BY <1>3 DEF KnownTo
  <2> QED BY <2>1, <2>2 DEF Placed
<1>5. AnsweredInMemory'
  <2> SUFFICES ASSUME NEW n \in EventsOf(task), ~Answer(n, transcript)
               PROVE  /\ pc' = "batch"
                      /\ events'[n].round = round' + 1
                      /\ calls'[events'[n].id].pc \in {"record", "done"}
    BY <1>2 DEF AnsweredInMemory, Answer, AnsweredIn, Recycled
  <2>1. /\ pc = "batch"
        /\ events[n].round = round + 1
        /\ calls[events[n].id].pc \in {"record", "done"}
    BY DEF MemoryHolds, AnsweredInMemory
  <2> QED BY <1>1, <1>3, <2>1
<1>6. NotHandedOver'
  <2> SUFFICES ASSUME NEW j \in Ids, calls'[j].pc \in {"admitted", "execute"}, NEW n \in EventsOf(task)
               PROVE  ~(events[n].id = j /\ events[n].round = round + 1)
    BY <1>2 DEF NotHandedOver
  <2>1. calls'[j] = calls[j]
    BY <1>1
  <2> QED BY <2>1 DEF MemoryHolds, NotHandedOver
<1>7. RoundsSoFar'
  BY DEF MemoryHolds, RoundsSoFar
<1>8. Receipted(ledger, transcript)'
  <2>1. \A n \in EventsOf(task) : n # NoReceipt
    BY <1>3 DEF NoReceipt
  <2> QED BY <2>1 DEF MemoryHolds, Receipted, Answered
<1>9. TrueTranscript'
  BY <1>2 DEF MemoryHolds, TrueTranscript, TrueResult, EventsOf, Recycled
<1>10. TrueLedger'
  <2> SUFFICES ASSUME NEW j \in Ids PROVE TrueRecord(ledger, j, task, round)'
    BY DEF TrueLedger
  <2>1. TrueRecord(ledger, j, task, round)
    BY DEF MemoryHolds, TrueLedger
  <2>2. CASE ledger'[j] = ledger[j]
    BY <1>2, <2>1, <2>2 DEF TrueRecord, EventsOf
  <2>3. CASE ledger'[j] # ledger[j]
    <3>1. /\ j = i
          /\ ledger'[i].status = "committed"
          /\ ledger'[i].sig = ledger[i].sig
          /\ ledger'[i].round = ledger[i].round
          /\ ledger'[i].receipt \in EventsOf(task)
          /\ events[ledger'[i].receipt] =
               [task |-> task, round |-> ledger[i].round, id |-> i, sig |-> ledger[i].sig]
      BY <2>3
    <3>2. ledger'[i].receipt \in Nat
      BY <1>3, <3>1
    <3> QED BY <1>2, <3>1, <3>2 DEF TrueRecord, NotDispatched, EventsOf
  <2> QED BY <2>2, <2>3
<1>11. TrueAnswers'
  <2> SUFFICES ASSUME NEW j \in Ids, calls'[j].pc = "done" PROVE TrueResult(ResultOf(j), task, transcript)'
    BY DEF TrueAnswers
  <2>1. CASE j = i
    BY <1>1, <1>2, <2>1 DEF TrueResult, ResultOf, EventsOf, Recycled
  <2>2. CASE j # i
    <3>1. calls'[j] = calls[j]
      BY <1>1, <2>2
    <3>2. TrueResult(ResultOf(j), task, transcript)
      BY <3>1 DEF MemoryHolds, TrueAnswers
    <3> QED BY <1>2, <3>1, <3>2 DEF TrueResult, ResultOf, EventsOf, Recycled
  <2> QED BY <2>1, <2>2
<1> QED BY <1>4, <1>5, <1>6, <1>7, <1>8, <1>9, <1>10, <1>11 DEF MemoryHolds

\* What is true of a result stays true when the transcript grows.
LEMMA TrueResultGrows ==
  ASSUME NEW x, NEW t, NEW results, NEW more, results \subseteq more, TrueResult(x, t, results)
  PROVE  TrueResult(x, t, more)
BY DEF TrueResult, Recycled

\* A round is proposed: no call was admitted yet.
LEMMA MemoryPropose ==
  ASSUME BaseInv, MemoryHolds, pc = "model",
         UNCHANGED <<task, round, transcript, ledger, events, fresh>>,
         \A i \in Ids : calls'[i].pc \in {"none", "proposed"}
  PROVE  MemoryHolds'
<1>1. EventsOf(task)' = EventsOf(task)
  BY DEF EventsOf
<1>2. PlacedInMemory'
  BY <1>1 DEF MemoryHolds, PlacedInMemory, Placed, KnownTo
<1>3. AnsweredInMemory'
  BY <1>1 DEF MemoryHolds, AnsweredInMemory, Answer, AnsweredIn, Recycled
<1>4. NotHandedOver'
  BY DEF NotHandedOver
<1>5. RoundsSoFar'
  BY DEF MemoryHolds, RoundsSoFar
<1>6. Receipted(ledger, transcript)'
  BY DEF MemoryHolds, Receipted, Answered
<1>7. TrueTranscript'
  BY <1>1 DEF MemoryHolds, TrueTranscript, TrueResult, EventsOf, Recycled
<1>8. TrueLedger'
  BY <1>1 DEF MemoryHolds, TrueLedger, TrueRecord, EventsOf
<1>9. TrueAnswers'
  BY DEF TrueAnswers
<1> QED BY <1>2, <1>3, <1>4, <1>5, <1>6, <1>7, <1>8, <1>9 DEF MemoryHolds

\* A call without a receipt of its own is answered with what its id has: that is
\* the receipt of an effect of this id.
LEMMA PriorTrue ==
  ASSUME BaseInv, MemoryHolds, NEW i \in Ids, calls[i].pc # "none", Replays(i),
         NEW receipt \in PriorReceipts(i)
  PROVE  /\ receipt \in Receipts
         /\ TrueResult([id |-> i, sig |-> calls[i].sig, round |-> round + 1, receipt |-> receipt],
                       task, transcript)
<1> DEFINE x == [id |-> i, sig |-> calls[i].sig, round |-> round + 1, receipt |-> receipt]
<1>0. TypeOK
  BY DEF BaseInv
<1>1. /\ x.id = i /\ x.sig = calls[i].sig /\ x.round = round + 1 /\ x.receipt = receipt
      /\ round \in Nat /\ ledger \in Ledgers
      /\ ledger[i].sig = calls[i].sig
  BY <1>0, TypeFacts DEF Replays
<1> HIDE DEF x
<1>2. \A n \in EventsOf(task) : events[n].round \in Nat
  BY <1>0, TypeFacts, EmptyTyped DEF EventsOf, EventRecords
<1>3. CASE ledger[i].receipt # NoReceipt
  <2>1. receipt = ledger[i].receipt
    BY <1>3 DEF PriorReceipts
  <2>2. ledger[i].receipt \in Receipts
    BY <1>1 DEF Ledgers, Records
  <2>3. TrueRecord(ledger, i, task, round)
    BY DEF MemoryHolds, TrueLedger
  <2>4. ASSUME receipt > 0
        PROVE  /\ receipt \in EventsOf(task)
               /\ events[receipt].id = i
               /\ events[receipt].round = round + 1
               /\ events[receipt].sig = calls[i].sig
    <3>1. /\ ledger[i].status = "committed"
          /\ receipt \in EventsOf(task)
          /\ events[receipt] = [task |-> task, round |-> ledger[i].round, id |-> i, sig |-> ledger[i].sig]
      BY <2>1, <2>3, <2>4 DEF TrueRecord
    <3>2. ledger[i].round = round + 1
      BY <3>1 DEF Replays, Admissible, Reusable
    <3> QED BY <1>1, <3>1, <3>2
  <2>5. ASSUME receipt = NotDispatched, NEW n \in EventsOf(task), events[n].id = i, events[n].round = round + 1
        PROVE  FALSE
    <3>1. ledger[i].round <= round
      BY <2>1, <2>3, <2>5 DEF TrueRecord
    <3>2. Placed(n, round, ledger)
      BY DEF MemoryHolds, PlacedInMemory
    <3>3. ledger[i].round = round + 1
      BY <1>1, <2>5, <3>2 DEF Placed, KnownTo
    <3> QED BY <1>1, <3>1, <3>3
  <2>6. TrueResult(x, task, transcript)
    BY <1>1, <2>4, <2>5 DEF TrueResult
  <2> QED BY <2>1, <2>2, <2>6 DEF x
<1>4. CASE ledger[i].receipt = NoReceipt
  <2>1. PICK y \in transcript : y.id = i /\ y.receipt = receipt
    BY <1>4 DEF PriorReceipts
  <2>2. y.receipt \in Receipts /\ y.round \in Nat
    BY <1>0, TypeFacts, EmptyTyped DEF Results
  <2>3. TrueResult(y, task, transcript) /\ y.round <= round
    BY DEF MemoryHolds, TrueTranscript, RoundsSoFar
  <2>4. ASSUME receipt > 0
        PROVE  receipt \in EventsOf(task) /\ events[receipt].id = i
    BY <2>1, <2>3, <2>4 DEF TrueResult
  <2>5. ASSUME NEW n \in EventsOf(task), events[n].id = i, events[n].round = round + 1
        PROVE  Recycled(transcript, n)
    BY <1>1, <2>1, <2>2, <2>3, <2>5 DEF Recycled
  <2>6. y \in transcript /\ y.id = x.id /\ y.round < x.round /\ y.receipt = x.receipt
    BY <1>1, <2>1, <2>2, <2>3
  <2>7. TrueResult(x, task, transcript)
    BY <1>1, <2>4, <2>5, <2>6 DEF TrueResult
  <2> QED BY <2>1, <2>2, <2>7 DEF x
<1> QED BY <1>3, <1>4

\* An id whose proposal was finished is answered with its receipt.
LEMMA MemoryReplay ==
  ASSUME BaseInv, MemoryHolds, NEW i \in Ids, AdmitReplay(i)
  PROVE  MemoryHolds'
<1>1. PICK receipt \in PriorReceipts(i) : CallTo(i, "done", receipt)
  BY DEF AdmitReplay
<1>2. /\ calls[i].pc # "none" /\ Replays(i) /\ ledger' = ledger
      /\ UNCHANGED <<pc, task, round, transcript, events, fresh>>
  BY DEF AdmitReplay, runVars, ledgerVars, historyVars
<1>3. /\ receipt \in Receipts
      /\ TrueResult([id |-> i, sig |-> calls[i].sig, round |-> round + 1, receipt |-> receipt],
                    task, transcript)
  BY <1>2, PriorTrue
<1> QED BY <1>1, <1>2, <1>3, MemoryDone

\* An id that was answered once is answered the same way.
LEMMA MemoryAgain ==
  ASSUME BaseInv, MemoryHolds, PriorAnswers, NEW i \in Ids, AnswerAgain(i)
  PROVE  MemoryHolds'
<1> DEFINE x == [id |-> i, sig |-> calls[i].sig, round |-> round + 1, receipt |-> prior[i]]
<1>0. TypeOK
  BY DEF BaseInv
<1>1. /\ calls[i].pc = "admitted" /\ calls[i].pc # "none" /\ ledger' = ledger
      /\ CallTo(i, "done", prior[i])
      /\ UNCHANGED <<pc, task, round, transcript, events, fresh>>
  BY DEF AnswerAgain, runVars, ledgerVars, historyVars
<1>2. /\ x.id = i /\ x.round = round + 1 /\ x.receipt = prior[i]
      /\ prior[i] \in Receipts /\ round \in Nat
  BY <1>0, TypeFacts
<1> HIDE DEF x
<1>3. ASSUME prior[i] > 0
      PROVE  /\ prior[i] \in EventsOf(task)
             /\ events[prior[i]].id = i
             /\ \E y \in transcript : y.id = i /\ y.round < round + 1 /\ y.receipt = prior[i]
  <2>1. PICK y \in transcript : y.id = i /\ y.receipt = prior[i]
    BY <1>1, <1>3 DEF PriorAnswers
  <2>2. TrueResult(y, task, transcript) /\ y.round <= round /\ y.round \in Nat
    BY <1>0, TypeFacts, EmptyTyped DEF MemoryHolds, TrueTranscript, RoundsSoFar, Results
  <2>3. prior[i] \in EventsOf(task) /\ events[prior[i]].id = i
    BY <1>3, <2>1, <2>2 DEF TrueResult
  <2>4. y.round < round + 1
    BY <1>2, <2>2
  <2> QED BY <2>1, <2>3, <2>4
<1>4. \A n \in EventsOf(task) : ~(events[n].id = i /\ events[n].round = round + 1)
  BY <1>1 DEF MemoryHolds, NotHandedOver
<1>5. TrueResult(x, task, transcript)
  BY <1>2, <1>3, <1>4 DEF TrueResult
<1>6. TrueResult([id |-> i, sig |-> calls[i].sig, round |-> round + 1, receipt |-> prior[i]],
                 task, transcript)
  BY <1>5 DEF x
<1> QED BY <1>1, <1>2, <1>6, MemoryDone

\* An error that is not of a tool is no receipt.
LEMMA MemoryErrored ==
  ASSUME BaseInv, MemoryHolds, NEW i \in Ids, StartFails(i) \/ RecordFails(i)
  PROVE  MemoryHolds'
<1>1. /\ calls[i].pc # "none" /\ ledger' = ledger /\ CallTo(i, "done", Errored)
      /\ UNCHANGED <<pc, task, round, transcript, events, fresh>>
  BY DEF StartFails, RecordFails, CommitFails, runVars, ledgerVars, historyVars
<1>2. TrueResult([id |-> i, sig |-> calls[i].sig, round |-> round + 1, receipt |-> Errored],
                 task, transcript)
  BY DEF TrueResult, Errored, NotDispatched
<1>3. Errored \in Receipts
  BY DEF Receipts
<1> QED BY <1>1, <1>2, <1>3, MemoryDone

\* A result is recorded.
LEMMA MemoryRecord ==
  ASSUME BaseInv, MemoryHolds, NEW i \in Ids, Record(i)
  PROVE  MemoryHolds'
<1> DEFINE c == calls[i].receipt
<1>0. TypeOK
  BY DEF BaseInv
<1>1. /\ pc = "batch" /\ calls[i].pc = "record" /\ calls[i].pc # "none"
      /\ ledger' = AfterResult(ledger, i, c) /\ CallTo(i, "done", c)
      /\ UNCHANGED <<pc, task, round, transcript, events, fresh>>
  BY DEF Record, Commit, runVars
<1>2. /\ Mine(i, "started")
      /\ c \in EventsOf(task)
      /\ events[c] = [task |-> task, round |-> round + 1, id |-> i, sig |-> calls[i].sig]
  BY <1>1 DEF BaseInv, CallInv, CallHolds
<1>3. c \in Receipts /\ ledger \in Ledgers /\ c \in Nat \ {0} /\ round \in Nat
  <2>1. c \in DOMAIN events
    BY <1>2 DEF EventsOf
  <2> QED BY <1>0, <2>1, TypeFacts
<1> HIDE DEF c
<1>4. /\ ledger[i].status = "started" /\ ledger[i].sig = calls[i].sig /\ ledger[i].round = round + 1
  BY <1>2 DEF Mine
<1>5. /\ \A j \in Ids : j # i => ledger'[j] = ledger[j]
      /\ ledger'[i] = [status |-> "committed", sig |-> ledger[i].sig, round |-> ledger[i].round, receipt |-> c]
  BY <1>1, <1>3, <1>4, AfterResultIs
<1>6. TrueResult([id |-> i, sig |-> calls[i].sig, round |-> round + 1, receipt |-> c], task, transcript)
  BY <1>2, <1>3 DEF TrueResult, NotDispatched
<1>7. /\ ledger'[i].status = "committed"
      /\ ledger'[i].sig = ledger[i].sig
      /\ ledger'[i].round = ledger[i].round
      /\ ledger'[i].receipt \in EventsOf(task)
      /\ events[ledger'[i].receipt] = [task |-> task, round |-> ledger[i].round, id |-> i, sig |-> ledger[i].sig]
  BY <1>2, <1>4, <1>5
<1> QED BY <1>1, <1>3, <1>4, <1>5, <1>6, <1>7, MemoryDone

\* A start.
LEMMA MemoryStart ==
  ASSUME BaseInv, MemoryHolds, NEW i \in Ids, Start(i)
  PROVE  MemoryHolds'
<1>0. TypeOK
  BY DEF BaseInv
<1>1. /\ pc = "batch" /\ pc' = "batch" /\ calls[i].pc = "admitted"
      /\ ledger' = AfterStart(ledger, i) /\ CallTo(i, "execute", NoReceipt)
      /\ UNCHANGED <<task, round, transcript, events, fresh>>
  BY DEF Start, Commit, runVars
<1>2. Mine(i, "admitted")
  BY <1>1 DEF BaseInv, CallInv, CallHolds
<1>3. /\ \A j \in Ids : j # i => ledger'[j] = ledger[j]
      /\ ledger'[i].status = "started"
      /\ ledger'[i].receipt = NoReceipt
      /\ ledger'[i].round = ledger[i].round
  <2>1. ledger \in Ledgers
    BY <1>0, TypeFacts
  <2>2. ledger[i].status = "admitted" /\ ledger[i].receipt = NoReceipt
    BY <1>2 DEF Mine
  <2> DEFINE m == AfterStart(ledger, i)
  <2>3. /\ \A j \in Ids : j # i => m[j] = ledger[j]
        /\ m[i] = [status |-> "started", sig |-> ledger[i].sig, round |-> ledger[i].round, receipt |-> ledger[i].receipt]
    BY <2>1, <2>2, AfterStartIs
  <2>4. ledger' = m
    BY <1>1
  <2> HIDE DEF m
  <2> QED BY <2>2, <2>3, <2>4
<1>4. /\ calls'[i].pc = "execute"
      /\ \A j \in Ids : j # i => calls'[j] = calls[j]
  <2>1. "execute" \in CallPcs /\ NoReceipt \in Receipts
    BY DEF CallPcs, Receipts, NoReceipt
  <2> QED BY <1>0, <1>1, <2>1, CallToIs
<1>5. EventsOf(task)' = EventsOf(task)
  BY <1>1 DEF EventsOf
<1>6. \A n \in EventsOf(task) : events[n].id \in Ids
  BY <1>0, TypeFacts, EmptyTyped DEF EventsOf, EventRecords
<1>7. PlacedInMemory'
  <2> SUFFICES ASSUME NEW n \in EventsOf(task) PROVE Placed(n, round, ledger)'
    BY <1>5 DEF PlacedInMemory
  <2>1. Placed(n, round, ledger)
    BY DEF MemoryHolds, PlacedInMemory
  <2>2. KnownTo(ledger, n) => KnownTo(ledger, n)'
    BY <1>1, <1>3, <1>6 DEF KnownTo
  <2> QED BY <1>1, <2>1, <2>2 DEF Placed
<1>8. AnsweredInMemory'
  <2> SUFFICES ASSUME NEW n \in EventsOf(task), ~Answer(n, transcript)
               PROVE  /\ pc' = "batch"
                      /\ events'[n].round = round' + 1
                      /\ calls'[events'[n].id].pc \in {"record", "done"}
    BY <1>1, <1>5 DEF AnsweredInMemory, Answer, AnsweredIn, Recycled
  <2>1. events[n].round = round + 1 /\ calls[events[n].id].pc \in {"record", "done"}
    BY DEF MemoryHolds, AnsweredInMemory
  <2> QED BY <1>1, <1>4, <1>6, <2>1
<1>9. NotHandedOver'
  <2> SUFFICES ASSUME NEW j \in Ids, calls'[j].pc \in {"admitted", "execute"}, NEW n \in EventsOf(task)
               PROVE  ~(events[n].id = j /\ events[n].round = round + 1)
    BY <1>1, <1>5 DEF NotHandedOver
  <2>1. calls[j].pc \in {"admitted", "execute"}
    BY <1>1, <1>4
  <2> QED BY <2>1 DEF MemoryHolds, NotHandedOver
<1>10. RoundsSoFar'
  BY <1>1 DEF MemoryHolds, RoundsSoFar
<1>11. Receipted(ledger, transcript)'
  BY <1>1, <1>3 DEF MemoryHolds, Receipted, Answered
<1>12. TrueTranscript'
  BY <1>1, <1>5 DEF MemoryHolds, TrueTranscript, TrueResult, EventsOf, Recycled
<1>13. TrueLedger'
  <2> SUFFICES ASSUME NEW j \in Ids PROVE TrueRecord(ledger, j, task, round)'
    BY DEF TrueLedger
  <2>1. TrueRecord(ledger, j, task, round)
    BY DEF MemoryHolds, TrueLedger
  <2>2. j = i => ledger'[j].receipt = 0
    BY <1>3 DEF NoReceipt
  <2> QED BY <1>1, <1>3, <1>5, <2>1, <2>2 DEF TrueRecord, NotDispatched, EventsOf
<1>14. TrueAnswers'
  <2> SUFFICES ASSUME NEW j \in Ids, calls'[j].pc = "done" PROVE TrueResult(ResultOf(j), task, transcript)'
    BY DEF TrueAnswers
  <2>1. calls'[j] = calls[j]
    BY <1>4
  <2>2. TrueResult(ResultOf(j), task, transcript)
    BY <2>1 DEF MemoryHolds, TrueAnswers
  <2> QED BY <1>1, <1>5, <2>1, <2>2 DEF TrueResult, ResultOf, EventsOf, Recycled
<1> QED BY <1>7, <1>8, <1>9, <1>10, <1>11, <1>12, <1>13, <1>14 DEF MemoryHolds

\* A call is handed over.
LEMMA MemoryDispatch ==
  ASSUME BaseInv, MemoryHolds, NEW i \in Ids, Dispatch(i)
  PROVE  MemoryHolds'
<1> DEFINE k == Len(events) + 1
<1>0. TypeOK
  BY DEF BaseInv
<1>1. /\ pc = "batch" /\ calls[i].pc = "execute"
      /\ k \notin DOMAIN events
      /\ \A n \in DOMAIN events : events'[n] = events[n]
      /\ events'[k] = [task |-> task, round |-> round + 1, id |-> i, sig |-> calls[i].sig]
      /\ EventsOf(task)' = EventsOf(task) \cup {k}
      /\ calls'[i].pc = "record"
      /\ \A j \in Ids : j # i => calls'[j] = calls[j]
      /\ UNCHANGED <<pc, task, round, transcript, ledger>>
  BY DispatchDoes
<1> HIDE DEF k
<1>2. /\ \A n \in EventsOf(task) : events'[n] = events[n] /\ events[n].id \in Ids
      /\ round \in Nat
  BY <1>0, <1>1, TypeFacts DEF EventsOf, EventRecords
<1>3. Mine(i, "started")
  BY <1>1 DEF BaseInv, CallInv, CallHolds
<1>4. PlacedInMemory'
  <2> SUFFICES ASSUME NEW n \in EventsOf(task) \cup {k} PROVE Placed(n, round, ledger)'
    BY <1>1 DEF PlacedInMemory
  <2>1. CASE n = k
    BY <1>1, <1>3, <2>1 DEF Placed, KnownTo, Mine
  <2>2. CASE n \in EventsOf(task)
    <3>1. Placed(n, round, ledger)
      BY <2>2 DEF MemoryHolds, PlacedInMemory
    <3> QED BY <1>1, <1>2, <2>2, <3>1 DEF Placed, KnownTo
  <2> QED BY <2>1, <2>2
<1>5. AnsweredInMemory'
  <2> SUFFICES ASSUME NEW n \in EventsOf(task) \cup {k}
               PROVE  \/ Answer(n, transcript)'
                      \/ /\ pc' = "batch"
                         /\ events'[n].round = round' + 1
                         /\ calls'[events'[n].id].pc \in {"record", "done"}
    BY <1>1 DEF AnsweredInMemory
  <2>1. CASE n = k
    BY <1>1, <2>1
  <2>2. CASE n \in EventsOf(task) /\ Answer(n, transcript)
    BY <1>1, <1>2, <2>2 DEF Answer, AnsweredIn, Recycled
  <2>3. CASE n \in EventsOf(task) /\ ~Answer(n, transcript)
    <3>1. events[n].round = round + 1 /\ calls[events[n].id].pc \in {"record", "done"}
      BY <2>3 DEF MemoryHolds, AnsweredInMemory
    <3> QED BY <1>1, <1>2, <2>3, <3>1
  <2> QED BY <2>1, <2>2, <2>3
<1>6. NotHandedOver'
  <2> SUFFICES ASSUME NEW j \in Ids, calls'[j].pc \in {"admitted", "execute"}, NEW n \in EventsOf(task) \cup {k}
               PROVE  ~(events'[n].id = j /\ events'[n].round = round + 1)
    BY <1>1 DEF NotHandedOver
  <2>1. j # i /\ calls[j].pc \in {"admitted", "execute"}
    BY <1>1
  <2>2. CASE n = k
    BY <1>1, <2>1, <2>2
  <2>3. CASE n \in EventsOf(task)
    BY <1>2, <2>1, <2>3 DEF MemoryHolds, NotHandedOver
  <2> QED BY <2>2, <2>3
<1>7. RoundsSoFar'
  BY <1>1 DEF MemoryHolds, RoundsSoFar
<1>8. Receipted(ledger, transcript)'
  BY <1>1 DEF MemoryHolds, Receipted, Answered
<1>9. ASSUME NEW x, TrueResult(x, task, transcript), ~(x.id = i /\ x.round = round + 1)
      PROVE  TrueResult(x, task, transcript)'
  <2>1. ASSUME x.receipt > 0
        PROVE  /\ x.receipt \in EventsOf(task)'
               /\ events'[x.receipt].id = x.id
               /\ \/ events'[x.receipt].round = x.round /\ events'[x.receipt].sig = x.sig
                  \/ \E y \in transcript' : y.id = x.id /\ y.round < x.round /\ y.receipt = x.receipt
    BY <1>1, <1>2, <1>9, <2>1 DEF TrueResult
  <2>2. ASSUME x.receipt = NotDispatched, NEW n \in EventsOf(task) \cup {k},
               events'[n].id = x.id, events'[n].round = x.round
        PROVE  Recycled(transcript, n)'
    <3>1. n # k
      BY <1>1, <1>9, <2>2
    <3>2. n \in EventsOf(task) /\ events'[n] = events[n]
      BY <1>2, <2>2, <3>1
    <3> QED BY <1>1, <1>9, <2>2, <3>2 DEF TrueResult, Recycled
  <2>3. EventsOf(task)' = EventsOf(task) \cup {k}
    BY <1>1
  <2> QED BY <2>1, <2>2, <2>3 DEF TrueResult
<1>10. TrueTranscript'
  <2> SUFFICES ASSUME NEW x \in transcript PROVE TrueResult(x, task, transcript)'
    BY <1>1 DEF TrueTranscript
  <2>1. x.round \in Nat /\ x.round <= round /\ TrueResult(x, task, transcript)
    BY <1>0, TypeFacts, EmptyTyped DEF MemoryHolds, TrueTranscript, RoundsSoFar, Results
  <2>2. x.round # round + 1
    BY <1>2, <2>1
  <2> QED BY <1>9, <2>1, <2>2
<1>11. TrueLedger'
  <2> SUFFICES ASSUME NEW j \in Ids PROVE TrueRecord(ledger, j, task, round)'
    BY DEF TrueLedger
  <2>1. TrueRecord(ledger, j, task, round)
    BY DEF MemoryHolds, TrueLedger
  <2>2. ledger[j].receipt > 0 => ledger[j].receipt \in EventsOf(task)
    BY <2>1 DEF TrueRecord
  <2>3. EventsOf(task)' = EventsOf(task) \cup {k}
    BY <1>1
  <2> QED BY <1>1, <1>2, <2>1, <2>2, <2>3 DEF TrueRecord
<1>12. TrueAnswers'
  <2> SUFFICES ASSUME NEW j \in Ids, calls'[j].pc = "done" PROVE TrueResult(ResultOf(j), task, transcript)'
    BY DEF TrueAnswers
  <2>1. j # i /\ calls[j].pc = "done" /\ calls'[j] = calls[j]
    BY <1>1
  <2> DEFINE x == ResultOf(j)
  <2>2. TrueResult(x, task, transcript)
    BY <2>1 DEF MemoryHolds, TrueAnswers
  <2>3. x.id = j
    BY DEF ResultOf
  <2>4. ResultOf(j)' = x
    BY <1>1, <2>1 DEF ResultOf
  <2> HIDE DEF x
  <2>5. TrueResult(x, task, transcript)'
    <3>1. PICK y : y = x
      OBVIOUS
    <3>2. TrueResult(y, task, transcript) /\ y.id = j
      BY <2>2, <2>3, <3>1
    <3>3. TrueResult(y, task, transcript)'
      BY <1>9, <2>1, <3>2
    <3> QED BY <2>4, <3>1, <3>3 DEF x
  <2> QED BY <2>5 DEF x
<1> QED BY <1>4, <1>5, <1>6, <1>7, <1>8, <1>10, <1>11, <1>12 DEF MemoryHolds

\* A round ends: what its calls returned is in the transcript.
LEMMA MemoryRoundEnds ==
  ASSUME BaseInv, MemoryHolds, NEW next, BatchEnds(next)
  PROVE  MemoryHolds'
<1> DEFINE s == {[id |-> i, sig |-> calls[i].sig, round |-> round + 1, receipt |-> calls[i].receipt] :
                   i \in {j \in Ids : calls[j].pc = "done"}}
<1>0. TypeOK
  BY DEF BaseInv
<1>1. /\ pc = "batch"
      /\ \A i \in Ids : calls[i].pc \in {"none", "done"}
      /\ transcript' = transcript \cup s
      /\ round' = round + 1
      /\ calls' = NoCalls
      /\ UNCHANGED <<task, ledger, events, fresh>>
  BY DEF BatchEnds, ledgerVars, historyVars
<1>2. s = {ResultOf(i) : i \in {j \in Ids : calls[j].pc = "done"}}
  BY DEF ResultOf
<1>3. \A i \in Ids : ResultOf(i).id = i /\ ResultOf(i).round = round + 1
  BY DEF ResultOf
<1> HIDE DEF s
<1>4. /\ \A i \in Ids : calls[i].pc = "done" => ResultOf(i) \in s
      /\ \A x \in s : \E i \in Ids : calls[i].pc = "done" /\ x = ResultOf(i)
  BY <1>2
<1>5. EventsOf(task)' = EventsOf(task)
  BY <1>1 DEF EventsOf
<1>6. /\ \A n \in EventsOf(task) : events[n].id \in Ids /\ events[n].round \in Nat
      /\ \A x \in transcript : x.round \in Nat
      /\ round \in Nat
      /\ \A i \in Ids : ledger[i].round \in Nat
  BY <1>0, TypeFacts, EmptyTyped DEF EventsOf, EventRecords, Results, Ledgers, Records
<1>7. \A i \in Ids : calls'[i].pc = "none"
  BY <1>1, EmptyTyped DEF NoCall
<1>8. PlacedInMemory'
  <2> SUFFICES ASSUME NEW n \in EventsOf(task) PROVE Placed(n, round, ledger)'
    BY <1>5 DEF PlacedInMemory
  <2>1. Placed(n, round, ledger)
    BY DEF MemoryHolds, PlacedInMemory
  <2>2. events[n].round <= round + 1
    BY <1>6, <2>1 DEF Placed
  <2> QED BY <1>1, <2>2 DEF Placed
<1>9. AnsweredInMemory'
  <2> SUFFICES ASSUME NEW n \in EventsOf(task) PROVE Answer(n, transcript)'
    BY <1>5 DEF AnsweredInMemory
  <2>1. CASE Answer(n, transcript)
    BY <1>1, <2>1 DEF Answer, AnsweredIn, Recycled
  <2>2. CASE ~Answer(n, transcript)
    <3>1. events[n].round = round + 1 /\ calls[events[n].id].pc \in {"record", "done"}
      BY <2>2 DEF MemoryHolds, AnsweredInMemory
    <3>2. ResultOf(events[n].id) \in s
      BY <1>1, <1>4, <1>6, <3>1
    <3> DEFINE x == ResultOf(events[n].id)
    <3>3. x \in transcript' /\ x.id = events'[n].id /\ x.round = events'[n].round
      BY <1>1, <1>3, <1>6, <3>1, <3>2
    <3> HIDE DEF x
    <3> QED BY <3>3 DEF Answer, AnsweredIn
  <2> QED BY <2>1, <2>2
<1>10. NotHandedOver'
  BY <1>7 DEF NotHandedOver
<1>11. RoundsSoFar'
  <2> SUFFICES ASSUME NEW x \in transcript \cup s PROVE x.round <= round + 1
    BY <1>1 DEF RoundsSoFar
  <2>1. CASE x \in transcript
    BY <1>6, <2>1 DEF MemoryHolds, RoundsSoFar
  <2>2. CASE x \in s
    BY <1>3, <1>4, <1>6, <2>2
  <2> QED BY <2>1, <2>2
<1>12. Receipted(ledger, transcript)'
  BY <1>1 DEF MemoryHolds, Receipted, Answered
<1>13. TrueTranscript'
  <2> SUFFICES ASSUME NEW x \in transcript \cup s PROVE TrueResult(x, task, transcript)'
    BY <1>1 DEF TrueTranscript
  <2>1. TrueResult(x, task, transcript)
    BY <1>4 DEF MemoryHolds, TrueTranscript, TrueAnswers
  <2> QED BY <1>1, <1>5, <2>1 DEF TrueResult, EventsOf, Recycled
<1>14. TrueLedger'
  <2> SUFFICES ASSUME NEW i \in Ids PROVE TrueRecord(ledger, i, task, round)'
    BY DEF TrueLedger
  <2>1. TrueRecord(ledger, i, task, round)
    BY DEF MemoryHolds, TrueLedger
  <2>2. ledger[i].round <= round => ledger[i].round <= round + 1
    BY <1>6
  <2> QED BY <1>1, <1>5, <2>1, <2>2 DEF TrueRecord, EventsOf
<1>15. TrueAnswers'
  BY <1>7 DEF TrueAnswers
<1> QED BY <1>8, <1>9, <1>10, <1>11, <1>12, <1>13, <1>14, <1>15 DEF MemoryHolds

\* The activation begins anew: nothing to remember.
LEMMA MemoryAnew ==
  ASSUME BaseInv, LoadNothing
  PROVE  MemoryHolds'
<1>0. TypeOK /\ ActivationInv /\ pc = "load"
  BY DEF BaseInv, LoadNothing
<1>1. /\ transcript' = {} /\ ledger' = EmptyLedger /\ calls' = NoCalls
      /\ BeginsAnew(IF wal = <<>> THEN "none" ELSE "open")
      /\ UNCHANGED <<task, events>>
  BY <1>0 DEF LoadNothing, ActivationInv, runVars, ledgerVars
<1>2. task \in Tasks
  BY <1>0, AtWork
<1>3. EventsOf(task)' = {}
  <2> DEFINE read == IF wal = <<>> THEN "none" ELSE "open"
  <2>1. read \in Gaps
    BY DEF Gaps
  <2>2. BeginsAnew(read)
    BY <1>1
  <2> HIDE DEF read
  <2>3. {n \in DOMAIN events : events[n].task = task /\ n > fresh'[task]} = {}
    BY <1>0, <1>1, <1>2, <2>1, <2>2, AnewEmpties
  <2> QED BY <1>1, <2>3 DEF EventsOf
<1>4. \A i \in Ids : ledger'[i] = NoRecord /\ calls'[i] = NoCall
  BY <1>1, EmptyTyped
<1> QED BY <1>1, <1>3, <1>4 DEF MemoryHolds, PlacedInMemory, AnsweredInMemory, NotHandedOver, RoundsSoFar,
          Receipted, TrueTranscript, TrueLedger, TrueRecord, TrueAnswers, NoRecord, NoCall, NoReceipt, NotDispatched

\* A restart: what it reads from disk is true of the events, so what it goes on
\* with is.
LEMMA MemoryLoad ==
  ASSUME BaseInv, FoundInv, DiskInv, NEW found \in SUBSET native, LoadJournal(found), gap[task] = "none"
  PROVE  MemoryHolds'
<1> DEFINE s == ResumeResults(ledger', journal.transcript)
           r == ledger'
           l == OnDisk
           old == journal.transcript
           jr == journal.round
<1>0. TypeOK /\ ActivationInv
  BY DEF BaseInv
<1>1. /\ pc = "load" /\ Resumable
      /\ l \in Ledgers
      /\ r \in Ledgers
      /\ \A i \in Ids :
              /\ r[i].sig = l[i].sig
              /\ r[i].round = l[i].round
              /\ l[i].status \notin Active => r[i] = l[i]
              /\ l[i].status = "admitted" /\ i \in Answered(old) => r[i] = l[i]
              /\ l[i].status = "admitted" /\ i \notin Answered(old) =>
                   r[i].status = "failed" /\ r[i].receipt = NotDispatched
              /\ l[i].status = "started" =>
                   \/ r[i].status = "committed" /\ r[i].receipt = Errored
                   \/ /\ i \notin Answered(old)
                      /\ r[i].status = "indeterminate"
                      /\ r[i].receipt = Indeterminate
                   \/ i \in Answered(old) /\ r[i] = l[i]
      /\ s \in SUBSET Results
      /\ \A x \in s :
              /\ x.id \in Ids
              /\ x.id \notin Answered(old)
              /\ r[x.id].receipt # NoReceipt
              /\ x.sig = r[x.id].sig
              /\ x.round = r[x.id].round
              /\ x.receipt = r[x.id].receipt
      /\ \A i \in Ids : i \notin Answered(old) /\ r[i].receipt # NoReceipt =>
              \E x \in s : x.id = i /\ x.round = r[i].round
      /\ transcript' = old \cup s
      /\ round' \in Rounds
      /\ jr <= round'
      /\ \A x \in s : x.round <= round'
      /\ UNCHANGED <<task, calls, events, fresh>>
  BY LoadJournalDoes
<1>2. /\ jr \in Nat /\ round' \in Nat
      /\ \A n \in EventsOf(task) : events[n].id \in Ids /\ events[n].round \in Nat
      /\ \A i \in Ids : l[i].round \in Nat
      /\ \A x \in old : x.round \in Nat /\ x.id \in Ids
  BY <1>0, <1>1, TypeFacts, EmptyTyped DEF EventsOf, EventRecords, Results, Ledgers, Records
<1>3. journal.task = task /\ task \in Tasks /\ journal.status = "in_flight" /\ Followed
  BY <1>0, <1>1, AtWork DEF Resumable, Followed
<1>4. \A n \in EventsOf(task) :
        /\ Placed(n, jr, l)
        /\ Answer(n, old) \/ (events[n].round = jr + 1 /\ KnownTo(l, n))
  BY <1>3 DEF FoundInv
<1>5. /\ \A x \in old : x.round <= jr
      /\ Receipted(l, old)
      /\ \A x \in old : TrueResult(x, task, old)
      /\ \A i \in Ids : TrueRecord(l, i, task, jr)
  BY <1>3 DEF DiskInv
<1>6. EventsOf(task)' = EventsOf(task)
  BY <1>1 DEF EventsOf
<1>7. pc # "batch" /\ \A i \in Ids : calls'[i].pc = "none"
  BY <1>0, <1>1, EmptyTyped DEF ActivationInv, NoCall
<1> HIDE DEF s, r, l, old, jr
<1>8. \A n \in EventsOf(task) : KnownTo(l, n) => KnownTo(r, n)
  BY <1>1, <1>2 DEF KnownTo, Active
<1>9. PlacedInMemory'
  <2> SUFFICES ASSUME NEW n \in EventsOf(task) PROVE Placed(n, round, ledger)'
    BY <1>6 DEF PlacedInMemory
  <2>1. Placed(n, jr, l)
    BY <1>4
  <2>2. events[n].round <= round' \/ (events[n].round = round' + 1 /\ KnownTo(r, n))
    BY <1>1, <1>2, <1>8, <2>1 DEF Placed
  <2>3. KnownTo(r, n) => KnownTo(ledger, n)'
    BY <1>1 DEF KnownTo, r
  <2> QED BY <1>1, <2>2, <2>3 DEF Placed
<1>10. AnsweredInMemory'
  <2> SUFFICES ASSUME NEW n \in EventsOf(task) PROVE Answer(n, transcript)'
    BY <1>6 DEF AnsweredInMemory
  <2>1. CASE Answer(n, old)
    BY <1>1, <2>1 DEF Answer, AnsweredIn, Recycled
  <2>2. CASE events[n].round = jr + 1 /\ KnownTo(l, n)
    <3> DEFINE i == events[n].id
    <3>0. i \in Ids
      BY <1>2
    <3>1. l[i].round = events[n].round /\ l[i].status \notin {"none", "admitted"}
      BY <2>2 DEF KnownTo
    <3>2. CASE i \in Answered(old)
      <4>1. PICK x \in old : x.id = i
        BY <3>2 DEF Answered
      <4>2. x.round < events[n].round
        BY <1>2, <1>5, <2>2, <4>1
      <4> QED BY <1>1, <4>1, <4>2 DEF Answer, Recycled
    <3>3. CASE i \notin Answered(old)
      <4>1. r[i].receipt # NoReceipt
        <5>1. CASE l[i].status = "started"
          BY <1>1, <3>0, <3>3, <5>1 DEF Errored, Indeterminate, NoReceipt
        <5>2. CASE l[i].status # "started"
          <6>1. r[i] = l[i]
            BY <1>1, <3>0, <3>1, <5>2 DEF Active
          <6>2. l[i].status \in {"committed", "failed", "indeterminate"}
            BY <1>1, <3>0, <3>1, <5>2 DEF Ledgers, Records, Statuses
          <6> QED BY <1>5, <3>0, <3>3, <6>1, <6>2 DEF Receipted
        <5> QED BY <5>1, <5>2
      <4>2. PICK x \in s : x.id = i /\ x.round = r[i].round
        BY <1>1, <3>0, <3>3, <4>1
      <4>3. x.round = events[n].round
        BY <1>1, <3>0, <3>1, <4>2
      <4> QED BY <1>1, <4>2, <4>3 DEF Answer, AnsweredIn
    <3> QED BY <3>2, <3>3
  <2> QED BY <1>4, <2>1, <2>2
<1>11. NotHandedOver'
  BY <1>7 DEF NotHandedOver
<1>12. RoundsSoFar'
  <2> SUFFICES ASSUME NEW x \in old \cup s PROVE x.round <= round'
    BY <1>1 DEF RoundsSoFar
  <2>1. CASE x \in old
    BY <1>1, <1>2, <1>5, <2>1
  <2> QED BY <1>1, <2>1
<1>13. Receipted(ledger, transcript)'
  <2> SUFFICES ASSUME NEW i \in Ids, i \notin Answered(old \cup s),
                      r[i].status \in {"committed", "failed", "indeterminate"}
               PROVE  r[i].receipt # NoReceipt
    BY <1>1 DEF Receipted, r, Answered
  <2>1. i \notin Answered(old)
    BY DEF Answered
  <2>2. CASE l[i].status \in Active
    BY <1>1, <2>1, <2>2 DEF Active, NotDispatched, Errored, Indeterminate, NoReceipt
  <2>3. CASE l[i].status \notin Active
    <3>1. r[i] = l[i]
      BY <1>1, <2>3
    <3> QED BY <1>5, <2>1, <3>1 DEF Receipted
  <2> QED BY <2>2, <2>3
<1>14. ASSUME NEW x \in s PROVE TrueResult(x, task, old \cup s)
  <2> DEFINE i == x.id
  <2>1. /\ i \in Ids /\ i \notin Answered(old)
        /\ x.sig = l[i].sig /\ x.round = l[i].round /\ x.receipt = r[i].receipt
    BY <1>1
  <2>2. TrueRecord(l, i, task, jr)
    BY <1>5, <2>1
  <2>3. \/ r[i] = l[i]
        \/ r[i].receipt \in {Errored, Indeterminate}
        \/ l[i].status = "admitted" /\ r[i].receipt = NotDispatched
    <3>1. l[i].status \in Active => l[i].status = "admitted" \/ l[i].status = "started"
      BY DEF Active
    <3> QED BY <1>1, <2>1, <3>1
  <2>4. ASSUME x.receipt > 0
        PROVE  /\ x.receipt \in EventsOf(task)
               /\ events[x.receipt].id = x.id
               /\ events[x.receipt].round = x.round
               /\ events[x.receipt].sig = x.sig
    <3>1. r[i] = l[i]
      BY <2>1, <2>3, <2>4 DEF Errored, Indeterminate, NotDispatched
    <3>2. /\ x.receipt \in EventsOf(task)
          /\ events[x.receipt] = [task |-> task, round |-> l[i].round, id |-> i, sig |-> l[i].sig]
      BY <2>1, <2>2, <2>4, <3>1 DEF TrueRecord
    <3>3. events[x.receipt].round = l[i].round /\ events[x.receipt].id = i /\ events[x.receipt].sig = l[i].sig
      BY <3>2
    <3> QED BY <1>2, <2>1, <3>2, <3>3
  <2>5. ASSUME x.receipt = NotDispatched, NEW n \in EventsOf(task), events[n].id = i, events[n].round = x.round
        PROVE  FALSE
    <3>1. ~Answer(n, old)
      BY <2>1, <2>5 DEF Answer, AnsweredIn, Recycled, Answered
    <3>2. events[n].round = jr + 1 /\ KnownTo(l, n)
      BY <1>4, <3>1
    <3>3. l[i].status # "admitted" /\ l[i].round = jr + 1
      BY <2>1, <2>5, <3>2 DEF KnownTo
    <3>4. r[i] = l[i]
      BY <2>1, <2>3, <2>5, <3>3 DEF Errored, Indeterminate, NotDispatched
    <3>5. l[i].round <= jr
      BY <2>1, <2>2, <2>5, <3>4 DEF TrueRecord
    <3> QED BY <1>2, <3>3, <3>5
  <2> QED BY <2>4, <2>5 DEF TrueResult
<1>15. TrueTranscript'
  <2> SUFFICES ASSUME NEW x \in old \cup s PROVE TrueResult(x, task, transcript)'
    BY <1>1 DEF TrueTranscript
  <2>1. x \in old => TrueResult(x, task, old \cup s)
    <3>1. old \subseteq old \cup s
      OBVIOUS
    <3> QED BY <1>5, <3>1, TrueResultGrows
  <2>2. TrueResult(x, task, old \cup s)
    BY <1>14, <2>1
  <2> QED BY <1>1, <1>6, <2>2 DEF TrueResult, EventsOf, Recycled
<1>16. TrueLedger'
  <2> SUFFICES ASSUME NEW i \in Ids PROVE TrueRecord(ledger, i, task, round)'
    BY DEF TrueLedger
  <2>1. TrueRecord(l, i, task, jr)
    BY <1>5
  <2>2. ASSUME r[i].receipt > 0
        PROVE  /\ r[i].status = "committed"
               /\ r[i].receipt \in EventsOf(task)
               /\ events[r[i].receipt] = [task |-> task, round |-> r[i].round, id |-> i, sig |-> r[i].sig]
    <3>1. r[i] = l[i]
      BY <1>1, <2>2 DEF Active, Errored, Indeterminate, NotDispatched
    <3> QED BY <2>1, <2>2, <3>1 DEF TrueRecord
  <2>3. ASSUME r[i].receipt = NotDispatched PROVE r[i].round <= round'
    <3>1. CASE r[i] = l[i]
      <4>1. l[i].round <= jr
        BY <2>1, <2>3, <3>1 DEF TrueRecord
      <4> QED BY <1>1, <1>2, <3>1, <4>1
    <3>2. CASE r[i] # l[i]
      <4>1. i \notin Answered(old)
        BY <1>1, <2>3, <3>2 DEF Active, Errored, NotDispatched
      <4>2. PICK x \in s : x.id = i /\ x.round = r[i].round
        BY <1>1, <2>3, <4>1 DEF NotDispatched, NoReceipt
      <4> QED BY <1>1, <4>2
    <3> QED BY <3>1, <3>2
  <2> QED BY <1>1, <1>6, <2>2, <2>3 DEF TrueRecord, EventsOf, r
<1>17. TrueAnswers'
  BY <1>7 DEF TrueAnswers
<1> QED BY <1>9, <1>10, <1>11, <1>12, <1>13, <1>15, <1>16, <1>17 DEF MemoryHolds

\* Memory and history agree, at every step.
LEMMA MemoryStep ==
  ASSUME BaseInv, MemoryInv, PriorInv, FoundInv, DiskInv, Next
  PROVE  MemoryInv'
<1>0. TypeOK /\ ActivationInv
  BY DEF BaseInv
<1> USE DEF diskVars, runVars, ledgerVars, historyVars
<1>1. ASSUME pc' \in {"off", "load"} PROVE MemoryInv'
  BY <1>1 DEF MemoryInv, Gapless, Running
<1>2. ASSUME Running, UNCHANGED task, UNCHANGED gap \/ GapOpens, Gapless' PROVE MemoryHolds
  <2>1. task \in Tasks
    BY <1>0, <1>2, AtWork DEF Running
  <2>2. gap[task] = "read" => gap'[task] = "read"
    BY <1>0, <1>2, <2>1, GapOpensDoes
  <2> QED BY <1>2, <2>2 DEF MemoryInv, Gapless
<1>3. ASSUME MemoryHolds, UNCHANGED <<task, round, transcript, calls, events, fresh>>,
             ledger' = ledger \/ ledger' = Released(ledger, transcript),
             pc = "batch" => pc' = "batch"
      PROVE  MemoryHolds'
  BY <1>0, <1>3, MemoryKept
<1>4. CASE (\E t \in Tasks : Activate(t)) \/ CompleteTruncate \/ CompleteFails \/ Abort \/ Crash
           \/ \E i \in Ids : AdmitRefused(i) \/ AdmitFails(i)
  BY <1>1, <1>4 DEF Activate, CompleteTruncate, CompleteFails, Abort, Crash, AdmitRefused, AdmitFails, Ended, Goto
<1>5. CASE LoadNothing
  BY <1>5, MemoryAnew DEF MemoryInv
<1>6. ASSUME NEW found \in SUBSET native, LoadJournal(found) PROVE MemoryInv'
  <2>1. /\ pc = "load"
        /\ gap' = [gap EXCEPT ![task] = IF @ = "open" THEN "read" ELSE @]
        /\ task' = task
    BY <1>6, LoadJournalDoes
  <2>2. task \in Tasks /\ "read" \in Gaps /\ gap[task] \in Gaps
    BY <1>0, <2>1, AtWork, TypeFacts DEF Gaps
  <2>3. gap'[task] = IF gap[task] = "open" THEN "read" ELSE gap[task]
    BY <1>0, <2>1, <2>2, GapIs
  <2>4. Gapless' => gap[task] = "none"
    BY <2>1, <2>2, <2>3 DEF Gapless, Gaps
  <2> QED BY <1>6, <2>4, MemoryLoad DEF MemoryInv
<1>7. CASE Restore \/ Checkpoint \/ Complete
  <2>1. /\ Running
        /\ ledger' = Released(ledger, transcript)
        /\ UNCHANGED <<task, round, transcript, calls, events, fresh, gap>>
        /\ pc # "batch"
    BY <1>7 DEF Restore, Checkpoint, Complete, Written, Running
  <2> QED BY <1>2, <1>3, <2>1 DEF MemoryInv
<1>8. CASE RestoreTruncate \/ CheckpointTruncate
  <2>1. /\ Running /\ pc # "off"
        /\ Truncate
        /\ UNCHANGED <<task, round, transcript, calls, events, fresh, ledger>>
        /\ pc # "batch"
    BY <1>8 DEF RestoreTruncate, CheckpointTruncate, Truncate, Running
  <2>2. task \in Tasks /\ "none" \in Gaps
    BY <1>0, <2>1, AtWork DEF Gaps
  <2>3. gap'[task] = IF gap[task] = "open" THEN "none" ELSE gap[task]
    BY <1>0, <2>1, <2>2, GapIs DEF Truncate
  <2>4. Gapless' => MemoryHolds
    BY <2>1, <2>3 DEF MemoryInv, Gapless
  <2> QED BY <1>3, <2>1, <2>4 DEF MemoryInv
<1>9. CASE RestoreFails
  <2>1. pc # "off" /\ BeginsAnew("read") /\ task' = task /\ "read" \in Gaps
    BY <1>9 DEF RestoreFails, Gaps
  <2>2. gap'[task] = "read"
    BY <1>0, <2>1, AtWork, BeginsAnewDoes
  <2> QED BY <2>1, <2>2 DEF MemoryInv, Gapless
<1>10. CASE CheckpointFails
  <2>1. /\ Running
        /\ ledger' = Released(ledger, transcript)
        /\ UNCHANGED <<task, round, transcript, calls, events, fresh>>
        /\ UNCHANGED gap \/ GapOpens
        /\ pc # "batch"
    BY <1>10 DEF CheckpointFails, Running
  <2> QED BY <1>2, <1>3, <2>1 DEF MemoryInv
<1>11. ASSUME NEW chosen \in SUBSET Ids, NEW sigs \in [chosen -> Proposals], Propose(sigs)
       PROVE  MemoryInv'
  <2>1. /\ Running /\ pc = "model"
        /\ UNCHANGED <<task, round, transcript, ledger, events, fresh, gap>>
        /\ \A i \in Ids : calls'[i].pc \in {"none", "proposed"}
    BY <1>11 DEF Propose, Running, NoCall
  <2> QED BY <1>2, <2>1, MemoryPropose DEF MemoryInv
<1>12. CASE Finish \/ AllAdmitted
  <2>1. /\ Running /\ pc # "batch"
        /\ UNCHANGED <<task, round, transcript, calls, events, fresh, gap, ledger>>
    BY <1>12 DEF Finish, AllAdmitted, Running
  <2> QED BY <1>2, <1>3, <2>1 DEF MemoryInv
<1>13. ASSUME NEW i \in Ids, Admit(i) PROVE MemoryInv'
  <2>1. Running /\ UNCHANGED task /\ (UNCHANGED gap \/ GapOpens)
    BY <1>13 DEF Admit, Commit, Running
  <2> QED BY <1>2, <1>13, <2>1, MemoryAdmit DEF MemoryInv
<1>14. ASSUME NEW i \in Ids, AdmitReplay(i) PROVE MemoryInv'
  <2>1. Running /\ UNCHANGED task /\ UNCHANGED gap
    BY <1>14 DEF AdmitReplay, Running
  <2> QED BY <1>2, <1>14, <2>1, MemoryReplay DEF MemoryInv
<1>15. ASSUME NEW i \in Ids, StartFails(i) \/ RecordFails(i) PROVE MemoryInv'
  <2>1. Running /\ UNCHANGED task /\ UNCHANGED gap
    BY <1>15 DEF StartFails, RecordFails, CommitFails, Running
  <2> QED BY <1>2, <1>15, <2>1, MemoryErrored DEF MemoryInv
<1>21. ASSUME NEW i \in Ids, AnswerAgain(i) PROVE MemoryInv'
  <2>1. Running /\ UNCHANGED pc /\ UNCHANGED task /\ UNCHANGED gap
    BY <1>21 DEF AnswerAgain, Running
  <2>2. Gapless' => PriorAnswers
    BY <2>1 DEF PriorInv, Gapless, Running
  <2> QED BY <1>2, <1>21, <2>1, <2>2, MemoryAgain DEF MemoryInv
<1>16. ASSUME NEW i \in Ids, Start(i) PROVE MemoryInv'
  <2>1. Running /\ UNCHANGED task /\ (UNCHANGED gap \/ GapOpens)
    BY <1>16 DEF Start, Commit, Running
  <2> QED BY <1>2, <1>16, <2>1, MemoryStart DEF MemoryInv
<1>17. ASSUME NEW i \in Ids, Dispatch(i) PROVE MemoryInv'
  <2>1. Running /\ UNCHANGED task /\ UNCHANGED gap
    BY <1>17 DEF Dispatch, Running
  <2> QED BY <1>2, <1>17, <2>1, MemoryDispatch DEF MemoryInv
<1>18. ASSUME NEW i \in Ids, Record(i) PROVE MemoryInv'
  <2>1. Running /\ UNCHANGED task /\ (UNCHANGED gap \/ GapOpens)
    BY <1>18 DEF Record, Commit, Running
  <2> QED BY <1>2, <1>18, <2>1, MemoryRecord DEF MemoryInv
<1>19. ASSUME NEW next \in {"checkpoint", "complete"}, BatchEnds(next) PROVE MemoryInv'
  <2>1. Running /\ UNCHANGED task /\ UNCHANGED gap
    BY <1>19 DEF BatchEnds, Running
  <2> QED BY <1>2, <1>19, <2>1, MemoryRoundEnds DEF MemoryInv
<1>20. ASSUME NEW x \in late.running, LateResult(x) PROVE MemoryInv'
  <2>1. /\ UNCHANGED <<pc, task, round, transcript, calls, events, fresh, ledger>>
        /\ UNCHANGED gap \/ GapOpens
    BY <1>20 DEF LateResult
  <2>2. Gapless' => Running
    BY <2>1 DEF Gapless, Running
  <2> QED BY <1>2, <1>3, <2>1, <2>2 DEF MemoryInv
<1> QED BY <1>4, <1>5, <1>6, <1>7, <1>8, <1>9, <1>10, <1>11, <1>12, <1>13, <1>14, <1>15, <1>16, <1>17,
           <1>18, <1>19, <1>20, <1>21, NextCases

\* What was answered stays known to answer again, at every step.
LEMMA PriorStep ==
  ASSUME BaseInv, PriorInv, Next
  PROVE  PriorInv'
<1>0. TypeOK /\ ActivationInv
  BY DEF BaseInv
<1> USE DEF diskVars, runVars, ledgerVars, historyVars
<1>1. ASSUME prior' = NoPrior PROVE PriorInv'
  BY <1>1, EmptyTyped DEF PriorInv, PriorAnswers, NoPrior, NoReceipt
<1>2. ASSUME pc \notin {"off", "load"}, pc' \notin {"off", "load"}, UNCHANGED task,
             UNCHANGED gap \/ GapOpens, PriorAnswers => PriorAnswers'
      PROVE  PriorInv'
  <2>1. task \in Tasks
    BY <1>0, <1>2, AtWork
  <2>2. gap[task] = "read" => gap'[task] = "read"
    BY <1>0, <1>2, <2>1, GapOpensDoes
  <2> QED BY <1>2, <2>2 DEF PriorInv, Gapless, Running
<1>3. ASSUME UNCHANGED <<prior, transcript, calls>> PROVE PriorAnswers => PriorAnswers'
  BY <1>3 DEF PriorAnswers
<1>4. ASSUME pc \notin {"admit", "batch"} PROVE \A i \in Ids : calls[i].pc = "none"
  BY <1>0, <1>4, EmptyTyped DEF ActivationInv, NoCall
<1>5. CASE Ended
  BY <1>1, <1>5 DEF Ended
<1>6. ASSUME pc \in {"off", "load"}, prior' = prior PROVE PriorInv'
  BY <1>1, <1>6 DEF PriorInv
<1>7. CASE (\E t \in Tasks : Activate(t)) \/ LoadNothing \/ (\E found \in SUBSET native : LoadJournal(found))
  BY <1>6, <1>7 DEF Activate, LoadNothing, LoadJournal
<1>8. CASE CompleteTruncate \/ CompleteFails \/ Abort \/ Crash \/ (\E i \in Ids : AdmitRefused(i) \/ AdmitFails(i))
  BY <1>5, <1>8 DEF CompleteTruncate, CompleteFails, Abort, Crash, AdmitRefused, AdmitFails
<1>9. CASE Restore \/ Checkpoint \/ Complete \/ CheckpointFails \/ Finish \/ AllAdmitted
  <2>1. /\ pc \notin {"off", "load"} /\ pc' \notin {"off", "load"} /\ UNCHANGED task
        /\ UNCHANGED gap \/ GapOpens
        /\ UNCHANGED <<prior, transcript, calls>>
    BY <1>9 DEF Restore, Checkpoint, Complete, CheckpointFails, Finish, AllAdmitted, Goto
  <2> QED BY <1>2, <1>3, <2>1
<1>10. CASE RestoreTruncate \/ CheckpointTruncate
  <2>1. /\ pc \notin {"off", "load"} /\ pc' \notin {"off", "load"} /\ UNCHANGED task
        /\ UNCHANGED <<prior, transcript, calls>>
        /\ Truncate
    BY <1>10 DEF RestoreTruncate, CheckpointTruncate, Truncate, Goto
  <2>2. task \in Tasks /\ "none" \in Gaps
    BY <1>0, <2>1, AtWork DEF Gaps
  <2>3. gap'[task] = IF gap[task] = "open" THEN "none" ELSE gap[task]
    BY <1>0, <2>1, <2>2, GapIs DEF Truncate
  <2> QED BY <1>3, <2>1, <2>3 DEF PriorInv, Gapless, Running
<1>11. CASE RestoreFails
  <2>1. /\ pc # "off" /\ BeginsAnew("read") /\ task' = task /\ "read" \in Gaps
        /\ pc' \notin {"off", "load"}
    BY <1>11 DEF RestoreFails, Gaps, Goto
  <2>2. gap'[task] = "read"
    BY <1>0, <2>1, AtWork, BeginsAnewDoes
  <2> QED BY <2>1, <2>2 DEF PriorInv, Gapless
<1>12. ASSUME NEW chosen \in SUBSET Ids, NEW sigs \in [chosen -> Proposals], Propose(sigs)
       PROVE  PriorInv'
  <2>1. /\ pc = "model" /\ pc' = "admit" /\ UNCHANGED <<task, gap, prior, transcript>>
    BY <1>12 DEF Propose, Goto
  <2>2. PriorAnswers => PriorAnswers'
    BY <1>4, <2>1 DEF PriorAnswers
  <2> QED BY <1>2, <2>1, <2>2
<1>13. ASSUME NEW i \in Ids, NEW to \in CallPcs, NEW receipt \in Receipts, CallTo(i, to, receipt),
              calls[i].pc # "done", UNCHANGED <<prior, transcript>>
       PROVE  PriorAnswers => PriorAnswers'
  <2>1. \A j \in Ids : j # i => calls'[j] = calls[j]
    BY <1>0, <1>13, CallToIs
  <2> QED BY <1>13, <2>1 DEF PriorAnswers
<1>14. NoReceipt \in Receipts /\ Errored \in Receipts /\ {"admitted", "execute", "record", "done"} \subseteq CallPcs
       /\ \A i \in Ids : calls[i].receipt \in Receipts /\ prior[i] \in Receipts
  BY <1>0, TypeFacts DEF Receipts, NoReceipt, Errored, CallPcs
<1>15. ASSUME NEW i \in Ids,
              Admit(i) \/ AnswerAgain(i) \/ Start(i) \/ StartFails(i) \/ Record(i) \/ RecordFails(i)
       PROVE  PriorInv'
  <2>1. /\ pc \in {"admit", "batch"} /\ pc' = pc /\ UNCHANGED <<task, prior, transcript>>
        /\ UNCHANGED gap \/ GapOpens
        /\ calls[i].pc # "done"
        /\ \E to \in CallPcs : \E receipt \in Receipts : CallTo(i, to, receipt)
    BY <1>14, <1>15 DEF Admit, AnswerAgain, Start, StartFails, Record, RecordFails, Commit, CommitFails
  <2> QED BY <1>2, <1>13, <2>1
<1>16. ASSUME NEW i \in Ids, Dispatch(i) PROVE PriorInv'
  <2>1. /\ pc = "batch" /\ calls[i].pc = "execute" /\ pc' = pc /\ UNCHANGED <<task, prior, transcript, gap>>
        /\ CallTo(i, "record", Len(events'))
    BY <1>16 DEF Dispatch
  <2>2. \A j \in Ids : j # i => calls'[j] = calls[j]
    BY <1>16, DispatchDoes
  <2>3. PriorAnswers => PriorAnswers'
    BY <2>1, <2>2 DEF PriorAnswers
  <2> QED BY <1>2, <2>1, <2>3
<1>17. ASSUME NEW i \in Ids, AdmitReplay(i) PROVE PriorInv'
  <2>1. PICK receipt \in PriorReceipts(i) :
          CallTo(i, "done", receipt) /\ prior' = [prior EXCEPT ![i] = receipt]
    BY <1>17 DEF AdmitReplay
  <2>2. receipt \in Receipts
    <3>1. ledger[i].receipt \in Receipts
      BY <1>0, TypeFacts DEF Ledgers, Records
    <3>2. \A x \in transcript : x.receipt \in Receipts
      BY <1>0, TypeFacts DEF Results
    <3> QED BY <2>1, <3>1, <3>2 DEF PriorReceipts
  <2>3. /\ pc = "admit" /\ pc' = pc /\ calls[i].pc = "proposed" /\ UNCHANGED <<task, transcript, gap>>
    BY <1>17 DEF AdmitReplay
  <2>4. /\ calls'[i].pc = "done" /\ calls'[i].receipt = receipt
        /\ \A j \in Ids : j # i => calls'[j] = calls[j]
    BY <1>0, <1>14, <2>1, <2>2, CallToIs
  <2>5. prior'[i] = receipt /\ \A j \in Ids : j # i => prior'[j] = prior[j]
    BY <1>0, <2>1, TypeFacts
  <2>6. PriorAnswers => PriorAnswers'
    BY <2>3, <2>4, <2>5 DEF PriorAnswers
  <2> QED BY <1>2, <2>3, <2>6
<1>18. ASSUME NEW next \in {"checkpoint", "complete"}, BatchEnds(next) PROVE PriorInv'
  <2> DEFINE s == {[id |-> i, sig |-> calls[i].sig, round |-> round + 1, receipt |-> calls[i].receipt] :
                     i \in {j \in Ids : calls[j].pc = "done"}}
  <2>1. /\ pc = "batch" /\ pc' \notin {"off", "load"} /\ UNCHANGED <<task, gap, prior>>
        /\ transcript' = transcript \cup s
    BY <1>18 DEF BatchEnds, Goto
  <2>2. \A i \in Ids : calls[i].pc = "done" =>
          \E y \in s : y.id = i /\ y.receipt = calls[i].receipt
    <3> SUFFICES ASSUME NEW i \in Ids, calls[i].pc = "done"
                 PROVE  \E y \in s : y.id = i /\ y.receipt = calls[i].receipt
      OBVIOUS
    <3> DEFINE y == [id |-> i, sig |-> calls[i].sig, round |-> round + 1, receipt |-> calls[i].receipt]
    <3>1. y \in s
      OBVIOUS
    <3>2. y.id = i /\ y.receipt = calls[i].receipt
      OBVIOUS
    <3> HIDE DEF y, s
    <3> QED BY <3>1, <3>2
  <2> HIDE DEF s
  <2>3. PriorAnswers => PriorAnswers'
    BY <2>1, <2>2 DEF PriorAnswers
  <2> QED BY <1>2, <2>1, <2>3
<1>19. ASSUME NEW x \in late.running, LateResult(x) PROVE PriorInv'
  <2>1. UNCHANGED <<pc, task, prior, transcript, calls>> /\ (UNCHANGED gap \/ GapOpens)
    BY <1>19 DEF LateResult
  <2> QED BY <1>2, <1>3, <1>6, <2>1
<1> QED BY <1>7, <1>8, <1>9, <1>10, <1>11, <1>12, <1>15, <1>16, <1>17, <1>18, <1>19, NextCases

-----------------------------------------------------------------------------
(* What the disk says of the events.                                       *)

DiskHolds == FoundInv /\ DiskInv

\* The ledger that a restart would build is a ledger.
LEMMA OnDiskTyped ==
  ASSUME BaseInv
  PROVE  OnDisk \in Ledgers
BY TypeFacts, ReplayTyped DEF BaseInv, OnDisk

\* The disk stays as it is, and so do the events of its task.
LEMMA DiskKept ==
  ASSUME DiskHolds, journal' = journal, OnDisk' = OnDisk, events' = events,
         Followed' => Followed /\ EventsOf(journal.task)' = EventsOf(journal.task)
  PROVE  DiskHolds'
<1>1. CASE ~Followed'
  BY <1>1 DEF DiskHolds, FoundInv, DiskInv
<1>2. CASE Followed'
  <2> DEFINE own == EventsOf(journal.task)
             l == OnDisk
  <2>1. Followed /\ EventsOf(journal.task)' = own /\ OnDisk' = l
    BY <1>2
  <2>2. \A n \in own : /\ Placed(n, journal.round, l)
                       /\ Answer(n, journal.transcript) \/ (events[n].round = journal.round + 1 /\ KnownTo(l, n))
    BY <2>1 DEF DiskHolds, FoundInv
  <2>3. FoundInv'
    BY <2>1, <2>2 DEF FoundInv, Placed, KnownTo, Answer, AnsweredIn, Recycled
  <2>4. DiskInv'
    BY <2>1 DEF DiskHolds, DiskInv, Receipted, Answered, TrueResult, TrueRecord, Recycled
  <2> QED BY <2>3, <2>4 DEF DiskHolds
<1> QED BY <1>1, <1>2

\* An entry that is true of the events.
Fits(e) ==
  /\ e.op = "admit" => e.round = journal.round + 1
  /\ e.op = "result" /\ OnDisk[e.id].status = "started" =>
       /\ e.receipt \in EventsOf(journal.task)
       /\ events[e.receipt] = [task |-> journal.task, round |-> OnDisk[e.id].round, id |-> e.id,
                               sig |-> OnDisk[e.id].sig]

\* A true entry is added to the log.
LEMMA DiskApplied ==
  ASSUME BaseInv, DiskHolds, Followed, NEW e \in Entries, Fits(e),
         OnDisk' = Apply(OnDisk, e), UNCHANGED <<journal, events, fresh>>
  PROVE  DiskHolds'
<1> DEFINE l == OnDisk
           m == Apply(l, e)
           jt == journal.task
           jr == journal.round
<1>0. TypeOK
  BY DEF BaseInv
<1>1. l \in Ledgers
  BY OnDiskTyped
<1>2. /\ \A j \in Ids : j # e.id => m[j] = l[j]
      /\ m[e.id] = AppliedRecord(l, e)
      /\ e.id \in Ids
      /\ e.op \in {"admit", "start", "result"}
  <2> HIDE DEF l
  <2>1. e.id \in Ids /\ e.op \in {"admit", "start", "result"}
    BY DEF Entries
  <2> QED BY <1>1, <2>1, ApplyIs
<1>3. /\ \A n \in EventsOf(jt) : events[n].id \in Ids /\ events[n].round \in Nat /\ n \in Nat \ {0}
      /\ jr \in Nat
  BY <1>0, TypeFacts, EmptyTyped DEF EventsOf, EventRecords
<1>4. OnDisk' = m /\ EventsOf(jt)' = EventsOf(jt) /\ UNCHANGED <<jt, jr>>
  BY DEF EventsOf
<1>5. /\ e.op = "admit" => e.round = jr + 1
      /\ e.op = "result" /\ l[e.id].status = "started" =>
           /\ e.receipt \in EventsOf(jt)
           /\ events[e.receipt] = [task |-> jt, round |-> l[e.id].round, id |-> e.id, sig |-> l[e.id].sig]
  BY DEF Fits
<1> HIDE DEF l, m
<1>6. \/ m[e.id] = l[e.id]
      \/ /\ e.op = "admit" /\ Admissible(l, e.id, e.sig, jr + 1)
         /\ m[e.id] = [status |-> "admitted", sig |-> e.sig, round |-> jr + 1, receipt |-> NoReceipt]
      \/ /\ l[e.id].status = "admitted"
         /\ m[e.id] = [status |-> "started", sig |-> l[e.id].sig, round |-> l[e.id].round, receipt |-> l[e.id].receipt]
      \/ /\ l[e.id].status = "started"
         /\ m[e.id] = [status |-> "committed", sig |-> l[e.id].sig, round |-> l[e.id].round, receipt |-> e.receipt]
         /\ e.receipt \in EventsOf(jt)
         /\ events[e.receipt] = [task |-> jt, round |-> l[e.id].round, id |-> e.id, sig |-> l[e.id].sig]
  <2>1. CASE e.op = "admit"
    BY <1>2, <1>5, <2>1 DEF AppliedRecord
  <2>2. CASE e.op = "start"
    BY <1>2, <2>2 DEF AppliedRecord
  <2>3. CASE e.op = "result"
    BY <1>2, <1>5, <2>3 DEF AppliedRecord
  <2> QED BY <1>2, <2>1, <2>2, <2>3
<1>7. ASSUME NEW n \in EventsOf(jt), events[n].round = jr + 1, KnownTo(l, n) PROVE KnownTo(m, n)
  <2>1. CASE events[n].id # e.id
    BY <1>2, <1>3, <1>7, <2>1 DEF KnownTo
  <2>2. CASE events[n].id = e.id
    BY <1>6, <1>7, <2>2 DEF KnownTo, Admissible, Reusable
  <2> QED BY <2>1, <2>2
<1>8. FoundInv'
  <2> SUFFICES ASSUME NEW n \in EventsOf(jt)
               PROVE  /\ Placed(n, jr, OnDisk)'
                      /\ Answer(n, journal.transcript)' \/ (events'[n].round = jr' + 1 /\ KnownTo(OnDisk, n)')
    BY <1>4 DEF FoundInv
  <2>1. /\ Placed(n, jr, l)
        /\ Answer(n, journal.transcript) \/ (events[n].round = jr + 1 /\ KnownTo(l, n))
    BY DEF DiskHolds, FoundInv, l
  <2>2. KnownTo(m, n) => KnownTo(OnDisk, n)'
    BY <1>4 DEF KnownTo
  <2>3. Placed(n, jr, OnDisk)'
    BY <1>4, <1>7, <2>1, <2>2 DEF Placed
  <2>4. Answer(n, journal.transcript) => Answer(n, journal.transcript)'
    BY DEF Answer, AnsweredIn, Recycled
  <2> QED BY <1>4, <1>7, <2>1, <2>2, <2>3, <2>4
<1>9. ASSUME journal.status = "in_flight" PROVE DiskInv'
  <2>1. /\ \A x \in journal.transcript : x.round <= jr
        /\ Receipted(l, journal.transcript)
        /\ \A x \in journal.transcript : TrueResult(x, jt, journal.transcript)
        /\ \A i \in Ids : TrueRecord(l, i, jt, jr)
    BY <1>9 DEF DiskHolds, DiskInv, l
  <2>2. Receipted(m, journal.transcript)
    <3> SUFFICES ASSUME NEW i \in Ids \ Answered(journal.transcript),
                        m[i].status \in {"committed", "failed", "indeterminate"}
                 PROVE  m[i].receipt # NoReceipt
      BY DEF Receipted
    <3>1. l[i].status \in {"committed", "failed", "indeterminate"} => l[i].receipt # NoReceipt
      BY <2>1 DEF Receipted
    <3>2. CASE m[i] = l[i]
      BY <3>1, <3>2
    <3>3. CASE m[i] # l[i]
      <4>1. i = e.id /\ m[i].receipt \in EventsOf(jt)
        BY <1>2, <1>6, <3>3
      <4> QED BY <1>3, <4>1 DEF NoReceipt
    <3> QED BY <3>2, <3>3
  <2>3. ASSUME NEW i \in Ids PROVE TrueRecord(m, i, jt, jr)
    <3>1. TrueRecord(l, i, jt, jr)
      BY <2>1
    <3>2. CASE m[i] = l[i]
      BY <3>1, <3>2 DEF TrueRecord
    <3>3. CASE m[i] # l[i]
      <4>1. i = e.id
        BY <1>2, <3>3
      <4>2. \/ m[i].receipt = NoReceipt
            \/ l[i].status = "admitted" /\ m[i].round = l[i].round /\ m[i].receipt = l[i].receipt
            \/ /\ m[i].status = "committed"
               /\ m[i].receipt \in EventsOf(jt)
               /\ events[m[i].receipt] = [task |-> jt, round |-> m[i].round, id |-> i, sig |-> m[i].sig]
        BY <1>6, <3>3, <4>1
      <4> QED BY <1>3, <3>1, <4>2 DEF TrueRecord, NoReceipt, NotDispatched
    <3> QED BY <3>2, <3>3
  <2>4. Receipted(OnDisk, journal.transcript)'
    BY <1>4, <2>2 DEF Receipted, Answered
  <2>5. \A i \in Ids : TrueRecord(OnDisk, i, journal.task, journal.round)'
    BY <1>4, <2>3 DEF TrueRecord
  <2>6. \A x \in journal.transcript : TrueResult(x, journal.task, journal.transcript)'
    BY <1>4, <2>1 DEF TrueResult, Recycled
  <2> QED BY <2>1, <2>4, <2>5, <2>6 DEF DiskInv
<1>10. journal.status # "in_flight" => DiskInv'
  BY DEF DiskInv
<1> QED BY <1>8, <1>9, <1>10 DEF DiskHolds

\* A line is added to the log, or is lost.
LEMMA DiskAppended ==
  ASSUME BaseInv, DiskHolds, NEW e \in Entries, wal' \in {wal, Appended(TornLine), Appended(e)},
         UNCHANGED <<journal, events, fresh>>, Followed' => Followed,
         Followed => /\ Fits(e)
                     /\ e.seq > journal.watermark
                     /\ \A k \in DOMAIN wal : wal[k].seq <= e.seq
  PROVE  /\ DiskHolds'
         /\ Followed => OnDisk' = OnDisk \/ OnDisk' = Apply(OnDisk, e)
         /\ Followed /\ wal' = Appended(e) /\ ~Torn => OnDisk' = Apply(OnDisk, e)
<1>0. TypeOK
  BY DEF BaseInv
<1>1. wal \in Seq(Lines) /\ e \in Lines /\ TornLine \in Lines /\ journal.watermark \in Nat
  BY <1>0, TypeFacts DEF Lines
<1>2. EventsOf(journal.task)' = EventsOf(journal.task)
  BY DEF EventsOf
<1>3. OnDisk' = Replayed(journal.ledger, wal', journal.watermark)
  BY DEF OnDisk
<1>4. TornLine.seq <= journal.watermark
  BY <1>1 DEF TornLine
<1>5. wal' # Appended(e) => OnDisk' = OnDisk
  BY <1>1, <1>3, <1>4, LogAfter DEF OnDisk
<1>6. wal' = Appended(e) /\ Torn => OnDisk' = OnDisk
  BY <1>1, <1>3, LogAfter DEF OnDisk
<1>7. Followed /\ wal' = Appended(e) /\ ~Torn => OnDisk' = Apply(OnDisk, e)
  BY <1>1, <1>3, LogAfter DEF OnDisk
<1>8. CASE ~Followed
  BY <1>8 DEF DiskHolds, FoundInv, DiskInv
<1>9. CASE OnDisk' = OnDisk
  BY <1>2, <1>7, <1>9, DiskKept
<1>10. CASE Followed /\ OnDisk' = Apply(OnDisk, e)
  <2>1. DiskHolds'
    BY <1>10, DiskApplied
  <2> QED BY <1>7, <1>10, <2>1
<1> QED BY <1>5, <1>6, <1>7, <1>8, <1>9, <1>10

\* What the entries of failed appends make of the ledger that memory has: a
\* finished record keeps what it is, an active one goes on, and it is committed
\* only with a true receipt.
AsKept(m) == \A i \in Ids :
  IF ledger[i].status \notin Active THEN m[i] = Released(ledger, transcript)[i]
  ELSE /\ m[i].sig = ledger[i].sig
       /\ m[i].round = ledger[i].round
       /\ m[i].status \in {"admitted", "started", "committed"}
       /\ ledger[i].status = "started" => m[i].status # "admitted"
       /\ m[i].status \in Active => m[i].receipt = ledger[i].receipt
       /\ m[i].status = "committed" =>
            /\ m[i].receipt \in EventsOf(task)
            /\ events[m[i].receipt] = [task |-> task, round |-> ledger[i].round, id |-> i, sig |-> ledger[i].sig]

\* The journal that was just written, with what of the log it does not cover.
LEMMA StaleReplay ==
  ASSUME BaseInv, LogInv, Running, gap[task] = "none"
  PROVE  AsKept(Replayed(Released(ledger, transcript), wal, walSeq))
<1> DEFINE R == Released(ledger, transcript)
           P == {m \in Ledgers : AsKept(m)}
<1>0. /\ TypeOK /\ ledger \in Ledgers /\ wal \in Seq(Lines) /\ walSeq \in Nat
  BY TypeFacts DEF BaseInv
<1>1. /\ R \in Ledgers
      /\ \A i \in Ids : ledger[i].status \in Active => R[i] = ledger[i]
  BY <1>0, ReleasedIs DEF Active
<1>2. R \in P
  <2> HIDE DEF R
  <2>1. AsKept(R)
    BY <1>1 DEF AsKept, Active, R
  <2> QED BY <1>1, <2>1
<1>3. ASSUME NEW k \in Above(wal, walSeq), NEW m \in P PROVE Apply(m, wal[k]) \in P
  <2> DEFINE e == wal[k]
  <2>1. e \in Entries /\ e.id \in Ids
    BY <1>0, AboveNumbered DEF Entries
  <2>2. Stale(e)
    BY <1>0 DEF LogInv, Above
  <2> HIDE DEF e
  <2>3. /\ Apply(m, e) \in Ledgers
        /\ \A j \in Ids : j # e.id => Apply(m, e)[j] = m[j]
        /\ Apply(m, e)[e.id] = AppliedRecord(m, e)
    BY <2>1, ApplyIs
  <2>4. /\ ledger[e.id].status \in Active
        /\ e.op = "start" \/ e.op = "result"
        /\ e.op = "result" =>
             /\ e.receipt \in EventsOf(task)
             /\ events[e.receipt] = [task |-> task, round |-> ledger[e.id].round, id |-> e.id,
                                     sig |-> ledger[e.id].sig]
    BY <2>2 DEF Stale
  <2>5. AsKept(m)
    OBVIOUS
  <2>6. AsKept(Apply(m, e))
    <3> SUFFICES ASSUME NEW i \in Ids
                 PROVE  IF ledger[i].status \notin Active THEN Apply(m, e)[i] = Released(ledger, transcript)[i]
                        ELSE /\ Apply(m, e)[i].sig = ledger[i].sig
                             /\ Apply(m, e)[i].round = ledger[i].round
                             /\ Apply(m, e)[i].status \in {"admitted", "started", "committed"}
                             /\ ledger[i].status = "started" => Apply(m, e)[i].status # "admitted"
                             /\ Apply(m, e)[i].status \in Active => Apply(m, e)[i].receipt = ledger[i].receipt
                             /\ Apply(m, e)[i].status = "committed" =>
                                  /\ Apply(m, e)[i].receipt \in EventsOf(task)
                                  /\ events[Apply(m, e)[i].receipt] =
                                       [task |-> task, round |-> ledger[i].round, id |-> i, sig |-> ledger[i].sig]
      BY DEF AsKept
    <3>1. CASE i # e.id
      <4>1. Apply(m, e)[i] = m[i]
        BY <2>3, <3>1
      <4> QED BY <2>5, <4>1 DEF AsKept
    <3>2. CASE i = e.id
      <4>1. Apply(m, e)[i] = AppliedRecord(m, e)
        BY <2>3, <3>2
      <4>2. \/ AppliedRecord(m, e) = m[i]
            \/ /\ m[i].status = "admitted"
               /\ AppliedRecord(m, e) = [status |-> "started", sig |-> m[i].sig, round |-> m[i].round, receipt |-> m[i].receipt]
            \/ /\ m[i].status = "started" /\ e.op = "result"
               /\ AppliedRecord(m, e) = [status |-> "committed", sig |-> m[i].sig, round |-> m[i].round, receipt |-> e.receipt]
        BY <2>4, <3>2 DEF AppliedRecord
      <4> DEFINE a == AppliedRecord(m, e)
      <4> HIDE DEF a
      <4>3. CASE a = m[i]
        BY <2>5, <4>1, <4>3 DEF AsKept, a
      <4>4. CASE m[i].status = "admitted" /\ a = [status |-> "started", sig |-> m[i].sig, round |-> m[i].round, receipt |-> m[i].receipt]
        BY <2>4, <2>5, <3>2, <4>1, <4>4 DEF AsKept, Active, a
      <4>5. CASE m[i].status = "started" /\ e.op = "result" /\ a = [status |-> "committed", sig |-> m[i].sig, round |-> m[i].round, receipt |-> e.receipt]
        BY <2>4, <2>5, <3>2, <4>1, <4>5 DEF AsKept, Active, a
      <4> QED BY <4>2, <4>3, <4>4, <4>5 DEF a
    <3> QED BY <3>1, <3>2
  <2> QED BY <2>3, <2>6 DEF e
<1> HIDE DEF P, R
<1>4. Replayed(R, wal, walSeq) \in P
  BY <1>0, <1>2, <1>3, ReplayKeeps
<1> QED BY <1>4 DEF P, R

\* The journal is written from memory.
LEMMA DiskWritten ==
  ASSUME BaseInv, MemoryInv, LogInv, Running, pc # "batch", NEW status \in {"in_flight", "completed"},
         Written(status), UNCHANGED <<wal, events, fresh, gap>>
  PROVE  DiskHolds'
<1> DEFINE m == Replayed(Released(ledger, transcript), wal, walSeq)
<1>0. TypeOK /\ ActivationInv /\ task \in Tasks
  BY AtWork DEF BaseInv, Running
<1>1. /\ journal'.task = task
      /\ journal'.transcript = transcript
      /\ journal'.round = round
      /\ journal'.ledger = Released(ledger, transcript)
      /\ journal'.watermark = walSeq
  BY <1>0, WrittenTyped DEF BaseInv
<1>2. OnDisk' = m
  BY <1>1 DEF OnDisk
<1>3. CASE gap[task] # "none"
  BY <1>1, <1>3 DEF DiskHolds, FoundInv, DiskInv, Followed
<1>4. CASE gap[task] = "none"
  <2>1. AsKept(m)
    BY <1>4, StaleReplay
  <2>2. MemoryHolds
    BY <1>4 DEF MemoryInv, Gapless
  <2>3. ledger \in Ledgers /\ \A n \in EventsOf(task) : events[n].id \in Ids /\ n \in Nat \ {0}
    BY <1>0, TypeFacts DEF EventsOf, EventRecords
  <2> HIDE DEF m
  <2>4. \A i \in Ids :
          /\ Released(ledger, transcript)[i].status = ledger[i].status
          /\ Released(ledger, transcript)[i].sig = ledger[i].sig
          /\ Released(ledger, transcript)[i].round = ledger[i].round
          /\ i \notin Answered(transcript) => Released(ledger, transcript)[i] = ledger[i]
          /\ \/ Released(ledger, transcript)[i].receipt = ledger[i].receipt
             \/ Released(ledger, transcript)[i].receipt = NoReceipt
    <3>1. ledger \in Ledgers
      BY <2>3
    <3> QED BY <3>1, ReleasedIs
  <2>5. EventsOf(journal.task)' = EventsOf(task)
    BY <1>1 DEF EventsOf
  <2>6. ASSUME NEW n \in EventsOf(task), KnownTo(ledger, n) PROVE KnownTo(m, n)
    <3>1. PICK i \in Ids : i = events[n].id
      BY <2>3
    <3>2. ledger[i].round = events[n].round /\ ledger[i].status \notin {"none", "admitted"}
      BY <2>6, <3>1 DEF KnownTo
    <3>3. m[i].round = events[n].round /\ m[i].status \notin {"none", "admitted"}
      <4>1. CASE ledger[i].status \in Active
        BY <2>1, <3>2, <4>1 DEF AsKept, Active
      <4>2. CASE ledger[i].status \notin Active
        <5>1. m[i] = Released(ledger, transcript)[i]
          BY <2>1, <4>2 DEF AsKept
        <5> QED BY <2>4, <3>2, <5>1
      <4> QED BY <4>1, <4>2
    <3> QED BY <3>1, <3>3 DEF KnownTo
  <2>7. FoundInv'
    <3> SUFFICES ASSUME NEW n \in EventsOf(task)
                 PROVE  Placed(n, journal.round, OnDisk)' /\ Answer(n, journal.transcript)'
      BY <2>5 DEF FoundInv
    <3>1. Placed(n, round, ledger) /\ Answer(n, transcript)
      BY <2>2 DEF MemoryHolds, PlacedInMemory, AnsweredInMemory
    <3>2. Placed(n, journal.round, OnDisk)'
      <4>1. KnownTo(m, n) => KnownTo(OnDisk, n)'
        BY <1>2 DEF KnownTo
      <4> QED BY <1>1, <2>6, <3>1, <4>1 DEF Placed
    <3>3. Answer(n, journal.transcript)'
      BY <1>1, <3>1 DEF Answer, AnsweredIn, Recycled
    <3> QED BY <3>2, <3>3
  <2>8. Receipted(m, transcript)
    <3> SUFFICES ASSUME NEW i \in Ids \ Answered(transcript), m[i].status \in {"committed", "failed", "indeterminate"}
                 PROVE  m[i].receipt # NoReceipt
      BY DEF Receipted
    <3>1. CASE ledger[i].status \in Active
      <4>1. m[i].receipt \in EventsOf(task)
        BY <2>1, <3>1 DEF AsKept
      <4> QED BY <2>3, <4>1 DEF NoReceipt
    <3>2. CASE ledger[i].status \notin Active
      <4>1. m[i] = ledger[i]
        BY <2>1, <2>4, <3>2 DEF AsKept
      <4> QED BY <2>2, <4>1 DEF MemoryHolds, Receipted
    <3> QED BY <3>1, <3>2
  <2>9. ASSUME NEW i \in Ids PROVE TrueRecord(m, i, task, round)
    <3>1. TrueRecord(ledger, i, task, round)
      BY <2>2 DEF MemoryHolds, TrueLedger
    <3>2. /\ m[i].sig = ledger[i].sig
          /\ m[i].round = ledger[i].round
          /\ \/ m[i].receipt = ledger[i].receipt /\ (m[i].status = ledger[i].status \/ ledger[i].status \in Active)
             \/ m[i].receipt = NoReceipt
             \/ /\ m[i].status = "committed"
                /\ m[i].receipt \in EventsOf(task)
                /\ events[m[i].receipt] = [task |-> task, round |-> ledger[i].round, id |-> i, sig |-> ledger[i].sig]
      BY <2>1, <2>4 DEF AsKept, Active
    <3>3. m[i].receipt \in EventsOf(task) => m[i].receipt # NotDispatched
      BY <2>3 DEF NotDispatched
    <3>4. ledger[i].status \in Active => ~(ledger[i].receipt > 0)
      BY <3>1 DEF TrueRecord, Active
    <3> QED BY <3>1, <3>2, <3>3, <3>4 DEF TrueRecord, NoReceipt, NotDispatched
  <2>10. DiskInv'
    <3>1. \A x \in transcript : x.round <= round /\ TrueResult(x, task, transcript)
      BY <2>2 DEF MemoryHolds, RoundsSoFar, TrueTranscript
    <3>2. Receipted(OnDisk, journal.transcript)'
      BY <1>1, <1>2, <2>8 DEF Receipted, Answered
    <3>3. \A i \in Ids : TrueRecord(OnDisk, i, journal.task, journal.round)'
      BY <1>1, <1>2, <2>5, <2>9 DEF TrueRecord
    <3>4. \A x \in transcript : TrueResult(x, journal.task, journal.transcript)'
      BY <1>1, <2>5, <3>1 DEF TrueResult, Recycled
    <3>5. \A x \in transcript : x.round <= journal'.round
      BY <1>1, <3>1
    <3> QED BY <1>1, <3>2, <3>3, <3>4, <3>5 DEF DiskInv
  <2> QED BY <2>7, <2>10 DEF DiskHolds
<1> QED BY <1>3, <1>4

\* The log is deleted: the journal alone says what memory does.
LEMMA DiskTruncated ==
  ASSUME BaseInv, MemoryInv, pc \in Cuts, Truncate
  PROVE  DiskHolds' /\ OnDisk' = ledger
<1>0. TypeOK /\ ActivationInv /\ task \in Tasks /\ "none" \in Gaps
  BY AtWork DEF BaseInv, Cuts, Gaps
<1>1. /\ journal.task = task
      /\ journal.round = round
      /\ journal.transcript = transcript
      /\ journal.ledger = ledger
      /\ UNCHANGED <<journal, events, fresh>>
      /\ wal' = <<>>
  BY DEF BaseInv, CutInv, Truncate
<1>2. Above(<<>>, journal.watermark) = {}
  BY DEF Above
<1>3. OnDisk' = ledger
  BY <1>1, <1>2, ReplayNothing DEF OnDisk
<1>4. EventsOf(journal.task)' = EventsOf(task)
  BY <1>1 DEF EventsOf
<1>5. gap'[task] = IF gap[task] = "open" THEN "none" ELSE gap[task]
  BY <1>0, GapIs DEF Truncate
<1>6. ASSUME Followed' PROVE DiskHolds'
  <2>1. MemoryHolds /\ pc # "batch"
    BY <1>1, <1>5, <1>6 DEF Followed, MemoryInv, Gapless, Running, Cuts
  <2>2. FoundInv'
    <3> SUFFICES ASSUME NEW n \in EventsOf(task)
                 PROVE  Placed(n, journal.round, OnDisk)' /\ Answer(n, journal.transcript)'
      BY <1>4 DEF FoundInv
    <3>1. Placed(n, round, ledger) /\ Answer(n, transcript)
      BY <2>1 DEF MemoryHolds, PlacedInMemory, AnsweredInMemory
    <3>2. KnownTo(ledger, n) => KnownTo(OnDisk, n)'
      BY <1>1, <1>3 DEF KnownTo
    <3> QED BY <1>1, <3>1, <3>2 DEF Placed, Answer, AnsweredIn, Recycled
  <2>3. DiskInv'
    <3>1. \A x \in transcript : x.round <= round /\ TrueResult(x, task, transcript)
      BY <2>1 DEF MemoryHolds, RoundsSoFar, TrueTranscript
    <3>2. Receipted(ledger, transcript) /\ \A i \in Ids : TrueRecord(ledger, i, task, round)
      BY <2>1 DEF MemoryHolds, TrueLedger
    <3>3. Receipted(OnDisk, journal.transcript)'
      BY <1>1, <1>3, <3>2 DEF Receipted, Answered
    <3>4. \A i \in Ids : TrueRecord(OnDisk, i, journal.task, journal.round)'
      BY <1>1, <1>3, <1>4, <3>2 DEF TrueRecord
    <3>5. \A x \in transcript : TrueResult(x, journal.task, journal.transcript)'
      BY <1>1, <1>4, <3>1 DEF TrueResult, Recycled
    <3> QED BY <1>1, <3>1, <3>3, <3>4, <3>5 DEF DiskInv
  <2> QED BY <2>2, <2>3 DEF DiskHolds
<1>7. ~Followed' => DiskHolds'
  BY DEF DiskHolds, FoundInv, DiskInv
<1> QED BY <1>3, <1>6, <1>7

\* In a round, what follows the journal is what memory did since.
LEMMA AtWorkFollowed ==
  ASSUME BaseInv, SyncInv, pc \in Working, Followed
  PROVE  /\ journal.task = task /\ task \in Tasks /\ gap[task] = "none" /\ Running
         /\ journal.round = round
         /\ journal.transcript = transcript
         /\ journal.watermark <= walSeq
         /\ \A i \in Ids : \/ OnDisk[i] = ledger[i]
                           \/ /\ ledger[i].status \in Active
                              /\ calls[i].pc \notin {"admitted", "execute", "record"}
BY DEF SyncInv, Working, Followed, Running

\* The entry of a call is true of the events and is replayed last.
LEMMA EntryFits ==
  ASSUME BaseInv, LogInv, SyncInv, pc \in Working, Followed, NEW i \in Ids, calls[i].pc # "none",
         NEW op \in {"admit", "start", "result"}, NEW receipt \in Receipts,
         op = "result" => calls[i].pc = "record" /\ receipt = calls[i].receipt
  PROVE  /\ Fits(Entry(op, i, receipt))
         /\ Entry(op, i, receipt).seq > journal.watermark
         /\ \A k \in DOMAIN wal : wal[k].seq <= Entry(op, i, receipt).seq
<1> DEFINE e == Entry(op, i, receipt)
<1>0. TypeOK
  BY DEF BaseInv
<1>1. /\ journal.task = task /\ task \in Tasks /\ gap[task] = "none" /\ Running
      /\ journal.round = round
      /\ journal.watermark <= walSeq
      /\ \/ OnDisk[i] = ledger[i]
         \/ ledger[i].status \in Active /\ calls[i].pc \notin {"admitted", "execute", "record"}
  BY AtWorkFollowed
<1>2. /\ e.seq = walSeq + 1
      /\ e.op = op
      /\ e.id = i
      /\ e.round = round + 1
      /\ e.receipt = receipt
  BY <1>0, AtCall, EntryIs
<1>3. journal.watermark \in Nat /\ walSeq \in Nat
  BY <1>0, TypeFacts
<1> HIDE DEF e
<1>4. \A k \in DOMAIN wal : wal[k].seq <= e.seq
  BY <1>1, <1>2 DEF LogInv
<1>5. ASSUME op = "result"
      PROVE  /\ receipt \in EventsOf(task)
             /\ events[receipt] = [task |-> task, round |-> OnDisk[i].round, id |-> i, sig |-> OnDisk[i].sig]
  <2>1. CallHolds(i) /\ calls[i].pc = "record" /\ receipt = calls[i].receipt
    BY <1>5 DEF BaseInv, CallInv
  <2>2. /\ Mine(i, "started")
        /\ receipt \in EventsOf(task)
        /\ events[receipt] = [task |-> task, round |-> round + 1, id |-> i, sig |-> calls[i].sig]
    BY <2>1 DEF CallHolds
  <2>3. OnDisk[i].round = round + 1 /\ OnDisk[i].sig = calls[i].sig
    BY <1>1, <2>1, <2>2 DEF Mine
  <2> QED BY <2>2, <2>3
<1>6. Fits(e)
  BY <1>1, <1>2, <1>5 DEF Fits
<1> QED BY <1>1, <1>2, <1>3, <1>4, <1>6 DEF e

\* A call is handed over: the disk says already that it was started.
LEMMA DiskDispatch ==
  ASSUME BaseInv, DiskHolds, SyncInv, NEW i \in Ids, Dispatch(i)
  PROVE  DiskHolds'
<1> DEFINE k == Len(events) + 1
<1>0. TypeOK
  BY DEF BaseInv
<1>1. /\ pc = "batch" /\ calls[i].pc = "execute"
      /\ k \notin DOMAIN events
      /\ \A n \in DOMAIN events : events'[n] = events[n]
      /\ events'[k] = [task |-> task, round |-> round + 1, id |-> i, sig |-> calls[i].sig]
      /\ EventsOf(task)' = EventsOf(task) \cup {k}
      /\ UNCHANGED <<journal, wal, task, gap>>
  BY DispatchDoes
<1> HIDE DEF k
<1>2. ~Followed => ~Followed'
  BY <1>1 DEF Followed
<1>3. ASSUME Followed PROVE DiskHolds'
  <2> DEFINE l == OnDisk
  <2>1. /\ journal.task = task
        /\ journal.round = round
        /\ journal.transcript = transcript
        /\ l[i] = ledger[i]
    BY <1>1, <1>3, AtWorkFollowed DEF Working
  <2>2. Mine(i, "started")
    BY <1>1 DEF BaseInv, CallInv, CallHolds
  <2>3. /\ \A n \in EventsOf(task) : events'[n] = events[n] /\ events[n].id \in Ids
        /\ round \in Nat
        /\ EventsOf(journal.task)' = EventsOf(task) \cup {k}
        /\ \A x \in transcript : x.round \in Nat
    <3>1. EventsOf(journal.task)' = EventsOf(task)'
      BY <1>1, <2>1 DEF EventsOf
    <3>2. \A x \in transcript : x.round \in Nat
      BY <1>0, TypeFacts, EmptyTyped DEF Results
    <3> QED BY <1>0, <1>1, <3>1, <3>2, TypeFacts DEF EventsOf, EventRecords
  <2>4. OnDisk' = l
    BY <1>1 DEF OnDisk
  <2>5. \A n \in EventsOf(task) :
          /\ Placed(n, round, l)
          /\ Answer(n, transcript) \/ (events[n].round = round + 1 /\ KnownTo(l, n))
    BY <1>3, <2>1 DEF DiskHolds, FoundInv
  <2>6. journal.status = "in_flight" =>
          /\ \A x \in transcript : x.round <= round
          /\ Receipted(l, transcript)
          /\ \A x \in transcript : TrueResult(x, task, transcript)
          /\ \A j \in Ids : TrueRecord(l, j, task, round)
    BY <1>3, <2>1 DEF DiskHolds, DiskInv
  <2> HIDE DEF l
  <2>7. FoundInv'
    <3> SUFFICES ASSUME NEW n \in EventsOf(task) \cup {k}
                 PROVE  /\ Placed(n, journal.round, OnDisk)'
                        /\ Answer(n, journal.transcript)' \/ (events'[n].round = journal'.round + 1 /\ KnownTo(OnDisk, n)')
      BY <2>3 DEF FoundInv
    <3>1. CASE n = k
      <4>1. KnownTo(OnDisk, n)'
        BY <1>1, <2>1, <2>2, <2>4, <3>1 DEF KnownTo, Mine
      <4>2. events'[n].round = journal'.round + 1
        BY <1>1, <2>1, <3>1
      <4> QED BY <4>1, <4>2 DEF Placed
    <3>2. CASE n \in EventsOf(task)
      <4>1. events'[n] = events[n]
        BY <2>3, <3>2
      <4>2. KnownTo(l, n) => KnownTo(OnDisk, n)'
        BY <2>4, <4>1 DEF KnownTo
      <4>3. Answer(n, transcript) => Answer(n, journal.transcript)'
        BY <1>1, <2>1, <4>1 DEF Answer, AnsweredIn, Recycled
      <4>4. journal'.round = round
        BY <1>1, <2>1
      <4> QED BY <2>5, <3>2, <4>1, <4>2, <4>3, <4>4 DEF Placed
    <3> QED BY <3>1, <3>2
  <2>8. ASSUME journal.status = "in_flight" PROVE DiskInv'
    <3>1. ASSUME NEW x \in transcript PROVE TrueResult(x, journal.task, journal.transcript)'
      <4>1. TrueResult(x, task, transcript) /\ x.round # round + 1
        BY <2>3, <2>6, <2>8
      <4>2. ASSUME x.receipt > 0
            PROVE  /\ x.receipt \in EventsOf(journal.task)'
                   /\ events'[x.receipt].id = x.id
                   /\ \/ events'[x.receipt].round = x.round /\ events'[x.receipt].sig = x.sig
                      \/ \E y \in journal.transcript' : y.id = x.id /\ y.round < x.round /\ y.receipt = x.receipt
        <5>1. journal.transcript' = transcript
          BY <1>1, <2>1
        <5> QED BY <2>3, <4>1, <4>2, <5>1 DEF TrueResult
      <4>3. ASSUME x.receipt = NotDispatched, NEW n \in EventsOf(task) \cup {k},
                   events'[n].id = x.id, events'[n].round = x.round
            PROVE  Recycled(journal.transcript, n)'
        <5>1. n # k
          BY <1>1, <4>1, <4>3
        <5>2. n \in EventsOf(task) /\ events'[n] = events[n]
          BY <2>3, <4>3, <5>1
        <5>3. Recycled(transcript, n)
          BY <4>1, <4>3, <5>2 DEF TrueResult
        <5> QED BY <1>1, <2>1, <5>2, <5>3 DEF Recycled
      <4> QED BY <2>3, <4>2, <4>3 DEF TrueResult
    <3>2. ASSUME NEW j \in Ids PROVE TrueRecord(OnDisk, j, journal.task, journal.round)'
      <4>1. TrueRecord(l, j, task, round)
        BY <2>6, <2>8
      <4>2. l[j].receipt > 0 => l[j].receipt \in EventsOf(task)
        BY <4>1 DEF TrueRecord
      <4>3. l[j].receipt > 0 =>
              /\ l[j].status = "committed"
              /\ l[j].receipt \in EventsOf(journal.task)'
              /\ events'[l[j].receipt] = [task |-> task, round |-> l[j].round, id |-> j, sig |-> l[j].sig]
        BY <2>3, <4>1, <4>2 DEF TrueRecord
      <4>4. l[j].receipt = NotDispatched => l[j].round <= round
        BY <4>1 DEF TrueRecord
      <4>5. journal'.task = task /\ journal'.round = round
        BY <1>1, <2>1
      <4> QED BY <2>4, <4>3, <4>4, <4>5 DEF TrueRecord
    <3>3. Receipted(OnDisk, journal.transcript)'
      BY <1>1, <2>1, <2>4, <2>6, <2>8 DEF Receipted, Answered
    <3>4. \A x \in journal'.transcript : x.round <= journal'.round
      BY <1>1, <2>1, <2>6, <2>8
    <3>5. journal'.transcript = transcript
      BY <1>1, <2>1
    <3> QED BY <3>1, <3>2, <3>3, <3>4, <3>5 DEF DiskInv
  <2>9. journal.status # "in_flight" => DiskInv'
    BY <1>1 DEF DiskInv
  <2> QED BY <2>7, <2>8, <2>9 DEF DiskHolds
<1> QED BY <1>2, <1>3 DEF DiskHolds, FoundInv, DiskInv

\* A gap that opens, or none: the log of a journal is followed no more than before.
LEMMA GapNotClosed ==
  ASSUME BaseInv, UNCHANGED gap \/ GapOpens, journal' = journal
  PROVE  /\ Followed' => Followed /\ UNCHANGED gap
         /\ task \in Tasks /\ gap'[task] = "none" => UNCHANGED gap
<1>1. GapOpens /\ journal.task \in Tasks => gap'[journal.task] # "none"
  BY GapOpensDoes DEF BaseInv
<1>2. GapOpens /\ task \in Tasks => gap'[task] # "none"
  BY GapOpensDoes DEF BaseInv
<1> QED BY <1>1, <1>2 DEF Followed

\* The append of a call's entry, or its failure.
LEMMA CallAppended ==
  ASSUME BaseInv, DiskHolds, LogInv, SyncInv, pc \in Working, NEW i \in Ids, calls[i].pc # "none",
         NEW op \in {"admit", "start", "result"}, NEW receipt \in Receipts,
         op = "result" => calls[i].pc = "record" /\ receipt = calls[i].receipt,
         wal' \in {wal, Appended(TornLine), Appended(Entry(op, i, receipt))},
         UNCHANGED <<journal, events, fresh>>, UNCHANGED gap \/ GapOpens
  PROVE  /\ DiskHolds'
         /\ Followed => OnDisk' = OnDisk \/ OnDisk' = Apply(OnDisk, Entry(op, i, receipt))
         /\ Followed /\ wal' = Appended(Entry(op, i, receipt)) /\ ~Torn =>
              OnDisk' = Apply(OnDisk, Entry(op, i, receipt))
<1> DEFINE e == Entry(op, i, receipt)
<1>1. e \in Entries
  BY AtCall, EntryIs DEF BaseInv
<1>2. Followed => /\ Fits(e)
                  /\ e.seq > journal.watermark
                  /\ \A k \in DOMAIN wal : wal[k].seq <= e.seq
  BY EntryFits
<1>3. Followed' => Followed
  BY GapNotClosed
<1>4. wal' \in {wal, Appended(TornLine), Appended(e)}
  OBVIOUS
<1>5. /\ DiskHolds'
      /\ Followed => OnDisk' = OnDisk \/ OnDisk' = Apply(OnDisk, e)
      /\ Followed /\ wal' = Appended(e) /\ ~Torn => OnDisk' = Apply(OnDisk, e)
  <2> HIDE DEF e
  <2> QED BY <1>1, <1>2, <1>3, <1>4, DiskAppended
<1> QED BY <1>5

\* What a call does to the log and the journal.
LEMMA CallWrites ==
  ASSUME BaseInv, DiskHolds, LogInv, SyncInv, NEW i \in Ids,
         Admit(i) \/ AdmitFails(i) \/ Start(i) \/ StartFails(i) \/ Record(i) \/ RecordFails(i)
  PROVE  DiskHolds'
<1>1. NoReceipt \in Receipts /\ calls[i].receipt \in Receipts
  BY TypeFacts DEF BaseInv, Receipts, NoReceipt
<1>2. /\ pc \in Working
      /\ calls[i].pc # "none"
      /\ UNCHANGED <<journal, events, fresh>>
      /\ UNCHANGED gap \/ GapOpens
  BY DEF Admit, AdmitFails, Start, StartFails, Record, RecordFails, Commit, CommitFails, Working, historyVars
<1>3. CASE Admit(i) \/ AdmitFails(i)
  <2>1. wal' \in {wal, Appended(TornLine), Appended(Entry("admit", i, NoReceipt))}
    BY <1>3 DEF Admit, AdmitFails, Commit, AppendFails
  <2> QED BY <1>1, <1>2, <2>1, CallAppended
<1>4. CASE Start(i) \/ StartFails(i)
  <2>1. wal' \in {wal, Appended(TornLine), Appended(Entry("start", i, NoReceipt))}
    BY <1>4 DEF Start, StartFails, Commit, CommitFails, AppendFails
  <2> QED BY <1>1, <1>2, <2>1, CallAppended
<1>5. CASE Record(i) \/ RecordFails(i)
  <2>1. /\ wal' \in {wal, Appended(TornLine), Appended(Entry("result", i, calls[i].receipt))}
        /\ calls[i].pc = "record"
    BY <1>5 DEF Record, RecordFails, Commit, CommitFails, AppendFails
  <2> QED BY <1>1, <1>2, <2>1, CallAppended
<1> QED BY <1>3, <1>4, <1>5

\* The entry of a call that an aborted activation left behind.
LEMMA LateEntry ==
  ASSUME TypeOK, NEW x \in late.running, LateResult(x)
  PROVE  \E e \in Entries :
           /\ e = [seq |-> late.seq + 1, op |-> "result", id |-> x.id, sig |-> x.sig, round |-> x.round,
                   receipt |-> x.receipt]
           /\ wal' = Appended(e)
<1>1. x \in Results /\ late.seq + 1 \in Nat
  BY TypeFacts
<1> DEFINE e == [seq |-> late.seq + 1, op |-> "result", id |-> x.id, sig |-> x.sig, round |-> x.round,
                 receipt |-> x.receipt]
<1>2. x.id \in Ids /\ x.sig \in Proposals /\ x.round \in Rounds /\ x.receipt \in Receipts
  BY <1>1 DEF Results
<1>3. e \in Entries
  BY <1>1, <1>2 DEF Entries
<1>4. wal' = Appended(e)
  BY DEF LateResult
<1> HIDE DEF e
<1>5. \E f \in Entries : f = e /\ wal' = Appended(f)
  BY <1>3, <1>4
<1> QED BY <1>5 DEF e

\* A call of an aborted activation returns.
LEMMA LateAppended ==
  ASSUME BaseInv, DiskHolds, LateInv, NEW x \in late.running, LateResult(x)
  PROVE  /\ DiskHolds'
         /\ \A y \in Ids : Followed' /\ y # x.id => OnDisk'[y] = OnDisk[y]
<1>0. TypeOK /\ ActivationInv
  BY DEF BaseInv
<1>1. PICK e \in Entries :
           /\ e = [seq |-> late.seq + 1, op |-> "result", id |-> x.id, sig |-> x.sig, round |-> x.round,
                   receipt |-> x.receipt]
           /\ wal' = Appended(e)
  BY <1>0, LateEntry
<1>2. e.seq = late.seq + 1 /\ e.op = "result" /\ e.id = x.id /\ e.sig = x.sig /\ e.round = x.round /\ e.receipt = x.receipt
  BY <1>1
<1>3. UNCHANGED <<journal, events, fresh>> /\ (UNCHANGED gap \/ GapOpens)
  BY DEF LateResult
<1>4. Followed' => Followed /\ UNCHANGED gap
  BY <1>3, GapNotClosed
<1>5. CASE Followed /\ pc = "off" /\ late.by = activations
  <2>1. /\ journal.watermark <= late.seq
        /\ \A k \in DOMAIN wal : wal[k].seq <= late.seq + 1
        /\ OnDisk[x.id] = [status |-> "started", sig |-> x.sig, round |-> x.round, receipt |-> NoReceipt]
        /\ x.receipt \in EventsOf(journal.task)
        /\ events[x.receipt] = [task |-> journal.task, round |-> x.round, id |-> x.id, sig |-> x.sig]
    BY <1>5 DEF LateInv
  <2>2. OnDisk[x.id].round = x.round /\ OnDisk[x.id].sig = x.sig
    BY <2>1
  <2>3. Fits(e)
    BY <1>2, <2>1, <2>2 DEF Fits
  <2>4. e.seq > journal.watermark /\ \A k \in DOMAIN wal : wal[k].seq <= e.seq
    BY <1>0, <1>2, <2>1, TypeFacts
  <2>5. DiskHolds' /\ (OnDisk' = OnDisk \/ OnDisk' = Apply(OnDisk, e))
    BY <1>1, <1>3, <1>4, <1>5, <2>3, <2>4, DiskAppended
  <2>6. \A y \in Ids : y # e.id => Apply(OnDisk, e)[y] = OnDisk[y]
    BY OnDiskTyped, ApplyIs
  <2> QED BY <1>2, <2>5, <2>6
<1>6. CASE ~(Followed /\ pc = "off" /\ late.by = activations)
  <2>1. ~Followed'
    <3>1. CASE ~Followed
      BY <1>4, <3>1
    <3>2. CASE Followed
      <4>1. GapOpens
        BY <1>6, <3>2 DEF LateResult
      <4> QED BY <1>0, <1>3, <4>1, GapOpensDoes DEF Followed
    <3> QED BY <3>1, <3>2
  <2>2. DiskHolds'
    BY <2>1 DEF DiskHolds, FoundInv, DiskInv
  <2> QED BY <2>1, <2>2
<1> QED BY <1>5, <1>6

\* Disk and history agree, at every step.
LEMMA DiskStep ==
  ASSUME BaseInv, MemoryInv, DiskHolds, LogInv, SyncInv, LateInv, Next
  PROVE  DiskHolds'
<1>0. TypeOK /\ ActivationInv /\ wal \in Seq(Lines) /\ journal.watermark \in Nat
  BY TypeFacts DEF BaseInv
<1> USE DEF diskVars, runVars, ledgerVars, historyVars
<1>1. ASSUME UNCHANGED <<journal, wal, events, fresh>>, UNCHANGED gap \/ GapOpens
      PROVE  DiskHolds'
  <2>1. OnDisk' = OnDisk /\ EventsOf(journal.task)' = EventsOf(journal.task)
    BY <1>1 DEF OnDisk, EventsOf
  <2>2. Followed' => Followed
    BY <1>1, GapNotClosed
  <2> QED BY <1>1, <2>1, <2>2, DiskKept
<1>2. CASE (\E t \in Tasks : Activate(t)) \/ CheckpointFails \/ CompleteFails \/ Finish \/ AllAdmitted \/ Abort
           \/ (\E chosen \in SUBSET Ids : \E sigs \in [chosen -> Proposals] : Propose(sigs))
           \/ (\E i \in Ids : AdmitReplay(i) \/ AnswerAgain(i) \/ AdmitRefused(i))
           \/ (\E next \in {"checkpoint", "complete"} : BatchEnds(next))
  <2>1. UNCHANGED <<journal, wal, events, fresh>> /\ (UNCHANGED gap \/ GapOpens)
    BY <1>2 DEF Activate, CheckpointFails, CompleteFails, Finish, AllAdmitted, Abort, Propose, AdmitReplay,
                AnswerAgain, AdmitRefused, BatchEnds
  <2> QED BY <1>1, <2>1
<1>3. ASSUME pc # "off", NEW read \in Gaps, BeginsAnew(read), UNCHANGED <<journal, wal, events>>,
             journal.task = task /\ read = "none" => journal.status # "in_flight" /\ wal = <<>>
      PROVE  DiskHolds'
  <2>1. /\ task \in Tasks
        /\ gap'[task] = read
        /\ \A t \in Tasks : t # task => gap'[t] = gap[t]
        /\ {n \in DOMAIN events : events[n].task = task /\ n > fresh'[task]} = {}
        /\ \A t \in Tasks : t # task => EventsOf(t)' = EventsOf(t)
    BY <1>0, <1>3, AtWork, BeginsAnewDoes, AnewEmpties
  <2>2. CASE journal.task # task
    <3>1. OnDisk' = OnDisk
      BY <1>3 DEF OnDisk
    <3>2. Followed' => Followed /\ EventsOf(journal.task)' = EventsOf(journal.task)
      <4> SUFFICES ASSUME Followed' PROVE Followed /\ EventsOf(journal.task)' = EventsOf(journal.task)
        OBVIOUS
      <4>1. journal.task \in Tasks /\ gap'[journal.task] = "none"
        BY <1>3 DEF Followed
      <4>2. PICK t \in Tasks : t = journal.task
        BY <4>1
      <4>3. gap[t] = "none" /\ EventsOf(t)' = EventsOf(t)
        BY <2>1, <2>2, <4>1, <4>2
      <4>4. EventsOf(journal.task)' = EventsOf(t)'
        BY <1>3, <4>2 DEF EventsOf
      <4> QED BY <4>2, <4>3, <4>4 DEF Followed
    <3> QED BY <1>3, <3>1, <3>2, DiskKept
  <2>3. CASE journal.task = task
    <3>1. CASE read # "none"
      BY <1>3, <2>1, <2>3, <3>1 DEF DiskHolds, FoundInv, DiskInv, Followed
    <3>2. CASE read = "none"
      <4>1. EventsOf(journal.task)' = {}
        BY <1>3, <2>1, <2>3 DEF EventsOf
      <4> QED BY <1>3, <2>3, <3>2, <4>1 DEF DiskHolds, FoundInv, DiskInv
    <3> QED BY <3>1, <3>2
  <2> QED BY <2>2, <2>3
<1>4. CASE LoadNothing
  <2> DEFINE read == IF wal = <<>> THEN "none" ELSE "open"
  <2>1. /\ pc # "off" /\ read \in Gaps /\ BeginsAnew(read) /\ UNCHANGED <<journal, wal, events>>
        /\ journal.task = task => journal.status # "in_flight"
        /\ read = "none" => wal = <<>>
    BY <1>4 DEF LoadNothing, Gaps, Resumable
  <2> HIDE DEF read
  <2> QED BY <1>3, <2>1
<1>5. CASE RestoreFails
  <2>1. pc # "off" /\ "read" \in Gaps /\ BeginsAnew("read") /\ UNCHANGED <<journal, wal, events>>
    BY <1>5 DEF RestoreFails, Gaps
  <2> QED BY <1>3, <2>1
<1>6. ASSUME NEW found \in SUBSET native, LoadJournal(found) PROVE DiskHolds'
  <2>1. /\ pc = "load"
        /\ gap' = [gap EXCEPT ![task] = IF @ = "open" THEN "read" ELSE @]
        /\ UNCHANGED <<journal, wal, events, fresh>>
    BY <1>6, LoadJournalDoes
  <2>2. /\ task \in Tasks /\ "read" \in Gaps
        /\ gap'[task] = IF gap[task] = "open" THEN "read" ELSE gap[task]
        /\ \A t \in Tasks : t # task => gap'[t] = gap[t]
    BY <1>0, <2>1, AtWork, GapIs DEF Gaps
  <2>3. Followed' => Followed
    BY <2>1, <2>2 DEF Followed
  <2>4. OnDisk' = OnDisk /\ EventsOf(journal.task)' = EventsOf(journal.task)
    BY <2>1 DEF OnDisk, EventsOf
  <2> QED BY <2>1, <2>3, <2>4, DiskKept
<1>7. CASE Restore \/ Checkpoint \/ Complete
  <2>1. \E status \in {"in_flight", "completed"} : Written(status)
    BY <1>7 DEF Restore, Checkpoint, Complete
  <2>2. Running /\ pc # "batch" /\ UNCHANGED <<wal, events, fresh, gap>>
    BY <1>7 DEF Restore, Checkpoint, Complete, Running
  <2> QED BY <2>1, <2>2, DiskWritten
<1>8. CASE RestoreTruncate \/ CheckpointTruncate \/ CompleteTruncate
  <2>1. pc \in Cuts /\ Truncate
    BY <1>8 DEF RestoreTruncate, CheckpointTruncate, CompleteTruncate, Cuts
  <2> QED BY <2>1, DiskTruncated
<1>9. CASE \E i \in Ids : Admit(i) \/ AdmitFails(i) \/ Start(i) \/ StartFails(i) \/ Record(i) \/ RecordFails(i)
  BY <1>9, CallWrites
<1>10. CASE \E i \in Ids : Dispatch(i)
  BY <1>10, DiskDispatch
<1>11. CASE \E x \in late.running : LateResult(x)
  BY <1>11, LateAppended
<1>12. CASE Crash
  <2>1. UNCHANGED <<journal, events, fresh, gap>> /\ wal' \in {wal, Appended(TornLine)}
    BY <1>12 DEF Crash
  <2>2. OnDisk' = OnDisk
    <3>1. TornLine \in Lines /\ TornLine.seq <= journal.watermark
      BY <1>0 DEF Lines, TornLine
    <3>2. Replayed(journal.ledger, Appended(TornLine), journal.watermark) = OnDisk
      BY <1>0, <3>1, LogAfter DEF OnDisk
    <3> QED BY <2>1, <3>2 DEF OnDisk
  <2>3. EventsOf(journal.task)' = EventsOf(journal.task) /\ (Followed' => Followed)
    BY <2>1 DEF EventsOf, Followed
  <2> QED BY <2>1, <2>2, <2>3, DiskKept
<1> QED BY <1>2, <1>4, <1>5, <1>6, <1>7, <1>8, <1>9, <1>10, <1>11, <1>12, NextCases

-----------------------------------------------------------------------------
(* What the log says of the memory that writes it.                         *)

\* An entry of a failed append stays one while the records are what they are.
LEMMA StaleKept ==
  ASSUME BaseInv, NEW k \in DOMAIN wal, Stale(wal[k]), task' = task,
         \A n \in EventsOf(task) : n \in EventsOf(task)' /\ events'[n] = events[n],
         \A i \in Ids : /\ ledger'[i].status = ledger[i].status
                        /\ ledger'[i].sig = ledger[i].sig
                        /\ ledger'[i].round = ledger[i].round
  PROVE  \A e \in Lines : e = wal[k] => Stale(e)'
<1> SUFFICES ASSUME NEW e \in Lines, e = wal[k] PROVE Stale(e)'
  OBVIOUS
<1>1. Stale(e)
  OBVIOUS
<1>2. e \in Entries
  BY <1>1 DEF Stale, Lines, TornLine
<1>3. e.id \in Ids
  BY <1>2 DEF Entries
<1> QED BY <1>1, <1>3 DEF Stale

\* The log as it is, beside the same records.
LEMMA LogKept ==
  ASSUME BaseInv, LogInv, Running' /\ gap'[task'] = "none" => Running /\ gap[task] = "none",
         UNCHANGED <<wal, task, walSeq, fresh>>,
         \A n \in DOMAIN events : n \in DOMAIN events' /\ events'[n] = events[n],
         \A i \in Ids : /\ ledger'[i].status = ledger[i].status
                        /\ ledger'[i].sig = ledger[i].sig
                        /\ ledger'[i].round = ledger[i].round
  PROVE  LogInv'
<1> SUFFICES ASSUME Running', gap'[task'] = "none", NEW k \in DOMAIN wal
             PROVE  /\ wal'[k].seq <= walSeq' + 1
                    /\ wal'[k].seq > walSeq' => Stale(wal[k])'
  BY DEF LogInv
<1>1. /\ wal[k].seq <= walSeq + 1
      /\ wal[k].seq > walSeq => Stale(wal[k])
  BY DEF LogInv
<1>2. \A n \in EventsOf(task) : n \in EventsOf(task)' /\ events'[n] = events[n]
  BY DEF EventsOf
<1>3. PICK e \in Lines : e = wal[k]
  BY TypeFacts DEF BaseInv
<1>4. Stale(wal[k]) => Stale(e)'
  BY <1>2, <1>3, StaleKept
<1>5. Stale(e)' => Stale(wal[k])'
  BY <1>3 DEF Stale
<1> QED BY <1>1, <1>4, <1>5

\* An entry is appended and the sequence goes on with it.
LEMMA LogCommit ==
  ASSUME BaseInv, LogInv, Running, NEW i \in Ids, calls[i].pc # "none",
         NEW op \in {"admit", "start", "result"}, NEW receipt \in Receipts, NEW l,
         Commit(op, i, receipt, l), task' = task, journal' = journal
  PROVE  LogInv'
<1> DEFINE e == Entry(op, i, receipt)
<1>0. TypeOK /\ ActivationInv /\ task \in Tasks
  BY AtWork DEF BaseInv, Running
<1>1. e \in Lines /\ e.seq = walSeq + 1 /\ wal \in Seq(Lines) /\ walSeq \in Nat
  BY <1>0, AtCall, EntryIs, TypeFacts
<1>2. wal' = Appended(e) /\ walSeq' = walSeq + 1 /\ (UNCHANGED gap \/ GapOpens)
  BY DEF Commit
<1> HIDE DEF e
<1> SUFFICES ASSUME gap'[task] = "none", NEW k \in DOMAIN wal'
             PROVE  wal'[k].seq <= walSeq'
  <2>1. \A k \in DOMAIN wal' : wal'[k].seq \in Int
    <3>1. wal' \in Seq(Lines)
      BY <1>1, <1>2, AppendedIs
    <3>2. \A k \in DOMAIN wal' : wal'[k] \in Lines
      BY <3>1
    <3> QED BY <3>2 DEF Lines, Entries, TornLine
  <2>2. walSeq' \in Nat
    BY <1>1, <1>2
  <2> QED BY <2>1, <2>2 DEF LogInv
<1>3. UNCHANGED gap
  BY <1>0, <1>2, GapNotClosed
<1>4. (k \in DOMAIN wal /\ wal'[k] = wal[k]) \/ wal'[k] = e
  BY <1>1, <1>2, AppendedIs
<1>5. CASE wal'[k] = e
  BY <1>1, <1>2, <1>5
<1>6. CASE k \in DOMAIN wal /\ wal'[k] = wal[k]
  BY <1>2, <1>3, <1>6 DEF LogInv
<1> QED BY <1>4, <1>5, <1>6

\* An append fails, and its entry may be in the log.
LEMMA LogFails ==
  ASSUME BaseInv, LogInv, Running, NEW i \in Ids,
         StartFails(i) \/ RecordFails(i)
  PROVE  LogInv'
<1>0. TypeOK /\ wal \in Seq(Lines) /\ walSeq \in Nat
  BY TypeFacts DEF BaseInv
<1>1. NoReceipt \in Receipts /\ calls[i].receipt \in Receipts
  BY <1>0, TypeFacts DEF Receipts, NoReceipt
<1>2. UNCHANGED <<pc, task, ledger, walSeq, events, fresh, gap>>
  BY DEF StartFails, RecordFails, CommitFails, runVars, ledgerVars, historyVars
<1>3. ASSUME NEW e \in Lines, wal' \in {wal, Appended(TornLine), Appended(e)}, e.seq = walSeq + 1, Stale(e)
      PROVE  LogInv'
  <2> SUFFICES ASSUME gap[task] = "none", NEW k \in DOMAIN wal'
               PROVE  /\ wal'[k].seq <= walSeq + 1
                      /\ wal'[k].seq > walSeq => Stale(wal'[k])
    BY <1>2 DEF LogInv, Stale, EventsOf
  <2>1. TornLine \in Lines /\ TornLine.seq = 0
    BY DEF Lines, TornLine
  <2>2. wal'[k] = e \/ wal'[k] = TornLine \/ (k \in DOMAIN wal /\ wal'[k] = wal[k])
    BY <1>0, <1>3, <2>1, AppendedIs
  <2> QED BY <1>0, <1>3, <2>1, <2>2 DEF LogInv
<1>4. CASE StartFails(i)
  <2> DEFINE e == Entry("start", i, NoReceipt)
  <2>1. wal' \in {wal, Appended(TornLine), Appended(e)} /\ calls[i].pc = "admitted" /\ pc = "batch"
    BY <1>4 DEF StartFails, CommitFails, AppendFails
  <2>2. calls[i].pc # "none"
    BY <2>1
  <2>3. e \in Lines /\ e.seq = walSeq + 1 /\ e.op = "start" /\ e.id = i
    BY <1>0, <1>1, <2>2, AtCall, EntryIs
  <2>4. Mine(i, "admitted")
    BY <2>1 DEF BaseInv, CallInv, CallHolds
  <2> HIDE DEF e
  <2>5. Stale(e)
    BY <2>3, <2>4 DEF Stale, Mine, Active
  <2> QED BY <1>3, <2>1, <2>3, <2>5
<1>5. CASE RecordFails(i)
  <2> DEFINE e == Entry("result", i, calls[i].receipt)
  <2>1. wal' \in {wal, Appended(TornLine), Appended(e)} /\ calls[i].pc = "record" /\ pc = "batch"
    BY <1>5 DEF RecordFails, CommitFails, AppendFails
  <2>2. calls[i].pc # "none"
    BY <2>1
  <2>3. e \in Lines /\ e.seq = walSeq + 1 /\ e.op = "result" /\ e.id = i /\ e.receipt = calls[i].receipt
    BY <1>0, <1>1, <2>2, AtCall, EntryIs
  <2>4. /\ Mine(i, "started")
        /\ calls[i].receipt \in EventsOf(task)
        /\ events[calls[i].receipt] = [task |-> task, round |-> round + 1, id |-> i, sig |-> calls[i].sig]
    BY <2>1 DEF BaseInv, CallInv, CallHolds
  <2>5. ledger[i].round = round + 1 /\ ledger[i].sig = calls[i].sig /\ ledger[i].status = "started"
    BY <2>4 DEF Mine
  <2> HIDE DEF e
  <2>6. Stale(e)
    BY <2>3, <2>4, <2>5 DEF Stale, Active
  <2> QED BY <1>3, <2>1, <2>3, <2>6
<1> QED BY <1>4, <1>5

\* The log and its writer agree, at every step.
LEMMA LogStep ==
  ASSUME BaseInv, LogInv, Next
  PROVE  LogInv'
<1>0. TypeOK /\ ActivationInv /\ ledger \in Ledgers /\ wal \in Seq(Lines)
  BY TypeFacts DEF BaseInv
<1> USE DEF diskVars, runVars, ledgerVars, historyVars
<1>1. ASSUME pc' \in {"off", "load"} PROVE LogInv'
  BY <1>1 DEF LogInv, Running
<1>2. CASE (\E t \in Tasks : Activate(t)) \/ CompleteTruncate \/ CompleteFails \/ Abort \/ Crash
           \/ \E i \in Ids : AdmitRefused(i) \/ AdmitFails(i)
  BY <1>1, <1>2 DEF Activate, CompleteTruncate, CompleteFails, Abort, Crash, AdmitRefused, AdmitFails, Ended, Goto
<1>3. ASSUME wal' = <<>> PROVE LogInv'
  BY <1>3 DEF LogInv
<1>4. CASE RestoreTruncate \/ CheckpointTruncate
  BY <1>3, <1>4 DEF RestoreTruncate, CheckpointTruncate, Truncate
<1>5. CASE LoadNothing
  <2> DEFINE read == IF wal = <<>> THEN "none" ELSE "open"
  <2>1. pc = "load" /\ read \in Gaps /\ BeginsAnew(read) /\ wal' = wal /\ task' = task
    BY <1>5 DEF LoadNothing, Gaps
  <2>2. gap'[task] = read
    <3> HIDE DEF read
    <3> QED BY <1>0, <2>1, AtWork, BeginsAnewDoes
  <2>3. gap'[task] = "none" => wal' = <<>>
    BY <2>1, <2>2
  <2> QED BY <2>1, <2>3 DEF LogInv
<1>6. ASSUME NEW found \in SUBSET native, LoadJournal(found) PROVE LogInv'
  <2>1. walSeq' = HighestSeq(wal, journal.watermark) /\ wal' = wal /\ journal.watermark \in Nat
    BY <1>0, <1>6, LoadJournalDoes, TypeFacts
  <2>2. walSeq' \in Nat /\ \A k \in DOMAIN wal : wal[k].seq <= walSeq'
    BY <1>0, <2>1, HighestIs
  <2>3. \A k \in DOMAIN wal : wal[k].seq \in Int
    <3>1. \A k \in DOMAIN wal : wal[k] \in Lines
      BY <1>0
    <3> QED BY <3>1 DEF Lines, Entries, TornLine
  <2> HIDE <1>6
  <2>4. \A k \in DOMAIN wal' : wal'[k].seq <= walSeq' + 1 /\ ~(wal'[k].seq > walSeq')
    BY <2>1, <2>2, <2>3
  <2> QED BY <2>4 DEF LogInv
<1>7. CASE RestoreFails
  <2>1. pc # "off" /\ BeginsAnew("read") /\ task' = task /\ "read" \in Gaps
    BY <1>7 DEF RestoreFails, Gaps
  <2>2. gap'[task] = "read"
    BY <1>0, <2>1, AtWork, BeginsAnewDoes
  <2> QED BY <2>1, <2>2 DEF LogInv
<1>8. ASSUME Running, UNCHANGED <<wal, task, walSeq, events, fresh>>,
             UNCHANGED gap \/ (GapOpens /\ journal' = journal),
             ledger' = ledger \/ ledger' = Released(ledger, transcript)
      PROVE  LogInv'
  <2>1. \A i \in Ids : /\ ledger'[i].status = ledger[i].status
                       /\ ledger'[i].sig = ledger[i].sig
                       /\ ledger'[i].round = ledger[i].round
    BY <1>0, <1>8, ReleasedIs
  <2>2. gap'[task'] = "none" => gap[task] = "none"
    <3>1. task \in Tasks
      BY <1>0, <1>8, AtWork DEF Running
    <3> QED BY <1>0, <1>8, <3>1, GapOpensDoes
  <2> QED BY <1>8, <2>1, <2>2, LogKept
<1>9. CASE Restore \/ Checkpoint \/ Complete \/ CheckpointFails \/ Finish \/ AllAdmitted
           \/ (\E chosen \in SUBSET Ids : \E sigs \in [chosen -> Proposals] : Propose(sigs))
           \/ (\E i \in Ids : AdmitReplay(i) \/ AnswerAgain(i))
           \/ (\E next \in {"checkpoint", "complete"} : BatchEnds(next))
  <2>1. /\ Running
        /\ UNCHANGED <<wal, task, walSeq, events, fresh>>
        /\ UNCHANGED gap \/ (GapOpens /\ journal' = journal)
        /\ ledger' = ledger \/ ledger' = Released(ledger, transcript)
    BY <1>9 DEF Restore, Checkpoint, Complete, CheckpointFails, Finish, AllAdmitted, Propose, AdmitReplay,
                AnswerAgain, BatchEnds, Written, Running
  <2> QED BY <1>8, <2>1
<1>10. ASSUME NEW i \in Ids, Admit(i) \/ Start(i) \/ Record(i) PROVE LogInv'
  <2>1. /\ Running /\ calls[i].pc # "none" /\ task' = task /\ journal' = journal
        /\ \E op \in {"admit", "start", "result"}, receipt \in {NoReceipt, calls[i].receipt} :
              \E l : Commit(op, i, receipt, l)
    BY <1>10 DEF Admit, Start, Record, Running
  <2>2. NoReceipt \in Receipts /\ calls[i].receipt \in Receipts
    BY <1>0, TypeFacts DEF Receipts, NoReceipt
  <2> QED BY <2>1, <2>2, LogCommit
<1>11. ASSUME NEW i \in Ids, StartFails(i) \/ RecordFails(i) PROVE LogInv'
  <2>1. Running
    BY <1>11 DEF StartFails, RecordFails, Running
  <2> QED BY <1>11, <2>1, LogFails
<1>12. ASSUME NEW i \in Ids, Dispatch(i) PROVE LogInv'
  <2>1. /\ Running
        /\ UNCHANGED <<wal, task, walSeq, fresh, ledger, gap>>
        /\ \A n \in DOMAIN events : n \in DOMAIN events' /\ events'[n] = events[n]
    BY <1>12, DispatchDoes DEF Running
  <2> QED BY <2>1, LogKept
<1>13. ASSUME NEW x \in late.running, LateResult(x) PROVE LogInv'
  <2>1. CASE pc = "off"
    BY <1>1, <1>13, <2>1 DEF LateResult
  <2>2. CASE pc # "off"
    <3>1. late.by < activations /\ late.by \in Int /\ activations \in Int
      BY <1>0, <2>2, TypeFacts, TypeWas DEF ActivationInv
    <3>2. GapOpens /\ task' = task /\ task \in Tasks
      BY <1>0, <1>13, <2>2, <3>1, AtWork DEF LateResult
    <3>3. gap'[task'] # "none"
      BY <1>0, <3>2, GapOpensDoes
    <3> QED BY <3>3 DEF LogInv
  <2> QED BY <2>1, <2>2
<1> QED BY <1>2, <1>4, <1>5, <1>6, <1>7, <1>9, <1>10, <1>11, <1>12, <1>13, NextCases

-----------------------------------------------------------------------------
(* What the disk says of the memory.                                       *)

\* A step of a call: its record on disk is that of memory, or is not asked any more.
LEMMA SyncCall ==
  ASSUME BaseInv, SyncInv, pc \in {"admit", "batch"}, pc' = pc,
         UNCHANGED <<task, round, transcript, journal>>,
         walSeq' \in Nat, walSeq <= walSeq', UNCHANGED gap \/ GapOpens,
         Followed /\ UNCHANGED gap => \A j \in Ids :
           \/ OnDisk'[j] = ledger'[j]
           \/ ledger'[j].status \in Active /\ calls'[j].pc \notin {"admitted", "execute", "record"}
  PROVE  SyncInv'
<1>0. /\ task \in Tasks /\ journal.watermark \in Nat /\ walSeq \in Nat
      /\ pc \in Working /\ pc # "checkpoint" /\ pc # "completeCut" /\ Running
  BY AtWork, TypeFacts DEF BaseInv, Working, Running
<1>1. /\ Followed' => Followed /\ UNCHANGED gap
      /\ gap'[task] = "none" => UNCHANGED gap
  BY <1>0, GapNotClosed
<1>2. gap[task] = "none" => journal.task = task /\ Followed /\ journal.status = "in_flight"
  BY <1>0 DEF SyncInv, Followed
<1>3. gap[task] = "none" =>
        /\ journal.round = round
        /\ journal.transcript = transcript
        /\ journal.watermark <= walSeq
  BY <1>0 DEF SyncInv
<1>4. Followed => journal.task = task
  BY <1>0 DEF SyncInv
<1>5. gap'[task'] = "none" =>
        /\ journal'.round = round'
        /\ journal'.transcript = transcript'
        /\ journal'.watermark <= walSeq'
        /\ \A j \in Ids :
             \/ OnDisk'[j] = ledger'[j]
             \/ ledger'[j].status \in Active /\ calls'[j].pc \notin {"admitted", "execute", "record"}
  BY <1>0, <1>1, <1>2, <1>3
<1>6. Followed' => journal'.task = task'
  BY <1>1, <1>4
<1>7. gap'[task'] = "none" => journal'.task = task' /\ journal'.status = "in_flight"
  BY <1>1, <1>2
<1> QED BY <1>5, <1>6, <1>7 DEF SyncInv

\* A transition of the ledger and its entry do the same.
LEMMA SyncCommit ==
  ASSUME BaseInv, DiskHolds, LogInv, SyncInv, pc \in {"admit", "batch"}, pc' = pc, NEW i \in Ids,
         calls[i].pc # "none", NEW op \in {"admit", "start", "result"}, NEW receipt \in Receipts,
         op = "result" => calls[i].pc = "record" /\ receipt = calls[i].receipt,
         Commit(op, i, receipt, Apply(ledger, Entry(op, i, receipt))),
         ledger[i].status \in Active => calls[i].pc \in {"admitted", "execute", "record"},
         \A j \in Ids : j # i => calls'[j] = calls[j],
         UNCHANGED <<task, round, transcript, journal, events, fresh>>
  PROVE  SyncInv'
<1> DEFINE e == Entry(op, i, receipt)
           l == Apply(ledger, e)
<1>0. TypeOK /\ ledger \in Ledgers /\ walSeq \in Nat /\ OnDisk \in Ledgers
  BY TypeFacts, OnDiskTyped DEF BaseInv
<1>1. e \in Entries /\ e.id = i
  BY <1>0, AtCall, EntryIs
<1>2. /\ wal' = Appended(e)
      /\ walSeq' = walSeq + 1
      /\ ledger' = l
      /\ UNCHANGED gap \/ GapOpens
      /\ Torn => GapOpens
  BY DEF Commit
<1>3. pc \in Working
  BY DEF Working
<1>4. Followed /\ ~Torn => OnDisk' = Apply(OnDisk, e)
  BY <1>2, <1>3, CallAppended
<1> HIDE DEF e
<1>5. /\ \A j \in Ids : j # i => l[j] = ledger[j]
      /\ l[i] = AppliedRecord(ledger, e)
      /\ \A j \in Ids : j # i => Apply(OnDisk, e)[j] = OnDisk[j]
      /\ Apply(OnDisk, e)[i] = AppliedRecord(OnDisk, e)
  BY <1>0, <1>1, ApplyIs
<1> HIDE DEF l
<1>6. Followed /\ UNCHANGED gap => ~Torn
  <2>1. GapOpens => ~Followed'
    BY <1>0, GapOpensDoes DEF Followed
  <2>2. Followed /\ UNCHANGED gap => Followed'
    BY DEF Followed
  <2> QED BY <1>2, <2>1, <2>2
<1>7. ASSUME Followed, UNCHANGED gap, NEW j \in Ids
      PROVE  \/ OnDisk'[j] = ledger'[j]
             \/ ledger'[j].status \in Active /\ calls'[j].pc \notin {"admitted", "execute", "record"}
  <2>1. \A k \in Ids : \/ OnDisk[k] = ledger[k]
                       \/ /\ ledger[k].status \in Active
                          /\ calls[k].pc \notin {"admitted", "execute", "record"}
    BY <1>3, <1>7, AtWorkFollowed
  <2>2. OnDisk' = Apply(OnDisk, e)
    BY <1>4, <1>6, <1>7
  <2>3. CASE j # i
    BY <1>2, <1>5, <2>1, <2>2, <2>3
  <2>4. CASE j = i
    <3>1. OnDisk[i] = ledger[i]
      BY <2>1
    <3>2. AppliedRecord(OnDisk, e) = AppliedRecord(ledger, e)
      BY <1>1, <3>1 DEF AppliedRecord, Admissible, Reusable
    <3> QED BY <1>2, <1>5, <2>2, <2>4, <3>2
  <2> QED BY <2>3, <2>4
<1>8. walSeq' \in Nat /\ walSeq <= walSeq'
  BY <1>0, <1>2
<1> QED BY <1>2, <1>7, <1>8, SyncCall

\* A step of a call keeps the disk and memory together.
LEMMA SyncCalls ==
  ASSUME BaseInv, DiskHolds, LogInv, SyncInv, NEW i \in Ids,
         \/ Admit(i) \/ AdmitReplay(i) \/ AnswerAgain(i) \/ Start(i) \/ StartFails(i) \/ Dispatch(i)
         \/ Record(i) \/ RecordFails(i)
  PROVE  SyncInv'
<1>0. TypeOK /\ walSeq \in Nat /\ ledger \in Ledgers
  BY TypeFacts DEF BaseInv
<1>1. /\ NoReceipt \in Receipts /\ calls[i].receipt \in Receipts /\ Errored \in Receipts
      /\ {"admitted", "execute", "record", "done"} \subseteq CallPcs
  BY <1>0, TypeFacts DEF Receipts, NoReceipt, CallPcs, Errored
<1>2. /\ calls[i].pc # "none"
      /\ pc \in {"admit", "batch"} /\ pc \in Working /\ pc' = pc
      /\ UNCHANGED <<task, round, transcript, journal>>
  BY DEF Admit, AdmitReplay, AnswerAgain, Start, StartFails, Dispatch, Record, RecordFails, CommitFails, Working,
         runVars, diskVars
<1>3. round + 1 \in Rounds /\ calls[i].sig \in Proposals
  BY <1>2, AtCall
<1>4. CASE Admit(i)
  <2> DEFINE e == Entry("admit", i, NoReceipt)
  <2>1. e.op = "admit" /\ e.id = i /\ e.sig = calls[i].sig /\ e.round = round + 1
    BY <1>0, <1>1, <1>2, AtCall, EntryIs
  <2>2. Apply(ledger, e) = AfterAdmit(ledger, i, calls[i].sig, round + 1)
    BY <2>1 DEF Apply
  <2>3. Commit("admit", i, NoReceipt, Apply(ledger, e))
    BY <1>4, <2>2 DEF Admit
  <2>4. \A j \in Ids : j # i => calls'[j] = calls[j]
    BY <1>0, <1>1, <1>4, CallToIs DEF Admit
  <2>5. ledger[i].status \notin Active
    BY <1>4 DEF Admit, Admissible, Reusable, Active
  <2>6. UNCHANGED <<events, fresh>>
    BY <1>4 DEF Admit
  <2> QED BY <1>1, <1>2, <2>3, <2>4, <2>5, <2>6, SyncCommit
<1>5. CASE Start(i)
  <2> DEFINE e == Entry("start", i, NoReceipt)
  <2>1. e.op = "start" /\ e.id = i
    BY <1>0, <1>1, <1>2, AtCall, EntryIs
  <2>2. Apply(ledger, e) = AfterStart(ledger, i)
    BY <2>1 DEF Apply
  <2>3. Commit("start", i, NoReceipt, Apply(ledger, e)) /\ calls[i].pc = "admitted"
    BY <1>5, <2>2 DEF Start
  <2>4. \A j \in Ids : j # i => calls'[j] = calls[j]
    BY <1>0, <1>1, <1>5, CallToIs DEF Start
  <2>5. UNCHANGED <<events, fresh>>
    BY <1>5 DEF Start
  <2> QED BY <1>1, <1>2, <2>3, <2>4, <2>5, SyncCommit
<1>6. CASE Record(i)
  <2> DEFINE e == Entry("result", i, calls[i].receipt)
  <2>1. e.op = "result" /\ e.id = i /\ e.receipt = calls[i].receipt
    BY <1>0, <1>1, <1>2, AtCall, EntryIs
  <2>2. Apply(ledger, e) = AfterResult(ledger, i, calls[i].receipt)
    BY <2>1 DEF Apply
  <2>3. Commit("result", i, calls[i].receipt, Apply(ledger, e)) /\ calls[i].pc = "record"
    BY <1>6, <2>2 DEF Record
  <2>4. \A j \in Ids : j # i => calls'[j] = calls[j]
    BY <1>0, <1>1, <1>6, CallToIs DEF Record
  <2>5. UNCHANGED <<events, fresh>>
    BY <1>6 DEF Record
  <2> QED BY <1>1, <1>2, <2>3, <2>4, <2>5, SyncCommit
<1>7. Followed => \A j \in Ids : \/ OnDisk[j] = ledger[j]
                                 \/ /\ ledger[j].status \in Active
                                    /\ calls[j].pc \notin {"admitted", "execute", "record"}
  BY <1>2, AtWorkFollowed
<1>8. CASE AdmitReplay(i)
  <2>1. PICK receipt \in PriorReceipts(i) : CallTo(i, "done", receipt)
    BY <1>8 DEF AdmitReplay
  <2>2. calls' = [calls EXCEPT ![i].pc = "done", ![i].receipt = receipt]
    BY <2>1 DEF CallTo
  <2>3. \A j \in Ids : j # i => calls'[j] = calls[j]
    BY <1>0, <2>2, TypeFacts
  <2>4. /\ UNCHANGED <<ledger, walSeq, wal, gap>>
        /\ calls[i].pc = "proposed" /\ ledger[i].status \notin Active
    BY <1>8 DEF AdmitReplay, ledgerVars, diskVars, historyVars, Replays
  <2>5. OnDisk' = OnDisk
    BY <1>2, <2>4 DEF OnDisk
  <2>6. Followed => \A j \in Ids : \/ OnDisk'[j] = ledger'[j]
                                   \/ /\ ledger'[j].status \in Active
                                      /\ calls'[j].pc \notin {"admitted", "execute", "record"}
    BY <1>7, <2>3, <2>4, <2>5
  <2> QED BY <1>0, <1>2, <2>4, <2>6, SyncCall
<1>11. CASE AnswerAgain(i)
  <2>1. /\ CallTo(i, "done", prior[i]) /\ prior[i] \in Receipts
        /\ UNCHANGED <<ledger, walSeq, wal, gap>> /\ calls[i].pc = "admitted"
    BY <1>0, <1>11, TypeFacts DEF AnswerAgain, ledgerVars, diskVars, historyVars
  <2>2. calls'[i].pc = "done" /\ \A j \in Ids : j # i => calls'[j] = calls[j]
    BY <1>0, <1>1, <2>1, CallToIs
  <2>3. OnDisk' = OnDisk
    BY <1>2, <2>1 DEF OnDisk
  <2>4. Followed => \A j \in Ids : \/ OnDisk'[j] = ledger'[j]
                                   \/ /\ ledger'[j].status \in Active
                                      /\ calls'[j].pc \notin {"admitted", "execute", "record"}
    BY <1>7, <2>1, <2>2, <2>3
  <2> QED BY <1>0, <1>2, <2>1, <2>4, SyncCall
<1>9. CASE StartFails(i) \/ RecordFails(i)
  <2>1. /\ CallTo(i, "done", Errored)
        /\ UNCHANGED <<ledger, walSeq, gap, events, fresh>>
        /\ calls[i].pc \in {"admitted", "record"} /\ pc = "batch"
    BY <1>9 DEF StartFails, RecordFails, CommitFails, ledgerVars, historyVars
  <2>2. calls'[i].pc = "done" /\ \A j \in Ids : j # i => calls'[j] = calls[j]
    BY <1>0, <1>1, <2>1, CallToIs
  <2>3. ledger[i].status \in Active
    <3>1. Mine(i, "admitted") \/ Mine(i, "started")
      BY <2>1 DEF BaseInv, CallInv, CallHolds
    <3>2. ledger[i].status = "admitted" \/ ledger[i].status = "started"
      BY <3>1 DEF Mine
    <3> QED BY <3>2 DEF Active
  <2>4. Followed => \A j \in Ids : j # i => OnDisk'[j] = OnDisk[j]
    <3>1. ASSUME NEW op \in {"admit", "start", "result"}, NEW receipt \in Receipts,
                 op = "result" => calls[i].pc = "record" /\ receipt = calls[i].receipt,
                 wal' \in {wal, Appended(TornLine), Appended(Entry(op, i, receipt))}, Followed
          PROVE  \A j \in Ids : j # i => OnDisk'[j] = OnDisk[j]
      <4> DEFINE e == Entry(op, i, receipt)
      <4>1. OnDisk' = OnDisk \/ OnDisk' = Apply(OnDisk, e)
        BY <1>2, <2>1, <3>1, CallAppended
      <4>2. e \in Entries /\ e.id = i
        BY <1>0, <1>2, AtCall, EntryIs
      <4> HIDE DEF e
      <4>3. \A j \in Ids : j # i => Apply(OnDisk, e)[j] = OnDisk[j]
        BY <4>2, OnDiskTyped, ApplyIs
      <4> QED BY <4>1, <4>3
    <3>2. CASE StartFails(i)
      <4>1. wal' \in {wal, Appended(TornLine), Appended(Entry("start", i, NoReceipt))}
        BY <3>2 DEF StartFails, CommitFails, AppendFails
      <4> QED BY <1>1, <3>1, <4>1
    <3>3. CASE RecordFails(i)
      <4>1. wal' \in {wal, Appended(TornLine), Appended(Entry("result", i, calls[i].receipt))} /\ calls[i].pc = "record"
        BY <3>3 DEF RecordFails, CommitFails, AppendFails
      <4> QED BY <1>1, <3>1, <4>1
    <3> QED BY <1>9, <3>2, <3>3
  <2>5. Followed => \A j \in Ids : \/ OnDisk'[j] = ledger'[j]
                                   \/ /\ ledger'[j].status \in Active
                                      /\ calls'[j].pc \notin {"admitted", "execute", "record"}
    BY <1>7, <2>1, <2>2, <2>3, <2>4
  <2> QED BY <1>0, <1>2, <2>1, <2>5, SyncCall
<1>10. CASE Dispatch(i)
  <2>1. /\ calls[i].pc = "execute" /\ calls'[i].pc = "record"
        /\ \A j \in Ids : j # i => calls'[j] = calls[j]
        /\ UNCHANGED <<ledger, walSeq, wal, gap>>
    BY <1>10, DispatchDoes
  <2>2. OnDisk' = OnDisk
    BY <1>2, <2>1 DEF OnDisk
  <2>3. Followed => \A j \in Ids : \/ OnDisk'[j] = ledger'[j]
                                   \/ /\ ledger'[j].status \in Active
                                      /\ calls'[j].pc \notin {"admitted", "execute", "record"}
    BY <1>7, <2>1, <2>2
  <2> QED BY <1>0, <1>2, <2>1, <2>3, SyncCall
<1> QED BY <1>4, <1>5, <1>6, <1>8, <1>9, <1>10, <1>11

\* Disk and memory agree, at every step.
LEMMA SyncStep ==
  ASSUME BaseInv, DiskHolds, LogInv, SyncInv, Next
  PROVE  SyncInv'
<1>0. /\ TypeOK /\ ActivationInv /\ CutInv /\ ledger \in Ledgers /\ walSeq \in Nat
      /\ journal.watermark \in Nat /\ wal \in Seq(Lines)
  BY TypeFacts DEF BaseInv
<1> USE DEF diskVars, runVars, ledgerVars, historyVars
<1>1. ASSUME pc' \in {"off", "load"} PROVE SyncInv'
  BY <1>1 DEF SyncInv, Running, Working
<1>2. CASE (\E t \in Tasks : Activate(t)) \/ CompleteTruncate \/ CompleteFails \/ Abort \/ Crash
           \/ \E i \in Ids : AdmitRefused(i) \/ AdmitFails(i)
  BY <1>1, <1>2 DEF Activate, CompleteTruncate, CompleteFails, Abort, Crash, AdmitRefused, AdmitFails, Ended, Goto
<1>3. ASSUME pc' \in {"restore", "restoreCut", "checkpoint", "checkpointCut"},
             journal'.task = task', journal'.status = "in_flight"
      PROVE  SyncInv'
  BY <1>3 DEF SyncInv, Working
<1>4. CASE LoadNothing
  <2> DEFINE read == IF wal = <<>> THEN "none" ELSE "open"
  <2>1. pc # "off" /\ read \in Gaps /\ BeginsAnew(read) /\ task' = task /\ events' = events /\ pc' = "checkpoint"
    BY <1>4 DEF LoadNothing, Gaps, Goto
  <2> HIDE DEF read
  <2>2. EventsOf(task)' = {}
    <3>1. {n \in DOMAIN events : events[n].task = task /\ n > fresh'[task]} = {}
      BY <1>0, <2>1, AtWork, AnewEmpties
    <3> QED BY <2>1, <3>1 DEF EventsOf
  <2> QED BY <2>1, <2>2 DEF SyncInv, Working
<1>5. ASSUME NEW found \in SUBSET native, LoadJournal(found) PROVE SyncInv'
  <2>1. Resumable /\ pc' \in {"checkpoint", "restore"} /\ UNCHANGED <<journal, task>>
    BY <1>5, LoadJournalDoes
  <2> QED BY <1>3, <2>1 DEF Resumable
<1>6. CASE Restore \/ Checkpoint
  <2>1. Written("in_flight") /\ task' = task /\ pc' \in {"restoreCut", "checkpointCut"}
    BY <1>6 DEF Restore, Checkpoint, Goto
  <2>2. journal'.task = task /\ journal'.status = "in_flight"
    BY <1>0, <2>1, WrittenTyped DEF BaseInv
  <2> QED BY <1>3, <2>1, <2>2
<1>7. CASE Complete
  <2>1. Written("completed") /\ task' = task /\ pc' = "completeCut"
    BY <1>7 DEF Complete, Goto
  <2>2. journal'.task = task
    BY <1>0, <2>1, WrittenTyped DEF BaseInv
  <2> QED BY <2>1, <2>2 DEF SyncInv, Working
<1>8. CASE RestoreTruncate
  <2>1. pc = "restoreCut" /\ pc' = "checkpoint" /\ UNCHANGED <<journal, task>>
    BY <1>8 DEF RestoreTruncate, Truncate, Goto
  <2>2. journal.task = task /\ journal.status = "in_flight"
    BY <1>0, <2>1 DEF CutInv, Cuts
  <2> QED BY <1>3, <2>1, <2>2
<1>9. CASE RestoreFails
  <2>1. pc # "off" /\ BeginsAnew("read") /\ task' = task /\ "read" \in Gaps /\ pc' = "checkpoint"
    BY <1>9 DEF RestoreFails, Gaps, Goto
  <2>2. gap'[task] = "read"
    BY <1>0, <2>1, AtWork, BeginsAnewDoes
  <2> QED BY <2>1, <2>2 DEF SyncInv, Working
<1>10. ASSUME pc = "checkpointCut", pc' = "model",
              UNCHANGED <<journal, task, round, transcript, walSeq, calls>>,
              gap'[task] = "none" => \A i \in Ids : OnDisk'[i] = ledger'[i] \/ ledger'[i].status \in Active
       PROVE  SyncInv'
  <2>1. /\ journal.task = task /\ journal.status = "in_flight"
        /\ journal.round = round /\ journal.transcript = transcript
        /\ journal.watermark = walSeq
    BY <1>0, <1>10 DEF CutInv, Cuts
  <2>2. \A i \in Ids : calls'[i].pc = "none"
    BY <1>0, <1>10, EmptyTyped DEF ActivationInv, NoCall
  <2> QED BY <1>0, <1>10, <2>1, <2>2 DEF SyncInv, Working
<1>11. CASE CheckpointTruncate
  <2>1. /\ pc = "checkpointCut" /\ pc' = "model" /\ Truncate
        /\ UNCHANGED <<journal, task, round, transcript, walSeq, calls, ledger>>
    BY <1>11 DEF CheckpointTruncate, Truncate, Goto
  <2>2. /\ journal.ledger = ledger /\ wal' = <<>>
    BY <1>0, <2>1 DEF CutInv, Cuts, Truncate
  <2>3. Above(<<>>, journal.watermark) = {}
    BY DEF Above
  <2>4. OnDisk' = ledger
    BY <2>1, <2>2, <2>3, ReplayNothing DEF OnDisk
  <2> QED BY <1>10, <2>1, <2>4
<1>12. CASE CheckpointFails
  <2>1. /\ pc \in {"checkpoint", "checkpointCut"}
        /\ ledger' = Released(ledger, transcript)
        /\ IF pc = "checkpoint" THEN GapOpens ELSE UNCHANGED gap
        /\ pc' = "model"
        /\ UNCHANGED <<journal, wal, task, round, transcript, walSeq, calls>>
    BY <1>12 DEF CheckpointFails, Goto
  <2>2. task \in Tasks
    BY <1>0, <2>1, AtWork
  <2>3. CASE pc = "checkpoint"
    <3>1. gap'[task] # "none" /\ ~Followed'
      BY <1>0, <2>1, <2>2, <2>3, GapOpensDoes DEF Followed
    <3> QED BY <2>1, <3>1 DEF SyncInv
  <2>4. CASE pc = "checkpointCut"
    <3>1. journal.ledger = ledger /\ journal.watermark = walSeq /\ Released(ledger, transcript) = ledger
      BY <1>0, <2>4 DEF CutInv, Cuts
    <3>2. OnDisk' = Replayed(Released(ledger, transcript), wal, walSeq)
      BY <2>1, <3>1 DEF OnDisk
    <3>3. ASSUME gap'[task] = "none", NEW i \in Ids PROVE OnDisk'[i] = ledger'[i] \/ ledger'[i].status \in Active
      <4>1. AsKept(Replayed(Released(ledger, transcript), wal, walSeq))
        BY <2>1, <2>4, <3>3, StaleReplay DEF Running
      <4> QED BY <2>1, <3>1, <3>2, <4>1 DEF AsKept
    <3> QED BY <1>10, <2>1, <2>4, <3>3
  <2> QED BY <2>1, <2>3, <2>4
<1>13. ASSUME pc \in Working, UNCHANGED <<journal, wal, task, round, transcript, ledger, walSeq, gap, events, fresh>>,
              pc' \in Working,
              \A i \in Ids : calls'[i] = calls[i] \/ calls'[i].pc \in {"none", "proposed"}
       PROVE  SyncInv'
  <2>1. OnDisk' = OnDisk /\ (Followed' => Followed)
    BY <1>13 DEF OnDisk, Followed
  <2>2. gap[task] = "none" =>
          /\ journal.task = task /\ journal.status = "in_flight"
          /\ journal.round = round
          /\ journal.transcript = transcript
          /\ journal.watermark <= walSeq
          /\ \A i \in Ids : \/ OnDisk[i] = ledger[i]
                            \/ /\ ledger[i].status \in Active
                               /\ calls[i].pc \notin {"admitted", "execute", "record"}
    BY <1>13 DEF SyncInv, Working, Running
  <2>3. Followed => journal.task = task
    BY <1>13 DEF SyncInv
  <2>4. gap[task] = "none" =>
          \A i \in Ids : \/ OnDisk'[i] = ledger[i]
                         \/ /\ ledger[i].status \in Active
                            /\ calls'[i].pc \notin {"admitted", "execute", "record"}
    BY <1>13, <2>1, <2>2
  <2> QED BY <1>13, <2>1, <2>2, <2>3, <2>4 DEF SyncInv
<1>14. ASSUME NEW chosen \in SUBSET Ids, NEW sigs \in [chosen -> Proposals], Propose(sigs)
       PROVE  SyncInv'
  <2>1. /\ pc = "model" /\ pc' = "admit"
        /\ UNCHANGED <<journal, wal, task, round, transcript, ledger, walSeq, gap, events, fresh>>
        /\ \A i \in Ids : calls'[i].pc \in {"none", "proposed"}
    BY <1>14 DEF Propose, Goto, NoCall
  <2> QED BY <1>13, <2>1 DEF Working
<1>15. CASE AllAdmitted
  <2>1. /\ pc = "admit" /\ pc' = "batch"
        /\ UNCHANGED <<journal, wal, task, round, transcript, ledger, walSeq, gap, events, fresh, calls>>
    BY <1>15 DEF AllAdmitted, Goto
  <2> QED BY <1>13, <2>1 DEF Working
<1>16. CASE Finish \/ (\E next \in {"checkpoint", "complete"} : BatchEnds(next))
  <2>1. /\ pc \in {"model", "batch"} /\ pc' \in {"checkpoint", "complete"}
        /\ UNCHANGED <<journal, task, gap>>
    BY <1>16 DEF Finish, BatchEnds, Goto
  <2>2. gap[task] = "none" => journal.task = task /\ journal.status = "in_flight"
    BY <2>1 DEF SyncInv, Running
  <2>3. Followed' => journal.task = task
    BY <2>1 DEF SyncInv, Working, Followed
  <2> QED BY <2>1, <2>2, <2>3 DEF SyncInv, Working
<1>17. CASE \E i \in Ids : \/ Admit(i) \/ AdmitReplay(i) \/ AnswerAgain(i) \/ Start(i) \/ StartFails(i)
                            \/ Dispatch(i) \/ Record(i) \/ RecordFails(i)
  BY <1>17, SyncCalls
<1>18. ASSUME NEW x \in late.running, LateResult(x) PROVE SyncInv'
  <2>1. CASE pc = "off"
    BY <1>1, <1>18, <2>1 DEF LateResult
  <2>2. CASE pc # "off"
    <3>1. late.by < activations /\ late.by \in Int /\ activations \in Int
      BY <1>0, <2>2, TypeFacts, TypeWas DEF ActivationInv
    <3>2. GapOpens /\ task' = task /\ task \in Tasks /\ journal' = journal
      BY <1>0, <1>18, <2>2, <3>1, AtWork DEF LateResult
    <3>3. gap'[task'] # "none" /\ ~Followed'
      BY <1>0, <3>2, GapOpensDoes DEF Followed
    <3> QED BY <3>3 DEF SyncInv
  <2> QED BY <2>1, <2>2
<1> QED BY <1>2, <1>4, <1>5, <1>6, <1>7, <1>8, <1>9, <1>11, <1>12, <1>14, <1>15, <1>16, <1>17, <1>18, NextCases

-----------------------------------------------------------------------------
(* The calls that an aborted activation left behind.                       *)

\* An activation is aborted in a round: what is handed over has its record on
\* disk.
LEMMA LateAbort ==
  ASSUME BaseInv, LogInv, SyncInv, Abort
  PROVE  LateInv'
<1> DEFINE s == {[id |-> i, sig |-> calls[i].sig, round |-> round + 1, receipt |-> calls[i].receipt] :
                   i \in {j \in Ids : calls[j].pc = "record"}}
<1>0. TypeOK /\ ActivationInv /\ walSeq \in Nat
  BY TypeFacts DEF BaseInv
<1>1. /\ pc \in {"checkpoint", "model", "batch"}
      /\ late'.seq = walSeq /\ late'.running = s
      /\ UNCHANGED <<journal, wal, events, fresh, gap>>
  BY DEF Abort, diskVars, historyVars
<1>2. \A x \in s : \E i \in Ids : calls[i].pc = "record" /\ x = ResultOf(i)
  BY DEF ResultOf
<1>3. \A i \in Ids : /\ ResultOf(i).id = i
                     /\ ResultOf(i).sig = calls[i].sig
                     /\ ResultOf(i).round = round + 1
                     /\ ResultOf(i).receipt = calls[i].receipt
  BY DEF ResultOf
<1> HIDE DEF s
<1> SUFFICES ASSUME s # {}, Followed
             PROVE  /\ journal.watermark <= walSeq
                    /\ \A k \in DOMAIN wal : wal[k].seq <= walSeq + 1
                    /\ \A x, y \in s : x.id = y.id => x = y
                    /\ \A x \in s :
                         /\ OnDisk[x.id] = [status |-> "started", sig |-> x.sig, round |-> x.round, receipt |-> NoReceipt]
                         /\ x.receipt \in EventsOf(journal.task)
                         /\ events[x.receipt] = [task |-> journal.task, round |-> x.round, id |-> x.id, sig |-> x.sig]
  BY <1>1 DEF LateInv, Followed, OnDisk, EventsOf
<1>4. pc = "batch" /\ pc \in Working
  <2>1. PICK i \in Ids : calls[i].pc = "record"
    BY <1>2
  <2>2. pc \in {"admit", "batch"}
    BY <2>1, AtCall
  <2> QED BY <1>1, <2>2 DEF Working
<1>5. /\ journal.task = task /\ gap[task] = "none" /\ Running
      /\ journal.watermark <= walSeq
      /\ \A i \in Ids : \/ OnDisk[i] = ledger[i]
                        \/ /\ ledger[i].status \in Active
                           /\ calls[i].pc \notin {"admitted", "execute", "record"}
  BY <1>4, AtWorkFollowed
<1>6. \A k \in DOMAIN wal : wal[k].seq <= walSeq + 1
  BY <1>5 DEF LogInv
<1>7. \A x, y \in s : x.id = y.id => x = y
  BY <1>2, <1>3
<1>8. ASSUME NEW x \in s
      PROVE  /\ OnDisk[x.id] = [status |-> "started", sig |-> x.sig, round |-> x.round, receipt |-> NoReceipt]
             /\ x.receipt \in EventsOf(journal.task)
             /\ events[x.receipt] = [task |-> journal.task, round |-> x.round, id |-> x.id, sig |-> x.sig]
  <2>1. PICK i \in Ids : calls[i].pc = "record" /\ x = ResultOf(i)
    BY <1>2
  <2>2. /\ Mine(i, "started")
        /\ calls[i].receipt \in EventsOf(task)
        /\ events[calls[i].receipt] = [task |-> task, round |-> round + 1, id |-> i, sig |-> calls[i].sig]
    BY <1>4, <2>1 DEF BaseInv, CallInv, CallHolds
  <2>3. x.id = i /\ x.sig = calls[i].sig /\ x.round = round + 1 /\ x.receipt = calls[i].receipt
    BY <1>3, <2>1
  <2>4. OnDisk[i] = ledger[i]
    BY <1>5, <2>1
  <2> QED BY <1>5, <2>2, <2>3, <2>4 DEF Mine
<1> QED BY <1>5, <1>6, <1>7, <1>8

\* One of them returns; the others stay.
LEMMA LateReturns ==
  ASSUME BaseInv, DiskHolds, LateInv, NEW x \in late.running, LateResult(x)
  PROVE  LateInv'
<1>0. /\ TypeOK /\ wal \in Seq(Lines) /\ late.seq \in Nat /\ journal.watermark \in Nat
      /\ \A y \in late.running : y.id \in Ids
  BY TypeFacts DEF BaseInv, Results
<1>1. /\ late'.seq = late.seq + 1
      /\ late'.running = late.running \ {x}
      /\ late'.by = late.by
  BY <1>0, LateIs
<1>2. UNCHANGED <<journal, pc, activations, events, fresh>> /\ (UNCHANGED gap \/ GapOpens)
  BY DEF LateResult
<1>3. Followed' => Followed
  BY <1>2, GapNotClosed
<1> SUFFICES ASSUME pc = "off", late.by = activations, Followed'
             PROVE  /\ journal.watermark <= late.seq + 1
                    /\ \A k \in DOMAIN wal' : wal'[k].seq <= late.seq + 1 + 1
                    /\ \A y, z \in late.running \ {x} : y.id = z.id => y = z
                    /\ \A y \in late.running \ {x} :
                         /\ OnDisk'[y.id] = [status |-> "started", sig |-> y.sig, round |-> y.round, receipt |-> NoReceipt]
                         /\ y.receipt \in EventsOf(journal.task)
                         /\ events[y.receipt] = [task |-> journal.task, round |-> y.round, id |-> y.id, sig |-> y.sig]
  BY <1>1, <1>2 DEF LateInv, EventsOf
<1>4. /\ journal.watermark <= late.seq
      /\ \A k \in DOMAIN wal : wal[k].seq <= late.seq + 1
      /\ \A y, z \in late.running : y.id = z.id => y = z
      /\ \A y \in late.running :
           /\ OnDisk[y.id] = [status |-> "started", sig |-> y.sig, round |-> y.round, receipt |-> NoReceipt]
           /\ y.receipt \in EventsOf(journal.task)
           /\ events[y.receipt] = [task |-> journal.task, round |-> y.round, id |-> y.id, sig |-> y.sig]
  BY <1>3 DEF LateInv
<1>5. \A y \in late.running \ {x} : OnDisk'[y.id] = OnDisk[y.id]
  <2>1. \A i \in Ids : i # x.id => OnDisk'[i] = OnDisk[i]
    BY LateAppended
  <2> QED BY <1>0, <1>4, <2>1
<1>6. \A k \in DOMAIN wal' : wal'[k].seq <= late.seq + 1 + 1
  <2>1. PICK e \in Entries :
           /\ e = [seq |-> late.seq + 1, op |-> "result", id |-> x.id, sig |-> x.sig, round |-> x.round,
                   receipt |-> x.receipt]
           /\ wal' = Appended(e)
    BY <1>0, LateEntry
  <2>2. e.seq = late.seq + 1 /\ e \in Lines
    BY <2>1 DEF Lines
  <2>3. \A k \in DOMAIN wal : wal[k].seq \in Int
    <3>1. \A k \in DOMAIN wal : wal[k] \in Lines
      BY <1>0
    <3> QED BY <3>1 DEF Lines, Entries, TornLine
  <2>4. \A k \in DOMAIN wal' : (k \in DOMAIN wal /\ wal'[k] = wal[k]) \/ wal'[k] = e
    BY <1>0, <2>1, <2>2, AppendedIs
  <2> QED BY <1>0, <1>4, <2>2, <2>3, <2>4
<1> QED BY <1>0, <1>4, <1>5, <1>6

\* So it is at every step.
LEMMA LateStep ==
  ASSUME BaseInv, DiskHolds, LogInv, SyncInv, LateInv, Next
  PROVE  LateInv'
<1>0. /\ TypeOK /\ ActivationInv /\ late.by \in Int /\ activations \in Int
  BY TypeFacts, TypeWas DEF BaseInv
<1> USE DEF diskVars, runVars, ledgerVars, historyVars
<1>1. ASSUME pc' # "off" PROVE LateInv'
  BY <1>1 DEF LateInv
<1>2. ASSUME pc # "off", UNCHANGED <<late, activations>> PROVE LateInv'
  BY <1>0, <1>2 DEF LateInv, ActivationInv
<1>3. CASE CompleteTruncate \/ CompleteFails \/ \E i \in Ids : AdmitRefused(i) \/ AdmitFails(i)
  <2>1. pc # "off" /\ UNCHANGED <<late, activations>>
    BY <1>3 DEF CompleteTruncate, Truncate, CompleteFails, AdmitRefused, AdmitFails
  <2> QED BY <1>2, <2>1
<1>4. CASE (\E t \in Tasks : Activate(t)) \/ LoadNothing \/ RestoreTruncate \/ RestoreFails \/ Restore
           \/ Checkpoint \/ CheckpointTruncate \/ CheckpointFails \/ Complete \/ Finish \/ AllAdmitted
           \/ (\E chosen \in SUBSET Ids : \E sigs \in [chosen -> Proposals] : Propose(sigs))
           \/ (\E next \in {"checkpoint", "complete"} : BatchEnds(next))
  BY <1>1, <1>4 DEF Activate, LoadNothing, RestoreTruncate, RestoreFails, Restore, Checkpoint, CheckpointTruncate,
                    CheckpointFails, Complete, Finish, AllAdmitted, Propose, BatchEnds, Goto
<1>5. CASE \E found \in SUBSET native : LoadJournal(found)
  <2>1. pc' \in {"checkpoint", "restore"}
    BY <1>5, LoadJournalDoes
  <2> QED BY <1>1, <2>1
<1>6. CASE \E i \in Ids : \/ Admit(i) \/ AdmitReplay(i) \/ AnswerAgain(i) \/ Start(i) \/ StartFails(i)
                            \/ Dispatch(i) \/ Record(i) \/ RecordFails(i)
  <2>1. pc' # "off"
    BY <1>6 DEF Admit, AdmitReplay, AnswerAgain, Start, StartFails, Dispatch, Record, RecordFails
  <2> QED BY <1>1, <2>1
<1>7. CASE Abort
  BY <1>7, LateAbort
<1>8. CASE \E x \in late.running : LateResult(x)
  BY <1>8, LateReturns
<1>9. CASE Crash
  BY <1>9 DEF Crash, LateInv, NoLate
<1> QED BY <1>3, <1>4, <1>5, <1>6, <1>7, <1>8, <1>9, NextCases

-----------------------------------------------------------------------------
(* The invariant and what follows from it.                                 *)

\* It holds initially: nothing was done and nothing is remembered.
LEMMA InitHolds ==
  ASSUME Init
  PROVE  IInv
<1>1. TypeOK
  BY TypeInit
<1>2. /\ pc = "off" /\ task = NoTask /\ journal.task = NoTask
      /\ late.running = {} /\ late.by = 0 /\ activations = 0
      /\ calls = NoCalls /\ events = <<>>
      /\ round = 0 /\ transcript = {} /\ ledger = EmptyLedger /\ walSeq = 0
      /\ journal.ledger = EmptyLedger
      /\ prior = NoPrior
      /\ \A t \in Tasks : fresh[t] = 0
  BY DEF Init, NoJournal, NoLate
<1>3. NoTask \notin Tasks
  BY JournalAssumption
<1>4. Len(events) = 0 /\ \A t \in Tasks : EventsOf(t) = {}
  BY <1>2 DEF EventsOf
<1>5. ActivationInv
  BY <1>2, <1>4 DEF ActivationInv
<1>6. CallInv
  <2>1. \A i \in Ids : calls[i].pc = "none"
    BY <1>2, EmptyTyped DEF NoCall
  <2> QED BY <1>2, <2>1 DEF CallInv, CallHolds
<1>7. CutInv /\ SignedInv
  BY <1>2, EmptyTyped DEF CutInv, Cuts, SignedInv
<1>8. OnceInv
  BY <1>4 DEF OnceInv
<1>9. MemoryInv /\ PriorInv /\ LogInv
  BY <1>2 DEF MemoryInv, PriorInv, LogInv, Gapless, Running
<1>10. FoundInv /\ DiskInv /\ SyncInv /\ LateInv
  BY <1>2, <1>3 DEF FoundInv, DiskInv, SyncInv, LateInv, Followed, Running, Working
<1> QED BY <1>1, <1>5, <1>6, <1>7, <1>8, <1>9, <1>10 DEF IInv, BaseInv

\* A step that changes nothing keeps it.
LEMMA Stutter ==
  ASSUME IInv, UNCHANGED vars
  PROVE  IInv'
<1> USE DEF vars, diskVars, runVars, ledgerVars, historyVars
<1>1. BaseInv'
  BY DEF IInv, BaseInv, TypeOK, ActivationInv, CallInv, CallHolds, Mine, CutInv, SignedInv, Signed, EventsOf
<1>2. OnceInv'
  BY DEF IInv, OnceInv, EventsOf, Same
<1>3. MemoryInv'
  <2>1. Gapless' <=> Gapless
    BY DEF Gapless, Running
  <2>2. MemoryHolds => MemoryHolds'
    BY MemoryKept DEF IInv, BaseInv
  <2> QED BY <2>1, <2>2 DEF IInv, MemoryInv
<1>4. DiskHolds'
  <2>1. DiskHolds
    BY DEF IInv, DiskHolds
  <2>2. OnDisk' = OnDisk /\ (Followed' <=> Followed) /\ EventsOf(journal.task)' = EventsOf(journal.task)
    BY DEF OnDisk, Followed, EventsOf
  <2> QED BY <2>1, <2>2, DiskKept
<1>5. LogInv'
  <2>1. Running' <=> Running
    BY DEF Running
  <2> QED BY <2>1, LogKept DEF IInv
<1>6. SyncInv'
  BY DEF IInv, SyncInv, Running, EventsOf, Followed, OnDisk
<1>7. LateInv'
  BY DEF IInv, LateInv, Followed, OnDisk, EventsOf
<1>8. PriorInv'
  BY DEF IInv, PriorInv, PriorAnswers, Gapless, Running
<1> QED BY <1>1, <1>2, <1>3, <1>4, <1>5, <1>6, <1>7, <1>8 DEF IInv, DiskHolds

\* It is inductive.
LEMMA StepHolds ==
  ASSUME IInv, [Next]_vars
  PROVE  IInv'
<1>1. CASE Next
  <2>1. BaseInv /\ OnceInv /\ MemoryInv /\ PriorInv /\ FoundInv /\ DiskInv /\ LogInv /\ SyncInv /\ LateInv /\ DiskHolds
    BY DEF IInv, DiskHolds
  <2>2. BaseInv'
    BY <1>1, <2>1, BaseStep
  <2>3. OnceInv'
    BY <1>1, <2>1, OnceStep
  <2>4. MemoryInv'
    BY <1>1, <2>1, MemoryStep
  <2>5. DiskHolds'
    BY <1>1, <2>1, DiskStep
  <2>6. LogInv'
    BY <1>1, <2>1, LogStep
  <2>7. SyncInv'
    BY <1>1, <2>1, SyncStep
  <2>8. LateInv'
    BY <1>1, <2>1, LateStep
  <2>9. PriorInv'
    BY <1>1, <2>1, PriorStep
  <2> QED BY <2>2, <2>3, <2>4, <2>5, <2>6, <2>7, <2>8, <2>9 DEF IInv, DiskHolds
<1>2. CASE UNCHANGED vars
  BY <1>2, Stutter
<1> QED BY <1>1, <1>2

\* Memory, disk and history agree as the invariant says, in every state that
\* the journal, the ledger and the log can reach.
THEOREM Agreement == Spec => []IInv
<1>1. Init => IInv
  BY InitHolds
<1>2. IInv /\ [Next]_vars => IInv'
  BY StepHolds
<1> QED BY <1>1, <1>2, PTL DEF Spec

\* Every variable of the run journal keeps its type.
THEOREM TypeCorrect == Spec => []TypeOK
<1>1. IInv => TypeOK
  BY DEF IInv, BaseInv
<1> QED BY <1>1, Agreement, PTL

\* A call of one round is handed to its tool once, over any number of crashes,
\* aborts, failed writes and restarts, while the journal of its task is not read
\* in a gap: RunEffectLedger.admit and reconcileForResume.
THEOREM HandedOverOnce == Spec => []AtMostOnce
<1>1. IInv => AtMostOnce
  <2> SUFFICES ASSUME IInv, Gapless PROVE \A m, n \in Own : Same(m, n) => m = n
    BY DEF AtMostOnce, Same
  <2>1. task \in Tasks /\ gap[task] # "read"
    BY AtWork DEF IInv, BaseInv, Gapless, Running
  <2> QED BY <2>1 DEF IInv, OnceInv, Own, EventsOf
<1> QED BY <1>1, Agreement, PTL

\* As long as the log follows the journal of the task at work, an effect that was
\* handed to its tool is found by a restart, in the journal's transcript or as
\* started in journal and log, unless its id was used in an earlier round: the
\* order of the appends of createRunJournal, and of the checkpoint and the
\* truncation in writeAt.  It says nothing of the time from a failed checkpoint or
\* a lost line to the next journal that is written.
THEOREM DispatchIsDurable == Spec => []DispatchDurable
<1>1. IInv => DispatchDurable
  <2> SUFFICES ASSUME IInv, Running, gap[task] = "none", NEW n \in Own
               PROVE  \/ AnsweredIn(journal.transcript, n)
                      \/ Recycled(journal.transcript, n)
                      \/ KnownTo(OnDisk, n)
    BY DEF DispatchDurable, OnDisk
  <2>1. task \in Tasks
    BY AtWork DEF IInv, BaseInv, Running
  <2>2. n \in EventsOf(task)
    BY DEF Own, EventsOf
  <2>3. journal.task = task
    BY <2>2 DEF IInv, SyncInv
  <2>4. Followed
    BY <2>1, <2>3 DEF Followed
  <2> QED BY <2>2, <2>3, <2>4 DEF IInv, FoundInv, Answer
<1> QED BY <1>1, Agreement, PTL

\* Before the model is asked again, every effect has an answer in the transcript
\* unless its id was used in an earlier round, in a run that was not read while
\* the log did not follow its journal: reconcileForResume and
\* appendEffectLedgerResumeRound.
THEOREM AnsweredBeforeAsked == Spec => []AnsweredUnlessRecycled
<1>1. IInv => AnsweredUnlessRecycled
  <2> SUFFICES ASSUME IInv, Gapless, pc # "batch", NEW n \in Own
               PROVE  AnsweredIn(transcript, n) \/ Recycled(transcript, n)
    BY DEF AnsweredUnlessRecycled
  <2>1. n \in EventsOf(task)
    BY DEF Own, EventsOf
  <2> QED BY <2>1 DEF IInv, MemoryInv, MemoryHolds, AnsweredInMemory, Answer
<1> QED BY <1>1, Agreement, PTL

\* In a run that was not read while the log did not follow its journal, a receipt
\* in the transcript is that of an effect of this run under its id: of the call it
\* answers, or the one an earlier answer of that id has; and what is said not to
\* have been handed over was not, unless its id was used in an earlier round:
\* readDurableEffectReceipt, reconcileForResume and priorResults.
THEOREM ReceiptsAreTrue == Spec => []ReceiptsTrue
<1>1. IInv => ReceiptsTrue
  <2> SUFFICES ASSUME IInv, Gapless, NEW x \in transcript
               PROVE  /\ x.receipt > 0 =>
                           /\ x.receipt \in Own
                           /\ events[x.receipt].id = x.id
                           /\ \/ events[x.receipt].round = x.round /\ events[x.receipt].sig = x.sig
                              \/ \E y \in transcript : y.id = x.id /\ y.round < x.round /\ y.receipt = x.receipt
                      /\ x.receipt = NotDispatched =>
                           \A n \in Own : events[n].id = x.id /\ events[n].round = x.round => Recycled(transcript, n)
    BY DEF ReceiptsTrue
  <2>1. TrueResult(x, task, transcript)
    BY DEF IInv, MemoryInv, MemoryHolds, TrueTranscript
  <2>2. Own = EventsOf(task)
    BY DEF Own, EventsOf
  <2> QED BY <2>1, <2>2 DEF TrueResult
<1> QED BY <1>1, Agreement, PTL
=============================================================================
