--------------------------- MODULE RoleRun_proofs ---------------------------
(***************************************************************************)
(* Theorems of RoleRun, for any number of handoffs, steps, retries, faults *)
(* and any length of the inbox.                                            *)
(***************************************************************************)
EXTENDS RoleRun, TLAPS, SequenceTheorems

(* The inductive invariant, in layers: each part rests on the ones above.  *)

\* The places of the loop at which it holds a handoff.
HoldingPcs == {"limitFail", "increment", "ack", "activate", "fail", "reply", "report"}

\* The loop holds a handoff of this role, one whose outcome is known while it
\* waits; nobody takes the status of a working run away, and the step budget is
\* counted between the check and the activation.
LoopInv ==
  /\ loop.pc \in HoldingPcs \cup {"await"} => loop.held \in Tasks
  /\ LoopOwnsRun
  /\ loop.pc = "await" => /\ stage[loop.held] # "none"
                          /\ outcome[loop.held] = "reply" => run.status = "running"
  /\ loop.pc \in {"dequeue", "increment"} => run.iter < MaxIterations
  /\ loop.pc = "ack" => run.iter \in 1..MaxIterations

\* A handoff that the run has accepted at some time.
Seen(t) ==
  \/ t \in Queued
  \/ loop.held = t
  \/ run.last = t
  \/ t \in acks
  \/ stage[t] # "none"

\* Before it is recorded there is nothing of a handoff, and before its intent is
\* durable only the fast path knows of it.
Untouched(t) ==
  edge[t] = "none" =>
    /\ \A p \in Paths : attempt[t][p].pc = "idle"
    /\ intent[t] = "none"
    /\ activations[t] = 0
    /\ ~Seen(t)

Unpersisted(t) ==
  /\ attempt[t]["fast"].pc = "persist" =>
       edge[t] = "created" /\ intent[t] = "none" /\ ~Seen(t)
  /\ intent[t] = "none" =>
       /\ retries[t] = 0
       /\ attempt[t]["drain"].pc = "idle"
       /\ attempt[t]["fast"].pc \in {"idle", "persist", "threw"}

\* What an attempt read of the edge, it may rely on.
ReadHolds(t, p) ==
  /\ attempt[t][p].pc \in {"get", "enqueue"} => edge[t] # "cancelled"
  /\ attempt[t][p].pc \in {"get", "signal"} /\ ~attempt[t][p].created
       => edge[t] # "created"
  /\ attempt[t][p].pc = "enqueue" => attempt[t][p].created /\ t \notin Queued

Delivering(t) ==
  /\ Untouched(t)
  /\ Unpersisted(t)
  /\ intent[t] = "owed" => retries[t] <= MaxRetries
  /\ attempt[t]["drain"].pc \in {"drop", "cancel"} => intent[t] = "dropped"
  /\ \A p, q \in Paths : /\ attempt[t][p].pc \in {"get", "enqueue", "cancel"}
                         /\ attempt[t][q].pc \in {"get", "enqueue", "cancel"}
                         => p = q
  /\ \A p \in Paths : ReadHolds(t, p)

DeliveryInv == \A t \in Tasks : Delivering(t)

\* No handoff waits twice.
Distinct(s) == \A i, j \in 1..Len(s) : s[i] = s[j] => i = j

\* An answered edge has an outcome that is materialised, or was.
StageInv == \A t \in Tasks :
  /\ edge[t] \in {"responded", "closed"} => stage[t] # "none"
  /\ stage[t] \in {"plan", "dispatch", "child", "done"} => edge[t] \in {"closed", "cancelled"}

BaseInv ==
  /\ TypeOK
  /\ LoopInv
  /\ DeliveryInv
  /\ Distinct(run.inbox)
  /\ StageInv

\* Each path may still enqueue the handoff, without another fault.
FastMay(t) ==
  \/ edge[t] = "none"
  \/ attempt[t]["fast"].pc = "persist"
  \/ attempt[t]["fast"].pc = "read" /\ edge[t] = "created"
  \/ attempt[t]["fast"].pc \in {"get", "enqueue"} /\ attempt[t]["fast"].created

DrainMay(t) ==
  \/ attempt[t]["drain"].pc = "read" /\ edge[t] = "created"
  \/ attempt[t]["drain"].pc \in {"get", "enqueue"} /\ attempt[t]["drain"].created
  \/ /\ intent[t] = "owed"
     /\ edge[t] = "created"
     /\ \/ attempt[t]["drain"].pc = "fail"
        \/ /\ attempt[t]["drain"].pc = "idle"
           /\ attempt[t]["fast"].pc \in {"idle", "threw", "fail"}

\* A Boolean, counted.
One(b) == IF b THEN 1 ELSE 0

\* The loop is going to activate the handoff it holds.
Starting(t) == loop.held = t /\ loop.pc \in {"increment", "ack"}

\* The rights to an activation that a handoff has, in the inbox, in the loop and
\* with its attempts: with what it was activated, they are paid for by the faults.
Rights(t) == One(t \in Queued) + One(Starting(t)) + One(FastMay(t)) + One(DrainMay(t))

Paid(t) == activations[t] + Rights(t) <= 1 + faults

BudgetInv == \A t \in Tasks : Paid(t)

\* Without a repeated delivery there is one attempt at a time; once the run has
\* the handoff, the attempt ends without another and nobody gives it up.
DeliveredOnce(t) == t \notin replayed =>
  /\ attempt[t]["drain"].pc # "idle" => attempt[t]["fast"].pc \in {"idle", "threw"}
  /\ attempt[t]["drain"].pc = "cancel" => edge[t] = "created"
  /\ Seen(t) =>
       /\ edge[t] # "cancelled"
       /\ attempt[t]["drain"].pc \in {"idle", "signal", "mark", "settle"}
       /\ attempt[t]["fast"].pc \in {"idle", "threw", "signal", "mark", "settle"}
       /\ intent[t] = "owed" => \E p \in Paths : attempt[t][p].pc \in {"signal", "mark", "settle"}

OnceInv == \A t \in Tasks : DeliveredOnce(t)

\* Somebody is going to run the loop over a handoff in the inbox.
Attended(t) ==
  \/ loop.pc # "off"
  \/ \E p \in Paths : attempt[t][p].pc \in {"read", "get", "enqueue", "signal"}
  \/ recovering /\ run.status \in {"queued", "running"}

\* A handoff that the run has taken is on its way, or it is known to be lost.
Taken(t) ==
  \/ t \in Queued /\ Attended(t)
  \/ loop.held = t /\ loop.pc \in HoldingPcs
  \/ stage[t] # "none"

Cared(t) == Taken(t) \/ t \in excused \/ edge[t] = "cancelled"

LookedAfter(t) ==
  /\ edge[t] \in {"delivered", "acked", "responded", "closed"} => Cared(t)
  /\ t \in Queued => Cared(t)
  /\ run.last = t => Cared(t)
  /\ t \in acks => Cared(t)
  /\ \A p \in Paths : attempt[t][p].pc \in {"signal", "mark", "settle"} => Cared(t)
  /\ edge[t] = "created" =>
       /\ intent[t] = "none" => attempt[t]["fast"].pc = "persist" \/ t \in excused
       /\ intent[t] = "settled" => Cared(t)
       /\ intent[t] = "dropped" => attempt[t]["drain"].pc \in {"drop", "cancel"} \/ Cared(t)

CareInv == \A t \in Tasks : LookedAfter(t)

IInv == BaseInv /\ BudgetInv /\ OnceInv /\ CareInv


-----------------------------------------------------------------------------
(* The inbox                                                               *)

\* Taking the first handoff out of the inbox.
LEMMA QueueTail ==
  ASSUME NEW s \in Seq(Tasks), s # <<>>
  PROVE  /\ Head(s) \in Tasks
         /\ Head(s) \in ToSet(s)
         /\ Tail(s) \in Seq(Tasks)
         /\ Len(Tail(s)) = Len(s) - 1
         /\ Len(s) \in Nat \ {0}
         /\ ToSet(Tail(s)) \subseteq ToSet(s)
         /\ ToSet(s) = ToSet(Tail(s)) \cup {Head(s)}
         /\ Distinct(s) => Distinct(Tail(s)) /\ Head(s) \notin ToSet(Tail(s))
<1>1. /\ Len(s) \in Nat /\ Len(s) > 0
      /\ Head(s) = s[1]
      /\ Tail(s) \in Seq(Tasks)
      /\ Len(Tail(s)) = Len(s) - 1
      /\ \A i \in 1..Len(s) : s[i] \in Tasks
      /\ DOMAIN s = 1..Len(s)
  OBVIOUS
<1>2. \A i \in 1..(Len(s) - 1) : Tail(s)[i] = s[i + 1]
  OBVIOUS
<1>3. DOMAIN Tail(s) = 1..(Len(s) - 1)
  BY <1>1
<1>3a. ToSet(s) = {s[i] : i \in 1..Len(s)} /\ ToSet(Tail(s)) = {Tail(s)[i] : i \in 1..(Len(s) - 1)}
  BY <1>1, <1>3 DEF ToSet
<1>4. ToSet(Tail(s)) \subseteq ToSet(s) /\ Head(s) \in ToSet(s)
  <2>1. ASSUME NEW i \in 1..(Len(s) - 1) PROVE s[i + 1] \in ToSet(s)
    BY <1>1, <1>3a
  <2> QED BY <2>1, <1>1, <1>2, <1>3a
<1>5. ToSet(s) \subseteq ToSet(Tail(s)) \cup {Head(s)}
  <2> SUFFICES ASSUME NEW i \in 1..Len(s), i # 1 PROVE s[i] \in ToSet(Tail(s))
    BY <1>1, <1>3a
  <2>1. i - 1 \in 1..(Len(s) - 1) /\ Tail(s)[i - 1] = s[i]
    BY <1>1, <1>2
  <2> QED BY <2>1, <1>3a
<1>6. ASSUME Distinct(s) PROVE Distinct(Tail(s)) /\ Head(s) \notin ToSet(Tail(s))
  <2>1. \A i, j \in 1..(Len(s) - 1) : s[i + 1] = s[j + 1] => i = j
    BY <1>1, <1>6 DEF Distinct
  <2>2. \A i \in 1..(Len(s) - 1) : s[i + 1] # s[1]
    BY <1>1, <1>6 DEF Distinct
  <2> QED BY <2>1, <2>2, <1>1, <1>2, <1>3a DEF Distinct
<1> QED BY <1>1, <1>4, <1>5, <1>6

\* Putting a handoff at the end of the inbox, or into an empty one.
LEMMA QueueAppend ==
  ASSUME NEW s \in Seq(Tasks), NEW t \in Tasks
  PROVE  /\ Append(s, t) \in Seq(Tasks)
         /\ Len(Append(s, t)) = Len(s) + 1
         /\ ToSet(Append(s, t)) = ToSet(s) \cup {t}
         /\ t \notin ToSet(s) /\ Distinct(s) => Distinct(Append(s, t))
<1> DEFINE n == Len(s)
<1>1. /\ n \in Nat /\ Append(s, t) \in Seq(Tasks) /\ Len(Append(s, t)) = n + 1
      /\ Append(s, t)[n + 1] = t
      /\ \A i \in 1..n : Append(s, t)[i] = s[i]
  OBVIOUS
<1>2. ToSet(s) = {s[i] : i \in 1..n} /\ ToSet(Append(s, t)) = {Append(s, t)[i] : i \in 1..(n + 1)}
  BY <1>1 DEF ToSet
<1> HIDE DEF n
<1>3. 1..(n + 1) = (1..n) \cup {n + 1}
  BY <1>1
<1>4. ToSet(Append(s, t)) = ToSet(s) \cup {t}
  BY <1>1, <1>2, <1>3
<1>5. ASSUME t \notin ToSet(s), Distinct(s) PROVE Distinct(Append(s, t))
  <2>1. \A i \in 1..n : s[i] # t
    BY <1>2, <1>5
  <2>2. \A i, j \in 1..n : s[i] = s[j] => i = j
    BY <1>5 DEF Distinct, n
  <2> QED BY <1>1, <1>3, <2>1, <2>2 DEF Distinct
<1> QED BY <1>1, <1>4, <1>5 DEF n

\* An inbox of one handoff, and the empty inbox.
LEMMA QueueSingle ==
  ASSUME NEW t \in Tasks
  PROVE  /\ <<t>> \in Seq(Tasks) /\ Len(<<t>>) = 1 /\ ToSet(<<t>>) = {t} /\ Distinct(<<t>>)
         /\ <<>> \in Seq(Tasks) /\ ToSet(<<>>) = {}
<1>1. Len(<<t>>) = 1 /\ <<t>>[1] = t /\ 1..1 = {1} /\ DOMAIN <<t>> = 1..1
  OBVIOUS
<1>2. ToSet(<<t>>) = {t}
  BY <1>1 DEF ToSet
<1>3. ToSet(<<>>) = {}
  BY DEF ToSet
<1> QED BY <1>1, <1>2, <1>3 DEF Distinct

-----------------------------------------------------------------------------
(* Types                                                                   *)

AttemptRecords == [pc : AttemptPcs, created : BOOLEAN]

\* The record of one attempt is replaced, and no other moves.
LEMMA MoveFacts ==
  ASSUME attempt \in [Tasks -> [Paths -> AttemptRecords]],
         NEW t \in Tasks, NEW p \in Paths, NEW r \in AttemptRecords,
         attempt' = [attempt EXCEPT ![t] = [attempt[t] EXCEPT ![p] = r]]
  PROVE  /\ attempt' \in [Tasks -> [Paths -> AttemptRecords]]
         /\ attempt'[t][p] = r
         /\ \A q \in Paths \ {p} : attempt'[t][q] = attempt[t][q]
         /\ \A u \in Tasks \ {t} : attempt'[u] = attempt[u]
<1> DEFINE f == [attempt[t] EXCEPT ![p] = r]
<1>1. f \in [Paths -> AttemptRecords] /\ f[p] = r /\ \A q \in Paths \ {p} : f[q] = attempt[t][q]
  OBVIOUS
<1> HIDE DEF f
<1> QED BY <1>1

\* An attempt that goes on keeps what it read of the edge.
LEMMA GotoFacts ==
  ASSUME attempt \in [Tasks -> [Paths -> AttemptRecords]],
         NEW t \in Tasks, NEW p \in Paths, NEW pc \in AttemptPcs, Goto(t, p, pc)
  PROVE  /\ attempt' \in [Tasks -> [Paths -> AttemptRecords]]
         /\ attempt'[t][p].pc = pc
         /\ attempt'[t][p].created = attempt[t][p].created
         /\ \A q \in Paths \ {p} : attempt'[t][q] = attempt[t][q]
         /\ \A u \in Tasks \ {t} : attempt'[u] = attempt[u]
<1> DEFINE r == [attempt[t][p] EXCEPT !.pc = pc]
<1>1. attempt' = [attempt EXCEPT ![t] = [attempt[t] EXCEPT ![p] = r]]
  BY DEF Goto
<1>2. r \in AttemptRecords /\ r.pc = pc /\ r.created = attempt[t][p].created
  BY DEF AttemptRecords
<1> HIDE DEF r
<1> QED BY <1>1, <1>2, MoveFacts

\* Reading the edge settles the attempt or takes the lock of the handoff.
LEMMA ReadFacts ==
  ASSUME attempt \in [Tasks -> [Paths -> AttemptRecords]],
         NEW t \in Tasks, NEW p \in Paths, DeliverRead(t, p)
  PROVE  /\ attempt' \in [Tasks -> [Paths -> AttemptRecords]]
         /\ attempt'[t][p].pc \in {"settle", "get"}
         /\ attempt'[t][p].pc = "get" => edge[t] # "cancelled"
         /\ attempt'[t][p].pc = "settle" => edge[t] \in {"cancelled", "responded", "closed"}
         /\ attempt'[t][p].created <=> edge[t] = "created"
         /\ \A q \in Paths \ {p} : attempt'[t][q] = attempt[t][q]
         /\ \A u \in Tasks \ {t} : attempt'[u] = attempt[u]
<1> DEFINE pc == IF edge[t] \in {"cancelled", "responded", "closed"} THEN "settle" ELSE "get"
           r == [pc |-> pc, created |-> edge[t] = "created"]
<1>1. attempt' = [attempt EXCEPT ![t] = [attempt[t] EXCEPT ![p] = r]]
  BY DEF DeliverRead
<1>2. r \in AttemptRecords /\ r.pc = pc /\ r.created = (edge[t] = "created")
  BY DEF AttemptRecords, AttemptPcs
<1> HIDE DEF r
<1> QED BY <1>1, <1>2, MoveFacts

\* What the run and its queue are after an enqueue.
LEMMA EnqueueFacts ==
  ASSUME TypeOK, NEW t \in Tasks, NEW p \in Paths, DeliverEnqueue(t, p)
  PROVE  /\ run' \in [status : Statuses, inbox : Seq(Tasks), iter : Nat, last : Tasks \cup {NoTask}]
         /\ Len(run'.inbox) <= MaxInbox
         /\ excused' \subseteq Tasks
         /\ \/ InboxFull /\ run' = run /\ excused' = excused /\ Goto(t, p, "fail")
            \/ /\ ~InboxFull
               /\ Goto(t, p, "signal")
               /\ excused' = excused \cup (Queued \ Queued')
               /\ t \in Queued' /\ Queued' \subseteq Queued \cup {t}
               /\ t \notin Queued /\ Distinct(run.inbox) => Distinct(run'.inbox)
               /\ run'.last = run.last
               /\ run.status = "running" => run'.status = "running" /\ run'.iter = run.iter
               /\ run'.status \in {"queued", "running"}
<1>1. /\ run \in [status : Statuses, inbox : Seq(Tasks), iter : Nat, last : Tasks \cup {NoTask}]
      /\ run.inbox \in Seq(Tasks) /\ Len(run.inbox) \in Nat /\ Len(run.inbox) <= MaxInbox
      /\ excused \subseteq Tasks
  BY DEF TypeOK
<1>2. CASE InboxFull
  BY <1>1, <1>2 DEF DeliverEnqueue
<1>3. CASE ~InboxFull
  <2> DEFINE box == IF Reentered THEN <<t>> ELSE Append(run.inbox, t)
             n == IF Reentered THEN 0 ELSE run.iter
             st == IF run.status = "running" THEN "running" ELSE "queued"
  <2>1. run' = [run EXCEPT !.inbox = box, !.iter = n, !.status = st]
    BY <1>3 DEF DeliverEnqueue, Enqueued
  <2>2. /\ box \in Seq(Tasks) /\ Len(box) <= MaxInbox
        /\ t \in ToSet(box) /\ ToSet(box) \subseteq ToSet(run.inbox) \cup {t}
        /\ t \notin ToSet(run.inbox) /\ Distinct(run.inbox) => Distinct(box)
    BY <1>1, <1>3, QueueAppend, QueueSingle, RoleRunAssumption DEF InboxFull
  <2>3. n \in Nat /\ st \in {"queued", "running"} /\ (run.status = "running" => st = "running" /\ n = run.iter)
    BY <1>1 DEF Reentered
  <2> HIDE DEF box, n, st
  <2>4. /\ run' \in [status : Statuses, inbox : Seq(Tasks), iter : Nat, last : Tasks \cup {NoTask}]
        /\ run'.inbox = box /\ run'.iter = n /\ run'.status = st /\ run'.last = run.last
    BY <1>1, <2>1, <2>2, <2>3 DEF Statuses
  <2>5. /\ Goto(t, p, "signal")
        /\ excused' = excused \cup (Queued \ Queued')
    BY <1>3 DEF DeliverEnqueue, Queued
  <2>6. Queued \subseteq Tasks
    BY <1>1 DEF Queued, ToSet
  <2> QED BY <1>1, <1>3, <2>2, <2>3, <2>4, <2>5, <2>6 DEF Queued
<1> QED BY <1>2, <1>3

\* A fault is counted, within the bound.
LEMMA FaultFacts ==
  ASSUME TypeOK, NEW kind, Fault(kind)
  PROVE  faults' \in 0..MaxFaults /\ faults' = faults + 1 /\ faults \in Nat /\ faults < MaxFaults
  BY RoleRunAssumption DEF TypeOK, Fault

\* The handoffs that wait, and those an ending loop leaves, are handoffs.
LEMMA QueuedTasks == ASSUME TypeOK PROVE Queued \subseteq Tasks /\ LeftBehind \subseteq Tasks
<1>1. run.inbox \in Seq(Tasks)
  BY DEF TypeOK
<1> QED BY <1>1 DEF Queued, ToSet, LeftBehind

\* Every step of an attempt, the coordinator, the loop or a fault keeps the types.
LEMMA TypeStep ==
  ASSUME TypeOK, LoopInv, DeliveryInv, Next
  PROVE  TypeOK'
<1> USE DEF Paths
<1>0. attempt \in [Tasks -> [Paths -> AttemptRecords]]
  BY DEF TypeOK, AttemptRecords
<1>0a. Queued \subseteq Tasks /\ LeftBehind \subseteq Tasks
  BY QueuedTasks
<1>0b. LoopOff \in [pc : LoopPcs, held : Tasks \cup {NoTask}, aborted : BOOLEAN]
  BY DEF LoopOff, LoopPcs
<1>0c. [LoopOff EXCEPT !.pc = "check"] \in [pc : LoopPcs, held : Tasks \cup {NoTask}, aborted : BOOLEAN]
  BY DEF LoopOff, LoopPcs
<1>1. ASSUME NEW t \in Tasks, Dispatch(t) PROVE TypeOK'
  <2>1. attempt' \in [Tasks -> [Paths -> AttemptRecords]]
    BY <1>0, <1>1, GotoFacts DEF RecordHandoff, Dispatch, AttemptPcs
  <2> QED BY <1>1, <2>1 DEF Dispatch, TypeOK, AttemptRecords, RecordHandoff, EdgeStates, outcomeVars, historyVars
<1>2. ASSUME NEW t \in Tasks, PersistIntent(t) PROVE TypeOK'
  <2>1. attempt' \in [Tasks -> [Paths -> AttemptRecords]]
    BY <1>0, <1>2, GotoFacts DEF PersistIntent, AttemptPcs
  <2> QED BY <1>2, <2>1 DEF PersistIntent, TypeOK, AttemptRecords, outcomeVars, historyVars
<1>3. ASSUME NEW t \in Tasks, PersistIntentFails(t) PROVE TypeOK'
  <2>1. attempt' \in [Tasks -> [Paths -> AttemptRecords]]
    BY <1>0, <1>3, GotoFacts DEF PersistIntentFails, AttemptPcs
  <2> QED BY <1>3, <2>1, FaultFacts DEF PersistIntentFails, TypeOK, AttemptRecords, EdgeStates, outcomeVars, historyVars
<1>4. ASSUME NEW t \in Tasks, DrainStart(t) PROVE TypeOK'
  <2>1. attempt' \in [Tasks -> [Paths -> AttemptRecords]]
    BY <1>0, <1>4, GotoFacts DEF DrainStart, AttemptPcs
  <2> QED BY <1>4, <2>1 DEF DrainStart, TypeOK, AttemptRecords, outcomeVars, historyVars
<1>5. ASSUME NEW t \in Tasks, DrainOvertakes(t) PROVE TypeOK'
  <2>1. attempt' \in [Tasks -> [Paths -> AttemptRecords]]
    BY <1>0, <1>5, GotoFacts DEF DrainOvertakes, AttemptPcs
  <2> QED BY <1>5, <2>1, FaultFacts DEF DrainOvertakes, TypeOK, AttemptRecords, outcomeVars
<1>6. ASSUME NEW t \in Tasks, NEW p \in Paths, DeliverRead(t, p) PROVE TypeOK'
  <2>1. attempt' \in [Tasks -> [Paths -> AttemptRecords]]
    BY <1>0, <1>6, ReadFacts
  <2> QED BY <1>6, <2>1 DEF DeliverRead, TypeOK, AttemptRecords, outcomeVars, historyVars
<1>7. ASSUME NEW t \in Tasks, NEW p \in Paths, DeliverGet(t, p) PROVE TypeOK'
  <2>1. attempt' \in [Tasks -> [Paths -> AttemptRecords]]
    BY <1>0, <1>7, GotoFacts DEF DeliverGet, AttemptPcs
  <2> QED BY <1>7, <2>1 DEF DeliverGet, TypeOK, AttemptRecords, outcomeVars, historyVars
<1>8. ASSUME NEW t \in Tasks, NEW p \in Paths, DeliverEnqueue(t, p) PROVE TypeOK'
  <2>1. attempt' \in [Tasks -> [Paths -> AttemptRecords]]
    BY <1>0, <1>8, GotoFacts DEF DeliverEnqueue, AttemptPcs
  <2>2. /\ run' \in [status : Statuses, inbox : Seq(Tasks), iter : Nat, last : Tasks \cup {NoTask}]
        /\ Len(run'.inbox) <= MaxInbox
        /\ excused' \subseteq Tasks
    BY <1>8, EnqueueFacts
  <2> QED BY <1>8, <2>1, <2>2 DEF DeliverEnqueue, TypeOK, AttemptRecords, outcomeVars
<1>9. ASSUME NEW t \in Tasks, NEW p \in Paths, DeliverSignal(t, p) PROVE TypeOK'
  <2>1. attempt' \in [Tasks -> [Paths -> AttemptRecords]]
    BY <1>0, <1>9, GotoFacts DEF DeliverSignal, AttemptPcs
  <2> QED BY <1>9, <2>1 DEF DeliverSignal, TypeOK, AttemptRecords, EnsureRunning, LoopOff, LoopPcs, outcomeVars, historyVars
<1>10. ASSUME NEW t \in Tasks, NEW p \in Paths, DeliverMark(t, p) PROVE TypeOK'
  <2>1. attempt' \in [Tasks -> [Paths -> AttemptRecords]]
    BY <1>0, <1>10, GotoFacts DEF DeliverMark, AttemptPcs
  <2> QED BY <1>10, <2>1 DEF DeliverMark, TypeOK, AttemptRecords, EdgeStates, outcomeVars, historyVars
<1>11. ASSUME NEW t \in Tasks, NEW p \in Paths, DeliverMarkFails(t, p) PROVE TypeOK'
  <2>1. attempt' \in [Tasks -> [Paths -> AttemptRecords]]
    BY <1>0, <1>11, GotoFacts DEF DeliverMarkFails, AttemptPcs
  <2> QED BY <1>11, <2>1, FaultFacts DEF DeliverMarkFails, TypeOK, AttemptRecords, outcomeVars
<1>12. ASSUME NEW t \in Tasks, NEW p \in Paths, DeliverSettle(t, p) PROVE TypeOK'
  <2>1. attempt' \in [Tasks -> [Paths -> AttemptRecords]]
    BY <1>0, <1>12, GotoFacts DEF DeliverSettle, AttemptPcs
  <2> QED BY <1>12, <2>1 DEF DeliverSettle, TypeOK, AttemptRecords, outcomeVars, historyVars
<1>13. ASSUME NEW t \in Tasks, FastFails(t) PROVE TypeOK'
  <2>1. attempt' \in [Tasks -> [Paths -> AttemptRecords]]
    BY <1>0, <1>13, GotoFacts DEF FastFails, AttemptPcs
  <2> QED BY <1>13, <2>1 DEF FastFails, TypeOK, AttemptRecords, outcomeVars, historyVars
<1>14. ASSUME NEW t \in Tasks, DrainFails(t) PROVE TypeOK'
  <2>1. attempt' \in [Tasks -> [Paths -> AttemptRecords]]
    BY <1>0, <1>14, GotoFacts DEF DrainFails, AttemptPcs
  <2>2. intent[t] = "owed" => retries[t] + 1 \in 0..(MaxRetries + 1)
    BY RoleRunAssumption DEF TypeOK, DeliveryInv, Delivering
  <2>3. retries' \in [Tasks -> 0..(MaxRetries + 1)]
    BY <1>14, <2>2 DEF DrainFails, TypeOK
  <2>4. intent' \in [Tasks -> {"none", "owed", "settled", "dropped"}]
    BY <1>14 DEF DrainFails, TypeOK
  <2> QED BY <1>14, <2>1, <2>3, <2>4 DEF DrainFails, TypeOK, AttemptRecords, outcomeVars, historyVars
<1>15. ASSUME NEW t \in Tasks, AbandonRead(t) PROVE TypeOK'
  <2>1. attempt' \in [Tasks -> [Paths -> AttemptRecords]]
    BY <1>0, <1>15, GotoFacts DEF AbandonRead, AttemptPcs
  <2> QED BY <1>15, <2>1 DEF AbandonRead, TypeOK, AttemptRecords, outcomeVars, historyVars
<1>16. ASSUME NEW t \in Tasks, AbandonCancel(t) PROVE TypeOK'
  <2>1. attempt' \in [Tasks -> [Paths -> AttemptRecords]]
    BY <1>0, <1>16, GotoFacts DEF AbandonCancel, AttemptPcs
  <2> QED BY <1>16, <2>1 DEF AbandonCancel, TypeOK, AttemptRecords, EdgeStates, outcomeVars, historyVars
<1>41. ASSUME NEW t \in Tasks, AbandonFails(t) PROVE TypeOK'
  <2>1. attempt' \in [Tasks -> [Paths -> AttemptRecords]]
    BY <1>0, <1>41, GotoFacts DEF AbandonFails, AttemptPcs
  <2>2. faults' \in 0..MaxFaults
    BY <1>41, FaultFacts DEF AbandonFails
  <2> QED BY <1>41, <2>1, <2>2 DEF AbandonFails, TypeOK, AttemptRecords, outcomeVars
<1>17. ASSUME LoopStart PROVE TypeOK'
  BY <1>17 DEF LoopStart, TypeOK, LoopAt, LoopTo, LoopPcs, deliveryVars, outcomeVars, historyVars
<1>18. ASSUME LoopSetRunning PROVE TypeOK'
  BY <1>18 DEF LoopSetRunning, TypeOK, LoopAt, LoopTo, LoopPcs, deliveryVars, outcomeVars, historyVars, Statuses
<1>19. ASSUME LoopCheck PROVE TypeOK'
  BY <1>19 DEF LoopCheck, TypeOK, LoopAt, LoopTo, LoopPcs, deliveryVars, outcomeVars, historyVars
<1>20. ASSUME LoopDequeue PROVE TypeOK'
  <2>1. /\ run.inbox \in Seq(Tasks) /\ Len(run.inbox) \in Nat /\ Len(run.inbox) <= MaxInbox
        /\ run \in [status : Statuses, inbox : Seq(Tasks), iter : Nat, last : Tasks \cup {NoTask}]
    BY DEF TypeOK
  <2>2. /\ run' \in [status : Statuses, inbox : Seq(Tasks), iter : Nat, last : Tasks \cup {NoTask}]
        /\ Len(run'.inbox) <= MaxInbox
        /\ loop' \in [pc : LoopPcs, held : Tasks \cup {NoTask}, aborted : BOOLEAN]
    <3>1. CASE run.inbox = <<>>
      BY <1>20, <2>1, <3>1 DEF LoopDequeue, LoopTo, LoopPcs, TypeOK
    <3>2. CASE run.inbox # <<>>
      <4>1. /\ Tail(run.inbox) \in Seq(Tasks) /\ Head(run.inbox) \in Tasks
            /\ Len(Tail(run.inbox)) <= MaxInbox
        BY <2>1, <3>2, QueueTail, RoleRunAssumption
      <4> QED BY <1>20, <2>1, <3>2, <4>1 DEF LoopDequeue, LoopPcs, TypeOK
    <3> QED BY <3>1, <3>2
  <2> QED BY <1>20, <2>2 DEF LoopDequeue, TypeOK, deliveryVars, outcomeVars, historyVars
<1>21. ASSUME LoopSetIdle PROVE TypeOK'
  BY <1>21, <1>0a, <1>0b, <1>0c, FaultFacts DEF LoopSetIdle, TypeOK, LoopAt, LoopTo, LoopPcs, deliveryVars, outcomeVars, Statuses, LoopExit, LoopPcs
<1>22. ASSUME LoopIncrement PROVE TypeOK'
  <2>1. run.iter + 1 \in Nat
    BY DEF TypeOK
  <2> QED BY <1>22, <2>1 DEF LoopIncrement, TypeOK, LoopAt, LoopTo, LoopPcs, deliveryVars, outcomeVars, historyVars
<1>23. ASSUME LoopAck PROVE TypeOK'
  <2>1. loop.held \in Tasks /\ activations[loop.held] + 1 \in Nat
    BY <1>23 DEF LoopAck, LoopInv, HoldingPcs, LoopAt, TypeOK
  <2>2. activations' \in [Tasks -> Nat]
    BY <1>23, <2>1 DEF LoopAck, TypeOK
  <2> QED BY <1>23, <2>1, <2>2 DEF LoopAck, TypeOK, LoopAt, LoopTo, LoopPcs, deliveryVars, outcomeVars, LoopInv, HoldingPcs
<1>24. ASSUME NEW t \in Tasks, EdgeAck(t) PROVE TypeOK'
  BY <1>24 DEF EdgeAck, TypeOK, deliveryVars, outcomeVars, historyVars, AckedState, EdgeStates
<1>25. ASSUME Cancel PROVE TypeOK'
  BY <1>25 DEF Cancel, TypeOK, LoopAt, LoopTo, LoopPcs, deliveryVars, outcomeVars, historyVars
<1>26. ASSUME NEW ok \in BOOLEAN, ActivationEnds(ok) PROVE TypeOK'
  BY <1>26 DEF ActivationEnds, TypeOK, LoopAt, LoopTo, LoopPcs, deliveryVars, outcomeVars, historyVars
<1>27. ASSUME LoopFail PROVE TypeOK'
  BY <1>27 DEF LoopFail, TypeOK, LoopAt, LoopTo, LoopPcs, deliveryVars, outcomeVars, historyVars, Statuses
<1>28. ASSUME LoopAnswer PROVE TypeOK'
  BY <1>28 DEF LoopAnswer, TypeOK, LoopAt, LoopTo, LoopPcs, deliveryVars, historyVars, Stages, LoopInv, HoldingPcs
<1>29. ASSUME LoopAwait PROVE TypeOK'
  BY <1>29, <1>0a, <1>0b, <1>0c, FaultFacts DEF LoopAwait, TypeOK, LoopAt, LoopTo, LoopPcs, deliveryVars, outcomeVars, LoopResume, LoopExit, LoopPcs
<1>30. ASSUME LoopThrows PROVE TypeOK'
  BY <1>30, <1>0a, <1>0b, <1>0c, FaultFacts DEF LoopThrows, TypeOK, LoopAt, LoopTo, LoopPcs, deliveryVars, outcomeVars, Unanswered, LoopInv, HoldingPcs
<1>31. ASSUME NEW t \in Tasks, Respond(t) PROVE TypeOK'
  BY <1>31 DEF Respond, TypeOK, deliveryVars, historyVars, EdgeStates, Stages
<1>32. ASSUME NEW t \in Tasks, Close(t) PROVE TypeOK'
  BY <1>32 DEF Close, TypeOK, deliveryVars, historyVars, EdgeStates, Stages
<1>33. ASSUME NEW t \in Tasks, PlanRetry(t) PROVE TypeOK'
  <2>1. retryCount' \in 0..ShardRetries
    BY <1>33, RoleRunAssumption DEF PlanRetry, TypeOK
  <2> QED BY <1>33, <2>1 DEF PlanRetry, TypeOK, deliveryVars, historyVars, Stages
<1>34. ASSUME NEW t \in Tasks, NEW u \in Tasks, DispatchRetry(t, u) PROVE TypeOK'
  <2>1. attempt' \in [Tasks -> [Paths -> AttemptRecords]]
    BY <1>0, <1>34, GotoFacts DEF RecordHandoff, DispatchRetry, AttemptPcs
  <2> QED BY <1>34, <2>1 DEF DispatchRetry, RecordHandoff, TypeOK, AttemptRecords, EdgeStates, Stages, historyVars
<1>35. ASSUME NEW t \in Tasks, DispatchRefused(t) PROVE TypeOK'
  BY <1>35 DEF DispatchRefused, TypeOK, deliveryVars, historyVars, Stages
<1>36. ASSUME NEW t \in Tasks, RetryDelivered(t) PROVE TypeOK'
  BY <1>36 DEF RetryDelivered, TypeOK, deliveryVars, historyVars, Stages
<1>37. ASSUME NEW t \in Tasks, OutcomeFails(t) PROVE TypeOK'
  BY <1>37, <1>0a, <1>0b, <1>0c, FaultFacts DEF OutcomeFails, TypeOK, deliveryVars, Rematerialize, LoopResume, LoopExit, LoopPcs, Stages
<1>38. ASSUME NEW t \in Tasks, RetryThrows(t) PROVE TypeOK'
  BY <1>38, <1>0a, <1>0b, <1>0c, FaultFacts DEF RetryThrows, TypeOK, deliveryVars, Rematerialize, LoopResume, LoopExit, LoopPcs, Stages
<1>39. ASSUME Crash PROVE TypeOK'
  BY <1>39, <1>0a, <1>0b, <1>0c, FaultFacts DEF Crash, TypeOK, Idle, AttemptPcs, LoopPcs, Stages, LostByCrash, Unanswered, LoopInv, HoldingPcs
<1>40. ASSUME Recover PROVE TypeOK'
  BY <1>40 DEF Recover, TypeOK, deliveryVars, outcomeVars, historyVars, EmptyQueued, Restartable, EnsureRunning, LoopOff, LoopPcs, Statuses
<1> QED BY <1>1, <1>2, <1>3, <1>4, <1>5, <1>6, <1>7, <1>8, <1>9, <1>10, <1>11, <1>12, <1>13, <1>14, <1>15, <1>16, <1>17, <1>18, <1>19, <1>20, <1>21, <1>22, <1>23, <1>24, <1>25, <1>26, <1>27, <1>28, <1>29, <1>30, <1>31, <1>32, <1>33, <1>34, <1>35, <1>36, <1>37, <1>38, <1>39, <1>40, <1>41 DEF Next, Deliver, LoopStep, Materialize
-----------------------------------------------------------------------------
(* What the actions do to a handoff                                        *)

\* The loop takes handoffs from the inbox and makes none known to the run that
\* was not; it touches no edge, no intent and no attempt.
LEMMA LoopEffects ==
  ASSUME TypeOK, LoopInv, LoopStep \/ LoopThrows \/ Cancel
  PROVE  /\ UNCHANGED <<edge, intent, attempt, retries, child, retryCount, recovering, replayed>>
         /\ Queued' \subseteq Queued
         /\ \A u \in Tasks : Seen(u)' => Seen(u)
         /\ \A u \in Tasks : activations'[u] = activations[u] \/ Seen(u)
         /\ \A u \in Tasks : stage'[u] = stage[u] \/ stage'[u] = "respond"
         /\ Distinct(run.inbox) => Distinct(run'.inbox)
<1> DEFINE Effects ==
         /\ UNCHANGED <<edge, intent, attempt, retries, child, retryCount, recovering, replayed>>
         /\ Queued' \subseteq Queued
         /\ \A u \in Tasks : Seen(u)' => Seen(u)
         /\ \A u \in Tasks : activations'[u] = activations[u] \/ Seen(u)
         /\ \A u \in Tasks : stage'[u] = stage[u] \/ stage'[u] = "respond"
         /\ Distinct(run.inbox) => Distinct(run'.inbox)
<1> USE DEF deliveryVars, outcomeVars, historyVars, LoopAt, LoopTo
<1>0. /\ run \in [status : Statuses, inbox : Seq(Tasks), iter : Nat, last : Tasks \cup {NoTask}]
      /\ loop \in [pc : LoopPcs, held : Tasks \cup {NoTask}, aborted : BOOLEAN]
      /\ NoTask \notin Tasks
      /\ LoopOff.held = NoTask
      /\ run.inbox \in Seq(Tasks)
  BY RoleRunAssumption DEF TypeOK, LoopOff
<1>1. ASSUME LoopStart PROVE Effects
  BY <1>0, <1>1 DEF LoopStart, Seen, Queued
<1>2. ASSUME LoopSetRunning PROVE Effects
  BY <1>0, <1>2 DEF LoopSetRunning, Seen, Queued
<1>3. ASSUME LoopCheck PROVE Effects
  BY <1>0, <1>3 DEF LoopCheck, Seen, Queued
<1>4. ASSUME LoopDequeue PROVE Effects
  <2>1. CASE run.inbox = <<>>
    BY <1>0, <1>4, <2>1 DEF LoopDequeue, Seen, Queued
  <2>2. CASE run.inbox # <<>>
    <3>1. /\ run'.inbox = Tail(run.inbox) /\ run'.last = run.last
          /\ loop'.held = Head(run.inbox)
      BY <1>0, <1>4, <2>2 DEF LoopDequeue
    <3>2. /\ Head(run.inbox) \in Queued
          /\ Queued' \subseteq Queued
          /\ Distinct(run.inbox) => Distinct(run'.inbox)
      BY <1>0, <2>2, <3>1, QueueTail DEF Queued
    <3> QED BY <1>4, <2>2, <3>1, <3>2 DEF LoopDequeue, Seen
  <2> QED BY <2>1, <2>2
<1>5. ASSUME LoopSetIdle PROVE Effects
  BY <1>0, <1>5 DEF LoopSetIdle, LoopExit, Seen, Queued
<1>6. ASSUME LoopIncrement PROVE Effects
  BY <1>0, <1>6 DEF LoopIncrement, Seen, Queued
<1>7. ASSUME LoopAck PROVE Effects
  <2>1. loop.held \in Tasks
    BY <1>7 DEF LoopAck, LoopInv, HoldingPcs
  <2> QED BY <1>0, <1>7, <2>1 DEF LoopAck, Seen, Queued, TypeOK
<1>8. ASSUME NEW ok \in BOOLEAN, ActivationEnds(ok) PROVE Effects
  BY <1>0, <1>8 DEF ActivationEnds, Seen, Queued
<1>9. ASSUME LoopFail PROVE Effects
  BY <1>0, <1>9 DEF LoopFail, Seen, Queued
<1>10. ASSUME LoopAnswer PROVE Effects
  <2>1. loop.held \in Tasks
    BY <1>10 DEF LoopAnswer, LoopInv, HoldingPcs
  <2> QED BY <1>0, <1>10, <2>1 DEF LoopAnswer, Seen, Queued, TypeOK
<1>11. ASSUME LoopAwait PROVE Effects
  BY <1>0, <1>11 DEF LoopAwait, LoopResume, LoopExit, LoopOff, Seen, Queued
<1>12. ASSUME LoopThrows PROVE Effects
  BY <1>0, <1>12 DEF LoopThrows, Seen, Queued
<1>13. ASSUME Cancel PROVE Effects
  BY <1>0, <1>13 DEF Cancel, Seen, Queued
<1> QED BY <1>1, <1>2, <1>3, <1>4, <1>5, <1>6, <1>7, <1>8, <1>9, <1>10, <1>11, <1>12, <1>13
        DEF LoopStep

\* The materialisation of an outcome, but for the dispatch of a retry.
Answering(t) ==
  \/ Respond(t)
  \/ Close(t)
  \/ PlanRetry(t)
  \/ DispatchRefused(t)
  \/ RetryDelivered(t)
  \/ OutcomeFails(t)
  \/ RetryThrows(t)

\* It changes the edge of a handoff that was answered and of no other, and it
\* may let a waiting loop go.
LEMMA AnsweringEffects ==
  ASSUME TypeOK, NEW t \in Tasks, Answering(t)
  PROVE  /\ UNCHANGED <<run, intent, attempt, retries, acks, outcome, recovering, replayed, activations>>
         /\ stage[t] # "none" /\ stage'[t] # "none"
         /\ \A u \in Tasks \ {t} : stage'[u] = stage[u] /\ edge'[u] = edge[u]
         /\ edge'[t] \in {edge[t], "responded", "closed"}
         /\ edge[t] = "closed" /\ edge'[t] # "closed" => stage[t] = "respond"
         /\ stage'[t] \in {"plan", "dispatch", "child", "done"} =>
              edge'[t] = "closed" \/ (edge'[t] = edge[t] /\ stage[t] \in {"plan", "dispatch", "child"})
         /\ \A u \in Tasks : Seen(u)' => Seen(u)
         /\ loop' = loop \/ (loop.pc = "await" /\ LoopResume)
<1> USE DEF deliveryVars, outcomeVars, historyVars
<1>0. /\ edge \in [Tasks -> EdgeStates] /\ stage \in [Tasks -> Stages]
      /\ NoTask \notin Tasks
      /\ LoopOff.held = NoTask /\ [LoopOff EXCEPT !.pc = "check"].held = NoTask
  BY RoleRunAssumption DEF TypeOK, LoopOff
<1>1. CASE Respond(t)
  BY <1>0, <1>1 DEF Respond, Seen, Queued
<1>2. CASE Close(t)
  BY <1>0, <1>2 DEF Close, Seen, Queued
<1>3. CASE PlanRetry(t)
  BY <1>0, <1>3 DEF PlanRetry, Seen, Queued
<1>4. CASE DispatchRefused(t)
  BY <1>0, <1>4 DEF DispatchRefused, Seen, Queued
<1>5. CASE RetryDelivered(t)
  BY <1>0, <1>5 DEF RetryDelivered, Seen, Queued
<1>6. ASSUME Rematerialize(t), stage[t] # "none"
      PROVE  /\ \A u \in Tasks : Seen(u)' => Seen(u)
             /\ loop' = loop \/ (loop.pc = "await" /\ LoopResume)
             /\ stage' = [stage EXCEPT ![t] = "respond"]
             /\ UNCHANGED <<run, edge, intent, attempt, retries, acks, outcome, recovering, replayed, activations>>
  BY <1>0, <1>6 DEF Rematerialize, LoopResume, LoopExit, Seen, Queued
<1>7. CASE OutcomeFails(t)
  BY <1>0, <1>6, <1>7 DEF OutcomeFails
<1>8. CASE RetryThrows(t)
  BY <1>0, <1>6, <1>8 DEF RetryThrows
<1> QED BY <1>1, <1>2, <1>3, <1>4, <1>5, <1>7, <1>8 DEF Answering
-----------------------------------------------------------------------------
(* The base of the invariant                                               *)

\* The loop and the run keep together at every step.
LEMMA LoopStepInv ==
  ASSUME TypeOK, LoopInv, Next
  PROVE  LoopInv'
<1> USE DEF deliveryVars, outcomeVars, historyVars, LoopAt, LoopTo
<1>0. /\ run \in [status : Statuses, inbox : Seq(Tasks), iter : Nat, last : Tasks \cup {NoTask}]
      /\ loop \in [pc : LoopPcs, held : Tasks \cup {NoTask}, aborted : BOOLEAN]
      /\ stage \in [Tasks -> Stages] /\ outcome \in [Tasks -> {"none", "reply", "failure"}]
      /\ MaxIterations \in Nat \ {0}
      /\ LoopOff.pc = "off"
      /\ loop.pc = "await" => loop.held \in Tasks
  BY RoleRunAssumption DEF TypeOK, LoopOff, LoopInv
<1>1. ASSUME UNCHANGED <<run, loop, outcome>>,
             \A u \in Tasks : stage[u] # "none" => stage'[u] # "none"
      PROVE  LoopInv'
  BY <1>0, <1>1 DEF LoopInv, LoopOwnsRun
<1>2. ASSUME loop'.pc = "off" PROVE LoopInv'
  BY <1>2 DEF LoopInv, LoopOwnsRun, HoldingPcs
<1>3. ASSUME loop.pc = "await", LoopResume, UNCHANGED run PROVE LoopInv'
  <2>1. CASE outcome[loop.held] = "reply"
    BY <1>0, <1>3, <2>1 DEF LoopResume, LoopOff, LoopInv, LoopOwnsRun, HoldingPcs
  <2>2. CASE outcome[loop.held] # "reply"
    BY <1>2, <1>3, <1>0, <2>2 DEF LoopResume, LoopExit
  <2> QED BY <2>1, <2>2
<1>4. ASSUME NEW t \in Tasks, Answering(t) PROVE LoopInv'
  BY <1>0, <1>1, <1>3, <1>4, AnsweringEffects
<1>5. ASSUME NEW t \in Tasks, NEW p \in Paths, DeliverEnqueue(t, p) PROVE LoopInv'
  BY <1>0, <1>1, <1>5, EnqueueFacts DEF DeliverEnqueue, LoopInv, LoopOwnsRun
<1>6. ASSUME NEW t \in Tasks, NEW p \in Paths, DeliverSignal(t, p) PROVE LoopInv'
  <2>1. loop' = loop \/ loop' = [LoopOff EXCEPT !.pc = "start"]
    BY <1>6 DEF DeliverSignal, EnsureRunning
  <2>2. ASSUME loop' = [LoopOff EXCEPT !.pc = "start"] PROVE LoopInv'
    BY <2>2 DEF LoopOff, LoopInv, LoopOwnsRun, HoldingPcs
  <2> QED BY <1>1, <1>6, <2>1, <2>2 DEF DeliverSignal
<1>7. ASSUME NEW t \in Tasks, Dispatch(t) \/ Deliver(t) \/ EdgeAck(t) PROVE LoopInv'
  <2> SUFFICES ASSUME ~\E p \in Paths : DeliverEnqueue(t, p) \/ DeliverSignal(t, p)
               PROVE  UNCHANGED <<run, loop, outcome, stage>>
    BY <1>1, <1>5, <1>6, <1>7
  <2> QED BY <1>7 DEF Dispatch, Deliver, EdgeAck, PersistIntent, PersistIntentFails, DrainStart,
            DrainOvertakes, DeliverRead, DeliverGet, DeliverMark, DeliverMarkFails, DeliverSettle,
            FastFails, DrainFails, AbandonRead, AbandonCancel, AbandonFails
<1>8. ASSUME NEW t \in Tasks, NEW u \in Tasks, DispatchRetry(t, u) PROVE LoopInv'
  BY <1>0, <1>1, <1>8 DEF DispatchRetry
<1>9. ASSUME LoopStart PROVE LoopInv'
  BY <1>0, <1>9 DEF LoopStart, LoopInv, LoopOwnsRun, HoldingPcs
<1>10. ASSUME LoopSetRunning PROVE LoopInv'
  BY <1>0, <1>10 DEF LoopSetRunning, LoopInv, LoopOwnsRun, HoldingPcs
<1>11. ASSUME LoopCheck PROVE LoopInv'
  BY <1>0, <1>11 DEF LoopCheck, BudgetSpent, LoopInv, LoopOwnsRun, HoldingPcs
<1>12. ASSUME LoopDequeue PROVE LoopInv'
  <2>1. CASE run.inbox = <<>>
    BY <1>0, <1>12, <2>1 DEF LoopDequeue, LoopInv, LoopOwnsRun, HoldingPcs
  <2>2. CASE run.inbox # <<>>
    <3>1. Head(run.inbox) \in Tasks
      BY <1>0, <2>2, QueueTail
    <3>2. /\ run'.status = run.status /\ run'.iter = run.iter
          /\ loop'.held = Head(run.inbox)
          /\ loop'.pc = IF loop.pc = "dequeue" THEN "increment" ELSE "limitFail"
      BY <1>0, <1>12, <2>2 DEF LoopDequeue
    <3> QED BY <1>0, <1>12, <3>1, <3>2 DEF LoopDequeue, LoopInv, LoopOwnsRun, HoldingPcs
  <2> QED BY <2>1, <2>2
<1>13. ASSUME LoopSetIdle \/ LoopThrows PROVE LoopInv'
  BY <1>0, <1>2, <1>13 DEF LoopSetIdle, LoopExit, LoopThrows
<1>14. ASSUME LoopIncrement PROVE LoopInv'
  <2>1. run'.iter \in 1..MaxIterations /\ run'.status = run.status
    BY <1>0, <1>14 DEF LoopIncrement, LoopInv
  <2> QED BY <1>0, <1>14, <2>1 DEF LoopIncrement, LoopInv, LoopOwnsRun, HoldingPcs
<1>15. ASSUME LoopAck PROVE LoopInv'
  BY <1>0, <1>15 DEF LoopAck, LoopInv, LoopOwnsRun, HoldingPcs
<1>16. ASSUME Cancel PROVE LoopInv'
  BY <1>0, <1>16 DEF Cancel, LoopInv, LoopOwnsRun, HoldingPcs
<1>17. ASSUME NEW ok \in BOOLEAN, ActivationEnds(ok) PROVE LoopInv'
  BY <1>0, <1>17 DEF ActivationEnds, LoopInv, LoopOwnsRun, HoldingPcs
<1>18. ASSUME LoopFail PROVE LoopInv'
  BY <1>0, <1>18 DEF LoopFail, LoopInv, LoopOwnsRun, HoldingPcs
<1>19. ASSUME LoopAnswer PROVE LoopInv'
  <2>1. loop.held \in Tasks /\ loop'.pc = "await" /\ loop'.held = loop.held /\ run' = run
    BY <1>0, <1>19 DEF LoopAnswer, LoopInv, HoldingPcs
  <2>2. stage'[loop.held] = "respond" /\ (outcome'[loop.held] = "reply" => loop.pc = "reply")
    BY <1>0, <1>19, <2>1 DEF LoopAnswer
  <2> QED BY <2>1, <2>2 DEF LoopInv, LoopOwnsRun, HoldingPcs
<1>20. ASSUME LoopAwait PROVE LoopInv'
  BY <1>3, <1>20 DEF LoopAwait
<1>21. ASSUME Crash PROVE LoopInv'
  BY <1>0, <1>2, <1>21 DEF Crash
<1>22. ASSUME Recover PROVE LoopInv'
  <2>1. loop' = loop \/ loop' = [LoopOff EXCEPT !.pc = "start"]
    BY <1>22 DEF Recover, EnsureRunning
  <2>2. ASSUME loop' = [LoopOff EXCEPT !.pc = "start"] PROVE LoopInv'
    BY <2>2 DEF LoopOff, LoopInv, LoopOwnsRun, HoldingPcs
  <2>3. ASSUME loop' = loop PROVE LoopInv'
    BY <1>0, <1>22, <2>3 DEF Recover, EmptyQueued, LoopInv, LoopOwnsRun
  <2> QED BY <2>1, <2>2, <2>3
<1> QED BY <1>4, <1>7, <1>8, <1>9, <1>10, <1>11, <1>12, <1>13, <1>14, <1>15, <1>16, <1>17, <1>18,
           <1>19, <1>20, <1>21, <1>22 DEF Next, LoopStep, Materialize, Answering

\* Whatever leaves a handoff's records alone keeps what is said of its delivery.
LEMMA DeliveryKept ==
  ASSUME NEW u \in Tasks, Delivering(u), Seen(u)' => Seen(u), u \in Queued' => u \in Queued,
         attempt'[u] = attempt[u], intent'[u] = intent[u], retries'[u] = retries[u],
         activations'[u] = activations[u] \/ Seen(u), edge'[u] = edge[u]
  PROVE  Delivering(u)'
  BY DEF Delivering, Untouched, Unpersisted, ReadHolds

\* Delivery goes by the same rules after every step.
LEMMA DeliveryStepInv ==
  ASSUME TypeOK, LoopInv, DeliveryInv, Next
  PROVE  DeliveryInv'
<1> USE DEF Paths, outcomeVars, historyVars
<1>0. /\ attempt \in [Tasks -> [Paths -> AttemptRecords]]
      /\ edge \in [Tasks -> EdgeStates]
      /\ intent \in [Tasks -> {"none", "owed", "settled", "dropped"}]
      /\ retries \in [Tasks -> 0..(MaxRetries + 1)]
      /\ MaxRetries \in Nat
      /\ \A u \in Tasks : Delivering(u)
  BY RoleRunAssumption DEF TypeOK, AttemptRecords, DeliveryInv
<1>1. ASSUME NEW t \in Tasks, Delivering(t)',
             \A u \in Tasks \ {t} :
               /\ attempt'[u] = attempt[u] /\ intent'[u] = intent[u] /\ retries'[u] = retries[u]
               /\ edge'[u] = edge[u] /\ activations'[u] = activations[u]
               /\ Seen(u)' => Seen(u)
               /\ u \in Queued' => u \in Queued
      PROVE  DeliveryInv'
  BY <1>0, <1>1, DeliveryKept DEF DeliveryInv
<1>2. ASSUME UNCHANGED <<run, loop, acks, stage>>
      PROVE  \A u \in Tasks : Seen(u)' = Seen(u) /\ (u \in Queued') = (u \in Queued)
  BY <1>2 DEF Seen, Queued
<1>3. ASSUME NEW t \in Tasks, RecordHandoff(t), UNCHANGED <<intent, retries, activations>>,
             \A u \in Tasks : Seen(u)' => Seen(u), Queued' = Queued
      PROVE  DeliveryInv'
  <2>1. /\ attempt'[t]["fast"].pc = "persist" /\ attempt'[t]["drain"] = attempt[t]["drain"]
        /\ \A u \in Tasks \ {t} : attempt'[u] = attempt[u]
    BY <1>0, <1>3, GotoFacts DEF RecordHandoff, AttemptPcs
  <2>2. Delivering(t)'
    BY <1>0, <1>3, <2>1 DEF RecordHandoff, Delivering, Untouched, Unpersisted, ReadHolds
  <2> QED BY <1>0, <1>1, <1>3, <2>1, <2>2 DEF RecordHandoff
<1>4. ASSUME NEW t \in Tasks, Dispatch(t) PROVE DeliveryInv'
  BY <1>2, <1>3, <1>4 DEF Dispatch, Queued
<1>5. ASSUME NEW t \in Tasks, PersistIntent(t) PROVE DeliveryInv'
  <2>1. /\ attempt'[t]["fast"].pc = "read" /\ attempt'[t]["drain"] = attempt[t]["drain"]
        /\ \A u \in Tasks \ {t} : attempt'[u] = attempt[u]
    BY <1>0, <1>5, GotoFacts DEF PersistIntent, AttemptPcs
  <2>2. Delivering(t)'
    BY <1>0, <1>2, <1>5, <2>1 DEF PersistIntent, Delivering, Untouched, Unpersisted, ReadHolds
  <2> QED BY <1>0, <1>1, <1>2, <1>5, <2>1, <2>2 DEF PersistIntent
<1>6. ASSUME NEW t \in Tasks, PersistIntentFails(t) PROVE DeliveryInv'
  <2>1. /\ attempt'[t]["fast"].pc = "threw" /\ attempt'[t]["drain"] = attempt[t]["drain"]
        /\ \A u \in Tasks \ {t} : attempt'[u] = attempt[u]
    BY <1>0, <1>6, GotoFacts DEF PersistIntentFails, AttemptPcs
  <2>2. Delivering(t)'
    BY <1>0, <1>2, <1>6, <2>1 DEF PersistIntentFails, Delivering, Untouched, Unpersisted, ReadHolds
  <2> QED BY <1>0, <1>1, <1>2, <1>6, <2>1, <2>2 DEF PersistIntentFails
<1>7. ASSUME NEW t \in Tasks, DrainStart(t) \/ DrainOvertakes(t) PROVE DeliveryInv'
  <2>1. /\ attempt'[t]["drain"].pc = "read" /\ attempt'[t]["fast"] = attempt[t]["fast"]
        /\ \A u \in Tasks \ {t} : attempt'[u] = attempt[u]
    BY <1>0, <1>7, GotoFacts DEF DrainStart, DrainOvertakes, AttemptPcs
  <2>2. Delivering(t)'
    BY <1>0, <1>2, <1>7, <2>1 DEF DrainStart, DrainOvertakes, Delivering, Untouched, Unpersisted, ReadHolds
  <2> QED BY <1>0, <1>1, <1>2, <1>7, <2>1, <2>2 DEF DrainStart, DrainOvertakes
<1>8. ASSUME NEW t \in Tasks, NEW p \in Paths, DeliverRead(t, p) PROVE DeliveryInv'
  <2>1. /\ attempt'[t][p].pc \in {"settle", "get"}
        /\ attempt'[t][p].pc = "get" => edge[t] # "cancelled"
        /\ attempt'[t][p].created <=> edge[t] = "created"
        /\ \A q \in Paths \ {p} : attempt'[t][q] = attempt[t][q]
        /\ \A u \in Tasks \ {t} : attempt'[u] = attempt[u]
    BY <1>0, <1>8, ReadFacts
  <2>2. \A q \in Paths : attempt[t][q].pc \notin {"get", "enqueue", "cancel"}
    BY <1>8 DEF DeliverRead, Locked
  <2>3. Delivering(t)'
    BY <1>0, <1>2, <1>8, <2>1, <2>2 DEF DeliverRead, Delivering, Untouched, Unpersisted, ReadHolds
  <2> QED BY <1>0, <1>1, <1>2, <1>8, <2>1, <2>3 DEF DeliverRead
<1>9. ASSUME NEW t \in Tasks, NEW p \in Paths, DeliverGet(t, p) PROVE DeliveryInv'
  <2>1. /\ attempt'[t][p].pc = IF ShouldEnqueue(t, p) THEN "enqueue" ELSE "signal"
        /\ attempt'[t][p].created = attempt[t][p].created
        /\ \A q \in Paths \ {p} : attempt'[t][q] = attempt[t][q]
        /\ \A u \in Tasks \ {t} : attempt'[u] = attempt[u]
    BY <1>0, <1>9, GotoFacts DEF DeliverGet, AttemptPcs
  <2>2. Delivering(t)'
    BY <1>0, <1>2, <1>9, <2>1 DEF DeliverGet, ShouldEnqueue, Tracked, Delivering, Untouched, Unpersisted, ReadHolds
  <2> QED BY <1>0, <1>1, <1>2, <1>9, <2>1, <2>2 DEF DeliverGet
<1>10. ASSUME NEW t \in Tasks, NEW p \in Paths, DeliverEnqueue(t, p) PROVE DeliveryInv'
  <2>1. /\ attempt'[t][p].pc \in {"fail", "signal"}
        /\ attempt'[t][p].created = attempt[t][p].created
        /\ \A q \in Paths \ {p} : attempt'[t][q] = attempt[t][q]
        /\ \A u \in Tasks \ {t} : attempt'[u] = attempt[u]
    BY <1>0, <1>10, GotoFacts DEF DeliverEnqueue, AttemptPcs
  <2>2. /\ Queued' \subseteq Queued \cup {t}
        /\ run'.last = run.last
    BY <1>10, EnqueueFacts DEF Queued
  <2>3. \A u \in Tasks \ {t} : (Seen(u)' => Seen(u)) /\ (u \in Queued' => u \in Queued)
    BY <1>10, <2>2 DEF DeliverEnqueue, Seen
  <2>4. Delivering(t)'
    BY <1>0, <1>10, <2>1 DEF DeliverEnqueue, Delivering, Untouched, Unpersisted, ReadHolds
  <2> QED BY <1>0, <1>1, <1>10, <2>1, <2>3, <2>4 DEF DeliverEnqueue
<1>11. ASSUME NEW t \in Tasks, NEW p \in Paths, DeliverSignal(t, p) PROVE DeliveryInv'
  <2>1. /\ attempt'[t][p].pc \in {"mark", "settle"}
        /\ \A q \in Paths \ {p} : attempt'[t][q] = attempt[t][q]
        /\ \A u \in Tasks \ {t} : attempt'[u] = attempt[u]
    BY <1>0, <1>11, GotoFacts DEF DeliverSignal, AttemptPcs
  <2>2. loop'.held = loop.held \/ loop'.held \notin Tasks
    BY <1>11, RoleRunAssumption DEF DeliverSignal, EnsureRunning, LoopOff
  <2>3. \A u \in Tasks : (Seen(u)' => Seen(u)) /\ Queued' = Queued
    BY <1>11, <2>2 DEF DeliverSignal, Seen, Queued
  <2>4. Delivering(t)'
    BY <1>0, <1>11, <2>1, <2>3 DEF DeliverSignal, Delivering, Untouched, Unpersisted, ReadHolds
  <2> QED BY <1>0, <1>1, <1>11, <2>1, <2>3, <2>4 DEF DeliverSignal
<1>12. ASSUME NEW t \in Tasks, NEW p \in Paths, DeliverMark(t, p) PROVE DeliveryInv'
  <2>1. /\ attempt'[t][p].pc = "settle"
        /\ \A q \in Paths \ {p} : attempt'[t][q] = attempt[t][q]
        /\ \A u \in Tasks \ {t} : attempt'[u] = attempt[u]
    BY <1>0, <1>12, GotoFacts DEF DeliverMark, AttemptPcs
  <2>2. Delivering(t)'
    BY <1>0, <1>2, <1>12, <2>1 DEF DeliverMark, Delivering, Untouched, Unpersisted, ReadHolds
  <2> QED BY <1>0, <1>1, <1>2, <1>12, <2>1, <2>2 DEF DeliverMark
<1>13. ASSUME NEW t \in Tasks, NEW p \in Paths, DeliverMarkFails(t, p) PROVE DeliveryInv'
  <2>1. /\ attempt'[t][p].pc = "fail"
        /\ \A q \in Paths \ {p} : attempt'[t][q] = attempt[t][q]
        /\ \A u \in Tasks \ {t} : attempt'[u] = attempt[u]
    BY <1>0, <1>13, GotoFacts DEF DeliverMarkFails, AttemptPcs
  <2>2. Delivering(t)'
    BY <1>0, <1>2, <1>13, <2>1 DEF DeliverMarkFails, Delivering, Untouched, Unpersisted, ReadHolds
  <2> QED BY <1>0, <1>1, <1>2, <1>13, <2>1, <2>2 DEF DeliverMarkFails
<1>14. ASSUME NEW t \in Tasks, NEW p \in Paths, DeliverSettle(t, p) PROVE DeliveryInv'
  <2>1. /\ attempt'[t][p].pc = "idle"
        /\ \A q \in Paths \ {p} : attempt'[t][q] = attempt[t][q]
        /\ \A u \in Tasks \ {t} : attempt'[u] = attempt[u]
    BY <1>0, <1>14, GotoFacts DEF DeliverSettle, AttemptPcs
  <2>2. Delivering(t)'
    BY <1>0, <1>2, <1>14, <2>1 DEF DeliverSettle, Delivering, Untouched, Unpersisted, ReadHolds
  <2> QED BY <1>0, <1>1, <1>2, <1>14, <2>1, <2>2 DEF DeliverSettle
<1>15. ASSUME NEW t \in Tasks, FastFails(t) PROVE DeliveryInv'
  <2>1. /\ attempt'[t]["fast"].pc = "threw" /\ attempt'[t]["drain"] = attempt[t]["drain"]
        /\ \A u \in Tasks \ {t} : attempt'[u] = attempt[u]
    BY <1>0, <1>15, GotoFacts DEF FastFails, AttemptPcs
  <2>2. Delivering(t)'
    BY <1>0, <1>2, <1>15, <2>1 DEF FastFails, Delivering, Untouched, Unpersisted, ReadHolds
  <2> QED BY <1>0, <1>1, <1>2, <1>15, <2>1, <2>2 DEF FastFails
<1>16. ASSUME NEW t \in Tasks, DrainFails(t) PROVE DeliveryInv'
  <2>1. /\ attempt'[t]["drain"].pc = IF intent[t] = "owed" /\ retries[t] + 1 > MaxRetries
                                     THEN "drop" ELSE "idle"
        /\ attempt'[t]["fast"] = attempt[t]["fast"]
        /\ \A u \in Tasks \ {t} : attempt'[u] = attempt[u]
    BY <1>0, <1>16, GotoFacts DEF DrainFails, AttemptPcs
  <2>2. /\ intent[t] = "owed" => retries'[t] = retries[t] + 1
        /\ intent[t] # "owed" => retries'[t] = retries[t]
        /\ intent'[t] = IF intent[t] = "owed" /\ retries[t] + 1 > MaxRetries
                        THEN "dropped" ELSE intent[t]
        /\ \A u \in Tasks \ {t} : intent'[u] = intent[u] /\ retries'[u] = retries[u]
    BY <1>0, <1>16 DEF DrainFails
  <2>3. Delivering(t)'
    BY <1>0, <1>2, <1>16, <2>1, <2>2 DEF DrainFails, Delivering, Untouched, Unpersisted, ReadHolds
  <2> QED BY <1>0, <1>1, <1>2, <1>16, <2>1, <2>2, <2>3 DEF DrainFails
<1>17. ASSUME NEW t \in Tasks, AbandonRead(t) PROVE DeliveryInv'
  <2>1. /\ attempt'[t]["drain"].pc \in {"cancel", "idle"} /\ attempt'[t]["fast"] = attempt[t]["fast"]
        /\ \A u \in Tasks \ {t} : attempt'[u] = attempt[u]
    BY <1>0, <1>17, GotoFacts DEF AbandonRead, AttemptPcs
  <2>2. Delivering(t)'
    BY <1>0, <1>2, <1>17, <2>1 DEF AbandonRead, Locked, Delivering, Untouched, Unpersisted, ReadHolds
  <2> QED BY <1>0, <1>1, <1>2, <1>17, <2>1, <2>2 DEF AbandonRead
<1>18. ASSUME NEW t \in Tasks, AbandonCancel(t) PROVE DeliveryInv'
  <2>1. /\ attempt'[t]["drain"].pc = "idle" /\ attempt'[t]["fast"] = attempt[t]["fast"]
        /\ \A u \in Tasks \ {t} : attempt'[u] = attempt[u]
    BY <1>0, <1>18, GotoFacts DEF AbandonCancel, AttemptPcs
  <2>2. Delivering(t)'
    BY <1>0, <1>2, <1>18, <2>1 DEF AbandonCancel, Delivering, Untouched, Unpersisted, ReadHolds
  <2> QED BY <1>0, <1>1, <1>2, <1>18, <2>1, <2>2 DEF AbandonCancel
<1>25. ASSUME NEW t \in Tasks, AbandonFails(t) PROVE DeliveryInv'
  <2>1. /\ attempt'[t]["drain"].pc = "idle" /\ attempt'[t]["fast"] = attempt[t]["fast"]
        /\ \A u \in Tasks \ {t} : attempt'[u] = attempt[u]
    BY <1>0, <1>25, GotoFacts DEF AbandonFails, AttemptPcs
  <2>2. Delivering(t)'
    BY <1>0, <1>2, <1>25, <2>1 DEF AbandonFails, Delivering, Untouched, Unpersisted, ReadHolds
  <2> QED BY <1>0, <1>1, <1>2, <1>25, <2>1, <2>2 DEF AbandonFails
<1>19. ASSUME NEW t \in Tasks, EdgeAck(t) PROVE DeliveryInv'
  <2>1. \A u \in Tasks : (Seen(u)' => Seen(u)) /\ Queued' = Queued
    BY <1>19 DEF EdgeAck, Seen, Queued
  <2>2. Seen(t)
    BY <1>19 DEF EdgeAck, Seen
  <2>3. Delivering(t)'
    BY <1>0, <1>19, <2>1, <2>2 DEF EdgeAck, AckedState, deliveryVars, Delivering, Untouched, Unpersisted, ReadHolds
  <2> QED BY <1>0, <1>1, <1>19, <2>1, <2>3 DEF EdgeAck, deliveryVars
<1>20. ASSUME NEW t \in Tasks, Answering(t) PROVE DeliveryInv'
  <2>1. Queued' = Queued /\ Seen(t)
    BY <1>20, AnsweringEffects DEF Queued, Seen
  <2>2. Delivering(t)'
    BY <1>0, <1>20, <2>1, AnsweringEffects DEF Delivering, Untouched, Unpersisted, ReadHolds
  <2> QED BY <1>0, <1>1, <1>20, <2>1, <2>2, AnsweringEffects
<1>21. ASSUME NEW t \in Tasks, NEW u \in Tasks, DispatchRetry(t, u) PROVE DeliveryInv'
  <2>1. \A v \in Tasks : Seen(v)' => Seen(v)
    BY <1>21 DEF DispatchRetry, Seen, Queued, TypeOK
  <2> QED BY <1>3, <1>21, <2>1 DEF DispatchRetry, Queued
<1>22. ASSUME LoopStep \/ LoopThrows \/ Cancel PROVE DeliveryInv'
  BY <1>0, <1>22, LoopEffects, DeliveryKept DEF DeliveryInv
<1>23. ASSUME Crash PROVE DeliveryInv'
  <2>1. \A u \in Tasks : (Seen(u)' => Seen(u)) /\ Queued' = Queued
    BY <1>23, RoleRunAssumption DEF Crash, Unacknowledged, Seen, Queued, LoopOff
  <2>2. \A u \in Tasks, p \in Paths : attempt'[u][p].pc = "idle"
    BY <1>23 DEF Crash, Idle
  <2>3. ASSUME NEW u \in Tasks PROVE Delivering(u)'
    BY <1>0, <1>23, <2>1, <2>2 DEF Crash, Delivering, Untouched, Unpersisted, ReadHolds
  <2> QED BY <2>3 DEF DeliveryInv
<1>24. ASSUME Recover PROVE DeliveryInv'
  <2>1. loop'.held = loop.held \/ loop'.held \notin Tasks
    BY <1>24, RoleRunAssumption DEF Recover, EnsureRunning, LoopOff
  <2>2. run'.inbox = run.inbox /\ run'.last = run.last
    BY <1>24 DEF Recover, TypeOK
  <2>3. \A u \in Tasks : (Seen(u)' => Seen(u)) /\ Queued' = Queued
    BY <1>24, <2>1, <2>2 DEF Recover, Seen, Queued
  <2> QED BY <1>0, <1>24, <2>3, DeliveryKept DEF Recover, deliveryVars, DeliveryInv
<1> QED BY <1>4, <1>5, <1>6, <1>7, <1>8, <1>9, <1>10, <1>11, <1>12, <1>13, <1>14, <1>15, <1>16, <1>17,
           <1>18, <1>19, <1>20, <1>21, <1>22, <1>23, <1>24, <1>25 DEF Next, Deliver, Materialize, Answering

\* The edge of an answered handoff and the stage of its outcome agree.
LEMMA StageStepInv ==
  ASSUME TypeOK, LoopInv, DeliveryInv, StageInv, Next
  PROVE  StageInv'
<1> USE DEF deliveryVars, outcomeVars, historyVars
<1>0. /\ edge \in [Tasks -> EdgeStates] /\ stage \in [Tasks -> Stages]
      /\ \A u \in Tasks : Delivering(u)
  BY DEF TypeOK, DeliveryInv
<1>1. ASSUME UNCHANGED stage,
             \A u \in Tasks : \/ edge'[u] \in {edge[u], "cancelled"}
                              \/ edge[u] \notin {"closed", "cancelled"} /\ edge'[u] \notin {"responded", "closed"}
      PROVE  StageInv'
  BY <1>1 DEF StageInv
<1>2. ASSUME UNCHANGED <<stage, edge>> PROVE StageInv'
  BY <1>2 DEF StageInv
<1>3. ASSUME NEW t \in Tasks, Dispatch(t) \/ Deliver(t) \/ EdgeAck(t) PROVE StageInv'
  <2>1. CASE Dispatch(t)
    BY <1>0, <1>1, <2>1 DEF Dispatch, RecordHandoff
  <2>2. CASE PersistIntentFails(t)
    BY <1>0, <1>1, <2>2 DEF PersistIntentFails
  <2>3. CASE AbandonCancel(t)
    BY <1>0, <1>1, <2>3 DEF AbandonCancel
  <2>4. CASE \E p \in Paths : DeliverMark(t, p)
    BY <1>0, <1>1, <2>4 DEF DeliverMark
  <2>5. CASE EdgeAck(t)
    BY <1>0, <1>1, <2>5 DEF EdgeAck, AckedState
  <2>6. ASSUME ~(Dispatch(t) \/ PersistIntentFails(t) \/ AbandonCancel(t) \/ EdgeAck(t)),
               ~\E p \in Paths : DeliverMark(t, p)
        PROVE  UNCHANGED <<stage, edge>>
    BY <1>3, <2>6 DEF Deliver, PersistIntent, DrainStart, DrainOvertakes, DeliverRead, DeliverGet,
       DeliverEnqueue, DeliverSignal, DeliverMarkFails, DeliverSettle, FastFails, DrainFails, AbandonRead,
       AbandonFails
  <2> QED BY <1>2, <2>1, <2>2, <2>3, <2>4, <2>5, <2>6
<1>4. ASSUME NEW t \in Tasks, Answering(t) PROVE StageInv'
  BY <1>0, <1>4, AnsweringEffects DEF StageInv
<1>5. ASSUME NEW t \in Tasks, NEW u \in Tasks, DispatchRetry(t, u) PROVE StageInv'
  <2>1. stage[u] = "none" /\ t # u
    BY <1>0, <1>5 DEF DispatchRetry, RecordHandoff, Delivering, Untouched, Seen
  <2> QED BY <1>0, <1>5, <2>1 DEF DispatchRetry, RecordHandoff, StageInv
<1>6. ASSUME LoopStep \/ LoopThrows \/ Cancel PROVE StageInv'
  BY <1>0, <1>6, LoopEffects DEF StageInv
<1>7. ASSUME Crash PROVE StageInv'
  BY <1>0, <1>7 DEF Crash, StageInv
<1>8. ASSUME Recover PROVE StageInv'
  BY <1>2, <1>8 DEF Recover
<1> QED BY <1>3, <1>4, <1>5, <1>6, <1>7, <1>8 DEF Next, Materialize, Answering

\* The inbox never holds a handoff twice.
LEMMA InboxStepInv ==
  ASSUME TypeOK, LoopInv, DeliveryInv, Distinct(run.inbox), Next
  PROVE  Distinct(run'.inbox)
<1> USE DEF deliveryVars, outcomeVars, historyVars
<1>1. ASSUME NEW t \in Tasks, NEW p \in Paths, DeliverEnqueue(t, p) PROVE Distinct(run'.inbox)
  <2>1. t \notin Queued
    BY <1>1 DEF DeliverEnqueue, DeliveryInv, Delivering, ReadHolds
  <2> QED BY <1>1, <2>1, EnqueueFacts
<1>2. ASSUME NEW t \in Tasks, Dispatch(t) \/ Deliver(t) \/ EdgeAck(t) PROVE Distinct(run'.inbox)
  <2>1. CASE \E p \in Paths : DeliverEnqueue(t, p)
    BY <1>1, <2>1
  <2>2. CASE ~\E p \in Paths : DeliverEnqueue(t, p)
    <3>1. run' = run
      BY <1>2, <2>2 DEF Dispatch, EdgeAck, Deliver, PersistIntent, PersistIntentFails, DrainStart,
         DrainOvertakes, DeliverRead, DeliverGet, DeliverSignal, DeliverMark, DeliverMarkFails,
         DeliverSettle, FastFails, DrainFails, AbandonRead, AbandonCancel, AbandonFails
    <3> QED BY <3>1
  <2> QED BY <2>1, <2>2
<1>3. ASSUME NEW t \in Tasks, Materialize(t) PROVE Distinct(run'.inbox)
  <2>1. run' = run
    BY <1>3, AnsweringEffects DEF Materialize, Answering, DispatchRetry
  <2> QED BY <2>1
<1>4. ASSUME LoopStep \/ LoopThrows \/ Cancel PROVE Distinct(run'.inbox)
  BY <1>4, LoopEffects
<1>5. ASSUME Crash \/ Recover PROVE Distinct(run'.inbox)
  <2>1. run'.inbox = run.inbox
    BY <1>5 DEF Crash, Recover, TypeOK
  <2> QED BY <2>1
<1> QED BY <1>2, <1>3, <1>4, <1>5 DEF Next

\* The base holds in every reachable state.
LEMMA InitBase == Init => BaseInv
<1> SUFFICES ASSUME Init PROVE BaseInv
  OBVIOUS
<1>1. run.inbox = <<>> /\ ToSet(<<>>) = {} /\ Len(<<>>) = 0 /\ <<>> \in Seq(Tasks)
  BY DEF Init, NewRun, ToSet
<1>2. Queued = {}
  BY <1>1 DEF Queued
<1>3. TypeOK
  <2>1. 0 \in 0..(MaxRetries + 1) /\ 0 \in 0..ShardRetries /\ 0 \in 0..MaxFaults /\ 0 <= MaxInbox
    BY RoleRunAssumption
  <2>2. /\ run \in [status : Statuses, inbox : Seq(Tasks), iter : Nat, last : Tasks \cup {NoTask}]
        /\ Len(run.inbox) <= MaxInbox
        /\ loop \in [pc : LoopPcs, held : Tasks \cup {NoTask}, aborted : BOOLEAN]
        /\ attempt \in [Tasks -> [Paths -> [pc : AttemptPcs, created : BOOLEAN]]]
    BY <1>1, <2>1 DEF Init, NewRun, LoopOff, Idle, Statuses, LoopPcs, AttemptPcs
  <2> QED BY <2>1, <2>2 DEF Init, TypeOK, EdgeStates, Stages
<1>4. LoopInv
  BY DEF Init, LoopOff, LoopInv, LoopOwnsRun, HoldingPcs
<1>5. \A u \in Tasks : ~Seen(u)
  BY <1>2, RoleRunAssumption DEF Init, NewRun, LoopOff, Seen
<1>6. DeliveryInv
  BY <1>5 DEF Init, Idle, Paths, DeliveryInv, Delivering, Untouched, Unpersisted, ReadHolds
<1>7. StageInv
  BY DEF Init, StageInv
<1>8. Distinct(run.inbox)
  BY <1>1 DEF Distinct
<1> QED BY <1>3, <1>4, <1>6, <1>7, <1>8 DEF BaseInv

\* A step of the specification keeps types, loop, deliveries, outcomes and inbox.
LEMMA StepBase == BaseInv /\ [Next]_vars => BaseInv'
<1> SUFFICES ASSUME BaseInv, [Next]_vars PROVE BaseInv'
  OBVIOUS
<1>1. CASE Next
  BY <1>1, TypeStep, LoopStepInv, DeliveryStepInv, StageStepInv, InboxStepInv DEF BaseInv
<1>2. CASE UNCHANGED vars
  BY <1>2 DEF vars, deliveryVars, outcomeVars, historyVars, BaseInv, TypeOK, LoopInv, LoopOwnsRun,
     DeliveryInv, Delivering, Untouched, Unpersisted, ReadHolds, Seen, Queued, Distinct, StageInv
<1> QED BY <1>1, <1>2
-----------------------------------------------------------------------------
(* Every activation is paid for                                            *)

\* Rights are counted.
LEMMA RightsNat == ASSUME NEW u PROVE Rights(u) \in Nat /\ Rights(u)' \in Nat
  BY DEF Rights, One

\* A step that brings a handoff no nearer to another activation.
LEMMA PaidKept ==
  ASSUME NEW u \in Tasks, Paid(u), activations[u] \in Nat, faults \in Nat,
         faults' \in {faults, faults + 1}, activations'[u] = activations[u],
         u \in Queued' => u \in Queued, Starting(u)' => Starting(u),
         FastMay(u)' => FastMay(u), DrainMay(u)' => DrainMay(u)
  PROVE  Paid(u)'
<1>1. Rights(u)' <= Rights(u)
  BY DEF Rights, One
<1> QED BY <1>1, RightsNat DEF Paid

\* A fault pays for one more attempt of the drain.
LEMMA PaidFault ==
  ASSUME NEW u \in Tasks, Paid(u), activations[u] \in Nat, faults \in Nat,
         faults' = faults + 1, activations'[u] = activations[u],
         u \in Queued' => u \in Queued, Starting(u)' => Starting(u), FastMay(u)' => FastMay(u)
  PROVE  Paid(u)'
<1>1. Rights(u)' <= Rights(u) + 1
  BY DEF Rights, One
<1> QED BY <1>1, RightsNat DEF Paid

\* The right to an activation goes from the fast path to the inbox, or to the drain.
LEMMA PaidFast ==
  ASSUME NEW u \in Tasks, Paid(u), activations[u] \in Nat, faults \in Nat,
         faults' = faults, activations'[u] = activations[u],
         u \notin Queued, FastMay(u), ~FastMay(u)', Starting(u)' => Starting(u),
         DrainMay(u)' => DrainMay(u) \/ u \notin Queued'
  PROVE  Paid(u)'
<1>1. Rights(u)' <= Rights(u)
  BY DEF Rights, One
<1> QED BY <1>1, RightsNat DEF Paid

\* It goes from the drain to the inbox, or stays.
LEMMA PaidDrain ==
  ASSUME NEW u \in Tasks, Paid(u), activations[u] \in Nat, faults \in Nat,
         faults' = faults, activations'[u] = activations[u],
         u \notin Queued, DrainMay(u), FastMay(u)' => FastMay(u), Starting(u)' => Starting(u),
         ~DrainMay(u)' \/ u \notin Queued'
  PROVE  Paid(u)'
<1>1. Rights(u)' <= Rights(u)
  BY DEF Rights, One
<1> QED BY <1>1, RightsNat DEF Paid

\* It goes from the inbox to the loop.
LEMMA PaidDequeue ==
  ASSUME NEW u \in Tasks, Paid(u), activations[u] \in Nat, faults \in Nat,
         faults' = faults, activations'[u] = activations[u],
         u \in Queued, u \notin Queued', ~Starting(u),
         FastMay(u)' => FastMay(u), DrainMay(u)' => DrainMay(u)
  PROVE  Paid(u)'
<1>1. Rights(u)' <= Rights(u)
  BY DEF Rights, One
<1> QED BY <1>1, RightsNat DEF Paid

\* The loop uses the right up.
LEMMA PaidTaken ==
  ASSUME NEW u \in Tasks, Paid(u), activations[u] \in Nat, faults \in Nat,
         faults' = faults, activations'[u] = activations[u] + 1,
         Starting(u), ~Starting(u)', u \in Queued' => u \in Queued,
         FastMay(u)' => FastMay(u), DrainMay(u)' => DrainMay(u)
  PROVE  Paid(u)'
<1>1. Rights(u)' + 1 <= Rights(u)
  BY DEF Rights, One
<1> QED BY <1>1, RightsNat DEF Paid

\* What may be delivered yet depends on the edge, the intent and the attempts.
LEMMA MayKept ==
  ASSUME NEW u, attempt'[u] = attempt[u], intent'[u] = intent[u],
         edge'[u] \in {"none", "created"} => edge'[u] = edge[u]
  PROVE  (FastMay(u)' => FastMay(u)) /\ (DrainMay(u)' => DrainMay(u))
  BY DEF FastMay, DrainMay

\* No step gives a handoff more activations and rights to one than faults pay for.
LEMMA BudgetStepInv ==
  ASSUME BaseInv, BaseInv', BudgetInv, Next
  PROVE  BudgetInv'
<1> USE DEF Paths, outcomeVars, historyVars
<1>0. /\ attempt \in [Tasks -> [Paths -> AttemptRecords]]
      /\ edge \in [Tasks -> EdgeStates]
      /\ intent \in [Tasks -> {"none", "owed", "settled", "dropped"}]
      /\ activations \in [Tasks -> Nat]
      /\ \A u \in Tasks : activations[u] \in Nat
      /\ run \in [status : Statuses, inbox : Seq(Tasks), iter : Nat, last : Tasks \cup {NoTask}]
      /\ loop \in [pc : LoopPcs, held : Tasks \cup {NoTask}, aborted : BOOLEAN]
  BY DEF BaseInv, TypeOK, AttemptRecords
<1>0b. faults \in Nat /\ NoTask \notin Tasks /\ LoopOff.pc = "off"
  BY RoleRunAssumption DEF BaseInv, TypeOK, LoopOff
<1>0a. /\ TypeOK /\ LoopInv /\ Distinct(run.inbox)
       /\ \A u \in Tasks : Delivering(u) /\ Paid(u)
  BY DEF BaseInv, DeliveryInv, BudgetInv
<1>0c. ASSUME NEW t \in Tasks, NEW p \in Paths, DeliverRead(t, p)
       PROVE  /\ attempt'[t][p].pc \in {"settle", "get"}
              /\ attempt'[t][p].created <=> edge[t] = "created"
              /\ \A q \in Paths \ {p} : attempt'[t][q] = attempt[t][q]
              /\ \A u \in Tasks \ {t} : attempt'[u] = attempt[u]
  BY <1>0, <1>0c, ReadFacts
<1> USE <1>0a, <1>0b
\* One task's attempt or edge moves, and brings it no nearer.
<1>1. ASSUME NEW t \in Tasks, UNCHANGED <<run, loop, activations>>,
             \A u \in Tasks \ {t} : /\ attempt'[u] = attempt[u] /\ intent'[u] = intent[u]
                                    /\ edge'[u] = edge[u],
             FastMay(t)' => FastMay(t),
             \/ (DrainMay(t)' => DrainMay(t)) /\ faults' \in {faults, faults + 1}
             \/ faults' = faults + 1
      PROVE  BudgetInv'
  <2>1. \A u \in Tasks : (u \in Queued' => u \in Queued) /\ (Starting(u)' => Starting(u))
    BY <1>1 DEF Queued, Starting
  <2> QED BY <1>0, <1>1, <2>1, PaidKept, PaidFault, MayKept DEF BudgetInv
<1>2. ASSUME NEW t \in Tasks, RecordHandoff(t), UNCHANGED <<run, loop, intent, activations, faults>> PROVE BudgetInv'
  <2>1. /\ attempt'[t]["drain"] = attempt[t]["drain"]
        /\ \A u \in Tasks \ {t} : attempt'[u] = attempt[u]
    BY <1>0, <1>2, GotoFacts DEF RecordHandoff, AttemptPcs
  <2>2. FastMay(t) /\ ~DrainMay(t)'
    BY <1>0, <1>2, <2>1 DEF RecordHandoff, FastMay, DrainMay, Delivering, Untouched
  <2> QED BY <1>0, <1>1, <1>2, <2>1, <2>2 DEF RecordHandoff
<1>3. ASSUME NEW t \in Tasks, Dispatch(t) PROVE BudgetInv'
  BY <1>2, <1>3 DEF Dispatch
<1>4. ASSUME NEW t \in Tasks, PersistIntent(t) PROVE BudgetInv'
  <2>1. /\ attempt'[t]["fast"].pc = "read" /\ attempt'[t]["drain"] = attempt[t]["drain"]
        /\ \A u \in Tasks \ {t} : attempt'[u] = attempt[u]
    BY <1>0, <1>4, GotoFacts DEF PersistIntent, AttemptPcs
  <2>2. FastMay(t) /\ ~DrainMay(t)'
    BY <1>0, <1>4, <2>1 DEF PersistIntent, FastMay, DrainMay, Delivering, Unpersisted
  <2> QED BY <1>0, <1>1, <1>4, <2>1, <2>2 DEF PersistIntent
<1>5. ASSUME NEW t \in Tasks, PersistIntentFails(t) PROVE BudgetInv'
  <2>1. /\ attempt'[t]["fast"].pc = "threw" /\ attempt'[t]["drain"] = attempt[t]["drain"]
        /\ \A u \in Tasks \ {t} : attempt'[u] = attempt[u]
    BY <1>0, <1>5, GotoFacts DEF PersistIntentFails, AttemptPcs
  <2>2. ~FastMay(t)' /\ faults' = faults + 1
    BY <1>0, <1>5, <2>1, FaultFacts DEF PersistIntentFails, FastMay
  <2> QED BY <1>0, <1>1, <1>5, <2>1, <2>2 DEF PersistIntentFails
<1>6. ASSUME NEW t \in Tasks, DrainStart(t) \/ DrainOvertakes(t) PROVE BudgetInv'
  <2>1. /\ attempt'[t]["drain"].pc = "read" /\ attempt'[t]["fast"] = attempt[t]["fast"]
        /\ \A u \in Tasks \ {t} : attempt'[u] = attempt[u]
    BY <1>0, <1>6, GotoFacts DEF DrainStart, DrainOvertakes, AttemptPcs
  <2>2. FastMay(t)' => FastMay(t)
    BY <1>6, <2>1 DEF DrainStart, DrainOvertakes, FastMay
  <2>3. DrainStart(t) => (DrainMay(t)' => DrainMay(t)) /\ faults' = faults
    BY <2>1 DEF DrainStart, DrainMay
  <2>4. DrainOvertakes(t) => faults' = faults + 1
    BY <1>0, FaultFacts DEF DrainOvertakes
  <2> QED BY <1>0, <1>1, <1>6, <2>1, <2>2, <2>3, <2>4 DEF DrainStart, DrainOvertakes
<1>7. ASSUME NEW t \in Tasks, NEW p \in Paths, DeliverRead(t, p) PROVE BudgetInv'
  <2>1. /\ attempt'[t][p].pc \in {"settle", "get"}
        /\ attempt'[t][p].created <=> edge[t] = "created"
        /\ \A q \in Paths \ {p} : attempt'[t][q] = attempt[t][q]
        /\ \A u \in Tasks \ {t} : attempt'[u] = attempt[u]
    BY <1>0c, <1>7
  <2>2. (FastMay(t)' => FastMay(t)) /\ (DrainMay(t)' => DrainMay(t))
    BY <1>0, <1>7, <2>1 DEF DeliverRead, FastMay, DrainMay
  <2> QED BY <1>0, <1>1, <1>7, <2>1, <2>2 DEF DeliverRead
<1>8. ASSUME NEW t \in Tasks, NEW p \in Paths, DeliverGet(t, p) PROVE BudgetInv'
  <2>1. /\ attempt'[t][p].pc \in {"enqueue", "signal"}
        /\ attempt'[t][p].created = attempt[t][p].created
        /\ \A q \in Paths \ {p} : attempt'[t][q] = attempt[t][q]
        /\ \A u \in Tasks \ {t} : attempt'[u] = attempt[u]
    BY <1>0, <1>8, GotoFacts DEF DeliverGet, AttemptPcs
  <2>2. (FastMay(t)' => FastMay(t)) /\ (DrainMay(t)' => DrainMay(t))
    BY <1>0, <1>8, <2>1 DEF DeliverGet, FastMay, DrainMay
  <2> QED BY <1>0, <1>1, <1>8, <2>1, <2>2 DEF DeliverGet
<1>9. ASSUME NEW t \in Tasks, NEW p \in Paths, DeliverEnqueue(t, p) PROVE BudgetInv'
  <2>1. /\ attempt'[t][p].pc \in {"fail", "signal"}
        /\ \A q \in Paths \ {p} : attempt'[t][q] = attempt[t][q]
        /\ \A u \in Tasks \ {t} : attempt'[u] = attempt[u]
    BY <1>0, <1>9, GotoFacts DEF DeliverEnqueue, AttemptPcs
  <2>2. attempt[t][p].pc = "enqueue" /\ attempt[t][p].created /\ t \notin Queued
    BY <1>9 DEF DeliverEnqueue, Delivering, ReadHolds
  <2>3. UNCHANGED <<edge, intent, loop, activations, faults>>
    BY <1>9 DEF DeliverEnqueue
  <2>4. \A u \in Tasks \ {t} : u \in Queued' => u \in Queued
    BY <1>9, EnqueueFacts DEF Queued
  <2>4a. attempt'[t][p].pc = "fail" => t \notin Queued'
    <3>1. CASE run' = run
      BY <2>2, <3>1 DEF Queued
    <3>2. CASE Goto(t, p, "signal")
      BY <1>0, <3>2, GotoFacts DEF AttemptPcs
    <3> QED BY <1>9, <3>1, <3>2, EnqueueFacts
  <2>5. ASSUME NEW u \in Tasks \ {t} PROVE Paid(u)'
    BY <1>0, <2>1, <2>3, <2>4, PaidKept, MayKept DEF Starting
  <2>6. ASSUME p = "fast" PROVE Paid(t)'
    <3>1. FastMay(t) /\ ~FastMay(t)' /\ (Starting(t)' => Starting(t))
      BY <2>1, <2>2, <2>3, <2>6 DEF FastMay, Starting, Delivering, Untouched
    <3>2. DrainMay(t)' => DrainMay(t) \/ t \notin Queued'
      <4>1. CASE attempt'[t]["fast"].pc = "signal"
        BY <2>1, <2>3, <2>6, <4>1 DEF DrainMay
      <4>2. CASE attempt'[t]["fast"].pc = "fail"
        BY <2>4a, <2>6, <4>2
      <4> QED BY <2>1, <2>6, <4>1, <4>2
    <3>3. /\ t \notin Queued /\ FastMay(t) /\ ~FastMay(t)' /\ (Starting(t)' => Starting(t))
          /\ (DrainMay(t)' => DrainMay(t) \/ t \notin Queued')
      BY <2>2, <3>1, <3>2
    <3>4. activations'[t] = activations[t] /\ activations[t] \in Nat /\ faults' = faults /\ Paid(t)
      BY <1>0, <2>3
    <3> QED BY <3>3, <3>4, PaidFast
  <2>7. ASSUME p = "drain" PROVE Paid(t)'
    <3>1. DrainMay(t) /\ (Starting(t)' => Starting(t)) /\ (FastMay(t)' => FastMay(t))
      BY <2>1, <2>2, <2>3, <2>7 DEF FastMay, DrainMay, Starting
    <3>2. ~DrainMay(t)' \/ t \notin Queued'
      <4>1. CASE attempt'[t]["drain"].pc = "signal"
        BY <2>1, <2>3, <2>7, <4>1 DEF DrainMay
      <4>2. CASE attempt'[t]["drain"].pc = "fail"
        BY <2>4a, <2>7, <4>2
      <4> QED BY <2>1, <2>7, <4>1, <4>2
    <3>3. /\ t \notin Queued /\ DrainMay(t) /\ (FastMay(t)' => FastMay(t)) /\ (Starting(t)' => Starting(t))
          /\ ~DrainMay(t)' \/ t \notin Queued'
      BY <2>2, <3>1, <3>2
    <3>4. activations'[t] = activations[t] /\ activations[t] \in Nat /\ faults' = faults /\ Paid(t)
      BY <1>0, <2>3
    <3> QED BY <3>3, <3>4, PaidDrain
  <2> QED BY <2>5, <2>6, <2>7 DEF BudgetInv
<1>10. ASSUME NEW t \in Tasks, NEW p \in Paths, DeliverSignal(t, p) PROVE BudgetInv'
  <2>1. /\ attempt'[t][p].pc \in {"mark", "settle"}
        /\ \A q \in Paths \ {p} : attempt'[t][q] = attempt[t][q]
        /\ \A u \in Tasks \ {t} : attempt'[u] = attempt[u]
    BY <1>0, <1>10, GotoFacts DEF DeliverSignal, AttemptPcs
  <2>2. (FastMay(t)' => FastMay(t)) /\ (DrainMay(t)' => DrainMay(t))
    BY <1>0, <1>10, <2>1 DEF DeliverSignal, FastMay, DrainMay
  <2>3. \A u \in Tasks : (Starting(u)' => Starting(u)) /\ (u \in Queued' => u \in Queued)
    BY <1>10 DEF DeliverSignal, EnsureRunning, LoopOff, Starting, Queued
  <2>4. ASSUME NEW u \in Tasks PROVE Paid(u)'
    BY <1>0, <1>10, <2>1, <2>2, <2>3, PaidKept, MayKept DEF DeliverSignal
  <2> QED BY <2>4 DEF BudgetInv
<1>11. ASSUME NEW t \in Tasks, NEW p \in Paths, DeliverMark(t, p) \/ DeliverMarkFails(t, p) PROVE BudgetInv'
  <2>1. /\ attempt'[t][p].pc = IF DeliverMark(t, p) THEN "settle" ELSE "fail"
        /\ \A q \in Paths \ {p} : attempt'[t][q] = attempt[t][q]
        /\ \A u \in Tasks \ {t} : attempt'[u] = attempt[u]
    BY <1>0, <1>11, GotoFacts DEF DeliverMark, DeliverMarkFails, AttemptPcs
  <2>2. FastMay(t)' => FastMay(t)
    BY <1>0, <1>11, <2>1 DEF DeliverMark, DeliverMarkFails, FastMay
  <2>3. DeliverMark(t, p) => (DrainMay(t)' => DrainMay(t)) /\ faults' = faults
    BY <1>0, <2>1 DEF DeliverMark, DrainMay
  <2>4. DeliverMarkFails(t, p) => faults' = faults + 1
    BY FaultFacts DEF DeliverMarkFails
  <2> QED BY <1>0, <1>1, <1>11, <2>1, <2>2, <2>3, <2>4 DEF DeliverMark, DeliverMarkFails
<1>12. ASSUME NEW t \in Tasks, NEW p \in Paths, DeliverSettle(t, p) PROVE BudgetInv'
  <2>1. /\ attempt'[t][p].pc = "idle"
        /\ \A q \in Paths \ {p} : attempt'[t][q] = attempt[t][q]
        /\ \A u \in Tasks \ {t} : attempt'[u] = attempt[u]
    BY <1>0, <1>12, GotoFacts DEF DeliverSettle, AttemptPcs
  <2>2. intent'[t] # "owed"
    BY <1>0, <1>12 DEF DeliverSettle
  <2>3. (FastMay(t)' => FastMay(t)) /\ (DrainMay(t)' => DrainMay(t))
    BY <1>0, <1>12, <2>1, <2>2 DEF DeliverSettle, FastMay, DrainMay
  <2> QED BY <1>0, <1>1, <1>12, <2>1, <2>3 DEF DeliverSettle
<1>13. ASSUME NEW t \in Tasks, FastFails(t) PROVE BudgetInv'
  <2>1. /\ attempt'[t]["fast"].pc = "threw" /\ attempt'[t]["drain"] = attempt[t]["drain"]
        /\ \A u \in Tasks \ {t} : attempt'[u] = attempt[u]
    BY <1>0, <1>13, GotoFacts DEF FastFails, AttemptPcs
  <2>2. (FastMay(t)' => FastMay(t)) /\ (DrainMay(t)' => DrainMay(t))
    BY <1>0, <1>13, <2>1 DEF FastFails, FastMay, DrainMay
  <2> QED BY <1>0, <1>1, <1>13, <2>1, <2>2 DEF FastFails
<1>14. ASSUME NEW t \in Tasks, DrainFails(t) PROVE BudgetInv'
  <2>1. /\ attempt'[t]["drain"].pc \in {"drop", "idle"} /\ attempt'[t]["fast"] = attempt[t]["fast"]
        /\ \A u \in Tasks \ {t} : attempt'[u] = attempt[u]
    BY <1>0, <1>14, GotoFacts DEF DrainFails, AttemptPcs
  <2>2. /\ intent'[t] = "owed" => intent[t] = "owed"
        /\ \A u \in Tasks \ {t} : intent'[u] = intent[u]
    BY <1>0, <1>14 DEF DrainFails
  <2>3. (FastMay(t)' => FastMay(t)) /\ (DrainMay(t)' => DrainMay(t))
    BY <1>0, <1>14, <2>1, <2>2 DEF DrainFails, FastMay, DrainMay
  <2> QED BY <1>0, <1>1, <1>14, <2>1, <2>2, <2>3 DEF DrainFails
<1>15. ASSUME NEW t \in Tasks, AbandonRead(t) \/ AbandonCancel(t) PROVE BudgetInv'
  <2>1. /\ attempt'[t]["drain"].pc \in {"cancel", "idle"} /\ attempt'[t]["fast"] = attempt[t]["fast"]
        /\ \A u \in Tasks \ {t} : attempt'[u] = attempt[u]
    BY <1>0, <1>15, GotoFacts DEF AbandonRead, AbandonCancel, AttemptPcs
  <2>2. intent'[t] = "dropped"
    BY <1>15 DEF AbandonRead, AbandonCancel, Delivering
  <2>3. (FastMay(t)' => FastMay(t)) /\ (DrainMay(t)' => DrainMay(t))
    BY <1>0, <1>15, <2>1, <2>2 DEF AbandonRead, AbandonCancel, FastMay, DrainMay
  <2> QED BY <1>0, <1>1, <1>15, <2>1, <2>3 DEF AbandonRead, AbandonCancel
<1>25. ASSUME NEW t \in Tasks, AbandonFails(t) PROVE BudgetInv'
  <2>1. /\ attempt'[t]["drain"].pc = "idle" /\ attempt'[t]["fast"] = attempt[t]["fast"]
        /\ \A u \in Tasks \ {t} : attempt'[u] = attempt[u]
    BY <1>0, <1>25, GotoFacts DEF AbandonFails, AttemptPcs
  <2>2. intent'[t] = "dropped"
    BY <1>25 DEF AbandonFails, Delivering
  <2>3. \A u \in Tasks : (FastMay(u)' => FastMay(u)) /\ (DrainMay(u)' => DrainMay(u))
    BY <1>0, <1>25, <2>1, <2>2 DEF AbandonFails, FastMay, DrainMay
  <2>4. /\ faults' = faults + 1 /\ activations' = activations
        /\ \A u \in Tasks : (u \in Queued' => u \in Queued) /\ (Starting(u)' => Starting(u))
    BY <1>25, FaultFacts DEF AbandonFails, Queued, Starting
  <2>5. ASSUME NEW u \in Tasks PROVE Paid(u)'
    BY <1>0, <2>3, <2>4, PaidFault
  <2> QED BY <2>5 DEF BudgetInv
<1>16. ASSUME NEW t \in Tasks, EdgeAck(t) PROVE BudgetInv'
  <2>1. \A u \in Tasks : edge'[u] \in {"none", "created"} => edge'[u] = edge[u]
    BY <1>0, <1>16 DEF EdgeAck, AckedState
  <2>2. (FastMay(t)' => FastMay(t)) /\ (DrainMay(t)' => DrainMay(t))
    BY <1>16, <2>1, MayKept DEF EdgeAck, deliveryVars
  <2> QED BY <1>0, <1>1, <1>16, <2>1, <2>2 DEF EdgeAck, deliveryVars
<1>17. ASSUME NEW t \in Tasks, Answering(t) PROVE BudgetInv'
  <2>1. \A u \in Tasks : edge'[u] \in {"none", "created"} => edge'[u] = edge[u]
    BY <1>17, AnsweringEffects
  <2>2. \A u \in Tasks : (Starting(u)' => Starting(u)) /\ (u \in Queued' => u \in Queued)
    BY <1>0, <1>17, AnsweringEffects DEF Starting, Queued, LoopResume, LoopExit, LoopOff
  <2>3. faults' \in {faults, faults + 1}
    BY <1>17, FaultFacts DEF Answering, Respond, Close, PlanRetry, DispatchRefused, RetryDelivered,
       OutcomeFails, RetryThrows
  <2>4. ASSUME NEW u \in Tasks PROVE Paid(u)'
    BY <1>0, <1>17, <2>1, <2>2, <2>3, AnsweringEffects, PaidKept, MayKept
  <2> QED BY <2>4 DEF BudgetInv
<1>18. ASSUME NEW t \in Tasks, NEW u \in Tasks, DispatchRetry(t, u) PROVE BudgetInv'
  BY <1>2, <1>18 DEF DispatchRetry
<1>19. ASSUME LoopStep \/ LoopThrows \/ Cancel,
              UNCHANGED activations, \A u \in Tasks : Starting(u)' => Starting(u),
              faults' \in {faults, faults + 1}
       PROVE  BudgetInv'
  <2>1. ASSUME NEW u \in Tasks PROVE Paid(u)'
    BY <1>0, <1>19, LoopEffects, PaidKept, MayKept
  <2> QED BY <2>1 DEF BudgetInv
<1>20. ASSUME LoopDequeue, run.inbox # <<>> PROVE BudgetInv'
  <2>1. /\ Head(run.inbox) \in Queued /\ Head(run.inbox) \notin Queued'
        /\ run'.inbox = Tail(run.inbox) /\ loop'.held = Head(run.inbox)
    <3>1. run'.inbox = Tail(run.inbox) /\ loop'.held = Head(run.inbox)
      BY <1>0, <1>20 DEF LoopDequeue
    <3> QED BY <1>0, <1>20, <3>1, QueueTail DEF Queued
  <2>2. UNCHANGED <<activations, faults>> /\ \A u \in Tasks : ~Starting(u)
    BY <1>20 DEF LoopDequeue, Starting
  <2>3. ASSUME NEW u \in Tasks PROVE Paid(u)'
    <3>1. (u \in Queued' => u \in Queued) /\ (FastMay(u)' => FastMay(u)) /\ (DrainMay(u)' => DrainMay(u))
      BY <1>20, LoopEffects, MayKept DEF LoopStep
    <3>2. CASE u = Head(run.inbox)
      BY <1>0, <2>1, <2>2, <3>1, <3>2, PaidDequeue
    <3>3. CASE u # Head(run.inbox)
      BY <1>0, <2>1, <2>2, <3>1, <3>3, PaidKept DEF Starting
    <3> QED BY <3>2, <3>3
  <2> QED BY <2>3 DEF BudgetInv
<1>21. ASSUME LoopAck PROVE BudgetInv'
  <2>1. /\ loop.held \in Tasks /\ Starting(loop.held) /\ \A u \in Tasks : ~Starting(u)'
    BY <1>21 DEF LoopAck, LoopAt, LoopInv, HoldingPcs, Starting
  <2>2. /\ activations'[loop.held] = activations[loop.held] + 1
        /\ \A u \in Tasks \ {loop.held} : activations'[u] = activations[u]
        /\ faults' = faults
    BY <1>0, <1>21, <2>1 DEF LoopAck
  <2>3. ASSUME NEW u \in Tasks PROVE Paid(u)'
    <3>1. (u \in Queued' => u \in Queued) /\ (FastMay(u)' => FastMay(u)) /\ (DrainMay(u)' => DrainMay(u))
      BY <1>21, LoopEffects, MayKept DEF LoopStep
    <3>2. CASE u = loop.held
      BY <1>0, <2>1, <2>2, <3>1, <3>2, PaidTaken
    <3>3. CASE u # loop.held
      BY <1>0, <2>1, <2>2, <3>1, <3>3, PaidKept
    <3> QED BY <3>2, <3>3
  <2> QED BY <2>3 DEF BudgetInv
<1>22. ASSUME LoopStep \/ LoopThrows \/ Cancel PROVE BudgetInv'
  <2>1. CASE (LoopDequeue /\ run.inbox # <<>>) \/ LoopAck
    BY <1>20, <1>21, <2>1
  <2>2. ASSUME ~(LoopDequeue /\ run.inbox # <<>>), ~LoopAck
        PROVE  UNCHANGED activations /\ \A u \in Tasks : Starting(u)' => Starting(u)
    BY <1>0, <1>22, <2>2 DEF LoopStep, LoopThrows, Cancel, LoopStart, LoopSetRunning, LoopCheck, LoopDequeue,
       LoopSetIdle, LoopIncrement, ActivationEnds, LoopFail, LoopAnswer, LoopAwait, LoopAt, LoopTo, LoopExit,
       LoopResume, LoopOff, Starting, TypeOK
  <2>3. faults' \in {faults, faults + 1}
    BY <1>22, FaultFacts DEF LoopStep, LoopThrows, Cancel, LoopStart, LoopSetRunning, LoopCheck, LoopDequeue,
       LoopSetIdle, LoopIncrement, LoopAck, ActivationEnds, LoopFail, LoopAnswer, LoopAwait
  <2> QED BY <1>19, <1>22, <2>1, <2>2, <2>3
<1>23. ASSUME Crash PROVE BudgetInv'
  <2>1. \A u \in Tasks : /\ u \in Queued' => u \in Queued
                         /\ ~Starting(u)'
                         /\ FastMay(u)' => FastMay(u)
    BY <1>0, <1>23 DEF Crash, Queued, Starting, FastMay, Idle
  <2>2. faults' = faults + 1 /\ activations' = activations
    BY <1>23, FaultFacts DEF Crash
  <2>3. ASSUME NEW u \in Tasks PROVE Paid(u)'
    BY <1>0, <2>1, <2>2, PaidFault
  <2> QED BY <2>3 DEF BudgetInv
<1>24. ASSUME Recover PROVE BudgetInv'
  <2>1. \A u \in Tasks : (Starting(u)' => Starting(u)) /\ (u \in Queued' => u \in Queued)
    BY <1>24 DEF Recover, EnsureRunning, LoopOff, Starting, Queued, TypeOK
  <2>2. ASSUME NEW u \in Tasks PROVE Paid(u)'
    BY <1>0, <1>24, <2>1, PaidKept, MayKept DEF Recover, deliveryVars
  <2> QED BY <2>2 DEF BudgetInv
<1> QED BY <1>3, <1>4, <1>5, <1>6, <1>7, <1>8, <1>9, <1>10, <1>11, <1>12, <1>13, <1>14, <1>15, <1>16, <1>17,
           <1>18, <1>22, <1>23, <1>24, <1>25 DEF Next, Deliver, Materialize, Answering
-----------------------------------------------------------------------------
(* Without a repeated delivery                                             *)

\* Whatever leaves the delivery of a handoff alone, and cancels no edge.
LEMMA OnceKept ==
  ASSUME NEW u \in Tasks, DeliveredOnce(u), replayed \subseteq replayed',
         attempt'[u] = attempt[u], intent'[u] = intent[u], Seen(u)' => Seen(u),
         edge'[u] = edge[u] \/ (Seen(u) /\ edge'[u] # "cancelled")
  PROVE  DeliveredOnce(u)'
  BY DEF DeliveredOnce

\* A handoff whose delivery was not repeated keeps one attempt at a time.
LEMMA OnceStepInv ==
  ASSUME BaseInv, OnceInv, Next
  PROVE  OnceInv'
<1> USE DEF Paths, outcomeVars, historyVars
<1>0. /\ attempt \in [Tasks -> [Paths -> AttemptRecords]]
      /\ edge \in [Tasks -> EdgeStates]
      /\ intent \in [Tasks -> {"none", "owed", "settled", "dropped"}]
      /\ TypeOK /\ LoopInv
      /\ \A u \in Tasks : Delivering(u) /\ DeliveredOnce(u)
  BY DEF BaseInv, TypeOK, AttemptRecords, DeliveryInv, OnceInv
<1>1. ASSUME NEW t \in Tasks, DeliveredOnce(t)', UNCHANGED <<run, loop, acks, stage>>,
             replayed \subseteq replayed',
             \A u \in Tasks \ {t} : attempt'[u] = attempt[u] /\ intent'[u] = intent[u] /\ edge'[u] = edge[u]
      PROVE  OnceInv'
  <2>1. \A u \in Tasks : Seen(u)' => Seen(u)
    BY <1>1 DEF Seen, Queued
  <2> QED BY <1>0, <1>1, <2>1, OnceKept DEF OnceInv
<1>2. ASSUME UNCHANGED <<run, loop, acks, stage>> PROVE \A u \in Tasks : Seen(u)' = Seen(u)
  BY <1>2 DEF Seen, Queued
<1>3. ASSUME NEW t \in Tasks, RecordHandoff(t), UNCHANGED <<intent, replayed>>,
             \A u \in Tasks : Seen(u)' => Seen(u)
      PROVE  OnceInv'
  <2>1. /\ attempt'[t]["fast"].pc = "persist" /\ attempt'[t]["drain"] = attempt[t]["drain"]
        /\ \A u \in Tasks \ {t} : attempt'[u] = attempt[u]
    BY <1>0, <1>3, GotoFacts DEF RecordHandoff, AttemptPcs
  <2>2. attempt[t]["drain"].pc = "idle" /\ ~Seen(t)
    BY <1>0, <1>3 DEF RecordHandoff, Delivering, Untouched
  <2>3. DeliveredOnce(t)'
    BY <1>0, <1>3, <2>1, <2>2 DEF RecordHandoff, DeliveredOnce
  <2>4. ASSUME NEW u \in Tasks \ {t} PROVE DeliveredOnce(u)'
    BY <1>0, <1>3, <2>1, OnceKept DEF RecordHandoff
  <2> QED BY <2>3, <2>4 DEF OnceInv
<1>4. ASSUME NEW t \in Tasks, Dispatch(t) PROVE OnceInv'
  BY <1>2, <1>3, <1>4 DEF Dispatch
<1>5. ASSUME NEW t \in Tasks, PersistIntent(t) PROVE OnceInv'
  <2>1. /\ attempt'[t]["fast"].pc = "read" /\ attempt'[t]["drain"] = attempt[t]["drain"]
        /\ \A u \in Tasks \ {t} : attempt'[u] = attempt[u]
    BY <1>0, <1>5, GotoFacts DEF PersistIntent, AttemptPcs
  <2>2. attempt[t]["drain"].pc = "idle" /\ ~Seen(t)'
    BY <1>0, <1>2, <1>5 DEF PersistIntent, Delivering, Unpersisted
  <2>3. DeliveredOnce(t)'
    BY <1>0, <1>5, <2>1, <2>2 DEF PersistIntent, DeliveredOnce
  <2> QED BY <1>0, <1>1, <1>5, <2>1, <2>3 DEF PersistIntent
<1>6. ASSUME NEW t \in Tasks, PersistIntentFails(t) PROVE OnceInv'
  <2>1. /\ attempt'[t]["fast"].pc = "threw" /\ attempt'[t]["drain"] = attempt[t]["drain"]
        /\ \A u \in Tasks \ {t} : attempt'[u] = attempt[u]
    BY <1>0, <1>6, GotoFacts DEF PersistIntentFails, AttemptPcs
  <2>2. attempt[t]["drain"].pc = "idle" /\ ~Seen(t)'
    BY <1>0, <1>2, <1>6 DEF PersistIntentFails, Delivering, Unpersisted
  <2>3. DeliveredOnce(t)'
    BY <1>0, <1>6, <2>1, <2>2 DEF PersistIntentFails, DeliveredOnce
  <2> QED BY <1>0, <1>1, <1>6, <2>1, <2>3 DEF PersistIntentFails
<1>7. ASSUME NEW t \in Tasks, DrainStart(t) \/ DrainOvertakes(t) PROVE OnceInv'
  <2>1. /\ attempt'[t]["drain"].pc = "read" /\ attempt'[t]["fast"] = attempt[t]["fast"]
        /\ \A u \in Tasks \ {t} : attempt'[u] = attempt[u]
    BY <1>0, <1>7, GotoFacts DEF DrainStart, DrainOvertakes, AttemptPcs
  <2>2. DeliveredOnce(t)'
    BY <1>0, <1>2, <1>7, <2>1 DEF DrainStart, DrainOvertakes, DeliveredOnce
  <2> QED BY <1>0, <1>1, <1>7, <2>1, <2>2 DEF DrainStart, DrainOvertakes
<1>8. ASSUME NEW t \in Tasks, NEW p \in Paths, DeliverRead(t, p) PROVE OnceInv'
  <2>1. DeliveredOnce(t)'
    BY <1>0, <1>2, <1>8, ReadFacts DEF DeliverRead, DeliveredOnce
  <2> QED BY <1>0, <1>1, <1>8, <2>1, ReadFacts DEF DeliverRead
<1>9. ASSUME NEW t \in Tasks, NEW p \in Paths, DeliverGet(t, p) PROVE OnceInv'
  <2>1. /\ attempt'[t][p].pc \in {"enqueue", "signal"}
        /\ \A q \in Paths \ {p} : attempt'[t][q] = attempt[t][q]
        /\ \A u \in Tasks \ {t} : attempt'[u] = attempt[u]
    BY <1>0, <1>9, GotoFacts DEF DeliverGet, AttemptPcs
  <2>2. DeliveredOnce(t)'
    BY <1>0, <1>2, <1>9, <2>1 DEF DeliverGet, DeliveredOnce
  <2> QED BY <1>0, <1>1, <1>9, <2>1, <2>2 DEF DeliverGet
<1>10. ASSUME NEW t \in Tasks, NEW p \in Paths, DeliverEnqueue(t, p) PROVE OnceInv'
  <2>1. /\ attempt'[t][p].pc \in {"fail", "signal"}
        /\ \A q \in Paths \ {p} : attempt'[t][q] = attempt[t][q]
        /\ \A u \in Tasks \ {t} : attempt'[u] = attempt[u]
    BY <1>0, <1>10, GotoFacts DEF DeliverEnqueue, AttemptPcs
  <2>2. attempt[t][p].pc = "enqueue" /\ edge[t] # "cancelled"
    BY <1>0, <1>10 DEF DeliverEnqueue, Delivering, ReadHolds
  <2>3. UNCHANGED <<edge, intent, replayed, loop, acks, stage>>
    BY <1>10 DEF DeliverEnqueue
  <2>4. attempt'[t][p].pc = "fail" => run' = run
    <3>1. CASE Goto(t, p, "signal")
      BY <1>0, <3>1, GotoFacts DEF AttemptPcs
    <3> QED BY <1>0, <1>10, <3>1, EnqueueFacts
  <2>5. \A u \in Tasks \ {t} : Seen(u)' => Seen(u)
    <3>1. Queued' \subseteq Queued \cup {t} /\ run'.last = run.last
      BY <1>0, <1>10, EnqueueFacts DEF Queued
    <3> QED BY <2>3, <3>1 DEF Seen
  <2>6. attempt'[t][p].pc = "fail" => (Seen(t)' => Seen(t))
    BY <2>3, <2>4 DEF Seen, Queued
  <2>7. DeliveredOnce(t)'
    BY <1>0, <2>1, <2>2, <2>3, <2>6 DEF DeliveredOnce
  <2>8. ASSUME NEW u \in Tasks \ {t} PROVE DeliveredOnce(u)'
    BY <1>0, <2>1, <2>3, <2>5, OnceKept
  <2> QED BY <2>7, <2>8 DEF OnceInv
<1>11. ASSUME NEW t \in Tasks, NEW p \in Paths, DeliverSignal(t, p) PROVE OnceInv'
  <2>1. /\ attempt'[t][p].pc \in {"mark", "settle"}
        /\ \A q \in Paths \ {p} : attempt'[t][q] = attempt[t][q]
        /\ \A u \in Tasks \ {t} : attempt'[u] = attempt[u]
    BY <1>0, <1>11, GotoFacts DEF DeliverSignal, AttemptPcs
  <2>2. \A u \in Tasks : Seen(u)' => Seen(u)
    <3>1. loop'.held = loop.held \/ loop'.held \notin Tasks
      BY <1>11, RoleRunAssumption DEF DeliverSignal, EnsureRunning, LoopOff
    <3> QED BY <1>11, <3>1 DEF DeliverSignal, Seen, Queued
  <2>3. DeliveredOnce(t)'
    BY <1>0, <1>11, <2>1, <2>2 DEF DeliverSignal, DeliveredOnce
  <2>4. ASSUME NEW u \in Tasks \ {t} PROVE DeliveredOnce(u)'
    BY <1>0, <1>11, <2>1, <2>2, OnceKept DEF DeliverSignal
  <2> QED BY <2>3, <2>4 DEF OnceInv
<1>12. ASSUME NEW t \in Tasks, NEW p \in Paths, DeliverMark(t, p) \/ DeliverMarkFails(t, p) PROVE OnceInv'
  <2>1. /\ attempt'[t][p].pc = IF DeliverMark(t, p) THEN "settle" ELSE "fail"
        /\ \A q \in Paths \ {p} : attempt'[t][q] = attempt[t][q]
        /\ \A u \in Tasks \ {t} : attempt'[u] = attempt[u]
    BY <1>0, <1>12, GotoFacts DEF DeliverMark, DeliverMarkFails, AttemptPcs
  <2>2. DeliveredOnce(t)'
    BY <1>0, <1>2, <1>12, <2>1 DEF DeliverMark, DeliverMarkFails, DeliveredOnce
  <2> QED BY <1>0, <1>1, <1>12, <2>1, <2>2 DEF DeliverMark, DeliverMarkFails
<1>13. ASSUME NEW t \in Tasks, NEW p \in Paths, DeliverSettle(t, p) PROVE OnceInv'
  <2>1. /\ attempt'[t][p].pc = "idle"
        /\ \A q \in Paths \ {p} : attempt'[t][q] = attempt[t][q]
        /\ \A u \in Tasks \ {t} : attempt'[u] = attempt[u]
    BY <1>0, <1>13, GotoFacts DEF DeliverSettle, AttemptPcs
  <2>2. DeliveredOnce(t)'
    BY <1>0, <1>2, <1>13, <2>1 DEF DeliverSettle, DeliveredOnce
  <2> QED BY <1>0, <1>1, <1>13, <2>1, <2>2 DEF DeliverSettle
<1>14. ASSUME NEW t \in Tasks, FastFails(t) PROVE OnceInv'
  <2>1. /\ attempt'[t]["fast"].pc = "threw" /\ attempt'[t]["drain"] = attempt[t]["drain"]
        /\ \A u \in Tasks \ {t} : attempt'[u] = attempt[u]
    BY <1>0, <1>14, GotoFacts DEF FastFails, AttemptPcs
  <2>2. DeliveredOnce(t)'
    BY <1>0, <1>2, <1>14, <2>1 DEF FastFails, DeliveredOnce
  <2> QED BY <1>0, <1>1, <1>14, <2>1, <2>2 DEF FastFails
<1>15. ASSUME NEW t \in Tasks, DrainFails(t) PROVE OnceInv'
  <2>1. /\ attempt'[t]["drain"].pc \in {"drop", "idle"} /\ attempt'[t]["fast"] = attempt[t]["fast"]
        /\ \A u \in Tasks \ {t} : attempt'[u] = attempt[u]
    BY <1>0, <1>15, GotoFacts DEF DrainFails, AttemptPcs
  <2>2. DeliveredOnce(t)'
    BY <1>0, <1>2, <1>15, <2>1 DEF DrainFails, DeliveredOnce
  <2> QED BY <1>0, <1>1, <1>15, <2>1, <2>2 DEF DrainFails
<1>16. ASSUME NEW t \in Tasks, AbandonRead(t) \/ AbandonCancel(t) \/ AbandonFails(t) PROVE OnceInv'
  <2>1. /\ attempt'[t]["drain"].pc = IF AbandonRead(t) /\ edge[t] = "created" THEN "cancel" ELSE "idle"
        /\ attempt'[t]["fast"] = attempt[t]["fast"]
        /\ \A u \in Tasks \ {t} : attempt'[u] = attempt[u]
    BY <1>0, <1>16, GotoFacts DEF AbandonRead, AbandonCancel, AbandonFails, AttemptPcs
  <2>2. DeliveredOnce(t)'
    BY <1>0, <1>2, <1>16, <2>1 DEF AbandonRead, AbandonCancel, AbandonFails, DeliveredOnce
  <2> QED BY <1>0, <1>1, <1>16, <2>1, <2>2 DEF AbandonRead, AbandonCancel, AbandonFails
<1>17. ASSUME NEW t \in Tasks, EdgeAck(t) PROVE OnceInv'
  <2>1. \A u \in Tasks : Seen(u)' => Seen(u)
    BY <1>17 DEF EdgeAck, Seen, Queued
  <2>2. Seen(t) /\ (edge'[t] = "cancelled" => edge[t] = "cancelled") /\ \A u \in Tasks \ {t} : edge'[u] = edge[u]
    BY <1>0, <1>17 DEF EdgeAck, Seen, AckedState
  <2>3. ASSUME NEW u \in Tasks PROVE DeliveredOnce(u)'
    BY <1>0, <1>17, <2>1, <2>2, OnceKept DEF EdgeAck, deliveryVars
  <2> QED BY <2>3 DEF OnceInv
<1>18. ASSUME NEW t \in Tasks, Answering(t) PROVE OnceInv'
  <2>1. Seen(t) /\ \A u \in Tasks : edge'[u] = edge[u] \/ (u = t /\ edge'[u] # "cancelled")
    BY <1>0, <1>18, AnsweringEffects DEF Seen
  <2>2. ASSUME NEW u \in Tasks PROVE DeliveredOnce(u)'
    BY <1>0, <1>18, <2>1, AnsweringEffects, OnceKept
  <2> QED BY <2>2 DEF OnceInv
<1>19. ASSUME NEW t \in Tasks, NEW u \in Tasks, DispatchRetry(t, u) PROVE OnceInv'
  <2>1. \A v \in Tasks : Seen(v)' => Seen(v)
    BY <1>0, <1>19 DEF DispatchRetry, Seen, Queued, TypeOK
  <2> QED BY <1>3, <1>19, <2>1 DEF DispatchRetry
<1>20. ASSUME LoopStep \/ LoopThrows \/ Cancel PROVE OnceInv'
  BY <1>0, <1>20, LoopEffects, OnceKept DEF OnceInv
<1>21. ASSUME Crash PROVE OnceInv'
  <2>1. \A u \in Tasks : Seen(u)' => Seen(u)
    BY <1>21, RoleRunAssumption DEF Crash, Unacknowledged, Seen, Queued, LoopOff
  <2>2. \A u \in Tasks, p \in Paths : attempt'[u][p].pc = "idle"
    BY <1>21 DEF Crash, Idle
  <2>3. ASSUME NEW u \in Tasks PROVE DeliveredOnce(u)'
    BY <1>0, <1>21, <2>1, <2>2 DEF Crash, DeliveredOnce
  <2> QED BY <2>3 DEF OnceInv
<1>22. ASSUME Recover PROVE OnceInv'
  <2>1. loop'.held = loop.held \/ loop'.held \notin Tasks
    BY <1>22, RoleRunAssumption DEF Recover, EnsureRunning, LoopOff
  <2>2. run'.inbox = run.inbox /\ run'.last = run.last
    BY <1>0, <1>22 DEF Recover, TypeOK
  <2>3. \A u \in Tasks : Seen(u)' => Seen(u)
    BY <1>22, <2>1, <2>2 DEF Recover, Seen, Queued
  <2> QED BY <1>0, <1>22, <2>3, OnceKept DEF Recover, deliveryVars, OnceInv
<1> QED BY <1>4, <1>5, <1>6, <1>7, <1>8, <1>9, <1>10, <1>11, <1>12, <1>13, <1>14, <1>15, <1>16, <1>17,
           <1>18, <1>19, <1>20, <1>21, <1>22 DEF Next, Deliver, Materialize, Answering

\* No step but the replay of an outcome, or one beside a repeated delivery, opens
\* a closed edge again.
LEMMA ClosedStep ==
  ASSUME BaseInv, OnceInv, Next, NEW t \in Tasks, edge[t] = "closed", edge'[t] # "closed"
  PROVE  stage[t] = "respond" \/ t \in replayed
<1> USE DEF deliveryVars, outcomeVars, historyVars
<1>0. /\ edge \in [Tasks -> EdgeStates] /\ TypeOK /\ LoopInv
      /\ \A u \in Tasks : Delivering(u) /\ DeliveredOnce(u)
  BY DEF BaseInv, TypeOK, DeliveryInv, OnceInv
<1>1. ASSUME NEW u \in Tasks, RecordHandoff(u) PROVE FALSE
  BY <1>0, <1>1 DEF RecordHandoff
<1>2. ASSUME NEW u \in Tasks, PersistIntentFails(u) PROVE FALSE
  BY <1>0, <1>2 DEF PersistIntentFails, Delivering, Unpersisted
<1>3. ASSUME NEW u \in Tasks, NEW p \in Paths, DeliverMark(u, p) PROVE FALSE
  BY <1>0, <1>3 DEF DeliverMark
<1>4. ASSUME NEW u \in Tasks, AbandonCancel(u) PROVE t \in replayed
  BY <1>0, <1>4 DEF AbandonCancel, DeliveredOnce
<1>5. ASSUME NEW u \in Tasks, EdgeAck(u) PROVE FALSE
  BY <1>0, <1>5 DEF EdgeAck, AckedState
<1>6. ASSUME NEW u \in Tasks, Answering(u) PROVE stage[t] = "respond"
  BY <1>0, <1>6, AnsweringEffects
<1>7. ASSUME NEW u \in Tasks, Deliver(u) PROVE t \in replayed
  <2>1. edge' # edge
    OBVIOUS
  <2> QED BY <1>2, <1>3, <1>4, <1>7, <2>1 DEF Deliver, PersistIntent, DrainStart, DrainOvertakes,
         DeliverRead, DeliverGet, DeliverEnqueue, DeliverSignal, DeliverMarkFails, DeliverSettle,
         FastFails, DrainFails, AbandonRead, AbandonFails
<1>8. ~(LoopStep \/ LoopThrows \/ Cancel)
  BY <1>0, LoopEffects
<1>9. ~Crash /\ ~Recover
  BY DEF Crash, Recover
<1> QED BY <1>1, <1>5, <1>6, <1>7, <1>8, <1>9 DEF Next, Materialize, Answering, Dispatch, DispatchRetry
-----------------------------------------------------------------------------
(* No handoff is forgotten                                                 *)

\* A loop that ends leaves behind only what an attempt is still to signal, or
\* what is known to be lost.
LEMMA ExitCares ==
  ASSUME NEW u \in Tasks, Cared(u), loop.pc \notin HoldingPcs \/ loop.held # u \/ u \in excused',
         excused \cup LeftBehind \subseteq excused', UNCHANGED <<attempt, edge>>,
         stage[u] # "none" => stage'[u] # "none", run'.inbox = run.inbox
  PROVE  Cared(u)'
  BY DEF Cared, Taken, Attended, LeftBehind, Unsignalled, Queued

\* A loop that goes on keeps what it holds.
LEMMA LoopCares ==
  ASSUME NEW u \in Tasks, Cared(u), loop'.pc # "off", u \in Queued => u \in Queued',
         loop.held = u /\ loop.pc \in HoldingPcs =>
           stage'[u] # "none" \/ (loop'.held = u /\ loop'.pc \in HoldingPcs),
         excused \subseteq excused', edge'[u] = edge[u],
         stage[u] # "none" => stage'[u] # "none"
  PROVE  Cared(u)'
  BY DEF Cared, Taken, Attended

\* Once somebody cares for a handoff, somebody does until it is given up.
LEMMA CaredStep ==
  ASSUME BaseInv, Next
  PROVE  \A u \in Tasks : Cared(u) => Cared(u)'
<1> SUFFICES ASSUME NEW u \in Tasks, Cared(u) PROVE Cared(u)'
  OBVIOUS
<1> USE DEF Paths, outcomeVars, historyVars
<1>0. /\ attempt \in [Tasks -> [Paths -> AttemptRecords]]
      /\ edge \in [Tasks -> EdgeStates] /\ stage \in [Tasks -> Stages]
      /\ run \in [status : Statuses, inbox : Seq(Tasks), iter : Nat, last : Tasks \cup {NoTask}]
      /\ loop \in [pc : LoopPcs, held : Tasks \cup {NoTask}, aborted : BOOLEAN]
      /\ TypeOK /\ LoopInv /\ Delivering(u)
      /\ LoopOff.pc = "off"
  BY DEF BaseInv, TypeOK, AttemptRecords, DeliveryInv, LoopOff
\* An attempt moves.
<1>1. ASSUME UNCHANGED <<run, loop, stage, recovering>>, excused \subseteq excused',
             edge[u] = "cancelled" => edge'[u] = "cancelled",
             \/ u \notin Queued \/ stage[u] # "none" \/ edge'[u] = "cancelled"
             \/ \E q \in Paths : attempt'[u][q].pc \in {"read", "get", "enqueue", "signal"}
             \/ \A q \in Paths : attempt[u][q].pc \notin {"read", "get", "enqueue", "signal"}
      PROVE  Cared(u)'
  BY <1>1 DEF Cared, Taken, Attended, Queued
<1>2. ASSUME NEW t \in Tasks, RecordHandoff(t), UNCHANGED <<run, loop, recovering, excused>>,
             \A v \in Tasks : stage[v] # "none" => stage'[v] # "none"
      PROVE  Cared(u)'
  <2>1. attempt'[t]["drain"] = attempt[t]["drain"] /\ \A v \in Tasks \ {t} : attempt'[v] = attempt[v]
    BY <1>0, <1>2, GotoFacts DEF RecordHandoff, AttemptPcs
  <2>2. (attempt[t]["fast"].pc = "idle" /\ edge[t] = "none") \/ u # t
    BY <1>0, <1>2 DEF RecordHandoff, Delivering, Untouched
  <2>3. \A q \in Paths : attempt[u][q].pc \in {"read", "get", "enqueue", "signal"} => attempt'[u][q] = attempt[u][q]
    BY <2>1, <2>2
  <2>4. edge'[u] = edge[u] \/ edge[u] = "none"
    BY <1>0, <1>2, <2>2 DEF RecordHandoff
  <2> QED BY <1>2, <2>3, <2>4 DEF Cared, Taken, Attended, Queued
<1>3. ASSUME NEW t \in Tasks, Dispatch(t) PROVE Cared(u)'
  BY <1>2, <1>3 DEF Dispatch
<1>4. ASSUME NEW t \in Tasks, PersistIntent(t) PROVE Cared(u)'
  <2>1. /\ attempt'[t]["fast"].pc = "read" /\ attempt'[t]["drain"] = attempt[t]["drain"]
        /\ \A v \in Tasks \ {t} : attempt'[v] = attempt[v]
    BY <1>0, <1>4, GotoFacts DEF PersistIntent, AttemptPcs
  <2> QED BY <1>0, <1>1, <1>4, <2>1 DEF PersistIntent
<1>5. ASSUME NEW t \in Tasks, PersistIntentFails(t) PROVE Cared(u)'
  <2>1. \A v \in Tasks \ {t} : attempt'[v] = attempt[v]
    BY <1>0, <1>5, GotoFacts DEF PersistIntentFails, AttemptPcs
  <2> QED BY <1>0, <1>1, <1>5, <2>1 DEF PersistIntentFails
<1>6. ASSUME NEW t \in Tasks, DrainStart(t) \/ DrainOvertakes(t) PROVE Cared(u)'
  <2>1. /\ attempt'[t]["drain"].pc = "read"
        /\ \A v \in Tasks \ {t} : attempt'[v] = attempt[v]
    BY <1>0, <1>6, GotoFacts DEF DrainStart, DrainOvertakes, AttemptPcs
  <2> QED BY <1>0, <1>1, <1>6, <2>1 DEF DrainStart, DrainOvertakes
<1>7. ASSUME NEW t \in Tasks, NEW p \in Paths, DeliverRead(t, p) PROVE Cared(u)'
  <2>1. /\ attempt'[t][p].pc = "get" \/ edge[t] \in {"cancelled", "responded", "closed"}
        /\ \A v \in Tasks \ {t} : attempt'[v] = attempt[v]
    BY <1>0, <1>7, ReadFacts DEF DeliverRead
  <2>2. edge[t] \in {"responded", "closed"} => stage[t] # "none"
    BY DEF BaseInv, StageInv
  <2> QED BY <1>0, <1>1, <1>7, <2>1, <2>2 DEF DeliverRead
<1>8. ASSUME NEW t \in Tasks, NEW p \in Paths, DeliverGet(t, p) PROVE Cared(u)'
  <2>1. /\ attempt'[t][p].pc \in {"enqueue", "signal"}
        /\ \A v \in Tasks \ {t} : attempt'[v] = attempt[v]
    BY <1>0, <1>8, GotoFacts DEF DeliverGet, AttemptPcs
  <2> QED BY <1>0, <1>1, <1>8, <2>1 DEF DeliverGet
<1>9. ASSUME NEW t \in Tasks, NEW p \in Paths, DeliverEnqueue(t, p) PROVE Cared(u)'
  <2>1. /\ \A v \in Tasks \ {t} : attempt'[v] = attempt[v]
        /\ attempt[t][p].pc = "enqueue"
    BY <1>0, <1>9, GotoFacts DEF DeliverEnqueue, AttemptPcs
  <2>2. u = t => u \notin Queued
    BY <1>0, <2>1 DEF Delivering, ReadHolds
  <2>3. CASE run' = run /\ excused' = excused
    BY <1>0, <1>1, <1>9, <2>1, <2>2, <2>3 DEF DeliverEnqueue
  <2>4. CASE /\ Goto(t, p, "signal")
             /\ excused' = excused \cup (Queued \ Queued')
             /\ run'.status \in {"queued", "running"}
    <3>1. attempt'[t][p].pc = "signal"
      BY <1>0, <2>4, GotoFacts DEF AttemptPcs
    <3> QED BY <1>9, <2>1, <2>2, <2>4, <3>1 DEF DeliverEnqueue, Cared, Taken, Attended
  <2> QED BY <1>0, <1>9, <2>3, <2>4, EnqueueFacts
<1>10. ASSUME NEW t \in Tasks, NEW p \in Paths, DeliverSignal(t, p) PROVE Cared(u)'
  <2>1. loop'.pc # "off" /\ (loop.pc # "off" => loop' = loop)
    BY <1>0, <1>10 DEF DeliverSignal, EnsureRunning, LoopOff
  <2> QED BY <1>10, <2>1, LoopCares DEF DeliverSignal, HoldingPcs, Queued
<1>11. ASSUME NEW t \in Tasks, NEW p \in Paths,
              DeliverMark(t, p) \/ DeliverMarkFails(t, p) \/ DeliverSettle(t, p)
       PROVE  Cared(u)'
  <2>1. /\ attempt[t][p].pc \in {"mark", "settle"}
        /\ \A q \in Paths \ {p} : attempt'[t][q] = attempt[t][q]
        /\ \A v \in Tasks \ {t} : attempt'[v] = attempt[v]
    BY <1>0, <1>11, GotoFacts DEF DeliverMark, DeliverMarkFails, DeliverSettle, AttemptPcs
  <2>2. edge[u] = "cancelled" => edge'[u] = "cancelled"
    BY <1>0, <1>11 DEF DeliverMark, DeliverMarkFails, DeliverSettle
  <2>3. \A q \in Paths : attempt[u][q].pc \in {"read", "get", "enqueue", "signal"} => attempt'[u][q] = attempt[u][q]
    BY <2>1
  <2>4. UNCHANGED <<run, loop, stage, recovering, excused>>
    BY <1>11 DEF DeliverMark, DeliverMarkFails, DeliverSettle
  <2> QED BY <1>1, <2>2, <2>3, <2>4
<1>12. ASSUME NEW t \in Tasks,
              FastFails(t) \/ DrainFails(t) \/ AbandonRead(t) \/ AbandonCancel(t) \/ AbandonFails(t)
       PROVE  Cared(u)'
  <2>1. PICK p \in Paths : /\ attempt[t][p].pc \in {"fail", "drop", "cancel"}
                           /\ \A q \in Paths \ {p} : attempt'[t][q] = attempt[t][q]
                           /\ \A v \in Tasks \ {t} : attempt'[v] = attempt[v]
    <3>1. CASE FastFails(t)
      BY <1>0, <3>1, GotoFacts DEF FastFails, AttemptPcs
    <3>2. CASE DrainFails(t) \/ AbandonRead(t) \/ AbandonCancel(t) \/ AbandonFails(t)
      BY <1>0, <3>2, GotoFacts DEF DrainFails, AbandonRead, AbandonCancel, AbandonFails, AttemptPcs
    <3> QED BY <1>12, <3>1, <3>2
  <2>2. edge[u] = "cancelled" => edge'[u] = "cancelled"
    BY <1>0, <1>12 DEF FastFails, DrainFails, AbandonRead, AbandonCancel, AbandonFails
  <2>3. \A q \in Paths : attempt[u][q].pc \in {"read", "get", "enqueue", "signal"} => attempt'[u][q] = attempt[u][q]
    BY <2>1
  <2>4. UNCHANGED <<run, loop, stage, recovering>> /\ excused \subseteq excused'
    BY <1>12 DEF FastFails, DrainFails, AbandonRead, AbandonCancel, AbandonFails
  <2> QED BY <1>1, <2>2, <2>3, <2>4
<1>13. ASSUME NEW t \in Tasks, EdgeAck(t) PROVE Cared(u)'
  BY <1>0, <1>1, <1>13 DEF EdgeAck, AckedState, deliveryVars
<1>14. ASSUME loop.pc = "await", LoopResume, UNCHANGED <<run, attempt, edge>>,
              stage[u] # "none" => stage'[u] # "none"
       PROVE  Cared(u)'
  <2>1. CASE outcome[loop.held] = "reply"
    BY <1>14, <2>1, LoopCares DEF LoopResume, LoopOff, HoldingPcs, Queued
  <2>2. CASE outcome[loop.held] # "reply"
    BY <1>14, <2>2, ExitCares DEF LoopResume, LoopExit, HoldingPcs
  <2> QED BY <2>1, <2>2
<1>15. ASSUME NEW t \in Tasks, Answering(t) PROVE Cared(u)'
  <2>1. /\ stage[u] # "none" => stage'[u] # "none"
        /\ stage'[u] # "none" \/ edge'[u] = edge[u]
        /\ UNCHANGED <<run, attempt, recovering>>
    BY <1>0, <1>15, AnsweringEffects
  <2>2. CASE loop.pc = "await" /\ LoopResume /\ edge' = edge
    BY <1>14, <2>1, <2>2
  <2>3. CASE loop' = loop /\ excused' = excused
    BY <2>1, <2>3 DEF Cared, Taken, Attended, Queued
  <2>4. \/ loop' = loop /\ excused' = excused
        \/ loop.pc = "await" /\ LoopResume /\ edge' = edge
    BY <1>15 DEF Answering, Respond, Close, PlanRetry, DispatchRefused, RetryDelivered, OutcomeFails,
       RetryThrows, Rematerialize
  <2> QED BY <2>2, <2>3, <2>4
<1>16. ASSUME NEW t \in Tasks, NEW v \in Tasks, DispatchRetry(t, v) PROVE Cared(u)'
  <2>1. \A w \in Tasks : stage[w] # "none" => stage'[w] # "none"
    BY <1>0, <1>16 DEF DispatchRetry
  <2> QED BY <1>2, <1>16, <2>1 DEF DispatchRetry
<1>17. ASSUME LoopStart \/ LoopSetRunning \/ LoopCheck \/ LoopIncrement \/ LoopAck \/ Cancel \/ LoopFail
              \/ \E ok \in BOOLEAN : ActivationEnds(ok)
       PROVE  Cared(u)'
  <2>1. /\ loop'.held = loop.held /\ loop'.pc # "off"
        /\ loop.pc \in HoldingPcs => loop'.pc \in HoldingPcs
        /\ UNCHANGED <<edge, stage, excused>>
        /\ run'.inbox = run.inbox
    BY <1>0, <1>17 DEF LoopStart, LoopSetRunning, LoopCheck, LoopIncrement, LoopAck, Cancel, LoopFail,
       ActivationEnds, LoopAt, LoopTo, HoldingPcs
  <2> QED BY <2>1, LoopCares DEF Queued
<1>18. ASSUME LoopDequeue PROVE Cared(u)'
  <2>1. CASE run.inbox = <<>>
    BY <1>0, <1>18, <2>1, LoopCares DEF LoopDequeue, LoopTo, HoldingPcs, Queued
  <2>2. CASE run.inbox # <<>>
    <3>1. /\ run'.inbox = Tail(run.inbox) /\ loop'.held = Head(run.inbox)
          /\ loop'.pc \in {"increment", "limitFail"} /\ loop.pc \in {"dequeue", "limitDequeue"}
          /\ UNCHANGED <<edge, stage, excused>>
      BY <1>0, <1>18, <2>2 DEF LoopDequeue
    <3>2. u \in Queued => u \in Queued' \/ u = loop'.held
      BY <1>0, <2>2, <3>1, QueueTail DEF Queued
    <3> QED BY <3>1, <3>2 DEF Cared, Taken, Attended, HoldingPcs
  <2> QED BY <2>1, <2>2
<1>19. ASSUME LoopSetIdle PROVE Cared(u)'
  <2>1. run'.inbox = run.inbox
    BY <1>0, <1>19 DEF LoopSetIdle
  <2> QED BY <1>19, <2>1, ExitCares DEF LoopSetIdle, LoopAt, LoopExit, HoldingPcs, deliveryVars
<1>20. ASSUME LoopAnswer PROVE Cared(u)'
  <2>1. loop'.pc = "await" /\ UNCHANGED <<run, edge, excused>> /\ loop.held \in Tasks
    BY <1>0, <1>20 DEF LoopAnswer, LoopTo, LoopInv, HoldingPcs
  <2>2. (loop.held = u => stage'[u] # "none") /\ (stage[u] # "none" => stage'[u] # "none")
    BY <1>0, <1>20, <2>1 DEF LoopAnswer
  <2> QED BY <2>1, <2>2 DEF Cared, Taken, Attended, Queued
<1>21. ASSUME LoopAwait PROVE Cared(u)'
  BY <1>14, <1>21 DEF LoopAwait, LoopAt, deliveryVars
<1>22. ASSUME LoopThrows PROVE Cared(u)'
  <2>1. loop.held = u /\ loop.pc \in HoldingPcs => u \in excused'
    BY <1>22 DEF LoopThrows, Unanswered, HoldingPcs
  <2> QED BY <1>22, <2>1, ExitCares DEF LoopThrows, deliveryVars
<1>23. ASSUME Crash PROVE Cared(u)'
  <2>1. stage[u] # "none" => stage'[u] # "none"
    BY <1>0, <1>23 DEF Crash
  <2>2. loop.held = u /\ loop.pc \in HoldingPcs => u \in excused'
    BY <1>23 DEF Crash, LostByCrash, Unanswered, HoldingPcs
  <2>3. u \in Queued => u \in excused' \/ run.status \in {"queued", "running"}
    BY <1>23 DEF Crash, LostByCrash
  <2>4. recovering' /\ UNCHANGED <<run, edge>> /\ excused \subseteq excused'
    BY <1>23 DEF Crash
  <2> QED BY <2>1, <2>2, <2>3, <2>4 DEF Cared, Taken, Attended, Queued
<1>24. ASSUME Recover PROVE Cared(u)'
  <2>1. /\ run'.inbox = run.inbox
        /\ UNCHANGED <<edge, stage, excused, attempt>>
        /\ loop.pc # "off" => loop' = loop
    BY <1>0, <1>24 DEF Recover, EnsureRunning, deliveryVars
  <2>2. CASE loop'.pc # "off"
    BY <2>1, <2>2, LoopCares DEF Queued, HoldingPcs
  <2>3. CASE loop'.pc = "off"
    <3>1. loop.pc = "off" /\ loop' = loop /\ ~Restartable
      BY <1>0, <1>24, <2>1, <2>3 DEF Recover, EnsureRunning, LoopOff
    <3>2. u \in Queued => run.inbox # <<>>
      BY <1>0, QueueSingle DEF Queued
    <3>3. u \in Queued => run.status \notin {"queued", "running"}
      BY <3>1, <3>2 DEF Restartable, EmptyQueued
    <3> QED BY <2>1, <3>1, <3>3 DEF Cared, Taken, Attended, Queued, HoldingPcs
  <2> QED BY <2>2, <2>3
<1> QED BY <1>3, <1>4, <1>5, <1>6, <1>7, <1>8, <1>9, <1>10, <1>11, <1>12, <1>13, <1>15, <1>16, <1>17,
           <1>18, <1>19, <1>20, <1>21, <1>22, <1>23, <1>24
        DEF Next, Deliver, Materialize, Answering, LoopStep

\* Whatever leaves the delivery of a handoff alone.
LEMMA CareKept ==
  ASSUME NEW u \in Tasks, LookedAfter(u), Cared(u) => Cared(u)', excused \subseteq excused',
         attempt'[u] = attempt[u], intent'[u] = intent[u],
         edge'[u] = edge[u] \/ (Cared(u)' /\ edge'[u] # "created"),
         u \in Queued' => u \in Queued,
         run'.last = u => run.last = u \/ Cared(u)',
         u \in acks' => u \in acks \/ Cared(u)'
  PROVE  LookedAfter(u)'
  BY DEF LookedAfter

\* Every handoff that a step touches is looked after.
LEMMA CareStepInv ==
  ASSUME BaseInv, CareInv, Next
  PROVE  CareInv'
<1> USE DEF Paths, outcomeVars, historyVars
<1>0. /\ attempt \in [Tasks -> [Paths -> AttemptRecords]]
      /\ edge \in [Tasks -> EdgeStates] /\ stage \in [Tasks -> Stages]
      /\ intent \in [Tasks -> {"none", "owed", "settled", "dropped"}]
      /\ run \in [status : Statuses, inbox : Seq(Tasks), iter : Nat, last : Tasks \cup {NoTask}]
      /\ loop \in [pc : LoopPcs, held : Tasks \cup {NoTask}, aborted : BOOLEAN]
  BY DEF BaseInv, TypeOK, AttemptRecords
<1>0a. /\ TypeOK /\ LoopInv
       /\ \A u \in Tasks : Delivering(u) /\ LookedAfter(u) /\ (Cared(u) => Cared(u)')
  BY CaredStep DEF BaseInv, DeliveryInv, CareInv
<1> USE <1>0a
<1>1. ASSUME NEW t \in Tasks, LookedAfter(t)', excused \subseteq excused',
             \A u \in Tasks \ {t} : attempt'[u] = attempt[u] /\ intent'[u] = intent[u] /\ edge'[u] = edge[u],
             run'.last = run.last, \A u \in Tasks \ {t} : u \in Queued' => u \in Queued,
             acks' \subseteq acks
      PROVE  CareInv'
  BY <1>1, CareKept DEF CareInv
<1>2. ASSUME NEW t \in Tasks, RecordHandoff(t), UNCHANGED <<run, acks, excused, intent>>
      PROVE  CareInv'
  <2>1. /\ attempt'[t]["fast"].pc = "persist" /\ attempt'[t]["drain"] = attempt[t]["drain"]
        /\ \A u \in Tasks \ {t} : attempt'[u] = attempt[u]
    BY <1>0, <1>2, GotoFacts DEF RecordHandoff, AttemptPcs
  <2>2. attempt[t]["drain"].pc = "idle" /\ intent[t] = "none" /\ ~Seen(t)
    BY <1>0, <1>2 DEF RecordHandoff, Delivering, Untouched
  <2>3. edge'[t] = "created" /\ \A u \in Tasks \ {t} : edge'[u] = edge[u]
    BY <1>0, <1>2 DEF RecordHandoff
  <2>4. LookedAfter(t)'
    BY <1>0, <1>2, <2>1, <2>2, <2>3 DEF LookedAfter, Seen, Queued
  <2> QED BY <1>1, <1>2, <2>1, <2>3, <2>4 DEF Queued
<1>3. ASSUME NEW t \in Tasks, Dispatch(t) PROVE CareInv'
  BY <1>2, <1>3 DEF Dispatch
<1>4. ASSUME NEW t \in Tasks, PersistIntent(t) PROVE CareInv'
  <2>1. /\ attempt'[t]["fast"].pc = "read" /\ attempt'[t]["drain"] = attempt[t]["drain"]
        /\ \A u \in Tasks \ {t} : attempt'[u] = attempt[u]
    BY <1>0, <1>4, GotoFacts DEF PersistIntent, AttemptPcs
  <2>2. LookedAfter(t)'
    BY <1>0, <1>4, <2>1 DEF PersistIntent, LookedAfter, Queued
  <2> QED BY <1>0, <1>1, <1>4, <2>1, <2>2 DEF PersistIntent, Queued
<1>5. ASSUME NEW t \in Tasks, PersistIntentFails(t) PROVE CareInv'
  <2>1. /\ attempt'[t]["fast"].pc = "threw" /\ attempt'[t]["drain"] = attempt[t]["drain"]
        /\ \A u \in Tasks \ {t} : attempt'[u] = attempt[u]
    BY <1>0, <1>5, GotoFacts DEF PersistIntentFails, AttemptPcs
  <2>2. LookedAfter(t)'
    BY <1>0, <1>5, <2>1 DEF PersistIntentFails, LookedAfter, Queued
  <2> QED BY <1>0, <1>1, <1>5, <2>1, <2>2 DEF PersistIntentFails, Queued
<1>6. ASSUME NEW t \in Tasks, DrainStart(t) \/ DrainOvertakes(t) PROVE CareInv'
  <2>1. /\ attempt'[t]["drain"].pc = "read" /\ attempt'[t]["fast"] = attempt[t]["fast"]
        /\ \A u \in Tasks \ {t} : attempt'[u] = attempt[u]
    BY <1>0, <1>6, GotoFacts DEF DrainStart, DrainOvertakes, AttemptPcs
  <2>2. LookedAfter(t)'
    BY <1>0, <1>6, <2>1 DEF DrainStart, DrainOvertakes, LookedAfter, Queued
  <2> QED BY <1>0, <1>1, <1>6, <2>1, <2>2 DEF DrainStart, DrainOvertakes, Queued
<1>7. ASSUME NEW t \in Tasks, NEW p \in Paths, DeliverRead(t, p) PROVE CareInv'
  <2>1. /\ attempt'[t][p].pc \in {"settle", "get"}
        /\ attempt'[t][p].pc = "settle" => edge[t] \in {"cancelled", "responded", "closed"}
        /\ \A q \in Paths \ {p} : attempt'[t][q] = attempt[t][q]
        /\ \A u \in Tasks \ {t} : attempt'[u] = attempt[u]
    BY <1>0, <1>7, ReadFacts
  <2>2. edge[t] = "cancelled" => Cared(t)'
    BY <1>7 DEF DeliverRead, Cared
  <2>3. attempt[t][p].pc = "read" /\ UNCHANGED <<run, edge, intent, acks, excused>>
    BY <1>7 DEF DeliverRead
  <2>4. LookedAfter(t)'
    BY <1>0, <2>1, <2>2, <2>3 DEF LookedAfter, Queued
  <2> QED BY <1>0, <1>1, <2>1, <2>3, <2>4 DEF Queued
<1>8. ASSUME NEW t \in Tasks, NEW p \in Paths, DeliverGet(t, p) PROVE CareInv'
  <2>1. /\ attempt'[t][p].pc = IF ShouldEnqueue(t, p) THEN "enqueue" ELSE "signal"
        /\ \A q \in Paths \ {p} : attempt'[t][q] = attempt[t][q]
        /\ \A u \in Tasks \ {t} : attempt'[u] = attempt[u]
    BY <1>0, <1>8, GotoFacts DEF DeliverGet, AttemptPcs
  <2>2. ~ShouldEnqueue(t, p) => Cared(t)
    BY <1>0, <1>8 DEF DeliverGet, ShouldEnqueue, Tracked, Delivering, Untouched, ReadHolds, LookedAfter, EdgeStates
  <2>3. attempt[t][p].pc = "get" /\ UNCHANGED <<run, edge, intent, acks, excused>>
    BY <1>8 DEF DeliverGet
  <2>4. LookedAfter(t)'
    BY <1>0, <2>1, <2>2, <2>3 DEF LookedAfter, Queued
  <2> QED BY <1>0, <1>1, <2>1, <2>3, <2>4 DEF Queued
<1>9. ASSUME NEW t \in Tasks, NEW p \in Paths, DeliverEnqueue(t, p) PROVE CareInv'
  <2>1. /\ attempt'[t][p].pc \in {"fail", "signal"}
        /\ attempt[t][p].pc = "enqueue"
        /\ \A q \in Paths \ {p} : attempt'[t][q] = attempt[t][q]
        /\ \A u \in Tasks \ {t} : attempt'[u] = attempt[u]
    BY <1>0, <1>9, GotoFacts DEF DeliverEnqueue, AttemptPcs
  <2>2. UNCHANGED <<edge, intent, acks>>
    BY <1>9 DEF DeliverEnqueue
  <2>3. /\ excused \subseteq excused' /\ run'.last = run.last
        /\ \A u \in Tasks \ {t} : u \in Queued' => u \in Queued
    BY <1>9, EnqueueFacts DEF Queued
  <2>4. attempt'[t][p].pc = "signal" => Cared(t)'
    <3>1. CASE run' = run /\ Goto(t, p, "fail")
      BY <1>0, <3>1, GotoFacts DEF AttemptPcs
    <3>2. CASE t \in Queued'
      BY <3>2 DEF Cared, Taken, Attended
    <3> QED BY <1>9, <3>1, <3>2, EnqueueFacts
  <2>5. t \in Queued' => Cared(t)'
    <3>1. CASE run' = run
      BY <3>1 DEF LookedAfter, Queued
    <3>2. CASE Goto(t, p, "signal")
      BY <1>0, <2>4, <3>2, GotoFacts DEF AttemptPcs
    <3> QED BY <1>9, <3>1, <3>2, EnqueueFacts
  <2>6. LookedAfter(t)'
    BY <1>0, <2>1, <2>2, <2>3, <2>4, <2>5 DEF LookedAfter
  <2> QED BY <1>1, <2>1, <2>2, <2>3, <2>6
<1>10. ASSUME NEW t \in Tasks, NEW p \in Paths, DeliverSignal(t, p) \/ DeliverMark(t, p) PROVE CareInv'
  <2>1. /\ attempt[t][p].pc \in {"signal", "mark"} /\ attempt'[t][p].pc \in {"mark", "settle"}
        /\ \A q \in Paths \ {p} : attempt'[t][q] = attempt[t][q]
        /\ \A u \in Tasks \ {t} : attempt'[u] = attempt[u]
    BY <1>0, <1>10, GotoFacts DEF DeliverSignal, DeliverMark, AttemptPcs
  <2>2. UNCHANGED <<run, intent, acks, excused>> /\ \A u \in Tasks \ {t} : edge'[u] = edge[u]
    BY <1>0, <1>10 DEF DeliverSignal, DeliverMark
  <2>3. Cared(t)'
    BY <2>1 DEF LookedAfter
  <2>4. intent[t] # "none"
    BY <2>1 DEF Delivering, Unpersisted
  <2>5. LookedAfter(t)'
    BY <2>2, <2>3, <2>4 DEF LookedAfter
  <2> QED BY <1>1, <2>1, <2>2, <2>5 DEF Queued
<1>11. ASSUME NEW t \in Tasks, NEW p \in Paths, DeliverMarkFails(t, p) \/ DeliverSettle(t, p) PROVE CareInv'
  <2>1. /\ attempt[t][p].pc \in {"mark", "settle"}
        /\ \A u \in Tasks \ {t} : attempt'[u] = attempt[u]
    BY <1>0, <1>11, GotoFacts DEF DeliverMarkFails, DeliverSettle, AttemptPcs
  <2>2. UNCHANGED <<run, edge, acks, excused>> /\ \A u \in Tasks \ {t} : intent'[u] = intent[u]
    BY <1>0, <1>11 DEF DeliverMarkFails, DeliverSettle
  <2>3. Cared(t)' /\ (intent'[t] = "none" => intent[t] = "none")
    BY <1>0, <1>11, <2>1 DEF LookedAfter, DeliverMarkFails, DeliverSettle
  <2>4. intent[t] # "none"
    BY <2>1 DEF Delivering, Unpersisted
  <2>5. LookedAfter(t)'
    BY <2>3, <2>4 DEF LookedAfter
  <2> QED BY <1>1, <2>1, <2>2, <2>5 DEF Queued
<1>12. ASSUME NEW t \in Tasks, FastFails(t) PROVE CareInv'
  <2>1. /\ attempt'[t]["fast"].pc = "threw" /\ attempt'[t]["drain"] = attempt[t]["drain"]
        /\ \A u \in Tasks \ {t} : attempt'[u] = attempt[u]
    BY <1>0, <1>12, GotoFacts DEF FastFails, AttemptPcs
  <2>2. LookedAfter(t)'
    BY <1>0, <1>12, <2>1 DEF FastFails, LookedAfter, Queued
  <2> QED BY <1>0, <1>1, <1>12, <2>1, <2>2 DEF FastFails, Queued
<1>13. ASSUME NEW t \in Tasks, DrainFails(t) PROVE CareInv'
  <2>1. /\ attempt'[t]["drain"].pc = IF intent[t] = "owed" /\ retries[t] + 1 > MaxRetries
                                     THEN "drop" ELSE "idle"
        /\ attempt'[t]["fast"] = attempt[t]["fast"]
        /\ \A u \in Tasks \ {t} : attempt'[u] = attempt[u]
    BY <1>0, <1>13, GotoFacts DEF DrainFails, AttemptPcs
  <2>2. /\ intent'[t] = IF intent[t] = "owed" /\ retries[t] + 1 > MaxRetries
                        THEN "dropped" ELSE intent[t]
        /\ \A u \in Tasks \ {t} : intent'[u] = intent[u]
        /\ attempt[t]["drain"].pc = "fail"
        /\ UNCHANGED <<run, edge, acks, excused>>
    BY <1>0, <1>13 DEF DrainFails
  <2>3. LookedAfter(t)'
    BY <1>0, <2>1, <2>2 DEF LookedAfter, Queued
  <2> QED BY <1>1, <2>1, <2>2, <2>3 DEF Queued
<1>14. ASSUME NEW t \in Tasks, AbandonRead(t) \/ AbandonCancel(t) PROVE CareInv'
  <2>1. /\ attempt'[t]["drain"].pc = IF AbandonRead(t) /\ edge[t] = "created" THEN "cancel" ELSE "idle"
        /\ attempt'[t]["fast"] = attempt[t]["fast"]
        /\ \A u \in Tasks \ {t} : attempt'[u] = attempt[u]
    BY <1>0, <1>14, GotoFacts DEF AbandonRead, AbandonCancel, AttemptPcs
  <2>2. LookedAfter(t)'
    BY <1>0, <1>14, <2>1 DEF AbandonRead, AbandonCancel, LookedAfter, Queued
  <2> QED BY <1>0, <1>1, <1>14, <2>1, <2>2 DEF AbandonRead, AbandonCancel, Queued
<1>21. ASSUME NEW t \in Tasks, AbandonFails(t) PROVE CareInv'
  <2>1. /\ attempt'[t]["drain"].pc = "idle" /\ attempt'[t]["fast"] = attempt[t]["fast"]
        /\ \A u \in Tasks \ {t} : attempt'[u] = attempt[u]
    BY <1>0, <1>21, GotoFacts DEF AbandonFails, AttemptPcs
  <2>2. /\ UNCHANGED <<run, edge, intent, acks>> /\ excused \subseteq excused'
        /\ edge[t] = "created" => Cared(t)'
    BY <1>21 DEF AbandonFails, Cared
  <2>3. LookedAfter(t)'
    BY <1>0, <1>21, <2>1, <2>2 DEF LookedAfter, Queued
  <2>4. ASSUME NEW u \in Tasks \ {t} PROVE LookedAfter(u)'
    BY <1>0, <1>21, <2>1, <2>2, <2>4 DEF LookedAfter, Queued
  <2> QED BY <2>3, <2>4 DEF CareInv
<1>15. ASSUME NEW t \in Tasks, EdgeAck(t) PROVE CareInv'
  <2>1. Cared(t)'
    BY <1>15 DEF EdgeAck, LookedAfter
  <2>2. LookedAfter(t)'
    BY <1>0, <1>15, <2>1 DEF EdgeAck, AckedState, LookedAfter
  <2> QED BY <1>0, <1>1, <1>15, <2>2 DEF EdgeAck, deliveryVars, Queued
<1>16. ASSUME NEW t \in Tasks, Answering(t) PROVE CareInv'
  <2>1. /\ Cared(t)' /\ \A u \in Tasks \ {t} : edge'[u] = edge[u]
        /\ edge'[t] = edge[t] \/ edge'[t] # "created"
    BY <1>16, AnsweringEffects DEF Cared, Taken
  <2>2. excused \subseteq excused'
    BY <1>16 DEF Answering, Respond, Close, PlanRetry, DispatchRefused, RetryDelivered, OutcomeFails,
       RetryThrows, Rematerialize, LoopResume, LoopExit
  <2>3. ASSUME NEW u \in Tasks PROVE LookedAfter(u)'
    BY <1>16, <2>1, <2>2, AnsweringEffects, CareKept DEF Queued
  <2> QED BY <2>3 DEF CareInv
<1>17. ASSUME NEW t \in Tasks, NEW u \in Tasks, DispatchRetry(t, u) PROVE CareInv'
  BY <1>2, <1>17 DEF DispatchRetry
<1>18. ASSUME LoopStep \/ LoopThrows \/ Cancel PROVE CareInv'
  <2>1. excused \subseteq excused'
    BY <1>18 DEF LoopStep, LoopThrows, Cancel, LoopStart, LoopSetRunning, LoopCheck, LoopDequeue,
       LoopSetIdle, LoopIncrement, LoopAck, ActivationEnds, LoopFail, LoopAnswer, LoopAwait, LoopExit, LoopResume
  <2>2. \A u \in Tasks : (run'.last = u => run.last = u \/ Cared(u)') /\ (u \in acks' => u \in acks \/ Cared(u)')
    <3>1. CASE LoopAck
      <4>1. loop'.held = loop.held /\ loop'.pc = "activate" /\ run'.last = loop.held /\ acks' = acks \cup {loop.held}
        BY <1>0, <3>1 DEF LoopAck
      <4> QED BY <4>1 DEF Cared, Taken, HoldingPcs
    <3>2. CASE ~LoopAck
      <4>1. run'.last = run.last /\ acks' = acks
        BY <1>0, <1>18, <3>2 DEF LoopStep, LoopThrows, Cancel, LoopStart, LoopSetRunning, LoopCheck, LoopDequeue,
           LoopSetIdle, LoopIncrement, ActivationEnds, LoopFail, LoopAnswer, LoopAwait
      <4> QED BY <4>1
    <3> QED BY <3>1, <3>2
  <2>3. ASSUME NEW u \in Tasks PROVE LookedAfter(u)'
    BY <1>18, <2>1, <2>2, LoopEffects, CareKept
  <2> QED BY <2>3 DEF CareInv
<1>19. ASSUME Crash PROVE CareInv'
  <2>1. /\ UNCHANGED <<run, edge, intent>> /\ acks' = {} /\ excused \subseteq excused'
        /\ Queued' = Queued
    BY <1>19 DEF Crash, Queued
  <2>2. \A u \in Tasks : /\ attempt[u]["fast"].pc = "persist" => u \in excused'
                         /\ attempt[u]["drain"].pc \in {"drop", "cancel"} => u \in excused'
                         /\ \A p \in Paths : attempt'[u][p].pc = "idle"
    BY <1>19 DEF Crash, LostByCrash, Idle
  <2>3. ASSUME NEW u \in Tasks PROVE LookedAfter(u)'
    <3>1. u \in excused' => Cared(u)'
      BY DEF Cared
    <3> QED BY <2>1, <2>2, <3>1 DEF LookedAfter
  <2> QED BY <2>3 DEF CareInv
<1>20. ASSUME Recover PROVE CareInv'
  <2>1. /\ UNCHANGED <<edge, intent, attempt, acks, excused>>
        /\ run'.last = run.last /\ run'.inbox = run.inbox
    BY <1>0, <1>20 DEF Recover, deliveryVars
  <2>2. ASSUME NEW u \in Tasks PROVE LookedAfter(u)'
    BY <2>1, CareKept DEF Queued
  <2> QED BY <2>2 DEF CareInv
<1> QED BY <1>3, <1>4, <1>5, <1>6, <1>7, <1>8, <1>9, <1>10, <1>11, <1>12, <1>13, <1>14, <1>15, <1>16, <1>17,
           <1>18, <1>19, <1>20, <1>21 DEF Next, Deliver, Materialize, Answering
-----------------------------------------------------------------------------
(* Theorems                                                                *)

LEMMA InitIInv == Init => IInv
<1> SUFFICES ASSUME Init PROVE IInv
  OBVIOUS
<1>1. BaseInv
  BY InitBase
<1>2. Queued = {}
  <2>1. run.inbox = <<>> /\ ToSet(<<>>) = {}
    BY DEF Init, NewRun, ToSet
  <2> QED BY <2>1 DEF Queued
<1>3. BudgetInv
  <2> SUFFICES ASSUME NEW t \in Tasks PROVE Paid(t)
    BY DEF BudgetInv
  <2>1. FastMay(t) /\ ~DrainMay(t) /\ ~Starting(t) /\ t \notin Queued
    <3>1. /\ edge[t] = "none" /\ intent[t] = "none" /\ loop.pc = "off"
          /\ attempt[t]["drain"].pc = "idle"
      BY DEF Init, LoopOff, Idle, Paths
    <3> QED BY <1>2, <3>1 DEF FastMay, DrainMay, Starting
  <2>2. Rights(t) = 1
    BY <2>1 DEF Rights, One
  <2> QED BY <2>2 DEF Init, Paid
<1>4. \A u \in Tasks : ~Seen(u)
  BY <1>2, RoleRunAssumption DEF Init, NewRun, LoopOff, Seen
<1>5. OnceInv
  BY <1>4 DEF Init, Idle, Paths, OnceInv, DeliveredOnce
<1>6. CareInv
  BY <1>2, RoleRunAssumption DEF Init, NewRun, Idle, Paths, CareInv, LookedAfter
<1> QED BY <1>1, <1>3, <1>5, <1>6 DEF IInv

\* The invariant is inductive.
LEMMA StepIInv == IInv /\ [Next]_vars => IInv'
<1> SUFFICES ASSUME IInv, [Next]_vars PROVE IInv'
  OBVIOUS
<1>1. BaseInv'
  BY StepBase DEF IInv
<1>2. CASE Next
  BY <1>1, <1>2, BudgetStepInv, OnceStepInv, CareStepInv DEF IInv
<1>3. CASE UNCHANGED vars
  <2> USE <1>3 DEF vars, deliveryVars, outcomeVars, historyVars
  <2>1. BudgetInv'
    <3>1. ASSUME NEW u \in Tasks
          PROVE  /\ FastMay(u)' = FastMay(u) /\ DrainMay(u)' = DrainMay(u)
                 /\ Starting(u)' = Starting(u) /\ Queued' = Queued
      BY DEF Starting, FastMay, DrainMay, Queued
    <3>2. ASSUME NEW u \in Tasks PROVE Rights(u)' = Rights(u)
      BY <3>1 DEF Rights, One
    <3> QED BY <3>2 DEF IInv, BudgetInv, Paid
  <2>2. OnceInv'
    BY DEF IInv, OnceInv, DeliveredOnce, Seen, Queued
  <2>3. CareInv'
    BY DEF IInv, CareInv, LookedAfter, Cared, Taken, Attended, Queued
  <2> QED BY <1>1, <2>1, <2>2, <2>3 DEF IInv
<1> QED BY <1>2, <1>3

\* The inductive invariant holds in every state the role run can reach.
LEMMA Invariance == Spec => []IInv
  BY InitIInv, StepIInv, PTL DEF Spec

\* Every variable of the model keeps its type: the inbox its limit, the retries,
\* the faults and the shard retries their bounds.
THEOREM TypeCorrect == Spec => []TypeOK
<1>1. IInv => TypeOK
  BY DEF IInv, BaseInv
<1> QED BY <1>1, Invariance, PTL

\* The loop that works owns the run: its status says so, and no activation is
\* started over the step budget.
THEOREM LoopOwnership == Spec => []LoopOwnsRun
<1>1. IInv => LoopOwnsRun
  BY DEF IInv, BaseInv, LoopInv
<1> QED BY <1>1, Invariance, PTL

\* A handoff is activated at most once more for every fault.
THEOREM BoundedActivations == Spec => []ActivationsBounded
<1>1. ASSUME IInv PROVE ActivationsBounded
  <2>1. ASSUME NEW t \in Tasks PROVE activations[t] <= 1 + faults
    <3>1. activations[t] \in Nat /\ faults \in Nat
      BY <1>1, RoleRunAssumption DEF IInv, BaseInv, TypeOK
    <3> QED BY <1>1, <3>1, RightsNat DEF IInv, BudgetInv, Paid
  <2> QED BY <2>1 DEF ActivationsBounded
<1> QED BY <1>1, Invariance, PTL

\* The run takes no handoff whose edge is cancelled, unless its delivery was
\* repeated.
THEOREM NoCancelledActivation == Spec => []CancelledNeverRuns
<1>1. IInv => CancelledNeverRuns
  BY DEF IInv, OnceInv, DeliveredOnce, Seen, CancelledNeverRuns
<1> QED BY <1>1, Invariance, PTL

\* Once nothing is left to do, every handoff that is not closed or cancelled is
\* one the program is known to have given up.
THEOREM NothingStranded == Spec => []NoUnexplainedStranding
<1>1. ASSUME IInv, AtRest PROVE \A t \in Tasks : edge[t] \in {"none", "closed", "cancelled"} \/ t \in excused
  <2> SUFFICES ASSUME NEW t \in Tasks, edge[t] \notin {"none", "closed", "cancelled"}, t \notin excused
               PROVE  FALSE
    OBVIOUS
  <2>1. Cared(t)
    <3>1. edge \in [Tasks -> EdgeStates] /\ intent[t] \in {"none", "owed", "settled", "dropped"}
      BY <1>1 DEF IInv, BaseInv, TypeOK
    <3>2. edge[t] \in {"created", "delivered", "acked", "responded"}
      BY <3>1 DEF EdgeStates
    <3>3. LookedAfter(t)
      BY <1>1 DEF IInv, CareInv
    <3> QED BY <1>1, <3>1, <3>2, <3>3 DEF AtRest, LookedAfter, Paths
  <2>2. stage[t] # "none"
    BY <1>1, <2>1 DEF AtRest, Cared, Taken, Attended, HoldingPcs, Paths
  <2>3. stage[t] = "done"
    BY <1>1, <2>2 DEF AtRest
  <2> QED BY <1>1, <2>3 DEF IInv, BaseInv, StageInv
<1>2. IInv => NoUnexplainedStranding
  BY <1>1 DEF NoUnexplainedStranding
<1> QED BY <1>2, Invariance, PTL

\* A closed edge stays closed, but for an outcome that is materialised anew and
\* for a delivery that was repeated.
THEOREM ClosedForGood == Spec => ClosedStaysClosed
<1>1. IInv /\ [Next]_vars => [\A t \in Tasks :
        edge[t] = "closed" /\ edge'[t] # "closed" => stage[t] = "respond" \/ t \in replayed]_vars
  BY ClosedStep DEF IInv
<1> QED BY <1>1, Invariance, PTL DEF Spec, ClosedStaysClosed

=============================================================================
