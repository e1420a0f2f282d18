------------------------------ MODULE Workflow ------------------------------
(***************************************************************************)
(* One explicit workflow and the inbox its detached step waits for.        *)
(* ExplicitWorkflowRuntime changes the record of a workflow by optimistic  *)
(* transitions: read the record, compute the next one, put it if nobody    *)
(* put another in between, and try again if somebody did.  A trigger wakes *)
(* waiting steps, the host asks for an effect and reports its receipt, and *)
(* a detached step then waits for the join of module WorkerInbox, which is *)
(* put before the record that waits for it.                                *)
(*                                                                         *)
(* The runtime is called by its host from several places at once; a call   *)
(* takes its time from the clock when it begins.  One effect is asked for  *)
(* in each attempt, so an effect is named by its step and attempt.         *)
(***************************************************************************)
EXTENDS WorkerInbox, Sequences

CONSTANTS
  Steps,         \* the steps of the definition
  Trigger,       \* the trigger of each step: "user", "inbox", or the step whose
                 \* receipt it waits for
  NextSteps,     \* nextStepIds of each step
  Detached,      \* steps with a detached join
  NoEffects,     \* steps without allowed effects
  Retriable,     \* steps that own the retry allowance
  MaxRetries,    \* its initial retries
  ActiveTime,    \* activeMs of an attempt
  Tries,         \* how often a transition is tried
  Callers        \* calls at the same time

\* One effect at most waits for the join of module WorkerInbox.
ASSUME WorkflowAssumption ==
  /\ Steps # {}
  /\ \A s, t \in Detached : s = t
  /\ NextSteps \in [Steps -> SUBSET Steps]
  /\ Trigger \in [Steps -> {"user", "inbox"} \cup Steps]
  /\ Detached \subseteq Steps /\ NoEffects \subseteq Steps /\ Retriable \subseteq Steps
  /\ MaxRetries \in Nat /\ ActiveTime \in Nat /\ Tries \in Nat \ {0}

VARIABLES
  record,   \* the record of the workflow in its store
  calls,    \* the calls of the runtime in progress
  handed,   \* history: effects whose proposal was returned to the host
  told      \* history: receipts that were acknowledged to the host

workflowVars == <<record, calls, handed, told>>
vars == <<inboxVars, workflowVars>>

-----------------------------------------------------------------------------
Statuses  == {"suspended", "running", "completed", "failed"}
StepStates == {"waiting", "ready", "effect_admitted", "waiting_join", "completed", "failed"}
Receipts  == {"committed", "failed", "indeterminate"}
Events    == {"user", "inbox"}

Attempts == [deadline : Nat, proposed : BOOLEAN, receipt : Receipts \cup {"none"}]
Effects  == Steps \X (1..MaxRetries + 1)

NoCall == [kind |-> "none", step |-> CHOOSE s \in Steps : TRUE, attempt |-> 1,
           arg |-> "none", at |-> 0, expiresAt |-> Never, stage |-> "idle",
           tries |-> 0, seen |-> <<>>]
\* the record as it was read is in "seen" while the call is about to put

Last(w, s) == w.attempts[s][Len(w.attempts[s])]
Terminal(w) == w.status \in {"completed", "failed"}

\* findEffectAttempt
Proposed(w, s, k) == k <= Len(w.attempts[s]) /\ w.attempts[s][k].proposed

\* refreshWorkflowStatus
Refreshed(w) ==
  [w EXCEPT !.status =
    IF \E s \in Steps : w.state[s] = "failed" THEN "failed"
    ELSE IF \A s \in Steps : w.state[s] = "completed" THEN "completed"
    ELSE IF \E s \in Steps : w.state[s] \in {"ready", "effect_admitted"} THEN "running"
    ELSE "suspended"]

\* createAttemptGrant
Grant(at) == [deadline |-> at + ActiveTime, proposed |-> FALSE, receipt |-> "none"]

-----------------------------------------------------------------------------
(* Transitions: the record a call computes from the one it read            *)

\* activateMatchingSteps: a step without effects completes at once, and may
\* let the same event wake its successors.
WokenBy(w, event, candidates) ==
  LET eligible == {s \in candidates : w.state[s] = "waiting" /\ Trigger[s] = event}
      Free(s, completed) == \A p \in Steps :
        s \in NextSteps[p] => w.state[p] = "completed" \/ p \in completed
      AtOnce[n \in 0..Cardinality(Steps)] ==
        IF n = 0 THEN {} ELSE {s \in eligible \cap NoEffects : Free(s, AtOnce[n - 1])}
  IN  {s \in eligible : Free(s, AtOnce[Cardinality(Steps)])}

Activated(w, event, candidates, at) ==
  LET woken == WokenBy(w, event, candidates)
  IN  [w EXCEPT
        !.state = [s \in Steps |-> IF s \notin woken THEN @[s]
                                   ELSE IF s \in NoEffects THEN "completed" ELSE "ready"],
        !.attempts = [s \in Steps |-> IF s \in woken \ NoEffects
                                      THEN Append(@[s], Grant(at)) ELSE @[s]],
        !.processed = IF woken = {} THEN @ ELSE @ \cup {event}]

\* signal
Signalled(w, event, at) ==
  IF Terminal(w) \/ event \in w.processed \/ WokenBy(w, event, Steps) = {} THEN w
  ELSE Refreshed(Activated(w, event, Steps, at))

\* admitEffect of a step that has no proposal yet; nobody asks for the
\* deadline of the attempt after it.
Admitted(w, s, at) ==
  IF at > Last(w, s).deadline
  THEN Refreshed([w EXCEPT !.state[s] = "failed"])
  ELSE Refreshed([w EXCEPT !.state[s] = "effect_admitted",
                           !.attempts[s][Len(w.attempts[s])] =
                              [@ EXCEPT !.proposed = TRUE, !.deadline = 0]])

\* Mutant of MayRetry: the allowance is not counted.
MayRetryAlways(w, s) == s \in Retriable

\* consumeRetryAllowance; the host names the allowance whenever the step owns it.
MayRetry(w, s) == s \in Retriable /\ w.retries > 0

\* recordEffectReceipt of an effect that has no receipt yet
Received(w, s, k, receipt, at) ==
  LET noted == [w EXCEPT !.attempts[s][k].receipt = receipt] IN
  Refreshed(
    IF receipt = "committed"
    THEN IF s \in Detached THEN [noted EXCEPT !.state[s] = "waiting_join"]
         ELSE Activated([noted EXCEPT !.state[s] = "completed"], s, NextSteps[s], at)
    ELSE IF receipt = "failed" /\ MayRetry(w, s)
    THEN [noted EXCEPT !.state[s] = "ready",
                       !.retries = @ - 1,
                       !.attempts[s] = Append(@, Grant(at))]
    ELSE [noted EXCEPT !.state[s] = "failed"])

\* reconcileJoin, once the join is decided
Reconciled(w, s, outcome) ==
  Refreshed([w EXCEPT !.state[s] = IF outcome = "satisfied" THEN "completed" ELSE "failed"])

\* What the call does with the record it read: "put" the next one, "return"
\* because nothing is left to do, or "throw".
Decision(c) ==
  LET w == c.seen  s == c.step  k == c.attempt IN
  CASE c.kind = "signal" -> IF Signalled(w, c.arg, c.at) = w THEN "return" ELSE "put"
    [] c.kind = "admit" ->
         IF Proposed(w, s, k)
         THEN IF w.attempts[s][k].receipt = "none" /\ Terminal(w) THEN "throw" ELSE "return"
         ELSE IF Terminal(w) \/ w.state[s] # "ready" THEN "throw" ELSE "put"
    [] c.kind = "receipt" ->
         IF ~Proposed(w, s, k) THEN "throw"
         ELSE IF w.attempts[s][k].receipt # "none"
              THEN IF w.attempts[s][k].receipt = c.arg THEN "return" ELSE "throw"
         ELSE IF w.state[s] # "effect_admitted" THEN "throw" ELSE "put"
    [] c.kind = "reconcile" -> IF w.state[s] = "waiting_join" THEN "put" ELSE "return"

\* The record that the call puts.
Draft(c) ==
  CASE c.kind = "signal"    -> Signalled(c.seen, c.arg, c.at)
    [] c.kind = "admit"     -> Admitted(c.seen, c.step, c.at)
    [] c.kind = "receipt"   -> Received(c.seen, c.step, c.attempt, c.arg, c.at)
    [] c.kind = "reconcile" -> Reconciled(c.seen, c.step, c.arg)

-----------------------------------------------------------------------------
(* Calls                                                                   *)

Call(c, stage) == calls[c].stage = stage
Ends(c) == calls' = [calls EXCEPT ![c] = NoCall]

\* The transition returns without a put: a prior proposal or receipt stands.
Returns(call) ==
  /\ handed' = IF call.kind = "admit"
                  /\ call.seen.attempts[call.step][call.attempt].receipt = "none"
               THEN handed \cup {<<call.step, call.attempt>>} ELSE handed
  /\ told' = IF call.kind = "receipt"
             THEN told \cup {<<call.step, call.attempt, call.arg>>} ELSE told

\* transition: the record is read and the next one computed.
Reads(c, reading) ==
  LET call == [reading EXCEPT !.seen = record] IN
  /\ CASE Decision(call) = "throw" -> Ends(c) /\ UNCHANGED <<handed, told>>
       [] Decision(call) = "return" -> Ends(c) /\ Returns(call)
       [] Decision(call) = "put" ->
            /\ calls' = [calls EXCEPT ![c] = [call EXCEPT
                 !.stage = IF call.kind = "receipt" /\ call.arg = "committed"
                              /\ call.step \in Detached THEN "putJoin" ELSE "put"]]
            /\ UNCHANGED <<handed, told>>
  /\ UNCHANGED <<now, doneAt, active, note, join, covered, pass, turn, posted, record>>

\* A call that begins while another is in progress counts as a fault, so that
\* MaxFaults bounds these too.
Admissible(c) ==
  /\ Call(c, "idle")
  /\ IF \A d \in Callers : Call(d, "idle") THEN UNCHANGED faults ELSE Fault

Begins(c, kind, s, k, arg, expiresAt) ==
  /\ Admissible(c)
  /\ Reads(c, [NoCall EXCEPT !.kind = kind, !.step = s, !.attempt = k, !.arg = arg,
                             !.at = now, !.expiresAt = expiresAt])

\* The host signals the wake-up of the inbox when it knows of the result.
CallSignal(c) == \E event \in Events :
  /\ event = "inbox" => note.state # "absent"
  /\ Begins(c, "signal", NoCall.step, 1, event, Never)

CallAdmit(c) == \E s \in Steps :
  /\ record.attempts[s] # <<>>
  /\ Begins(c, "admit", s, Len(record.attempts[s]), "none", Never)

\* The host reports what became of an effect, more than once if it restarts,
\* and not always the same.  If the effect started a worker it may say until when
\* its result counts.
CallReceipt(c) ==
  \E e \in handed, receipt \in Receipts, expiresAt \in Deadlines \cup {Never} :
    /\ expiresAt # Never => receipt = "committed" /\ e[1] \in Detached
    /\ Begins(c, "receipt", e[1], e[2], receipt, expiresAt)

\* reconcileJoin reads the join before it reads the record again.
CallReconcile(c) == \E s \in Steps :
  /\ Admissible(c)
  /\ record.state[s] = "waiting_join"
  /\ join.state \in {"satisfied", "abandoned"}
  /\ calls' = [calls EXCEPT ![c] = [NoCall EXCEPT !.kind = "reconcile", !.step = s,
                                                 !.arg = join.state, !.stage = "read"]]
  /\ UNCHANGED <<now, doneAt, active, note, join, covered, pass, turn, posted,
                 record, handed, told>>

Read(c) ==
  /\ Call(c, "read")
  /\ Reads(c, calls[c])
  /\ UNCHANGED faults

\* The join is put, unless it is there with another creation time or deadline.
PutsJoin(c) ==
  /\ Call(c, "putJoin")
  /\ IF JoinAccepts(calls[c].at, calls[c].expiresAt)
     THEN /\ PutJoin(calls[c].at, calls[c].expiresAt)
          /\ calls' = [calls EXCEPT ![c].stage = "put"]
     ELSE UNCHANGED join /\ Ends(c)
  /\ UNCHANGED <<now, doneAt, active, note, covered, pass, turn, posted, faults,
                 record, handed, told>>

\* Mutant of Current: the version is not compared.
CurrentAnyway(c) == TRUE

\* The record that was read is still the stored one.
Current(c) == calls[c].seen = record

\* put with expectedVersion; an expired attempt is recorded and then thrown.
Put(c) ==
  LET call == calls[c]
      expired == call.kind = "admit" /\ Draft(call).state[call.step] = "failed"
  IN
  /\ Call(c, "put")
  /\ IF Current(c)
     THEN /\ record' = Draft(call)
          /\ Ends(c)
          /\ handed' = IF call.kind = "admit" /\ ~expired
                       THEN handed \cup {<<call.step, call.attempt>>} ELSE handed
          /\ told' = IF call.kind = "receipt"
                     THEN told \cup {<<call.step, call.attempt, call.arg>>} ELSE told
     ELSE /\ IF call.tries + 1 < Tries
             THEN calls' = [calls EXCEPT ![c] = [call EXCEPT !.stage = "read", !.seen = <<>>,
                                                             !.tries = @ + 1]]
             ELSE Ends(c)
          /\ UNCHANGED <<record, handed, told>>
  /\ UNCHANGED inboxVars

-----------------------------------------------------------------------------
Init ==
  /\ InboxInit
  /\ record = [status |-> "suspended", retries |-> MaxRetries, processed |-> {},
               state |-> [s \in Steps |-> "waiting"],
               attempts |-> [s \in Steps |-> <<>>]]
  /\ calls = [c \in Callers |-> NoCall]
  /\ handed = {}
  /\ told = {}

Crash ==
  /\ InboxCrash
  /\ calls' = [c \in Callers |-> NoCall]
  /\ UNCHANGED <<record, handed, told>>

\* A detached effect that was handed out is a worker.
Worker ==
  /\ \E e \in handed : e[1] \in Detached
  /\ WorkerEnds
  /\ UNCHANGED workflowVars

Inbox == InboxNext /\ UNCHANGED workflowVars

Next ==
  \/ Inbox
  \/ Worker
  \/ Crash
  \/ \E c \in Callers :
       \/ CallSignal(c)
       \/ CallAdmit(c)
       \/ CallReceipt(c)
       \/ CallReconcile(c)
       \/ Read(c)
       \/ PutsJoin(c)
       \/ Put(c)

Spec == Init /\ [][Next]_vars

\* The bridge passes every two seconds; time goes on and role runs end.
Fairness ==
  /\ WF_vars(Pass /\ UNCHANGED workflowVars)
  /\ WF_vars(Tick /\ UNCHANGED workflowVars)
  /\ WF_vars(RolesRest /\ UNCHANGED workflowVars)

FairSpec == Spec /\ Fairness

-----------------------------------------------------------------------------
Records == [status : Statuses, retries : 0..MaxRetries, processed : SUBSET (Events \cup Steps),
            state : [Steps -> StepStates], attempts : [Steps -> Seq(Attempts)]]

TypeOK ==
  /\ InboxTypeOK
  /\ record \in Records
  /\ \A s \in Steps : Len(record.attempts[s]) <= MaxRetries + 1
  /\ handed \subseteq Effects
  /\ told \subseteq {<<e[1], e[2], r>> : e \in Effects, r \in Receipts}

-----------------------------------------------------------------------------
(* What the code promises for every interleaving                           *)

\* A proposal that was returned and a receipt that was acknowledged stay in
\* the record, whoever else changes it: the versions of the store.
PromisesKept ==
  /\ \A e \in handed : Proposed(record, e[1], e[2])
  /\ \A t \in told : record.attempts[t[1]][t[2]].receipt = t[3]

\* The record and the join, which are two files, agree: a step waits only for
\* a join that exists, and goes on only as the join was decided.  (A detached
\* step without effects starts no worker and completes at once.)
StepFollowsJoin == \A s \in Detached \ NoEffects :
  /\ record.state[s] = "waiting_join" => join.state # "none"
  /\ record.state[s] = "completed" => join.state = "satisfied"
  /\ record.state[s] = "failed" /\ Last(record, s).receipt = "committed" =>
       join.state = "abandoned"

=============================================================================
