-------------------------- MODULE Workflow_proofs --------------------------
(***************************************************************************)
(* Theorems of Workflow and of the inbox it is composed with, for any      *)
(* definition of steps, number of callers, follow-ups, retries and faults. *)
(***************************************************************************)
EXTENDS Workflow, TLAPS

\* What holds of the attempts of a step in every record that is put: each but
\* the last failed, and a step that was woken has one.
GoodStep(w, s) ==
  LET as == w.attempts[s] IN
  /\ as # <<>> => Len(as) + w.retries <= MaxRetries + 1
  /\ w.state[s] = "waiting" => as = <<>>
  /\ w.state[s] \in {"ready", "effect_admitted", "waiting_join", "failed"} => as # <<>>
  /\ \A k \in 1..Len(as) :
       /\ k < Len(as) => as[k].proposed /\ as[k].receipt # "none"
       /\ ~as[k].proposed => as[k].receipt = "none"

Good(w) == w \in Records /\ \A s \in Steps : GoodStep(w, s)

\* A later record keeps what an earlier one says of every attempt.
KeptIn(as, bs) ==
  /\ Len(as) <= Len(bs)
  /\ \A k \in 1..Len(as) :
       /\ as[k].proposed => bs[k].proposed
       /\ as[k].receipt # "none" => bs[k].receipt = as[k].receipt

Keeps(w, v) == \A s \in Steps : KeptIn(w.attempts[s], v.attempts[s])

\* StepFollowsJoin of record w and join j.
Follows(w, j) == \A s \in Detached \ NoEffects :
  /\ w.state[s] = "waiting_join" => j.state # "none"
  /\ w.state[s] = "completed" => j.state = "satisfied"
  /\ w.state[s] = "failed" /\ Last(w, s).receipt = "committed" => j.state = "abandoned"

\* What a call has seen, and what its decision rests on.
CallRecords ==
  [kind : {"none", "signal", "admit", "receipt", "reconcile"}, step : Steps,
   attempt : Nat \ {0}, arg : Events \cup Receipts \cup {"none", "satisfied", "abandoned"},
   at : Times, expiresAt : Deadlines \cup {Never}, stage : {"idle", "read", "putJoin", "put"}, tries : Nat,
   seen : Records \cup {<<>>}]

Drafts(call) ==
  /\ Good(call.seen)
  /\ call.kind = "admit" =>
       /\ call.attempt \in 1..Len(call.seen.attempts[call.step])
       /\ ~Proposed(call.seen, call.step, call.attempt)
       /\ call.seen.state[call.step] = "ready"
  /\ call.kind = "receipt" =>
       /\ Proposed(call.seen, call.step, call.attempt)
       /\ call.seen.attempts[call.step][call.attempt].receipt = "none"
       /\ call.seen.state[call.step] = "effect_admitted"
  /\ call.kind = "reconcile" => call.seen.state[call.step] = "waiting_join"

Asked(call) ==
  /\ call.kind # "none"
  /\ call.kind = "signal" => call.arg \in Events
  /\ call.kind = "receipt" => call.arg \in Receipts
  /\ call.kind = "reconcile" => call.arg \in {"satisfied", "abandoned"}

CallInv == \A c \in Callers :
  /\ calls[c] \in CallRecords
  /\ calls[c].stage # "idle" => Asked(calls[c])
  /\ calls[c].stage # "idle" /\ calls[c].kind = "admit" =>
       calls[c].attempt <= Len(record.attempts[calls[c].step])
  /\ calls[c].stage # "idle" /\ calls[c].kind = "reconcile" => join.state = calls[c].arg
  /\ calls[c].stage \in {"put", "putJoin"} => Drafts(calls[c])
  /\ /\ calls[c].stage = "put" /\ calls[c].kind = "receipt"
     /\ calls[c].arg = "committed" /\ calls[c].step \in Detached
     => join.state # "none"

\* A follow-up acknowledges only what it has posted.
CarrierInv ==
  /\ pass.carriers \subseteq posted
  /\ \A t \in Turns : turn[t].stage = "posted" /\ turn[t].carries => t \in posted
  /\ ConsumedByCarrier

\* Receipts that were acknowledged are receipts of attempts.
ToldInv == \A t \in told : t[2] <= Len(record.attempts[t[1]])

IInv ==
  /\ TypeOK
  /\ CarrierInv
  /\ Good(record)
  /\ calls \in [Callers -> CallRecords]
  /\ CallInv
  /\ ToldInv
  /\ PromisesKept
  /\ Follows(record, join)

-----------------------------------------------------------------------------
(* The transitions                                                         *)

\* Refreshing a record changes its status alone.
LEMMA RefreshedFacts ==
  ASSUME NEW w \in Records
  PROVE  /\ Refreshed(w) \in Records
         /\ Refreshed(w).state = w.state
         /\ Refreshed(w).attempts = w.attempts
         /\ Refreshed(w).retries = w.retries
<1> DEFINE t == IF \E s \in Steps : w.state[s] = "failed" THEN "failed"
                ELSE IF \A s \in Steps : w.state[s] = "completed" THEN "completed"
                ELSE IF \E s \in Steps : w.state[s] \in {"ready", "effect_admitted"} THEN "running"
                ELSE "suspended"
<1>1. t \in Statuses
  BY DEF Statuses
<1>2. Refreshed(w) = [w EXCEPT !.status = t]
  BY DEF Refreshed
<1> HIDE DEF t
<1> QED
  BY <1>1, <1>2 DEF Records

\* The properties of a record that do not depend on its status.
LEMMA RefreshedGood ==
  ASSUME NEW w, Good(w)
  PROVE  /\ Good(Refreshed(w))
         /\ \A v : Keeps(v, w) => Keeps(v, Refreshed(w))
         /\ \A j : Follows(w, j) => Follows(Refreshed(w), j)
  BY RefreshedFacts DEF Good, GoodStep, Keeps, Follows, Last

\* Only waiting steps are woken.
LEMMA WokenFacts ==
  ASSUME NEW w, NEW event, NEW candidates \in SUBSET Steps
  PROVE  /\ WokenBy(w, event, candidates) \subseteq Steps
         /\ \A s \in WokenBy(w, event, candidates) : w.state[s] = "waiting"
  BY DEF WokenBy

\* Waking steps gives those that have effects their first attempt.
LEMMA ActivatedGood ==
  ASSUME NEW w, Good(w), NEW event \in Events \cup Steps,
         NEW candidates \in SUBSET Steps, NEW at \in Nat
  PROVE  LET v == Activated(w, event, candidates, at) IN
         /\ Good(v)
         /\ Keeps(w, v)
         /\ \A j : Follows(w, j) => Follows(v, j)
<1> DEFINE woken == WokenBy(w, event, candidates)
           v == Activated(w, event, candidates, at)
<1>1. woken \subseteq Steps /\ \A s \in woken : w.state[s] = "waiting" /\ w.attempts[s] = <<>>
  BY WokenFacts DEF Good, GoodStep
<1>2. w \in Records
  BY DEF Good
<1>3. Grant(at) \in Attempts /\ ~Grant(at).proposed /\ Grant(at).receipt = "none"
  BY WorkflowAssumption DEF Grant, Attempts, Receipts
<1>4. v = [w EXCEPT
             !.state = [s \in Steps |-> IF s \notin woken THEN w.state[s]
                                        ELSE IF s \in NoEffects THEN "completed" ELSE "ready"],
             !.attempts = [s \in Steps |-> IF s \in woken \ NoEffects
                                           THEN Append(w.attempts[s], Grant(at)) ELSE w.attempts[s]],
             !.processed = IF woken = {} THEN w.processed ELSE w.processed \cup {event}]
  BY <1>2 DEF Activated, Records
<1> HIDE DEF woken, v
<1>5. /\ v.state = [s \in Steps |-> IF s \notin woken THEN w.state[s]
                                    ELSE IF s \in NoEffects THEN "completed" ELSE "ready"]
      /\ v.attempts = [s \in Steps |-> IF s \in woken \ NoEffects
                                       THEN Append(w.attempts[s], Grant(at)) ELSE w.attempts[s]]
      /\ v.retries = w.retries
  BY <1>2, <1>4 DEF Records
<1>6. \A s \in Steps : w.attempts[s] \in Seq(Attempts)
  BY <1>2 DEF Records
<1>7. v \in Records
  <2>1. v.state \in [Steps -> StepStates]
    BY <1>2, <1>5 DEF Records, StepStates
  <2>2. v.attempts \in [Steps -> Seq(Attempts)]
    BY <1>3, <1>5, <1>6
  <2>3. (IF woken = {} THEN w.processed ELSE w.processed \cup {event}) \in SUBSET (Events \cup Steps)
    BY <1>2 DEF Records
  <2> QED
    BY <1>2, <1>4, <1>5, <2>1, <2>2, <2>3 DEF Records
<1>8. \A s \in Steps : GoodStep(v, s)
  <2> SUFFICES ASSUME NEW s \in Steps PROVE GoodStep(v, s)
    OBVIOUS
  <2>1. GoodStep(w, s)
    BY DEF Good
  <2>2. CASE s \notin woken
    BY <1>5, <2>1, <2>2 DEF GoodStep
  <2>3. CASE s \in woken /\ s \in NoEffects
    BY <1>1, <1>5, <2>1, <2>3 DEF GoodStep
  <2>4. CASE s \in woken /\ s \notin NoEffects
    <3> DEFINE first == <<Grant(at)>>
    <3>1. v.attempts[s] = first /\ v.state[s] = "ready"
      <4>1. Append(<<>>, Grant(at)) = first
        OBVIOUS
      <4>2. v.attempts[s] = Append(w.attempts[s], Grant(at)) /\ v.state[s] = "ready"
        BY <1>5, <2>4
      <4> QED
        BY <1>1, <2>4, <4>1, <4>2
    <3>3. Len(first) = 1 /\ first[1] = Grant(at) /\ first # <<>>
      OBVIOUS
    <3>2. w.retries <= MaxRetries /\ w.retries \in Nat
      BY <1>2, WorkflowAssumption DEF Records
    <3> QED
      <4> HIDE DEF first
      <4>1. 1..1 = {1} /\ 1 + w.retries <= MaxRetries + 1
        BY <3>2, WorkflowAssumption
      <4>2. Len(first) + v.retries <= MaxRetries + 1
        BY <1>5, <3>3, <4>1
      <4>3. \A k \in 1..Len(first) :
              /\ k < Len(first) => first[k].proposed /\ first[k].receipt # "none"
              /\ ~first[k].proposed => first[k].receipt = "none"
        BY <1>3, <3>3, <4>1
      <4> QED
        BY <3>1, <3>3, <4>2, <4>3 DEF GoodStep
  <2> QED
    BY <2>2, <2>3, <2>4
<1>9. Keeps(w, v)
  <2> SUFFICES ASSUME NEW s \in Steps PROVE KeptIn(w.attempts[s], v.attempts[s])
    BY DEF Keeps
  <2>1. CASE s \in woken
    BY <1>1, <1>3, <1>5, <2>1 DEF KeptIn
  <2>2. CASE s \notin woken
    BY <1>5, <1>6, <2>2 DEF KeptIn
  <2> QED
    BY <2>1, <2>2
<1>10. ASSUME NEW j, Follows(w, j) PROVE Follows(v, j)
  <2> SUFFICES ASSUME NEW s \in Detached \ NoEffects
               PROVE  /\ v.state[s] = "waiting_join" => j.state # "none"
                      /\ v.state[s] = "completed" => j.state = "satisfied"
                      /\ v.state[s] = "failed" /\ Last(v, s).receipt = "committed"
                           => j.state = "abandoned"
    BY DEF Follows
  <2>1. s \in Steps
    BY WorkflowAssumption
  <2>2. CASE s \in woken
    BY <1>5, <2>1, <2>2
  <2>3. CASE s \notin woken
    BY <1>5, <1>10, <2>1, <2>3 DEF Follows, Last
  <2> QED
    BY <2>2, <2>3
<1> QED
  BY <1>7, <1>8, <1>9, <1>10 DEF Good, v

\* A step that moves on, without another change of the record.
LEMMA MovedGood ==
  ASSUME NEW w, Good(w), NEW s \in Steps, NEW state \in StepStates \ {"waiting"},
         w.attempts[s] # <<>>
  PROVE  LET v == [w EXCEPT !.state[s] = state] IN Good(v) /\ Keeps(w, v)
<1> DEFINE v == [w EXCEPT !.state[s] = state]
<1>1. w \in Records
  BY DEF Good
<1>2. v \in Records /\ v.attempts = w.attempts /\ v.retries = w.retries
  BY <1>1 DEF Records
<1>3. v.state = [w.state EXCEPT ![s] = state] /\ w.state \in [Steps -> StepStates]
  BY <1>1 DEF Records
<1> HIDE DEF v
<1>4. ASSUME NEW r \in Steps PROVE GoodStep(v, r)
  <2>1. GoodStep(w, r)
    BY DEF Good
  <2> QED
    BY <1>2, <1>3, <2>1 DEF GoodStep
<1>5. Keeps(w, v)
  BY <1>1, <1>2 DEF Keeps, KeptIn, Records
<1> QED
  BY <1>2, <1>4, <1>5 DEF Good, v

\* One attempt that is written to: what was said of it before, and what all
\* others say, stays.
LEMMA NotedGood ==
  ASSUME NEW w, Good(w), NEW s \in Steps, NEW k \in 1..Len(w.attempts[s]),
         NEW a \in Attempts, w.attempts[s][k].receipt = "none",
         a.proposed,
         w.state[s] \in {"ready", "effect_admitted"}
  PROVE  LET v == [w EXCEPT !.attempts[s][k] = a] IN
         /\ Good(v)
         /\ Keeps(w, v)
         /\ k = Len(w.attempts[s])
<1> DEFINE as == w.attempts[s]
           bs == [as EXCEPT ![k] = a]
           v == [w EXCEPT !.attempts[s][k] = a]
<1>1. w \in Records
  BY DEF Good
<1>2. as \in Seq(Attempts)
  BY <1>1 DEF Records
<1>3. bs \in Seq(Attempts) /\ Len(bs) = Len(as) /\ bs[k] = a
      /\ \A i \in 1..Len(as) : i # k => bs[i] = as[i]
  BY <1>2
<1>4. /\ v.attempts = [w.attempts EXCEPT ![s] = bs]
      /\ v.state = w.state /\ v.retries = w.retries
      /\ v \in Records
  BY <1>1, <1>3 DEF Records
<1>5. GoodStep(w, s)
  BY DEF Good
<1>6. k = Len(as)
  BY <1>2, <1>5 DEF GoodStep
<1> HIDE DEF bs, v
<1>7. ASSUME NEW r \in Steps PROVE GoodStep(v, r)
  <2>1. CASE r = s
    <3>1. v.attempts[s] = bs
      BY <1>1, <1>4 DEF Records
    <3>2. as # <<>> /\ bs # <<>>
      BY <1>2, <1>3
    <3>3. Len(bs) + v.retries <= MaxRetries + 1
      BY <1>3, <1>4, <1>5, <3>2 DEF GoodStep
    <3>4. \A i \in 1..Len(bs) :
            /\ i < Len(bs) => bs[i].proposed /\ bs[i].receipt # "none"
            /\ ~bs[i].proposed => bs[i].receipt = "none"
      BY <1>2, <1>3, <1>5, <1>6 DEF GoodStep
    <3>5. v.state[s] # "waiting"
      BY <1>4
    <3> QED
      BY <2>1, <3>1, <3>2, <3>3, <3>4, <3>5 DEF GoodStep
  <2>2. CASE r # s
    <3>1. v.attempts[r] = w.attempts[r]
      BY <1>1, <1>4, <2>2 DEF Records
    <3>2. GoodStep(w, r)
      BY DEF Good
    <3> QED
      BY <1>4, <3>1, <3>2 DEF GoodStep
  <2> QED
    BY <2>1, <2>2
<1>8. ASSUME NEW r \in Steps PROVE KeptIn(w.attempts[r], v.attempts[r])
  <2>1. CASE r = s
    <3>1. v.attempts[s] = bs
      BY <1>1, <1>4 DEF Records
    <3>2. KeptIn(as, bs)
      BY <1>2, <1>3 DEF KeptIn
    <3> QED
      BY <2>1, <3>1, <3>2
  <2>2. CASE r # s
    <3>1. v.attempts[r] = w.attempts[r] /\ w.attempts[r] \in Seq(Attempts)
      BY <1>1, <1>4, <2>2 DEF Records
    <3> QED
      BY <3>1 DEF KeptIn
  <2> QED
    BY <2>1, <2>2
<1> QED
  BY <1>4, <1>6, <1>7, <1>8 DEF Good, Keeps, v

\* What is kept from one record to the next is kept over both.
LEMMA KeepsTransitive ==
  ASSUME NEW u, NEW v, NEW w, Good(u), Good(v), Good(w), Keeps(u, v), Keeps(v, w)
  PROVE  Keeps(u, w)
<1> SUFFICES ASSUME NEW s \in Steps PROVE KeptIn(u.attempts[s], w.attempts[s])
  BY DEF Keeps
<1>1. /\ u.attempts[s] \in Seq(Attempts)
      /\ v.attempts[s] \in Seq(Attempts)
      /\ w.attempts[s] \in Seq(Attempts)
  BY DEF Good, Records
<1>2. KeptIn(u.attempts[s], v.attempts[s]) /\ KeptIn(v.attempts[s], w.attempts[s])
  BY DEF Keeps
<1> DEFINE as == u.attempts[s]
           bs == v.attempts[s]
           cs == w.attempts[s]
<1>3. Len(as) \in Nat /\ Len(bs) \in Nat /\ Len(cs) \in Nat
  BY <1>1
<1>4. Len(as) <= Len(bs) /\ Len(bs) <= Len(cs)
  BY <1>2 DEF KeptIn
<1>5. ASSUME NEW k \in 1..Len(as)
      PROVE  /\ as[k].proposed => cs[k].proposed
             /\ as[k].receipt # "none" => cs[k].receipt = as[k].receipt
  <2>1. k \in 1..Len(bs)
    BY <1>3, <1>4
  <2> QED
    BY <1>2, <2>1 DEF KeptIn
<1> QED
  BY <1>3, <1>4, <1>5 DEF KeptIn

\* A failed attempt is followed by another while the allowance lasts.
LEMMA RetriedGood ==
  ASSUME NEW w, Good(w), NEW s \in Steps, NEW at \in Nat, w.retries > 0,
         w.attempts[s] # <<>>, Last(w, s).proposed, Last(w, s).receipt # "none"
  PROVE  LET v == [w EXCEPT !.state[s] = "ready", !.retries = @ - 1,
                            !.attempts[s] = Append(@, Grant(at))] IN
         /\ Good(v)
         /\ Keeps(w, v)
<1> DEFINE as == w.attempts[s]
           bs == Append(as, Grant(at))
           v == [w EXCEPT !.state[s] = "ready", !.retries = @ - 1,
                          !.attempts[s] = Append(@, Grant(at))]
<1>1. w \in Records
  BY DEF Good
<1>2. as \in Seq(Attempts)
  BY <1>1 DEF Records
<1>3. Grant(at) \in Attempts /\ ~Grant(at).proposed /\ Grant(at).receipt = "none"
  BY WorkflowAssumption DEF Grant, Attempts, Receipts
<1>4. /\ bs \in Seq(Attempts) /\ Len(bs) = Len(as) + 1 /\ bs[Len(bs)] = Grant(at)
      /\ \A i \in 1..Len(as) : bs[i] = as[i]
  BY <1>2, <1>3
<1> HIDE DEF bs
<1>5. /\ v.attempts = [w.attempts EXCEPT ![s] = bs]
      /\ v.state = [w.state EXCEPT ![s] = "ready"]
      /\ v.retries = w.retries - 1
      /\ v \in Records
  <2>1. w.retries - 1 \in 0..MaxRetries
    BY <1>1, WorkflowAssumption DEF Records
  <2>2. v = [w EXCEPT !.state = [w.state EXCEPT ![s] = "ready"], !.retries = w.retries - 1,
                      !.attempts = [w.attempts EXCEPT ![s] = bs]]
    BY <1>1 DEF Records, bs
  <2>3. "ready" \in StepStates
    BY DEF StepStates
  <2> QED
    BY <1>1, <1>4, <2>1, <2>2, <2>3 DEF Records
<1> HIDE DEF v
<1>6. w.retries \in Nat /\ Len(as) \in Nat /\ as # <<>>
  BY <1>1, <1>2, WorkflowAssumption DEF Records
<1>7. ASSUME NEW r \in Steps PROVE GoodStep(v, r)
  <2>1. GoodStep(w, r)
    BY DEF Good
  <2>2. CASE r = s
    <3>1. v.attempts[s] = bs /\ v.state[s] = "ready"
      BY <1>1, <1>5 DEF Records
    <3>2. Len(bs) + v.retries <= MaxRetries + 1 /\ bs # <<>>
      <4>1. Len(as) + w.retries <= MaxRetries + 1
        BY <1>6, <2>1, <2>2 DEF GoodStep
      <4> QED
        BY <1>4, <1>5, <1>6, <4>1, WorkflowAssumption
    <3>3. ASSUME NEW i \in 1..Len(bs)
          PROVE  /\ i < Len(bs) => bs[i].proposed /\ bs[i].receipt # "none"
                 /\ ~bs[i].proposed => bs[i].receipt = "none"
      <4>1. CASE i = Len(bs)
        BY <1>3, <1>4, <1>6, <4>1
      <4>2. CASE i = Len(as)
        BY <1>4, <1>6, <4>2 DEF Last
      <4>3. CASE i < Len(as)
        <5>1. i \in 1..Len(as) /\ bs[i] = as[i]
          BY <1>4, <1>6, <4>3
        <5> QED
          BY <2>1, <2>2, <4>3, <5>1 DEF GoodStep
      <4> QED
        BY <1>4, <1>6, <4>1, <4>2, <4>3
    <3> QED
      BY <2>2, <3>1, <3>2, <3>3 DEF GoodStep
  <2>3. CASE r # s
    <3>1. v.attempts[r] = w.attempts[r] /\ v.state[r] = w.state[r]
          /\ w.attempts[r] \in Seq(Attempts)
      BY <1>1, <1>5, <2>3 DEF Records
    <3>2. w.attempts[r] # <<>> => Len(w.attempts[r]) + v.retries <= MaxRetries + 1
      BY <1>5, <1>6, <2>1, <3>1, WorkflowAssumption DEF GoodStep
    <3> QED
      BY <2>1, <3>1, <3>2 DEF GoodStep
  <2> QED
    BY <2>2, <2>3
<1>8. ASSUME NEW r \in Steps PROVE KeptIn(w.attempts[r], v.attempts[r])
  <2>1. CASE r = s
    <3>1. v.attempts[s] = bs
      BY <1>1, <1>5 DEF Records
    <3> QED
      BY <1>4, <1>6, <2>1, <3>1 DEF KeptIn
  <2>2. CASE r # s
    <3>1. v.attempts[r] = w.attempts[r] /\ w.attempts[r] \in Seq(Attempts)
      BY <1>1, <1>5, <2>2 DEF Records
    <3> QED
      BY <3>1 DEF KeptIn
  <2> QED
    BY <2>1, <2>2
<1> QED
  BY <1>5, <1>7, <1>8 DEF Good, Keeps, v

\* A record follows the join if it did and the step that changed does.
LEMMA FollowsOne ==
  ASSUME NEW w, NEW v, NEW j, Follows(w, j), NEW s \in Steps,
         \A r \in Steps \ {s} : v.state[r] = w.state[r] /\ v.attempts[r] = w.attempts[r],
         s \in Detached \ NoEffects =>
           /\ v.state[s] = "waiting_join" => j.state # "none"
           /\ v.state[s] = "completed" => j.state = "satisfied"
           /\ v.state[s] = "failed" /\ Last(v, s).receipt = "committed" => j.state = "abandoned"
  PROVE  Follows(v, j)
  BY WorkflowAssumption DEF Follows, Last

-----------------------------------------------------------------------------
(* What a call puts                                                        *)

\* An event wakes steps of a good record, and no other step moves.
LEMMA SignalledGood ==
  ASSUME NEW w, Good(w), NEW event \in Events, NEW at \in Nat
  PROVE  LET v == Signalled(w, event, at) IN
         /\ Good(v)
         /\ Keeps(w, v)
         /\ \A j : Follows(w, j) => Follows(v, j)
<1>1. CASE Signalled(w, event, at) = w
  <2>1. Keeps(w, w)
    BY DEF Keeps, KeptIn, Good, Records
  <2> QED
    BY <1>1, <2>1
<1>2. CASE Signalled(w, event, at) = Refreshed(Activated(w, event, Steps, at))
  BY <1>2, ActivatedGood, RefreshedGood
<1> QED
  BY <1>1, <1>2 DEF Signalled

\* A proposal is recorded in the last attempt; a late one fails its step.
LEMMA AdmittedGood ==
  ASSUME NEW w, Good(w), NEW s \in Steps, NEW at \in Nat, w.state[s] = "ready",
         NEW k \in 1..Len(w.attempts[s]), ~w.attempts[s][k].proposed
  PROVE  LET v == Admitted(w, s, at) IN
         /\ Good(v)
         /\ Keeps(w, v)
         /\ \A j : Follows(w, j) => Follows(v, j)
         /\ v.state[s] # "failed" => Proposed(v, s, k)
<1> DEFINE v == Admitted(w, s, at)
<1>1. w \in Records /\ GoodStep(w, s) /\ w.attempts[s] \in Seq(Attempts)
  BY DEF Good, Records
<1>2. /\ k = Len(w.attempts[s]) /\ w.attempts[s] # <<>>
      /\ w.attempts[s][k] = Last(w, s) /\ Last(w, s).receipt = "none"
      /\ Last(w, s) \in Attempts
  BY <1>1 DEF GoodStep, Last
<1>3. CASE at > Last(w, s).deadline
  <2> DEFINE u == [w EXCEPT !.state[s] = "failed"]
  <2>1. v = Refreshed(u)
    BY <1>3 DEF Admitted
  <2>2. Good(u) /\ Keeps(w, u)
    BY <1>2, MovedGood DEF StepStates
  <2>3. /\ u.state[s] = "failed" /\ u.attempts = w.attempts
        /\ \A r \in Steps \ {s} : u.state[r] = w.state[r]
    BY <1>1 DEF Records
  <2> HIDE DEF u
  <2>4. ASSUME NEW j, Follows(w, j) PROVE Follows(u, j)
    <3>1. Last(u, s).receipt # "committed" /\ u.state[s] \notin {"waiting_join", "completed"}
      BY <1>2, <2>3 DEF Last
    <3> QED
      BY <2>3, <2>4, <3>1, FollowsOne
  <2>5. v.state = u.state
    BY <2>1, <2>2, RefreshedFacts DEF Good
  <2> QED
    BY <2>1, <2>2, <2>3, <2>4, <2>5, RefreshedGood
<1>4. CASE ~(at > Last(w, s).deadline)
  <2> DEFINE a == [Last(w, s) EXCEPT !.proposed = TRUE, !.deadline = 0]
             n == [w EXCEPT !.attempts[s][k] = a]
             u == [n EXCEPT !.state[s] = "effect_admitted"]
  <2>1. v = Refreshed(u)
    <3>1. [w EXCEPT !.state[s] = "effect_admitted",
                    !.attempts[s][Len(w.attempts[s])] =
                       [@ EXCEPT !.proposed = TRUE, !.deadline = 0]] = u
      BY <1>1, <1>2 DEF Records
    <3> QED
      BY <1>4, <3>1 DEF Admitted
  <2>2. a \in Attempts /\ a.proposed /\ a.receipt = "none"
    BY <1>2 DEF Attempts
  <2>3. /\ n.attempts[s][k] = a /\ n.state = w.state /\ n.attempts[s] # <<>>
        /\ \A r \in Steps \ {s} : n.attempts[r] = w.attempts[r]
    BY <1>1, <1>2 DEF Records
  <2>4. w.attempts[s][k].receipt = "none"
    BY <1>2
  <2> HIDE DEF a
  <2>5. Good(n) /\ Keeps(w, n)
    BY <2>2, <2>4, NotedGood
  <2> HIDE DEF n
  <2>6. Good(u) /\ Keeps(n, u)
    BY <2>3, <2>5, MovedGood DEF StepStates
  <2>7. /\ u.state[s] = "effect_admitted" /\ u.attempts = n.attempts
        /\ \A r \in Steps \ {s} : u.state[r] = w.state[r]
    <3>1. n \in Records
      BY <2>5 DEF Good
    <3> QED
      BY <2>3, <3>1 DEF Records
  <2> HIDE DEF u
  <2>8. ASSUME NEW j, Follows(w, j) PROVE Follows(u, j)
    BY <2>3, <2>7, <2>8, FollowsOne
  <2>9. v.state = u.state /\ v.attempts = u.attempts
    BY <2>1, <2>6, RefreshedFacts DEF Good
  <2>10. Good(v) /\ Keeps(w, v)
    <3>1. Keeps(w, u)
      BY <2>5, <2>6, KeepsTransitive
    <3> QED
      BY <2>1, <2>6, <3>1, RefreshedGood
  <2>11. Proposed(v, s, k)
    <3>1. k <= Len(n.attempts[s])
      <4>1. KeptIn(w.attempts[s], n.attempts[s]) /\ n.attempts[s] \in Seq(Attempts)
        BY <2>5 DEF Keeps, Good, Records
      <4> QED
        BY <1>1, <4>1 DEF KeptIn
    <3> QED
      BY <2>2, <2>3, <2>7, <2>9, <3>1 DEF Proposed
  <2> QED
    BY <2>1, <2>6, <2>8, <2>10, <2>11, RefreshedGood
<1> QED
  BY <1>3, <1>4

\* A receipt is recorded in the attempt of its proposal, which is the last one.
LEMMA ReceivedGood ==
  ASSUME NEW w, Good(w), NEW s \in Steps, NEW at \in Nat,
         w.state[s] = "effect_admitted", NEW k \in Nat \ {0}, Proposed(w, s, k),
         w.attempts[s][k].receipt = "none", NEW receipt \in Receipts
  PROVE  LET v == Received(w, s, k, receipt, at) IN
         /\ Good(v)
         /\ Keeps(w, v)
         /\ \A j : /\ Follows(w, j)
                   /\ receipt = "committed" /\ s \in Detached => j.state # "none"
                   => Follows(v, j)
         /\ v.attempts[s][k].receipt = receipt
<1> DEFINE a == [w.attempts[s][k] EXCEPT !.receipt = receipt]
           n == [w EXCEPT !.attempts[s][k] = a]
           moved(state) == [n EXCEPT !.state[s] = state]
           v == Received(w, s, k, receipt, at)
<1>1. w \in Records /\ w.attempts[s] \in Seq(Attempts) /\ k \in 1..Len(w.attempts[s])
  BY DEF Good, Records, Proposed
<1>2. /\ a \in Attempts /\ a.proposed /\ a.receipt = receipt
      /\ receipt # "none" /\ w.attempts[s][k].proposed
  <2>1. w.attempts[s][k] \in Attempts
    BY <1>1
  <2> QED
    BY <2>1 DEF Attempts, Proposed, Receipts
<1>3. [w EXCEPT !.attempts[s][k].receipt = receipt] = n
  BY <1>1 DEF Records
<1>4. /\ n.attempts[s][k] = a /\ n.state = w.state /\ n.attempts[s] # <<>>
      /\ n.retries = w.retries
      /\ Len(n.attempts[s]) = Len(w.attempts[s])
      /\ \A r \in Steps \ {s} : n.attempts[r] = w.attempts[r]
  BY <1>1 DEF Records
<1> HIDE DEF a
<1>5. Good(n) /\ Keeps(w, n) /\ k = Len(w.attempts[s])
  BY <1>1, <1>2, NotedGood
<1> HIDE DEF n
<1>6. n \in Records
  BY <1>5 DEF Good
<1>7. k \in 1..Len(n.attempts[s]) /\ Last(n, s) = a
  BY <1>1, <1>4, <1>5 DEF Last
\* It is enough to look at the record before its status is refreshed.
<1>8. ASSUME NEW u, Good(u), Keeps(n, u), v = Refreshed(u),
             \A j : /\ Follows(w, j)
                    /\ receipt = "committed" /\ s \in Detached => j.state # "none"
                    => Follows(u, j)
      PROVE  /\ Good(v)
             /\ Keeps(w, v)
             /\ \A j : /\ Follows(w, j)
                       /\ receipt = "committed" /\ s \in Detached => j.state # "none"
                       => Follows(v, j)
             /\ v.attempts[s][k].receipt = receipt
  <2>1. Keeps(w, u)
    BY <1>5, <1>8, KeepsTransitive
  <2>2. u.attempts[s][k].receipt = receipt
    <3>1. KeptIn(n.attempts[s], u.attempts[s])
      BY <1>8 DEF Keeps
    <3> QED
      BY <1>2, <1>4, <1>7, <3>1 DEF KeptIn
  <2>3. v.attempts = u.attempts
    BY <1>8, RefreshedFacts DEF Good
  <2> QED
    BY <1>8, <2>1, <2>2, <2>3, RefreshedGood
\* A step that only moves on
<1>9. ASSUME NEW state \in StepStates \ {"waiting"}
      PROVE  LET u == moved(state) IN
             /\ Good(u) /\ Keeps(n, u)
             /\ u.state[s] = state /\ u.attempts = n.attempts
             /\ \A r \in Steps \ {s} : u.state[r] = w.state[r]
  <2>1. Good(moved(state)) /\ Keeps(n, moved(state))
    BY <1>4, <1>5, MovedGood
  <2>2. /\ moved(state).state[s] = state /\ moved(state).attempts = n.attempts
        /\ \A r \in Steps \ {s} : moved(state).state[r] = w.state[r]
    BY <1>4, <1>6 DEF Records
  <2> QED
    BY <2>1, <2>2
<1>10. CASE receipt = "committed" /\ s \in Detached
  <2> DEFINE u == moved("waiting_join")
  <2>1. v = Refreshed(u)
    BY <1>3, <1>10 DEF Received
  <2>2. /\ Good(u) /\ Keeps(n, u)
        /\ u.state[s] = "waiting_join" /\ u.attempts = n.attempts
        /\ \A r \in Steps \ {s} : u.state[r] = w.state[r]
    BY <1>9 DEF StepStates
  <2> HIDE DEF u
  <2>3. ASSUME NEW j, Follows(w, j), j.state # "none" PROVE Follows(u, j)
    BY <1>4, <2>2, <2>3, FollowsOne
  <2> QED
    BY <1>8, <1>10, <2>1, <2>2, <2>3
<1>11. CASE receipt = "committed" /\ s \notin Detached
  <2> DEFINE m == moved("completed")
             u == Activated(m, s, NextSteps[s], at)
  <2>1. v = Refreshed(u)
    BY <1>3, <1>11 DEF Received
  <2>2. /\ Good(m) /\ Keeps(n, m) /\ m.attempts = n.attempts
        /\ \A r \in Steps \ {s} : m.state[r] = w.state[r]
    BY <1>9 DEF StepStates
  <2> HIDE DEF m
  <2>3. NextSteps[s] \in SUBSET Steps
    BY WorkflowAssumption
  <2>4. Good(u) /\ Keeps(m, u) /\ \A j : Follows(m, j) => Follows(u, j)
    BY <2>2, <2>3, ActivatedGood
  <2>5. Keeps(n, u)
    BY <1>5, <2>2, <2>4, KeepsTransitive
  <2>6. ASSUME NEW j, Follows(w, j) PROVE Follows(u, j)
    <3>1. Follows(m, j)
      BY <1>4, <1>11, <2>2, <2>6, FollowsOne
    <3> QED
      BY <2>4, <3>1
  <2> HIDE DEF u
  <2> QED
    BY <1>8, <2>1, <2>4, <2>5, <2>6
<1>12. CASE receipt = "failed" /\ MayRetry(w, s)
  <2> DEFINE u == [n EXCEPT !.state[s] = "ready", !.retries = @ - 1,
                            !.attempts[s] = Append(@, Grant(at))]
  <2>1. v = Refreshed(u)
    BY <1>3, <1>12 DEF Received
  <2>2. Good(u) /\ Keeps(n, u)
    BY <1>2, <1>4, <1>5, <1>7, <1>12, RetriedGood DEF MayRetry
  <2>3. /\ u.state[s] = "ready"
        /\ \A r \in Steps \ {s} : u.state[r] = w.state[r] /\ u.attempts[r] = w.attempts[r]
    BY <1>4, <1>6 DEF Records
  <2> HIDE DEF u
  <2>4. ASSUME NEW j, Follows(w, j) PROVE Follows(u, j)
    BY <2>3, <2>4, FollowsOne
  <2> QED
    BY <1>8, <2>1, <2>2, <2>4
<1>13. CASE receipt # "committed" /\ ~(receipt = "failed" /\ MayRetry(w, s))
  <2> DEFINE u == moved("failed")
  <2>1. v = Refreshed(u)
    BY <1>3, <1>13 DEF Received
  <2>2. /\ Good(u) /\ Keeps(n, u)
        /\ u.state[s] = "failed" /\ u.attempts = n.attempts
        /\ \A r \in Steps \ {s} : u.state[r] = w.state[r]
    BY <1>9 DEF StepStates
  <2> HIDE DEF u
  <2>3. Last(u, s).receipt # "committed"
    BY <1>2, <1>7, <1>13, <2>2 DEF Last
  <2>4. ASSUME NEW j, Follows(w, j) PROVE Follows(u, j)
    BY <1>4, <2>2, <2>3, <2>4, FollowsOne
  <2> QED
    BY <1>8, <2>1, <2>2, <2>4
<1> QED
  BY <1>10, <1>11, <1>12, <1>13

\* A step goes on as its join was decided.
LEMMA ReconciledGood ==
  ASSUME NEW w, Good(w), NEW s \in Steps, w.state[s] = "waiting_join",
         NEW outcome \in {"satisfied", "abandoned"}
  PROVE  LET v == Reconciled(w, s, outcome) IN
         /\ Good(v)
         /\ Keeps(w, v)
         /\ \A j : Follows(w, j) /\ j.state = outcome => Follows(v, j)
<1> DEFINE end == IF outcome = "satisfied" THEN "completed" ELSE "failed"
           u == [w EXCEPT !.state[s] = end]
<1>1. w \in Records /\ w.attempts[s] # <<>>
  BY DEF Good, GoodStep
<1>2. Reconciled(w, s, outcome) = Refreshed(u)
  BY DEF Reconciled
<1>3. end \in StepStates \ {"waiting"}
  BY DEF StepStates
<1>4. Good(u) /\ Keeps(w, u)
  BY <1>1, <1>3, MovedGood
<1>5. /\ u.state[s] = end /\ u.attempts = w.attempts
      /\ \A r \in Steps \ {s} : u.state[r] = w.state[r]
  BY <1>1 DEF Records
<1> HIDE DEF u
<1>6. ASSUME NEW j, Follows(w, j), j.state = outcome PROVE Follows(u, j)
  BY <1>5, <1>6, FollowsOne
<1> QED
  BY <1>2, <1>4, <1>6, RefreshedGood

\* Whatever a call puts, it keeps what it has seen and follows the join.
LEMMA DraftGood ==
  ASSUME NEW call \in CallRecords, Asked(call), Drafts(call)
  PROVE  LET v == Draft(call) IN
         /\ Good(v)
         /\ Keeps(call.seen, v)
         /\ \A j : /\ Follows(call.seen, j)
                   /\ call.kind = "receipt" /\ call.arg = "committed" /\ call.step \in Detached
                        => j.state # "none"
                   /\ call.kind = "reconcile" => j.state = call.arg
                   => Follows(v, j)
         /\ call.kind = "admit" /\ v.state[call.step] # "failed"
              => Proposed(v, call.step, call.attempt)
         /\ call.kind = "receipt" => v.attempts[call.step][call.attempt].receipt = call.arg
<1>1. /\ call.step \in Steps /\ call.at \in Nat /\ call.attempt \in Nat \ {0}
      /\ call.kind \in {"signal", "admit", "receipt", "reconcile"}
      /\ Good(call.seen)
  BY InboxAssumption DEF CallRecords, Asked, Drafts, Times
<1>2. CASE call.kind = "signal"
  <2>1. Draft(call) = Signalled(call.seen, call.arg, call.at) /\ call.arg \in Events
    BY <1>2 DEF Draft, Asked
  <2> QED
    BY <1>1, <1>2, <2>1, SignalledGood
<1>3. CASE call.kind = "admit"
  <2>1. Draft(call) = Admitted(call.seen, call.step, call.at)
    BY <1>3 DEF Draft
  <2>2. /\ call.attempt \in 1..Len(call.seen.attempts[call.step])
        /\ call.seen.attempts[call.step] \in Seq(Attempts)
        /\ ~call.seen.attempts[call.step][call.attempt].proposed
        /\ call.seen.state[call.step] = "ready"
    BY <1>1, <1>3 DEF Drafts, Proposed, Good, Records
  <2> QED
    BY <1>1, <1>3, <2>1, <2>2, AdmittedGood
<1>4. CASE call.kind = "receipt"
  <2>1. Draft(call) = Received(call.seen, call.step, call.attempt, call.arg, call.at)
    BY <1>4 DEF Draft
  <2>2. /\ Proposed(call.seen, call.step, call.attempt)
        /\ call.seen.attempts[call.step][call.attempt].receipt = "none"
        /\ call.seen.state[call.step] = "effect_admitted"
        /\ call.arg \in Receipts
    BY <1>4 DEF Drafts, Asked
  <2> QED
    BY <1>1, <1>4, <2>1, <2>2, ReceivedGood
<1>5. CASE call.kind = "reconcile"
  <2>1. Draft(call) = Reconciled(call.seen, call.step, call.arg)
    BY <1>5 DEF Draft
  <2>2. call.seen.state[call.step] = "waiting_join" /\ call.arg \in {"satisfied", "abandoned"}
    BY <1>5 DEF Drafts, Asked
  <2> QED
    BY <1>1, <1>5, <2>1, <2>2, ReconciledGood
<1> QED
  BY <1>1, <1>2, <1>3, <1>4, <1>5

-----------------------------------------------------------------------------
(* The inbox                                                               *)

\* A join that was put stays, and one that was decided stays as it is.
JoinMoves ==
  /\ join' \in Joins
  /\ join.state # "none" => join'.state # "none"
  /\ join.state \in {"satisfied", "abandoned"} => join'.state = join.state

\* The operations of the stores on the join
LEMMA JoinFacts ==
  ASSUME join \in Joins
  PROVE  /\ SatisfyWaitingJoins(doneAt) => JoinMoves
         /\ AbandonExpiredJoins => JoinMoves
         /\ UNCHANGED join => JoinMoves
         /\ \A at \in Times, expiresAt \in Deadlines \cup {Never} :
              PutJoin(at, expiresAt) => JoinMoves /\ join'.state # "none"
<1>1. join.state \in {"none", "waiting", "satisfied", "abandoned"} /\ join.createdAt \in Times
  BY DEF Joins
<1>2. ASSUME SatisfyWaitingJoins(doneAt) PROVE JoinMoves
  BY <1>1, <1>2 DEF SatisfyWaitingJoins, Satisfiable, JoinMoves, Joins
<1>3. ASSUME AbandonExpiredJoins PROVE JoinMoves
  BY <1>1, <1>3 DEF AbandonExpiredJoins, JoinMoves, Joins
<1>4. ASSUME NEW at \in Times, NEW expiresAt \in Deadlines \cup {Never}, PutJoin(at, expiresAt)
      PROVE  JoinMoves /\ join'.state # "none"
  <2> DEFINE late == expiresAt = Never /\ (covered \/ pass.stage = "audit")
  <2>1. join' = IF join.state = "none"
                THEN [state |-> "waiting", createdAt |-> at, expiresAt |-> expiresAt,
                      late |-> late]
                ELSE join
    BY <1>4 DEF PutJoin
  <2>2. late \in BOOLEAN
    OBVIOUS
  <2> HIDE DEF late
  <2> QED
    BY <1>1, <2>1, <2>2 DEF JoinMoves, Joins
<1> QED
  BY <1>1, <1>2, <1>3, <1>4 DEF JoinMoves

\* The operations of the stores on the notification
LEMMA NoteFacts ==
  ASSUME note \in Notes, ConsumedByCarrier
  PROVE  /\ PutNotification /\ posted \subseteq posted' => note' \in Notes /\ ConsumedByCarrier'
         /\ \A t \in Turns : ConsumedBy(t) /\ t \in posted /\ posted \subseteq posted'
              => note' \in Notes /\ ConsumedByCarrier'
         /\ UNCHANGED note /\ posted \subseteq posted' => note' \in Notes /\ ConsumedByCarrier'
<1>1. note.state \in {"absent", "pending", "consumed"} /\ note.by \in Turns \cup {NoTurn}
  BY DEF Notes
<1>2. ASSUME PutNotification, posted \subseteq posted' PROVE note' \in Notes /\ ConsumedByCarrier'
  BY <1>1, <1>2 DEF PutNotification, Notes, ConsumedByCarrier
<1>3. ASSUME NEW t \in Turns, ConsumedBy(t), t \in posted, posted \subseteq posted'
      PROVE  note' \in Notes /\ ConsumedByCarrier'
  BY <1>1, <1>3 DEF ConsumedBy, Notes, ConsumedByCarrier
<1>4. ASSUME UNCHANGED note, posted \subseteq posted' PROVE note' \in Notes /\ ConsumedByCarrier'
  BY <1>4 DEF ConsumedByCarrier
<1> QED
  BY <1>2, <1>3, <1>4

\* What goes on in the inbox is correctly typed, consumes what a message
\* carries, and keeps what was decided of the join.
LEMMA InboxStep ==
  ASSUME InboxTypeOK, CarrierInv, InboxNext \/ WorkerEnds \/ InboxCrash
  PROVE  InboxTypeOK' /\ CarrierInv' /\ JoinMoves
<1> USE InboxAssumption
<1>1. /\ note \in Notes /\ join \in Joins /\ ConsumedByCarrier
      /\ pass \in [stage : PassStages, carriers : SUBSET Turns]
      /\ turn \in [Turns -> [stage : TurnStages, carries : BOOLEAN]]
      /\ posted \subseteq Turns /\ pass.carriers \subseteq posted
      /\ \A t \in Turns : turn[t].stage = "posted" /\ turn[t].carries => t \in posted
      /\ now \in Times /\ doneAt \in Times \cup {Running} /\ active \in BOOLEAN
      /\ covered \in BOOLEAN /\ faults \in 0..MaxFaults
  BY DEF InboxTypeOK, CarrierInv
<1>2. Fault => faults' \in 0..MaxFaults
  BY <1>1 DEF Fault
<1>3. ASSUME NEW stage \in PassStages, To(stage)
      PROVE  pass' \in [stage : PassStages, carriers : SUBSET Turns] /\ pass'.carriers = {}
  BY <1>3 DEF To
<1>4. CASE PassStarts
  <2>1. pass' \in [stage : PassStages, carriers : SUBSET Turns] /\ pass'.carriers = posted
    BY <1>1, <1>4 DEF PassStarts, PassStages
  <2> QED
    BY <1>1, <1>4, <2>1, JoinFacts, NoteFacts DEF PassStarts, InboxTypeOK, CarrierInv
<1>5. CASE PassAcknowledges
  <2>1. note' \in Notes /\ ConsumedByCarrier'
    BY <1>1, <1>5, NoteFacts DEF PassAcknowledges
  <2> QED
    BY <1>1, <1>3, <1>5, <2>1, JoinFacts DEF PassAcknowledges, InboxTypeOK, CarrierInv, PassStages
<1>6. CASE PassLooks
  BY <1>1, <1>3, <1>6, JoinFacts, NoteFacts DEF PassLooks, InboxTypeOK, CarrierInv, PassStages
<1>7. CASE PassEnqueues
  BY <1>1, <1>3, <1>7, JoinFacts, NoteFacts DEF PassEnqueues, InboxTypeOK, CarrierInv, PassStages
<1>8. CASE PassSatisfies
  <2>1. JoinMoves
    BY <1>1, <1>8, JoinFacts DEF PassSatisfies
  <2> QED
    BY <1>1, <1>3, <1>8, <2>1, NoteFacts
    DEF PassSatisfies, InboxTypeOK, CarrierInv, PassStages, JoinMoves
<1>9. CASE PassAudits
  BY <1>1, <1>3, <1>9, JoinFacts, NoteFacts DEF PassAudits, InboxTypeOK, CarrierInv, PassStages
<1>10. CASE PassWriteFails
  BY <1>1, <1>2, <1>3, <1>10, JoinFacts, NoteFacts
  DEF PassWriteFails, InboxTypeOK, CarrierInv, PassStages
<1>11. CASE PassAbandons
  <2>1. JoinMoves
    BY <1>1, <1>11, JoinFacts DEF PassAbandons
  <2> QED
    BY <1>1, <1>3, <1>11, <2>1, NoteFacts
    DEF PassAbandons, InboxTypeOK, CarrierInv, PassStages, JoinMoves
<1>12. ASSUME NEW t \in Turns, Prepare(t) PROVE InboxTypeOK' /\ CarrierInv' /\ JoinMoves
  <2>1. /\ turn' \in [Turns -> [stage : TurnStages, carries : BOOLEAN]]
        /\ turn'[t].stage = "prepared"
        /\ \A u \in Turns \ {t} : turn'[u] = turn[u]
    BY <1>1, <1>12 DEF Prepare, TurnStages
  <2> QED
    BY <1>1, <1>12, <2>1, JoinFacts, NoteFacts DEF Prepare, InboxTypeOK, CarrierInv
<1>13. ASSUME NEW t \in Turns, Post(t) PROVE InboxTypeOK' /\ CarrierInv' /\ JoinMoves
  <2>1. /\ turn' \in [Turns -> [stage : TurnStages, carries : BOOLEAN]]
        /\ turn'[t].carries = turn[t].carries
        /\ \A u \in Turns \ {t} : turn'[u] = turn[u]
    BY <1>1, <1>13 DEF Post, TurnTo, TurnStages
  <2>2. /\ posted \subseteq posted' /\ posted' \subseteq Turns
        /\ turn[t].carries => t \in posted'
    BY <1>1, <1>13 DEF Post
  <2>3. \A u \in Turns : turn'[u].stage = "posted" /\ turn'[u].carries => u \in posted'
    BY <1>1, <2>1, <2>2
  <2>4. note' \in Notes /\ ConsumedByCarrier'
    BY <1>1, <1>13, <2>2, NoteFacts DEF Post
  <2> QED
    BY <1>1, <1>13, <2>1, <2>2, <2>3, <2>4, JoinFacts DEF Post, InboxTypeOK, CarrierInv
<1>14. ASSUME NEW t \in Turns, TurnEnds(t)
       PROVE  /\ turn' \in [Turns -> [stage : TurnStages, carries : BOOLEAN]]
              /\ \A u \in Turns : turn'[u].stage = "posted" /\ turn'[u].carries => u \in posted
  BY <1>1, <1>14 DEF TurnEnds, TurnOver, TurnStages
<1>15. ASSUME NEW t \in Turns, Acknowledge(t) PROVE InboxTypeOK' /\ CarrierInv' /\ JoinMoves
  <2>1. note' \in Notes /\ ConsumedByCarrier'
    BY <1>1, <1>15, NoteFacts DEF Acknowledge
  <2> QED
    BY <1>1, <1>14, <1>15, <2>1, JoinFacts DEF Acknowledge, InboxTypeOK, CarrierInv
<1>16. ASSUME NEW t \in Turns, PostFails(t) PROVE InboxTypeOK' /\ CarrierInv' /\ JoinMoves
  BY <1>1, <1>2, <1>14, <1>16, JoinFacts, NoteFacts DEF PostFails, InboxTypeOK, CarrierInv
<1>17. CASE Tick
  <2>1. now' \in Times
    BY <1>1, <1>17 DEF Tick, Times
  <2> QED
    BY <1>1, <1>17, <2>1, JoinFacts, NoteFacts DEF Tick, InboxTypeOK, CarrierInv
<1>18. CASE RolesRest
  BY <1>1, <1>18, JoinFacts, NoteFacts DEF RolesRest, InboxTypeOK, CarrierInv
<1>19. CASE RolesWork
  BY <1>1, <1>2, <1>19, JoinFacts, NoteFacts DEF RolesWork, InboxTypeOK, CarrierInv
<1>20. CASE WorkerEnds
  BY <1>1, <1>20, JoinFacts, NoteFacts DEF WorkerEnds, InboxTypeOK, CarrierInv
<1>21. CASE InboxCrash
  <2>1. /\ turn' \in [Turns -> [stage : TurnStages, carries : BOOLEAN]]
        /\ \A t \in Turns : turn'[t].stage # "posted"
    BY <1>1, <1>21 DEF InboxCrash, TurnOver, TurnStages
  <2> QED
    BY <1>1, <1>2, <1>3, <1>21, <2>1, JoinFacts, NoteFacts
    DEF InboxCrash, InboxTypeOK, CarrierInv, PassStages
<1> QED
  BY <1>4, <1>5, <1>6, <1>7, <1>8, <1>9, <1>10, <1>11, <1>12, <1>13, <1>15, <1>16, <1>17,
     <1>18, <1>19, <1>20, <1>21 DEF InboxNext, Pass

-----------------------------------------------------------------------------
(* The inductive invariant                                                 *)

\* The call that nobody makes
LEMMA NoCallFacts == NoCall \in CallRecords /\ NoCall.stage = "idle" /\ NoCall.kind = "none"
  BY InboxAssumption, WorkflowAssumption DEF NoCall, CallRecords, Times

LEMMA InitIInv == Init => IInv
<1> SUFFICES ASSUME Init PROVE IInv
  OBVIOUS
<1> USE InboxAssumption, WorkflowAssumption
<1>1. InboxTypeOK /\ CarrierInv
  <2>1. now \in Times /\ 0 \in Times /\ doneAt \in Times \cup {Running} /\ faults \in 0..MaxFaults
    BY DEF Init, InboxInit, Times
  <2>2. note \in Notes /\ join \in Joins
    BY <2>1 DEF Init, InboxInit, Notes, Joins
  <2>3. /\ pass \in [stage : PassStages, carriers : SUBSET Turns]
        /\ turn \in [Turns -> [stage : TurnStages, carries : BOOLEAN]]
    BY DEF Init, InboxInit, PassStages, TurnStages
  <2>4. active \in BOOLEAN /\ covered \in BOOLEAN /\ posted = {}
    BY DEF Init, InboxInit
  <2>5. CarrierInv
    BY DEF Init, InboxInit, CarrierInv, ConsumedByCarrier
  <2> QED
    BY <2>1, <2>2, <2>3, <2>4, <2>5 DEF InboxTypeOK
<1>2. record \in Records
  BY DEF Init, Records, Statuses, StepStates
<1>3. \A s \in Steps : record.attempts[s] = <<>> /\ record.state[s] = "waiting"
  BY DEF Init
<1>4. Good(record)
  BY <1>2, <1>3 DEF Good, GoodStep
<1>5. calls \in [Callers -> CallRecords] /\ CallInv
  BY NoCallFacts DEF Init, CallInv
<1>6. ToldInv /\ PromisesKept /\ handed = {} /\ told = {}
  BY DEF Init, ToldInv, PromisesKept
<1>7. Follows(record, join)
  BY <1>3 DEF Follows
<1>8. TypeOK
  BY <1>1, <1>2, <1>3, <1>6 DEF TypeOK
<1> QED
  BY <1>1, <1>4, <1>5, <1>6, <1>7, <1>8 DEF IInv

\* The length of a step's attempts is bounded by the retries.
LEMMA AttemptsBounded ==
  ASSUME NEW w, Good(w), NEW s \in Steps
  PROVE  /\ Len(w.attempts[s]) \in 0..MaxRetries + 1
         /\ w.attempts[s] \in Seq(Attempts)
<1>1. w.attempts[s] \in Seq(Attempts) /\ w.retries \in 0..MaxRetries /\ GoodStep(w, s)
  BY DEF Good, Records
<1>2. CASE w.attempts[s] = <<>>
  BY <1>2, WorkflowAssumption
<1>3. CASE w.attempts[s] # <<>>
  BY <1>1, <1>3, WorkflowAssumption DEF GoodStep
<1> QED
  BY <1>1, <1>2, <1>3

\* The record stays as it is while the join moves.
LEMMA RecordStays ==
  ASSUME IInv, UNCHANGED <<record, handed, told>>, InboxTypeOK', CarrierInv', JoinMoves,
         calls' \in [Callers -> CallRecords], CallInv'
  PROVE  IInv'
<1>1. Follows(record, join)'
  BY DEF IInv, Follows, JoinMoves, Last
<1>2. TypeOK' /\ Good(record)' /\ ToldInv' /\ PromisesKept'
  BY DEF IInv, TypeOK, Good, GoodStep, ToldInv, PromisesKept, Proposed
<1> QED
  BY <1>1, <1>2 DEF IInv

\* So do the calls.
LEMMA CallsStay ==
  ASSUME IInv, JoinMoves, UNCHANGED <<record, calls>>
  PROVE  calls' \in [Callers -> CallRecords] /\ CallInv'
<1>1. calls' \in [Callers -> CallRecords]
  BY DEF IInv
<1>2. CallInv'
  BY DEF IInv, CallInv, Asked, JoinMoves
<1> QED
  BY <1>1, <1>2

\* One call goes on, the others stay as they are.
LEMMA CallsAfter ==
  ASSUME IInv, NEW c \in Callers, NEW new \in CallRecords,
         calls' = [calls EXCEPT ![c] = new], JoinMoves,
         \A s \in Steps : Len(record.attempts[s]) <= Len(record'.attempts[s]),
         record' \in Records, record \in Records,
         new.stage # "idle" =>
           /\ Asked(new)
           /\ new.kind = "admit" => new.attempt <= Len(record'.attempts[new.step])
           /\ new.kind = "reconcile" => join'.state = new.arg
           /\ new.stage \in {"put", "putJoin"} => Drafts(new)
           /\ new.stage = "put" /\ new.kind = "receipt" /\ new.arg = "committed"
                /\ new.step \in Detached => join'.state # "none"
  PROVE  calls' \in [Callers -> CallRecords] /\ CallInv'
<1>1. calls \in [Callers -> CallRecords] /\ CallInv
  BY DEF IInv
<1>2. calls' \in [Callers -> CallRecords]
  BY <1>1
<1>3. ASSUME NEW d \in Callers
      PROVE  /\ calls'[d] \in CallRecords
             /\ calls'[d].stage # "idle" => Asked(calls'[d])
             /\ calls'[d].stage # "idle" /\ calls'[d].kind = "admit" =>
                  calls'[d].attempt <= Len(record'.attempts[calls'[d].step])
             /\ calls'[d].stage # "idle" /\ calls'[d].kind = "reconcile" =>
                  join'.state = calls'[d].arg
             /\ calls'[d].stage \in {"put", "putJoin"} => Drafts(calls'[d])
             /\ /\ calls'[d].stage = "put" /\ calls'[d].kind = "receipt"
                /\ calls'[d].arg = "committed" /\ calls'[d].step \in Detached
                => join'.state # "none"
  <2>1. CASE d = c
    <3>1. calls'[d] = new
      BY <1>1, <2>1
    <3> QED
      BY <3>1
  <2>2. CASE d # c
    <3>1. calls'[d] = calls[d] /\ calls[d] \in CallRecords
      BY <1>1, <2>2
    <3>2. /\ calls[d].step \in Steps /\ calls[d].attempt \in Nat
          /\ calls[d].stage # "idle" => Asked(calls[d])
      BY <1>1, <3>1 DEF CallInv, CallRecords
    <3>3. calls[d].stage # "idle" /\ calls[d].kind = "admit" =>
            calls[d].attempt <= Len(record'.attempts[calls[d].step])
      <4>1. /\ Len(record.attempts[calls[d].step]) \in Nat
            /\ Len(record'.attempts[calls[d].step]) \in Nat
        BY <3>2 DEF Records
      <4> QED
        BY <1>1, <3>2, <4>1 DEF CallInv
    <3>4. calls[d].stage # "idle" /\ calls[d].kind = "reconcile" => join'.state = calls[d].arg
      BY <1>1, <3>2 DEF CallInv, Asked, JoinMoves
    <3> QED
      BY <1>1, <3>1, <3>2, <3>3, <3>4 DEF CallInv, JoinMoves
  <2> QED
    BY <2>1, <2>2
<1> QED
  BY <1>2, <1>3 DEF CallInv

\* What was promised stays true while the record keeps what it says.
LEMMA PromisesStay ==
  ASSUME IInv, Good(record'), Keeps(record, record')
  PROVE  /\ \A e \in handed : Proposed(record', e[1], e[2])
         /\ \A t \in told : /\ t[2] <= Len(record'.attempts[t[1]])
                            /\ record'.attempts[t[1]][t[2]].receipt = t[3]
<1>1. Good(record) /\ ToldInv /\ PromisesKept /\ handed \subseteq Effects
      /\ told \subseteq {<<e[1], e[2], r>> : e \in Effects, r \in Receipts}
  BY DEF IInv, TypeOK
<1>2. ASSUME NEW s \in Steps, NEW k \in 1..MaxRetries + 1, k <= Len(record.attempts[s])
      PROVE  /\ k \in 1..Len(record.attempts[s])
             /\ k <= Len(record'.attempts[s])
             /\ KeptIn(record.attempts[s], record'.attempts[s])
  <2>1. Len(record.attempts[s]) \in Nat /\ Len(record'.attempts[s]) \in Nat
    BY <1>1, AttemptsBounded
  <2>2. KeptIn(record.attempts[s], record'.attempts[s])
    BY DEF Keeps
  <2> QED
    BY <1>2, <2>1, <2>2, WorkflowAssumption DEF KeptIn
<1>3. ASSUME NEW e \in handed PROVE Proposed(record', e[1], e[2])
  <2>1. e[1] \in Steps /\ e[2] \in 1..MaxRetries + 1 /\ Proposed(record, e[1], e[2])
    BY <1>1 DEF Effects, PromisesKept
  <2> QED
    BY <1>2, <2>1 DEF Proposed, KeptIn
<1>4. ASSUME NEW t \in told
      PROVE  t[2] <= Len(record'.attempts[t[1]]) /\ record'.attempts[t[1]][t[2]].receipt = t[3]
  <2>1. t[1] \in Steps /\ t[2] \in 1..MaxRetries + 1 /\ t[3] \in Receipts
    BY <1>1 DEF Effects
  <2>2. t[2] <= Len(record.attempts[t[1]]) /\ record.attempts[t[1]][t[2]].receipt = t[3]
    BY <1>1 DEF ToldInv, PromisesKept
  <2> QED
    BY <1>2, <2>1, <2>2 DEF KeptIn, Receipts
<1> QED
  BY <1>3, <1>4

\* A call may be given a promise that the record fulfils.
LEMMA PromiseMade ==
  ASSUME IInv, Good(record'), Keeps(record, record'),
         NEW s \in Steps, NEW k \in Nat \ {0}, NEW r \in Receipts,
         \/ handed' = handed
         \/ handed' = handed \cup {<<s, k>>} /\ Proposed(record', s, k),
         \/ told' = told
         \/ /\ told' = told \cup {<<s, k, r>>}
            /\ k <= Len(record'.attempts[s]) /\ record'.attempts[s][k].receipt = r
  PROVE  /\ handed' \subseteq Effects
         /\ told' \subseteq {<<e[1], e[2], q>> : e \in Effects, q \in Receipts}
         /\ ToldInv' /\ PromisesKept'
<1>1. handed \subseteq Effects /\ told \subseteq {<<e[1], e[2], q>> : e \in Effects, q \in Receipts}
  BY DEF IInv, TypeOK
<1>2. k <= Len(record'.attempts[s]) => k \in 1..MaxRetries + 1
  BY AttemptsBounded, WorkflowAssumption
<1>3. Proposed(record', s, k) => k <= Len(record'.attempts[s])
  BY DEF Proposed
<1>4. handed' \subseteq Effects
  BY <1>1, <1>2, <1>3 DEF Effects
<1>5. told' \subseteq {<<e[1], e[2], q>> : e \in Effects, q \in Receipts}
  <2>1. k <= Len(record'.attempts[s]) =>
          <<s, k, r>> \in {<<e[1], e[2], q>> : e \in Effects, q \in Receipts}
    <3>1. ASSUME k <= Len(record'.attempts[s]) PROVE <<s, k>> \in Effects
      BY <1>2, <3>1 DEF Effects
    <3> QED
      BY <3>1
  <2> QED
    BY <1>1, <2>1
<1>6. ToldInv'
  BY PromisesStay DEF ToldInv
<1>7. PromisesKept'
  BY PromisesStay DEF PromisesKept
<1> QED
  BY <1>4, <1>5, <1>6, <1>7

\* A call that reads the record
LEMMA ReadsGood ==
  ASSUME IInv, NEW c \in Callers, NEW reading \in CallRecords, Asked(reading),
         reading.kind = "admit" => reading.attempt <= Len(record.attempts[reading.step]),
         reading.kind = "reconcile" => join.state = reading.arg,
         Reads(c, reading), faults' \in 0..MaxFaults
  PROVE  IInv'
<1> DEFINE call == [reading EXCEPT !.seen = record]
<1>1. Good(record) /\ record \in Records
  BY DEF IInv, Good
<1>2. /\ call \in CallRecords /\ Asked(call) /\ call.seen = record
      /\ call.kind = reading.kind /\ call.step = reading.step /\ call.attempt = reading.attempt
      /\ call.arg = reading.arg
      /\ call.step \in Steps /\ call.attempt \in Nat \ {0}
      /\ call.kind \in {"signal", "admit", "receipt", "reconcile"}
  BY <1>1 DEF CallRecords, Asked
<1>3. /\ CASE Decision(call) = "throw" -> Ends(c) /\ UNCHANGED <<handed, told>>
           [] Decision(call) = "return" -> Ends(c) /\ Returns(call)
           [] Decision(call) = "put" ->
                /\ calls' = [calls EXCEPT ![c] = [call EXCEPT
                     !.stage = IF call.kind = "receipt" /\ call.arg = "committed"
                                  /\ call.step \in Detached THEN "putJoin" ELSE "put"]]
                /\ UNCHANGED <<handed, told>>
      /\ UNCHANGED <<now, doneAt, active, note, join, covered, pass, turn, posted, record>>
  BY DEF Reads
<1>4. Decision(call) \in {"throw", "return", "put"}
  BY <1>2 DEF Decision
<1> HIDE DEF call
<1>5. InboxTypeOK' /\ CarrierInv' /\ JoinMoves
  BY <1>3, JoinFacts DEF IInv, TypeOK, InboxTypeOK, CarrierInv, ConsumedByCarrier
<1>6. Follows(record, join)' /\ Good(record)' /\ Keeps(record, record')
  <2>1. Keeps(record, record)
    BY <1>1 DEF Keeps, KeptIn, Records
  <2> QED
    BY <1>1, <1>3, <2>1 DEF IInv, Follows, Last, Good, GoodStep
<1>7. \A s \in Steps : Len(record.attempts[s]) <= Len(record'.attempts[s])
  BY <1>6 DEF Keeps, KeptIn
<1>8. CASE Decision(call) = "throw"
  <2>1. Ends(c) /\ UNCHANGED <<handed, told>>
    BY <1>3, <1>8
  <2>2. calls' \in [Callers -> CallRecords] /\ CallInv'
    BY <1>1, <1>3, <1>5, <1>7, <2>1, NoCallFacts, CallsAfter DEF Ends
  <2> QED
    BY <1>3, <1>5, <2>1, <2>2, RecordStays
<1>9. CASE Decision(call) = "return"
  <2>1. Ends(c) /\ Returns(call)
    BY <1>3, <1>9
  <2>2. calls' \in [Callers -> CallRecords] /\ CallInv'
    BY <1>1, <1>3, <1>5, <1>7, <2>1, NoCallFacts, CallsAfter DEF Ends
  <2>3. call.kind = "admit" => Proposed(record', call.step, call.attempt)
    BY <1>2, <1>3, <1>9 DEF Decision
  <2>4. call.kind = "receipt" =>
          /\ Proposed(record', call.step, call.attempt)
          /\ record'.attempts[call.step][call.attempt].receipt = call.arg
          /\ call.arg \in Receipts
    BY <1>2, <1>3, <1>9 DEF Decision, Asked
  <2>5. PICK r \in Receipts : call.kind = "receipt" => r = call.arg
    BY <2>4 DEF Receipts
  <2>6. \/ handed' = handed
        \/ /\ handed' = handed \cup {<<call.step, call.attempt>>}
           /\ Proposed(record', call.step, call.attempt)
    BY <2>1, <2>3 DEF Returns
  <2>7. \/ told' = told
        \/ /\ told' = told \cup {<<call.step, call.attempt, r>>}
           /\ call.attempt <= Len(record'.attempts[call.step])
           /\ record'.attempts[call.step][call.attempt].receipt = r
    BY <2>1, <2>4, <2>5 DEF Returns, Proposed
  <2>8. /\ handed' \subseteq Effects
        /\ told' \subseteq {<<e[1], e[2], q>> : e \in Effects, q \in Receipts}
        /\ ToldInv' /\ PromisesKept'
    BY <1>2, <1>6, <2>6, <2>7, PromiseMade
  <2>9. TypeOK'
    BY <1>3, <1>5, <2>8 DEF IInv, TypeOK
  <2> QED
    BY <1>5, <1>6, <2>2, <2>8, <2>9 DEF IInv
<1>10. CASE Decision(call) = "put"
  <2> DEFINE stage == IF call.kind = "receipt" /\ call.arg = "committed"
                         /\ call.step \in Detached THEN "putJoin" ELSE "put"
             new == [call EXCEPT !.stage = stage]
  <2>1. calls' = [calls EXCEPT ![c] = new] /\ UNCHANGED <<handed, told>>
    BY <1>3, <1>10
  <2>2. Drafts(call)
    <3>1. CASE call.kind = "admit"
      <4>1. ~Proposed(record, call.step, call.attempt) /\ record.state[call.step] = "ready"
        BY <1>2, <1>10, <3>1 DEF Decision
      <4>2. call.attempt \in 1..Len(record.attempts[call.step])
        BY <1>1, <1>2, <3>1, AttemptsBounded
      <4> QED
        BY <1>1, <1>2, <3>1, <4>1, <4>2 DEF Drafts
    <3>2. CASE call.kind = "receipt"
      BY <1>1, <1>2, <1>10, <3>2 DEF Decision, Drafts
    <3>3. CASE call.kind = "reconcile"
      BY <1>1, <1>2, <1>10, <3>3 DEF Decision, Drafts
    <3>4. CASE call.kind = "signal"
      BY <1>1, <1>2, <3>4 DEF Drafts
    <3> QED
      BY <1>2, <3>1, <3>2, <3>3, <3>4
  <2>3. /\ new \in CallRecords /\ new.stage = stage /\ new.seen = call.seen
        /\ new.kind = call.kind /\ new.step = call.step /\ new.attempt = call.attempt
        /\ new.arg = call.arg
    BY <1>2 DEF CallRecords
  <2>4. Drafts(new) /\ Asked(new)
    BY <1>2, <2>2, <2>3 DEF Drafts, Asked
  <2>5. new.stage = "put" => ~(/\ new.kind = "receipt" /\ new.arg = "committed"
                               /\ new.step \in Detached)
    BY <2>3
  <2>6. /\ new.kind = "admit" => new.attempt <= Len(record'.attempts[new.step])
        /\ new.kind = "reconcile" => join'.state = new.arg
    BY <1>2, <1>3, <2>3
  <2> HIDE DEF new
  <2>7. calls' \in [Callers -> CallRecords] /\ CallInv'
    BY <1>1, <1>3, <1>5, <1>7, <2>1, <2>3, <2>4, <2>5, <2>6, CallsAfter
  <2> QED
    BY <1>3, <1>5, <2>1, <2>7, RecordStays
<1> QED
  BY <1>4, <1>8, <1>9, <1>10

\* Calls that begin
LEMMA BeginsGood ==
  ASSUME IInv, NEW c \in Callers, NEW kind \in {"signal", "admit", "receipt"},
         NEW s \in Steps, NEW k \in Nat \ {0},
         NEW arg \in Events \cup Receipts \cup {"none"},
         NEW expiresAt \in Deadlines \cup {Never}, Begins(c, kind, s, k, arg, expiresAt),
         kind = "signal" => arg \in Events,
         kind = "receipt" => arg \in Receipts,
         kind = "admit" => k <= Len(record.attempts[s])
  PROVE  IInv'
<1> DEFINE reading == [NoCall EXCEPT !.kind = kind, !.step = s, !.attempt = k, !.arg = arg,
                                     !.at = now, !.expiresAt = expiresAt]
<1>1. now \in Times /\ faults \in 0..MaxFaults
  BY DEF IInv, TypeOK, InboxTypeOK
<1>2. /\ reading \in CallRecords /\ Asked(reading)
      /\ reading.kind = kind /\ reading.step = s /\ reading.attempt = k
  BY <1>1, NoCallFacts DEF CallRecords, Asked
<1>3. Reads(c, reading)
  BY DEF Begins
<1>4. faults' \in 0..MaxFaults
  BY <1>1, InboxAssumption DEF Begins, Admissible, Fault
<1> HIDE DEF reading
<1> QED
  BY <1>2, <1>3, <1>4, ReadsGood

LEMMA StepIInv == IInv /\ [Next]_vars => IInv'
<1> SUFFICES ASSUME IInv, [Next]_vars PROVE IInv'
  OBVIOUS
<1> USE InboxAssumption, WorkflowAssumption
<1>1. /\ InboxTypeOK /\ CarrierInv /\ Good(record) /\ record \in Records
      /\ calls \in [Callers -> CallRecords] /\ CallInv
      /\ faults \in 0..MaxFaults /\ join \in Joins /\ now \in Times
  BY DEF IInv, TypeOK, Good, InboxTypeOK
<1>2. ASSUME UNCHANGED inboxVars PROVE InboxTypeOK' /\ CarrierInv' /\ JoinMoves
  BY <1>1, <1>2, JoinFacts DEF inboxVars, InboxTypeOK, CarrierInv, ConsumedByCarrier
\* The inbox and the worker
<1>3. CASE Inbox \/ Worker
  <2>1. InboxTypeOK' /\ CarrierInv' /\ JoinMoves /\ UNCHANGED workflowVars
    BY <1>1, <1>3, InboxStep DEF Inbox, Worker
  <2>2. calls' \in [Callers -> CallRecords] /\ CallInv'
    BY <2>1, CallsStay DEF workflowVars
  <2> QED
    BY <2>1, <2>2, RecordStays DEF workflowVars
<1>4. CASE Crash
  <2>1. InboxTypeOK' /\ CarrierInv' /\ JoinMoves
    BY <1>1, <1>4, InboxStep DEF Crash
  <2>2. calls' \in [Callers -> CallRecords] /\ CallInv'
    BY <1>4, NoCallFacts DEF Crash, CallInv
  <2> QED
    BY <1>4, <2>1, <2>2, RecordStays DEF Crash
\* The beginnings of the calls
<1>5. ASSUME NEW c \in Callers, CallSignal(c) PROVE IInv'
  <2>1. PICK event \in Events : Begins(c, "signal", NoCall.step, 1, event, Never)
    BY <1>5 DEF CallSignal
  <2>2. NoCall.step \in Steps
    BY NoCallFacts DEF CallRecords
  <2>3. 1 \in Nat \ {0} /\ Never \in Deadlines \cup {Never}
    OBVIOUS
  <2> QED
    BY <2>1, <2>2, <2>3, BeginsGood
<1>6. ASSUME NEW c \in Callers, CallAdmit(c) PROVE IInv'
  <2>1. PICK s \in Steps : /\ record.attempts[s] # <<>>
                           /\ Begins(c, "admit", s, Len(record.attempts[s]), "none", Never)
    BY <1>6 DEF CallAdmit
  <2>2. Len(record.attempts[s]) \in Nat \ {0}
    BY <1>1, <2>1 DEF Records
  <2>3. Never \in Deadlines \cup {Never} /\ "none" \in Events \cup Receipts \cup {"none"}
    OBVIOUS
  <2> DEFINE k == Len(record.attempts[s])
  <2>4. k \in Nat \ {0} /\ Begins(c, "admit", s, k, "none", Never)
    BY <2>1, <2>2
  <2>5. k <= Len(record.attempts[s])
    BY <2>4
  <2> HIDE DEF k
  <2> QED
    BY <2>3, <2>4, <2>5, BeginsGood
<1>7. ASSUME NEW c \in Callers, CallReceipt(c) PROVE IInv'
  <2>1. PICK e \in handed, receipt \in Receipts, expiresAt \in Deadlines \cup {Never} :
          Begins(c, "receipt", e[1], e[2], receipt, expiresAt)
    BY <1>7 DEF CallReceipt
  <2>2. e[1] \in Steps /\ e[2] \in Nat \ {0}
    BY DEF IInv, TypeOK, Effects
  <2> QED
    BY <2>1, <2>2, BeginsGood
<1>8. ASSUME NEW c \in Callers, CallReconcile(c) PROVE IInv'
  <2>1. PICK s \in Steps :
          /\ Admissible(c)
          /\ join.state \in {"satisfied", "abandoned"}
          /\ calls' = [calls EXCEPT ![c] = [NoCall EXCEPT !.kind = "reconcile", !.step = s,
                                              !.arg = join.state, !.stage = "read"]]
          /\ UNCHANGED <<now, doneAt, active, note, join, covered, pass, turn, posted,
                         record, handed, told>>
    BY <1>8 DEF CallReconcile
  <2> DEFINE new == [NoCall EXCEPT !.kind = "reconcile", !.step = s, !.arg = join.state,
                                   !.stage = "read"]
  <2>2. /\ new \in CallRecords /\ Asked(new) /\ new.stage = "read"
        /\ new.kind = "reconcile" /\ join'.state = new.arg
    BY <2>1, NoCallFacts DEF CallRecords, Asked
  <2>3. calls' = [calls EXCEPT ![c] = new]
    BY <2>1
  <2> HIDE DEF new
  <2>4. InboxTypeOK' /\ CarrierInv' /\ JoinMoves
    BY <1>1, <2>1, JoinFacts
    DEF Admissible, Fault, InboxTypeOK, CarrierInv, ConsumedByCarrier
  <2>5. \A t \in Steps : Len(record.attempts[t]) <= Len(record'.attempts[t])
    BY <1>1, <2>1 DEF Records
  <2>6. calls' \in [Callers -> CallRecords] /\ CallInv'
    BY <1>1, <2>1, <2>2, <2>3, <2>4, <2>5, CallsAfter
  <2> QED
    BY <2>1, <2>4, <2>6, RecordStays
<1>9. ASSUME NEW c \in Callers, Read(c) PROVE IInv'
  <2>1. calls[c] \in CallRecords /\ Asked(calls[c])
        /\ (calls[c].kind = "admit" =>
              calls[c].attempt <= Len(record.attempts[calls[c].step]))
        /\ (calls[c].kind = "reconcile" => join.state = calls[c].arg)
    BY <1>1, <1>9 DEF Read, Call, CallInv
  <2> QED
    BY <1>1, <1>9, <2>1, ReadsGood DEF Read
\* The join is put before the record.
<1>10. ASSUME NEW c \in Callers, PutsJoin(c) PROVE IInv'
  <2>1. calls[c] \in CallRecords /\ Asked(calls[c]) /\ Drafts(calls[c])
        /\ (calls[c].kind = "admit" =>
              calls[c].attempt <= Len(record.attempts[calls[c].step]))
        /\ (calls[c].kind = "reconcile" => join.state = calls[c].arg)
    BY <1>1, <1>10 DEF PutsJoin, Call, CallInv
  <2>2. \A t \in Steps : Len(record.attempts[t]) <= Len(record'.attempts[t])
    BY <1>1, <1>10 DEF Records, PutsJoin
  <2>3. CASE ~JoinAccepts(calls[c].at, calls[c].expiresAt)
    <3>1. Ends(c) /\ UNCHANGED join
      BY <1>10, <2>3 DEF PutsJoin
    <3>2. InboxTypeOK' /\ CarrierInv' /\ JoinMoves
      BY <1>1, <1>10, <3>1, JoinFacts DEF PutsJoin, InboxTypeOK, CarrierInv, ConsumedByCarrier
    <3>3. calls' \in [Callers -> CallRecords] /\ CallInv'
      BY <1>1, <1>10, <2>2, <3>1, <3>2, NoCallFacts, CallsAfter DEF Ends, PutsJoin
    <3> QED
      BY <1>10, <3>2, <3>3, RecordStays DEF PutsJoin
  <2>4. CASE JoinAccepts(calls[c].at, calls[c].expiresAt)
    <3> DEFINE new == [calls[c] EXCEPT !.stage = "put"]
    <3>1. PutJoin(calls[c].at, calls[c].expiresAt) /\ calls' = [calls EXCEPT ![c] = new]
      BY <1>1, <1>10, <2>4 DEF PutsJoin
    <3>2. JoinMoves /\ join'.state # "none"
      <4>1. calls[c].at \in Times /\ calls[c].expiresAt \in Deadlines \cup {Never}
        BY <2>1 DEF CallRecords
      <4> QED
        BY <1>1, <3>1, <4>1, JoinFacts
    <3>3. InboxTypeOK' /\ CarrierInv'
      BY <1>1, <1>10, <3>2
      DEF PutsJoin, InboxTypeOK, CarrierInv, ConsumedByCarrier, JoinMoves
    <3>4. /\ new \in CallRecords /\ new.stage = "put" /\ new.kind = calls[c].kind
          /\ new.arg = calls[c].arg /\ new.step = calls[c].step
          /\ new.attempt = calls[c].attempt /\ new.seen = calls[c].seen
      BY <2>1 DEF CallRecords
    <3> HIDE DEF new
    <3>5. Asked(new) /\ Drafts(new)
      BY <2>1, <3>4 DEF Asked, Drafts
    <3>6. /\ new.kind = "admit" => new.attempt <= Len(record'.attempts[new.step])
          /\ new.kind = "reconcile" => join'.state = new.arg
      BY <1>10, <2>1, <3>2, <3>4 DEF Asked, JoinMoves, PutsJoin
    <3>7. calls' \in [Callers -> CallRecords] /\ CallInv'
      BY <1>1, <1>10, <2>2, <3>1, <3>2, <3>4, <3>5, <3>6, CallsAfter DEF PutsJoin
    <3> QED
      BY <1>10, <3>2, <3>3, <3>7, RecordStays DEF PutsJoin
  <2> QED
    BY <2>3, <2>4
\* The record is put if it is still the one that was read.
<1>11. ASSUME NEW c \in Callers, Put(c) PROVE IInv'
  <2> DEFINE call == calls[c]
             expired == call.kind = "admit" /\ Draft(call).state[call.step] = "failed"
  <2>1. /\ call \in CallRecords /\ Asked(call) /\ Drafts(call)
        /\ (call.kind = "admit" => call.attempt <= Len(record.attempts[call.step]))
        /\ (call.kind = "reconcile" => join.state = call.arg)
        /\ (/\ call.kind = "receipt" /\ call.arg = "committed" /\ call.step \in Detached
            => join.state # "none")
    BY <1>1, <1>11 DEF Put, Call, CallInv
  <2>2. InboxTypeOK' /\ CarrierInv' /\ JoinMoves /\ UNCHANGED join
    BY <1>2, <1>11 DEF Put, inboxVars
  <2>3. CASE Current(c)
    <3>1. /\ record' = Draft(call) /\ Ends(c) /\ call.seen = record
          /\ handed' = IF call.kind = "admit" /\ ~expired
                       THEN handed \cup {<<call.step, call.attempt>>} ELSE handed
          /\ told' = IF call.kind = "receipt"
                     THEN told \cup {<<call.step, call.attempt, call.arg>>} ELSE told
      BY <1>11, <2>3 DEF Put, Current
    <3>2. /\ Good(record') /\ Keeps(record, record') /\ Follows(record', join)
          /\ call.kind = "admit" /\ ~expired => Proposed(record', call.step, call.attempt)
          /\ call.kind = "receipt" =>
               record'.attempts[call.step][call.attempt].receipt = call.arg
      BY <2>1, <3>1, DraftGood DEF IInv
    <3>3. call.step \in Steps /\ call.attempt \in Nat \ {0}
      BY <2>1 DEF CallRecords
    <3>4. Follows(record, join)'
      BY <2>2, <3>2 DEF Follows, Last
    <3>5. \A t \in Steps : Len(record.attempts[t]) <= Len(record'.attempts[t])
      BY <3>2 DEF Keeps, KeptIn
    <3>6. record' \in Records
      BY <3>2 DEF Good
    <3>7. calls' \in [Callers -> CallRecords] /\ CallInv'
      BY <1>1, <2>2, <3>1, <3>5, <3>6, NoCallFacts, CallsAfter DEF Ends
    <3>8. call.kind = "receipt" =>
            call.attempt <= Len(record'.attempts[call.step]) /\ call.arg \in Receipts
      <4>1. ASSUME call.kind = "receipt"
            PROVE  call.attempt <= Len(record.attempts[call.step])
        BY <2>1, <3>1, <4>1 DEF Drafts, Proposed
      <4>2. /\ Len(record.attempts[call.step]) <= Len(record'.attempts[call.step])
            /\ Len(record.attempts[call.step]) \in Nat
            /\ Len(record'.attempts[call.step]) \in Nat
        BY <1>1, <3>3, <3>5, <3>6 DEF Records
      <4>3. call.kind = "receipt" => call.arg \in Receipts
        BY <2>1 DEF Asked
      <4> HIDE DEF call
      <4> QED
        BY <3>3, <4>1, <4>2, <4>3
    <3>9. PICK r \in Receipts : call.kind = "receipt" => r = call.arg
      BY <3>8 DEF Receipts
    <3>10. /\ handed' \subseteq Effects
           /\ told' \subseteq {<<e[1], e[2], q>> : e \in Effects, q \in Receipts}
           /\ ToldInv' /\ PromisesKept'
      <4>1. \/ handed' = handed
            \/ /\ handed' = handed \cup {<<call.step, call.attempt>>}
               /\ Proposed(record', call.step, call.attempt)
        BY <3>1, <3>2
      <4>2. \/ told' = told
            \/ /\ told' = told \cup {<<call.step, call.attempt, r>>}
               /\ call.attempt <= Len(record'.attempts[call.step])
               /\ record'.attempts[call.step][call.attempt].receipt = r
        BY <3>1, <3>2, <3>8, <3>9
      <4> QED
        BY <3>2, <3>3, <4>1, <4>2, PromiseMade
    <3>11. TypeOK'
      <4>1. \A t \in Steps : Len(record'.attempts[t]) <= MaxRetries + 1
        BY <3>2, AttemptsBounded
      <4> QED
        BY <2>2, <3>6, <3>10, <4>1 DEF TypeOK
    <3> QED
      BY <2>2, <3>2, <3>4, <3>7, <3>10, <3>11 DEF IInv
  <2>4. CASE ~Current(c)
    <3>1. UNCHANGED <<record, handed, told>>
      BY <1>11, <2>4 DEF Put
    <3>2. \A t \in Steps : Len(record.attempts[t]) <= Len(record'.attempts[t])
      BY <1>1, <3>1 DEF Records
    <3>3. CASE Ends(c)
      <4>1. calls' \in [Callers -> CallRecords] /\ CallInv'
        BY <1>1, <2>2, <3>1, <3>2, <3>3, NoCallFacts, CallsAfter DEF Ends
      <4> QED
        BY <2>2, <3>1, <4>1, RecordStays
    <3>4. CASE ~Ends(c)
      <4> DEFINE new == [call EXCEPT !.stage = "read", !.seen = <<>>, !.tries = call.tries + 1]
      <4>1. calls' = [calls EXCEPT ![c] = new]
        <5>1. calls' = [calls EXCEPT ![c] = [calls[c] EXCEPT
                          !.stage = "read", !.seen = <<>>, !.tries = calls[c].tries + 1]]
          BY <1>1, <1>11, <2>1, <2>4, <3>4 DEF Put, CallRecords
        <5> QED
          BY <5>1
      <4>2. /\ new \in CallRecords /\ new.stage = "read" /\ new.kind = call.kind
            /\ new.arg = call.arg /\ new.step = call.step /\ new.attempt = call.attempt
        <5>1. call.tries + 1 \in Nat
          BY <2>1 DEF CallRecords
        <5> HIDE DEF call
        <5> QED
          BY <2>1, <5>1 DEF CallRecords
      <4> HIDE DEF new
      <4>3. /\ Asked(new)
            /\ new.kind = "admit" => new.attempt <= Len(record'.attempts[new.step])
            /\ new.kind = "reconcile" => join'.state = new.arg
        BY <2>1, <2>2, <3>1, <4>2 DEF Asked
      <4>4. calls' \in [Callers -> CallRecords] /\ CallInv'
        BY <1>1, <2>2, <3>1, <3>2, <4>1, <4>2, <4>3, CallsAfter
      <4> QED
        BY <2>2, <3>1, <4>4, RecordStays
    <3> QED
      BY <3>3, <3>4
  <2> QED
    BY <2>3, <2>4
<1>12. CASE UNCHANGED vars
  <2>1. InboxTypeOK' /\ CarrierInv' /\ JoinMoves
    BY <1>2, <1>12 DEF vars
  <2>2. calls' \in [Callers -> CallRecords] /\ CallInv'
    BY <1>12, <2>1, CallsStay DEF vars, workflowVars
  <2> QED
    BY <1>12, <2>1, <2>2, RecordStays DEF vars, workflowVars
<1> QED
  BY <1>3, <1>4, <1>5, <1>6, <1>7, <1>8, <1>9, <1>10, <1>11, <1>12 DEF Next

THEOREM Invariance == Spec => []IInv
  BY InitIInv, StepIInv, PTL DEF Spec

-----------------------------------------------------------------------------
(* The theorems                                                            *)

\* Every variable has its type, and no step is tried more often than its
\* retries allow.
THEOREM TypeCorrect == Spec => []TypeOK
<1>1. IInv => TypeOK
  BY DEF IInv
<1> QED
  BY <1>1, Invariance, PTL

\* A proposal that was returned and a receipt that was acknowledged stay in
\* the record, whoever else changes it.
THEOREM PromisesHold == Spec => []PromisesKept
<1>1. IInv => PromisesKept
  BY DEF IInv
<1> QED
  BY <1>1, Invariance, PTL

\* A step waits only for a join that exists, and goes on as it was decided.
THEOREM StepsFollowJoins == Spec => []StepFollowsJoin
<1>1. IInv => StepFollowsJoin
  BY DEF IInv, Follows, StepFollowsJoin
<1> QED
  BY <1>1, Invariance, PTL

\* A result is consumed only by a follow-up whose durable message carries it.
THEOREM ConsumptionCarried == Spec => []ConsumedByCarrier
<1>1. IInv => ConsumedByCarrier
  BY DEF IInv, CarrierInv
<1> QED
  BY <1>1, Invariance, PTL

=============================================================================
