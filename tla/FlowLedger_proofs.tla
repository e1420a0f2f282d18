------------------------- MODULE FlowLedger_proofs -------------------------
(***************************************************************************)
(* Theorems of FlowLedger, for any set of roles, any hop limits and any    *)
(* number of faults.                                                       *)
(***************************************************************************)
EXTENDS FlowLedger, TLAPS

(* The inductive invariant, in layers.                                     *)

Kinds == {"none", "reply", "failure"}
ResultKinds == {"none", "completed", "failed"}
OutcomeRecords == [kind : Kinds, mentions : SUBSET Roles, stage : Stages,
                   todo : SUBSET Requests, inline : BOOLEAN]
GroupRecords ==
  [status : GroupStatuses, expected : SUBSET Roles, failed : SUBSET Roles,
   cancelled : SUBSET Roles, results : [Roles -> ResultKinds],
   retries : [Roles -> 0..1]]

\* What an outcome has at each stage of its materialisation.
OutcomeShape(e) ==
  /\ outcome[e].kind = "none" <=> outcome[e].stage \in {"none", "forget"}
  /\ outcome[e].kind = "none" => outcome[e].mentions = {}
  /\ outcome[e].stage = "planFailure" => outcome[e].kind = "failure"
  /\ outcome[e].stage \in {"shard", "decide", "planMerge"} => outcome[e].kind = "reply"
  /\ outcome[e].stage # "dispatch" => outcome[e].todo = {}

\* The edge of an outcome: cancelled only before its answer is materialised, and
\* planned for only as a shard.
EdgeShape(e) ==
  /\ outcome[e].stage = "none" => edges[e].state \in {"created", "cancelled"}
  /\ outcome[e].stage = "forget" => edges[e].state = "cancelled"
  /\ outcome[e].stage \notin {"none", "forget", "respond"} =>
       edges[e].state # "cancelled"
  /\ outcome[e].stage \in {"planMerge", "planFailure"} => edges[e].group # NoEdge
  /\ edges[e].group # NoEdge => groups[edges[e].group].status # "none"

\* Outcomes and edges fit together; there is no outcome without an edge.
Shape ==
  /\ \A e \in Ids : OutcomeShape(e)
  /\ \A e \in Ids : e \notin Recorded => outcome[e].stage = "none"
  /\ \A e \in Recorded : EdgeShape(e)

\* An edge is cancelled when its handoff is given up.
CancelledIsGivenUp == \A k \in Recorded :
  edges[k].state = "cancelled" => fate[k] = "givenUp"

\* A group without a failure is merged once, and says so.
MergedOnce == \A g \in Ids :
  \/ \E k \in Recorded : edges[k].group = g /\ outcome[k].kind = "failure"
  \/ merges[g] = 0
  \/ merges[g] = 1 /\ groups[g].status = "merged"

\* Stages after the result of a shard was recorded.
Told == {"decide", "planMerge", "recover", "dispatch", "done"}

\* A group knows the result of a shard that was recorded, and the failed ones.
Results ==
  /\ \A k \in Recorded : edges[k].group # NoEdge /\ outcome[k].stage \in Told =>
       groups[edges[k].group].results[edges[k].to] # "none"
  /\ \A g \in Ids : \A r \in Roles :
       groups[g].results[r] = "failed" => r \in groups[g].failed

\* Stages before the edge of an outcome is closed.
Open == {"none", "respond", "mark", "close"}

\* Without faults, an edge is closed exactly after these stages.
States == \A k \in Recorded :
  /\ outcome[k].stage # "forget"
  /\ outcome[k].stage \in Open => edges[k].state \in {"created", "responded"}
  /\ outcome[k].stage \notin Open => edges[k].state = "closed"

\* Before an outcome dispatches, nothing answers its message.
Fresh == \A e \in Ids : outcome[e].stage \notin {"dispatch", "done"} =>
  /\ \A k \in Recorded : edges[k].source # e /\ edges[k].group # e
  /\ groups[e].status = "none"

\* A handoff to dispatch is a shard of a fan-out that was not recorded yet, or
\* a retry.
FanOut(e, q) ==
  /\ q.group = e /\ q.source = e
  /\ q.to \in outcome[e].mentions
  /\ \A k \in Recorded : edges[k].group = e => edges[k].to # q.to
Retry(e, q) ==
  /\ e \in Recorded
  /\ q.group = edges[e].group /\ q.source = NoEdge /\ q.to = edges[e].to

\* What an outcome has to dispatch was not dispatched before.
TodoFits(e, todo) ==
  /\ \A q \in todo :
       /\ q.source \in {NoEdge, e}
       /\ q.source = e => \A k \in Recorded : edges[k].source = e => edges[k].to # q.to
       /\ q.group # NoEdge => FanOut(e, q) \/ Retry(e, q)
  /\ \A p, q \in todo : p.to = q.to => p = q
Todo == \A e \in Ids : TodoFits(e, outcome[e].todo)

\* A group expects the roles that the reply mentions.
Expected == \A g \in Ids :
  groups[g].status # "none" => groups[g].expected = outcome[g].mentions

\* A role that is active has an edge that is not marked yet.
Active == \A x \in flow.active : \E k \in Recorded :
  edges[k].to = x /\ outcome[k].stage \in {"none", "respond", "mark"}

\* A group that was merged in time has all its shards, and their results.
Settled == \A g \in Ids : groups[g].status = "merged" /\ g \notin early =>
  /\ \A k \in Recorded : edges[k].group = g => outcome[k].stage \in Told
  /\ \A e \in Ids : \A q \in outcome[e].todo : q.group # g

\* The materialisation of k, or the role it waits for, will move the flow on.
MovesOn(k) ==
  \/ outcome[k].stage \in {"none", "respond", "mark", "close", "shard", "planFailure",
                           "recover"}
  \/ outcome[k].stage = "dispatch" /\ outcome[k].todo # {}
  \/ /\ outcome[k].stage \in {"decide", "planMerge"}
     /\ edges[k].group # NoEdge => groups[edges[k].group].status # "merged"

\* A flow that is not over has somebody who moves it on, as long as merges
\* wait for their shards.
Goes == early = {} =>
  \/ flow.status \in {"completed", "aborted"}
  \/ \E k \in Recorded : MovesOn(k)

\* All of it holds as long as there was no fault.
Calm == States /\ Fresh /\ Todo /\ Expected /\ Active /\ Settled /\ Goes
Undisturbed == faults = 0 => Calm

\* The inductive invariant.
IInv ==
  /\ TypeOK /\ Shape /\ CancelledIsGivenUp /\ NoDoubleDispatch
  /\ MergedOnce /\ Results /\ Undisturbed

-----------------------------------------------------------------------------
(* Sequences                                                               *)

\* A sequence and its elements.
LEMMA SeqIs ==
  ASSUME NEW S, NEW s \in Seq(S)
  PROVE  /\ Len(s) \in Nat /\ DOMAIN s = 1..Len(s) /\ s \in [1..Len(s) -> S]
         /\ \A i \in 1..Len(s) : s[i] \in S
OBVIOUS

\* An element put at the end.
LEMMA SeqAppend ==
  ASSUME NEW S, NEW s \in Seq(S), NEW x \in S
  PROVE  /\ Append(s, x) \in Seq(S)
         /\ Len(Append(s, x)) = Len(s) + 1
         /\ Append(s, x)[Len(s) + 1] = x
         /\ \A i \in 1..Len(s) : Append(s, x)[i] = s[i]
OBVIOUS

\* A function on an initial segment is a sequence.
LEMMA SeqOf ==
  ASSUME NEW S, NEW n \in Nat, NEW f \in [1..n -> S]
  PROVE  f \in Seq(S) /\ Len(f) = n /\ DOMAIN f = 1..n
OBVIOUS

\* An element put in the place of another.
LEMMA SeqPut ==
  ASSUME NEW S, NEW s \in Seq(S), NEW k \in 1..Len(s), NEW x \in S
  PROVE  /\ [s EXCEPT ![k] = x] \in Seq(S)
         /\ Len([s EXCEPT ![k] = x]) = Len(s)
         /\ \A i \in 1..Len(s) : [s EXCEPT ![k] = x][i] = IF i = k THEN x ELSE s[i]
<1>1. Len(s) \in Nat /\ DOMAIN s = 1..Len(s) /\ s \in [1..Len(s) -> S]
  OBVIOUS
<1>2. [s EXCEPT ![k] = x] \in [1..Len(s) -> S]
  BY <1>1
<1> QED BY <1>1, <1>2, SeqOf

-----------------------------------------------------------------------------
(* What the parts of an action do                                          *)

\* The outcome of e goes to a stage, with handoffs to dispatch.
Moves(e, stage, todo) ==
  /\ \A k \in Ids : k # e => outcome'[k] = outcome[k]
  /\ outcome'[e].kind = outcome[e].kind
  /\ outcome'[e].mentions = outcome[e].mentions
  /\ outcome'[e].stage = stage
  /\ outcome'[e].todo = todo

\* No edge is recorded, and only that of e changes its state.
EdgeBecomes(e, state) ==
  /\ Recorded' = Recorded
  /\ \A k \in Recorded : /\ edges'[k].to = edges[k].to
                         /\ edges'[k].source = edges[k].source
                         /\ edges'[k].group = edges[k].group
                         /\ k # e => edges'[k].state = edges[k].state
  /\ edges'[e].state = state

\* One stage later.
LEMMA ToMoves ==
  ASSUME outcome \in [Ids -> OutcomeRecords], NEW e \in Ids, NEW stage \in Stages,
         To(e, stage)
  PROVE  Moves(e, stage, outcome[e].todo) /\ outcome' \in [Ids -> OutcomeRecords]
<1> DEFINE r == [outcome[e] EXCEPT !.stage = stage]
<1>1. outcome' = [outcome EXCEPT ![e] = r]
  BY DEF To
<1>2. outcome[e] \in OutcomeRecords
  OBVIOUS
<1>3. r \in OutcomeRecords
  BY <1>2 DEF OutcomeRecords
<1>4. /\ r.kind = outcome[e].kind /\ r.mentions = outcome[e].mentions
      /\ r.stage = stage /\ r.todo = outcome[e].todo
  BY <1>2 DEF OutcomeRecords
<1> HIDE DEF r
<1> QED BY <1>1, <1>3, <1>4 DEF Moves

\* One stage later, with handoffs to dispatch.
LEMMA ToDispatch ==
  ASSUME outcome \in [Ids -> OutcomeRecords], NEW e \in Ids, NEW stage \in Stages,
         NEW todo \in SUBSET Requests,
         outcome' = [outcome EXCEPT ![e].stage = stage, ![e].todo = todo]
  PROVE  Moves(e, stage, todo) /\ outcome' \in [Ids -> OutcomeRecords]
<1> DEFINE r == [outcome[e] EXCEPT !.stage = stage, !.todo = todo]
<1>1. outcome' = [outcome EXCEPT ![e] = r]
  OBVIOUS
<1>2. outcome[e] \in OutcomeRecords
  OBVIOUS
<1>3. r \in OutcomeRecords
  BY <1>2 DEF OutcomeRecords
<1>4. /\ r.kind = outcome[e].kind /\ r.mentions = outcome[e].mentions
      /\ r.stage = stage /\ r.todo = todo
  BY <1>2 DEF OutcomeRecords
<1> HIDE DEF r
<1> QED BY <1>1, <1>3, <1>4 DEF Moves

\* One handoff less to dispatch.
LEMMA TodoMoves ==
  ASSUME outcome \in [Ids -> OutcomeRecords], NEW e \in Ids, NEW q,
         outcome' = [outcome EXCEPT ![e].todo = @ \ {q}]
  PROVE  /\ Moves(e, outcome[e].stage, outcome[e].todo \ {q})
         /\ outcome' \in [Ids -> OutcomeRecords]
<1> DEFINE todo == outcome[e].todo \ {q}
           r == [outcome[e] EXCEPT !.todo = todo]
<1>1. outcome' = [outcome EXCEPT ![e] = r]
  OBVIOUS
<1>2. outcome[e] \in OutcomeRecords
  OBVIOUS
<1>3. todo \in SUBSET Requests
  BY <1>2 DEF OutcomeRecords
<1> HIDE DEF todo
<1>4. r \in OutcomeRecords
  BY <1>2, <1>3 DEF OutcomeRecords
<1>5. /\ r.kind = outcome[e].kind /\ r.mentions = outcome[e].mentions
      /\ r.stage = outcome[e].stage /\ r.todo = todo
  BY <1>2, <1>3 DEF OutcomeRecords
<1> HIDE DEF r
<1>6. Moves(e, outcome[e].stage, todo) /\ outcome' \in [Ids -> OutcomeRecords]
  BY <1>1, <1>4, <1>5 DEF Moves
<1> QED BY <1>6 DEF todo

\* An edge changes its state.
LEMMA EdgeSet ==
  ASSUME edges \in Seq(EdgeRecords), NEW e \in Recorded, NEW state \in EdgeStates,
         EdgeTo(e, state)
  PROVE  /\ edges' \in Seq(EdgeRecords) /\ Len(edges') = Len(edges)
         /\ EdgeBecomes(e, state)
<1> DEFINE r == [edges[e] EXCEPT !.state = state]
<1>1. Len(edges) \in Nat /\ edges[e] \in EdgeRecords
  BY SeqIs DEF Recorded, Hops
<1>2. edges' = [edges EXCEPT ![e] = r]
  BY DEF EdgeTo
<1>3. r \in EdgeRecords
  BY <1>1 DEF EdgeRecords
<1>4. /\ r.to = edges[e].to /\ r.source = edges[e].source
      /\ r.group = edges[e].group /\ r.state = state
  BY <1>1 DEF EdgeRecords
<1> HIDE DEF r
<1>5. /\ edges' \in Seq(EdgeRecords) /\ Len(edges') = Len(edges)
      /\ \A i \in 1..Len(edges) : edges'[i] = IF i = e THEN r ELSE edges[i]
  BY <1>2, <1>3, SeqPut DEF Recorded, Hops
<1> QED BY <1>4, <1>5 DEF EdgeBecomes, Recorded, Hops

\* Edges that stay as they are.
LEMMA EdgeSame ==
  ASSUME NEW e, edges' = edges
  PROVE  EdgeBecomes(e, edges[e].state)
BY DEF EdgeBecomes, Recorded, Hops

\* The types, with the sets of records named.
LEMMA Types ==
  ASSUME TypeOK
  PROVE  /\ settings \in Settings
         /\ flow \in [status : FlowStatuses, active : SUBSET Roles,
                      completed : SUBSET Roles, failed : SUBSET Roles]
         /\ edges \in Seq(EdgeRecords) /\ Len(edges) \in 1..MaxHops
         /\ groups \in [Ids -> GroupRecords]
         /\ outcome \in [Ids -> OutcomeRecords]
         /\ fate \in [Ids -> Fates]
         /\ faults \in 0..settings.faults
         /\ merges \in [Ids -> Nat] /\ early \subseteq Ids
BY DEF TypeOK, GroupRecords, OutcomeRecords, Kinds, ResultKinds

\* What the constants are.
LEMMA ConstantTypes ==
  /\ MaxHops \in Nat /\ MaxHops >= 1
  /\ Lead \in Roles
  /\ \A s \in Settings : s.hops \in 1..MaxHops /\ s.faults \in Nat
  /\ Ids \subseteq Nat /\ 0 \notin Ids
  /\ \A m \in MentionSets : m \subseteq Roles
BY FlowAssumption DEF Ids

\* Edges have names, and fields.
LEMMA EdgeTypes ==
  ASSUME TypeOK, NEW k \in Recorded
  PROVE  /\ k \in Ids /\ k \in Nat /\ k # NoEdge /\ edges[k] \in EdgeRecords
         /\ edges[k].to \in Roles /\ edges[k].source \in 0..MaxHops
         /\ edges[k].state \in EdgeStates
         /\ edges[k].group \in 0..MaxHops
         /\ edges[k].group # NoEdge => edges[k].group \in Ids
<1>1. k \in 1..Len(edges) /\ Len(edges) \in 1..MaxHops /\ MaxHops \in Nat
  BY Types, ConstantTypes DEF Recorded, Hops
<1>2. edges[k] \in EdgeRecords
  BY <1>1, Types, SeqIs
<1>3. k \in Ids /\ k \in Nat /\ k # NoEdge
  BY <1>1 DEF Ids, NoEdge
<1>4. /\ edges[k].to \in Roles /\ edges[k].source \in 0..MaxHops
      /\ edges[k].state \in EdgeStates /\ edges[k].group \in 0..MaxHops
  BY <1>2 DEF EdgeRecords
<1>5. edges[k].group # NoEdge => edges[k].group \in Ids
  BY <1>4, <1>1 DEF Ids, NoEdge
<1> QED BY <1>2, <1>3, <1>4, <1>5

\* The fields of an outcome.
LEMMA OutcomeTypes ==
  ASSUME TypeOK, NEW e \in Ids
  PROVE  /\ outcome[e] \in OutcomeRecords
         /\ outcome[e].kind \in Kinds /\ outcome[e].mentions \in SUBSET Roles
         /\ outcome[e].stage \in Stages /\ outcome[e].todo \in SUBSET Requests
<1>1. outcome[e] \in OutcomeRecords
  BY Types
<1> QED BY <1>1 DEF OutcomeRecords

\* The fields of a group.
LEMMA GroupTypes ==
  ASSUME TypeOK, NEW g \in Ids
  PROVE  /\ groups[g] \in GroupRecords
         /\ groups[g].status \in GroupStatuses
         /\ groups[g].results \in [Roles -> ResultKinds]
         /\ groups[g].retries \in [Roles -> 0..1]
<1>1. groups[g] \in GroupRecords
  BY Types
<1> QED BY <1>1 DEF GroupRecords

\* A handoff to dispatch.
LEMMA RequestTypes ==
  ASSUME NEW q \in Requests
  PROVE  /\ q.to \in Roles /\ q.source \in 0..MaxHops /\ q.group \in 0..MaxHops
         /\ q.group # NoEdge => q.group \in Ids
<1>1. q.to \in Roles /\ q.source \in 0..MaxHops /\ q.group \in 0..MaxHops
  BY DEF Requests
<1> QED BY <1>1, ConstantTypes DEF Ids, NoEdge

\* No handoff, and one.
LEMMA NewRequest ==
  /\ \A to \in Roles, s, g \in 0..MaxHops :
       [to |-> to, source |-> s, group |-> g] \in Requests
  /\ NoEdge \in 0..MaxHops
  /\ \A e \in Ids : e \in 0..MaxHops
BY ConstantTypes DEF Requests, NoEdge, Ids

\* A group that is refreshed knows one result more, and whose failed.
LEMMA RefreshedIs ==
  ASSUME TypeOK, NEW g \in Ids, NEW r \in Roles, NEW result \in {"completed", "failed"}
  PROVE  /\ Refreshed(g, r, result) \in GroupRecords
         /\ Refreshed(g, r, result).status = groups[g].status
         /\ Refreshed(g, r, result).expected = groups[g].expected
         /\ Refreshed(g, r, result).retries = groups[g].retries
         /\ \A x \in Roles : Refreshed(g, r, result).results[x] =
                               IF x = r THEN result ELSE groups[g].results[x]
         /\ \A x \in Roles : Refreshed(g, r, result).results[x] = "failed" =>
                               x \in Refreshed(g, r, result).failed
<1> DEFINE results == [groups[g].results EXCEPT ![r] = result]
           failed == (groups[g].failed \ {r}) \cup {x \in Roles : results[x] = "failed"}
                       \cup (flow.failed \cap groups[g].expected)
           cancelled == (groups[g].cancelled \ {r}) \cup {edges[k].to : k \in
                          {d \in Shards(g) : edges[d].state = "cancelled"}}
           group == groups[g]
           new == [group EXCEPT !.results = results, !.failed = failed, !.cancelled = cancelled]
<1>1. Refreshed(g, r, result) = new
  BY DEF Refreshed
<1>2. groups[g] \in GroupRecords /\ groups[g].results \in [Roles -> ResultKinds]
      /\ groups[g].retries \in [Roles -> 0..1]
  BY GroupTypes
<1>3. results \in [Roles -> ResultKinds]
      /\ \A x \in Roles : results[x] = IF x = r THEN result ELSE groups[g].results[x]
  BY <1>2 DEF ResultKinds
<1> HIDE DEF results
<1>4. flow.failed \in SUBSET Roles /\ groups[g].failed \in SUBSET Roles
      /\ groups[g].expected \in SUBSET Roles /\ groups[g].cancelled \in SUBSET Roles
  BY <1>2, Types DEF GroupRecords
<1>5. failed \in SUBSET Roles /\ \A x \in Roles : results[x] = "failed" => x \in failed
  BY <1>4
<1>6. \A k \in Recorded : edges[k].to \in Roles
  BY EdgeTypes
<1>7. cancelled \in SUBSET Roles
  BY <1>4, <1>6 DEF Shards
<1> HIDE DEF failed, cancelled
<1>8. new \in GroupRecords
  BY <1>2, <1>3, <1>5, <1>7 DEF GroupRecords
<1>9. /\ new.status = groups[g].status /\ new.expected = groups[g].expected
      /\ new.retries = groups[g].retries /\ new.results = results /\ new.failed = failed
  BY <1>2 DEF GroupRecords
<1> HIDE DEF new, group
<1> QED BY <1>1, <1>3, <1>5, <1>8, <1>9

\* A group from which a handoff is dispatched is not new afterwards, and knows
\* what it knew.
LEMMA GroupWithIs ==
  ASSUME TypeOK, NEW q \in Requests, q.group \in Ids, NEW expected \in SUBSET Roles
  PROVE  /\ GroupWith(q, expected) \in GroupRecords
         /\ GroupWith(q, expected).status # "none"
         /\ GroupWith(q, expected).status = "merged" <=> groups[q.group].status = "merged"
         /\ groups[q.group].status # "none" =>
              /\ GroupWith(q, expected).expected = groups[q.group].expected
              /\ GroupWith(q, expected).results = groups[q.group].results
              /\ GroupWith(q, expected).failed = groups[q.group].failed
         /\ groups[q.group].status = "none" =>
              /\ GroupWith(q, expected).expected = expected
              /\ GroupWith(q, expected).results = [r \in Roles |-> "none"]
<1> DEFINE group == groups[q.group]
           status == IF group.status = "waiting_retry" THEN "running" ELSE group.status
           first == [NoGroup EXCEPT !.status = "running", !.expected = expected]
           next == [group EXCEPT !.status = status]
<1>1. group \in GroupRecords /\ group.status \in GroupStatuses
  BY GroupTypes
<1>2. GroupWith(q, expected) = IF group.status = "none" THEN first ELSE next
  BY DEF GroupWith
<1>3. NoGroup \in GroupRecords /\ first \in GroupRecords /\ first.status = "running"
      /\ first.expected = expected /\ first.results = [r \in Roles |-> "none"]
  <2>1. NoGroup \in GroupRecords
    BY DEF NoGroup, GroupRecords, GroupStatuses, ResultKinds
  <2>2. NoGroup.results = [r \in Roles |-> "none"]
    BY DEF NoGroup
  <2>3. "running" \in GroupStatuses
    BY DEF GroupStatuses
  <2>4. first \in GroupRecords
    BY <2>1, <2>3 DEF GroupRecords
  <2>5. first.status = "running" /\ first.expected = expected /\ first.results = NoGroup.results
    BY <2>1 DEF GroupRecords
  <2> QED BY <2>1, <2>2, <2>4, <2>5
<1>4. status \in GroupStatuses /\ (status = "none" <=> group.status = "none")
      /\ (status = "merged" <=> group.status = "merged")
  BY <1>1 DEF GroupStatuses
<1> HIDE DEF status, first
<1>5. next \in GroupRecords /\ next.status = status /\ next.expected = group.expected
      /\ next.results = group.results /\ next.failed = group.failed
  BY <1>1, <1>4 DEF GroupRecords
<1> HIDE DEF next
<1> QED BY <1>1, <1>2, <1>3, <1>4, <1>5

-----------------------------------------------------------------------------
(* What each action does                                                   *)

\* An edge is recorded.
EdgeAdded(n, q) ==
  /\ n \notin Recorded
  /\ Recorded' = Recorded \cup {n}
  /\ \A k \in Recorded : edges'[k] = edges[k]
  /\ edges'[n].to = q.to /\ edges'[n].source = q.source
  /\ edges'[n].group = q.group /\ edges'[n].state = "created"

\* The shapes of one outcome and its edge.
LEMMA Shapes ==
  ASSUME Shape
  PROVE  /\ \A e \in Ids : OutcomeShape(e)
         /\ \A e \in Ids : e \notin Recorded => outcome[e].stage = "none"
         /\ \A e \in Recorded : EdgeShape(e)
BY DEF Shape

\* A role answers.
LEMMA AnswerDoes ==
  ASSUME TypeOK, NEW e \in Ids, NEW kind \in {"reply", "failure"},
         NEW mentions \in SUBSET Roles, Answer(e, kind, mentions)
  PROVE  /\ e \in Recorded /\ outcome[e].stage = "none"
         /\ outcome' \in [Ids -> OutcomeRecords]
         /\ \A k \in Ids : k # e => outcome'[k] = outcome[k]
         /\ outcome'[e].kind = kind /\ outcome'[e].mentions = mentions
         /\ outcome'[e].stage = "respond" /\ outcome'[e].todo = {}
         /\ EdgeBecomes(e, edges[e].state)
<1> DEFINE yes == TRUE
           r == [kind |-> kind, mentions |-> mentions, stage |-> "respond",
                 todo |-> {}, inline |-> yes]
<1>1. outcome' = [outcome EXCEPT ![e] = r]
  BY DEF Answer
<1>2. yes \in BOOLEAN
  OBVIOUS
<1> HIDE DEF yes
<1>3. r \in OutcomeRecords
  BY <1>2 DEF OutcomeRecords, Kinds, Stages
<1>4. r.kind = kind /\ r.mentions = mentions /\ r.stage = "respond" /\ r.todo = {}
  OBVIOUS
<1> HIDE DEF r
<1>5. outcome \in [Ids -> OutcomeRecords]
  BY Types
<1>6. e \in Recorded /\ outcome[e].stage = "none"
      /\ EdgeBecomes(e, edges[e].state)
  BY EdgeSame DEF Answer, At
<1> QED BY <1>1, <1>3, <1>4, <1>5, <1>6

\* Four stages that change nothing else but the state of the edge, or nothing.
LEMMA RespondDoes ==
  ASSUME TypeOK, NEW e \in Ids, Respond(e)
  PROVE  /\ e \in Recorded /\ outcome[e].stage = "respond"
         /\ outcome' \in [Ids -> OutcomeRecords] /\ Moves(e, "mark", outcome[e].todo)
         /\ edges' \in Seq(EdgeRecords) /\ Len(edges') = Len(edges)
         /\ EdgeBecomes(e, "responded")
<1>1. e \in Recorded /\ outcome[e].stage = "respond"
      /\ To(e, "mark") /\ EdgeTo(e, "responded")
  BY DEF Respond, At
<1>2. "mark" \in Stages /\ "responded" \in EdgeStates
  BY DEF Stages, EdgeStates
<1>3. outcome \in [Ids -> OutcomeRecords] /\ edges \in Seq(EdgeRecords)
  BY Types
<1> QED BY <1>1, <1>2, <1>3, ToMoves, EdgeSet

\* The role is marked.
LEMMA MarkDoes ==
  ASSUME TypeOK, NEW e \in Ids, Mark(e)
  PROVE  /\ e \in Recorded /\ outcome[e].stage = "mark"
         /\ outcome' \in [Ids -> OutcomeRecords] /\ Moves(e, "close", outcome[e].todo)
         /\ EdgeBecomes(e, edges[e].state)
         /\ flow' \in [status : FlowStatuses, active : SUBSET Roles,
                       completed : SUBSET Roles, failed : SUBSET Roles]
         /\ flow'.active = flow.active \ {edges[e].to}
         /\ flow'.status \in {flow.status, "failed"}
<1>1. e \in Recorded /\ outcome[e].stage = "mark" /\ To(e, "close") /\ edges' = edges
  BY DEF Mark, At
<1>2. "close" \in Stages /\ "failed" \in FlowStatuses
  BY DEF Stages, FlowStatuses
<1>3. outcome \in [Ids -> OutcomeRecords]
  BY Types
<1>4. edges[e].to \in Roles
  BY <1>1, EdgeTypes
<1>5. flow \in [status : FlowStatuses, active : SUBSET Roles,
                completed : SUBSET Roles, failed : SUBSET Roles]
  BY Types
<1> DEFINE to == edges[e].to
           completed == [flow EXCEPT !.completed = @ \cup {to}, !.active = @ \ {to}]
           failed == [flow EXCEPT !.failed = @ \cup {to}, !.active = @ \ {to},
                                  !.status = "failed"]
<1>6. flow' = completed \/ flow' = failed
  BY DEF Mark
<1>7. /\ completed \in [status : FlowStatuses, active : SUBSET Roles,
                        completed : SUBSET Roles, failed : SUBSET Roles]
      /\ completed.active = flow.active \ {to} /\ completed.status = flow.status
  BY <1>4, <1>5
<1>8. /\ failed \in [status : FlowStatuses, active : SUBSET Roles,
                     completed : SUBSET Roles, failed : SUBSET Roles]
      /\ failed.active = flow.active \ {to} /\ failed.status = "failed"
  BY <1>2, <1>4, <1>5
<1> HIDE DEF completed, failed
<1>9. Moves(e, "close", outcome[e].todo) /\ outcome' \in [Ids -> OutcomeRecords]
  BY <1>1, <1>2, <1>3, ToMoves
<1> QED BY <1>1, <1>6, <1>7, <1>8, <1>9, EdgeSame

\* The edge is closed.
LEMMA CloseDoes ==
  ASSUME TypeOK, NEW e \in Ids, Close(e)
  PROVE  /\ e \in Recorded /\ outcome[e].stage = "close"
         /\ outcome' \in [Ids -> OutcomeRecords]
         /\ edges' \in Seq(EdgeRecords) /\ Len(edges') = Len(edges)
         /\ EdgeBecomes(e, "closed")
         /\ Moves(e, IF outcome[e].kind = "reply" THEN "shard"
                     ELSE IF edges[e].group # NoEdge THEN "planFailure" ELSE "recover",
                  outcome[e].todo)
<1> DEFINE stage == IF outcome[e].kind = "reply" THEN "shard"
                    ELSE IF edges[e].group # NoEdge THEN "planFailure" ELSE "recover"
<1>1. e \in Recorded /\ outcome[e].stage = "close" /\ EdgeTo(e, "closed") /\ To(e, stage)
  BY DEF Close, At
<1>2. stage \in Stages /\ "closed" \in EdgeStates
  BY DEF Stages, EdgeStates
<1>3. outcome \in [Ids -> OutcomeRecords] /\ edges \in Seq(EdgeRecords)
  BY Types
<1> HIDE DEF stage
<1>4. Moves(e, stage, outcome[e].todo) /\ outcome' \in [Ids -> OutcomeRecords]
  BY <1>1, <1>2, <1>3, ToMoves
<1>5. edges' \in Seq(EdgeRecords) /\ Len(edges') = Len(edges) /\ EdgeBecomes(e, "closed")
  BY <1>1, <1>2, <1>3, EdgeSet
<1> QED BY <1>1, <1>4, <1>5 DEF stage

\* The group of e becomes another, and the others stay.
GroupBecomes(g, group) ==
  /\ groups'[g] = group
  /\ \A h \in Ids : h # g => groups'[h] = groups[h]

\* The result of a shard reaches its group.
LEMMA RecordShardDoes ==
  ASSUME TypeOK, NEW e \in Ids, RecordShard(e)
  PROVE  /\ e \in Recorded /\ outcome[e].stage = "shard"
         /\ outcome' \in [Ids -> OutcomeRecords] /\ Moves(e, "decide", outcome[e].todo)
         /\ EdgeBecomes(e, edges[e].state)
         /\ groups' \in [Ids -> GroupRecords]
         /\ edges[e].group = NoEdge => groups' = groups
         /\ edges[e].group # NoEdge =>
              GroupBecomes(edges[e].group, Refreshed(edges[e].group, edges[e].to, "completed"))
<1> DEFINE new == Refreshed(edges[e].group, edges[e].to, "completed")
           g == edges[e].group
<1>1. e \in Recorded /\ outcome[e].stage = "shard" /\ To(e, "decide") /\ edges' = edges
  BY DEF RecordShard, At
<1>2. "decide" \in Stages
  BY DEF Stages
<1>3. outcome \in [Ids -> OutcomeRecords] /\ groups \in [Ids -> GroupRecords]
  BY Types
<1>4. edges[e].to \in Roles /\ (g # NoEdge => g \in Ids)
  BY <1>1, EdgeTypes
<1>5. g # NoEdge => new \in GroupRecords
  BY <1>4, RefreshedIs
<1>6. groups' = IF g = NoEdge THEN groups ELSE [groups EXCEPT ![g] = new]
  BY DEF RecordShard
<1>7. Moves(e, "decide", outcome[e].todo) /\ outcome' \in [Ids -> OutcomeRecords]
  BY <1>1, <1>2, <1>3, ToMoves
<1>8. /\ groups' \in [Ids -> GroupRecords]
      /\ g = NoEdge => groups' = groups
      /\ g # NoEdge => GroupBecomes(g, new)
  <2> HIDE DEF new, g
  <2> QED BY <1>3, <1>4, <1>5, <1>6 DEF GroupBecomes
<1> QED BY <1>1, <1>7, <1>8, EdgeSame

\* The mentions of a reply are handed out, or it is planned for without them.
LEMMA DecideDoes ==
  ASSUME TypeOK, NEW e \in Ids, Decide(e)
  PROVE  /\ e \in Recorded /\ outcome[e].stage = "decide"
         /\ outcome' \in [Ids -> OutcomeRecords]
         /\ EdgeBecomes(e, edges[e].state)
         /\ \/ \E group \in {e, NoEdge} :
                 /\ outcome[e].mentions # {}
                 /\ Moves(e, "dispatch", {[to |-> r, source |-> e, group |-> group] :
                                            r \in outcome[e].mentions})
            \/ edges[e].group # NoEdge /\ Moves(e, "planMerge", outcome[e].todo)
            \/ edges[e].group = NoEdge /\ Moves(e, "recover", outcome[e].todo)
<1> DEFINE targets == outcome[e].mentions
           group == IF Cardinality(targets) > 1 THEN e ELSE NoEdge
           todo == {[to |-> r, source |-> e, group |-> group] : r \in targets}
           stage == IF edges[e].group # NoEdge THEN "planMerge" ELSE "recover"
<1>1. e \in Recorded /\ outcome[e].stage = "decide" /\ edges' = edges
  BY DEF Decide, At
<1>2. outcome \in [Ids -> OutcomeRecords] /\ targets \in SUBSET Roles
  BY Types, OutcomeTypes
<1>3. group \in {e, NoEdge} /\ e \in 0..MaxHops /\ group \in 0..MaxHops
  BY NewRequest
<1> HIDE DEF group
<1>4. todo \in SUBSET Requests
  BY <1>2, <1>3 DEF Requests
<1>5. \/ targets # {} /\ outcome' = [outcome EXCEPT ![e].stage = "dispatch", ![e].todo = todo]
      \/ To(e, stage)
  BY DEF Decide, group
<1>6. "dispatch" \in Stages /\ stage \in Stages
  BY DEF Stages
<1>7. CASE targets # {} /\ outcome' = [outcome EXCEPT ![e].stage = "dispatch", ![e].todo = todo]
  <2>1. Moves(e, "dispatch", todo) /\ outcome' \in [Ids -> OutcomeRecords]
    <3> HIDE DEF todo
    <3> QED BY <1>2, <1>4, <1>6, <1>7, ToDispatch
  <2> QED BY <1>1, <1>3, <1>7, <2>1, EdgeSame
<1>8. CASE To(e, stage)
  <2>1. Moves(e, stage, outcome[e].todo) /\ outcome' \in [Ids -> OutcomeRecords]
    <3> HIDE DEF stage
    <3> QED BY <1>2, <1>6, <1>8, ToMoves
  <2> QED BY <1>1, <2>1, EdgeSame
<1> QED BY <1>5, <1>7, <1>8

\* The merge of the group of e is planned, from what the group is now.
MergePlanned(e, group, source) ==
  /\ Moves(e, "dispatch", {[to |-> Lead, source |-> source, group |-> NoEdge]})
  /\ \A h \in Ids : h # edges[e].group => groups'[h] = groups[h] /\ merges'[h] = merges[h]
  /\ groups'[edges[e].group].status = "merged"
  /\ groups'[edges[e].group].expected = group.expected
  /\ groups'[edges[e].group].results = group.results
  /\ groups'[edges[e].group].failed = group.failed
  /\ groups'[edges[e].group].cancelled = group.cancelled
  /\ merges'[edges[e].group] = merges[edges[e].group] + 1
  /\ early' = IF Outstanding(edges[e].group, e) THEN early \cup {edges[e].group} ELSE early

\* The types of what a plan changes.
PlanTypes ==
  /\ outcome' \in [Ids -> OutcomeRecords]
  /\ groups' \in [Ids -> GroupRecords]
  /\ merges' \in [Ids -> Nat]
  /\ early' \subseteq Ids

\* The merge of a group.
LEMMA PlansMergeDoes ==
  ASSUME TypeOK, NEW e \in Recorded, edges[e].group # NoEdge,
         NEW group \in GroupRecords, NEW source \in 0..MaxHops,
         PlansMerge(e, group, source)
  PROVE  MergePlanned(e, group, source) /\ PlanTypes
<1> DEFINE g == edges[e].group
           new == [group EXCEPT !.status = "merged"]
           todo == {[to |-> Lead, source |-> source, group |-> NoEdge]}
<1>1. g \in Ids /\ e \in Ids
  BY EdgeTypes
<1>2. /\ groups' = [groups EXCEPT ![g] = new]
      /\ outcome' = [outcome EXCEPT ![e].stage = "dispatch", ![e].todo = todo]
      /\ merges' = [merges EXCEPT ![g] = merges[g] + 1]
      /\ early' = IF Outstanding(g, e) THEN early \cup {g} ELSE early
  BY DEF PlansMerge
<1>3. /\ outcome \in [Ids -> OutcomeRecords] /\ groups \in [Ids -> GroupRecords]
      /\ merges \in [Ids -> Nat] /\ early \subseteq Ids
  BY Types
<1>4. todo \in SUBSET Requests
  BY ConstantTypes, NewRequest
<1>5. "dispatch" \in Stages /\ "merged" \in GroupStatuses
  BY DEF Stages, GroupStatuses
<1>6. new \in GroupRecords /\ new.status = "merged" /\ new.expected = group.expected
      /\ new.results = group.results /\ new.failed = group.failed
      /\ new.cancelled = group.cancelled
  BY <1>5 DEF GroupRecords
<1> HIDE DEF new, todo
<1>7. Moves(e, "dispatch", todo) /\ outcome' \in [Ids -> OutcomeRecords]
  BY <1>1, <1>2, <1>3, <1>4, <1>5, ToDispatch
<1>8. groups' \in [Ids -> GroupRecords] /\ groups'[g] = new
      /\ \A h \in Ids : h # g => groups'[h] = groups[h]
  <2> HIDE DEF g
  <2> QED BY <1>1, <1>2, <1>3, <1>6
<1>9. merges' \in [Ids -> Nat] /\ merges'[g] = merges[g] + 1
      /\ \A h \in Ids : h # g => merges'[h] = merges[h]
  <2>1. merges[g] + 1 \in Nat
    BY <1>1, <1>3
  <2> HIDE DEF g
  <2> QED BY <1>1, <1>2, <1>3, <2>1
<1>10. early' \subseteq Ids
  BY <1>1, <1>2, <1>3
<1> QED BY <1>2, <1>6, <1>7, <1>8, <1>9, <1>10 DEF MergePlanned, PlanTypes, todo

\* After a reply: nothing more to do, or the flow goes on, or the merge.
LEMMA PlanMergeDoes ==
  ASSUME TypeOK, Shape, NEW e \in Ids, PlanMerge(e)
  PROVE  /\ e \in Recorded /\ outcome[e].stage = "planMerge" /\ edges[e].group # NoEdge
         /\ EdgeBecomes(e, edges[e].state)
         /\ PlanTypes
         /\ \/ /\ Moves(e, "done", outcome[e].todo) /\ MustWait(edges[e].group)
               /\ groups' = groups /\ merges' = merges /\ early' = early
            \/ /\ Moves(e, "recover", outcome[e].todo) /\ ~MustWait(edges[e].group)
               /\ groups' = groups /\ merges' = merges /\ early' = early
            \/ MergePlanned(e, groups[edges[e].group], e) /\ ~MustWait(edges[e].group)
<1> DEFINE g == edges[e].group
<1>1. e \in Recorded /\ outcome[e].stage = "planMerge" /\ edges' = edges
  BY DEF PlanMerge, At
<1>2. g # NoEdge /\ g \in Ids
  BY <1>1, Shapes, EdgeTypes DEF EdgeShape
<1>3. /\ outcome \in [Ids -> OutcomeRecords] /\ groups \in [Ids -> GroupRecords]
      /\ merges \in [Ids -> Nat] /\ early \subseteq Ids
  BY Types
<1>4. "done" \in Stages /\ "recover" \in Stages
  BY DEF Stages
<1>5. EdgeBecomes(e, edges[e].state)
  BY <1>1, EdgeSame
<1>6. CASE MustWait(g)
  <2>1. To(e, "done") /\ groups' = groups /\ merges' = merges /\ early' = early
    BY <1>6 DEF PlanMerge
  <2>2. Moves(e, "done", outcome[e].todo) /\ outcome' \in [Ids -> OutcomeRecords]
    BY <1>3, <1>4, <2>1, ToMoves
  <2> QED BY <1>1, <1>2, <1>3, <1>5, <1>6, <2>1, <2>2 DEF PlanTypes
<1>7. CASE ~MustWait(g) /\ edges[e].to = Lead
  <2>1. To(e, "recover") /\ groups' = groups /\ merges' = merges /\ early' = early
    BY <1>7 DEF PlanMerge
  <2>2. Moves(e, "recover", outcome[e].todo) /\ outcome' \in [Ids -> OutcomeRecords]
    BY <1>3, <1>4, <2>1, ToMoves
  <2> QED BY <1>1, <1>2, <1>3, <1>5, <1>7, <2>1, <2>2 DEF PlanTypes
<1>8. CASE ~MustWait(g) /\ edges[e].to # Lead
  <2>1. PlansMerge(e, groups[g], e)
    BY <1>8 DEF PlanMerge
  <2>2. groups[g] \in GroupRecords /\ e \in 0..MaxHops
    BY <1>2, GroupTypes, NewRequest
  <2>3. MergePlanned(e, groups[g], e) /\ PlanTypes
    BY <1>1, <1>2, <2>1, <2>2, PlansMergeDoes
  <2> QED BY <1>1, <1>2, <1>5, <1>8, <2>3
<1> QED BY <1>6, <1>7, <1>8

\* After a failure: the retry, or nothing more to do, or the merge.
LEMMA PlanFailureDoes ==
  ASSUME TypeOK, Shape, NEW e \in Ids, PlanFailure(e)
  PROVE  LET g == edges[e].group
             new == Refreshed(g, edges[e].to, "failed")
         IN  /\ e \in Recorded /\ outcome[e].stage = "planFailure" /\ g # NoEdge
             /\ EdgeBecomes(e, edges[e].state)
             /\ PlanTypes
             /\ \A x \in Roles : groups'[g].results[x] = new.results[x]
             /\ groups'[g].expected = new.expected /\ groups'[g].failed = new.failed
             /\ groups'[g].cancelled = new.cancelled
             /\ \/ /\ Moves(e, "dispatch", {[to |-> edges[e].to, source |-> NoEdge, group |-> g]})
                   /\ \A h \in Ids : h # g => groups'[h] = groups[h]
                   /\ groups'[g].status = "waiting_retry"
                   /\ merges' = merges /\ early' = early
                \/ /\ Moves(e, "done", outcome[e].todo) /\ HasOpenSibling(g)
                   /\ \A h \in Ids : h # g => groups'[h] = groups[h]
                   /\ groups'[g].status = "running"
                   /\ merges' = merges /\ early' = early
                \/ MergePlanned(e, new, NoEdge) /\ ~HasOpenSibling(g)
<1> DEFINE g == edges[e].group
           r == edges[e].to
           new == Refreshed(g, r, "failed")
           count == new.retries[r] + 1
           retries == [new.retries EXCEPT ![r] = count]
           waiting == [new EXCEPT !.status = "waiting_retry", !.retries = retries]
           running == [new EXCEPT !.status = "running"]
           todo == {[to |-> r, source |-> NoEdge, group |-> g]}
<1>1. e \in Recorded /\ outcome[e].stage = "planFailure" /\ edges' = edges
  BY DEF PlanFailure, At
<1>2. g # NoEdge /\ g \in Ids /\ r \in Roles
  BY <1>1, Shapes, EdgeTypes DEF EdgeShape
<1>3. /\ outcome \in [Ids -> OutcomeRecords] /\ groups \in [Ids -> GroupRecords]
      /\ merges \in [Ids -> Nat] /\ early \subseteq Ids
  BY Types
<1>4. /\ "done" \in Stages /\ "dispatch" \in Stages
      /\ "running" \in GroupStatuses /\ "waiting_retry" \in GroupStatuses
  BY DEF Stages, GroupStatuses
<1>5. EdgeBecomes(e, edges[e].state)
  BY <1>1, EdgeSame
<1>6. new \in GroupRecords /\ new.retries = groups[g].retries
  BY <1>2, RefreshedIs
<1>7. new.retries \in [Roles -> 0..1]
  BY <1>6 DEF GroupRecords
<1>8. CASE RetriesLeft(g, r)
  <2>1. /\ groups' = [groups EXCEPT ![g] = waiting]
        /\ outcome' = [outcome EXCEPT ![e].stage = "dispatch", ![e].todo = todo]
        /\ merges' = merges /\ early' = early
    BY <1>8 DEF PlanFailure
  <2>2. count \in 0..1
    BY <1>2, <1>6, <1>7, <1>8 DEF RetriesLeft
  <2> HIDE DEF count
  <2>3. retries \in [Roles -> 0..1]
    BY <1>7, <2>2
  <2> HIDE DEF retries, new
  <2>4. waiting \in GroupRecords /\ waiting.status = "waiting_retry"
        /\ waiting.expected = new.expected /\ waiting.results = new.results
        /\ waiting.failed = new.failed /\ waiting.cancelled = new.cancelled
    BY <1>4, <1>6, <2>3 DEF GroupRecords
  <2> HIDE DEF waiting
  <2>5. groups' \in [Ids -> GroupRecords] /\ groups'[g] = waiting
        /\ \A h \in Ids : h # g => groups'[h] = groups[h]
    <3> HIDE DEF g
    <3> QED BY <1>2, <1>3, <2>1, <2>4
  <2>6. todo \in SUBSET Requests
    BY <1>2, NewRequest
  <2>7. Moves(e, "dispatch", todo) /\ outcome' \in [Ids -> OutcomeRecords]
    <3> HIDE DEF todo
    <3> QED BY <1>3, <1>4, <2>1, <2>6, ToDispatch
  <2> QED BY <1>1, <1>2, <1>3, <1>5, <2>1, <2>4, <2>5, <2>7 DEF PlanTypes, new
<1>9. CASE ~RetriesLeft(g, r) /\ HasOpenSibling(g)
  <2>1. /\ groups' = [groups EXCEPT ![g] = running] /\ To(e, "done")
        /\ merges' = merges /\ early' = early
    BY <1>9 DEF PlanFailure
  <2> HIDE DEF new
  <2>2. running \in GroupRecords /\ running.status = "running"
        /\ running.expected = new.expected /\ running.results = new.results
        /\ running.failed = new.failed /\ running.cancelled = new.cancelled
    BY <1>4, <1>6 DEF GroupRecords
  <2> HIDE DEF running
  <2>3. groups' \in [Ids -> GroupRecords] /\ groups'[g] = running
        /\ \A h \in Ids : h # g => groups'[h] = groups[h]
    <3> HIDE DEF g
    <3> QED BY <1>2, <1>3, <2>1, <2>2
  <2>4. Moves(e, "done", outcome[e].todo) /\ outcome' \in [Ids -> OutcomeRecords]
    BY <1>3, <1>4, <2>1, ToMoves
  <2> QED BY <1>1, <1>2, <1>3, <1>5, <1>9, <2>1, <2>2, <2>3, <2>4 DEF PlanTypes, new
<1>10. CASE ~RetriesLeft(g, r) /\ ~HasOpenSibling(g)
  <2>1. PlansMerge(e, new, NoEdge)
    BY <1>10 DEF PlanFailure
  <2>2. MergePlanned(e, new, NoEdge) /\ PlanTypes
    <3> HIDE DEF new
    <3> QED BY <1>1, <1>2, <1>6, <2>1, NewRequest, PlansMergeDoes
  <2>3. /\ groups'[g].results = new.results /\ groups'[g].expected = new.expected
        /\ groups'[g].failed = new.failed /\ groups'[g].cancelled = new.cancelled
    <3> HIDE DEF new
    <3> QED BY <2>2 DEF MergePlanned
  <2> QED BY <1>1, <1>2, <1>5, <1>10, <2>2, <2>3
<1> QED BY <1>8, <1>9, <1>10

\* Nothing is dispatched: at the hop limit, or a second time.
NotDispatched(q) ==
  /\ edges' = edges /\ groups' = groups
  /\ flow'.active = flow.active
  /\ \/ flow' = flow /\ (flow.active # {} \/ Duplicate(q))
     \/ flow.active = {} /\ flow'.status = "aborted"

\* The handoff q is recorded as edge n; it is the first of its group, or not.
Dispatched(n, q, expected) ==
  /\ ~Duplicate(q)
  /\ EdgeAdded(n, q)
  /\ flow'.active = flow.active \cup {q.to} /\ flow'.status = "waiting_role"
  /\ q.group = NoEdge => groups' = groups
  /\ q.group # NoEdge => GroupBecomes(q.group, GroupWith(q, expected))

\* The types of what a dispatch changes.
DispatchTypes ==
  /\ edges' \in Seq(EdgeRecords) /\ Len(edges') \in 1..MaxHops
  /\ groups' \in [Ids -> GroupRecords]
  /\ flow' \in [status : FlowStatuses, active : SUBSET Roles,
                completed : SUBSET Roles, failed : SUBSET Roles]

\* One handoff.
LEMMA RecordHandoffDoes ==
  ASSUME TypeOK, NEW q \in Requests, NEW expected \in SUBSET Roles,
         RecordHandoff(q, expected)
  PROVE  /\ DispatchTypes
         /\ NotDispatched(q) \/ \E n \in Ids : Dispatched(n, q, expected)
<1> DEFINE Flows == [status : FlowStatuses, active : SUBSET Roles,
                     completed : SUBSET Roles, failed : SUBSET Roles]
<1>1. /\ settings \in Settings /\ flow \in Flows
      /\ edges \in Seq(EdgeRecords) /\ Len(edges) \in 1..MaxHops
      /\ groups \in [Ids -> GroupRecords]
  BY Types
<1>2. q.to \in Roles /\ q.source \in 0..MaxHops /\ q.group \in 0..MaxHops
      /\ (q.group # NoEdge => q.group \in Ids)
  BY RequestTypes
<1>3. "aborted" \in FlowStatuses /\ "waiting_role" \in FlowStatuses
      /\ "created" \in EdgeStates
  BY DEF FlowStatuses, EdgeStates
<1>4. CASE Hops >= settings.hops
  <2> DEFINE over == [flow EXCEPT !.status = "aborted"]
  <2>1. flow' = (IF flow.active # {} THEN flow ELSE over) /\ edges' = edges /\ groups' = groups
    BY <1>4 DEF RecordHandoff
  <2>2. over \in Flows /\ over.status = "aborted" /\ over.active = flow.active
    BY <1>1, <1>3
  <2> HIDE DEF over
  <2> QED BY <1>1, <2>1, <2>2 DEF DispatchTypes, NotDispatched
<1>5. CASE ~(Hops >= settings.hops) /\ Duplicate(q)
  <2>1. flow' = flow /\ edges' = edges /\ groups' = groups
    BY <1>5 DEF RecordHandoff
  <2> QED BY <1>1, <1>5, <2>1 DEF DispatchTypes, NotDispatched
<1>6. CASE ~(Hops >= settings.hops) /\ ~Duplicate(q)
  <2> DEFINE next == [flow EXCEPT !.status = "waiting_role", !.active = @ \cup {q.to}]
             edge == [to |-> q.to, source |-> q.source, group |-> q.group,
                      state |-> "created"]
             group == GroupWith(q, expected)
  <2>1. flow' = next /\ edges' = Append(edges, edge)
        /\ groups' = IF q.group = NoEdge THEN groups
                     ELSE [groups EXCEPT ![q.group] = group]
    BY <1>6 DEF RecordHandoff
  <2>2. next \in Flows /\ next.status = "waiting_role"
        /\ next.active = flow.active \cup {q.to}
    BY <1>1, <1>2, <1>3
  <2>3. edge \in EdgeRecords /\ edge.to = q.to /\ edge.source = q.source
        /\ edge.group = q.group /\ edge.state = "created"
    BY <1>2, <1>3 DEF EdgeRecords
  <2>4. Len(edges) + 1 \in 1..MaxHops
    <3>1. settings.hops \in 1..MaxHops /\ MaxHops \in Nat
      BY <1>1, ConstantTypes
    <3> QED BY <1>1, <1>6, <3>1 DEF Hops
  <2> HIDE DEF next, edge
  <2>5. /\ edges' \in Seq(EdgeRecords) /\ Len(edges') = Len(edges) + 1
        /\ edges'[Len(edges) + 1] = edge
        /\ \A i \in 1..Len(edges) : edges'[i] = edges[i]
    BY <1>1, <2>1, <2>3, SeqAppend
  <2>6. PICK n \in Ids : n = Len(edges) + 1
    BY <2>4 DEF Ids
  <2>7. n \notin Recorded /\ Recorded' = Recorded \cup {n}
    BY <1>1, <2>5, <2>6 DEF Recorded, Hops
  <2>8. EdgeAdded(n, q)
    BY <2>3, <2>5, <2>6, <2>7 DEF EdgeAdded, Recorded, Hops
  <2>9. q.group # NoEdge => group \in GroupRecords
    BY <1>2, GroupWithIs
  <2>10. /\ groups' \in [Ids -> GroupRecords]
         /\ q.group = NoEdge => groups' = groups
         /\ q.group # NoEdge => GroupBecomes(q.group, group)
    <3> HIDE DEF group
    <3> QED BY <1>1, <1>2, <2>1, <2>9 DEF GroupBecomes
  <2>11. Dispatched(n, q, expected)
    BY <1>6, <2>1, <2>2, <2>8, <2>10 DEF Dispatched
  <2>12. DispatchTypes
    BY <2>1, <2>2, <2>4, <2>5, <2>10 DEF DispatchTypes
  <2> QED BY <2>11, <2>12
<1> QED BY <1>4, <1>5, <1>6

\* The next handoff of an outcome.
LEMMA DispatchDoes ==
  ASSUME TypeOK, NEW e \in Ids, NEW q \in outcome[e].todo, Dispatch(e, q)
  PROVE  /\ e \in Recorded /\ outcome[e].stage = "dispatch" /\ q \in Requests
         /\ outcome' \in [Ids -> OutcomeRecords]
         /\ Moves(e, "dispatch", outcome[e].todo \ {q})
         /\ DispatchTypes
         /\ NotDispatched(q) \/ \E n \in Ids : Dispatched(n, q, outcome[e].mentions)
<1>1. /\ e \in Recorded /\ outcome[e].stage = "dispatch"
      /\ RecordHandoff(q, outcome[e].mentions)
      /\ outcome' = [outcome EXCEPT ![e].todo = @ \ {q}]
  BY DEF Dispatch, At
<1>2. q \in Requests /\ outcome[e].mentions \in SUBSET Roles
      /\ outcome \in [Ids -> OutcomeRecords]
  BY OutcomeTypes, Types
<1>3. /\ DispatchTypes
      /\ NotDispatched(q) \/ \E n \in Ids : Dispatched(n, q, outcome[e].mentions)
  BY <1>1, <1>2, RecordHandoffDoes
<1> QED BY <1>1, <1>2, <1>3, TodoMoves

\* Nothing left to dispatch.
LEMMA DispatchEndsDoes ==
  ASSUME TypeOK, NEW e \in Ids, DispatchEnds(e)
  PROVE  /\ e \in Recorded /\ outcome[e].stage = "dispatch" /\ outcome[e].todo = {}
         /\ outcome' \in [Ids -> OutcomeRecords]
         /\ Moves(e, "done", outcome[e].todo) /\ EdgeBecomes(e, edges[e].state)
<1>1. /\ e \in Recorded /\ outcome[e].stage = "dispatch" /\ outcome[e].todo = {}
      /\ To(e, "done") /\ edges' = edges
  BY DEF DispatchEnds, At
<1>2. "done" \in Stages /\ outcome \in [Ids -> OutcomeRecords]
  BY Types DEF Stages
<1> QED BY <1>1, <1>2, ToMoves, EdgeSame

\* The flow ends, or goes to the lead.
LEMMA RecoverDoes ==
  ASSUME TypeOK, NEW e \in Ids, Recover(e)
  PROVE  /\ e \in Recorded /\ outcome[e].stage = "recover"
         /\ outcome' \in [Ids -> OutcomeRecords] /\ EdgeBecomes(e, edges[e].state)
         /\ flow' \in [status : FlowStatuses, active : SUBSET Roles,
                       completed : SUBSET Roles, failed : SUBSET Roles]
         /\ \/ /\ Moves(e, "done", outcome[e].todo)
               /\ flow'.status \in {"completed", "aborted"} /\ flow'.active = {}
            \/ /\ Moves(e, "dispatch", {[to |-> Lead, source |-> e, group |-> NoEdge]})
               /\ flow' = flow
<1> DEFINE Flows == [status : FlowStatuses, active : SUBSET Roles,
                     completed : SUBSET Roles, failed : SUBSET Roles]
           status == IF outcome[e].kind = "reply" THEN "completed" ELSE "aborted"
           over == [flow EXCEPT !.status = status, !.active = {}]
           todo == {[to |-> Lead, source |-> e, group |-> NoEdge]}
<1>1. e \in Recorded /\ outcome[e].stage = "recover" /\ edges' = edges
  BY DEF Recover, At
<1>2. "done" \in Stages /\ "dispatch" \in Stages
  BY DEF Stages
<1>3. outcome \in [Ids -> OutcomeRecords] /\ flow \in Flows
  BY Types
<1>4. status \in FlowStatuses /\ status \in {"completed", "aborted"}
  BY DEF FlowStatuses
<1> HIDE DEF status
<1>5. over \in Flows /\ over.status = status /\ over.active = {}
  BY <1>3, <1>4
<1> HIDE DEF over
<1>6. CASE edges[e].to = Lead
  <2>1. flow' = over /\ To(e, "done")
    BY <1>6 DEF Recover, over, status
  <2> QED BY <1>1, <1>2, <1>3, <1>4, <1>5, <2>1, ToMoves, EdgeSame
<1>7. CASE edges[e].to # Lead
  <2>1. outcome' = [outcome EXCEPT ![e].stage = "dispatch", ![e].todo = todo] /\ flow' = flow
    BY <1>7 DEF Recover
  <2>2. todo \in SUBSET Requests
    BY ConstantTypes, NewRequest
  <2>3. Moves(e, "dispatch", todo) /\ outcome' \in [Ids -> OutcomeRecords]
    <3> HIDE DEF todo
    <3> QED BY <1>2, <1>3, <2>1, <2>2, ToDispatch
  <2> QED BY <1>1, <1>3, <2>1, <2>3, EdgeSame
<1> QED BY <1>6, <1>7

\* The role is let go.
LEMMA ReleaseDoes ==
  ASSUME TypeOK, NEW e \in Ids, Release(e)
  PROVE  /\ e \in Recorded /\ outcome[e].stage = "done"
         /\ outcome' \in [Ids -> OutcomeRecords]
         /\ Moves(e, "done", outcome[e].todo) /\ EdgeBecomes(e, edges[e].state)
<1> DEFINE no == FALSE
           r == [outcome[e] EXCEPT !.inline = no]
<1>1. /\ e \in Recorded /\ outcome[e].stage = "done" /\ edges' = edges
      /\ outcome' = [outcome EXCEPT ![e] = r]
  BY DEF Release, At
<1>2. outcome \in [Ids -> OutcomeRecords] /\ outcome[e] \in OutcomeRecords
  BY Types
<1>3. no \in BOOLEAN
  OBVIOUS
<1> HIDE DEF no
<1>4. /\ r \in OutcomeRecords /\ r.kind = outcome[e].kind /\ r.mentions = outcome[e].mentions
      /\ r.stage = outcome[e].stage /\ r.todo = outcome[e].todo
  BY <1>2, <1>3 DEF OutcomeRecords
<1> HIDE DEF r
<1> QED BY <1>1, <1>2, <1>4, EdgeSame DEF Moves

\* An outcome that starts over.
LEMMA RestartedIs ==
  ASSUME TypeOK, Shape, NEW e \in Ids
  PROVE  /\ Restarted(outcome[e]) \in OutcomeRecords
         /\ Restarted(outcome[e]).kind = outcome[e].kind
         /\ Restarted(outcome[e]).mentions = outcome[e].mentions
         /\ Restarted(outcome[e]).stage =
              IF outcome[e].kind = "none" THEN "none" ELSE "respond"
         /\ Restarted(outcome[e]).todo = {}
<1> DEFINE no == FALSE
           o == outcome[e]
           r == [o EXCEPT !.stage = "respond", !.todo = {}, !.inline = no]
<1>1. o \in OutcomeRecords /\ (o.kind = "none" => o.mentions = {})
  BY OutcomeTypes, Shapes DEF OutcomeShape
<1>2. "respond" \in Stages /\ no \in BOOLEAN
  BY DEF Stages
<1>3. Restarted(o) = IF o.kind = "none" THEN NoOutcome ELSE r
  BY DEF Restarted
<1>4. NoOutcome = [kind |-> "none", mentions |-> {}, stage |-> "none", todo |-> {},
                   inline |-> no]
  BY DEF NoOutcome
<1> HIDE DEF no, o
<1>5. NoOutcome \in OutcomeRecords
  BY <1>2, <1>4 DEF OutcomeRecords, Kinds, Stages
<1>6. NoOutcome.kind = "none" /\ NoOutcome.mentions = {} /\ NoOutcome.stage = "none"
      /\ NoOutcome.todo = {}
  BY <1>4
<1>7. r \in OutcomeRecords /\ r.kind = o.kind /\ r.mentions = o.mentions
      /\ r.stage = "respond" /\ r.todo = {}
  BY <1>1, <1>2 DEF OutcomeRecords
<1> HIDE DEF r
<1>8. /\ Restarted(o) \in OutcomeRecords
      /\ Restarted(o).kind = o.kind
      /\ Restarted(o).mentions = o.mentions
      /\ Restarted(o).stage = IF o.kind = "none" THEN "none" ELSE "respond"
      /\ Restarted(o).todo = {}
  BY <1>1, <1>3, <1>5, <1>6, <1>7
<1> QED BY <1>8 DEF o

\* A fault is counted.
LEMMA FaultDoes ==
  ASSUME TypeOK, NEW kind, Fault(kind)
  PROVE  faults' \in 0..settings.faults /\ faults' # 0
<1>1. settings.faults \in Nat /\ faults \in 0..settings.faults
  BY Types, ConstantTypes
<1>2. faults < settings.faults /\ faults' = faults + 1
  BY DEF Fault
<1> QED BY <1>1, <1>2

\* The materialisation is interrupted, or done again.
LEMMA RestartDoes ==
  ASSUME TypeOK, Shape, NEW e \in Ids, Throw(e) \/ Replay(e)
  PROVE  /\ e \in Recorded
         /\ outcome[e].stage \notin {"none"}
         /\ outcome' \in [Ids -> OutcomeRecords] /\ EdgeBecomes(e, edges[e].state)
         /\ Moves(e, IF outcome[e].kind = "none" THEN "none" ELSE "respond", {})
         /\ faults' \in 0..settings.faults /\ faults' # 0
<1>1. /\ e \in Recorded /\ outcome[e].stage \notin {"none"} /\ edges' = edges
      /\ outcome' = [outcome EXCEPT ![e] = Restarted(outcome[e])]
      /\ Fault("throw") \/ Fault("replay")
  BY DEF Throw, Replay, At, InProgress
<1>2. outcome \in [Ids -> OutcomeRecords]
  BY Types
<1>3. faults' \in 0..settings.faults /\ faults' # 0
  BY <1>1, FaultDoes
<1> DEFINE r == Restarted(outcome[e])
<1>4. /\ r \in OutcomeRecords /\ r.kind = outcome[e].kind /\ r.mentions = outcome[e].mentions
      /\ r.stage = IF outcome[e].kind = "none" THEN "none" ELSE "respond"
      /\ r.todo = {}
  BY RestartedIs
<1>5. outcome' = [outcome EXCEPT ![e] = r]
  BY <1>1
<1> HIDE DEF r
<1> QED BY <1>1, <1>2, <1>3, <1>4, <1>5, EdgeSame DEF Moves

\* Every materialisation is interrupted.
LEMMA CrashDoes ==
  ASSUME TypeOK, Shape, Crash
  PROVE  /\ outcome' \in [Ids -> OutcomeRecords]
         /\ edges' = edges
         /\ faults' \in 0..settings.faults /\ faults' # 0
         /\ \A e \in Ids :
              /\ outcome'[e].kind = outcome[e].kind
              /\ outcome'[e].mentions = outcome[e].mentions
              /\ outcome'[e].stage = IF outcome[e].stage \in {"none", "done"} THEN outcome[e].stage
                                     ELSE IF outcome[e].kind = "none" THEN "none" ELSE "respond"
              /\ outcome[e].stage # "dispatch" => outcome'[e].todo = {}
              /\ outcome[e].stage \notin {"none", "done"} => outcome'[e].todo = {}
<1> DEFINE no == FALSE
           Let(e) == [outcome[e] EXCEPT !.inline = no]
           Now(e) == IF InProgress(e) THEN Restarted(outcome[e]) ELSE Let(e)
<1>1. outcome' = [e \in Ids |-> Now(e)] /\ edges' = edges /\ Fault("crash")
  BY DEF Crash
<1>2. faults' \in 0..settings.faults /\ faults' # 0
  BY <1>1, FaultDoes
<1>3. no \in BOOLEAN
  OBVIOUS
<1> HIDE DEF no
<1>4. ASSUME NEW e \in Ids
      PROVE  /\ Now(e) \in OutcomeRecords
             /\ Now(e).kind = outcome[e].kind
             /\ Now(e).mentions = outcome[e].mentions
             /\ Now(e).stage = IF outcome[e].stage \in {"none", "done"} THEN outcome[e].stage
                               ELSE IF outcome[e].kind = "none" THEN "none" ELSE "respond"
             /\ outcome[e].stage # "dispatch" => Now(e).todo = {}
             /\ outcome[e].stage \notin {"none", "done"} => Now(e).todo = {}
  <2>1. outcome[e] \in OutcomeRecords /\ (outcome[e].stage # "dispatch" => outcome[e].todo = {})
    BY OutcomeTypes, Shapes DEF OutcomeShape
  <2>2. /\ Let(e) \in OutcomeRecords /\ Let(e).kind = outcome[e].kind
        /\ Let(e).mentions = outcome[e].mentions /\ Let(e).stage = outcome[e].stage
        /\ Let(e).todo = outcome[e].todo
    BY <1>3, <2>1 DEF OutcomeRecords
  <2> DEFINE let == Let(e)
             r == Restarted(outcome[e])
  <2>3. /\ r \in OutcomeRecords /\ r.kind = outcome[e].kind
        /\ r.mentions = outcome[e].mentions
        /\ r.stage = IF outcome[e].kind = "none" THEN "none" ELSE "respond"
        /\ r.todo = {}
    BY RestartedIs
  <2>4. Now(e) = IF outcome[e].stage \in {"none", "done"} THEN let ELSE r
    BY DEF InProgress
  <2>5. /\ let \in OutcomeRecords /\ let.kind = outcome[e].kind
        /\ let.mentions = outcome[e].mentions /\ let.stage = outcome[e].stage
        /\ let.todo = outcome[e].todo
    BY <2>2
  <2> HIDE DEF let, r
  <2>6. CASE outcome[e].stage \in {"none", "done"}
    <3>1. Now(e) = let
      BY <2>4, <2>6
    <3> HIDE DEF Now
    <3> QED BY <2>1, <2>5, <2>6, <3>1
  <2>7. CASE outcome[e].stage \notin {"none", "done"}
    <3>1. Now(e) = r
      BY <2>4, <2>7
    <3> HIDE DEF Now
    <3> QED BY <2>3, <2>7, <3>1
  <2> QED BY <2>6, <2>7
<1> HIDE DEF Now
<1> QED BY <1>1, <1>2, <1>4

\* A handoff is given up.
LEMMA AbandonDoes ==
  ASSUME TypeOK, NEW e \in Ids, Abandon(e)
  PROVE  /\ e \in Recorded /\ outcome[e].stage = "none"
         /\ outcome' \in [Ids -> OutcomeRecords] /\ Moves(e, "forget", outcome[e].todo)
         /\ edges' \in Seq(EdgeRecords) /\ Len(edges') = Len(edges)
         /\ EdgeBecomes(e, "cancelled")
         /\ faults' \in 0..settings.faults /\ faults' # 0
         /\ fate' \in [Ids -> Fates] /\ fate'[e] = "givenUp"
<1>1. /\ e \in Recorded /\ outcome[e].stage = "none"
      /\ To(e, "forget") /\ EdgeTo(e, "cancelled") /\ Fault("abandon")
  BY DEF Abandon, At
<1>2. "forget" \in Stages /\ "cancelled" \in EdgeStates
  BY DEF Stages, EdgeStates
<1>3. outcome \in [Ids -> OutcomeRecords] /\ edges \in Seq(EdgeRecords)
  BY Types
<1>4. Moves(e, "forget", outcome[e].todo) /\ outcome' \in [Ids -> OutcomeRecords]
  BY <1>1, <1>2, <1>3, ToMoves
<1>5. edges' \in Seq(EdgeRecords) /\ Len(edges') = Len(edges) /\ EdgeBecomes(e, "cancelled")
  BY <1>1, <1>2, <1>3, EdgeSet
<1>6. fate' \in [Ids -> Fates] /\ fate'[e] = "givenUp"
  BY Types DEF Abandon, Fates
<1> QED BY <1>1, <1>4, <1>5, <1>6, FaultDoes

\* A handoff is lost, and nothing else happens.
LEMMA LoseDoes ==
  ASSUME TypeOK, NEW e \in Ids, Lose(e)
  PROVE  /\ faults' \in 0..settings.faults /\ faults' # 0
         /\ fate' \in [Ids -> Fates]
         /\ \A k \in Ids : fate[k] = "givenUp" => fate'[k] = "givenUp"
<1>1. Fault("lose") /\ fate[e] = "sent" /\ fate' = [fate EXCEPT ![e] = "lost"]
  BY DEF Lose
<1>2. fate' \in [Ids -> Fates] /\ \A k \in Ids : fate[k] = "givenUp" => fate'[k] = "givenUp"
  BY <1>1, Types DEF Fates
<1> QED BY <1>1, <1>2, FaultDoes

\* Its role is no longer waited for.
LEMMA ForgetDoes ==
  ASSUME TypeOK, NEW e \in Ids, Forget(e)
  PROVE  /\ e \in Recorded /\ outcome[e].stage = "forget"
         /\ outcome' \in [Ids -> OutcomeRecords] /\ Moves(e, "none", outcome[e].todo)
         /\ EdgeBecomes(e, edges[e].state)
         /\ flow' \in [status : FlowStatuses, active : SUBSET Roles,
                       completed : SUBSET Roles, failed : SUBSET Roles]
<1>1. e \in Recorded /\ outcome[e].stage = "forget" /\ To(e, "none") /\ edges' = edges
  BY DEF Forget, At
<1>2. "none" \in Stages
  BY DEF Stages
<1>3. outcome \in [Ids -> OutcomeRecords]
      /\ flow \in [status : FlowStatuses, active : SUBSET Roles,
                   completed : SUBSET Roles, failed : SUBSET Roles]
  BY Types
<1> DEFINE to == edges[e].to
           next == [flow EXCEPT !.active = @ \ {to}]
<1>4. flow' = next
  BY DEF Forget
<1>5. next \in [status : FlowStatuses, active : SUBSET Roles,
                completed : SUBSET Roles, failed : SUBSET Roles]
  BY <1>3
<1> HIDE DEF next
<1> QED BY <1>1, <1>2, <1>3, <1>4, <1>5, ToMoves, EdgeSame

-----------------------------------------------------------------------------
(* The types and the shape                                                 *)

\* The steps.
LEMMA NextCases ==
  ASSUME TypeOK, Next
  PROVE  \/ \E e \in Ids :
              \/ \E kind \in {"reply", "failure"}, mentions \in SUBSET Roles :
                   Answer(e, kind, mentions)
              \/ Respond(e)
              \/ Mark(e)
              \/ Close(e)
              \/ RecordShard(e)
              \/ Decide(e)
              \/ PlanMerge(e)
              \/ PlanFailure(e)
              \/ \E q \in outcome[e].todo : Dispatch(e, q)
              \/ DispatchEnds(e)
              \/ Recover(e)
              \/ Release(e)
              \/ Forget(e)
              \/ Throw(e) \/ Replay(e)
              \/ Abandon(e)
              \/ Lose(e)
         \/ Crash
<1>1. CASE \E e \in Ids :
        Answers(e) \/ Materialize(e) \/ Throw(e) \/ Replay(e) \/ Abandon(e) \/ Lose(e)
  <2>1. PICK e \in Ids :
          Answers(e) \/ Materialize(e) \/ Throw(e) \/ Replay(e) \/ Abandon(e) \/ Lose(e)
    BY <1>1
  <2>2. CASE Answers(e)
    <3>1. \E kind \in {"reply", "failure"}, mentions \in SUBSET Roles :
            Answer(e, kind, mentions)
      BY <2>2, ConstantTypes DEF Answers
    <3> QED BY <3>1
  <2>3. CASE Materialize(e)
    BY <2>3 DEF Materialize
  <2> QED BY <2>1, <2>2, <2>3
<1> QED BY <1>1 DEF Next

\* The types of the next state, together.
LEMMA TypeIs ==
  ASSUME settings' \in Settings,
         flow' \in [status : FlowStatuses, active : SUBSET Roles,
                    completed : SUBSET Roles, failed : SUBSET Roles],
         edges' \in Seq(EdgeRecords), Len(edges') \in 1..MaxHops,
         groups' \in [Ids -> GroupRecords], outcome' \in [Ids -> OutcomeRecords],
         fate' \in [Ids -> Fates],
         faults' \in 0..settings'.faults, merges' \in [Ids -> Nat], early' \subseteq Ids
  PROVE  TypeOK'
BY DEF TypeOK, GroupRecords, OutcomeRecords, Kinds, ResultKinds

\* Every step keeps the types.
LEMMA TypeStep ==
  ASSUME TypeOK, Shape, Next
  PROVE  TypeOK'
<1> USE Types
<1>1. ASSUME NEW e \in Ids, NEW kind \in {"reply", "failure"},
             NEW mentions \in SUBSET Roles, Answer(e, kind, mentions)
      PROVE  TypeOK'
  BY <1>1, AnswerDoes, TypeIs DEF Answer
<1>2. ASSUME NEW e \in Ids, Respond(e) PROVE TypeOK'
  BY <1>2, RespondDoes, TypeIs DEF Respond
<1>3. ASSUME NEW e \in Ids, Mark(e) PROVE TypeOK'
  BY <1>3, MarkDoes, TypeIs DEF Mark
<1>4. ASSUME NEW e \in Ids, Close(e) PROVE TypeOK'
  BY <1>4, CloseDoes, TypeIs DEF Close
<1>5. ASSUME NEW e \in Ids, RecordShard(e) PROVE TypeOK'
  BY <1>5, RecordShardDoes, TypeIs DEF RecordShard
<1>6. ASSUME NEW e \in Ids, Decide(e) PROVE TypeOK'
  BY <1>6, DecideDoes, TypeIs DEF Decide
<1>7. ASSUME NEW e \in Ids, PlanMerge(e) PROVE TypeOK'
  BY <1>7, PlanMergeDoes, TypeIs DEF PlanMerge, PlanTypes
<1>8. ASSUME NEW e \in Ids, PlanFailure(e) PROVE TypeOK'
  BY <1>8, PlanFailureDoes, TypeIs DEF PlanFailure, PlanTypes
<1>9. ASSUME NEW e \in Ids, NEW q \in outcome[e].todo, Dispatch(e, q) PROVE TypeOK'
  BY <1>9, DispatchDoes, TypeIs DEF Dispatch, DispatchTypes
<1>10. ASSUME NEW e \in Ids, DispatchEnds(e) PROVE TypeOK'
  BY <1>10, DispatchEndsDoes, TypeIs DEF DispatchEnds
<1>11. ASSUME NEW e \in Ids, Recover(e) PROVE TypeOK'
  BY <1>11, RecoverDoes, TypeIs DEF Recover
<1>12. ASSUME NEW e \in Ids, Release(e) PROVE TypeOK'
  BY <1>12, ReleaseDoes, TypeIs DEF Release
<1>13. ASSUME NEW e \in Ids, Forget(e) PROVE TypeOK'
  BY <1>13, ForgetDoes, TypeIs DEF Forget
<1>14. ASSUME NEW e \in Ids, Throw(e) \/ Replay(e) PROVE TypeOK'
  BY <1>14, RestartDoes, TypeIs DEF Throw, Replay
<1>15. ASSUME NEW e \in Ids, Abandon(e) PROVE TypeOK'
  BY <1>15, AbandonDoes, TypeIs DEF Abandon
<1>16. CASE Crash
  BY <1>16, CrashDoes, TypeIs DEF Crash
<1>17. ASSUME NEW e \in Ids, Lose(e) PROVE TypeOK'
  BY <1>17, LoseDoes, TypeIs DEF Lose
<1> QED BY NextCases, <1>1, <1>2, <1>3, <1>4, <1>5, <1>6, <1>7, <1>8, <1>9, <1>10,
           <1>11, <1>12, <1>13, <1>14, <1>15, <1>16, <1>17

\* Groups stay recorded.
GroupsStay == \A g \in Ids : groups[g].status # "none" => groups'[g].status # "none"

\* A stage that fits the outcome, what is to dispatch and the state of the edge.
Fits(e, stage, todo, state) ==
  /\ outcome[e].kind = "none" <=> stage \in {"none", "forget"}
  /\ stage = "planFailure" => outcome[e].kind = "failure"
  /\ stage \in {"shard", "decide", "planMerge"} => outcome[e].kind = "reply"
  /\ stage # "dispatch" => todo = {}
  /\ stage = "none" => state \in {"created", "cancelled"}
  /\ stage = "forget" => state = "cancelled"
  /\ stage \notin {"none", "forget", "respond"} => state # "cancelled"
  /\ stage \in {"planMerge", "planFailure"} => edges[e].group # NoEdge

\* An outcome that goes to such a stage keeps the shape.
LEMMA ShapeMoves ==
  ASSUME TypeOK, Shape, NEW e \in Recorded, NEW stage, NEW todo, NEW state,
         Moves(e, stage, todo), EdgeBecomes(e, state), GroupsStay,
         Fits(e, stage, todo, state)
  PROVE  Shape'
<1>1. e \in Ids /\ Recorded' = Recorded /\ \A k \in Recorded : k \in Ids
  BY EdgeTypes DEF EdgeBecomes
<1>2. ASSUME NEW k \in Ids PROVE OutcomeShape(k)'
  <2>1. CASE k = e
    BY <1>1, <2>1, Shapes DEF OutcomeShape, Moves, Fits
  <2>2. CASE k # e
    BY <1>1, <2>2, Shapes DEF OutcomeShape, Moves
  <2> QED BY <2>1, <2>2
<1>3. ASSUME NEW k \in Ids, k \notin Recorded' PROVE outcome'[k].stage = "none"
  BY <1>1, <1>3, Shapes DEF Moves
<1>4. ASSUME NEW k \in Recorded PROVE EdgeShape(k)'
  <2>1. edges[k].group # NoEdge => /\ edges[k].group \in Ids
                                   /\ groups'[edges[k].group].status # "none"
    BY EdgeTypes, Shapes DEF EdgeShape, GroupsStay
  <2>2. edges'[k].group = edges[k].group
    BY DEF EdgeBecomes
  <2>3. CASE k = e
    BY <1>1, <2>1, <2>2, <2>3 DEF EdgeShape, Moves, Fits, EdgeBecomes
  <2>4. CASE k # e
    BY <1>1, <2>1, <2>2, <2>4, Shapes DEF EdgeShape, Moves, EdgeBecomes
  <2> QED BY <2>3, <2>4
<1> QED BY <1>1, <1>2, <1>3, <1>4 DEF Shape

\* The outcome of a role has the shape of a new one.
LEMMA ShapeAnswer ==
  ASSUME TypeOK, Shape, NEW e \in Ids, NEW kind \in {"reply", "failure"},
         NEW mentions \in SUBSET Roles, Answer(e, kind, mentions)
  PROVE  Shape'
<1>1. /\ e \in Recorded
      /\ \A k \in Ids : k # e => outcome'[k] = outcome[k]
      /\ outcome'[e].kind = kind /\ outcome'[e].stage = "respond" /\ outcome'[e].todo = {}
  BY AnswerDoes
<1>2. edges' = edges /\ groups' = groups /\ Recorded' = Recorded
  BY DEF Answer, Recorded, Hops
<1>3. ASSUME NEW k \in Ids PROVE OutcomeShape(k)'
  <2>1. CASE k = e
    BY <1>1, <2>1 DEF OutcomeShape
  <2>2. CASE k # e
    BY <1>1, <2>2, Shapes DEF OutcomeShape
  <2> QED BY <2>1, <2>2
<1>4. ASSUME NEW k \in Ids, k \notin Recorded' PROVE outcome'[k].stage = "none"
  BY <1>1, <1>2, <1>4, Shapes
<1>5. ASSUME NEW k \in Recorded PROVE EdgeShape(k)'
  <2>1. k \in Ids
    BY EdgeTypes
  <2>2. CASE k = e
    BY <1>1, <1>2, <2>2, Shapes DEF EdgeShape
  <2>3. CASE k # e
    BY <1>1, <1>2, <2>1, <2>3, Shapes DEF EdgeShape
  <2> QED BY <2>2, <2>3
<1> QED BY <1>2, <1>3, <1>4, <1>5 DEF Shape

\* So has the edge of a handoff that is dispatched.
LEMMA ShapeDispatch ==
  ASSUME TypeOK, Shape, NEW e \in Ids, NEW q \in outcome[e].todo, Dispatch(e, q)
  PROVE  Shape'
<1>1. /\ e \in Recorded /\ outcome[e].stage = "dispatch" /\ q \in Requests
      /\ Moves(e, "dispatch", outcome[e].todo \ {q})
      /\ NotDispatched(q) \/ \E n \in Ids : Dispatched(n, q, outcome[e].mentions)
  BY DispatchDoes
<1>2. Fits(e, "dispatch", outcome[e].todo \ {q}, edges[e].state)
  BY <1>1, Shapes DEF Fits, OutcomeShape, EdgeShape
<1>3. CASE NotDispatched(q)
  <2>1. edges' = edges /\ groups' = groups
    BY <1>3 DEF NotDispatched
  <2> QED BY <1>1, <1>2, <2>1, EdgeSame, ShapeMoves DEF GroupsStay
<1>4. ASSUME NEW n \in Ids, Dispatched(n, q, outcome[e].mentions) PROVE Shape'
  <2>1. EdgeAdded(n, q) /\ n # e /\ Recorded' = Recorded \cup {n}
    BY <1>1, <1>4 DEF Dispatched, EdgeAdded
  <2>2. q.group # NoEdge => q.group \in Ids /\ groups'[q.group].status # "none"
    BY <1>1, <1>4, RequestTypes, OutcomeTypes, GroupWithIs DEF Dispatched, GroupBecomes
  <2>3. GroupsStay
    <3>1. CASE q.group = NoEdge
      BY <1>4, <3>1 DEF Dispatched, GroupsStay
    <3>2. CASE q.group # NoEdge
      BY <1>1, <1>4, <2>2, <3>2 DEF Dispatched, GroupsStay, GroupBecomes
    <3> QED BY <3>1, <3>2
  <2>4. outcome'[n] = outcome[n] /\ outcome[n].stage = "none"
    BY <1>1, <2>1, Shapes DEF Moves, EdgeAdded
  <2>5. ASSUME NEW k \in Ids PROVE OutcomeShape(k)'
    <3>1. CASE k = e
      BY <1>1, <1>2, <3>1, Shapes DEF OutcomeShape, Moves, Fits
    <3>2. CASE k # e
      BY <1>1, <3>2, Shapes DEF OutcomeShape, Moves
    <3> QED BY <3>1, <3>2
  <2>6. ASSUME NEW k \in Ids, k \notin Recorded' PROVE outcome'[k].stage = "none"
    BY <1>1, <2>1, <2>6, Shapes DEF Moves
  <2>7. ASSUME NEW k \in Recorded' PROVE EdgeShape(k)'
    <3>1. CASE k = n
      BY <2>1, <2>2, <2>4, <3>1 DEF EdgeShape, EdgeAdded
    <3>2. CASE k \in Recorded
      <4>1. k \in Ids /\ edges'[k] = edges[k]
            /\ outcome'[k].stage = outcome[k].stage
        BY <1>1, <2>1, <3>2, EdgeTypes DEF EdgeAdded, Moves
      <4>2. edges[k].group # NoEdge => /\ edges[k].group \in Ids
                                       /\ groups'[edges[k].group].status # "none"
        BY <2>3, <3>2, EdgeTypes, Shapes DEF EdgeShape, GroupsStay
      <4> QED BY <3>2, <4>1, <4>2, Shapes DEF EdgeShape
    <3> QED BY <2>1, <2>7, <3>1, <3>2
  <2> QED BY <2>5, <2>6, <2>7 DEF Shape
<1> QED BY <1>1, <1>3, <1>4

\* A crash leaves nothing of an outcome but the answer.
LEMMA ShapeCrash ==
  ASSUME TypeOK, Shape, Crash
  PROVE  Shape'
<1>1. edges' = edges /\ groups' = groups /\ Recorded' = Recorded
  BY DEF Crash, Recorded, Hops
<1>2. \A e \in Ids :
        /\ outcome'[e].kind = outcome[e].kind
        /\ outcome'[e].mentions = outcome[e].mentions
        /\ outcome'[e].stage = IF outcome[e].stage \in {"none", "done"} THEN outcome[e].stage
                               ELSE IF outcome[e].kind = "none" THEN "none" ELSE "respond"
        /\ outcome[e].stage # "dispatch" => outcome'[e].todo = {}
        /\ outcome[e].stage \notin {"none", "done"} => outcome'[e].todo = {}
  BY CrashDoes
<1>3. ASSUME NEW k \in Ids PROVE OutcomeShape(k)'
  BY <1>2, Shapes DEF OutcomeShape
<1>4. ASSUME NEW k \in Ids, k \notin Recorded' PROVE outcome'[k].stage = "none"
  BY <1>1, <1>2, <1>4, Shapes
<1>5. ASSUME NEW k \in Recorded PROVE EdgeShape(k)'
  <2>1. k \in Ids
    BY EdgeTypes
  <2> QED BY <1>1, <1>2, <2>1, Shapes DEF EdgeShape, OutcomeShape
<1> QED BY <1>1, <1>3, <1>4, <1>5 DEF Shape

\* Every step keeps the shape.
LEMMA ShapeStep ==
  ASSUME TypeOK, Shape, Next
  PROVE  Shape'
<1>1. ASSUME NEW e \in Ids, NEW kind \in {"reply", "failure"},
             NEW mentions \in SUBSET Roles, Answer(e, kind, mentions)
      PROVE  Shape'
  BY <1>1, ShapeAnswer
<1>2. ASSUME NEW e \in Ids, Respond(e) PROVE Shape'
  <2>1. GroupsStay
    BY <1>2 DEF Respond, GroupsStay
  <2>2. e \in Recorded /\ Fits(e, "mark", outcome[e].todo, "responded")
    BY <1>2, RespondDoes, Shapes DEF Fits, OutcomeShape
  <2> QED BY <1>2, <2>1, <2>2, RespondDoes, ShapeMoves
<1>3. ASSUME NEW e \in Ids, Mark(e) PROVE Shape'
  <2>1. GroupsStay
    BY <1>3 DEF Mark, GroupsStay
  <2>2. e \in Recorded /\ Fits(e, "close", outcome[e].todo, edges[e].state)
    BY <1>3, MarkDoes, Shapes DEF Fits, OutcomeShape, EdgeShape
  <2> QED BY <1>3, <2>1, <2>2, MarkDoes, ShapeMoves
<1>4. ASSUME NEW e \in Ids, Close(e) PROVE Shape'
  <2> DEFINE stage == IF outcome[e].kind = "reply" THEN "shard"
                      ELSE IF edges[e].group # NoEdge THEN "planFailure" ELSE "recover"
  <2>1. GroupsStay
    BY <1>4 DEF Close, GroupsStay
  <2>2. e \in Recorded /\ outcome[e].stage = "close"
        /\ Moves(e, stage, outcome[e].todo) /\ EdgeBecomes(e, "closed")
    BY <1>4, CloseDoes
  <2>3. outcome[e].kind \in {"reply", "failure"}
    BY <2>2, OutcomeTypes, Shapes DEF OutcomeShape, Kinds
  <2>4. Fits(e, stage, outcome[e].todo, "closed")
    BY <2>2, <2>3, Shapes DEF Fits, OutcomeShape
  <2> HIDE DEF stage
  <2> QED BY <2>1, <2>2, <2>4, ShapeMoves
<1>5. ASSUME NEW e \in Ids, RecordShard(e) PROVE Shape'
  <2>1. e \in Recorded /\ Fits(e, "decide", outcome[e].todo, edges[e].state)
    BY <1>5, RecordShardDoes, Shapes DEF Fits, OutcomeShape, EdgeShape
  <2>2. GroupsStay
    <3>1. CASE edges[e].group = NoEdge
      BY <1>5, <3>1, RecordShardDoes DEF GroupsStay
    <3>2. CASE edges[e].group # NoEdge
      BY <1>5, <2>1, <3>2, RecordShardDoes, EdgeTypes, RefreshedIs
         DEF GroupsStay, GroupBecomes
    <3> QED BY <3>1, <3>2
  <2> QED BY <1>5, <2>1, <2>2, RecordShardDoes, ShapeMoves
<1>6. ASSUME NEW e \in Ids, Decide(e) PROVE Shape'
  <2>1. GroupsStay
    BY <1>6 DEF Decide, GroupsStay
  <2>2. e \in Recorded /\ outcome[e].stage = "decide" /\ EdgeBecomes(e, edges[e].state)
    BY <1>6, DecideDoes
  <2>3. ASSUME NEW todo, Moves(e, "dispatch", todo) PROVE Shape'
    <3>1. Fits(e, "dispatch", todo, edges[e].state)
      BY <2>2, Shapes DEF Fits, OutcomeShape, EdgeShape
    <3> QED BY <2>1, <2>2, <2>3, <3>1, ShapeMoves
  <2>4. CASE edges[e].group # NoEdge /\ Moves(e, "planMerge", outcome[e].todo)
    <3>1. Fits(e, "planMerge", outcome[e].todo, edges[e].state)
      BY <2>2, <2>4, Shapes DEF Fits, OutcomeShape, EdgeShape
    <3> QED BY <2>1, <2>2, <2>4, <3>1, ShapeMoves
  <2>5. CASE Moves(e, "recover", outcome[e].todo)
    <3>1. Fits(e, "recover", outcome[e].todo, edges[e].state)
      BY <2>2, Shapes DEF Fits, OutcomeShape, EdgeShape
    <3> QED BY <2>1, <2>2, <2>5, <3>1, ShapeMoves
  <2> QED BY <1>6, <2>3, <2>4, <2>5, DecideDoes
<1>7. ASSUME NEW e \in Ids, PlanMerge(e) PROVE Shape'
  <2>1. e \in Recorded /\ outcome[e].stage = "planMerge" /\ EdgeBecomes(e, edges[e].state)
    BY <1>7, PlanMergeDoes
  <2>2. ASSUME NEW stage \in {"done", "recover"}, Moves(e, stage, outcome[e].todo),
               groups' = groups
        PROVE  Shape'
    <3>1. Fits(e, stage, outcome[e].todo, edges[e].state)
      BY <2>1, Shapes DEF Fits, OutcomeShape, EdgeShape
    <3>2. GroupsStay
      BY <2>2 DEF GroupsStay
    <3> QED BY <2>1, <2>2, <3>1, <3>2, ShapeMoves
  <2>3. CASE MergePlanned(e, groups[edges[e].group], e)
    <3> DEFINE todo == {[to |-> Lead, source |-> e, group |-> NoEdge]}
    <3>1. Fits(e, "dispatch", todo, edges[e].state)
      BY <2>1, Shapes DEF Fits, OutcomeShape, EdgeShape
    <3>2. GroupsStay /\ Moves(e, "dispatch", todo)
      BY <2>3 DEF GroupsStay, MergePlanned
    <3> HIDE DEF todo
    <3> QED BY <2>1, <3>1, <3>2, ShapeMoves
  <2> QED BY <1>7, <2>2, <2>3, PlanMergeDoes
<1>8. ASSUME NEW e \in Ids, PlanFailure(e) PROVE Shape'
  <2>1. e \in Recorded /\ outcome[e].stage = "planFailure" /\ EdgeBecomes(e, edges[e].state)
    BY <1>8, PlanFailureDoes
  <2>2. GroupsStay
    BY <1>8, PlanFailureDoes DEF GroupsStay, MergePlanned
  <2>3. ASSUME NEW todo, Moves(e, "dispatch", todo) PROVE Shape'
    <3>1. Fits(e, "dispatch", todo, edges[e].state)
      BY <2>1, Shapes DEF Fits, OutcomeShape, EdgeShape
    <3> QED BY <2>1, <2>2, <2>3, <3>1, ShapeMoves
  <2>4. CASE Moves(e, "done", outcome[e].todo)
    <3>1. Fits(e, "done", outcome[e].todo, edges[e].state)
      BY <2>1, Shapes DEF Fits, OutcomeShape, EdgeShape
    <3> QED BY <2>1, <2>2, <2>4, <3>1, ShapeMoves
  <2> QED BY <1>8, <2>3, <2>4, PlanFailureDoes DEF MergePlanned
<1>9. ASSUME NEW e \in Ids, NEW q \in outcome[e].todo, Dispatch(e, q) PROVE Shape'
  BY <1>9, ShapeDispatch
<1>10. ASSUME NEW e \in Ids, DispatchEnds(e) PROVE Shape'
  <2>1. GroupsStay
    BY <1>10 DEF DispatchEnds, GroupsStay
  <2>2. e \in Recorded /\ Fits(e, "done", outcome[e].todo, edges[e].state)
    BY <1>10, DispatchEndsDoes, Shapes DEF Fits, OutcomeShape, EdgeShape
  <2> QED BY <1>10, <2>1, <2>2, DispatchEndsDoes, ShapeMoves
<1>11. ASSUME NEW e \in Ids, Recover(e) PROVE Shape'
  <2>1. GroupsStay
    BY <1>11 DEF Recover, GroupsStay
  <2>2. e \in Recorded /\ outcome[e].stage = "recover" /\ EdgeBecomes(e, edges[e].state)
    BY <1>11, RecoverDoes
  <2>3. ASSUME NEW todo, Moves(e, "dispatch", todo) PROVE Shape'
    <3>1. Fits(e, "dispatch", todo, edges[e].state)
      BY <2>2, Shapes DEF Fits, OutcomeShape, EdgeShape
    <3> QED BY <2>1, <2>2, <2>3, <3>1, ShapeMoves
  <2>4. CASE Moves(e, "done", outcome[e].todo)
    <3>1. Fits(e, "done", outcome[e].todo, edges[e].state)
      BY <2>2, Shapes DEF Fits, OutcomeShape, EdgeShape
    <3> QED BY <2>1, <2>2, <2>4, <3>1, ShapeMoves
  <2> QED BY <1>11, <2>3, <2>4, RecoverDoes
<1>12. ASSUME NEW e \in Ids, Release(e) PROVE Shape'
  <2>1. GroupsStay
    BY <1>12 DEF Release, GroupsStay
  <2>2. e \in Recorded /\ Fits(e, "done", outcome[e].todo, edges[e].state)
    BY <1>12, ReleaseDoes, Shapes DEF Fits, OutcomeShape, EdgeShape
  <2> QED BY <1>12, <2>1, <2>2, ReleaseDoes, ShapeMoves
<1>13. ASSUME NEW e \in Ids, Forget(e) PROVE Shape'
  <2>1. GroupsStay
    BY <1>13 DEF Forget, GroupsStay
  <2>2. e \in Recorded /\ Fits(e, "none", outcome[e].todo, edges[e].state)
    BY <1>13, ForgetDoes, Shapes DEF Fits, OutcomeShape, EdgeShape
  <2> QED BY <1>13, <2>1, <2>2, ForgetDoes, ShapeMoves
<1>14. ASSUME NEW e \in Ids, Throw(e) \/ Replay(e) PROVE Shape'
  <2> DEFINE stage == IF outcome[e].kind = "none" THEN "none" ELSE "respond"
             todo == {}
  <2>1. GroupsStay
    BY <1>14 DEF Throw, Replay, GroupsStay
  <2>2. e \in Recorded /\ outcome[e].stage \notin {"none"}
        /\ EdgeBecomes(e, edges[e].state) /\ Moves(e, stage, todo)
    BY <1>14, RestartDoes
  <2>3. Fits(e, stage, todo, edges[e].state)
    BY <2>2, Shapes DEF Fits, OutcomeShape, EdgeShape
  <2> HIDE DEF stage, todo
  <2> QED BY <2>1, <2>2, <2>3, ShapeMoves
<1>15. ASSUME NEW e \in Ids, Abandon(e) PROVE Shape'
  <2>1. GroupsStay
    BY <1>15 DEF Abandon, GroupsStay
  <2>2. e \in Recorded /\ Fits(e, "forget", outcome[e].todo, "cancelled")
    BY <1>15, AbandonDoes, Shapes DEF Fits, OutcomeShape
  <2> QED BY <1>15, <2>1, <2>2, AbandonDoes, ShapeMoves
<1>16. CASE Crash
  BY <1>16, ShapeCrash
<1>17. ASSUME NEW e \in Ids, Lose(e) PROVE Shape'
  BY <1>17 DEF Lose, Shape, OutcomeShape, EdgeShape, Recorded, Hops
<1> QED BY NextCases, <1>1, <1>2, <1>3, <1>4, <1>5, <1>6, <1>7, <1>8, <1>9, <1>10,
           <1>11, <1>12, <1>13, <1>14, <1>15, <1>16, <1>17

-----------------------------------------------------------------------------
(* Steps that neither plan nor dispatch                                    *)

\* No edge is recorded, and none cancelled but of a handoff that is given up.
EdgesQuiet ==
  /\ Recorded' = Recorded
  /\ \A k \in Recorded : /\ edges'[k].to = edges[k].to
                         /\ edges'[k].source = edges[k].source
                         /\ edges'[k].group = edges[k].group
                         /\ edges'[k].state = "cancelled" =>
                              edges[k].state = "cancelled" \/ fate'[k] = "givenUp"

\* An answer is not changed.
KindsKept == \A e \in Ids :
  outcome[e].kind # "none" => outcome'[e].kind = outcome[e].kind

\* No group is changed, and none has been told more.
Quiet ==
  /\ EdgesQuiet /\ KindsKept
  /\ groups' = groups /\ merges' = merges /\ early' = early
  /\ \A k \in Recorded : edges[k].group # NoEdge /\ outcome'[k].stage \in Told =>
       outcome[k].stage \in Told

\* An outcome that goes on by itself.
LEMMA QuietMoves ==
  ASSUME TypeOK, NEW e \in Recorded, NEW stage, NEW todo, NEW state,
         Moves(e, stage, todo), EdgeBecomes(e, state),
         state = "cancelled" => edges[e].state = "cancelled" \/ fate'[e] = "givenUp",
         groups' = groups, merges' = merges, early' = early,
         edges[e].group # NoEdge /\ stage \in Told => outcome[e].stage \in Told
  PROVE  Quiet
<1>1. EdgesQuiet
  BY DEF EdgesQuiet, EdgeBecomes
<1>2. KindsKept
  BY DEF KindsKept, Moves
<1>3. ASSUME NEW k \in Recorded, edges[k].group # NoEdge, outcome'[k].stage \in Told
      PROVE  outcome[k].stage \in Told
  BY <1>3, EdgeTypes DEF Moves
<1> QED BY <1>1, <1>2, <1>3 DEF Quiet

\* The answer of a role tells no group anything yet.
LEMMA QuietAnswer ==
  ASSUME TypeOK, Shape, NEW e \in Ids, NEW kind \in {"reply", "failure"},
         NEW mentions \in SUBSET Roles, Answer(e, kind, mentions)
  PROVE  Quiet
<1>1. /\ e \in Recorded /\ outcome[e].stage = "none"
      /\ \A k \in Ids : k # e => outcome'[k] = outcome[k]
      /\ outcome'[e].stage = "respond"
      /\ EdgeBecomes(e, edges[e].state)
  BY AnswerDoes
<1>2. EdgesQuiet
  BY <1>1 DEF EdgesQuiet, EdgeBecomes
<1>3. outcome[e].kind = "none"
  BY <1>1, Shapes DEF OutcomeShape
<1>4. KindsKept
  BY <1>1, <1>3 DEF KindsKept
<1>5. ASSUME NEW k \in Recorded, outcome'[k].stage \in Told
      PROVE  outcome[k].stage \in Told
  BY <1>1, <1>5, EdgeTypes DEF Told
<1> QED BY <1>2, <1>4, <1>5 DEF Quiet, Answer

\* The steps, with those that neither plan nor dispatch taken together.
LEMMA StepSorts ==
  ASSUME TypeOK, Shape, Next
  PROVE  \/ Quiet
         \/ \E e \in Ids : \/ RecordShard(e)
                           \/ PlanMerge(e)
                           \/ PlanFailure(e)
                           \/ \E q \in outcome[e].todo : Dispatch(e, q)
<1>1. ASSUME NEW e \in Ids, NEW kind \in {"reply", "failure"},
             NEW mentions \in SUBSET Roles, Answer(e, kind, mentions)
      PROVE  Quiet
  BY <1>1, QuietAnswer
<1>2. ASSUME NEW e \in Ids, Respond(e) PROVE Quiet
  <2>1. e \in Recorded /\ outcome[e].stage = "respond" /\ "mark" \notin Told
    BY <1>2, RespondDoes DEF Told
  <2>2. groups' = groups /\ merges' = merges /\ early' = early
    BY <1>2 DEF Respond
  <2> QED BY <1>2, <2>1, <2>2, RespondDoes, QuietMoves
<1>3. ASSUME NEW e \in Ids, Mark(e) PROVE Quiet
  <2>1. groups' = groups /\ merges' = merges /\ early' = early /\ "close" \notin Told
    BY <1>3 DEF Mark, Told
  <2> QED BY <1>3, <2>1, MarkDoes, QuietMoves
<1>4. ASSUME NEW e \in Ids, Close(e) PROVE Quiet
  <2> DEFINE stage == IF outcome[e].kind = "reply" THEN "shard"
                      ELSE IF edges[e].group # NoEdge THEN "planFailure" ELSE "recover"
  <2>1. groups' = groups /\ merges' = merges /\ early' = early
    BY <1>4 DEF Close
  <2>2. edges[e].group # NoEdge => stage \notin Told
    BY DEF Told
  <2>3. e \in Recorded /\ outcome[e].stage = "close"
        /\ Moves(e, stage, outcome[e].todo) /\ EdgeBecomes(e, "closed")
    BY <1>4, CloseDoes
  <2> HIDE DEF stage
  <2> QED BY <2>1, <2>2, <2>3, QuietMoves
<1>5. ASSUME NEW e \in Ids, Decide(e) PROVE Quiet
  <2>1. groups' = groups /\ merges' = merges /\ early' = early
    BY <1>5 DEF Decide
  <2>2. e \in Recorded /\ outcome[e].stage \in Told /\ EdgeBecomes(e, edges[e].state)
    BY <1>5, DecideDoes DEF Told
  <2>3. ASSUME NEW stage, NEW todo, Moves(e, stage, todo) PROVE Quiet
    BY <2>1, <2>2, <2>3, QuietMoves
  <2> QED BY <1>5, <2>3, DecideDoes
<1>6. ASSUME NEW e \in Ids, DispatchEnds(e) PROVE Quiet
  <2>1. groups' = groups /\ merges' = merges /\ early' = early
    BY <1>6 DEF DispatchEnds
  <2>2. outcome[e].stage \in Told
    BY <1>6, DispatchEndsDoes DEF Told
  <2> QED BY <1>6, <2>1, <2>2, DispatchEndsDoes, QuietMoves
<1>7. ASSUME NEW e \in Ids, Recover(e) PROVE Quiet
  <2>1. groups' = groups /\ merges' = merges /\ early' = early
    BY <1>7 DEF Recover
  <2>2. e \in Recorded /\ outcome[e].stage \in Told /\ EdgeBecomes(e, edges[e].state)
    BY <1>7, RecoverDoes DEF Told
  <2>3. ASSUME NEW stage, NEW todo, Moves(e, stage, todo) PROVE Quiet
    BY <2>1, <2>2, <2>3, QuietMoves
  <2> QED BY <1>7, <2>3, RecoverDoes
<1>8. ASSUME NEW e \in Ids, Release(e) PROVE Quiet
  <2>1. groups' = groups /\ merges' = merges /\ early' = early
    BY <1>8 DEF Release
  <2>2. outcome[e].stage \in Told
    BY <1>8, ReleaseDoes DEF Told
  <2> QED BY <1>8, <2>1, <2>2, ReleaseDoes, QuietMoves
<1>9. ASSUME NEW e \in Ids, Forget(e) PROVE Quiet
  <2>1. groups' = groups /\ merges' = merges /\ early' = early /\ "none" \notin Told
    BY <1>9 DEF Forget, Told
  <2> QED BY <1>9, <2>1, ForgetDoes, QuietMoves
<1>10. ASSUME NEW e \in Ids, Throw(e) \/ Replay(e) PROVE Quiet
  <2> DEFINE stage == IF outcome[e].kind = "none" THEN "none" ELSE "respond"
             todo == {}
  <2>1. groups' = groups /\ merges' = merges /\ early' = early /\ stage \notin Told
    BY <1>10 DEF Throw, Replay, Told
  <2>2. e \in Recorded /\ Moves(e, stage, todo) /\ EdgeBecomes(e, edges[e].state)
    BY <1>10, RestartDoes
  <2> HIDE DEF stage, todo
  <2> QED BY <2>1, <2>2, QuietMoves
<1>11. ASSUME NEW e \in Ids, Abandon(e) PROVE Quiet
  <2>1. groups' = groups /\ merges' = merges /\ early' = early /\ "forget" \notin Told
    BY <1>11 DEF Abandon, Told
  <2> QED BY <1>11, <2>1, AbandonDoes, QuietMoves
<1>12. CASE Crash
  <2>1. edges' = edges /\ groups' = groups /\ merges' = merges /\ early' = early
    BY <1>12 DEF Crash
  <2>2. EdgesQuiet
    BY <2>1 DEF EdgesQuiet, Recorded, Hops
  <2>3. \A e \in Ids :
          /\ outcome'[e].kind = outcome[e].kind
          /\ outcome'[e].stage = IF outcome[e].stage \in {"none", "done"} THEN outcome[e].stage
                                 ELSE IF outcome[e].kind = "none" THEN "none" ELSE "respond"
    BY <1>12, CrashDoes
  <2>4. ASSUME NEW k \in Recorded, outcome'[k].stage \in Told
        PROVE  outcome[k].stage \in Told
    BY <2>3, <2>4, EdgeTypes DEF Told
  <2> QED BY <2>1, <2>2, <2>3, <2>4 DEF Quiet, KindsKept
<1>13. ASSUME NEW e \in Ids, Lose(e) PROVE Quiet
  BY <1>13 DEF Lose, Quiet, EdgesQuiet, KindsKept, Recorded, Hops
<1> QED BY NextCases, <1>1, <1>2, <1>3, <1>4, <1>5, <1>6, <1>7, <1>8, <1>9, <1>10,
           <1>11, <1>12, <1>13

\* The plans of a group record no edge and change no answer either.
LEMMA PlansAreQuiet ==
  ASSUME TypeOK, Shape, NEW e \in Ids, RecordShard(e) \/ PlanMerge(e) \/ PlanFailure(e)
  PROVE  EdgesQuiet /\ KindsKept
<1>1. EdgeBecomes(e, edges[e].state)
      /\ \E stage, todo : Moves(e, stage, todo)
  <2>1. CASE RecordShard(e)
    BY <2>1, RecordShardDoes
  <2>2. CASE PlanMerge(e)
    BY <2>2, PlanMergeDoes DEF MergePlanned
  <2>3. CASE PlanFailure(e)
    BY <2>3, PlanFailureDoes DEF MergePlanned
  <2> QED BY <2>1, <2>2, <2>3
<1>2. EdgesQuiet
  BY <1>1 DEF EdgesQuiet, EdgeBecomes
<1>3. KindsKept
  BY <1>1 DEF KindsKept, Moves
<1> QED BY <1>2, <1>3

\* Dispatching changes no answer, and records at most one edge.
LEMMA DispatchSorts ==
  ASSUME TypeOK, Shape, NEW e \in Ids, NEW q \in outcome[e].todo, Dispatch(e, q)
  PROVE  /\ e \in Recorded /\ q \in Requests /\ outcome[e].mentions \in SUBSET Roles
         /\ KindsKept /\ merges' = merges /\ early' = early
         /\ \A k \in Ids : outcome'[k].stage = outcome[k].stage
         /\ \/ EdgesQuiet /\ groups' = groups
            \/ \E n \in Ids : Dispatched(n, q, outcome[e].mentions)
<1>1. /\ e \in Recorded /\ outcome[e].stage = "dispatch" /\ q \in Requests
      /\ Moves(e, "dispatch", outcome[e].todo \ {q})
      /\ NotDispatched(q) \/ \E n \in Ids : Dispatched(n, q, outcome[e].mentions)
  BY DispatchDoes
<1>2. KindsKept /\ \A k \in Ids : outcome'[k].stage = outcome[k].stage
  BY <1>1 DEF KindsKept, Moves
<1>3. merges' = merges /\ early' = early
  BY DEF Dispatch
<1>4. NotDispatched(q) => EdgesQuiet /\ groups' = groups
  BY DEF NotDispatched, EdgesQuiet, Recorded, Hops
<1> QED BY <1>1, <1>2, <1>3, <1>4, OutcomeTypes

-----------------------------------------------------------------------------
(* Every message is handed over once                                       *)

\* What was given up stays so.
LEMMA FatesKept ==
  ASSUME TypeOK, Next
  PROVE  \A k \in Ids : fate[k] = "givenUp" => fate'[k] = "givenUp"
<1>1. ASSUME NEW e \in Ids, Abandon(e)
      PROVE  \A k \in Ids : fate[k] = "givenUp" => fate'[k] = "givenUp"
  BY <1>1, Types DEF Abandon
<1>2. ASSUME NEW e \in Ids, Lose(e)
      PROVE  \A k \in Ids : fate[k] = "givenUp" => fate'[k] = "givenUp"
  BY <1>2, LoseDoes
<1>3. ASSUME NEW e \in Ids, Answers(e) \/ Materialize(e) \/ Throw(e) \/ Replay(e)
      PROVE  fate' = fate
  BY <1>3 DEF Answers, Materialize, Answer, Respond, Mark, Close, RecordShard, Decide,
     PlanMerge, PlanFailure, Dispatch, DispatchEnds, Recover, Release, Forget, Throw, Replay
<1>4. CASE Crash
  BY <1>4 DEF Crash
<1> QED BY <1>1, <1>2, <1>3, <1>4 DEF Next

\* A step records an open edge, or cancels one whose handoff is given up.
LEMMA CancelledStep ==
  ASSUME TypeOK, Shape, CancelledIsGivenUp, Next
  PROVE  CancelledIsGivenUp'
<1>1. \A k \in Recorded : k \in Ids
  BY EdgeTypes
<1>2. \A k \in Ids : fate[k] = "givenUp" => fate'[k] = "givenUp"
  BY FatesKept
<1>3. CASE EdgesQuiet
  BY <1>1, <1>2, <1>3 DEF EdgesQuiet, CancelledIsGivenUp
<1>4. ASSUME NEW n \in Ids, NEW q, NEW expected, Dispatched(n, q, expected)
      PROVE  CancelledIsGivenUp'
  <2>1. EdgeAdded(n, q)
    BY <1>4 DEF Dispatched
  <2> QED BY <1>1, <1>2, <2>1 DEF EdgeAdded, CancelledIsGivenUp
<1> QED BY <1>3, <1>4, StepSorts, PlansAreQuiet, DispatchSorts DEF Quiet

\* A step keeps it: an edge is recorded only if no other has its message, or
\* those that have it were given up.
LEMMA DispatchStep ==
  ASSUME TypeOK, Shape, CancelledIsGivenUp, NoDoubleDispatch, Next
  PROVE  NoDoubleDispatch'
<1>1. \A k \in Recorded : k \in Ids
  BY EdgeTypes
<1>2. \A k \in Ids : fate[k] = "givenUp" => fate'[k] = "givenUp"
  BY FatesKept
<1>3. CASE EdgesQuiet
  BY <1>1, <1>2, <1>3 DEF EdgesQuiet, NoDoubleDispatch
<1>4. ASSUME NEW n \in Ids, NEW q, NEW expected, Dispatched(n, q, expected)
      PROVE  NoDoubleDispatch'
  <2>1. ~Duplicate(q) /\ EdgeAdded(n, q)
    BY <1>4 DEF Dispatched
  <2>2. \A k \in Recorded : ~(/\ q.source # NoEdge
                              /\ edges[k].source = q.source /\ edges[k].to = q.to
                              /\ fate'[k] # "givenUp")
    BY <1>1, <1>2, <2>1 DEF Duplicate, CancelledIsGivenUp
  <2> QED BY <1>1, <1>2, <2>1, <2>2 DEF EdgeAdded, NoDoubleDispatch
<1> QED BY <1>3, <1>4, StepSorts, PlansAreQuiet, DispatchSorts DEF Quiet

-----------------------------------------------------------------------------
(* A group without a failure is merged once                                *)

\* A step keeps it: a merge is planned for a group that is merged only by a
\* failure.
LEMMA MergedOnceStep ==
  ASSUME TypeOK, Shape, MergedOnce, Next
  PROVE  MergedOnce'
<1> USE DEF MergedOnce
<1>1. \A k \in Recorded : k \in Ids
  BY EdgeTypes
<1>2. ASSUME EdgesQuiet, KindsKept, merges' = merges,
             \A g \in Ids : groups'[g].status = groups[g].status
      PROVE  MergedOnce'
  BY <1>1, <1>2 DEF EdgesQuiet, KindsKept
<1>3. ASSUME NEW e \in Ids, RecordShard(e) PROVE MergedOnce'
  <2>1. EdgesQuiet /\ KindsKept /\ merges' = merges
    BY <1>3, PlansAreQuiet DEF RecordShard
  <2>2. \A g \in Ids : groups'[g].status = groups[g].status
    <3>1. e \in Recorded
      BY <1>3, RecordShardDoes
    <3>2. CASE edges[e].group = NoEdge
      BY <1>3, <3>2, RecordShardDoes
    <3>3. CASE edges[e].group # NoEdge
      BY <1>3, <3>1, <3>3, RecordShardDoes, EdgeTypes, RefreshedIs DEF GroupBecomes
    <3> QED BY <3>2, <3>3
  <2> QED BY <1>2, <2>1, <2>2
<1>4. ASSUME NEW e \in Ids, PlanMerge(e) PROVE MergedOnce'
  <2>1. EdgesQuiet /\ KindsKept
    BY <1>4, PlansAreQuiet
  <2>2. CASE groups' = groups /\ merges' = merges
    BY <1>2, <2>1, <2>2
  <2>3. CASE MergePlanned(e, groups[edges[e].group], e) /\ ~MustWait(edges[e].group)
    <3> DEFINE g == edges[e].group
    <3>1. e \in Recorded /\ g \in Ids /\ groups[g].status # "merged"
      BY <1>4, <2>3, PlanMergeDoes, EdgeTypes DEF MustWait
    <3>2. groups'[g].status = "merged" /\ merges'[g] = merges[g] + 1
          /\ \A h \in Ids : h # g => groups'[h] = groups[h] /\ merges'[h] = merges[h]
      BY <2>3 DEF MergePlanned
    <3>3. merges[g] = 0 => merges[g] + 1 = 1
      OBVIOUS
    <3> HIDE DEF g
    <3> QED BY <1>1, <2>1, <3>1, <3>2, <3>3 DEF EdgesQuiet, KindsKept
  <2> QED BY <1>4, <2>2, <2>3, PlanMergeDoes
<1>5. ASSUME NEW e \in Ids, PlanFailure(e) PROVE MergedOnce'
  <2> DEFINE g == edges[e].group
  <2>1. EdgesQuiet /\ KindsKept
    BY <1>5, PlansAreQuiet
  <2>2. e \in Recorded /\ outcome[e].stage = "planFailure"
        /\ \A h \in Ids : h # g => groups'[h] = groups[h] /\ merges'[h] = merges[h]
    BY <1>5, PlanFailureDoes DEF MergePlanned
  <2>3. outcome[e].kind = "failure"
    BY <2>2, Shapes DEF OutcomeShape
  <2> HIDE DEF g
  <2>4. ASSUME NEW h \in Ids, h = g PROVE
          \E k \in Recorded' : edges'[k].group = h /\ outcome'[k].kind = "failure"
    BY <2>1, <2>2, <2>3, <2>4 DEF EdgesQuiet, KindsKept, g
  <2> QED BY <1>1, <2>1, <2>2, <2>4 DEF EdgesQuiet, KindsKept
<1>6. ASSUME NEW e \in Ids, NEW q \in outcome[e].todo, Dispatch(e, q),
             NEW n \in Ids, Dispatched(n, q, outcome[e].mentions)
      PROVE  MergedOnce'
  <2>1. KindsKept /\ merges' = merges /\ q \in Requests /\ outcome[e].mentions \in SUBSET Roles
    BY <1>6, DispatchSorts
  <2>2. EdgeAdded(n, q)
    BY <1>6 DEF Dispatched
  <2>3. ASSUME NEW g \in Ids PROVE groups'[g].status = "merged" <=> groups[g].status = "merged"
    <3>1. CASE q.group = NoEdge
      BY <1>6, <3>1 DEF Dispatched
    <3>2. CASE q.group # NoEdge
      <4>1. GroupBecomes(q.group, GroupWith(q, outcome[e].mentions)) /\ q.group \in Ids
        BY <1>6, <2>1, <3>2, RequestTypes DEF Dispatched
      <4> QED BY <2>1, <4>1, GroupWithIs DEF GroupBecomes
    <3> QED BY <3>1, <3>2
  <2> QED BY <1>1, <2>1, <2>2, <2>3 DEF EdgeAdded, KindsKept
<1>7. CASE Quiet
  BY <1>2, <1>7 DEF Quiet
<1>8. ASSUME NEW e \in Ids, NEW q \in outcome[e].todo, Dispatch(e, q) PROVE MergedOnce'
  <2>1. CASE EdgesQuiet /\ groups' = groups
    BY <1>2, <1>8, <2>1, DispatchSorts
  <2> QED BY <1>6, <1>8, <2>1, DispatchSorts
<1> QED BY <1>3, <1>4, <1>5, <1>7, <1>8, StepSorts

-----------------------------------------------------------------------------
(* A group keeps the results of its shards                                 *)

\* What a group that knows at least as much as before can be told of.
KnowsMore(g) ==
  /\ \A x \in Roles : groups[g].results[x] # "none" => groups'[g].results[x] # "none"
  /\ \A x \in Roles : groups'[g].results[x] = "failed" => x \in groups'[g].failed

\* A step that takes no result from a group with shards keeps the results.
LEMMA ResultsKept ==
  ASSUME TypeOK, Shape, Results, EdgesQuiet, \A g \in Ids : KnowsMore(g),
         NEW e \in Recorded,
         \A k \in Recorded : k # e /\ edges[k].group # NoEdge /\ outcome'[k].stage \in Told =>
           outcome[k].stage \in Told,
         edges[e].group # NoEdge /\ outcome'[e].stage \in Told =>
           groups'[edges[e].group].results[edges[e].to] # "none"
  PROVE  Results'
<1>1. ASSUME NEW k \in Recorded', edges'[k].group # NoEdge, outcome'[k].stage \in Told
      PROVE  groups'[edges'[k].group].results[edges'[k].to] # "none"
  <2>1. k \in Recorded /\ edges'[k].group = edges[k].group /\ edges'[k].to = edges[k].to
    BY DEF EdgesQuiet
  <2>2. CASE k = e
    BY <1>1, <2>1, <2>2
  <2>3. CASE k # e
    <3>1. outcome[k].stage \in Told /\ edges[k].group # NoEdge
      BY <1>1, <2>1, <2>3
    <3>2. groups[edges[k].group].results[edges[k].to] # "none"
      BY <2>1, <3>1 DEF Results
    <3>3. edges[k].group \in Ids /\ edges[k].to \in Roles
      BY <2>1, <3>1, EdgeTypes
    <3> QED BY <2>1, <3>2, <3>3 DEF KnowsMore
  <2> QED BY <2>2, <2>3
<1>2. \A g \in Ids : \A r \in Roles :
        groups'[g].results[r] = "failed" => r \in groups'[g].failed
  BY DEF KnowsMore
<1> QED BY <1>1, <1>2 DEF Results

\* A step keeps the results.
LEMMA ResultsStep ==
  ASSUME TypeOK, Shape, Results, Next
  PROVE  Results'
<1>1. ASSUME NEW g \in Ids, groups'[g].results = groups[g].results,
             groups'[g].failed = groups[g].failed
      PROVE  KnowsMore(g)
  BY <1>1 DEF Results, KnowsMore
<1>2. CASE Quiet
  BY <1>2 DEF Quiet, EdgesQuiet, Results
<1>3. ASSUME NEW e \in Ids, RecordShard(e) PROVE Results'
  <2> DEFINE g == edges[e].group
             r == edges[e].to
             new == Refreshed(g, r, "completed")
  <2>1. e \in Recorded /\ EdgesQuiet /\ Moves(e, "decide", outcome[e].todo)
    BY <1>3, RecordShardDoes, PlansAreQuiet
  <2>2. r \in Roles /\ (g # NoEdge => g \in Ids)
    BY <2>1, EdgeTypes
  <2>3. \A k \in Recorded : k # e /\ outcome'[k].stage \in Told => outcome[k].stage \in Told
    BY <2>1, EdgeTypes DEF Moves
  <2>4. CASE g = NoEdge
    <3>1. groups' = groups
      BY <1>3, <2>4, RecordShardDoes
    <3>2. \A h \in Ids : KnowsMore(h)
      BY <1>1, <3>1
    <3> QED BY <2>1, <2>3, <2>4, <3>2, ResultsKept
  <2>5. CASE g # NoEdge
    <3>1. groups'[g] = new /\ \A h \in Ids : h # g => groups'[h] = groups[h]
      BY <1>3, <2>5, RecordShardDoes DEF GroupBecomes
    <3>2. /\ \A x \in Roles : new.results[x] = IF x = r THEN "completed"
                                               ELSE groups[g].results[x]
          /\ \A x \in Roles : new.results[x] = "failed" => x \in new.failed
      BY <2>2, <2>5, RefreshedIs
    <3> HIDE DEF new
    <3>3. KnowsMore(g)
      BY <3>1, <3>2 DEF KnowsMore
    <3>4. \A h \in Ids : KnowsMore(h)
      BY <1>1, <3>1, <3>3
    <3>5. groups'[g].results[r] # "none"
      BY <2>2, <3>1, <3>2
    <3> QED BY <2>1, <2>3, <3>4, <3>5, ResultsKept
  <2> QED BY <2>4, <2>5
<1>4. ASSUME NEW e \in Ids, PlanMerge(e) PROVE Results'
  <2> DEFINE g == edges[e].group
  <2>1. e \in Recorded /\ EdgesQuiet /\ outcome[e].stage = "planMerge" /\ g # NoEdge
        /\ \E stage, todo : Moves(e, stage, todo)
    BY <1>4, PlanMergeDoes, PlansAreQuiet DEF MergePlanned
  <2>2. g \in Ids /\ edges[e].to \in Roles
    BY <2>1, EdgeTypes
  <2>3. \A k \in Recorded : k # e /\ outcome'[k].stage \in Told => outcome[k].stage \in Told
    BY <2>1, EdgeTypes DEF Moves
  <2>4. \A h \in Ids : /\ groups'[h].results = groups[h].results
                       /\ groups'[h].failed = groups[h].failed
    BY <1>4, PlanMergeDoes DEF MergePlanned
  <2>5. \A h \in Ids : KnowsMore(h)
    BY <1>1, <2>4
  <2>6. groups[g].results[edges[e].to] # "none"
    BY <2>1 DEF Results, Told
  <2> QED BY <2>1, <2>2, <2>3, <2>4, <2>5, <2>6, ResultsKept
<1>5. ASSUME NEW e \in Ids, PlanFailure(e) PROVE Results'
  <2> DEFINE g == edges[e].group
             r == edges[e].to
             new == Refreshed(g, r, "failed")
  <2>1. e \in Recorded /\ EdgesQuiet /\ g # NoEdge
        /\ \E stage, todo : Moves(e, stage, todo)
    BY <1>5, PlanFailureDoes, PlansAreQuiet DEF MergePlanned
  <2>2. g \in Ids /\ r \in Roles
    BY <2>1, EdgeTypes
  <2>3. \A k \in Recorded : k # e /\ outcome'[k].stage \in Told => outcome[k].stage \in Told
    BY <2>1, EdgeTypes DEF Moves
  <2>4. /\ \A x \in Roles : groups'[g].results[x] = new.results[x]
        /\ groups'[g].failed = new.failed
        /\ \A h \in Ids : h # g => groups'[h] = groups[h]
    BY <1>5, PlanFailureDoes DEF MergePlanned
  <2>5. /\ \A x \in Roles : new.results[x] = IF x = r THEN "failed"
                                             ELSE groups[g].results[x]
        /\ \A x \in Roles : new.results[x] = "failed" => x \in new.failed
    BY <2>2, RefreshedIs
  <2> HIDE DEF new
  <2>6. KnowsMore(g)
    BY <2>4, <2>5 DEF KnowsMore
  <2>7. \A h \in Ids : KnowsMore(h)
    BY <1>1, <2>4, <2>6
  <2>8. groups'[g].results[r] # "none"
    BY <2>2, <2>4, <2>5
  <2> QED BY <2>1, <2>3, <2>7, <2>8, ResultsKept
<1>6. ASSUME NEW e \in Ids, NEW q \in outcome[e].todo, Dispatch(e, q) PROVE Results'
  <2>1. /\ q \in Requests /\ outcome[e].mentions \in SUBSET Roles
        /\ \A k \in Ids : outcome'[k].stage = outcome[k].stage
    BY <1>6, DispatchSorts
  <2>2. \A k \in Recorded : k \in Ids
    BY EdgeTypes
  <2>3. CASE EdgesQuiet /\ groups' = groups
    BY <2>1, <2>2, <2>3 DEF EdgesQuiet, Results
  <2>4. ASSUME NEW n \in Ids, Dispatched(n, q, outcome[e].mentions) PROVE Results'
    <3> DEFINE g == q.group
               new == GroupWith(q, outcome[e].mentions)
    <3>1. EdgeAdded(n, q)
      BY <2>4 DEF Dispatched
    <3>2. outcome'[n].stage \notin Told
      BY <2>1, <3>1, Shapes DEF EdgeAdded, Told
    <3>3. g = NoEdge => groups' = groups
      BY <2>4 DEF Dispatched
    <3>4. g # NoEdge => g \in Ids /\ groups'[g] = new
                        /\ \A h \in Ids : h # g => groups'[h] = groups[h]
      BY <2>1, <2>4, RequestTypes DEF Dispatched, GroupBecomes
    <3>5. g # NoEdge => \/ /\ groups[g].status # "none"
                           /\ new.results = groups[g].results /\ new.failed = groups[g].failed
                        \/ /\ groups[g].status = "none"
                           /\ \A r \in Roles : new.results[r] = "none"
      BY <2>1, <3>4, GroupWithIs
    <3> HIDE DEF new, g
    <3>6. \A h \in Ids : groups[h].status # "none" => groups'[h].results = groups[h].results
      BY <3>3, <3>4, <3>5
    <3>7. \A h \in Ids : \A r \in Roles :
            groups'[h].results[r] = "failed" => r \in groups'[h].failed
      BY <3>3, <3>4, <3>5 DEF Results
    <3>8. ASSUME NEW k \in Recorded', edges'[k].group # NoEdge, outcome'[k].stage \in Told
          PROVE  groups'[edges'[k].group].results[edges'[k].to] # "none"
      <4>1. k \in Recorded /\ edges'[k] = edges[k] /\ outcome[k].stage \in Told
        BY <2>1, <2>2, <3>1, <3>2, <3>8 DEF EdgeAdded
      <4>2. edges[k].group \in Ids /\ groups[edges[k].group].status # "none"
        BY <3>8, <4>1, EdgeTypes, Shapes DEF EdgeShape
      <4>3. groups[edges[k].group].results[edges[k].to] # "none"
        BY <3>8, <4>1 DEF Results
      <4> QED BY <3>6, <4>1, <4>2, <4>3
    <3> QED BY <3>7, <3>8 DEF Results
  <2> QED BY <1>6, <2>3, <2>4, DispatchSorts
<1> QED BY <1>2, <1>3, <1>4, <1>5, <1>6, StepSorts

-----------------------------------------------------------------------------
(* What a merge does not know of                                           *)

\* A closed shard that is past its recording is not missing.
LEMMA ToldIsKnown ==
  ASSUME TypeOK, Shape, Results, NEW k \in Recorded, Final(k), edges[k].group # NoEdge
  PROVE  \/ outcome[k].stage \in {"respond", "mark", "close", "shard", "planFailure"}
         \/ edges[k].state = "cancelled"
         \/ groups[edges[k].group].results[edges[k].to] # "none"
<1>1. k \in Ids
  BY EdgeTypes
<1>2. outcome[k].stage \in Stages /\ edges[k].state \in {"closed", "cancelled"}
  BY <1>1, OutcomeTypes DEF Final
<1>3. outcome[k].stage \in {"none", "forget"} => edges[k].state = "cancelled"
  BY <1>2, Shapes DEF EdgeShape
<1> QED BY <1>2, <1>3 DEF Stages, Told, Results

\* A step that plans a merge explains what is missing.
LEMMA MissingStep ==
  ASSUME TypeOK, Shape, Results, [Next]_vars, NEW g \in Ids, merges'[g] # merges[g],
         NEW r \in Missing(groups'[g]), Known(g, r)
  PROVE  Underway(g, r)
<1>1. Next
  BY DEF vars
<1>2. ASSUME NEW e \in Recorded, edges[e].group = g, ~HasOpenSibling(g), r \in Roles,
             \A k \in Shards(g) : edges[k].to = r =>
               \/ outcome[k].stage \in {"respond", "mark", "close", "shard", "planFailure"}
               \/ edges[k].state = "cancelled"
               \/ groups'[g].results[r] # "none",
             \A x \in Roles : groups'[g].results[x] = "failed" => x \in groups'[g].failed
      PROVE  Underway(g, r)
  <2>1. PICK k \in Shards(g) : edges[k].to = r
    BY DEF Known
  <2>2. r \notin groups'[g].failed /\ groups'[g].results[r] # "completed"
    BY DEF Missing
  <2>3. groups'[g] \in GroupRecords
    BY <1>1, TypeStep, Types DEF TypeOK, GroupRecords, ResultKinds
  <2>4. groups'[g].results[r] \in ResultKinds
    BY <1>2, <2>3 DEF GroupRecords
  <2>5. groups'[g].results[r] = "none"
    BY <1>2, <2>2, <2>4 DEF ResultKinds
  <2> QED BY <1>2, <2>1, <2>5 DEF Underway
<1>3. ~HasOpenSibling(g) => \A k \in Shards(g) : k \in Recorded /\ Final(k) /\ edges[k].group = g
  BY DEF HasOpenSibling, Shards
<1>4. g # NoEdge
  BY ConstantTypes DEF NoEdge
<1>5. ASSUME NEW e \in Ids, PlanMerge(e) PROVE Underway(g, r)
  <2>1. e \in Recorded /\ MergePlanned(e, groups[edges[e].group], e) /\ ~MustWait(edges[e].group)
    BY <1>5, PlanMergeDoes
  <2>2. edges[e].group = g
    BY <2>1 DEF MergePlanned
  <2>3. groups'[g].results = groups[g].results /\ groups'[g].failed = groups[g].failed
        /\ groups'[g].expected = groups[g].expected
    BY <2>1, <2>2 DEF MergePlanned
  <2>4. ~HasOpenSibling(g)
    BY <2>1, <2>2 DEF MustWait
  <2>5. r \in Roles
    <3>1. groups[g] \in GroupRecords
      BY GroupTypes
    <3> QED BY <2>3, <3>1 DEF Missing, GroupRecords
  <2>6. \A k \in Shards(g) : edges[k].to = r =>
          \/ outcome[k].stage \in {"respond", "mark", "close", "shard", "planFailure"}
          \/ edges[k].state = "cancelled"
          \/ groups'[g].results[r] # "none"
    BY <1>3, <1>4, <2>3, <2>4, ToldIsKnown
  <2>7. \A x \in Roles : groups'[g].results[x] = "failed" => x \in groups'[g].failed
    BY <2>3 DEF Results
  <2> QED BY <1>2, <2>1, <2>2, <2>4, <2>5, <2>6, <2>7
<1>6. ASSUME NEW e \in Ids, PlanFailure(e) PROVE Underway(g, r)
  <2> DEFINE new == Refreshed(g, edges[e].to, "failed")
  <2>1. e \in Recorded
        /\ MergePlanned(e, Refreshed(edges[e].group, edges[e].to, "failed"), NoEdge)
        /\ ~HasOpenSibling(edges[e].group)
    BY <1>6, PlanFailureDoes
  <2>2. edges[e].group = g
    BY <2>1 DEF MergePlanned
  <2>3. groups'[g].results = new.results /\ groups'[g].failed = new.failed
        /\ groups'[g].expected = new.expected
    BY <2>1, <2>2 DEF MergePlanned
  <2>4. edges[e].to \in Roles
    BY <2>1, EdgeTypes
  <2>5. /\ new.expected = groups[g].expected
        /\ \A x \in Roles : new.results[x] = IF x = edges[e].to THEN "failed"
                                             ELSE groups[g].results[x]
        /\ \A x \in Roles : new.results[x] = "failed" => x \in new.failed
    BY <2>4, RefreshedIs
  <2> HIDE DEF new
  <2>6. r \in Roles
    <3>1. groups[g] \in GroupRecords
      BY GroupTypes
    <3> QED BY <2>3, <2>5, <3>1 DEF Missing, GroupRecords
  <2>7. \A k \in Shards(g) : edges[k].to = r =>
          \/ outcome[k].stage \in {"respond", "mark", "close", "shard", "planFailure"}
          \/ edges[k].state = "cancelled"
          \/ groups'[g].results[r] # "none"
    BY <1>3, <1>4, <2>1, <2>2, <2>3, <2>5, <2>6, ToldIsKnown
  <2>8. \A x \in Roles : groups'[g].results[x] = "failed" => x \in groups'[g].failed
    BY <2>3, <2>5
  <2> QED BY <1>2, <2>1, <2>2, <2>6, <2>7, <2>8
<1>7. CASE Quiet
  BY <1>7 DEF Quiet
<1>8. ASSUME NEW e \in Ids, RecordShard(e) PROVE FALSE
  BY <1>8 DEF RecordShard
<1>9. ASSUME NEW e \in Ids, NEW q \in outcome[e].todo, Dispatch(e, q) PROVE FALSE
  BY <1>9 DEF Dispatch
<1> QED BY <1>1, <1>5, <1>6, <1>7, <1>8, <1>9, StepSorts

-----------------------------------------------------------------------------
(* Steps without a fault                                                   *)

\* Without a fault, no outcome starts over and no handoff is given up.
LEMMA CalmCases ==
  ASSUME TypeOK, Shape, States, Next, faults' = 0
  PROVE  \E e \in Ids :
           \/ \E kind \in {"reply", "failure"}, mentions \in SUBSET Roles :
                Answer(e, kind, mentions)
           \/ Respond(e)
           \/ Mark(e)
           \/ Close(e)
           \/ RecordShard(e)
           \/ Decide(e)
           \/ PlanMerge(e)
           \/ PlanFailure(e)
           \/ \E q \in outcome[e].todo : Dispatch(e, q)
           \/ DispatchEnds(e)
           \/ Recover(e)
           \/ Release(e)
<1>1. ASSUME NEW e \in Ids, Forget(e) PROVE FALSE
  BY <1>1, ForgetDoes DEF States
<1>2. ASSUME NEW e \in Ids, Throw(e) \/ Replay(e) PROVE FALSE
  BY <1>2, RestartDoes
<1>3. ASSUME NEW e \in Ids, Abandon(e) PROVE FALSE
  BY <1>3, AbandonDoes
<1>4. ~Crash
  BY CrashDoes
<1>5. ASSUME NEW e \in Ids, Lose(e) PROVE FALSE
  BY <1>5, LoseDoes
<1> QED BY NextCases, <1>1, <1>2, <1>3, <1>4, <1>5

\* A fault is never forgotten.
LEMMA FaultsStay ==
  ASSUME TypeOK, Shape, Next, faults' = 0
  PROVE  faults = 0
<1>1. ASSUME NEW e \in Ids, Throw(e) \/ Replay(e) PROVE FALSE
  BY <1>1, RestartDoes
<1>2. ASSUME NEW e \in Ids, Abandon(e) PROVE FALSE
  BY <1>2, AbandonDoes
<1>3. ~Crash
  BY CrashDoes
<1>4. ASSUME NEW e \in Ids, Answers(e) \/ Materialize(e) PROVE faults' = faults
  BY <1>4 DEF Answers, Materialize, Answer, Respond, Mark, Close, RecordShard, Decide,
     PlanMerge, PlanFailure, Dispatch, DispatchEnds, Recover, Release, Forget
<1>5. ASSUME NEW e \in Ids, Lose(e) PROVE FALSE
  BY <1>5, LoseDoes
<1> QED BY <1>1, <1>2, <1>3, <1>4, <1>5 DEF Next

\* A step of one outcome that neither records an edge nor changes the status
\* of a group.
Plain(e, stage, todo, state) ==
  /\ Moves(e, stage, todo)
  /\ EdgeBecomes(e, state)
  /\ \A g \in Ids : /\ groups'[g].status = groups[g].status
                    /\ groups'[g].expected = groups[g].expected
  /\ early' = early

\* The outcome moves on after the step.
WillMoveOn(e, stage, todo) ==
  \/ stage \in {"none", "respond", "mark", "close", "shard", "planFailure", "recover"}
  \/ stage = "dispatch" /\ todo # {}
  \/ /\ stage \in {"decide", "planMerge"}
     /\ edges[e].group # NoEdge => groups[edges[e].group].status # "merged"

\* What such a step has to respect.
PlainFits(e, stage, todo, state) ==
  /\ stage # "forget"
  /\ stage \in Open => state \in {"created", "responded"}
  /\ stage \notin Open => state = "closed"
  /\ outcome[e].stage \in {"dispatch", "done"} => stage \in {"dispatch", "done"}
  /\ TodoFits(e, todo)
  /\ \A x \in flow'.active :
       /\ x \in flow.active
       /\ outcome[e].stage \in {"none", "respond", "mark"} /\ x = edges[e].to =>
            stage \in {"none", "respond", "mark"}
  /\ outcome[e].stage \in Told => stage \in Told
  /\ \A q \in todo : \/ q \in outcome[e].todo
                     \/ q.group = NoEdge
                     \/ q.group \in Ids /\ groups[q.group].status # "merged"
  /\ early = {} => \/ WillMoveOn(e, stage, todo)
                   \/ flow'.status \in {"completed", "aborted"}
                   \/ /\ flow'.status = flow.status
                      /\ MovesOn(e) => \E k \in Recorded : k # e /\ MovesOn(k)

\* Such a step keeps everything.
LEMMA PlainStep ==
  ASSUME TypeOK, Shape, Calm, NEW e \in Recorded, NEW stage, NEW todo, NEW state,
         Plain(e, stage, todo, state), PlainFits(e, stage, todo, state)
  PROVE  Calm'
<1>1. /\ Recorded' = Recorded /\ e \in Ids /\ early' = early
      /\ \A k \in Recorded : k \in Ids
      /\ \A k \in Recorded : /\ edges'[k].to = edges[k].to
                             /\ edges'[k].source = edges[k].source
                             /\ edges'[k].group = edges[k].group
      /\ \A k \in Recorded : k # e => edges'[k].state = edges[k].state
      /\ edges'[e].state = state
  BY EdgeTypes DEF Plain, EdgeBecomes
<1>2. /\ \A k \in Ids : k # e => outcome'[k] = outcome[k]
      /\ outcome'[e].mentions = outcome[e].mentions
      /\ outcome'[e].stage = stage /\ outcome'[e].todo = todo
  BY DEF Plain, Moves
<1>3. \A g \in Ids : /\ groups'[g].status = groups[g].status
                     /\ groups'[g].expected = groups[g].expected
  BY DEF Plain
<1>4. States'
  BY <1>1, <1>2 DEF States, Calm, PlainFits
<1>5. Fresh'
  BY <1>1, <1>2, <1>3 DEF Fresh, Calm, PlainFits
<1>6. Todo'
  <2>1. ASSUME NEW k \in Ids, NEW s, TodoFits(k, s), outcome'[k].mentions = outcome[k].mentions,
               outcome'[k].todo = s
        PROVE  TodoFits(k, outcome[k].todo)'
    BY <1>1, <2>1 DEF TodoFits, FanOut, Retry
  <2>2. ASSUME NEW k \in Ids PROVE TodoFits(k, outcome[k].todo)'
    <3>1. CASE k = e
      BY <1>2, <2>1, <3>1 DEF PlainFits
    <3>2. CASE k # e
      BY <1>2, <2>1, <3>2 DEF Calm, Todo
    <3> QED BY <3>1, <3>2
  <2> QED BY <2>2 DEF Todo
<1>7. Expected'
  BY <1>1, <1>2, <1>3 DEF Expected, Calm
<1>8. Active'
  <2>1. ASSUME NEW x \in flow'.active
        PROVE  \E k \in Recorded : edges'[k].to = x
                 /\ outcome'[k].stage \in {"none", "respond", "mark"}
    <3>1. x \in flow.active
      BY DEF PlainFits
    <3>2. PICK k \in Recorded : edges[k].to = x /\ outcome[k].stage \in {"none", "respond", "mark"}
      BY <3>1 DEF Calm, Active
    <3>3. CASE k = e
      BY <1>1, <1>2, <3>2, <3>3 DEF PlainFits
    <3>4. CASE k # e
      BY <1>1, <1>2, <3>2, <3>4
    <3> QED BY <3>3, <3>4
  <2> QED BY <1>1, <2>1 DEF Active
<1>9. Settled'
  <2>1. ASSUME NEW g \in Ids, groups'[g].status = "merged", g \notin early'
        PROVE  /\ \A k \in Recorded' : edges'[k].group = g => outcome'[k].stage \in Told
               /\ \A k \in Ids : \A q \in outcome'[k].todo : q.group # g
    <3>1. /\ groups[g].status = "merged" /\ g # NoEdge
          /\ \A k \in Recorded : edges[k].group = g => outcome[k].stage \in Told
          /\ \A k \in Ids : \A q \in outcome[k].todo : q.group # g
      BY <1>1, <1>3, <2>1, ConstantTypes DEF Calm, Settled, NoEdge
    <3>2. \A k \in Recorded' : edges'[k].group = g => outcome'[k].stage \in Told
      BY <1>1, <1>2, <3>1 DEF PlainFits
    <3>3. \A k \in Ids : \A q \in outcome'[k].todo : q.group # g
      BY <1>1, <1>2, <3>1 DEF PlainFits
    <3> QED BY <3>2, <3>3
  <2> QED BY <2>1 DEF Settled
<1>10. Goes'
  <2>1. edges[e].group # NoEdge => edges[e].group \in Ids
    BY EdgeTypes
  <2>2. WillMoveOn(e, stage, todo) => MovesOn(e)'
    BY <1>1, <1>2, <1>3, <2>1 DEF WillMoveOn, MovesOn
  <2>3. ASSUME NEW k \in Recorded, k # e, MovesOn(k) PROVE MovesOn(k)'
    <3>1. edges[k].group # NoEdge => edges[k].group \in Ids
      BY EdgeTypes
    <3> QED BY <1>1, <1>2, <1>3, <2>3, <3>1 DEF MovesOn
  <2>4. ASSUME early = {}
        PROVE  flow'.status \in {"completed", "aborted"} \/ \E k \in Recorded : MovesOn(k)'
    BY <2>2, <2>3, <2>4 DEF PlainFits, Calm, Goes
  <2> QED BY <1>1, <2>4 DEF Goes
<1> QED BY <1>4, <1>5, <1>6, <1>7, <1>8, <1>9, <1>10 DEF Calm

\* What an outcome and its edge are without faults.
LEMMA CalmIs ==
  ASSUME TypeOK, Shape, Calm, NEW e \in Recorded
  PROVE  /\ e \in Ids /\ e # NoEdge
         /\ TodoFits(e, outcome[e].todo)
         /\ outcome[e].stage \in Open => edges[e].state \in {"created", "responded"}
         /\ outcome[e].stage \notin Open => edges[e].state = "closed"
         /\ outcome[e].stage \notin {"dispatch", "done"} =>
              /\ \A k \in Recorded : edges[k].source # e /\ edges[k].group # e
              /\ groups[e].status = "none"
BY EdgeTypes DEF Calm, States, Fresh, Todo

\* Groups that stay as they are, or are refreshed.
LEMMA SameGroups ==
  ASSUME groups' = groups
  PROVE  \A g \in Ids : /\ groups'[g].status = groups[g].status
                        /\ groups'[g].expected = groups[g].expected
OBVIOUS

\* The edge responds.
LEMMA CalmRespond ==
  ASSUME TypeOK, Shape, Calm, NEW e \in Ids, Respond(e)
  PROVE  Calm'
<1> DEFINE todo == outcome[e].todo
<1>1. e \in Recorded /\ outcome[e].stage = "respond"
      /\ Moves(e, "mark", todo) /\ EdgeBecomes(e, "responded")
  BY RespondDoes
<1>2. groups' = groups /\ flow' = flow /\ early' = early
  BY DEF Respond
<1>3. TodoFits(e, todo)
  BY <1>1, CalmIs
<1> HIDE DEF todo
<1>4. Plain(e, "mark", todo, "responded")
  BY <1>1, <1>2, SameGroups DEF Plain
<1>5. \A q \in todo : q \in outcome[e].todo
  BY DEF todo
<1>6. WillMoveOn(e, "mark", todo)
  BY DEF WillMoveOn
<1>7. PlainFits(e, "mark", todo, "responded")
  BY <1>1, <1>2, <1>3, <1>5, <1>6 DEF PlainFits, Open, Told
<1> QED BY <1>1, <1>4, <1>7, PlainStep

\* The role is no longer active.
LEMMA CalmMark ==
  ASSUME TypeOK, Shape, Calm, NEW e \in Ids, Mark(e)
  PROVE  Calm'
<1> DEFINE todo == outcome[e].todo
           state == edges[e].state
<1>1. e \in Recorded /\ outcome[e].stage = "mark" /\ flow'.active = flow.active \ {edges[e].to}
      /\ Moves(e, "close", todo) /\ EdgeBecomes(e, state)
  BY MarkDoes
<1>2. groups' = groups /\ early' = early
  BY DEF Mark
<1>3. TodoFits(e, todo) /\ state \in {"created", "responded"}
  BY <1>1, CalmIs DEF Open
<1>4. \A q \in todo : q \in outcome[e].todo
  BY DEF todo
<1> HIDE DEF todo, state
<1>5. Plain(e, "close", todo, state)
  BY <1>1, <1>2, SameGroups DEF Plain
<1>6. WillMoveOn(e, "close", todo)
  BY DEF WillMoveOn
<1>7. PlainFits(e, "close", todo, state)
  BY <1>1, <1>3, <1>4, <1>6 DEF PlainFits, Open, Told
<1> QED BY <1>1, <1>5, <1>7, PlainStep

\* The edge is closed, and its result is not yet told.
LEMMA CalmClose ==
  ASSUME TypeOK, Shape, Calm, NEW e \in Ids, Close(e)
  PROVE  Calm'
<1> DEFINE todo == outcome[e].todo
           stage == IF outcome[e].kind = "reply" THEN "shard"
                    ELSE IF edges[e].group # NoEdge THEN "planFailure" ELSE "recover"
<1>1. e \in Recorded /\ outcome[e].stage = "close"
      /\ Moves(e, stage, todo) /\ EdgeBecomes(e, "closed")
  BY CloseDoes
<1>2. groups' = groups /\ flow' = flow /\ early' = early
  BY DEF Close
<1>3. TodoFits(e, todo)
  BY <1>1, CalmIs
<1>4. \A q \in todo : q \in outcome[e].todo
  BY DEF todo
<1>5. stage \in {"shard", "planFailure", "recover"}
  OBVIOUS
<1> HIDE DEF todo, stage
<1>6. Plain(e, stage, todo, "closed")
  BY <1>1, <1>2, SameGroups DEF Plain
<1>7. WillMoveOn(e, stage, todo)
  BY <1>5 DEF WillMoveOn
<1>8. PlainFits(e, stage, todo, "closed")
  BY <1>1, <1>2, <1>3, <1>4, <1>5, <1>7 DEF PlainFits, Open, Told
<1> QED BY <1>1, <1>6, <1>8, PlainStep

\* A shard that is told finds its group waiting, if merges wait.
LEMMA CalmRecordShard ==
  ASSUME TypeOK, Shape, Calm, NEW e \in Ids, RecordShard(e)
  PROVE  Calm'
<1> DEFINE todo == outcome[e].todo
           state == edges[e].state
           g == edges[e].group
<1>1. e \in Recorded /\ outcome[e].stage = "shard"
      /\ Moves(e, "decide", todo) /\ EdgeBecomes(e, state)
  BY RecordShardDoes
<1>2. flow' = flow /\ early' = early
  BY DEF RecordShard
<1>3. TodoFits(e, todo) /\ state = "closed"
  BY <1>1, CalmIs DEF Open
<1>4. \A q \in todo : q \in outcome[e].todo
  BY DEF todo
<1>5. \A h \in Ids : /\ groups'[h].status = groups[h].status
                     /\ groups'[h].expected = groups[h].expected
  <2>1. CASE g = NoEdge
    BY <2>1, RecordShardDoes, SameGroups
  <2>2. CASE g # NoEdge
    BY <1>1, <2>2, RecordShardDoes, EdgeTypes, RefreshedIs DEF GroupBecomes
  <2> QED BY <2>1, <2>2
<1>6. early = {} => WillMoveOn(e, "decide", todo)
  <2>1. outcome[e].stage \notin Told
    BY <1>1 DEF Told
  <2>2. g # NoEdge /\ early = {} => groups[g].status # "merged"
    BY <1>1, <2>1, EdgeTypes DEF Calm, Settled
  <2> QED BY <2>2 DEF WillMoveOn
<1> HIDE DEF todo, state, g
<1>7. Plain(e, "decide", todo, state)
  BY <1>1, <1>2, <1>5 DEF Plain
<1>8. PlainFits(e, "decide", todo, state)
  BY <1>1, <1>2, <1>3, <1>4, <1>6 DEF PlainFits, Open, Told
<1> QED BY <1>1, <1>7, <1>8, PlainStep

\* A fan-out, or a handoff to one role, was not dispatched before.
LEMMA CalmDecide ==
  ASSUME TypeOK, Shape, Calm, NEW e \in Ids, Decide(e)
  PROVE  Calm'
<1> DEFINE state == edges[e].state
           targets == outcome[e].mentions
<1>1. e \in Recorded /\ outcome[e].stage = "decide" /\ EdgeBecomes(e, state)
  BY DecideDoes
<1>2. groups' = groups /\ flow' = flow /\ early' = early
  BY DEF Decide
<1>3. /\ TodoFits(e, outcome[e].todo) /\ state = "closed" /\ e # NoEdge
      /\ \A k \in Recorded : edges[k].source # e /\ edges[k].group # e
      /\ groups[e].status = "none"
  BY <1>1, CalmIs DEF Open
<1> HIDE DEF state
<1>4. ASSUME NEW group \in {e, NoEdge}, targets # {},
             Moves(e, "dispatch", {[to |-> r, source |-> e, group |-> group] : r \in targets})
      PROVE  Calm'
    <2> DEFINE todo == {[to |-> r, source |-> e, group |-> group] : r \in targets}
    <2>1. todo # {}
      BY <1>4
    <2>2. \A q \in todo : q.source = e /\ q.group = group /\ q.to \in targets
      OBVIOUS
    <2>3. \A p, q \in todo : p.to = q.to => p = q
      OBVIOUS
    <2>4. Plain(e, "dispatch", todo, state)
      BY <1>1, <1>2, <1>4, SameGroups DEF Plain
    <2> HIDE DEF todo
    <2>5. TodoFits(e, todo)
      BY <1>3, <1>4, <2>2, <2>3 DEF TodoFits, FanOut
    <2>6. WillMoveOn(e, "dispatch", todo)
      BY <2>1 DEF WillMoveOn
    <2>7. \A q \in todo : q.group = NoEdge \/ (q.group \in Ids /\ groups[q.group].status # "merged")
      BY <1>3, <1>4, <2>2
    <2>8. PlainFits(e, "dispatch", todo, state)
      BY <1>1, <1>2, <1>3, <2>5, <2>6, <2>7 DEF PlainFits, Open, Told
    <2> QED BY <1>1, <2>4, <2>8, PlainStep
<1>5. ASSUME NEW stage \in {"planMerge", "recover"}, Moves(e, stage, outcome[e].todo)
      PROVE  Calm'
  <2>1. Plain(e, stage, outcome[e].todo, state)
    BY <1>1, <1>2, <1>5, SameGroups DEF Plain
  <2>2. MovesOn(e) => WillMoveOn(e, stage, outcome[e].todo)
    BY <1>1, <1>5 DEF WillMoveOn, MovesOn
  <2>3. PlainFits(e, stage, outcome[e].todo, state)
    BY <1>1, <1>2, <1>3, <1>5, <2>2 DEF PlainFits, Open, Told
  <2> QED BY <1>1, <2>1, <2>3, PlainStep
<1> QED BY <1>4, <1>5, DecideDoes DEF state

\* An outcome with nothing left to dispatch did not move the flow on.
LEMMA CalmDispatchEnds ==
  ASSUME TypeOK, Shape, Calm, NEW e \in Ids, DispatchEnds(e)
  PROVE  Calm'
<1> DEFINE todo == outcome[e].todo
           state == edges[e].state
<1>1. e \in Recorded /\ outcome[e].stage = "dispatch" /\ outcome[e].todo = {}
      /\ Moves(e, "done", todo) /\ EdgeBecomes(e, state)
  BY DispatchEndsDoes
<1>2. groups' = groups /\ flow' = flow /\ early' = early
  BY DEF DispatchEnds
<1>3. TodoFits(e, todo) /\ state = "closed"
  BY <1>1, CalmIs DEF Open
<1>4. \A q \in todo : q \in outcome[e].todo
  BY DEF todo
<1>5. ~MovesOn(e)
  BY <1>1 DEF MovesOn
<1> HIDE DEF todo, state
<1>6. Plain(e, "done", todo, state)
  BY <1>1, <1>2, SameGroups DEF Plain
<1>7. PlainFits(e, "done", todo, state)
  BY <1>1, <1>2, <1>3, <1>4, <1>5 DEF PlainFits, Open, Told
<1> QED BY <1>1, <1>6, <1>7, PlainStep

\* Nor did one that is done.
LEMMA CalmRelease ==
  ASSUME TypeOK, Shape, Calm, NEW e \in Ids, Release(e)
  PROVE  Calm'
<1> DEFINE todo == outcome[e].todo
           state == edges[e].state
<1>1. e \in Recorded /\ outcome[e].stage = "done"
      /\ Moves(e, "done", todo) /\ EdgeBecomes(e, state)
  BY ReleaseDoes
<1>2. groups' = groups /\ flow' = flow /\ early' = early
  BY DEF Release
<1>3. TodoFits(e, todo) /\ state = "closed"
  BY <1>1, CalmIs DEF Open
<1>4. \A q \in todo : q \in outcome[e].todo
  BY DEF todo
<1>5. ~MovesOn(e)
  BY <1>1 DEF MovesOn
<1> HIDE DEF todo, state
<1>6. Plain(e, "done", todo, state)
  BY <1>1, <1>2, SameGroups DEF Plain
<1>7. PlainFits(e, "done", todo, state)
  BY <1>1, <1>2, <1>3, <1>4, <1>5 DEF PlainFits, Open, Told
<1> QED BY <1>1, <1>6, <1>7, PlainStep

\* A recovery ends the flow, or hands it to the lead.
LEMMA CalmRecover ==
  ASSUME TypeOK, Shape, Calm, NEW e \in Ids, Recover(e)
  PROVE  Calm'
<1> DEFINE state == edges[e].state
<1>1. e \in Recorded /\ outcome[e].stage = "recover" /\ EdgeBecomes(e, state)
  BY RecoverDoes
<1>2. groups' = groups /\ early' = early
  BY DEF Recover
<1>3. /\ TodoFits(e, outcome[e].todo) /\ state = "closed" /\ e # NoEdge
      /\ \A k \in Recorded : edges[k].source # e /\ edges[k].group # e
  BY <1>1, CalmIs DEF Open
<1> HIDE DEF state
<1>4. CASE /\ Moves(e, "done", outcome[e].todo)
           /\ flow'.status \in {"completed", "aborted"} /\ flow'.active = {}
  <2>1. Plain(e, "done", outcome[e].todo, state)
    BY <1>1, <1>2, <1>4, SameGroups DEF Plain
  <2>2. PlainFits(e, "done", outcome[e].todo, state)
    BY <1>1, <1>3, <1>4 DEF PlainFits, Open, Told
  <2> QED BY <1>1, <2>1, <2>2, PlainStep
<1>5. CASE /\ Moves(e, "dispatch", {[to |-> Lead, source |-> e, group |-> NoEdge]})
           /\ flow' = flow
  <2> DEFINE todo == {[to |-> Lead, source |-> e, group |-> NoEdge]}
  <2>1. todo # {} /\ \A q \in todo : q.source = e /\ q.group = NoEdge
    OBVIOUS
  <2>2. \A p, q \in todo : p = q
    OBVIOUS
  <2>3. Plain(e, "dispatch", todo, state)
    BY <1>1, <1>2, <1>5, SameGroups DEF Plain
  <2> HIDE DEF todo
  <2>4. TodoFits(e, todo)
    BY <1>3, <2>1, <2>2 DEF TodoFits
  <2>5. WillMoveOn(e, "dispatch", todo)
    BY <2>1 DEF WillMoveOn
  <2>6. PlainFits(e, "dispatch", todo, state)
    BY <1>1, <1>3, <1>5, <2>1, <2>4, <2>5 DEF PlainFits, Open, Told
  <2> QED BY <1>1, <2>3, <2>6, PlainStep
<1> QED BY <1>4, <1>5, RecoverDoes DEF state

\* A role that answers is still active, and its message is not answered yet.
LEMMA CalmAnswer ==
  ASSUME TypeOK, Shape, Calm, NEW e \in Ids, NEW kind \in {"reply", "failure"},
         NEW mentions \in SUBSET Roles, Answer(e, kind, mentions)
  PROVE  Calm'
<1>1. /\ e \in Recorded /\ outcome[e].stage = "none"
      /\ \A k \in Ids : k # e => outcome'[k] = outcome[k]
      /\ outcome'[e].stage = "respond" /\ outcome'[e].todo = {}
  BY AnswerDoes
<1>2. /\ edges' = edges /\ groups' = groups /\ flow' = flow /\ early' = early
      /\ Recorded' = Recorded
  BY DEF Answer, Recorded, Hops
<1>3. \A k \in Recorded : k \in Ids
  BY EdgeTypes
<1>4. groups[e].status = "none" /\ outcome[e].todo = {}
  BY <1>1, CalmIs, Shapes DEF OutcomeShape
<1>5. States'
  BY <1>1, <1>2, <1>3 DEF Calm, States, Open
<1>6. Fresh'
  BY <1>1, <1>2 DEF Calm, Fresh
<1>7. Todo'
  <2>1. ASSUME NEW k \in Ids PROVE TodoFits(k, outcome[k].todo)'
    <3>1. CASE k = e
      BY <1>1, <3>1 DEF TodoFits
    <3>2. CASE k # e
      BY <1>1, <1>2, <3>2 DEF Calm, Todo, TodoFits, FanOut, Retry
    <3> QED BY <3>1, <3>2
  <2> QED BY <2>1 DEF Todo
<1>8. Expected'
  BY <1>1, <1>2, <1>4 DEF Calm, Expected
<1>9. Active'
  <2>1. ASSUME NEW x \in flow.active
        PROVE  \E k \in Recorded : edges[k].to = x
                 /\ outcome'[k].stage \in {"none", "respond", "mark"}
    BY <1>1, <1>3 DEF Calm, Active
  <2> QED BY <1>2, <2>1 DEF Active
<1>10. Settled'
  <2>1. ASSUME NEW g \in Ids, groups[g].status = "merged", g \notin early
        PROVE  /\ \A k \in Recorded : edges[k].group = g => outcome'[k].stage \in Told
               /\ \A k \in Ids : \A q \in outcome'[k].todo : q.group # g
    <3>1. /\ \A k \in Recorded : edges[k].group = g => outcome[k].stage \in Told
          /\ \A k \in Ids : \A q \in outcome[k].todo : q.group # g
      BY <2>1 DEF Calm, Settled
    <3>2. outcome[e].stage \notin Told
      BY <1>1 DEF Told
    <3> QED BY <1>1, <1>3, <3>1, <3>2
  <2> QED BY <1>2, <2>1 DEF Settled
<1>11. Goes'
  BY <1>1, <1>2 DEF Goes, MovesOn
<1> QED BY <1>5, <1>6, <1>7, <1>8, <1>9, <1>10, <1>11 DEF Calm

\* An open edge is one of an outcome that moves the flow on.
LEMMA OpenMovesOn ==
  ASSUME TypeOK, Shape, Calm, NEW g \in Ids, HasOpenSibling(g)
  PROVE  \E k \in Recorded : MovesOn(k) /\ outcome[k].stage \in Open
<1>1. PICK k \in Recorded : edges[k].group = g /\ ~Final(k)
  BY DEF HasOpenSibling, Shards
<1>2. edges[k].state # "closed"
  BY <1>1 DEF Final
<1>3. outcome[k].stage \in Open
  BY <1>2, CalmIs
<1> QED BY <1>3 DEF Open, MovesOn

\* A plan of a failure or a reply: the outcome dispatches next, or is done, and
\* one group with shards changes its status.
GroupPlanned(e, stage, todo) ==
  /\ Moves(e, stage, todo)
  /\ EdgeBecomes(e, edges[e].state)
  /\ \A h \in Ids : h # edges[e].group => groups'[h] = groups[h]
  /\ groups'[edges[e].group].status # "none"
  /\ groups'[edges[e].group].expected = groups[edges[e].group].expected
  /\ flow' = flow

\* Such a plan keeps what its next stage does not concern.
LEMMA PlannedStep ==
  ASSUME TypeOK, Shape, Calm, NEW e \in Recorded, NEW stage \in {"dispatch", "done"},
         NEW todo, GroupPlanned(e, stage, todo), TodoFits(e, todo),
         outcome[e].stage \in {"planMerge", "planFailure"}
  PROVE  /\ (States /\ Fresh /\ Todo /\ Expected /\ Active)'
         /\ \A k \in Recorded : edges'[k].to = edges[k].to /\ edges'[k].group = edges[k].group
         /\ \A k \in Recorded : k # e => outcome'[k] = outcome[k]
         /\ outcome'[e].stage = stage /\ outcome'[e].todo = todo
         /\ Recorded' = Recorded
<1> DEFINE g == edges[e].group
<1>1. /\ Recorded' = Recorded /\ e \in Ids /\ g \in Ids /\ g # NoEdge
      /\ \A k \in Recorded : k \in Ids
      /\ \A k \in Recorded : /\ edges'[k].to = edges[k].to
                             /\ edges'[k].source = edges[k].source
                             /\ edges'[k].group = edges[k].group
                             /\ k # e => edges'[k].state = edges[k].state
      /\ edges'[e].state = edges[e].state
  BY EdgeTypes, Shapes DEF GroupPlanned, EdgeBecomes, EdgeShape
<1>2. /\ \A k \in Ids : k # e => outcome'[k] = outcome[k]
      /\ outcome'[e].mentions = outcome[e].mentions
      /\ outcome'[e].stage = stage /\ outcome'[e].todo = todo
  BY DEF GroupPlanned, Moves
<1>3. groups[g].status # "none" /\ outcome[g].stage \in {"dispatch", "done"}
  <2>1. groups[g].status # "none"
    BY <1>1, Shapes DEF EdgeShape
  <2> QED BY <1>1, <2>1 DEF Calm, Fresh
<1>4. edges[e].state = "closed"
  BY CalmIs DEF Open
<1>5. States'
  BY <1>1, <1>2, <1>4 DEF Calm, States, Open
<1>6. Fresh'
  <2>1. ASSUME NEW x \in Ids, outcome'[x].stage \notin {"dispatch", "done"}
        PROVE  /\ \A k \in Recorded' : edges'[k].source # x /\ edges'[k].group # x
               /\ groups'[x].status = "none"
    <3>1. x # e /\ x # g
      BY <1>1, <1>2, <1>3, <2>1
    <3>2. /\ \A k \in Recorded : edges[k].source # x /\ edges[k].group # x
          /\ groups[x].status = "none"
      BY <1>2, <2>1, <3>1 DEF Calm, Fresh
    <3>3. groups'[x] = groups[x]
      BY <3>1 DEF GroupPlanned
    <3> QED BY <1>1, <3>2, <3>3
  <2> QED BY <2>1 DEF Fresh
<1>7. Todo'
  <2>1. ASSUME NEW k \in Ids, NEW s, TodoFits(k, s), outcome'[k].mentions = outcome[k].mentions,
               outcome'[k].todo = s
        PROVE  TodoFits(k, outcome[k].todo)'
    BY <1>1, <2>1 DEF TodoFits, FanOut, Retry
  <2>2. ASSUME NEW k \in Ids PROVE TodoFits(k, outcome[k].todo)'
    <3>1. CASE k = e
      BY <1>2, <2>1, <3>1
    <3>2. CASE k # e
      BY <1>2, <2>1, <3>2 DEF Calm, Todo
    <3> QED BY <3>1, <3>2
  <2> QED BY <2>2 DEF Todo
<1>8. Expected'
  <2>1. ASSUME NEW h \in Ids, groups'[h].status # "none"
        PROVE  groups'[h].expected = outcome'[h].mentions
    <3>1. outcome'[h].mentions = outcome[h].mentions
      BY <1>2
    <3>2. CASE h = g
      BY <1>3, <3>1, <3>2 DEF Calm, Expected, GroupPlanned
    <3>3. CASE h # g
      BY <2>1, <3>1, <3>3 DEF Calm, Expected, GroupPlanned
    <3> QED BY <3>2, <3>3
  <2> QED BY <2>1 DEF Expected
<1>9. Active'
  <2>1. ASSUME NEW x \in flow.active
        PROVE  \E k \in Recorded : edges'[k].to = x
                 /\ outcome'[k].stage \in {"none", "respond", "mark"}
    BY <1>1, <1>2 DEF Calm, Active
  <2>2. flow' = flow
    BY DEF GroupPlanned
  <2> QED BY <1>1, <2>1, <2>2 DEF Active
<1> QED BY <1>1, <1>2, <1>5, <1>6, <1>7, <1>8, <1>9

\* The other groups stay settled, and the one planned for if its shards are.
LEMMA SettledPlanned ==
  ASSUME TypeOK, Shape, Calm, NEW e \in Recorded, NEW stage \in {"dispatch", "done"},
         NEW todo, GroupPlanned(e, stage, todo), TodoFits(e, todo),
         outcome[e].stage \in {"planMerge", "planFailure"},
         \A q \in todo : q.group \in {NoEdge, edges[e].group},
         early \subseteq early',
         groups'[edges[e].group].status = "merged" /\ edges[e].group \notin early' =>
           /\ \A k \in Recorded : edges[k].group = edges[e].group /\ k # e =>
                outcome[k].stage \in Told
           /\ \A k \in Ids : k # e => \A q \in outcome[k].todo : q.group # edges[e].group
           /\ \A q \in todo : q.group # edges[e].group
  PROVE  Settled'
<1> DEFINE g == edges[e].group
<1>1. e \in Ids /\ g \in Ids /\ g # NoEdge /\ \A k \in Recorded : k \in Ids
  BY EdgeTypes, Shapes DEF EdgeShape
<1>2. /\ Recorded' = Recorded
      /\ \A k \in Recorded : edges'[k].group = edges[k].group
      /\ outcome'[e].stage = stage /\ outcome'[e].todo = todo
  BY PlannedStep
<1>3. \A k \in Ids : k # e => outcome'[k] = outcome[k]
  BY DEF GroupPlanned, Moves
<1>4. stage \in Told /\ 0 \notin Ids
  BY ConstantTypes DEF Told
<1>5. ASSUME NEW h \in Ids, groups'[h].status = "merged", h \notin early'
      PROVE  /\ \A k \in Recorded' : edges'[k].group = h => outcome'[k].stage \in Told
             /\ \A k \in Ids : \A q \in outcome'[k].todo : q.group # h
  <2>1. CASE h = g
    BY <1>1, <1>2, <1>3, <1>4, <1>5, <2>1
  <2>2. CASE h # g
    <3>1. groups[h].status = "merged" /\ h \notin early
      BY <1>5, <2>2 DEF GroupPlanned
    <3>2. /\ \A k \in Recorded : edges[k].group = h => outcome[k].stage \in Told
          /\ \A k \in Ids : \A q \in outcome[k].todo : q.group # h
      BY <3>1 DEF Calm, Settled
    <3> QED BY <1>1, <1>2, <1>3, <1>4, <2>2, <3>2 DEF NoEdge
  <2> QED BY <2>1, <2>2
<1> QED BY <1>5 DEF Settled

\* A merge that is planned when nothing is outstanding has all shards and
\* their results.
LEMMA NothingOutstanding ==
  ASSUME TypeOK, Shape, Calm, NEW e \in Recorded, edges[e].group # NoEdge,
         ~HasOpenSibling(edges[e].group), ~Outstanding(edges[e].group, e)
  PROVE  /\ \A k \in Recorded : edges[k].group = edges[e].group /\ k # e =>
              outcome[k].stage \in Told
         /\ \A k \in Ids : k # e => \A q \in outcome[k].todo : q.group # edges[e].group
<1> DEFINE g == edges[e].group
<1>1. g \in Ids /\ groups[g].status # "none"
  BY EdgeTypes, Shapes DEF EdgeShape
<1>2. ASSUME NEW k \in Recorded, edges[k].group = g, k # e
      PROVE  outcome[k].stage \in Told
  <2>1. k \in Shards(g) \ {e}
    BY <1>2 DEF Shards
  <2>2. outcome[k].stage \notin {"respond", "mark", "close", "shard", "planFailure"}
    BY <2>1 DEF Outstanding
  <2>3. Final(k)
    BY <2>1 DEF HasOpenSibling
  <2>4. outcome[k].stage \notin Open
    BY <2>3 DEF Final, Calm, States
  <2>5. outcome[k].stage \in Stages /\ outcome[k].stage # "forget"
    BY EdgeTypes, OutcomeTypes DEF Calm, States
  <2> QED BY <2>2, <2>4, <2>5 DEF Stages, Open, Told
<1>3. ASSUME NEW k \in Ids, k # e, NEW q \in outcome[k].todo, q.group = g
      PROVE  FALSE
  <2>1. FanOut(k, q) \/ Retry(k, q)
    BY <1>3 DEF Calm, Todo, TodoFits
  <2>2. CASE FanOut(k, q)
    <3>1. k = g /\ q.to \in outcome[g].mentions
          /\ \A d \in Recorded : edges[d].group = g => edges[d].to # q.to
      BY <1>3, <2>2 DEF FanOut
    <3>2. groups[g].expected = outcome[g].mentions
      BY <1>1 DEF Calm, Expected
    <3>3. q.to \in groups[g].expected /\ \A d \in Shards(g) : edges[d].to # q.to
      BY <3>1, <3>2 DEF Shards
    <3> QED BY <3>3 DEF Outstanding
  <2>3. CASE Retry(k, q)
    <3>1. k \in Shards(g) \ {e}
      BY <1>3, <2>3 DEF Retry, Shards
    <3> QED BY <1>3, <3>1 DEF Outstanding
  <2> QED BY <2>1, <2>2, <2>3
<1> QED BY <1>2, <1>3

\* The merge of a group, after a reply or a failure.
LEMMA CalmMerge ==
  ASSUME TypeOK, Shape, Calm, NEW e \in Recorded, edges[e].group # NoEdge,
         outcome[e].stage \in {"planMerge", "planFailure"},
         EdgeBecomes(e, edges[e].state), flow' = flow,
         NEW group, NEW source \in {NoEdge, e}, MergePlanned(e, group, source),
         group.expected = groups[edges[e].group].expected,
         ~HasOpenSibling(edges[e].group)
  PROVE  Calm'
<1> DEFINE todo == {[to |-> Lead, source |-> source, group |-> NoEdge]}
           g == edges[e].group
<1>1. todo # {} /\ (\A q \in todo : q.source = source /\ q.group = NoEdge)
      /\ (\A p, q \in todo : p = q)
  OBVIOUS
<1>2. e # NoEdge /\ \A k \in Recorded : edges[k].source # e
  BY CalmIs
<1>3. GroupPlanned(e, "dispatch", todo)
  BY DEF GroupPlanned, MergePlanned
<1>4. early' = IF Outstanding(g, e) THEN early \cup {g} ELSE early
  BY DEF MergePlanned
<1> HIDE DEF todo
<1>5. TodoFits(e, todo)
  BY <1>1, <1>2 DEF TodoFits
<1>6. /\ (States /\ Fresh /\ Todo /\ Expected /\ Active)'
      /\ outcome'[e].stage = "dispatch" /\ outcome'[e].todo = todo
      /\ Recorded' = Recorded
  BY <1>3, <1>5, PlannedStep
<1>7. g \notin early' => /\ \A k \in Recorded : edges[k].group = g /\ k # e =>
                              outcome[k].stage \in Told
                         /\ \A k \in Ids : k # e => \A q \in outcome[k].todo : q.group # g
  BY <1>4, NothingOutstanding
<1>8. Settled'
  BY <1>1, <1>3, <1>4, <1>5, <1>7, SettledPlanned
<1>9. Goes'
  BY <1>1, <1>6 DEF Goes, MovesOn
<1> QED BY <1>6, <1>8, <1>9 DEF Calm

\* After a reply: whoever has to be waited for moves the flow on.
LEMMA CalmPlanMerge ==
  ASSUME TypeOK, Shape, Calm, NEW e \in Ids, PlanMerge(e)
  PROVE  Calm'
<1> DEFINE g == edges[e].group
           state == edges[e].state
           todo == outcome[e].todo
<1>1. e \in Recorded /\ outcome[e].stage = "planMerge" /\ g # NoEdge
      /\ EdgeBecomes(e, state)
  BY PlanMergeDoes
<1>2. flow' = flow /\ g \in Ids
  BY <1>1, EdgeTypes DEF PlanMerge
<1>3. TodoFits(e, todo) /\ state = "closed"
  BY <1>1, CalmIs DEF Open
<1>4. ASSUME NEW stage \in {"done", "recover"}, Moves(e, stage, todo),
             groups' = groups, early' = early, stage = "done" => MustWait(g)
      PROVE  Calm'
  <2>1. Plain(e, stage, todo, state)
    BY <1>1, <1>4, SameGroups DEF Plain
  <2>2. stage = "done" /\ MovesOn(e) => \E k \in Recorded : k # e /\ MovesOn(k)
    <3>1. MovesOn(e) => groups[g].status # "merged"
      BY <1>1 DEF MovesOn
    <3>2. HasOpenSibling(g) => \E k \in Recorded : k # e /\ MovesOn(k)
      BY <1>1, <1>2, OpenMovesOn DEF Open
    <3> QED BY <1>4, <3>1, <3>2 DEF MustWait
  <2>3. stage = "recover" => WillMoveOn(e, stage, todo)
    BY DEF WillMoveOn
  <2>4. \A q \in todo : q \in outcome[e].todo
    BY DEF todo
  <2> HIDE DEF todo, state
  <2>5. PlainFits(e, stage, todo, state)
    BY <1>1, <1>2, <1>3, <1>4, <2>2, <2>3, <2>4 DEF PlainFits, Open, Told
  <2> QED BY <1>1, <2>1, <2>5, PlainStep
<1>5. CASE MergePlanned(e, groups[g], e) /\ ~MustWait(g)
  BY <1>1, <1>2, <1>5, CalmMerge DEF MustWait
<1> QED BY <1>4, <1>5, PlanMergeDoes

\* After a failure: the retry, somebody to be waited for, or the merge.
LEMMA CalmPlanFailure ==
  ASSUME TypeOK, Shape, Calm, NEW e \in Ids, PlanFailure(e)
  PROVE  Calm'
<1> DEFINE g == edges[e].group
           new == Refreshed(g, edges[e].to, "failed")
<1>1. e \in Recorded /\ outcome[e].stage = "planFailure" /\ g # NoEdge
      /\ EdgeBecomes(e, edges[e].state) /\ groups'[g].expected = new.expected
  BY PlanFailureDoes
<1>2. flow' = flow /\ g \in Ids /\ edges[e].to \in Roles
  BY <1>1, EdgeTypes DEF PlanFailure
<1>3. new.expected = groups[g].expected
  BY <1>2, RefreshedIs
<1>4. e # NoEdge /\ TodoFits(e, outcome[e].todo) /\ outcome[e].todo = {}
  BY <1>1, CalmIs, Shapes DEF OutcomeShape
<1>5. CASE /\ Moves(e, "dispatch", {[to |-> edges[e].to, source |-> NoEdge, group |-> g]})
           /\ \A h \in Ids : h # g => groups'[h] = groups[h]
           /\ groups'[g].status = "waiting_retry"
           /\ early' = early
  <2> DEFINE todo == {[to |-> edges[e].to, source |-> NoEdge, group |-> g]}
  <2>1. /\ todo # {}
        /\ \A q \in todo : q.source = NoEdge /\ q.group = g /\ q.to = edges[e].to
        /\ \A p, q \in todo : p = q
    OBVIOUS
  <2>2. GroupPlanned(e, "dispatch", todo)
    BY <1>1, <1>2, <1>3, <1>5 DEF GroupPlanned
  <2> HIDE DEF todo
  <2>3. TodoFits(e, todo)
    BY <1>1, <1>4, <2>1 DEF TodoFits, Retry
  <2>4. /\ (States /\ Fresh /\ Todo /\ Expected /\ Active)'
        /\ outcome'[e].stage = "dispatch" /\ outcome'[e].todo = todo
        /\ Recorded' = Recorded
    BY <1>1, <2>2, <2>3, PlannedStep
  <2>5. Settled'
    BY <1>1, <1>5, <2>1, <2>2, <2>3, SettledPlanned
  <2>6. Goes'
    BY <1>1, <2>1, <2>4 DEF Goes, MovesOn
  <2> QED BY <2>4, <2>5, <2>6 DEF Calm
<1>6. CASE /\ Moves(e, "done", outcome[e].todo) /\ HasOpenSibling(g)
           /\ \A h \in Ids : h # g => groups'[h] = groups[h]
           /\ groups'[g].status = "running"
           /\ early' = early
  <2>1. GroupPlanned(e, "done", outcome[e].todo)
    BY <1>1, <1>2, <1>3, <1>6 DEF GroupPlanned
  <2>2. /\ (States /\ Fresh /\ Todo /\ Expected /\ Active)'
        /\ \A k \in Recorded : k # e => outcome'[k] = outcome[k]
        /\ Recorded' = Recorded
    BY <1>1, <1>4, <2>1, PlannedStep
  <2>3. Settled'
    BY <1>1, <1>4, <1>6, <2>1, SettledPlanned
  <2>4. PICK k \in Recorded : outcome[k].stage \in Open
    BY <1>2, <1>6, OpenMovesOn
  <2>5. k # e
    BY <1>1, <2>4 DEF Open
  <2>6. Goes'
    BY <2>2, <2>4, <2>5 DEF Goes, MovesOn, Open
  <2> QED BY <2>2, <2>3, <2>6 DEF Calm
<1>7. CASE MergePlanned(e, new, NoEdge) /\ ~HasOpenSibling(g)
  <2> HIDE DEF new
  <2> QED BY <1>1, <1>2, <1>3, <1>7, CalmMerge
<1> QED BY <1>5, <1>6, <1>7, PlanFailureDoes

\* A handoff that is not dispatched leaves a role that is active, or ends the
\* flow.
LEMMA CalmNotDispatched ==
  ASSUME TypeOK, Shape, Calm, NEW e \in Recorded, outcome[e].stage = "dispatch",
         NEW q \in outcome[e].todo, Moves(e, "dispatch", outcome[e].todo \ {q}),
         NotDispatched(q), early' = early
  PROVE  Calm'
<1> DEFINE todo == outcome[e].todo \ {q}
           state == edges[e].state
<1>1. EdgeBecomes(e, state) /\ groups' = groups /\ flow'.active = flow.active
  BY EdgeSame DEF NotDispatched
<1>2. TodoFits(e, outcome[e].todo) /\ state = "closed" /\ e # NoEdge
  BY CalmIs DEF Open
<1>3. TodoFits(e, todo)
  BY <1>2 DEF TodoFits
<1>4. \A p \in todo : p \in outcome[e].todo
  OBVIOUS
<1>5. ~Duplicate(q)
  BY <1>2 DEF Duplicate, TodoFits
<1>6. \/ flow' = flow /\ flow.active # {}
      \/ flow'.status = "aborted"
  BY <1>5 DEF NotDispatched
<1>7. flow.active # {} => \E k \in Recorded : k # e /\ MovesOn(k)
  <2>1. flow.active # {} =>
          \E k \in Recorded : outcome[k].stage \in {"none", "respond", "mark"}
    BY DEF Calm, Active
  <2> QED BY <2>1 DEF MovesOn
<1> HIDE DEF todo, state
<1>8. Plain(e, "dispatch", todo, state)
  BY <1>1, SameGroups DEF Plain, todo
<1>9. PlainFits(e, "dispatch", todo, state)
  BY <1>1, <1>2, <1>3, <1>4, <1>6, <1>7 DEF PlainFits, Open, Told
<1> QED BY <1>8, <1>9, PlainStep

\* A handoff that is dispatched is waited for; its group was not merged.
LEMMA CalmDispatched ==
  ASSUME TypeOK, Shape, Calm, NEW e \in Recorded, outcome[e].stage = "dispatch",
         NEW q \in outcome[e].todo, Moves(e, "dispatch", outcome[e].todo \ {q}),
         NEW n \in Ids, Dispatched(n, q, outcome[e].mentions), early' = early
  PROVE  Calm'
<1> DEFINE g == q.group
           new == GroupWith(q, outcome[e].mentions)
<1>1. /\ n \notin Recorded /\ n # e /\ Recorded' = Recorded \cup {n} /\ n # NoEdge
      /\ \A k \in Recorded : edges'[k] = edges[k]
      /\ edges'[n].to = q.to /\ edges'[n].source = q.source
      /\ edges'[n].group = g /\ edges'[n].state = "created"
  BY ConstantTypes DEF Dispatched, EdgeAdded, NoEdge
<1>2. /\ \A k \in Ids : k # e => outcome'[k] = outcome[k]
      /\ outcome'[e].mentions = outcome[e].mentions
      /\ outcome'[e].stage = "dispatch" /\ outcome'[e].todo = outcome[e].todo \ {q}
      /\ \A k \in Ids : outcome'[k].stage = outcome[k].stage
      /\ \A k \in Ids : outcome'[k].mentions = outcome[k].mentions
  BY DEF Moves
<1>3. /\ e \in Ids /\ e # NoEdge /\ (\A k \in Recorded : k \in Ids)
      /\ q \in Requests /\ (g # NoEdge => g \in Ids)
      /\ outcome[e].mentions \in SUBSET Roles
  BY EdgeTypes, OutcomeTypes, RequestTypes
<1>4. outcome[n].stage = "none" /\ outcome'[n].stage = "none"
  BY <1>1, <1>2, Shapes
<1>5. TodoFits(e, outcome[e].todo)
  BY CalmIs
<1>6. q.source \in {NoEdge, e} /\ (g # NoEdge => FanOut(e, q) \/ Retry(e, q))
  BY <1>5 DEF TodoFits
<1>7. g # NoEdge => outcome[g].stage \in {"dispatch", "done"}
  BY <1>3, <1>6 DEF FanOut, Retry, Calm, Fresh
<1>8. \A h \in Ids : h # g => groups'[h] = groups[h]
  <2>1. CASE g = NoEdge
    BY <2>1 DEF Dispatched
  <2>2. CASE g # NoEdge
    BY <2>2 DEF Dispatched, GroupBecomes
  <2> QED BY <2>1, <2>2
<1>9. g # NoEdge =>
        /\ groups'[g].status = "merged" <=> groups[g].status = "merged"
        /\ groups[g].status # "none" => groups'[g].expected = groups[g].expected
        /\ groups[g].status = "none" => groups'[g].expected = outcome[e].mentions
  <2>1. g # NoEdge => groups'[g] = new
    BY DEF Dispatched, GroupBecomes
  <2> QED BY <1>3, <2>1, GroupWithIs
<1> HIDE DEF new
<1>10. States'
  BY <1>1, <1>2, <1>3, <1>4 DEF Calm, States, Open
<1>11. Fresh'
  <2>1. ASSUME NEW x \in Ids, outcome'[x].stage \notin {"dispatch", "done"}
        PROVE  /\ \A k \in Recorded' : edges'[k].source # x /\ edges'[k].group # x
               /\ groups'[x].status = "none"
    <3>1. x # e /\ x # g /\ x # NoEdge
      BY <1>2, <1>7, <2>1, ConstantTypes DEF NoEdge
    <3>2. /\ \A k \in Recorded : edges[k].source # x /\ edges[k].group # x
          /\ groups[x].status = "none"
      BY <1>2, <2>1 DEF Calm, Fresh
    <3> QED BY <1>1, <1>6, <1>8, <3>1, <3>2
  <2> QED BY <2>1 DEF Fresh
<1>12. Todo'
  <2>1. ASSUME NEW x \in Ids, NEW p \in outcome'[x].todo
        PROVE  /\ p \in outcome[x].todo
               /\ x = e => p.to # q.to
    <3>1. p \in outcome[x].todo /\ (x = e => p # q)
      BY <1>2
    <3> QED BY <1>5, <3>1 DEF TodoFits
  <2>2. ASSUME NEW x \in Ids, NEW p \in outcome'[x].todo
        PROVE  /\ p.source \in {NoEdge, x}
               /\ p.source = x => \A k \in Recorded' : edges'[k].source = x => edges'[k].to # p.to
               /\ p.group # NoEdge => FanOut(x, p)' \/ Retry(x, p)'
    <3>1. /\ p.source \in {NoEdge, x}
          /\ p.source = x => \A k \in Recorded : edges[k].source = x => edges[k].to # p.to
          /\ p.group # NoEdge => FanOut(x, p) \/ Retry(x, p)
      BY <2>1 DEF Calm, Todo, TodoFits
    <3>2. x # NoEdge
      BY ConstantTypes DEF NoEdge
    <3>3. p.source = x => \A k \in Recorded' : edges'[k].source = x => edges'[k].to # p.to
      BY <1>1, <1>6, <2>1, <3>1, <3>2
    <3>4. ASSUME FanOut(x, p) PROVE FanOut(x, p)'
      <4>1. /\ p.group = x /\ p.source = x /\ p.to \in outcome'[x].mentions
            /\ \A k \in Recorded : edges[k].group = x => edges[k].to # p.to
        BY <1>2, <3>4 DEF FanOut
      <4>2. ASSUME g = x PROVE q.to # p.to
        <5>1. CASE FanOut(e, q)
          BY <2>1, <4>2, <5>1 DEF FanOut
        <5>2. CASE Retry(e, q)
          BY <4>1, <4>2, <5>2 DEF Retry
        <5> QED BY <1>6, <3>2, <4>2, <5>1, <5>2
      <4> QED BY <1>1, <4>1, <4>2 DEF FanOut
    <3>5. ASSUME Retry(x, p) PROVE Retry(x, p)'
      BY <1>1, <3>5 DEF Retry
    <3> QED BY <3>1, <3>3, <3>4, <3>5
  <2>3. ASSUME NEW x \in Ids, NEW p \in outcome'[x].todo, NEW r \in outcome'[x].todo,
               p.to = r.to
        PROVE  p = r
    BY <2>1, <2>3 DEF Calm, Todo, TodoFits
  <2> QED BY <2>2, <2>3 DEF Todo, TodoFits
<1>13. Expected'
  <2>1. ASSUME NEW h \in Ids, groups'[h].status # "none"
        PROVE  groups'[h].expected = outcome'[h].mentions
    <3>1. CASE h # g
      BY <1>2, <1>8, <2>1, <3>1 DEF Calm, Expected
    <3>2. CASE h = g /\ groups[g].status # "none"
      BY <1>2, <1>9, <3>2, ConstantTypes DEF Calm, Expected, NoEdge
    <3>3. CASE h = g /\ groups[g].status = "none"
      <4>1. g # NoEdge
        BY <3>3, ConstantTypes DEF NoEdge
      <4>2. ~Retry(e, q)
        BY <3>3, <4>1, Shapes DEF Retry, EdgeShape
      <4> QED BY <1>2, <1>6, <1>9, <3>3, <4>1, <4>2 DEF FanOut
    <3> QED BY <3>1, <3>2, <3>3
  <2> QED BY <2>1 DEF Expected
<1>14. Active'
  <2>1. flow'.active = flow.active \cup {q.to}
    BY DEF Dispatched
  <2>2. ASSUME NEW x \in flow'.active
        PROVE  \E k \in Recorded' : edges'[k].to = x
                 /\ outcome'[k].stage \in {"none", "respond", "mark"}
    <3>1. CASE x = q.to
      BY <1>1, <1>4, <3>1
    <3>2. CASE x \in flow.active
      <4>1. PICK k \in Recorded : edges[k].to = x
                                  /\ outcome[k].stage \in {"none", "respond", "mark"}
        BY <3>2 DEF Calm, Active
      <4> QED BY <1>1, <1>2, <1>3, <4>1
    <3> QED BY <2>1, <3>1, <3>2
  <2> QED BY <2>2 DEF Active
<1>15. Settled'
  <2>1. ASSUME NEW h \in Ids, groups'[h].status = "merged", h \notin early'
        PROVE  /\ \A k \in Recorded' : edges'[k].group = h => outcome'[k].stage \in Told
               /\ \A k \in Ids : \A p \in outcome'[k].todo : p.group # h
    <3>1. groups[h].status = "merged" /\ h # NoEdge
      BY <1>8, <1>9, <2>1, ConstantTypes DEF NoEdge
    <3>2. /\ \A k \in Recorded : edges[k].group = h => outcome[k].stage \in Told
          /\ \A k \in Ids : \A p \in outcome[k].todo : p.group # h
      BY <2>1, <3>1 DEF Calm, Settled
    <3>3. g # h
      BY <1>3, <3>2
    <3> QED BY <1>1, <1>2, <1>3, <3>2, <3>3
  <2> QED BY <2>1 DEF Settled
<1>16. Goes'
  <2>1. n \in Recorded' /\ MovesOn(n)'
    BY <1>1, <1>4 DEF MovesOn
  <2> QED BY <2>1 DEF Goes
<1> QED BY <1>10, <1>11, <1>12, <1>13, <1>14, <1>15, <1>16 DEF Calm

\* One handoff.
LEMMA CalmDispatch ==
  ASSUME TypeOK, Shape, Calm, NEW e \in Ids, NEW q \in outcome[e].todo, Dispatch(e, q)
  PROVE  Calm'
<1>1. /\ e \in Recorded /\ outcome[e].stage = "dispatch"
      /\ Moves(e, "dispatch", outcome[e].todo \ {q})
      /\ NotDispatched(q) \/ \E n \in Ids : Dispatched(n, q, outcome[e].mentions)
  BY DispatchDoes
<1>2. early' = early
  BY DEF Dispatch
<1> QED BY <1>1, <1>2, CalmNotDispatched, CalmDispatched

\* Every step without a fault keeps the calm.
LEMMA CalmStep ==
  ASSUME TypeOK, Shape, Undisturbed, Next
  PROVE  Undisturbed'
<1> SUFFICES ASSUME faults' = 0 PROVE Calm'
  BY DEF Undisturbed
<1>1. Calm
  BY FaultsStay DEF Undisturbed
<1>2. States
  BY <1>1 DEF Calm
<1> QED BY <1>1, <1>2, CalmCases, CalmAnswer, CalmRespond, CalmMark, CalmClose, CalmRecordShard,
           CalmDecide, CalmPlanMerge, CalmPlanFailure, CalmDispatch, CalmDispatchEnds,
           CalmRecover, CalmRelease

-----------------------------------------------------------------------------
(* The theorems                                                            *)

\* The first state: the lead has the first handoff.
LEMMA InitInv ==
  ASSUME Init
  PROVE  IInv
<1> DEFINE no == FALSE
           edge == [to |-> Lead, source |-> NoEdge, group |-> NoEdge, state |-> "created"]
<1>1. /\ settings \in Settings
      /\ flow = [status |-> "waiting_role", active |-> {Lead}, completed |-> {}, failed |-> {}]
      /\ edges = <<edge>> /\ faults = 0 /\ early = {}
      /\ groups = [g \in Ids |-> NoGroup] /\ outcome = [e \in Ids |-> NoOutcome]
      /\ merges = [g \in Ids |-> 0] /\ fate = [e \in Ids |-> "sent"]
  BY DEF Init
<1>2. NoOutcome = [kind |-> "none", mentions |-> {}, stage |-> "none", todo |-> {},
                   inline |-> no]
  BY DEF NoOutcome
<1>3. no \in BOOLEAN
  OBVIOUS
<1> HIDE DEF no
<1>4. NoOutcome \in OutcomeRecords
  BY <1>2, <1>3 DEF OutcomeRecords, Kinds, Stages
<1>5. /\ NoOutcome.kind = "none" /\ NoOutcome.mentions = {} /\ NoOutcome.stage = "none"
      /\ NoOutcome.todo = {}
  BY <1>2
<1>6. NoGroup \in GroupRecords
  BY DEF NoGroup, GroupRecords, GroupStatuses, ResultKinds
<1>7. NoGroup.status = "none" /\ \A r \in Roles : NoGroup.results[r] = "none"
  BY DEF NoGroup
<1>8. edge \in EdgeRecords /\ edge.to = Lead /\ edge.source = NoEdge /\ edge.group = NoEdge
      /\ edge.state = "created"
  BY ConstantTypes, NewRequest DEF EdgeRecords, EdgeStates
<1> HIDE DEF edge
<1>9. /\ edges \in Seq(EdgeRecords) /\ Len(edges) = 1 /\ edges[1] = edge
      /\ Recorded = {1} /\ 1 \in Ids
  BY <1>1, <1>8, ConstantTypes DEF Recorded, Hops, Ids
<1>10. /\ \A e \in Ids : outcome[e] = NoOutcome
       /\ \A g \in Ids : groups[g] = NoGroup /\ merges[g] = 0
  BY <1>1
<1>11. TypeOK
  <2>1. flow \in [status : FlowStatuses, active : SUBSET Roles,
                  completed : SUBSET Roles, failed : SUBSET Roles]
    BY <1>1, ConstantTypes DEF FlowStatuses
  <2>2. Len(edges) \in 1..MaxHops /\ faults \in 0..settings.faults
    BY <1>1, <1>9, ConstantTypes
  <2>3. groups \in [Ids -> GroupRecords] /\ outcome \in [Ids -> OutcomeRecords]
        /\ merges \in [Ids -> Nat] /\ early \subseteq Ids
    BY <1>1, <1>4, <1>6
  <2>4. fate \in [Ids -> Fates]
    BY <1>1 DEF Fates
  <2> QED BY <1>1, <1>9, <2>1, <2>2, <2>3, <2>4
          DEF TypeOK, GroupRecords, OutcomeRecords, Kinds, ResultKinds
<1>12. Shape
  BY <1>5, <1>8, <1>9, <1>10 DEF Shape, OutcomeShape, EdgeShape
<1>13. NoDoubleDispatch /\ CancelledIsGivenUp
  BY <1>8, <1>9 DEF NoDoubleDispatch, CancelledIsGivenUp
<1>14. MergedOnce
  BY <1>10 DEF MergedOnce
<1>15. Results
  BY <1>5, <1>7, <1>8, <1>9, <1>10 DEF Results, Told
<1>16. States /\ Active /\ Goes
  BY <1>1, <1>5, <1>8, <1>9, <1>10 DEF States, Active, Goes, MovesOn, Open
<1>17. Fresh
  BY <1>7, <1>8, <1>9, <1>10, ConstantTypes DEF Fresh, NoEdge
<1>18. Todo /\ Expected /\ Settled
  BY <1>5, <1>7, <1>10 DEF Todo, TodoFits, Expected, Settled
<1> QED BY <1>11, <1>12, <1>13, <1>14, <1>15, <1>16, <1>17, <1>18 DEF IInv, Undisturbed, Calm

\* Every step keeps the invariant.
LEMMA Kept ==
  ASSUME IInv, [Next]_vars
  PROVE  IInv'
<1>1. CASE Next
  BY <1>1, TypeStep, ShapeStep, CancelledStep, DispatchStep, MergedOnceStep, ResultsStep, CalmStep DEF IInv
<1>2. CASE UNCHANGED vars
  BY <1>2 DEF vars, IInv, TypeOK, Shape, OutcomeShape, EdgeShape, CancelledIsGivenUp,
     NoDoubleDispatch, MergedOnce, Results, Undisturbed, Calm, States, Fresh, Todo, TodoFits, FanOut, Retry, Expected, Active,
     Settled, Goes, MovesOn, Recorded, Hops
<1> QED BY <1>1, <1>2

\* The invariant holds in every reachable state.
THEOREM Invariance == Spec => []IInv
<1> QED BY InitInv, Kept, PTL DEF Spec

\* The ledger keeps its shape, and the limits: no more handoffs than
\* flowMaxHops allows, and no more than one retry for a shard of a group.
THEOREM TypeCorrect == Spec => []TypeOK
<1>1. IInv => TypeOK
  BY DEF IInv
<1> QED BY <1>1, Invariance, PTL

\* A message is handed to a role once, however often its outcome is
\* materialised, and whatever crashed in between, unless a handoff was given
\* up: hasDuplicateHandoff is enough.
THEOREM HandedOnce == Spec => []NoDoubleDispatch
<1>1. IInv => NoDoubleDispatch
  BY DEF IInv
<1> QED BY <1>1, Invariance, PTL

\* Only a failure makes a second merge of a group.
THEOREM SecondMergeFollowsFailure == Spec => []MergedAgainAfterFailure
<1>1. IInv => MergedAgainAfterFailure
  <2> SUFFICES ASSUME IInv, NEW g \in Ids, merges[g] > 1
               PROVE  \E k \in Shards(g) : outcome[k].kind = "failure"
    BY DEF MergedAgainAfterFailure
  <2>1. \E k \in Recorded : edges[k].group = g /\ outcome[k].kind = "failure"
    BY DEF IInv, MergedOnce
  <2> QED BY <2>1 DEF Shards
<1> QED BY <1>1, Invariance, PTL

\* What a merge does not know of was never handed out or is underway: no
\* refresh of a group loses a result that was recorded.
THEOREM NoResultLost == Spec => MissingExplained
<1>1. IInv /\ [Next]_vars =>
        [\A g \in Ids : merges'[g] # merges[g] =>
           \A r \in Missing(groups'[g]) : Known(g, r) => Underway(g, r)]_vars
  BY MissingStep DEF IInv
<1> QED BY <1>1, Invariance, PTL DEF Spec, MissingExplained

\* A flow at rest is over, unless a merge was planned too early or something
\* went wrong: the last outcome always finds what to do next.
THEOREM RestIsOver == Spec => []FlowOver
<1>1. IInv => FlowOver
  <2> SUFFICES ASSUME IInv, AtRest, early = {}, faults = 0
               PROVE  flow.status \in {"completed", "aborted"}
    BY DEF FlowOver
  <2>1. TypeOK /\ Shape /\ Calm
    BY DEF IInv, Undisturbed
  <2>2. ASSUME NEW k \in Recorded, MovesOn(k) PROVE FALSE
    <3>1. outcome[k].stage \in {"none", "done"} /\ edges[k].state \in {"closed", "cancelled"}
      BY DEF AtRest, Final
    <3>2. outcome[k].stage = "none"
      BY <2>2, <3>1 DEF MovesOn
    <3> QED BY <2>1, <3>1, <3>2, CalmIs DEF Open
  <2> QED BY <2>1, <2>2 DEF Calm, Goes
<1> QED BY <1>1, Invariance, PTL

=============================================================================
