----------------------------- MODULE FlowLedger -----------------------------
(***************************************************************************)
(* The ledger of one flow: the handoff edges, the fan-out (shard) groups   *)
(* and the status of the flow, as CoordinationEngine changes them when the *)
(* outcomes of its roles are materialised.  DefaultHandoffPlanner decides  *)
(* on the mentions of a reply, DefaultRecoveryDirector on everything else. *)
(*                                                                         *)
(* An action is one section of the flow's mutex or one read of the ledger. *)
(* Outcomes of different roles are materialised at the same time; a role   *)
(* works on one handoff at a time.  An outcome whose materialisation       *)
(* throws, or whose outbox batch is not acknowledged, is materialised      *)
(* again from the start.  Module RoleRun has what happens to a handoff     *)
(* between its dispatch and its outcome; here its edge is "created", and   *)
(* it is answered, given up, or lost for good.                             *)
(***************************************************************************)
EXTENDS Integers, Sequences, FiniteSets

CONSTANTS
  Roles,            \* the roles of the thread
  Lead,             \* leadRoleId
  MaxHops,          \* flowMaxHops is at most this: as many handoffs have a name
  Settings,         \* flowMaxHops and maxPerRoleHopCount of the gateway, and how
                    \* many faults are explored with them
  MentionSets,      \* the sets of roles that a reply may mention
  FaultKinds        \* which of "crash", "throw", "replay", "abandon", "lose" may
                    \* happen

ASSUME FlowAssumption ==
  /\ Lead \in Roles
  /\ MaxHops \in Nat \ {0}
  /\ Settings \subseteq [hops : 1..MaxHops, roleHops : Nat \ {0}, faults : Nat]
  /\ Settings # {}
  /\ MentionSets \subseteq SUBSET Roles
  /\ {} \in MentionSets
  /\ FaultKinds \subseteq {"crash", "throw", "replay", "abandon", "lose"}

VARIABLES
  settings,  \* the settings the gateway runs with
  flow,      \* status, active, completed and failed roles of the FlowLedger
  edges,     \* its handoff edges, in the order in which they were recorded
  groups,    \* its shard groups, by the edge whose reply fanned out
  outcome,   \* the outcome of each edge and how far it is materialised
  fate,      \* what became of the delivery of its handoff
  faults,    \* faults so far
  merges,    \* history: how often each group's merge was planned
  early      \* history: groups whose merge was planned with shards outstanding

vars == <<settings, flow, edges, groups, outcome, fate, faults, merges, early>>

-----------------------------------------------------------------------------
Ids    == 1..MaxHops
NoEdge == 0

FlowStatuses  == {"waiting_role", "failed", "completed", "aborted"}
EdgeStates    == {"created", "responded", "closed", "cancelled"}
GroupStatuses == {"none", "running", "waiting_retry", "merged"}
Fates         == {"sent", "lost", "givenUp"}
Stages        == {"none", "forget", "respond", "mark", "close", "shard", "decide",
                  "planMerge", "planFailure", "recover", "dispatch", "done"}

\* A handoff to dispatch: the message it answers (NoEdge for a fresh notice)
\* and its shard group (NoEdge for none).
Requests == [to : Roles, source : 0..MaxHops, group : 0..MaxHops]
EdgeRecords == [to : Roles, source : 0..MaxHops, group : 0..MaxHops, state : EdgeStates]

NoGroup == [status |-> "none", expected |-> {}, failed |-> {}, cancelled |-> {},
            results |-> [r \in Roles |-> "none"], retries |-> [r \in Roles |-> 0]]
NoOutcome == [kind |-> "none", mentions |-> {}, stage |-> "none", todo |-> {},
              inline |-> FALSE]

Hops == Len(edges)
Recorded == 1..Hops
Shards(g) == {k \in Recorded : edges[k].group = g}
Final(k) == edges[k].state \in {"closed", "cancelled"}
HasOpenSibling(g) == \E k \in Shards(g) : ~Final(k)

At(e, stage) == e \in Recorded /\ outcome[e].stage = stage
To(e, stage) == outcome' = [outcome EXCEPT ![e].stage = stage]
EdgeTo(e, state) == edges' = [edges EXCEPT ![e].state = state]

Fault(kind) ==
  /\ kind \in FaultKinds
  /\ faults < settings.faults
  /\ faults' = faults + 1

\* materializeFlowStartIntent: the flow and its first handoff, to the lead
Init ==
  /\ settings \in Settings
  /\ flow = [status |-> "waiting_role", active |-> {Lead}, completed |-> {}, failed |-> {}]
  /\ edges = <<[to |-> Lead, source |-> NoEdge, group |-> NoEdge, state |-> "created"]>>
  /\ groups = [g \in Ids |-> NoGroup]
  /\ outcome = [e \in Ids |-> NoOutcome]
  /\ fate = [e \in Ids |-> "sent"]
  /\ faults = 0
  /\ merges = [g \in Ids |-> 0]
  /\ early = {}

-----------------------------------------------------------------------------
(* The outcome of a handoff and its edge                                   *)

\* The role of the handoff has no other outcome to wait for.
RoleFree(e) == \A d \in Recorded : edges[d].to = edges[e].to => ~outcome[d].inline

\* handleRoleReply, onRoleFailure: the outcome is in its outbox.  Nothing asks
\* whether the edge is cancelled: a handoff that was given up although an
\* attempt had put it into the inbox is answered too.
Answer(e, kind, mentions) ==
  /\ At(e, "none")
  /\ edges[e].state \in {"created", "cancelled"}
  /\ fate[e] # "lost"
  /\ RoleFree(e)
  /\ outcome' = [outcome EXCEPT ![e] = [kind |-> kind, mentions |-> mentions,
                   stage |-> "respond", todo |-> {}, inline |-> TRUE]]
  /\ UNCHANGED <<settings, flow, edges, groups, fate, faults, merges, early>>

\* markHandoffResponded
Respond(e) ==
  /\ At(e, "respond")
  /\ EdgeTo(e, "responded")
  /\ To(e, "mark")
  /\ UNCHANGED <<settings, flow, groups, fate, faults, merges, early>>

\* Mutant of Mark: the role remains active.
MarkKeepsActive(e) ==
  /\ At(e, "mark")
  /\ flow' = IF outcome[e].kind = "reply"
             THEN [flow EXCEPT !.completed = @ \cup {edges[e].to}]
             ELSE [flow EXCEPT !.failed = @ \cup {edges[e].to}, !.status = "failed"]
  /\ To(e, "close")
  /\ UNCHANGED <<settings, edges, groups, fate, faults, merges, early>>

\* markRoleCompleted, markRoleFailed
Mark(e) ==
  /\ At(e, "mark")
  /\ flow' = IF outcome[e].kind = "reply"
             THEN [flow EXCEPT !.completed = @ \cup {edges[e].to},
                               !.active = @ \ {edges[e].to}]
             ELSE [flow EXCEPT !.failed = @ \cup {edges[e].to},
                               !.active = @ \ {edges[e].to},
                               !.status = "failed"]
  /\ To(e, "close")
  /\ UNCHANGED <<settings, edges, groups, fate, faults, merges, early>>

\* markHandoffClosed
Close(e) ==
  /\ At(e, "close")
  /\ EdgeTo(e, "closed")
  /\ To(e, IF outcome[e].kind = "reply" THEN "shard"
           ELSE IF edges[e].group # NoEdge THEN "planFailure" ELSE "recover")
  /\ UNCHANGED <<settings, flow, groups, fate, faults, merges, early>>

\* Mutant of Refreshed: the results of the other shards are dropped.
RefreshedAlone(g, r, result) ==
  [groups[g] EXCEPT !.results = [NoGroup.results EXCEPT ![r] = result]]

\* refreshShardGroup
Refreshed(g, r, result) ==
  LET results == [groups[g].results EXCEPT ![r] = result]
  IN  [groups[g] EXCEPT
        !.results = results,
        !.failed = (@ \ {r}) \cup {x \in Roles : results[x] = "failed"}
                     \cup (flow.failed \cap groups[g].expected),
        !.cancelled = (@ \ {r}) \cup {edges[k].to : k \in
                         {d \in Shards(g) : edges[d].state = "cancelled"}}]

\* recordShardReply
RecordShard(e) ==
  /\ At(e, "shard")
  /\ groups' = IF edges[e].group = NoEdge THEN groups
               ELSE [groups EXCEPT ![edges[e].group] =
                      Refreshed(edges[e].group, edges[e].to, "completed")]
  /\ To(e, "decide")
  /\ UNCHANGED <<settings, flow, edges, fate, faults, merges, early>>

\* validateMentionTargets on the ledger as it is read now
Allowed(mentions) == \A r \in mentions :
  Cardinality({k \in Recorded : edges[k].to = r}) < settings.roleHops

\* More than one target is a fan-out, whose group is named after the message.
Decide(e) ==
  LET targets == outcome[e].mentions
      group == IF Cardinality(targets) > 1 THEN e ELSE NoEdge
  IN  /\ At(e, "decide")
      /\ IF targets # {} /\ Allowed(targets)
         THEN outcome' = [outcome EXCEPT
                ![e].stage = "dispatch",
                ![e].todo = {[to |-> r, source |-> e, group |-> group] : r \in targets}]
         ELSE To(e, IF edges[e].group # NoEdge THEN "planMerge" ELSE "recover")
      /\ UNCHANGED <<settings, flow, edges, groups, fate, faults, merges, early>>

-----------------------------------------------------------------------------
(* Fan-out groups                                                          *)

\* buildFanOutMergeContext: the roles the merge knows nothing of
Missing(group) ==
  {r \in group.expected : group.results[r] # "completed"} \ (group.failed \cup group.cancelled)

\* A shard has yet to be recorded or tried again, or its outcome has yet to
\* reach the group.
Outstanding(g, e) ==
  \/ \E r \in groups[g].expected : \A k \in Shards(g) : edges[k].to # r
  \/ \E k \in Shards(g) \ {e} :
       \/ outcome[k].stage \in {"respond", "mark", "close", "shard", "planFailure"}
       \/ \E q \in outcome[k].todo : q.group = g

\* The group is marked as merged, and the merge is handed to the lead next.
PlansMerge(e, group, source) ==
  LET g == edges[e].group IN
  /\ groups' = [groups EXCEPT ![g] = [group EXCEPT !.status = "merged"]]
  /\ outcome' = [outcome EXCEPT ![e].stage = "dispatch",
                   ![e].todo = {[to |-> Lead, source |-> source, group |-> NoEdge]}]
  /\ merges' = [merges EXCEPT ![g] = @ + 1]
  /\ early' = IF Outstanding(g, e) THEN early \cup {g} ELSE early

\* Mutant of MustWait: the status of the group is not asked.
MustWaitForSiblings(g) == HasOpenSibling(g)

MustWait(g) == HasOpenSibling(g) \/ groups[g].status = "merged"

\* planFanOutAction, after a reply
PlanMerge(e) ==
  LET g == edges[e].group IN
  /\ At(e, "planMerge")
  /\ IF MustWait(g)
     THEN To(e, "done") /\ UNCHANGED <<groups, merges, early>>
     ELSE IF edges[e].to = Lead
          THEN To(e, "recover") /\ UNCHANGED <<groups, merges, early>>
          ELSE PlansMerge(e, groups[g], e)
  /\ UNCHANGED <<settings, flow, edges, fate, faults>>

\* Mutant of RetriesLeft: a shard is retried twice.
RetriesLeftTwice(g, r) == groups[g].retries[r] < 2

RetriesLeft(g, r) == groups[g].retries[r] < 1

\* planFanOutFailureAction: one retry for each shard, then as after a reply,
\* except that nothing asks whether the group is merged already.
PlanFailure(e) ==
  LET g == edges[e].group
      r == edges[e].to
      group == Refreshed(g, r, "failed")
  IN  /\ At(e, "planFailure")
      /\ IF RetriesLeft(g, r)
         THEN /\ groups' = [groups EXCEPT ![g] =
                   [group EXCEPT !.status = "waiting_retry", !.retries[r] = @ + 1]]
              /\ outcome' = [outcome EXCEPT ![e].stage = "dispatch",
                   ![e].todo = {[to |-> r, source |-> NoEdge, group |-> g]}]
              /\ UNCHANGED <<merges, early>>
         ELSE IF HasOpenSibling(g)
              THEN /\ groups' = [groups EXCEPT ![g] = [group EXCEPT !.status = "running"]]
                   /\ To(e, "done")
                   /\ UNCHANGED <<merges, early>>
              ELSE PlansMerge(e, group, NoEdge)
      /\ UNCHANGED <<settings, flow, edges, fate, faults>>

-----------------------------------------------------------------------------
(* Dispatch and recovery                                                   *)

\* Mutant of Duplicate: replays are not told from first deliveries.
DuplicateIgnored(q) == FALSE

\* hasDuplicateHandoff; a fresh notice is no message an edge can have
Duplicate(q) ==
  /\ q.source # NoEdge
  /\ \E k \in Recorded : /\ edges[k].source = q.source
                         /\ edges[k].to = q.to
                         /\ edges[k].state # "cancelled"

\* ensureShardGroups
GroupWith(q, expected) ==
  IF groups[q.group].status = "none"
  THEN [NoGroup EXCEPT !.status = "running", !.expected = expected]
  ELSE [groups[q.group] EXCEPT !.status = IF @ = "waiting_retry" THEN "running" ELSE @]

\* recordHandoff of one request; its delivery belongs to RoleRun.
RecordHandoff(q, expected) ==
  IF Hops >= settings.hops
  THEN /\ flow' = IF flow.active # {} THEN flow ELSE [flow EXCEPT !.status = "aborted"]
       /\ UNCHANGED <<edges, groups>>
  ELSE IF Duplicate(q)
  THEN UNCHANGED <<flow, edges, groups>>
  ELSE /\ flow' = [flow EXCEPT !.status = "waiting_role", !.active = @ \cup {q.to}]
       /\ edges' = Append(edges, [to |-> q.to, source |-> q.source,
                                  group |-> q.group, state |-> "created"])
       /\ groups' = IF q.group = NoEdge THEN groups
                    ELSE [groups EXCEPT ![q.group] = GroupWith(q, expected)]

\* dispatchToRole for the next target
Dispatch(e, q) ==
  /\ At(e, "dispatch")
  /\ q \in outcome[e].todo
  /\ RecordHandoff(q, outcome[e].mentions)
  /\ outcome' = [outcome EXCEPT ![e].todo = @ \ {q}]
  /\ UNCHANGED <<settings, fate, faults, merges, early>>

DispatchEnds(e) ==
  /\ At(e, "dispatch")
  /\ outcome[e].todo = {}
  /\ To(e, "done")
  /\ UNCHANGED <<settings, flow, edges, groups, fate, faults, merges, early>>

\* applyRecoveryDecision: the lead's outcome ends the flow, another role's
\* goes to the lead.
Recover(e) ==
  /\ At(e, "recover")
  /\ IF edges[e].to = Lead
     THEN /\ flow' = [flow EXCEPT
               !.status = IF outcome[e].kind = "reply" THEN "completed" ELSE "aborted",
               !.active = {}]
          /\ To(e, "done")
     ELSE /\ outcome' = [outcome EXCEPT ![e].stage = "dispatch",
               ![e].todo = {[to |-> Lead, source |-> e, group |-> NoEdge]}]
          /\ UNCHANGED flow
  /\ UNCHANGED <<settings, edges, groups, fate, faults, merges, early>>

\* The role is let go when its outcome is materialised.
Release(e) ==
  /\ At(e, "done")
  /\ outcome[e].inline
  /\ outcome' = [outcome EXCEPT ![e].inline = FALSE]
  /\ UNCHANGED <<settings, flow, edges, groups, fate, faults, merges, early>>

-----------------------------------------------------------------------------
(* Faults                                                                  *)

InProgress(e) == outcome[e].stage \notin {"none", "done"}
Restarted(o) == IF o.kind = "none" THEN NoOutcome
                ELSE [o EXCEPT !.stage = "respond", !.todo = {}, !.inline = FALSE]

\* The materialisation throws; its batch is released and tried again later.
Throw(e) ==
  /\ e \in Recorded
  /\ InProgress(e)
  /\ Fault("throw")
  /\ outcome' = [outcome EXCEPT ![e] = Restarted(@)]
  /\ UNCHANGED <<settings, flow, edges, groups, fate, merges, early>>

\* The acknowledgement fails or comes too late: all of it is done again.
Replay(e) ==
  /\ At(e, "done")
  /\ outcome[e].kind # "none"
  /\ Fault("replay")
  /\ outcome' = [outcome EXCEPT ![e] = Restarted(@)]
  /\ UNCHANGED <<settings, flow, edges, groups, fate, merges, early>>

Crash ==
  /\ \E e \in Recorded : InProgress(e)
  /\ Fault("crash")
  /\ outcome' = [e \in Ids |-> IF InProgress(e) THEN Restarted(outcome[e])
                               ELSE [outcome[e] EXCEPT !.inline = FALSE]]
  /\ UNCHANGED <<settings, flow, edges, groups, fate, merges, early>>

\* What module RoleRun calls excused: the handoff was taken out of the inbox, or
\* recorded and not yet in the outbox, when the process stopped or a store
\* failed, or it is left in the inbox of a loop that ended.  Nobody answers it.
Lose(e) ==
  /\ At(e, "none")
  /\ edges[e].state = "created"
  /\ fate[e] = "sent"
  /\ Fault("lose")
  /\ fate' = [fate EXCEPT ![e] = "lost"]
  /\ UNCHANGED <<settings, flow, edges, groups, outcome, merges, early>>

\* abandonDispatchIntent: the edge was created and not marked as delivered; then
\* removeActiveRole, which nobody does again if it is interrupted.
Abandon(e) ==
  /\ At(e, "none")
  /\ edges[e].state = "created"
  /\ Fault("abandon")
  /\ EdgeTo(e, "cancelled")
  /\ To(e, "forget")
  /\ fate' = [fate EXCEPT ![e] = "givenUp"]
  /\ UNCHANGED <<settings, flow, groups, merges, early>>

Forget(e) ==
  /\ At(e, "forget")
  /\ flow' = [flow EXCEPT !.active = @ \ {edges[e].to}]
  /\ To(e, "none")
  /\ UNCHANGED <<settings, edges, groups, fate, faults, merges, early>>

-----------------------------------------------------------------------------
Materialize(e) ==
  \/ Respond(e)
  \/ Mark(e)
  \/ Close(e)
  \/ RecordShard(e)
  \/ Decide(e)
  \/ PlanMerge(e)
  \/ PlanFailure(e)
  \/ \E q \in outcome[e].todo : Dispatch(e, q)
  \/ DispatchEnds(e)
  \/ Recover(e)
  \/ Release(e)
  \/ Forget(e)

Answers(e) ==
  \/ \E mentions \in MentionSets : Answer(e, "reply", mentions)
  \/ Answer(e, "failure", {})

Next ==
  \/ \E e \in Ids : Answers(e) \/ Materialize(e) \/ Throw(e) \/ Replay(e) \/ Abandon(e) \/ Lose(e)
  \/ Crash

Spec == Init /\ [][Next]_vars

\* Who is waited for: not for an answer to a handoff that was given up.
Awaited(e) == e \in Recorded /\ edges[e].state = "created" /\ Answers(e)

\* Roles answer what was not lost (module RoleRun), and outcomes are
\* materialised in the end.
Fairness == \A e \in Ids : WF_vars(Awaited(e)) /\ WF_vars(Materialize(e))

FairSpec == Spec /\ Fairness

-----------------------------------------------------------------------------
AtRest == \A e \in Recorded :
  /\ outcome[e].stage \in {"none", "done"}
  /\ Final(e)

\* The shape of the ledger; one retry for each shard of a group.
TypeOK ==
  /\ settings \in Settings
  /\ flow \in [status : FlowStatuses, active : SUBSET Roles,
               completed : SUBSET Roles, failed : SUBSET Roles]
  /\ edges \in Seq(EdgeRecords) /\ Len(edges) \in 1..MaxHops
  /\ groups \in [Ids -> [status : GroupStatuses, expected : SUBSET Roles,
                         failed : SUBSET Roles, cancelled : SUBSET Roles,
                         results : [Roles -> {"none", "completed", "failed"}],
                         retries : [Roles -> 0..1]]]
  /\ outcome \in [Ids -> [kind : {"none", "reply", "failure"}, mentions : SUBSET Roles,
                          stage : Stages, todo : SUBSET Requests, inline : BOOLEAN]]
  /\ fate \in [Ids -> Fates]
  /\ faults \in 0..settings.faults
  /\ merges \in [Ids -> Nat]
  /\ early \subseteq Ids

-----------------------------------------------------------------------------
(* What the code promises for every interleaving                           *)

\* A message is handed to a role once, however often its outcome is
\* materialised: hasDuplicateHandoff.  A handoff that was given up may be handed
\* out again, and answered all the same.
NoDoubleDispatch == \A j, k \in Recorded :
  /\ edges[j].to = edges[k].to
  /\ edges[j].source = edges[k].source
  /\ edges[j].source # NoEdge
  /\ fate[j] # "givenUp"
  /\ fate[k] # "givenUp"
  => j = k

Known(g, r) == \E k \in Shards(g) : edges[k].to = r

\* The result of a shard is on its way into the group, or its handoff was
\* cancelled after the group was last refreshed.
Underway(g, r) == \E k \in Shards(g) :
  /\ edges[k].to = r
  /\ outcome[k].stage \in {"respond", "mark", "close", "shard", "planFailure"}
       \/ edges[k].state = "cancelled"

\* What a merge does not know of was never handed out, or is underway: a
\* result that was recorded is not lost by the refreshes of other shards.
MissingExplained == [][\A g \in Ids : merges'[g] # merges[g] =>
  \A r \in Missing(groups'[g]) : Known(g, r) => Underway(g, r)]_vars

\* Shards that all succeed are merged once, in whatever order they are
\* materialised: only a failure makes a second merge.
MergedAgainAfterFailure == \A g \in Ids : merges[g] > 1 =>
  \E k \in Shards(g) : outcome[k].kind = "failure"

\* A flow at rest is over, if its merges waited for their shards and no
\* materialisation was interrupted, repeated or given up.
FlowOver == AtRest /\ early = {} /\ faults = 0 => flow.status \in {"completed", "aborted"}

\* Nobody will ever answer this handoff.
Stranded(e) == edges[e].state = "created" /\ fate[e] = "lost"

\* However its outcomes are interrupted and repeated, the last of them completes
\* or aborts the flow, or leaves it failed.  It waits for a role forever only if
\* a handoff was lost before it was answered.
NeverWaitsForever ==
  <>[](flow.status = "waiting_role" => \E e \in Recorded : Stranded(e))

-----------------------------------------------------------------------------
(* What the repository says, and the code does not do                      *)

\* "fan-out waits for all shards before dispatching merge back to lead"
MergeComplete == early = {}

=============================================================================
