--------------------------- MODULE WorkerSession ---------------------------
(***************************************************************************)
(* One session of InMemoryWorkerRuntime: the entry of its workerRunKey in  *)
(* memory, the calls of send() that run its handler, and the file that     *)
(* FileWorkerSessionStore keeps of it.                                     *)
(*                                                                         *)
(* An action runs from one await to the next.  Every change of the entry   *)
(* starts a write of the file; writes under way land in any order, because *)
(* the store has no mutex and each write renames a file of its own.  The   *)
(* callers are those of the repository: the sessions_spawn and             *)
(* sessions_send tools, their time-outs and summary passes, the abort      *)
(* watcher, the cancel route and the sweep of orphan sessions.             *)
(***************************************************************************)
EXTENDS Naturals, Sequences

CONSTANTS
  MaxCalls,      \* bound on the calls of send()
  MaxSpawns,     \* bound on the spawns of the key
  MaxWrites,     \* bound on the snapshots under way at a time
  MaxEvents      \* bound on respawns, interrupts, cancellations, aborts of the
                 \* parent and crashes, together

ASSUME WorkerAssumption ==
  /\ MaxCalls \in Nat \ {0}
  /\ MaxSpawns \in Nat \ {0}
  /\ MaxWrites \in Nat \ {0}
  /\ MaxEvents \in Nat

VARIABLES
  background,  \* context.background: the session was spawned to run on its own
  expired,     \* whether context.deadlineAt has passed
  up,          \* whether the daemon runs
  entries,     \* the entries made for the key; the map holds the last one
  calls,       \* the calls of send(), in the order in which they were made
  writes,      \* the snapshots under way to the file, oldest first
  file,        \* the file, NoFile before the first write
  events,      \* bounded by MaxEvents
  interrupted, \* history: a call was interrupted
  work,        \* history: the newest invocation and what the file knows of it
  recovery     \* history: what the last restart found and did

vars == <<background, expired, up, entries, calls, writes, file,
          events, interrupted, work, recovery>>

-----------------------------------------------------------------------------
\* A status is idle, running, resumable, done, failed or cancelled
\* (waiting_input needs an interrupt without a reason, which nobody sends); an
\* error none (or a retryable failure), timeout, or fatal (not retryable).
Recoverable(status) == status \in {"running", "resumable"}

NoCall == 0

\* A snapshot: the entry, the call that waits for it to land, and history:
\* whether a newer one has landed, and what it knows of the newest invocation.
Snapshot(e, by, begun, ended) ==
  [status |-> e.status, error |-> e.error, token |-> e.token, pending |-> e.pending,
   by |-> by, passed |-> FALSE, begun |-> begun, ended |-> ended]

\* spawn: a new entry, whatever the map held
Fresh == [status |-> "idle", error |-> "none", token |-> 0, controller |-> NoCall,
          preserve |-> FALSE, pending |-> FALSE, handler |-> TRUE]
NoFile == Snapshot([Fresh EXCEPT !.status = "none"], NoCall, FALSE, FALSE)

\* kind: spawn, ask, summary (the pass for a timed-out spawn) or restart;
\* stage: asked, started, ended or lost; abort: none, interrupt, cancel,
\* deadline or parent
NewCall(kind, awaits) ==
  [kind |-> kind, stage |-> "asked", entry |-> 0, token |-> 0, abort |-> "none",
   rejected |-> FALSE, awaits |-> awaits, overtaken |-> "no", summed |-> FALSE]

Live == Len(entries) > 0
Current == entries[Len(entries)]
Started == {i \in DOMAIN calls : calls[i].stage = "started"}

\* The newest invocation of a background session: begun, its start in the file, over, its end in the file
NoWork == [begun |-> FALSE, landed |-> FALSE, ended |-> FALSE, endDurable |-> FALSE]
NoRecovery == [again |-> FALSE, ended |-> FALSE, owed |-> FALSE, stale |-> FALSE]

Init ==
  /\ background \in BOOLEAN
  /\ expired = FALSE
  /\ up = TRUE
  /\ entries = <<>>
  /\ calls = <<>>
  /\ writes = <<>>
  /\ file = NoFile
  /\ events = 0
  /\ interrupted = FALSE
  /\ work = NoWork
  /\ recovery = NoRecovery

Event == events < MaxEvents /\ events' = events + 1

\* persistSession: a snapshot of what the map holds now, and the fate of the
\* newest invocation that it shows
Persist(e, by, known) ==
  /\ Len(writes) < MaxWrites
  /\ writes' = Append(writes, Snapshot(e, by, known.begun, known.ended))
  /\ work' = known
Ended == [work EXCEPT !.ended = work.begun]

\* What is left of a call that has ended: whether it may get a summary pass
Over(stage) == [NewCall("ask", FALSE) EXCEPT !.stage = stage]
EndedCall(c) ==
  IF c.kind = "spawn" /\ c.abort = "interrupt" /\ ~c.summed
  THEN [Over("ended") EXCEPT !.kind = c.kind, !.abort = c.abort]
  ELSE Over("ended")
EndCall(i) == calls' = [calls EXCEPT ![i] = EndedCall(@)]

Overtake(cs, why) ==
  [i \in DOMAIN cs |-> IF i \in Started /\ cs[i].overtaken # "stopped"
                       THEN [cs[i] EXCEPT !.overtaken = why] ELSE cs[i]]

-----------------------------------------------------------------------------
(* spawn and send                                                          *)

\* The role runtime spawns the key of a task again when the task is activated
\* again; the key of a background session holds the id of its tool call.
Spawn ==
  /\ up
  /\ Len(calls) < MaxCalls
  /\ IF Live THEN ~background /\ Len(entries) < MaxSpawns /\ Event
             ELSE UNCHANGED events
  /\ entries' = Append(entries, Fresh)
  /\ Persist(Fresh, Len(calls) + 1, work)
  /\ calls' = Append(Overtake(calls, "displaced"), NewCall("spawn", TRUE))
  /\ UNCHANGED <<background, expired, up, file, interrupted, recovery>>

\* resume: sessions_send and its summary pass, which say "resume-existing"; a
\* role's next turn without it is refused more often.
Resume ==
  /\ up
  /\ Live
  /\ Len(calls) < MaxCalls
  /\ Current.status # "running"
  /\ Current.status = "failed" => Current.error # "fatal"
  /\ calls' = Append(calls, NewCall("ask", FALSE))
  /\ UNCHANGED <<background, expired, up, entries, writes, file,
                 events, interrupted, work, recovery>>

\* send: the summary pass of a sessions_spawn that timed out
SummaryPass(i) ==
  /\ up
  /\ Len(calls) < MaxCalls
  /\ ~background
  /\ i \in DOMAIN calls
  /\ calls[i].kind = "spawn" /\ calls[i].stage # "lost"
  /\ calls[i].abort = "interrupt"
  /\ ~calls[i].summed
  /\ calls' = Append([calls EXCEPT ![i].summed = TRUE], NewCall("summary", FALSE))
  /\ UNCHANGED <<background, expired, up, entries, writes, file,
                 events, interrupted, work, recovery>>

\* Calls start in the order in which they were let in.
Admitted == {i \in DOMAIN calls : calls[i].stage = "asked" /\ ~calls[i].awaits}
ReadyToStart(i) ==
  /\ up
  /\ i \in Admitted
  /\ \A j \in Admitted : i <= j

\* The call takes the next token and the controller, and marks the entry.
Start(i) ==
  LET e == [Current EXCEPT !.status = "running", !.token = @ + 1, !.controller = i,
                           !.pending = background]
  IN  /\ ReadyToStart(i)
      /\ Current.handler
      /\ entries' = [entries EXCEPT ![Len(entries)] = e]
      /\ writes' = Append([k \in DOMAIN writes |-> [writes[k] EXCEPT !.begun = FALSE, !.ended = FALSE]],
                          Snapshot(e, i, background, FALSE))
      /\ Len(writes) < MaxWrites
      /\ calls' = [Overtake(calls, "displaced") EXCEPT ![i].stage = "started",
                     ![i].entry = Len(entries), ![i].token = e.token,
                     ![i].awaits = TRUE]
      /\ work' = [NoWork EXCEPT !.begun = background]
      /\ UNCHANGED <<background, expired, up, file, events, interrupted, recovery>>

\* The handler of a session from the file is gone.
StartUnavailable(i) ==
  LET e == [Current EXCEPT !.status = "failed", !.error = "fatal"]
  IN  /\ ReadyToStart(i)
      /\ ~Current.handler
      /\ entries' = [entries EXCEPT ![Len(entries)] = e]
      /\ Persist(e, NoCall, Ended)
      /\ EndCall(i)
      /\ UNCHANGED <<background, expired, up, file, events, interrupted, recovery>>

\* The handler runs.
Running(i) == up /\ i \in Started /\ ~calls[i].awaits

-----------------------------------------------------------------------------
(* The end of a call                                                       *)

Mine(i) == entries[calls[i].entry]

\* shouldCommitCompletion
MayCommit(i) == Current.token = calls[i].token

\* Mutant of Released: the controller is removed whoever owns it.
ReleasedAnyway(i, e) == [e EXCEPT !.controller = NoCall, !.preserve = FALSE]

\* the finally block of send()
Released(i, e) ==
  [e EXCEPT !.controller = IF @ = i THEN NoCall ELSE @, !.preserve = FALSE]

\* resolveStatusAfterResult
StatusAfter(e, result) ==
  IF \/ result \in {"partial", "timeout"}
     \/ e.status = "resumable" /\ e.error = "timeout"
  THEN "resumable"
  ELSE IF result = "failed" THEN "failed" ELSE "done"

AfterResult(e, result) ==
  [e EXCEPT !.status = StatusAfter(e, result),
            !.error = IF result = "timeout" THEN "timeout" ELSE @,
            !.pending = FALSE]

\* isPreservedTimeoutAbort: the error repeats the reason of the time-out.
PreservedAbort(e, repeats) == e.status = "resumable" /\ e.error = "timeout" /\ repeats

AfterError(e, i) ==
  LET ended(status, error) ==
        [e EXCEPT !.status = status, !.error = error, !.pending = FALSE]
  IN  IF calls[i].abort = "deadline" THEN ended("resumable", "timeout")
      ELSE IF calls[i].abort # "none" THEN ended("cancelled", "fatal")
      ELSE ended("failed", "none")

\* The call changes its own entry and persists the one of the map.
Settle(i, settled) ==
  LET mine == Released(i, settled)
      all == [entries EXCEPT ![calls[i].entry] = mine]
  IN  /\ entries' = all
      /\ Persist(all[Len(all)], NoCall, Ended)

\* The result is dropped; the caller gets lastResult.
Drop(i) ==
  /\ entries' = [entries EXCEPT ![calls[i].entry] = Released(i, @)]
  /\ UNCHANGED <<writes, work>>

Finish(i, result) ==
  /\ Running(i)
  /\ ~calls[i].rejected
  /\ EndCall(i)
  /\ IF MayCommit(i) THEN Settle(i, AfterResult(Mine(i), result)) ELSE Drop(i)
  /\ UNCHANGED <<background, expired, up, file, events, interrupted, recovery>>

Fail(i, repeats) ==
  /\ EndCall(i)
  /\ IF MayCommit(i) /\ ~PreservedAbort(Mine(i), repeats)
     THEN Settle(i, AfterError(Mine(i), i)) ELSE Drop(i)
  /\ UNCHANGED <<background, expired, up, file, events, interrupted, recovery>>

\* The handler throws: an error of its own, or one with the abort's reason.
Throw(i, repeats) ==
  /\ Running(i)
  /\ ~calls[i].rejected
  /\ repeats => calls[i].abort = "interrupt"
  /\ Fail(i, repeats)

\* raceWorkerExecutionWithAbort: the abort ends the call before its handler
\* does, or the call was aborted before its handler began.
Rejected(i) ==
  /\ Running(i)
  /\ calls[i].rejected
  /\ Fail(i, calls[i].abort = "interrupt")

-----------------------------------------------------------------------------
(* Aborts, interrupts and cancellations                                    *)

\* Mutant of Aborted: nothing but the handler ends a run.
AbortedUnheard(cs, i, why, preserve) ==
  IF i = NoCall \/ cs[i].abort # "none" THEN cs
  ELSE [cs EXCEPT ![i].abort = why, ![i].rejected = cs[i].awaits]

\* The abort ends the call unless its handler runs and late results are asked for.
Aborted(cs, i, why, preserve) ==
  IF i = NoCall \/ cs[i].abort # "none" THEN cs
  ELSE [cs EXCEPT ![i].abort = why,
                  ![i].rejected = cs[i].awaits \/ ~preserve]

\* the timer of a call whose session has a deadline
Deadline(i) ==
  /\ up
  /\ background /\ expired
  /\ i \in Started
  /\ calls[i].abort = "none"
  /\ calls' = Aborted(calls, i, "deadline", Mine(i).preserve)
  /\ UNCHANGED <<background, expired, up, entries, writes, file,
                 events, interrupted, work, recovery>>

\* The run of the role that spawned the background session is aborted; only
\* that call has its signal.
ParentAbort(i) ==
  /\ up
  /\ background
  /\ i \in Started
  /\ calls[i].kind = "spawn"
  /\ calls[i].abort = "none"
  /\ Event
  /\ calls' = Aborted(calls, i, "parent", Mine(i).preserve)
  /\ UNCHANGED <<background, expired, up, entries, writes, file,
                 interrupted, work, recovery>>

\* a call that a tool or a role waits for
Foreground(i) == calls[i].kind \in {"ask", "summary"} \/ (calls[i].kind = "spawn" /\ ~background)

\* interrupt with preserveLateResult: a tool call timed out, or its role ran
\* out of time, while it waits for the session.
Interrupt ==
  LET e == [Current EXCEPT !.status = "resumable", !.error = "timeout",
                           !.preserve = TRUE, !.controller = NoCall]
  IN  /\ up
      /\ Event
      /\ \E i \in Started : Foreground(i)
      /\ Recoverable(Current.status)
      /\ entries' = [entries EXCEPT ![Len(entries)] = e]
      /\ calls' = Aborted(calls, Current.controller, "interrupt", TRUE)
      /\ Persist(e, NoCall, work)
      /\ interrupted' = TRUE
      /\ UNCHANGED <<background, expired, up, file, recovery>>

\* Mutant of Cancelled: the token stays.
CancelledSameToken(e) ==
  [e EXCEPT !.status = "cancelled", !.error = "fatal", !.controller = NoCall,
            !.pending = FALSE]

Cancelled(e) ==
  [e EXCEPT !.status = "cancelled", !.error = "fatal", !.token = @ + 1,
            !.controller = NoCall, !.pending = FALSE]

Cancel ==
  LET e == Cancelled(Current)
  IN  /\ up
      /\ Live
      /\ Event
      /\ entries' = [entries EXCEPT ![Len(entries)] = e]
      /\ calls' = Aborted(Overtake(calls, "stopped"), Current.controller, "cancel",
                          Current.preserve)
      /\ Persist(e, NoCall, Ended)
      /\ UNCHANGED <<background, expired, up, file, interrupted, recovery>>

Expire ==
  /\ background /\ ~expired
  /\ Started # {} \/ ~up
  /\ expired' = TRUE
  /\ UNCHANGED <<background, up, entries, calls, writes, file,
                 events, interrupted, work, recovery>>

-----------------------------------------------------------------------------
(* The file, crashes and recovery                                          *)

Land(k) ==
  /\ k \in DOMAIN writes
  /\ file' = [writes[k] EXCEPT !.by = NoCall, !.begun = FALSE, !.ended = FALSE]
  /\ writes' = [j \in 1..(Len(writes) - 1) |->
                 IF j < k THEN [writes[j] EXCEPT !.passed = TRUE] ELSE writes[j + 1]]
  /\ calls' = [i \in DOMAIN calls |-> IF i = writes[k].by
                  THEN [calls[i] EXCEPT !.awaits = FALSE] ELSE calls[i]]
  /\ work' = [work EXCEPT !.landed = @ \/ writes[k].begun,
                          !.endDurable = @ \/ writes[k].ended]
  /\ UNCHANGED <<background, expired, up, entries, events, interrupted, recovery>>

\* The calls of a crashed daemon never end; what had not landed is lost.
Crash ==
  /\ up
  /\ Event
  /\ Len(calls) < MaxCalls
  /\ up' = FALSE
  /\ entries' = <<>>
  /\ writes' = <<>>
  /\ calls' = [i \in DOMAIN calls |-> Over("lost")]
  /\ UNCHANGED <<background, expired, file, interrupted, work,
                 recovery>>

\* hydrateSessions: what the file says, and what becomes of it
Hydrated(handler) ==
  LET e == [Fresh EXCEPT !.status = file.status, !.error = file.error,
              !.token = file.token, !.pending = file.pending, !.handler = handler]
  IN  IF ~Recoverable(e.status) THEN e
      ELSE IF background /\ expired
      THEN [e EXCEPT !.status = "cancelled", !.error = "fatal", !.token = @ + 1,
                     !.pending = FALSE]
      ELSE IF ~handler THEN [e EXCEPT !.status = "failed", !.error = "fatal"]
      ELSE IF e.status = "running"
      THEN [e EXCEPT !.status = "resumable", !.error = "timeout"]
      ELSE e

\* Mutant of RestartsAgain: the invocation of a resumable session is not asked for.
RestartsAnyResumable(e) == background /\ ~expired /\ e.status = "resumable"

\* restartBackgroundInvocations
RestartsAgain(e) == background /\ ~expired /\ e.status = "resumable" /\ e.pending

\* hydrateSessions and reconcileStartup
Restart(handler) ==
  LET e == Hydrated(handler)
      known == file # NoFile
  IN  /\ ~up
      /\ up' = TRUE
      /\ entries' = IF known THEN <<e>> ELSE <<>>
      /\ file' = IF known THEN Snapshot(e, NoCall, FALSE, FALSE) ELSE file
      /\ calls' = IF known /\ RestartsAgain(e) THEN Append(calls, NewCall("restart", FALSE)) ELSE calls
      /\ recovery' = [again |-> known /\ RestartsAgain(e),
                      ended |-> work.endDurable,
                      owed  |-> background /\ ~expired /\ handler
                                  /\ work.landed /\ ~work.ended,
                      stale |-> file.passed]
      /\ work' = NoWork
      /\ UNCHANGED <<background, expired, writes, events, interrupted>>

Next ==
  \/ Spawn
  \/ Resume
  \/ \E i \in 1..MaxCalls :
       \/ SummaryPass(i) \/ Start(i) \/ StartUnavailable(i)
       \/ \E result \in {"completed", "partial", "timeout", "failed"} : Finish(i, result)
       \/ \E repeats \in BOOLEAN : Throw(i, repeats)
       \/ Rejected(i) \/ Deadline(i) \/ ParentAbort(i)
  \/ Interrupt \/ Cancel \/ Expire
  \/ \E k \in 1..MaxWrites : Land(k)
  \/ Crash
  \/ \E handler \in BOOLEAN : Restart(handler)

Spec == Init /\ [][Next]_vars

\* Timers fire, promises settle and files are written; no handler has to end.
Fairness ==
  /\ WF_vars(\E k \in 1..MaxWrites : Land(k))
  /\ \A i \in 1..MaxCalls : WF_vars(Deadline(i)) /\ WF_vars(Rejected(i))

FairSpec == Spec /\ Fairness

-----------------------------------------------------------------------------
(* Properties                                                              *)

\* A call that a cancellation, another call or another spawn has overtaken
\* ends without changing what the session is seen to be
\* (shouldCommitCompletion), however late it ends and whatever it brings.
Seen(e) == <<e.status, e.error, e.token, e.pending>>
OvertakenNeverSettles ==
  [][\A i \in DOMAIN calls :
       calls[i].overtaken # "no" /\ calls[i].stage # "ended" /\ calls'[i].stage = "ended"
         => Seen(Current)' = Seen(Current)]_vars

\* A run that was neither aborted nor displaced by a later call or spawn is the
\* one that the session's controller stops: a cancellation reaches it, whatever
\* calls ended in the meantime.
RunReachable ==
  \A i \in Started :
    calls[i].abort = "none" /\ calls[i].overtaken = "no"
      => calls[i].entry = Len(entries) /\ Current.controller = i

\* A restart runs a background invocation again exactly if it is not over:
\* none whose end was durable, and every one whose start was, unless an older
\* snapshot had landed on a newer one.
RecoveryExact ==
  recovery.stale \/ /\ recovery.again => ~recovery.ended
                    /\ recovery.owed => recovery.again

\* The runs of a background session end after its deadline although their
\* handlers ignore the abort, if no call to the session was interrupted: the late
\* result that an interrupt asks for makes the session deaf to aborts until some
\* call ends.
DeadlineEndsRuns ==
  (background /\ expired) ~> (Started = {} \/ interrupted)

=============================================================================
