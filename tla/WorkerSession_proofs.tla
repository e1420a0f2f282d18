------------------------ MODULE WorkerSession_proofs ------------------------
(***************************************************************************)
(* Theorems of WorkerSession, for any number of calls, spawns, writes and  *)
(* events.                                                                 *)
(***************************************************************************)
EXTENDS WorkerSession, TLAPS, SequenceTheorems

(* The inductive invariant, in layers.                                     *)

Statuses == {"idle", "running", "resumable", "done", "failed", "cancelled"}
Errors == {"none", "timeout", "fatal"}

EntryRecords ==
  [status : Statuses, error : Errors, token : Nat, controller : Nat,
   preserve : BOOLEAN, pending : BOOLEAN, handler : BOOLEAN]

CallRecords ==
  [kind : {"spawn", "ask", "summary", "restart"},
   stage : {"asked", "started", "ended", "lost"},
   entry : Nat, token : Nat,
   abort : {"none", "interrupt", "cancel", "deadline", "parent"},
   rejected : BOOLEAN, awaits : BOOLEAN,
   overtaken : {"no", "displaced", "stopped"}, summed : BOOLEAN]

SnapshotRecords ==
  [status : Statuses, error : Errors, token : Nat, pending : BOOLEAN, by : Nat,
   passed : BOOLEAN, begun : BOOLEAN, ended : BOOLEAN]

Knowledge == [begun : BOOLEAN, landed : BOOLEAN, ended : BOOLEAN, endDurable : BOOLEAN]

\* The types, and the bounds of the model; a session that runs on its own is
\* spawned once.
TypeOK ==
  /\ background \in BOOLEAN /\ expired \in BOOLEAN /\ up \in BOOLEAN
  /\ entries \in Seq(EntryRecords)
  /\ background => Len(entries) <= 1
  /\ calls \in Seq(CallRecords)
  /\ Len(calls) <= MaxCalls
  /\ ~up => Len(calls) < MaxCalls
  /\ writes \in Seq(SnapshotRecords)
  /\ Len(writes) <= MaxWrites
  /\ file \in SnapshotRecords \cup {NoFile}
  /\ events \in 0..MaxEvents
  /\ interrupted \in BOOLEAN
  /\ work \in Knowledge
  /\ recovery \in [again : BOOLEAN, ended : BOOLEAN, owed : BOOLEAN, stale : BOOLEAN]

\* A call is one of an entry of this daemon.  Once it was overtaken its token is
\* not the one of its entry, unless its entry is not the session's any more; one
\* that was neither overtaken nor aborted is the session's controller.
CallHolds(i) ==
  /\ calls[i].stage # "lost" => up /\ Live
  /\ calls[i].stage = "asked" => calls[i].overtaken = "no"
  /\ calls[i].stage = "started" =>
       /\ calls[i].entry \in 1..Len(entries)
       /\ calls[i].entry = Len(entries) =>
            /\ calls[i].token <= Current.token
            /\ calls[i].overtaken # "no" => calls[i].token < Current.token
       /\ calls[i].abort = "none" /\ calls[i].overtaken = "no" =>
            calls[i].entry = Len(entries) /\ Current.controller = i

CallInv == \A i \in 1..Len(calls) : CallHolds(i)

\* What an entry, or the file, says of a restart: an invocation is to be run.
Owing(e) == Recoverable(e.status) /\ e.pending

\* The entry shows whether the newest invocation is over.
WorkInv ==
  /\ work.begun => background
  /\ work.ended => work.begun
  /\ work.landed => work.begun
  /\ work.endDurable => work.ended
  /\ up /\ ~Live => work = NoWork
  /\ up /\ work.begun => (Owing(Current) <=> ~work.ended)

\* So does a snapshot, of what was known when it was taken; a snapshot that no
\* newer one has passed knows at least what the file knows.
WriteHolds(k) ==
  /\ writes[k].begun => work.begun
  /\ writes[k].ended => writes[k].begun /\ work.ended
  /\ writes[k].begun => (Owing(writes[k]) <=> ~writes[k].ended)
  /\ ~writes[k].passed => /\ work.landed => writes[k].begun
                          /\ work.endDurable => writes[k].ended

\* Later snapshots know more.
Later(j, k) ==
  /\ writes[j].begun => writes[k].begun
  /\ writes[j].ended => writes[k].ended

FileInv ==
  /\ ~up => writes = <<>>
  /\ \A k \in 1..Len(writes) : WriteHolds(k)
  /\ \A j, k \in 1..Len(writes) : j < k => Later(j, k)
  /\ ~file.passed => /\ work.endDurable => ~Owing(file)
                     /\ work.landed /\ ~work.endDurable => Owing(file)

IInv == TypeOK /\ CallInv /\ WorkInv /\ FileInv /\ RecoveryExact

-----------------------------------------------------------------------------
(* Sequences                                                               *)

\* A function on 1..n is a sequence of length n.
LEMMA SeqOf ==
  ASSUME NEW S, NEW n \in Nat, NEW f \in [1..n -> S]
  PROVE  f \in Seq(S) /\ Len(f) = n /\ DOMAIN f = 1..n
OBVIOUS

\* A sequence and its elements.
LEMMA SeqIs ==
  ASSUME NEW S, NEW s \in Seq(S)
  PROVE  /\ Len(s) \in Nat /\ DOMAIN s = 1..Len(s) /\ s \in [1..Len(s) -> S]
         /\ \A i \in 1..Len(s) : s[i] \in S
OBVIOUS

\* An element put at the end.
LEMMA SeqAppend ==
  ASSUME NEW S, NEW s \in Seq(S), NEW x \in S
  PROVE  /\ Append(s, x) \in Seq(S)
         /\ Len(Append(s, x)) = Len(s) + 1
         /\ Append(s, x)[Len(s) + 1] = x
         /\ \A i \in 1..Len(s) : Append(s, x)[i] = s[i]
OBVIOUS

\* An element put in the place of another.
LEMMA SeqPut ==
  ASSUME NEW S, NEW s \in Seq(S), NEW k \in 1..Len(s), NEW x \in S
  PROVE  /\ [s EXCEPT ![k] = x] \in Seq(S)
         /\ Len([s EXCEPT ![k] = x]) = Len(s)
         /\ \A i \in 1..Len(s) : [s EXCEPT ![k] = x][i] = IF i = k THEN x ELSE s[i]
<1>1. Len(s) \in Nat /\ DOMAIN s = 1..Len(s) /\ s \in [1..Len(s) -> S]
  OBVIOUS
<1>2. [s EXCEPT ![k] = x] \in [1..Len(s) -> S]
  BY <1>1
<1> QED BY <1>1, <1>2, SeqOf

-----------------------------------------------------------------------------
(* What the parts of an action do                                          *)

\* The session's entry.
LEMMA CurrentIs ==
  ASSUME TypeOK, Live
  PROVE  /\ Len(entries) \in 1..Len(entries) /\ Len(entries) \in Nat \ {0}
         /\ Current = entries[Len(entries)] /\ Current \in EntryRecords
BY DEF TypeOK, Live, Current

\* A call in its types.
LEMMA CallIs ==
  ASSUME TypeOK, NEW i \in 1..Len(calls)
  PROVE  calls[i] \in CallRecords
BY DEF TypeOK

\* Overtaking is the mark of the calls under way that are not stopped.
LEMMA OvertakeFacts ==
  ASSUME TypeOK, NEW why \in {"displaced", "stopped"}
  PROVE  /\ Overtake(calls, why) \in Seq(CallRecords)
         /\ Len(Overtake(calls, why)) = Len(calls)
         /\ \A j \in 1..Len(calls) :
              /\ \A f \in {"kind", "stage", "entry", "token", "abort", "rejected", "awaits", "summed"} :
                   Overtake(calls, why)[j][f] = calls[j][f]
              /\ calls[j].stage = "started" => Overtake(calls, why)[j].overtaken # "no"
              /\ calls[j].stage # "started" => Overtake(calls, why)[j] = calls[j]
<1> DEFINE cs == Overtake(calls, why)
<1>1. Len(calls) \in Nat /\ DOMAIN calls = 1..Len(calls)
  BY DEF TypeOK
<1>2. \A j \in 1..Len(calls) :
        cs[j] = IF calls[j].stage = "started" /\ calls[j].overtaken # "stopped"
                THEN [calls[j] EXCEPT !.overtaken = why] ELSE calls[j]
  BY <1>1 DEF Overtake, Started
<1>3. cs = [j \in 1..Len(calls) |-> cs[j]]
  BY <1>1 DEF Overtake
<1> HIDE DEF cs
<1>4. ASSUME NEW j \in 1..Len(calls)
      PROVE  /\ cs[j] \in CallRecords
             /\ \A f \in {"kind", "stage", "entry", "token", "abort", "rejected", "awaits", "summed"} :
                  cs[j][f] = calls[j][f]
             /\ calls[j].stage = "started" => cs[j].overtaken # "no"
             /\ calls[j].stage # "started" => cs[j] = calls[j]
  <2>1. calls[j] \in CallRecords
    BY CallIs
  <2> QED BY <2>1, <1>2 DEF CallRecords
<1>5. cs \in [1..Len(calls) -> CallRecords]
  BY <1>3, <1>4
<1>6. cs \in Seq(CallRecords) /\ Len(cs) = Len(calls)
  BY <1>1, <1>5, SeqOf
<1> QED BY <1>4, <1>6 DEF cs

\* An abort changes the abort of one call, and whether it is rejected.
LEMMA AbortedFacts ==
  ASSUME NEW cs \in Seq(CallRecords), NEW i \in Nat,
         NEW why \in {"interrupt", "cancel", "deadline", "parent"}, NEW preserve
  PROVE  /\ Aborted(cs, i, why, preserve) \in Seq(CallRecords)
         /\ Len(Aborted(cs, i, why, preserve)) = Len(cs)
         /\ \A j \in 1..Len(cs) :
              /\ \A f \in {"kind", "stage", "entry", "token", "awaits", "overtaken", "summed"} :
                   Aborted(cs, i, why, preserve)[j][f] = cs[j][f]
              /\ j # i => Aborted(cs, i, why, preserve)[j] = cs[j]
              /\ j = i => Aborted(cs, i, why, preserve)[j].abort # "none"
<1> DEFINE r == [cs[i] EXCEPT !.abort = why, !.rejected = cs[i].awaits \/ ~preserve]
<1>1. Len(cs) \in Nat /\ DOMAIN cs = 1..Len(cs)
  OBVIOUS
<1>2. CASE i = NoCall \/ cs[i].abort # "none"
  BY <1>2, <1>1 DEF Aborted, NoCall
<1>3. CASE ~(i = NoCall \/ cs[i].abort # "none") /\ i \notin 1..Len(cs)
  <2>1. Aborted(cs, i, why, preserve) = cs
    BY <1>1, <1>3 DEF Aborted
  <2> QED BY <1>3, <2>1
<1>4. CASE ~(i = NoCall \/ cs[i].abort # "none") /\ i \in 1..Len(cs)
  <2>1. cs[i] \in CallRecords
    BY <1>4
  <2>2. Aborted(cs, i, why, preserve) = [cs EXCEPT ![i] = r]
    BY <1>4, <2>1 DEF Aborted, CallRecords
  <2>3. /\ r \in CallRecords /\ r.abort = why
        /\ \A f \in {"kind", "stage", "entry", "token", "awaits", "overtaken", "summed"} : r[f] = cs[i][f]
    BY <2>1 DEF CallRecords
  <2> HIDE DEF r
  <2>4. /\ [cs EXCEPT ![i] = r] \in Seq(CallRecords)
        /\ Len([cs EXCEPT ![i] = r]) = Len(cs)
        /\ \A j \in 1..Len(cs) : [cs EXCEPT ![i] = r][j] = IF j = i THEN r ELSE cs[j]
    BY <1>4, <2>3, SeqPut
  <2> QED BY <2>2, <2>3, <2>4
<1> QED BY <1>2, <1>3, <1>4

\* A snapshot in its types.
LEMMA SnapshotIs ==
  ASSUME NEW e \in EntryRecords, NEW by \in Nat, NEW b \in BOOLEAN, NEW d \in BOOLEAN
  PROVE  Snapshot(e, by, b, d) \in SnapshotRecords
BY DEF Snapshot, SnapshotRecords, EntryRecords

\* What a snapshot shows.
LEMMA SnapshotShows ==
  ASSUME NEW e, NEW by, NEW b, NEW d
  PROVE  /\ Snapshot(e, by, b, d).begun = b
         /\ Snapshot(e, by, b, d).ended = d
         /\ Snapshot(e, by, b, d).passed = FALSE
         /\ Owing(Snapshot(e, by, b, d)) <=> Owing(e)
BY DEF Snapshot, Owing

\* A new entry, and a new call.
LEMMA FreshIs ==
  /\ Fresh \in EntryRecords /\ Fresh.token = 0 /\ ~Owing(Fresh)
  /\ \A kind \in {"spawn", "ask", "summary", "restart"}, a \in BOOLEAN :
       /\ NewCall(kind, a) \in CallRecords
       /\ NewCall(kind, a).stage = "asked"
       /\ NewCall(kind, a).overtaken = "no"
  /\ \A stage \in {"ended", "lost"} : Over(stage) \in CallRecords /\ Over(stage).stage = stage
BY DEF Fresh, EntryRecords, Statuses, Errors, NoCall, Owing, Recoverable, NewCall, CallRecords, Over

\* What is left of a call that ended.
LEMMA EndedIs ==
  ASSUME NEW c
  PROVE  EndedCall(c) \in CallRecords /\ EndedCall(c).stage = "ended"
BY DEF EndedCall, Over, NewCall, CallRecords

-----------------------------------------------------------------------------
(* The ends of calls                                                       *)

\* A call that ends releases its entry, and either leaves everything else as
\* it is, or has the session's token, and the file is told that it is over.
LEMMA EndEffects ==
  ASSUME TypeOK, CallInv, NEW i \in 1..Len(calls), Running(i),
         \/ \E result \in {"completed", "partial", "timeout", "failed"} : Finish(i, result)
         \/ \E repeats \in BOOLEAN : Fail(i, repeats)
  PROVE  \E r \in EntryRecords :
    /\ entries' = [entries EXCEPT ![calls[i].entry] = r]
    /\ r.token = Mine(i).token
    /\ r.controller = IF Mine(i).controller = i THEN NoCall ELSE Mine(i).controller
    /\ calls' = [calls EXCEPT ![i] = EndedCall(calls[i])]
    /\ \/ Seen(r) = Seen(Mine(i)) /\ UNCHANGED <<writes, work>>
       \/ MayCommit(i) /\ ~r.pending /\ Persist(Current', NoCall, Ended)
    /\ UNCHANGED <<background, expired, up, file, events, interrupted, recovery>>
<1>1. /\ calls[i] \in CallRecords /\ calls[i].stage = "started"
      /\ calls[i].entry \in 1..Len(entries)
      /\ Mine(i) = entries[calls[i].entry] /\ Mine(i) \in EntryRecords
  BY CallIs DEF TypeOK, CallInv, CallHolds, Running, Started, Mine
<1>2. calls' = [calls EXCEPT ![i] = EndedCall(calls[i])]
  BY DEF Finish, Fail, EndCall
<1>3. UNCHANGED <<background, expired, up, file, events, interrupted, recovery>>
  BY DEF Finish, Fail
<1>4. ASSUME Drop(i)
      PROVE  \E r \in EntryRecords :
        /\ entries' = [entries EXCEPT ![calls[i].entry] = r]
        /\ r.token = Mine(i).token
        /\ r.controller = IF Mine(i).controller = i THEN NoCall ELSE Mine(i).controller
        /\ Seen(r) = Seen(Mine(i)) /\ UNCHANGED <<writes, work>>
  <2> DEFINE r == Released(i, Mine(i))
  <2>1. entries' = [entries EXCEPT ![calls[i].entry] = r] /\ UNCHANGED <<writes, work>>
    BY <1>1, <1>4 DEF Drop, Released
  <2>2. /\ r \in EntryRecords /\ r.token = Mine(i).token /\ Seen(r) = Seen(Mine(i))
        /\ r.controller = IF Mine(i).controller = i THEN NoCall ELSE Mine(i).controller
    BY <1>1 DEF Released, EntryRecords, Seen, NoCall
  <2> QED BY <2>1, <2>2
<1>5. ASSUME NEW e \in EntryRecords, e.token = Mine(i).token, ~e.pending,
             e.controller = Mine(i).controller, Settle(i, e)
      PROVE  \E r \in EntryRecords :
        /\ entries' = [entries EXCEPT ![calls[i].entry] = r]
        /\ r.token = Mine(i).token
        /\ r.controller = IF Mine(i).controller = i THEN NoCall ELSE Mine(i).controller
        /\ ~r.pending /\ Persist(Current', NoCall, Ended)
  <2> DEFINE r == Released(i, e)
  <2>1. entries' = [entries EXCEPT ![calls[i].entry] = r] /\ Persist(Current', NoCall, Ended)
    BY <1>5 DEF Settle, Current
  <2>2. /\ r \in EntryRecords /\ r.token = Mine(i).token /\ ~r.pending
        /\ r.controller = IF Mine(i).controller = i THEN NoCall ELSE Mine(i).controller
    BY <1>1, <1>5 DEF Released, EntryRecords, NoCall
  <2> QED BY <2>1, <2>2
<1>6. ASSUME NEW result \in {"completed", "partial", "timeout", "failed"}
      PROVE  LET e == AfterResult(Mine(i), result)
             IN  /\ e \in EntryRecords /\ e.token = Mine(i).token /\ ~e.pending
                 /\ e.controller = Mine(i).controller
  BY <1>1 DEF AfterResult, StatusAfter, EntryRecords, Statuses, Errors
<1>7. LET e == AfterError(Mine(i), i)
      IN  /\ e \in EntryRecords /\ e.token = Mine(i).token /\ ~e.pending
          /\ e.controller = Mine(i).controller
  BY <1>1 DEF AfterError, EntryRecords, Statuses, Errors
<1>8. \/ Drop(i)
      \/ /\ MayCommit(i)
         /\ \/ \E result \in {"completed", "partial", "timeout", "failed"} : Settle(i, AfterResult(Mine(i), result))
            \/ Settle(i, AfterError(Mine(i), i))
  BY DEF Finish, Fail
<1>9. CASE Drop(i)
  BY <1>2, <1>3, <1>4, <1>9
<1>10. CASE MayCommit(i) /\ \E result \in {"completed", "partial", "timeout", "failed"} : Settle(i, AfterResult(Mine(i), result))
  <2>1. PICK result \in {"completed", "partial", "timeout", "failed"} : Settle(i, AfterResult(Mine(i), result))
    BY <1>10
  <2> DEFINE e == AfterResult(Mine(i), result)
  <2>2. /\ e \in EntryRecords /\ e.token = Mine(i).token /\ ~e.pending /\ e.controller = Mine(i).controller
        /\ Settle(i, e)
    BY <2>1, <1>6
  <2> HIDE DEF e
  <2> QED BY <1>2, <1>3, <1>5, <1>10, <2>2
<1>11. CASE MayCommit(i) /\ Settle(i, AfterError(Mine(i), i))
  <2> DEFINE e == AfterError(Mine(i), i)
  <2>2. /\ e \in EntryRecords /\ e.token = Mine(i).token /\ ~e.pending /\ e.controller = Mine(i).controller
        /\ Settle(i, e)
    BY <1>11, <1>7
  <2> HIDE DEF e
  <2> QED BY <1>2, <1>3, <1>5, <1>11, <2>2
<1> QED BY <1>8, <1>9, <1>10, <1>11

\* A call that ends is a call of the session under way.
CallEnds(i) ==
  /\ Running(i)
  /\ \/ \E result \in {"completed", "partial", "timeout", "failed"} : Finish(i, result)
     \/ \E repeats \in BOOLEAN : Fail(i, repeats)

\* The actions, with the three ways in which a running call ends as one.
LEMMA NextCases ==
  ASSUME TypeOK, Next
  PROVE  \/ Spawn \/ Resume \/ Interrupt \/ Cancel \/ Expire \/ Crash
         \/ \E i \in 1..Len(calls) :
              SummaryPass(i) \/ Start(i) \/ StartUnavailable(i) \/ CallEnds(i)
                \/ Deadline(i) \/ ParentAbort(i)
         \/ \E k \in 1..Len(writes) : Land(k)
         \/ \E handler \in BOOLEAN : Restart(handler)
<1>1. DOMAIN calls = 1..Len(calls) /\ DOMAIN writes = 1..Len(writes)
  BY DEF TypeOK
<1>2. ASSUME NEW i \in 1..MaxCalls,
             \/ SummaryPass(i) \/ Start(i) \/ StartUnavailable(i)
             \/ \E result \in {"completed", "partial", "timeout", "failed"} : Finish(i, result)
             \/ \E repeats \in BOOLEAN : Throw(i, repeats)
             \/ Rejected(i) \/ Deadline(i) \/ ParentAbort(i)
      PROVE  \E j \in 1..Len(calls) :
               SummaryPass(j) \/ Start(j) \/ StartUnavailable(j) \/ CallEnds(j)
                 \/ Deadline(j) \/ ParentAbort(j)
  <2>1. SummaryPass(i) => i \in DOMAIN calls
    BY DEF SummaryPass
  <2>2. Start(i) \/ StartUnavailable(i) => i \in DOMAIN calls
    BY DEF Start, StartUnavailable, ReadyToStart, Admitted
  <2>3. Deadline(i) \/ ParentAbort(i) \/ Running(i) => i \in DOMAIN calls
    BY DEF Deadline, ParentAbort, Running, Started
  <2>4. (\E result \in {"completed", "partial", "timeout", "failed"} : Finish(i, result)) => CallEnds(i)
    BY DEF Finish, CallEnds
  <2>5. (\E repeats \in BOOLEAN : Throw(i, repeats)) => CallEnds(i)
    BY DEF Throw, CallEnds
  <2>6. Rejected(i) => CallEnds(i)
    <3>1. (calls[i].abort = "interrupt") \in BOOLEAN
      OBVIOUS
    <3> QED BY <3>1 DEF Rejected, CallEnds
  <2>7. CallEnds(i) => i \in DOMAIN calls
    BY <2>3 DEF CallEnds
  <2> QED BY <1>1, <1>2, <2>1, <2>2, <2>3, <2>4, <2>5, <2>6, <2>7
<1>3. \A k : Land(k) => k \in 1..Len(writes)
  BY <1>1 DEF Land
<1> QED BY <1>2, <1>3 DEF Next

-----------------------------------------------------------------------------
(* Types                                                                   *)

\* What a call of this daemon, or a run of its handler, presupposes.
LEMMA CallFacts ==
  ASSUME TypeOK, CallInv, NEW i \in 1..Len(calls)
  PROVE  /\ calls[i].stage # "lost" => up /\ Live
         /\ i \in Started => up /\ Live /\ calls[i].entry \in 1..Len(entries)
         /\ i \in Admitted => up /\ Live /\ calls[i].stage = "asked"
BY DEF CallInv, CallHolds, Started, Admitted

\* The write that a change of the entry starts.
LEMMA PersistFacts ==
  ASSUME TypeOK, NEW e \in EntryRecords, NEW by \in Nat, NEW known \in Knowledge,
         Persist(e, by, known)
  PROVE  /\ writes' \in Seq(SnapshotRecords)
         /\ Len(writes') = Len(writes) + 1
         /\ Len(writes') <= MaxWrites
         /\ writes'[Len(writes) + 1] = Snapshot(e, by, known.begun, known.ended)
         /\ \A k \in 1..Len(writes) : writes'[k] = writes[k]
         /\ work' = known
<1>1. writes \in Seq(SnapshotRecords) /\ Len(writes) < MaxWrites /\ MaxWrites \in Nat /\ Len(writes) \in Nat
  BY WorkerAssumption DEF TypeOK, Persist
<1>2. known.begun \in BOOLEAN /\ known.ended \in BOOLEAN
  BY DEF Knowledge
<1>3. Snapshot(e, by, known.begun, known.ended) \in SnapshotRecords
  BY <1>2, SnapshotIs
<1> QED BY <1>1, <1>3, SeqAppend DEF Persist

\* What the newest invocation may be known to be.
LEMMA KnowledgeIs ==
  ASSUME TypeOK
  PROVE  /\ Ended \in Knowledge /\ work \in Knowledge
         /\ NoWork \in Knowledge
         /\ Ended.begun = work.begun /\ Ended.ended = work.begun
         /\ Ended.landed = work.landed /\ Ended.endDurable = work.endDurable
BY DEF TypeOK, Knowledge, Ended, NoWork

\* A call that starts, and the entry it marks.
StartedEntry(i) ==
  [Current EXCEPT !.status = "running", !.token = Current.token + 1, !.controller = i,
                  !.pending = background]

\* Starting a call.
LEMMA StartFacts ==
  ASSUME TypeOK, CallInv, NEW i \in 1..Len(calls), Start(i)
  PROVE  /\ up /\ Live /\ calls[i].stage = "asked"
         /\ StartedEntry(i) \in EntryRecords
         /\ StartedEntry(i).token = Current.token + 1
         /\ StartedEntry(i).controller = i
         /\ StartedEntry(i).status = "running"
         /\ StartedEntry(i).pending = background
         /\ entries' \in Seq(EntryRecords) /\ Len(entries') = Len(entries)
         /\ entries'[Len(entries)] = StartedEntry(i)
         /\ calls' \in Seq(CallRecords) /\ Len(calls') = Len(calls)
         /\ calls'[i].stage = "started" /\ calls'[i].entry = Len(entries)
         /\ calls'[i].token = Current.token + 1 /\ calls'[i].overtaken = calls[i].overtaken
         /\ \A j \in 1..Len(calls) : j # i => calls'[j] = Overtake(calls, "displaced")[j]
         /\ writes' \in Seq(SnapshotRecords)
         /\ Len(writes') = Len(writes) + 1 /\ Len(writes') <= MaxWrites
         /\ writes'[Len(writes) + 1] = Snapshot(StartedEntry(i), i, background, FALSE)
         /\ \A k \in 1..Len(writes) :
              writes'[k] = [writes[k] EXCEPT !.begun = FALSE, !.ended = FALSE]
         /\ work' = [NoWork EXCEPT !.begun = background]
         /\ UNCHANGED <<background, expired, up, file, events, interrupted, recovery>>
<1> DEFINE e == StartedEntry(i)
           cs == Overtake(calls, "displaced")
           c == [cs[i] EXCEPT !.stage = "started", !.entry = Len(entries), !.token = Current.token + 1,
                              !.awaits = TRUE]
           ws == [k \in 1..Len(writes) |-> [writes[k] EXCEPT !.begun = FALSE, !.ended = FALSE]]
           s == Snapshot(e, i, background, FALSE)
<1>1. up /\ Live /\ calls[i].stage = "asked"
  BY CallFacts DEF Start, ReadyToStart
<1>2. /\ Current \in EntryRecords /\ Len(entries) \in 1..Len(entries) /\ Len(entries) \in Nat
      /\ background \in BOOLEAN /\ i \in Nat
      /\ Current.token + 1 \in Nat
  <2>1. Current \in EntryRecords /\ Len(calls) \in Nat
    BY <1>1, CurrentIs DEF TypeOK
  <2>2. Current.token \in Nat
    BY <2>1 DEF EntryRecords
  <2> QED BY <1>1, <2>1, <2>2, CurrentIs DEF TypeOK
<1>3. e \in EntryRecords /\ e.token = Current.token + 1 /\ e.controller = i
      /\ e.status = "running" /\ e.pending = background
  BY <1>2 DEF StartedEntry, EntryRecords, Statuses
<1>4. entries' = [entries EXCEPT ![Len(entries)] = e]
  BY DEF Start, StartedEntry
<1>5. entries' \in Seq(EntryRecords) /\ Len(entries') = Len(entries) /\ entries'[Len(entries)] = e
  <2>1. entries \in Seq(EntryRecords)
    BY DEF TypeOK
  <2> HIDE DEF e
  <2> QED BY <1>2, <1>3, <1>4, <2>1, SeqPut
<1>6. /\ cs \in Seq(CallRecords) /\ Len(cs) = Len(calls) /\ cs[i] = calls[i]
      /\ cs[i] \in CallRecords
  BY <1>1, OvertakeFacts, CallIs
<1>7. calls' = [cs EXCEPT ![i] = c]
  <2>1. calls' = [cs EXCEPT ![i].stage = "started", ![i].entry = Len(entries),
                            ![i].token = e.token, ![i].awaits = TRUE]
    BY DEF Start, StartedEntry
  <2>2. DOMAIN cs = 1..Len(calls)
    BY <1>6
  <2> HIDE DEF e, cs
  <2> QED BY <1>3, <1>6, <2>1, <2>2
<1>8. c \in CallRecords /\ c.stage = "started" /\ c.entry = Len(entries)
      /\ c.token = Current.token + 1 /\ c.overtaken = calls[i].overtaken
  <2> HIDE DEF cs
  <2>1. cs[i].overtaken = calls[i].overtaken
    BY <1>6
  <2> QED BY <1>2, <1>6, <2>1 DEF CallRecords
<1>9. /\ calls' \in Seq(CallRecords) /\ Len(calls') = Len(calls) /\ calls'[i] = c
      /\ \A j \in 1..Len(calls) : j # i => calls'[j] = cs[j]
  <2> HIDE DEF cs, c
  <2> QED BY <1>6, <1>7, <1>8, SeqPut
<1>10. writes' = Append(ws, s) /\ Len(writes) < MaxWrites
  <2>1. DOMAIN writes = 1..Len(writes)
    BY DEF TypeOK
  <2> QED BY <2>1 DEF Start, StartedEntry
<1>11. Len(writes) \in Nat /\ MaxWrites \in Nat /\ writes \in Seq(SnapshotRecords)
  BY WorkerAssumption DEF TypeOK
<1>12. ws \in Seq(SnapshotRecords) /\ Len(ws) = Len(writes)
  <2>1. \A k \in 1..Len(writes) : [writes[k] EXCEPT !.begun = FALSE, !.ended = FALSE] \in SnapshotRecords
    <3>1. \A k \in 1..Len(writes) : writes[k] \in SnapshotRecords
      BY <1>11
    <3> QED BY <3>1 DEF SnapshotRecords
  <2>2. ws \in [1..Len(writes) -> SnapshotRecords]
    BY <2>1
  <2> HIDE DEF ws
  <2> QED BY <2>2, <1>11, SeqOf
<1>13. s \in SnapshotRecords
  BY <1>2, <1>3, SnapshotIs
<1>14. \A k \in 1..Len(writes) : ws[k] = [writes[k] EXCEPT !.begun = FALSE, !.ended = FALSE]
  OBVIOUS
<1>15. /\ writes' \in Seq(SnapshotRecords)
       /\ Len(writes') = Len(writes) + 1 /\ Len(writes') <= MaxWrites
       /\ writes'[Len(writes) + 1] = s
       /\ \A k \in 1..Len(writes) : writes'[k] = ws[k]
  <2> HIDE DEF s, ws
  <2> QED BY <1>10, <1>11, <1>12, <1>13, SeqAppend
<1>16. /\ work' = [NoWork EXCEPT !.begun = background]
       /\ UNCHANGED <<background, expired, up, file, events, interrupted, recovery>>
  BY DEF Start
<1> QED BY <1>1, <1>3, <1>5, <1>8, <1>9, <1>14, <1>15, <1>16

\* A write that lands leaves the ones before it marked.
LEMMA LandFacts ==
  ASSUME TypeOK, NEW k \in 1..Len(writes), Land(k)
  PROVE  /\ file' \in SnapshotRecords
         /\ Owing(file') <=> Owing(writes[k])
         /\ file'.passed = writes[k].passed
         /\ writes' \in Seq(SnapshotRecords) /\ Len(writes') = Len(writes) - 1
         /\ \A j \in 1..Len(writes') :
              writes'[j] = IF j < k THEN [writes[j] EXCEPT !.passed = TRUE] ELSE writes[j + 1]
         /\ calls' \in Seq(CallRecords) /\ Len(calls') = Len(calls)
         /\ \A i \in 1..Len(calls), f \in {"kind", "stage", "entry", "token", "abort", "rejected", "overtaken", "summed"} :
              calls'[i][f] = calls[i][f]
         /\ work' \in Knowledge
         /\ work'.begun = work.begun /\ work'.ended = work.ended
         /\ work'.landed <=> work.landed \/ writes[k].begun
         /\ work'.endDurable <=> work.endDurable \/ writes[k].ended
         /\ UNCHANGED <<background, expired, up, entries, events, interrupted, recovery>>
<1> DEFINE n == Len(writes)
           w(j) == IF j < k THEN [writes[j] EXCEPT !.passed = TRUE] ELSE writes[j + 1]
           c(i) == IF i = writes[k].by THEN [calls[i] EXCEPT !.awaits = FALSE] ELSE calls[i]
<1>1. /\ n \in Nat /\ n - 1 \in Nat /\ writes[k] \in SnapshotRecords
      /\ \A j \in 1..n : writes[j] \in SnapshotRecords
      /\ Len(calls) \in Nat /\ DOMAIN calls = 1..Len(calls)
      /\ \A i \in 1..Len(calls) : calls[i] \in CallRecords
  BY DEF TypeOK
<1>2. /\ file' \in SnapshotRecords /\ file'.passed = writes[k].passed
      /\ Owing(file') <=> Owing(writes[k])
  <2>1. file' = [writes[k] EXCEPT !.by = 0, !.begun = FALSE, !.ended = FALSE]
    BY DEF Land, NoCall
  <2> QED BY <1>1, <2>1 DEF SnapshotRecords, Owing
<1>3. writes' = [j \in 1..(n - 1) |-> w(j)]
  BY DEF Land
<1>4. \A j \in 1..(n - 1) : w(j) \in SnapshotRecords
  <2> TAKE j \in 1..(n - 1)
  <2>1. j \in 1..n /\ j + 1 \in 1..n
    BY <1>1
  <2> QED BY <1>1, <2>1 DEF SnapshotRecords
<1>5. calls' = [i \in 1..Len(calls) |-> c(i)]
  BY <1>1 DEF Land
<1>6. \A i \in 1..Len(calls) :
        /\ c(i) \in CallRecords
        /\ \A f \in {"kind", "stage", "entry", "token", "abort", "rejected", "overtaken", "summed"} : c(i)[f] = calls[i][f]
  <2> TAKE i \in 1..Len(calls)
  <2> DEFINE r == [calls[i] EXCEPT !.awaits = FALSE]
  <2>1. calls[i] \in CallRecords
    BY <1>1
  <2>2. /\ r \in CallRecords
        /\ \A f \in {"kind", "stage", "entry", "token", "abort", "rejected", "overtaken", "summed"} : r[f] = calls[i][f]
    BY <2>1 DEF CallRecords
  <2>3. c(i) = r \/ c(i) = calls[i]
    OBVIOUS
  <2> QED BY <2>1, <2>2, <2>3
<1>7. /\ work' \in Knowledge
      /\ work'.begun = work.begun /\ work'.ended = work.ended
      /\ work'.landed <=> work.landed \/ writes[k].begun
      /\ work'.endDurable <=> work.endDurable \/ writes[k].ended
  <2>1. work' = [work EXCEPT !.landed = work.landed \/ writes[k].begun,
                             !.endDurable = work.endDurable \/ writes[k].ended]
    BY DEF Land
  <2>2. work \in Knowledge
    BY DEF TypeOK
  <2> QED BY <1>1, <2>1, <2>2 DEF Knowledge, SnapshotRecords
<1>8. UNCHANGED <<background, expired, up, entries, events, interrupted, recovery>>
  BY DEF Land
<1> HIDE DEF w, c
<1>9. writes' \in [1..(n - 1) -> SnapshotRecords] /\ \A j \in 1..(n - 1) : writes'[j] = w(j)
  BY <1>3, <1>4
<1>10. writes' \in Seq(SnapshotRecords) /\ Len(writes') = n - 1
  BY <1>1, <1>9, SeqOf
<1>11. calls' \in [1..Len(calls) -> CallRecords] /\ \A i \in 1..Len(calls) : calls'[i] = c(i)
  BY <1>5, <1>6
<1>12. calls' \in Seq(CallRecords) /\ Len(calls') = Len(calls)
  BY <1>1, <1>11, SeqOf
<1> QED BY <1>2, <1>6, <1>7, <1>8, <1>9, <1>10, <1>11, <1>12 DEF w

\* What a restart makes of the file.
LEMMA HydratedIs ==
  ASSUME TypeOK, file # NoFile, NEW handler \in BOOLEAN
  PROVE  /\ file \in SnapshotRecords
         /\ Hydrated(handler) \in EntryRecords
         /\ Recoverable(Hydrated(handler).status) => Recoverable(file.status)
         /\ Hydrated(handler).pending => file.pending
         /\ Owing(file) /\ handler /\ ~(background /\ expired) =>
              Hydrated(handler).status = "resumable" /\ Hydrated(handler).pending
<1> DEFINE e == [Fresh EXCEPT !.status = file.status, !.error = file.error,
                   !.token = file.token, !.pending = file.pending, !.handler = handler]
<1>1. file \in SnapshotRecords
  BY DEF TypeOK
<1>2. /\ e \in EntryRecords /\ e.status = file.status /\ e.pending = file.pending
      /\ e.error = file.error /\ e.token = file.token /\ e.handler = handler
  BY <1>1 DEF SnapshotRecords, EntryRecords, Fresh, NoCall
<1> HIDE DEF e
<1>3. Hydrated(handler) =
        IF ~Recoverable(e.status) THEN e
        ELSE IF background /\ expired
        THEN [e EXCEPT !.status = "cancelled", !.error = "fatal", !.token = e.token + 1, !.pending = FALSE]
        ELSE IF ~handler THEN [e EXCEPT !.status = "failed", !.error = "fatal"]
        ELSE IF e.status = "running"
        THEN [e EXCEPT !.status = "resumable", !.error = "timeout"]
        ELSE e
  BY DEF Hydrated, e
<1>4. /\ \A s \in Statuses, x \in Errors : [e EXCEPT !.status = s, !.error = x] \in EntryRecords
      /\ [e EXCEPT !.status = "cancelled", !.error = "fatal", !.token = e.token + 1, !.pending = FALSE] \in EntryRecords
  <2>1. e.token \in Nat /\ e.token + 1 \in Nat
    BY <1>2 DEF EntryRecords
  <2>2. \A s \in Statuses, x \in Errors : [e EXCEPT !.status = s, !.error = x] \in EntryRecords
    BY <1>2 DEF EntryRecords
  <2>3. "cancelled" \in Statuses /\ "fatal" \in Errors
    BY DEF Statuses, Errors
  <2>4. [e EXCEPT !.status = "cancelled", !.error = "fatal", !.token = e.token + 1, !.pending = FALSE] \in EntryRecords
    BY <1>2, <2>1, <2>3 DEF EntryRecords
  <2> QED BY <2>2, <2>4
<1>5. Hydrated(handler) \in EntryRecords
  BY <1>2, <1>3, <1>4 DEF Statuses, Errors
<1>6. CASE ~Recoverable(e.status)
  BY <1>1, <1>2, <1>3, <1>5, <1>6 DEF Owing
<1>7. CASE Recoverable(e.status) /\ background /\ expired
  BY <1>1, <1>2, <1>3, <1>5, <1>7
<1>8. CASE Recoverable(e.status) /\ ~(background /\ expired) /\ ~handler
  BY <1>1, <1>2, <1>3, <1>5, <1>8 DEF EntryRecords
<1>9. CASE Recoverable(e.status) /\ ~(background /\ expired) /\ handler
  <2>1. CASE e.status = "running"
    <3>1. Hydrated(handler) = [e EXCEPT !.status = "resumable", !.error = "timeout"]
      BY <1>3, <1>9, <2>1
    <3>2. Hydrated(handler).status = "resumable" /\ Hydrated(handler).pending = e.pending
      BY <1>2, <3>1 DEF EntryRecords
    <3> QED BY <1>1, <1>2, <1>5, <1>9, <2>1, <3>2 DEF Recoverable, Owing
  <2>2. CASE e.status # "running"
    <3>1. Hydrated(handler) = e /\ e.status = "resumable"
      BY <1>3, <1>9, <2>2 DEF Recoverable
    <3> QED BY <1>1, <1>2, <1>5, <1>9, <3>1 DEF Recoverable, Owing
  <2> QED BY <2>1, <2>2
<1> QED BY <1>6, <1>7, <1>8, <1>9

\* The type invariant, when it is known of each variable.
LEMMA TypeIs ==
  ASSUME background' \in BOOLEAN, expired' \in BOOLEAN, up' \in BOOLEAN,
         entries' \in Seq(EntryRecords), background' => Len(entries') <= 1,
         calls' \in Seq(CallRecords), Len(calls') <= MaxCalls, ~up' => Len(calls') < MaxCalls,
         writes' \in Seq(SnapshotRecords), Len(writes') <= MaxWrites,
         file' \in SnapshotRecords \cup {NoFile}, events' \in 0..MaxEvents,
         interrupted' \in BOOLEAN, work' \in Knowledge,
         recovery' \in [again : BOOLEAN, ended : BOOLEAN, owed : BOOLEAN, stale : BOOLEAN]
  PROVE  TypeOK'
BY DEF TypeOK

\* Every action keeps the types and the bounds.
LEMMA TypeStep ==
  ASSUME TypeOK, CallInv, Next
  PROVE  TypeOK'
<1>0. /\ background \in BOOLEAN /\ expired \in BOOLEAN /\ up \in BOOLEAN
      /\ entries \in Seq(EntryRecords) /\ Len(entries) \in Nat
      /\ background => Len(entries) <= 1
      /\ calls \in Seq(CallRecords) /\ Len(calls) \in Nat /\ DOMAIN calls = 1..Len(calls)
      /\ Len(calls) <= MaxCalls
      /\ ~up => Len(calls) < MaxCalls
      /\ writes \in Seq(SnapshotRecords) /\ Len(writes) \in Nat
      /\ Len(writes) <= MaxWrites
      /\ file \in SnapshotRecords \cup {NoFile}
      /\ events \in 0..MaxEvents
      /\ interrupted \in BOOLEAN
      /\ work \in Knowledge
      /\ recovery \in [again : BOOLEAN, ended : BOOLEAN, owed : BOOLEAN, stale : BOOLEAN]
      /\ MaxCalls \in Nat \ {0} /\ MaxWrites \in Nat \ {0} /\ MaxEvents \in Nat
  BY WorkerAssumption DEF TypeOK
<1>1. Event => events' \in 0..MaxEvents
  BY <1>0 DEF Event
<1>2. CASE Spawn
  <2>1. entries' \in Seq(EntryRecords) /\ Len(entries') = Len(entries) + 1
    BY <1>0, <1>2, FreshIs, SeqAppend DEF Spawn
  <2>2. background' => Len(entries') <= 1
    BY <1>0, <1>2, <2>1 DEF Spawn, Live
  <2>3. calls' \in Seq(CallRecords) /\ Len(calls') = Len(calls) + 1 /\ Len(calls) < MaxCalls /\ up'
    <3> DEFINE c == NewCall("spawn", TRUE)
               os == Overtake(calls, "displaced")
    <3>1. c \in CallRecords
      BY FreshIs
    <3>2. calls' = Append(os, c) /\ Len(calls) < MaxCalls /\ up'
      BY <1>2 DEF Spawn
    <3>3. os \in Seq(CallRecords) /\ Len(os) = Len(calls)
      BY OvertakeFacts
    <3> HIDE DEF c, os
    <3> QED BY <3>1, <3>2, <3>3, SeqAppend
  <2>4. writes' \in Seq(SnapshotRecords) /\ Len(writes') <= MaxWrites /\ work' = work
    <3>1. Persist(Fresh, Len(calls) + 1, work) /\ Len(calls) + 1 \in Nat
      BY <1>0, <1>2 DEF Spawn
    <3> QED BY <1>0, <3>1, FreshIs, PersistFacts
  <2>5. events' \in 0..MaxEvents /\ UNCHANGED <<background, expired, up, file, interrupted, recovery>>
    BY <1>0, <1>1, <1>2 DEF Spawn
  <2> QED BY <1>0, <2>1, <2>2, <2>3, <2>4, <2>5, TypeIs
<1>3. CASE Resume
  <2>1. calls' \in Seq(CallRecords) /\ Len(calls') = Len(calls) + 1 /\ Len(calls) < MaxCalls /\ up'
    <3> DEFINE c == NewCall("ask", FALSE)
    <3>1. c \in CallRecords
      BY FreshIs
    <3>2. calls' = Append(calls, c) /\ Len(calls) < MaxCalls /\ up'
      BY <1>3 DEF Resume
    <3> HIDE DEF c
    <3> QED BY <1>0, <3>1, <3>2, SeqAppend
  <2>2. UNCHANGED <<background, expired, up, entries, writes, file, events, interrupted, work, recovery>>
    BY <1>3 DEF Resume
  <2> QED BY <1>0, <2>1, <2>2, TypeIs
<1>4. ASSUME NEW i \in 1..Len(calls), SummaryPass(i)
      PROVE  TypeOK'
  <2> DEFINE r == [calls[i] EXCEPT !.summed = TRUE]
             c == NewCall("summary", FALSE)
  <2>1. r \in CallRecords /\ c \in CallRecords
    <3>1. c \in CallRecords
      BY FreshIs
    <3>2. r \in CallRecords
      BY CallIs DEF CallRecords
    <3> QED BY <3>1, <3>2
  <2>2. calls' = Append([calls EXCEPT ![i] = r], c) /\ Len(calls) < MaxCalls /\ up'
    BY <1>4 DEF SummaryPass
  <2> HIDE DEF r, c
  <2>3. [calls EXCEPT ![i] = r] \in Seq(CallRecords) /\ Len([calls EXCEPT ![i] = r]) = Len(calls)
    BY <1>0, <2>1, SeqPut
  <2>4. calls' \in Seq(CallRecords) /\ Len(calls') = Len(calls) + 1
    BY <2>1, <2>2, <2>3, SeqAppend
  <2>5. UNCHANGED <<background, expired, up, entries, writes, file, events, interrupted, work, recovery>>
    BY <1>4 DEF SummaryPass
  <2> QED BY <1>0, <2>2, <2>4, <2>5, TypeIs
<1>5. ASSUME NEW i \in 1..Len(calls), Start(i)
      PROVE  TypeOK'
  <2>1. /\ entries' \in Seq(EntryRecords) /\ Len(entries') = Len(entries)
        /\ calls' \in Seq(CallRecords) /\ Len(calls') = Len(calls)
        /\ writes' \in Seq(SnapshotRecords) /\ Len(writes') <= MaxWrites
        /\ work' = [NoWork EXCEPT !.begun = background]
        /\ UNCHANGED <<background, expired, up, file, events, interrupted, recovery>>
    BY <1>5, StartFacts
  <2>2. work' \in Knowledge
    BY <1>0, <2>1 DEF NoWork, Knowledge
  <2> QED BY <1>0, <2>1, <2>2, TypeIs
<1>6. ASSUME NEW i \in 1..Len(calls), StartUnavailable(i)
      PROVE  TypeOK'
  <2> DEFINE e == [Current EXCEPT !.status = "failed", !.error = "fatal"]
  <2>1. up /\ Live
    BY <1>6, CallFacts DEF StartUnavailable, ReadyToStart
  <2>2. e \in EntryRecords
    BY <2>1, CurrentIs DEF EntryRecords, Statuses, Errors
  <2>3. entries' = [entries EXCEPT ![Len(entries)] = e] /\ Persist(e, NoCall, Ended)
    BY <1>6 DEF StartUnavailable
  <2> HIDE DEF e
  <2>4. entries' \in Seq(EntryRecords) /\ Len(entries') = Len(entries)
    BY <1>0, <2>1, <2>2, <2>3, CurrentIs, SeqPut
  <2>5. writes' \in Seq(SnapshotRecords) /\ Len(writes') <= MaxWrites /\ work' \in Knowledge
    <3>1. NoCall \in Nat
      BY DEF NoCall
    <3> QED BY <2>2, <2>3, <3>1, PersistFacts, KnowledgeIs
  <2>6. calls' = [calls EXCEPT ![i] = EndedCall(calls[i])]
    BY <1>6 DEF StartUnavailable, EndCall
  <2>7. calls' \in Seq(CallRecords) /\ Len(calls') = Len(calls)
    BY <1>0, <2>6, EndedIs, SeqPut
  <2>8. UNCHANGED <<background, expired, up, file, events, interrupted, recovery>>
    BY <1>6 DEF StartUnavailable
  <2> QED BY <1>0, <2>4, <2>5, <2>7, <2>8, TypeIs
<1>7. ASSUME NEW i \in 1..Len(calls), CallEnds(i)
      PROVE  TypeOK'
  <2>1. Running(i)
    BY <1>7 DEF CallEnds
  <2>2. PICK r \in EntryRecords :
          /\ entries' = [entries EXCEPT ![calls[i].entry] = r]
          /\ calls' = [calls EXCEPT ![i] = EndedCall(calls[i])]
          /\ \/ UNCHANGED <<writes, work>>
             \/ Persist(Current', NoCall, Ended)
          /\ UNCHANGED <<background, expired, up, file, events, interrupted, recovery>>
    BY <1>7, <2>1, EndEffects DEF CallEnds
  <2>3. calls[i].entry \in 1..Len(entries)
    BY <2>1, CallFacts DEF Running
  <2>4. entries' \in Seq(EntryRecords) /\ Len(entries') = Len(entries)
    BY <1>0, <2>2, <2>3, SeqPut
  <2>5. Current' \in EntryRecords /\ NoCall \in Nat
    BY <1>0, <2>3, <2>4 DEF Current, NoCall
  <2>6. writes' \in Seq(SnapshotRecords) /\ Len(writes') <= MaxWrites /\ work' \in Knowledge
    <3>1. CASE UNCHANGED <<writes, work>>
      BY <1>0, <3>1
    <3>2. CASE Persist(Current', NoCall, Ended)
      BY <2>5, <3>2, PersistFacts, KnowledgeIs
    <3> QED BY <2>2, <3>1, <3>2
  <2>7. calls' \in Seq(CallRecords) /\ Len(calls') = Len(calls)
    BY <1>0, <2>2, EndedIs, SeqPut
  <2> QED BY <1>0, <2>2, <2>4, <2>6, <2>7, TypeIs
<1>8. ASSUME NEW i \in 1..Len(calls), Deadline(i) \/ ParentAbort(i)
      PROVE  TypeOK'
  <2> DEFINE p == Mine(i).preserve
  <2>1. i \in Nat /\ p \in BOOLEAN
    <3>1. i \in Started
      BY <1>8 DEF Deadline, ParentAbort
    <3>2. Mine(i) \in EntryRecords
      BY <1>0, <3>1, CallFacts DEF Mine
    <3> QED BY <1>0, <3>2 DEF EntryRecords
  <2>2. PICK why \in {"deadline", "parent"} : calls' = Aborted(calls, i, why, p)
    BY <1>8 DEF Deadline, ParentAbort
  <2> HIDE DEF p
  <2>3. calls' \in Seq(CallRecords) /\ Len(calls') = Len(calls)
    <3>1. why \in {"interrupt", "cancel", "deadline", "parent"}
      OBVIOUS
    <3> QED BY <1>0, <2>1, <2>2, <3>1, AbortedFacts
  <2>4. events' \in 0..MaxEvents /\ UNCHANGED <<background, expired, up, entries, writes, file, interrupted, work, recovery>>
    BY <1>0, <1>1, <1>8 DEF Deadline, ParentAbort
  <2> QED BY <1>0, <2>3, <2>4, TypeIs
<1>9. CASE Interrupt
  <2> DEFINE e == [Current EXCEPT !.status = "resumable", !.error = "timeout",
                                  !.preserve = TRUE, !.controller = NoCall]
  <2>1. up /\ Live
    BY <1>0, <1>9, CallFacts DEF Interrupt, Started
  <2>2. e \in EntryRecords /\ Current.controller \in Nat
    BY <2>1, CurrentIs DEF EntryRecords, Statuses, Errors, NoCall
  <2>3. /\ entries' = [entries EXCEPT ![Len(entries)] = e] /\ Persist(e, NoCall, work)
        /\ calls' = Aborted(calls, Current.controller, "interrupt", TRUE)
        /\ interrupted' = TRUE
        /\ Event
        /\ UNCHANGED <<background, expired, up, file, recovery>>
    BY <1>9 DEF Interrupt
  <2> HIDE DEF e
  <2>4. entries' \in Seq(EntryRecords) /\ Len(entries') = Len(entries)
    BY <1>0, <2>1, <2>2, <2>3, CurrentIs, SeqPut
  <2>5. writes' \in Seq(SnapshotRecords) /\ Len(writes') <= MaxWrites /\ work' \in Knowledge
    <3>1. NoCall \in Nat
      BY DEF NoCall
    <3> QED BY <2>2, <2>3, <3>1, PersistFacts, KnowledgeIs
  <2>6. calls' \in Seq(CallRecords) /\ Len(calls') = Len(calls)
    <3> DEFINE yes == TRUE
    <3>1. yes \in BOOLEAN /\ calls' = Aborted(calls, Current.controller, "interrupt", yes)
      BY <2>3
    <3> HIDE DEF yes
    <3> QED BY <1>0, <2>2, <3>1, AbortedFacts
  <2> QED BY <1>0, <1>1, <2>3, <2>4, <2>5, <2>6, TypeIs
<1>10. CASE Cancel
  <2> DEFINE e == Cancelled(Current)
  <2>1. up /\ Live
    BY <1>10 DEF Cancel
  <2>2. e \in EntryRecords /\ Current.controller \in Nat /\ Current.preserve \in BOOLEAN
    <3>1. Current \in EntryRecords
      BY <2>1, CurrentIs
    <3>2. Current.token + 1 \in Nat
      BY <3>1 DEF EntryRecords
    <3> QED BY <3>1, <3>2 DEF EntryRecords, Statuses, Errors, NoCall, Cancelled
  <2>3. /\ entries' = [entries EXCEPT ![Len(entries)] = e] /\ Persist(e, NoCall, Ended)
        /\ calls' = Aborted(Overtake(calls, "stopped"), Current.controller, "cancel", Current.preserve)
        /\ Event
        /\ UNCHANGED <<background, expired, up, file, interrupted, recovery>>
    BY <1>10 DEF Cancel
  <2> HIDE DEF e
  <2>4. entries' \in Seq(EntryRecords) /\ Len(entries') = Len(entries)
    BY <1>0, <2>1, <2>2, <2>3, CurrentIs, SeqPut
  <2>5. writes' \in Seq(SnapshotRecords) /\ Len(writes') <= MaxWrites /\ work' \in Knowledge
    <3>1. NoCall \in Nat
      BY DEF NoCall
    <3> QED BY <2>2, <2>3, <3>1, PersistFacts, KnowledgeIs
  <2>6. calls' \in Seq(CallRecords) /\ Len(calls') = Len(calls)
    <3> DEFINE os == Overtake(calls, "stopped")
    <3>1. os \in Seq(CallRecords) /\ Len(os) = Len(calls)
      BY OvertakeFacts
    <3>2. calls' = Aborted(os, Current.controller, "cancel", Current.preserve)
      BY <2>3
    <3> HIDE DEF os
    <3> QED BY <2>2, <3>1, <3>2, AbortedFacts
  <2> QED BY <1>0, <1>1, <2>3, <2>4, <2>5, <2>6, TypeIs
<1>11. CASE Expire
  BY <1>0, <1>11, TypeIs DEF Expire
<1>12. ASSUME NEW k \in 1..Len(writes), Land(k)
       PROVE  TypeOK'
  <2>1. /\ file' \in SnapshotRecords
        /\ writes' \in Seq(SnapshotRecords) /\ Len(writes') = Len(writes) - 1
        /\ calls' \in Seq(CallRecords) /\ Len(calls') = Len(calls)
        /\ work' \in Knowledge
        /\ UNCHANGED <<background, expired, up, entries, events, interrupted, recovery>>
    BY <1>12, LandFacts
  <2> QED BY <1>0, <2>1, TypeIs
<1>13. CASE Crash
  <2>1. calls' \in Seq(CallRecords) /\ Len(calls') = Len(calls) /\ Len(calls) < MaxCalls
    <3>1. calls' = [i \in 1..Len(calls) |-> Over("lost")] /\ Len(calls) < MaxCalls
      BY <1>0, <1>13 DEF Crash
    <3>2. calls' \in [1..Len(calls) -> CallRecords]
      BY <3>1, FreshIs
    <3> QED BY <1>0, <3>1, <3>2, SeqOf
  <2>2. entries' = <<>> /\ writes' = <<>> /\ up' = FALSE /\ Event
        /\ UNCHANGED <<background, expired, file, interrupted, work, recovery>>
    BY <1>13 DEF Crash
  <2>3. <<>> \in Seq(EntryRecords) /\ <<>> \in Seq(SnapshotRecords) /\ Len(<<>>) = 0
    OBVIOUS
  <2>4. /\ entries' \in Seq(EntryRecords) /\ Len(entries') = 0
        /\ writes' \in Seq(SnapshotRecords) /\ Len(writes') = 0
    BY <2>2, <2>3
  <2>5. up' \in BOOLEAN /\ events' \in 0..MaxEvents
        /\ UNCHANGED <<background, expired, file, interrupted, work, recovery>>
    BY <1>1, <2>2
  <2> QED BY <1>0, <2>1, <2>4, <2>5, TypeIs
<1>14. ASSUME NEW handler \in BOOLEAN, Restart(handler)
       PROVE  TypeOK'
  <2> DEFINE e == Hydrated(handler)
             c == NewCall("restart", FALSE)
  <2>0. c \in CallRecords
    BY FreshIs
  <2>1. file # NoFile => e \in EntryRecords
    BY HydratedIs
  <2>2. /\ ~up /\ up' = TRUE
        /\ entries' = IF file # NoFile THEN <<e>> ELSE <<>>
        /\ file' = IF file # NoFile THEN Snapshot(e, NoCall, FALSE, FALSE) ELSE file
        /\ calls' = calls \/ calls' = Append(calls, c)
        /\ work' = NoWork
        /\ recovery' = [again |-> file # NoFile /\ RestartsAgain(e),
                        ended |-> work.endDurable,
                        owed  |-> background /\ ~expired /\ handler /\ work.landed /\ ~work.ended,
                        stale |-> file.passed]
        /\ UNCHANGED <<background, expired, writes, events, interrupted>>
    BY <1>14 DEF Restart
  <2> HIDE DEF e, c
  <2>3. entries' \in Seq(EntryRecords) /\ Len(entries') <= 1
    <3>1. <<>> \in Seq(EntryRecords) /\ Len(<<>>) = 0
      OBVIOUS
    <3>2. ASSUME file # NoFile PROVE <<e>> \in Seq(EntryRecords) /\ Len(<<e>>) = 1
      BY <2>1, <3>2
    <3> QED BY <2>2, <3>1, <3>2
  <2>4. file' \in SnapshotRecords \cup {NoFile}
    <3>1. NoCall \in Nat /\ FALSE \in BOOLEAN
      BY DEF NoCall
    <3> QED BY <1>0, <2>1, <2>2, <3>1, SnapshotIs
  <2>5. calls' \in Seq(CallRecords) /\ Len(calls') <= MaxCalls
    <3>1. /\ Append(calls, c) \in Seq(CallRecords)
          /\ Len(Append(calls, c)) = Len(calls) + 1
      BY <1>0, <2>0, SeqAppend
    <3>2. Len(calls) < MaxCalls
      BY <1>0, <2>2
    <3> QED BY <1>0, <2>2, <3>1, <3>2
  <2>6. recovery' \in [again : BOOLEAN, ended : BOOLEAN, owed : BOOLEAN, stale : BOOLEAN]
    <3>1. file.passed \in BOOLEAN
      <4>1. NoFile.passed = FALSE
        BY DEF NoFile, Snapshot
      <4>2. file \in SnapshotRecords => file.passed \in BOOLEAN
        BY DEF SnapshotRecords
      <4> QED BY <1>0, <4>1, <4>2
    <3>2. work.endDurable \in BOOLEAN
      BY <1>0 DEF Knowledge
    <3> QED BY <2>2, <3>1, <3>2
  <2>7. NoWork \in Knowledge
    BY DEF NoWork, Knowledge
  <2> QED BY <1>0, <2>2, <2>3, <2>4, <2>5, <2>6, <2>7, TypeIs
<1> QED
  BY <1>2, <1>3, <1>4, <1>5, <1>6, <1>7, <1>8, <1>9, <1>10, <1>11, <1>12, <1>13, <1>14, NextCases

-----------------------------------------------------------------------------
(* Calls                                                                   *)

\* What an action keeps of a call, and what it may change in it and its entry,
\* without disturbing what holds of it.
LEMMA CallKept ==
  ASSUME TypeOK, NEW j \in 1..Len(calls), CallHolds(j),
         \A f \in {"stage", "entry", "token"} : calls'[j][f] = calls[j][f],
         up' = up, Len(entries') = Len(entries),
         Live => Current'.token \in Nat /\ Current.token <= Current'.token,
         calls'[j].abort = "none" => calls[j].abort = "none",
         calls[j].stage = "asked" => calls'[j].overtaken = calls[j].overtaken,
         calls[j].stage = "started" =>
            (calls'[j].overtaken = calls[j].overtaken) \/ (calls'[j].overtaken # "no" /\ Current.token < Current'.token),
         calls[j].stage = "started" /\ calls'[j].abort = "none" /\ calls'[j].overtaken = "no"
            => Current'.controller = Current.controller
  PROVE  CallHolds(j)'
<1>1. Live => Len(entries) \in 1..Len(entries) /\ Current.token \in Nat
  BY CurrentIs DEF EntryRecords
<1>2. calls[j].token \in Nat
  BY CallIs DEF CallRecords
<1>3. Live' <=> Live
  BY DEF Live
<1>4. calls'[j].stage = calls[j].stage /\ calls'[j].entry = calls[j].entry /\ calls'[j].token = calls[j].token
  OBVIOUS
<1>5. calls[j].stage = "started" => Live
  BY DEF CallHolds
<1> QED BY <1>1, <1>2, <1>3, <1>4, <1>5 DEF CallHolds

\* A call that has just been made.
LEMMA CallMade ==
  ASSUME NEW j, calls'[j].stage = "asked", calls'[j].overtaken = "no", up', Live'
  PROVE  CallHolds(j)'
BY DEF CallHolds

\* Every action keeps what holds of the calls.
LEMMA CallStep ==
  ASSUME TypeOK, TypeOK', CallInv, Next
  PROVE  CallInv'
<1>0. /\ entries \in Seq(EntryRecords) /\ Len(entries) \in Nat
      /\ calls \in Seq(CallRecords) /\ Len(calls) \in Nat /\ DOMAIN calls = 1..Len(calls)
      /\ \A j \in 1..Len(calls) : CallHolds(j) /\ calls[j] \in CallRecords
      /\ Live => Current.token \in Nat /\ Current \in EntryRecords
      /\ Live' => Current'.token \in Nat /\ Current' \in EntryRecords
  <2>1. Live => Current \in EntryRecords
    BY CurrentIs
  <2>2. Live' => Current' \in EntryRecords
    BY DEF TypeOK, Live, Current
  <2> QED BY <2>1, <2>2 DEF TypeOK, CallInv, EntryRecords
<1>a. SUFFICES ASSUME NEW j \in 1..Len(calls') PROVE CallHolds(j)'
  BY DEF CallInv
<1>1. CASE Spawn
  <2> DEFINE os == Overtake(calls, "displaced")
             c == NewCall("spawn", TRUE)
  <2>1. c \in CallRecords /\ c.stage = "asked" /\ c.overtaken = "no"
    BY FreshIs
  <2>2. calls' = Append(os, c) /\ entries' = Append(entries, Fresh) /\ up /\ up'
    BY <1>1 DEF Spawn
  <2>3. /\ os \in Seq(CallRecords) /\ Len(os) = Len(calls)
        /\ \A k \in 1..Len(calls) :
             /\ os[k].stage = calls[k].stage /\ os[k].entry = calls[k].entry
             /\ calls[k].stage = "started" => os[k].overtaken # "no"
             /\ calls[k].stage # "started" => os[k] = calls[k]
    BY OvertakeFacts
  <2> HIDE DEF os, c
  <2>4. /\ Len(calls') = Len(calls) + 1 /\ calls'[Len(calls) + 1] = c
        /\ \A k \in 1..Len(calls) : calls'[k] = os[k]
    BY <2>1, <2>2, <2>3, SeqAppend
  <2>5. Len(entries') = Len(entries) + 1 /\ Live'
    BY <1>0, <2>2, FreshIs, SeqAppend DEF Live
  <2>6. CASE j = Len(calls) + 1
    BY <2>1, <2>2, <2>4, <2>5, <2>6, CallMade
  <2>7. CASE j \in 1..Len(calls)
    <3>1. calls'[j].stage = "started" => calls'[j].entry \in 1..Len(entries) /\ calls'[j].overtaken # "no"
      BY <1>0, <2>3, <2>4, <2>7 DEF CallHolds
    <3>2. calls'[j].stage = "asked" => calls'[j].overtaken = "no"
      BY <1>0, <2>3, <2>4, <2>7 DEF CallHolds
    <3>3. calls'[j].stage = "started" =>
            calls'[j].entry \in 1..Len(entries') /\ calls'[j].entry # Len(entries')
      BY <1>0, <2>5, <3>1
    <3> QED BY <2>2, <2>5, <3>1, <3>2, <3>3 DEF CallHolds
  <2> QED BY <1>0, <2>4, <2>6, <2>7
<1>2. CASE Resume \/ \E i \in 1..Len(calls) : SummaryPass(i)
  <2>1. PICK cs \in Seq(CallRecords), c \in CallRecords :
          /\ Len(cs) = Len(calls)
          /\ \A k \in 1..Len(calls), f \in {"stage", "entry", "token", "abort", "overtaken"} : cs[k][f] = calls[k][f]
          /\ c.stage = "asked" /\ c.overtaken = "no"
          /\ calls' = Append(cs, c)
          /\ up /\ up' /\ entries' = entries /\ Live
    <3>1. CASE Resume
      <4> DEFINE c == NewCall("ask", FALSE)
      <4>1. c \in CallRecords /\ c.stage = "asked" /\ c.overtaken = "no"
        BY FreshIs
      <4>2. calls' = Append(calls, c) /\ up /\ up' /\ entries' = entries /\ Live
        BY <3>1 DEF Resume
      <4> HIDE DEF c
      <4> QED BY <1>0, <4>1, <4>2
    <3>2. ASSUME NEW i \in 1..Len(calls), SummaryPass(i)
          PROVE  \E cs \in Seq(CallRecords), c \in CallRecords :
          /\ Len(cs) = Len(calls)
          /\ \A k \in 1..Len(calls), f \in {"stage", "entry", "token", "abort", "overtaken"} : cs[k][f] = calls[k][f]
          /\ c.stage = "asked" /\ c.overtaken = "no"
          /\ calls' = Append(cs, c)
          /\ up /\ up' /\ entries' = entries /\ Live
      <4> DEFINE c == NewCall("summary", FALSE)
                 r == [calls[i] EXCEPT !.summed = TRUE]
                 cs == [calls EXCEPT ![i] = r]
      <4>1. c \in CallRecords /\ c.stage = "asked" /\ c.overtaken = "no"
        BY FreshIs
      <4>2. r \in CallRecords /\ \A f \in {"stage", "entry", "token", "abort", "overtaken"} : r[f] = calls[i][f]
        BY CallIs DEF CallRecords
      <4>3. calls' = Append(cs, c) /\ up /\ up' /\ entries' = entries /\ calls[i].stage # "lost"
        BY <3>2 DEF SummaryPass
      <4>4. Live
        BY <4>3, CallFacts
      <4> HIDE DEF c, r
      <4>5. cs \in Seq(CallRecords) /\ Len(cs) = Len(calls) /\ \A k \in 1..Len(calls) : cs[k] = IF k = i THEN r ELSE calls[k]
        BY <1>0, <4>2, SeqPut
      <4> HIDE DEF cs
      <4>6. \A k \in 1..Len(calls), f \in {"stage", "entry", "token", "abort", "overtaken"} : cs[k][f] = calls[k][f]
        BY <4>2, <4>5
      <4> QED BY <4>1, <4>3, <4>4, <4>5, <4>6
    <3> QED BY <1>2, <3>1, <3>2
  <2>2. /\ Len(calls') = Len(calls) + 1 /\ calls'[Len(calls) + 1] = c
        /\ \A k \in 1..Len(calls) : calls'[k] = cs[k]
    BY <2>1, SeqAppend
  <2>3. Live' /\ Current' = Current
    BY <2>1 DEF Live, Current
  <2>4. CASE j = Len(calls) + 1
    BY <2>1, <2>2, <2>3, <2>4, CallMade
  <2>5. CASE j \in 1..Len(calls)
    <3>1. calls'[j].stage = calls[j].stage /\ calls'[j].entry = calls[j].entry /\ calls'[j].token = calls[j].token
          /\ calls'[j].abort = calls[j].abort /\ calls'[j].overtaken = calls[j].overtaken
      BY <2>1, <2>2, <2>5
    <3> QED BY <1>0, <2>1, <2>3, <2>5, <3>1, CallKept
  <2> QED BY <1>0, <2>2, <2>4, <2>5
<1>3. ASSUME NEW i \in 1..Len(calls), Start(i)
      PROVE  CallHolds(j)'
  <2>0. /\ up /\ up' = up /\ Live /\ StartedEntry(i).token = Current.token + 1 /\ StartedEntry(i).controller = i
        /\ Len(entries') = Len(entries) /\ entries'[Len(entries)] = StartedEntry(i)
        /\ Len(calls') = Len(calls)
        /\ calls[i].stage = "asked"
        /\ calls'[i].stage = "started" /\ calls'[i].entry = Len(entries)
        /\ calls'[i].token = Current.token + 1 /\ calls'[i].overtaken = calls[i].overtaken
    BY <1>3, StartFacts
  <2>0a. \A k \in 1..Len(calls) : k # i => calls'[k] = Overtake(calls, "displaced")[k]
    BY <1>3, StartFacts
  <2>1. Live' /\ Current' = StartedEntry(i) /\ Current'.token = Current.token + 1 /\ Current'.controller = i
        /\ Len(entries) \in 1..Len(entries)
    BY <2>0, CurrentIs DEF Live, Current
  <2>2. calls[i].overtaken = "no"
    BY <1>0, <2>0 DEF CallHolds
  <2>3. CASE j = i
    BY <1>0, <2>0, <2>1, <2>2, <2>3 DEF CallHolds
  <2>4. CASE j # i
    <3> DEFINE os == Overtake(calls, "displaced")
    <3>1. /\ \A f \in {"stage", "entry", "token", "abort"} : os[j][f] = calls[j][f]
          /\ calls[j].stage = "started" => os[j].overtaken # "no"
          /\ calls[j].stage # "started" => os[j] = calls[j]
          /\ calls'[j] = os[j]
      BY <2>0, <2>0a, <2>4, OvertakeFacts
    <3> HIDE DEF os
    <3>2. /\ \A f \in {"stage", "entry", "token"} : calls'[j][f] = calls[j][f]
          /\ calls'[j].abort = calls[j].abort
          /\ calls[j].stage = "started" => calls'[j].overtaken # "no"
          /\ calls[j].stage = "asked" => calls'[j].overtaken = calls[j].overtaken
      BY <3>1
    <3>3. Current'.token \in Nat /\ Current.token <= Current'.token /\ Current.token < Current'.token
      BY <1>0, <2>0, <2>1
    <3> QED BY <1>0, <2>0, <3>2, <3>3, CallKept
  <2> QED BY <2>3, <2>4
<1>4. ASSUME NEW i \in 1..Len(calls), NEW k \in 1..Len(entries), NEW r \in EntryRecords,
             up, up' = up, entries' = [entries EXCEPT ![k] = r],
             r.token = entries[k].token,
             r.controller \in {entries[k].controller, IF entries[k].controller = i THEN NoCall ELSE entries[k].controller},
             calls' = [calls EXCEPT ![i] = EndedCall(calls[i])]
      PROVE  CallHolds(j)'
  <2>1. /\ Len(entries') = Len(entries)
        /\ \A m \in 1..Len(entries) : entries'[m] = IF m = k THEN r ELSE entries[m]
    BY <1>0, <1>4, SeqPut
  <2>2. Len(calls') = Len(calls) /\ calls'[i].stage = "ended"
        /\ \A m \in 1..Len(calls) : m # i => calls'[m] = calls[m]
    BY <1>0, <1>4, EndedIs, SeqPut
  <2>3. /\ Live /\ Live' /\ Current'.token = Current.token
        /\ Current.controller # i => Current'.controller = Current.controller
    <3>1. Live /\ Live' /\ Len(entries) \in 1..Len(entries)
      BY <1>0, <2>1 DEF Live
    <3>2. Current = entries[Len(entries)] /\ Current' = IF Len(entries) = k THEN r ELSE entries[Len(entries)]
      BY <2>1, <3>1 DEF Current
    <3> QED BY <1>4, <3>1, <3>2
  <2>4. CASE j = i
    BY <1>4, <2>2, <2>3, <2>4 DEF CallHolds
  <2>5. CASE j # i
    <3>1. calls'[j] = calls[j] /\ j \in 1..Len(calls)
      BY <2>2, <2>5
    <3>2. calls[j].stage = "started" /\ calls[j].abort = "none" /\ calls[j].overtaken = "no" => Current.controller = j
      BY <1>0, <3>1 DEF CallHolds
    <3>3. \A f \in {"stage", "entry", "token"} : calls'[j][f] = calls[j][f]
      BY <3>1
    <3>4. Current'.token \in Nat /\ Current.token <= Current'.token
      BY <1>0, <2>3
    <3>5. calls[j].stage = "started" /\ calls'[j].abort = "none" /\ calls'[j].overtaken = "no"
            => Current'.controller = Current.controller
      BY <2>3, <2>5, <3>1, <3>2
    <3> QED BY <1>0, <1>4, <2>1, <3>1, <3>3, <3>4, <3>5, CallKept
  <2> QED BY <2>4, <2>5
<1>5. ASSUME NEW i \in 1..Len(calls), StartUnavailable(i)
      PROVE  CallHolds(j)'
  <2> DEFINE e == [Current EXCEPT !.status = "failed", !.error = "fatal"]
  <2>1. up /\ Live
    BY <1>5, CallFacts DEF StartUnavailable, ReadyToStart
  <2>2. e \in EntryRecords /\ e.token = Current.token /\ e.controller = Current.controller
    BY <2>1, CurrentIs DEF EntryRecords, Statuses, Errors
  <2>3. entries' = [entries EXCEPT ![Len(entries)] = e] /\ up' = up /\ calls' = [calls EXCEPT ![i] = EndedCall(calls[i])]
    BY <1>5 DEF StartUnavailable, EndCall
  <2> HIDE DEF e
  <2> QED BY <1>4, <2>1, <2>2, <2>3, CurrentIs
<1>6. ASSUME NEW i \in 1..Len(calls), CallEnds(i)
      PROVE  CallHolds(j)'
  <2>1. Running(i) /\ up /\ calls[i].entry \in 1..Len(entries)
    BY <1>6, CallFacts DEF CallEnds, Running
  <2>2. PICK r \in EntryRecords :
          /\ entries' = [entries EXCEPT ![calls[i].entry] = r]
          /\ r.token = Mine(i).token
          /\ r.controller = IF Mine(i).controller = i THEN NoCall ELSE Mine(i).controller
          /\ calls' = [calls EXCEPT ![i] = EndedCall(calls[i])]
          /\ up' = up
    BY <1>6, <2>1, EndEffects DEF CallEnds
  <2> QED BY <1>4, <2>1, <2>2 DEF Mine
<1>7. ASSUME NEW i \in 1..Len(calls), Deadline(i) \/ ParentAbort(i)
      PROVE  CallHolds(j)'
  <2>1. i \in Nat
    BY <1>0
  <2>2. PICK why \in {"deadline", "parent"} : calls' = Aborted(calls, i, why, Mine(i).preserve)
    BY <1>7 DEF Deadline, ParentAbort
  <2>3. Len(calls') = Len(calls)
        /\ \A m \in 1..Len(calls) :
             /\ \A f \in {"stage", "entry", "token", "overtaken"} : calls'[m][f] = calls[m][f]
             /\ m # i => calls'[m] = calls[m]
             /\ m = i => calls'[m].abort # "none"
    <3>1. why \in {"interrupt", "cancel", "deadline", "parent"}
      OBVIOUS
    <3> QED BY <1>0, <2>1, <2>2, <3>1, AbortedFacts
  <2>4. UNCHANGED <<up, entries>>
    BY <1>7 DEF Deadline, ParentAbort
  <2>5. Live' = Live /\ Current' = Current
    BY <2>4 DEF Live, Current
  <2>6. calls'[j].overtaken = calls[j].overtaken /\ (calls'[j].abort = "none" => calls[j].abort = "none")
    BY <2>3
  <2> QED BY <1>0, <2>3, <2>4, <2>5, <2>6, CallKept
<1>8. CASE Interrupt
  <2> DEFINE e == [Current EXCEPT !.status = "resumable", !.error = "timeout",
                                  !.preserve = TRUE, !.controller = NoCall]
  <2>1. up /\ Live
    BY <1>0, <1>8, CallFacts DEF Interrupt, Started
  <2>2. e \in EntryRecords /\ Current.controller \in Nat /\ e.token = Current.token
    BY <2>1, CurrentIs DEF EntryRecords, Statuses, Errors, NoCall
  <2>3. /\ entries' = [entries EXCEPT ![Len(entries)] = e]
        /\ calls' = Aborted(calls, Current.controller, "interrupt", TRUE)
        /\ up' = up
    BY <1>8 DEF Interrupt
  <2> HIDE DEF e
  <2>4. Len(entries') = Len(entries) /\ Current'.token = Current.token
    BY <1>0, <2>1, <2>2, <2>3, CurrentIs, SeqPut DEF Current
  <2>5. Len(calls') = Len(calls)
        /\ \A m \in 1..Len(calls) :
             /\ \A f \in {"stage", "entry", "token", "overtaken"} : calls'[m][f] = calls[m][f]
             /\ m # Current.controller => calls'[m] = calls[m]
             /\ m = Current.controller => calls'[m].abort # "none"
    <3> DEFINE yes == TRUE
    <3>1. calls' = Aborted(calls, Current.controller, "interrupt", yes)
      BY <2>3
    <3> HIDE DEF yes
    <3> QED BY <1>0, <2>2, <3>1, AbortedFacts
  <2>6. calls'[j].overtaken = calls[j].overtaken /\ (calls'[j].abort = "none" => calls[j].abort = "none")
    BY <2>5
  <2>7. calls[j].stage = "started" /\ calls'[j].overtaken = "no" => calls'[j].abort # "none"
    BY <1>0, <2>5, <2>6 DEF CallHolds
  <2>8. \A f \in {"stage", "entry", "token"} : calls'[j][f] = calls[j][f]
    BY <2>5
  <2>9. Current'.token \in Nat /\ Current.token <= Current'.token
    BY <1>0, <2>1, <2>4
  <2> QED BY <1>0, <2>3, <2>4, <2>5, <2>6, <2>7, <2>8, <2>9, CallKept
<1>9. CASE Cancel
  <2> DEFINE e == Cancelled(Current)
             os == Overtake(calls, "stopped")
  <2>1. up /\ Live
    BY <1>9 DEF Cancel
  <2>2. e \in EntryRecords /\ Current.controller \in Nat /\ e.token = Current.token + 1
    <3>1. Current \in EntryRecords
      BY <2>1, CurrentIs
    <3>2. Current.token + 1 \in Nat
      BY <3>1 DEF EntryRecords
    <3> QED BY <3>1, <3>2 DEF EntryRecords, Statuses, Errors, NoCall, Cancelled
  <2>3. /\ entries' = [entries EXCEPT ![Len(entries)] = e]
        /\ calls' = Aborted(os, Current.controller, "cancel", Current.preserve)
        /\ up' = up
    BY <1>9 DEF Cancel
  <2>4. /\ os \in Seq(CallRecords) /\ Len(os) = Len(calls)
        /\ \A m \in 1..Len(calls) :
             /\ \A f \in {"stage", "entry", "token", "abort"} : os[m][f] = calls[m][f]
             /\ calls[m].stage = "started" => os[m].overtaken # "no"
             /\ calls[m].stage # "started" => os[m] = calls[m]
    BY OvertakeFacts
  <2> HIDE DEF e, os
  <2>5. Len(entries') = Len(entries) /\ Current'.token = Current.token + 1
    BY <1>0, <2>1, <2>2, <2>3, CurrentIs, SeqPut DEF Current
  <2>6. Len(calls') = Len(calls)
        /\ \A m \in 1..Len(calls) :
             /\ \A f \in {"stage", "entry", "token", "overtaken"} : calls'[m][f] = os[m][f]
             /\ m # Current.controller => calls'[m] = os[m]
             /\ m = Current.controller => calls'[m].abort # "none"
    <3>1. os \in Seq(CallRecords) /\ Len(os) = Len(calls)
      BY <2>4
    <3>2. calls' = Aborted(os, Current.controller, "cancel", Current.preserve) /\ Current.controller \in Nat
      BY <2>2, <2>3
    <3> QED BY <3>1, <3>2, AbortedFacts
  <2>7. \A f \in {"stage", "entry", "token"} : calls'[j][f] = calls[j][f]
    BY <2>4, <2>6
  <2>8. /\ calls[j].stage = "started" => calls'[j].overtaken # "no"
        /\ calls[j].stage = "asked" => calls'[j].overtaken = calls[j].overtaken
        /\ calls'[j].abort = "none" => calls[j].abort = "none"
    BY <2>4, <2>6
  <2> QED BY <1>0, <2>1, <2>3, <2>5, <2>6, <2>7, <2>8, CallKept
<1>10. CASE Expire
  <2>1. UNCHANGED <<up, entries, calls>>
    BY <1>10 DEF Expire
  <2> QED BY <1>0, <2>1 DEF CallHolds, Live, Current
<1>11. ASSUME NEW k \in 1..Len(writes), Land(k)
       PROVE  CallHolds(j)'
  <2>1. /\ Len(calls') = Len(calls)
        /\ \A i \in 1..Len(calls), f \in {"kind", "stage", "entry", "token", "abort", "rejected", "overtaken", "summed"} :
              calls'[i][f] = calls[i][f]
        /\ UNCHANGED <<up, entries>>
    BY <1>11, LandFacts
  <2>2. Live' = Live /\ Current' = Current
    BY <2>1 DEF Live, Current
  <2>3. calls'[j].overtaken = calls[j].overtaken /\ calls'[j].abort = calls[j].abort
    BY <2>1
  <2> QED BY <1>0, <2>1, <2>2, <2>3, CallKept
<1>12. CASE Crash
  <2>1. calls'[j].stage = "lost"
    BY <1>0, <1>12, FreshIs DEF Crash
  <2> QED BY <2>1 DEF CallHolds
<1>13. ASSUME NEW handler \in BOOLEAN, Restart(handler)
       PROVE  CallHolds(j)'
  <2> DEFINE c == NewCall("restart", FALSE)
  <2>1. c \in CallRecords /\ c.stage = "asked" /\ c.overtaken = "no"
    BY FreshIs
  <2>2. /\ ~up /\ up'
        /\ \/ calls' = calls
           \/ calls' = Append(calls, c) /\ entries' = <<Hydrated(handler)>>
    BY <1>13 DEF Restart
  <2> HIDE DEF c
  <2>3. \A k \in 1..Len(calls) : calls'[k] = calls[k] /\ calls[k].stage = "lost"
    <3>1. \A k \in 1..Len(calls) : calls[k].stage = "lost"
      BY <1>0, <2>2 DEF CallHolds
    <3>2. \A k \in 1..Len(calls) : Append(calls, c)[k] = calls[k]
      BY <1>0, <2>1, SeqAppend
    <3> QED BY <2>2, <3>1, <3>2
  <2>4. CASE j \in 1..Len(calls)
    BY <2>3, <2>4 DEF CallHolds
  <2>5. CASE j \notin 1..Len(calls)
    <3>1. calls' = Append(calls, c) /\ entries' = <<Hydrated(handler)>>
      BY <2>2, <2>5
    <3>2. calls'[j] = c
      <4>1. Len(calls') = Len(calls) + 1 /\ calls'[Len(calls) + 1] = c
        BY <1>0, <2>1, <3>1, SeqAppend
      <4>2. j = Len(calls) + 1
        BY <1>0, <2>5, <4>1
      <4> QED BY <4>1, <4>2
    <3>3. Live'
      BY <3>1 DEF Live
    <3> QED BY <2>1, <2>2, <3>2, <3>3, CallMade
  <2> QED BY <2>4, <2>5
<1> QED
  BY <1>1, <1>2, <1>3, <1>5, <1>6, <1>7, <1>8, <1>9, <1>10, <1>11, <1>12, <1>13, NextCases

-----------------------------------------------------------------------------
(* The newest invocation and the file                                      *)

\* Where the knowledge of the newest invocation and the entry's share in it are
\* as they were, the invocation is over as before.
LEMMA WorkKept ==
  ASSUME WorkInv, UNCHANGED <<background, up>>, work' = work, Live' <=> Live,
         Live => (Owing(Current)' <=> Owing(Current))
  PROVE  WorkInv'
<1>1. up /\ work.begun => Live
  BY DEF WorkInv, NoWork
<1> QED BY <1>1 DEF WorkInv

\* Where the entry ceases to owe anything, the invocation is over.
LEMMA WorkEnds ==
  ASSUME TypeOK, WorkInv, UNCHANGED <<background, up>>, work' = Ended, Live, Live', ~Owing(Current)'
  PROVE  WorkInv'
BY KnowledgeIs DEF WorkInv

\* Writes, file and knowledge as they were.
LEMMA FileKept ==
  ASSUME FileInv, UNCHANGED <<up, writes, file, work>>
  PROVE  FileInv'
BY DEF FileInv, WriteHolds, Later

\* A snapshot that is written knows what is known now.
LEMMA FilePersist ==
  ASSUME TypeOK, WorkInv, FileInv, up, UNCHANGED <<up, file>>,
         NEW e \in EntryRecords, NEW by \in Nat, NEW known \in {work, Ended},
         Persist(e, by, known),
         known.begun => (Owing(e) <=> ~known.ended)
  PROVE  FileInv'
<1> DEFINE n == Len(writes)
           s == Snapshot(e, by, known.begun, known.ended)
<1>1. /\ known \in Knowledge /\ known.begun \in BOOLEAN /\ known.ended \in BOOLEAN
      /\ known.begun = work.begun /\ (work.ended => known.ended) /\ (known.ended => known.begun)
      /\ known.landed = work.landed /\ known.endDurable = work.endDurable
      /\ work.landed => work.begun
      /\ work.endDurable => work.ended
  BY KnowledgeIs DEF Knowledge, WorkInv
<1>2. /\ Len(writes') = n + 1 /\ n \in Nat
      /\ writes'[n + 1] = s
      /\ \A k \in 1..n : writes'[k] = writes[k]
      /\ work' = known
  BY <1>1, PersistFacts DEF TypeOK
<1>3. /\ s.begun = known.begun /\ s.ended = known.ended /\ s.passed = FALSE
      /\ Owing(s) <=> Owing(e)
  BY DEF Snapshot, Owing
<1> HIDE DEF s
<1>4. ASSUME NEW k \in 1..n PROVE WriteHolds(k)'
  <2>1. Owing(writes[k])' <=> Owing(writes[k])
    BY <1>2 DEF Owing
  <2> QED BY <1>1, <1>2, <2>1 DEF FileInv, WriteHolds
<1>5. ASSUME NEW k, k = n + 1 PROVE WriteHolds(k)'
  <2>1. writes'[k] = s
    BY <1>2, <1>5
  <2>2. Owing(writes[k])' <=> Owing(s)
    BY <2>1 DEF Owing
  <2> QED BY <1>1, <1>2, <1>3, <2>1, <2>2 DEF WriteHolds
<1>6. ASSUME NEW j \in 1..(n + 1), NEW k \in 1..(n + 1), j < k PROVE Later(j, k)'
  <2>1. j \in 1..n /\ writes'[j] = writes[j]
    BY <1>2, <1>6
  <2>2. CASE k = n + 1
    <3>1. /\ writes[j].begun => work.begun
          /\ writes[j].ended => work.ended
      BY <2>1 DEF FileInv, WriteHolds
    <3> QED BY <1>1, <1>2, <1>3, <2>1, <2>2, <3>1 DEF Later
  <2>3. CASE k \in 1..n
    BY <1>2, <1>6, <2>1, <2>3 DEF FileInv, Later
  <2> QED BY <1>2, <2>2, <2>3
<1>7. ~file'.passed => /\ work'.endDurable => ~Owing(file)
                       /\ work'.landed /\ ~work'.endDurable => Owing(file)
  BY <1>1, <1>2 DEF FileInv
<1>8. \A k \in 1..(n + 1) : k \in 1..n \/ k = n + 1
  BY <1>2
<1>9. (Owing(file))' <=> Owing(file)
  BY DEF Owing
<1>10. \A k \in 1..Len(writes') : WriteHolds(k)'
  BY <1>2, <1>4, <1>5, <1>8
<1>11. \A j, k \in 1..Len(writes') : j < k => Later(j, k)'
  BY <1>2, <1>6
<1>12. up'
  OBVIOUS
<1> QED BY <1>7, <1>9, <1>10, <1>11, <1>12 DEF FileInv

\* A new invocation is in no snapshot but its own.
LEMMA FileStart ==
  ASSUME TypeOK, CallInv, FileInv, NEW i \in 1..Len(calls), Start(i)
  PROVE  FileInv' /\ WorkInv'
<1> DEFINE n == Len(writes)
           s == Snapshot(StartedEntry(i), i, background, FALSE)
<1>1. /\ up /\ up' = up /\ Live /\ background \in BOOLEAN
      /\ StartedEntry(i) \in EntryRecords
      /\ StartedEntry(i).status = "running" /\ StartedEntry(i).pending = background
      /\ Len(writes') = n + 1 /\ n \in Nat /\ i \in Nat
      /\ writes'[n + 1] = s
      /\ background' = background
      /\ Len(entries') = Len(entries) /\ entries'[Len(entries)] = StartedEntry(i)
  <2>1. background \in BOOLEAN /\ n \in Nat /\ i \in Nat
    BY DEF TypeOK
  <2>2. /\ up /\ up' = up /\ Live /\ background' = background
        /\ StartedEntry(i) \in EntryRecords
        /\ StartedEntry(i).status = "running" /\ StartedEntry(i).pending = background
    BY StartFacts
  <2>3. /\ Len(writes') = n + 1
        /\ writes'[n + 1] = s
        /\ Len(entries') = Len(entries) /\ entries'[Len(entries)] = StartedEntry(i)
    BY StartFacts
  <2> QED BY <2>1, <2>2, <2>3
<1>2. \A k \in 1..n : writes'[k] = [writes[k] EXCEPT !.begun = FALSE, !.ended = FALSE]
  BY StartFacts
<1>3. /\ work'.begun = background /\ work'.landed = FALSE
      /\ work'.ended = FALSE /\ work'.endDurable = FALSE
  <2>1. work' = [NoWork EXCEPT !.begun = background]
    BY StartFacts
  <2> QED BY <2>1 DEF NoWork
<1>4. /\ s.begun = background /\ s.ended = FALSE /\ s.passed = FALSE
      /\ Owing(s) <=> background
  <2>1. Owing(StartedEntry(i)) <=> background
    BY <1>1 DEF Owing, Recoverable
  <2>2. s.begun = background /\ s.ended = FALSE /\ s.passed = FALSE
    BY DEF Snapshot
  <2>3. Owing(s) <=> Owing(StartedEntry(i))
    BY DEF Snapshot, Owing
  <2> QED BY <2>1, <2>2, <2>3
<1> HIDE DEF s
<1>5. \A k \in 1..n : writes'[k].begun = FALSE /\ writes'[k].ended = FALSE
  <2>1. \A k \in 1..n : writes[k] \in SnapshotRecords
    BY DEF TypeOK
  <2> QED BY <1>2, <2>1 DEF SnapshotRecords
<1>6. \A k \in 1..(n + 1) : k \in 1..n \/ k = n + 1
  BY <1>1
<1>7. \A k \in 1..(n + 1) : WriteHolds(k)'
  BY <1>1, <1>3, <1>4, <1>5, <1>6 DEF WriteHolds
<1>8. \A j, k \in 1..(n + 1) : j < k => Later(j, k)'
  <2> TAKE j, k \in 1..(n + 1)
  <2> HAVE j < k
  <2>1. j \in 1..n
    BY <1>1
  <2> QED BY <1>5, <2>1 DEF Later
<1>9. FileInv'
  BY <1>1, <1>3, <1>7, <1>8 DEF FileInv
<1>10. Live' /\ Current' = StartedEntry(i)
  BY <1>1 DEF Live, Current
<1>11. WorkInv'
  BY <1>1, <1>3, <1>10 DEF WorkInv, Owing, Recoverable
<1> QED BY <1>9, <1>11

\* A snapshot that lands is the file; it is the newest one that has landed, or
\* marked as passed.
LEMMA FileLand ==
  ASSUME TypeOK, WorkInv, FileInv, NEW k \in 1..Len(writes), Land(k)
  PROVE  FileInv' /\ WorkInv'
<1> DEFINE n == Len(writes)
<1>1. /\ Owing(file') <=> Owing(writes[k])
      /\ file'.passed = writes[k].passed
      /\ Len(writes') = n - 1 /\ n \in Nat
      /\ work'.begun = work.begun /\ work'.ended = work.ended
      /\ work'.landed <=> work.landed \/ writes[k].begun
      /\ work'.endDurable <=> work.endDurable \/ writes[k].ended
      /\ UNCHANGED <<background, up, entries>>
  BY LandFacts DEF TypeOK
<1>2. \A j \in 1..(n - 1) :
        writes'[j] = IF j < k THEN [writes[j] EXCEPT !.passed = TRUE] ELSE writes[j + 1]
  BY <1>1, LandFacts
<1>3. \A j \in 1..n : WriteHolds(j) /\ writes[j] \in SnapshotRecords
  BY DEF FileInv, TypeOK
<1>4. \A j, m \in 1..n : j < m => Later(j, m)
  BY DEF FileInv
<1>5. up
  BY <1>1 DEF FileInv
<1>6. /\ writes[k].begun => work.begun
      /\ writes[k].ended => writes[k].begun /\ work.ended
  BY <1>3 DEF WriteHolds
<1>7. ASSUME NEW j \in 1..(n - 1)
      PROVE  \E m \in 1..n :
        /\ writes'[j].begun = writes[m].begun /\ writes'[j].ended = writes[m].ended
        /\ Owing(writes'[j]) <=> Owing(writes[m])
        /\ m = IF j < k THEN j ELSE j + 1
        /\ j < k => writes'[j].passed = TRUE
        /\ ~(j < k) => k < m /\ writes'[j].passed = writes[m].passed
  <2>1. j \in 1..n /\ j + 1 \in 1..n /\ (~(j < k) => k < j + 1)
    BY <1>1
  <2>2. CASE j < k
    <3>1. writes'[j] = [writes[j] EXCEPT !.passed = TRUE] /\ writes[j] \in SnapshotRecords
      BY <1>2, <1>3, <2>1, <2>2
    <3>2. /\ writes'[j].begun = writes[j].begun /\ writes'[j].ended = writes[j].ended
          /\ Owing(writes'[j]) <=> Owing(writes[j])
          /\ writes'[j].passed = TRUE
      BY <3>1 DEF SnapshotRecords, Owing
    <3> QED BY <2>1, <2>2, <3>2
  <2>3. CASE ~(j < k)
    <3>1. writes'[j] = writes[j + 1] /\ k < j + 1
      BY <1>2, <2>1, <2>3
    <3> QED BY <2>1, <2>3, <3>1
  <2> QED BY <2>2, <2>3
<1>8. ASSUME NEW j \in 1..(n - 1) PROVE WriteHolds(j)'
  <2>1. PICK m \in 1..n :
        /\ writes'[j].begun = writes[m].begun /\ writes'[j].ended = writes[m].ended
        /\ Owing(writes'[j]) <=> Owing(writes[m])
        /\ j < k => writes'[j].passed = TRUE
        /\ ~(j < k) => k < m /\ writes'[j].passed = writes[m].passed
    BY <1>7
  <2>2. WriteHolds(m)
    BY <1>3
  <2>3. ~writes'[j].passed => Later(k, m) /\ ~writes[m].passed
    BY <1>4, <2>1
  <2>4. ~writes'[j].passed => /\ work'.landed => writes'[j].begun
                              /\ work'.endDurable => writes'[j].ended
    BY <1>1, <2>1, <2>2, <2>3 DEF WriteHolds, Later
  <2>5. /\ writes'[j].begun => work'.begun
        /\ writes'[j].ended => writes'[j].begun /\ work'.ended
        /\ writes'[j].begun => (Owing(writes'[j]) <=> ~writes'[j].ended)
    BY <1>1, <2>1, <2>2 DEF WriteHolds
  <2>6. Owing(writes[j])' <=> Owing(writes'[j])
    BY DEF Owing
  <2> QED BY <2>4, <2>5, <2>6 DEF WriteHolds
<1>9. ASSUME NEW i \in 1..(n - 1), NEW j \in 1..(n - 1), i < j PROVE Later(i, j)'
  <2>1. PICK m \in 1..n :
        /\ writes'[i].begun = writes[m].begun /\ writes'[i].ended = writes[m].ended
        /\ m = IF i < k THEN i ELSE i + 1
    BY <1>7
  <2>2. PICK q \in 1..n :
        /\ writes'[j].begun = writes[q].begun /\ writes'[j].ended = writes[q].ended
        /\ q = IF j < k THEN j ELSE j + 1
    BY <1>7
  <2>3. m < q
    BY <1>1, <1>9, <2>1, <2>2
  <2>4. Later(m, q)
    BY <1>4, <2>3
  <2> QED BY <2>1, <2>2, <2>4 DEF Later
<1>10. ~file'.passed => /\ work'.endDurable => ~Owing(file')
                        /\ work'.landed /\ ~work'.endDurable => Owing(file')
  <2>1. WriteHolds(k)
    BY <1>3
  <2> QED BY <1>1, <2>1 DEF WriteHolds
<1>11. Owing(file)' <=> Owing(file')
  BY DEF Owing
<1>12. FileInv'
  BY <1>1, <1>5, <1>8, <1>9, <1>10, <1>11 DEF FileInv
<1>13. Live' = Live /\ Current' = Current /\ (Owing(Current)' <=> Owing(Current))
  BY <1>1 DEF Live, Current, Owing
<1>14. ~Live => work' = NoWork
  <2>1. work' \in Knowledge
    BY LandFacts
  <2> QED BY <1>1, <1>5, <1>6, <2>1 DEF WorkInv, NoWork, Knowledge
<1>15. WorkInv'
  BY <1>1, <1>6, <1>13, <1>14 DEF WorkInv
<1> QED BY <1>12, <1>15

\* The write that is started when an invocation is over.
LEMMA PersistEnds ==
  ASSUME TypeOK, WorkInv, FileInv, up, UNCHANGED <<background, up, file>>,
         NEW e \in EntryRecords, NEW by \in Nat, Persist(e, by, Ended),
         Live, Live', Current' = e, ~Owing(e)
  PROVE  FileInv' /\ WorkInv'
<1>1. ~Owing(Current)' /\ work' = Ended
  BY DEF Owing, Persist
<1>2. Ended.begun => (Owing(e) <=> ~Ended.ended)
  BY KnowledgeIs
<1>3. FileInv'
  BY <1>2, FilePersist
<1>4. WorkInv'
  BY <1>1, WorkEnds
<1> QED BY <1>3, <1>4

\* Every action but a restart keeps what the session, its file and its writes
\* know of the newest invocation.
LEMMA KnowledgeStep ==
  ASSUME TypeOK, TypeOK', CallInv, WorkInv, FileInv, Next,
         ~ \E handler \in BOOLEAN : Restart(handler)
  PROVE  FileInv' /\ WorkInv' /\ UNCHANGED recovery
<1>0. /\ entries \in Seq(EntryRecords) /\ Len(entries) \in Nat
      /\ background => Len(entries) <= 1
      /\ Live => Current \in EntryRecords /\ Len(entries) \in 1..Len(entries) /\ Current = entries[Len(entries)]
      /\ NoCall \in Nat
  BY CurrentIs DEF TypeOK, NoCall
<1>1. CASE Spawn
  <2> DEFINE by == Len(calls) + 1
  <2>1. /\ up /\ entries' = Append(entries, Fresh) /\ Persist(Fresh, by, work)
        /\ Live => ~background
        /\ UNCHANGED <<background, up, file, recovery>>
    BY <1>1 DEF Spawn
  <2>2. Len(entries') = Len(entries) + 1 /\ entries'[Len(entries) + 1] = Fresh
    BY <1>0, <2>1, FreshIs, SeqAppend
  <2>3. Live' /\ Current' = Fresh
    BY <1>0, <2>2 DEF Live, Current
  <2>4. by \in Nat
    BY DEF TypeOK
  <2> HIDE DEF by
  <2>5. ~work.begun
    BY <2>1 DEF WorkInv, NoWork
  <2>6. FileInv'
    BY <2>1, <2>4, <2>5, FreshIs, FilePersist
  <2>7. WorkInv'
    BY <2>1, <2>3, <2>5 DEF WorkInv, Persist
  <2> QED BY <2>1, <2>6, <2>7
<1>2. CASE Resume \/ Expire \/ \E i \in 1..Len(calls) : SummaryPass(i) \/ Deadline(i) \/ ParentAbort(i)
  <2>1. UNCHANGED <<background, up, entries, writes, file, work, recovery>>
    BY <1>2 DEF Resume, Expire, SummaryPass, Deadline, ParentAbort
  <2>2. (Live' <=> Live) /\ (Owing(Current)' <=> Owing(Current))
    BY <2>1 DEF Live, Current, Owing
  <2> QED BY <2>1, <2>2, WorkKept, FileKept
<1>3. ASSUME NEW i \in 1..Len(calls), Start(i)
      PROVE  FileInv' /\ WorkInv' /\ UNCHANGED recovery
  BY <1>3, FileStart DEF Start
<1>4. ASSUME NEW i \in 1..Len(calls), StartUnavailable(i)
      PROVE  FileInv' /\ WorkInv' /\ UNCHANGED recovery
  <2> DEFINE e == [Current EXCEPT !.status = "failed", !.error = "fatal"]
  <2>1. up /\ Live
    BY <1>4, CallFacts DEF StartUnavailable, ReadyToStart
  <2>2. e \in EntryRecords /\ ~Owing(e)
    BY <1>0, <2>1 DEF EntryRecords, Statuses, Errors, Owing, Recoverable
  <2>3. /\ entries' = [entries EXCEPT ![Len(entries)] = e] /\ Persist(e, NoCall, Ended)
        /\ UNCHANGED <<background, up, file, recovery>>
    BY <1>4 DEF StartUnavailable
  <2> HIDE DEF e
  <2>4. Live' /\ Current' = e
    BY <1>0, <2>1, <2>2, <2>3, SeqPut DEF Live, Current
  <2> QED BY <1>0, <2>1, <2>2, <2>3, <2>4, PersistEnds
<1>5. ASSUME NEW i \in 1..Len(calls), CallEnds(i)
      PROVE  FileInv' /\ WorkInv' /\ UNCHANGED recovery
  <2> DEFINE k == calls[i].entry
  <2>1. Running(i) /\ up /\ Live /\ k \in 1..Len(entries)
    BY <1>5, CallFacts DEF CallEnds, Running
  <2>2. PICK r \in EntryRecords :
          /\ entries' = [entries EXCEPT ![k] = r]
          /\ \/ Seen(r) = Seen(Mine(i)) /\ UNCHANGED <<writes, work>>
             \/ ~r.pending /\ Persist(Current', NoCall, Ended)
          /\ UNCHANGED <<background, up, file, recovery>>
    BY <1>5, <2>1, EndEffects DEF CallEnds
  <2>3. Mine(i) = entries[k]
    BY DEF Mine
  <2> HIDE DEF k
  <2>4. Live' /\ Current' = IF k = Len(entries) THEN r ELSE Current
    BY <1>0, <2>1, <2>2, SeqPut DEF Live, Current
  <2>5. CASE Seen(r) = Seen(Mine(i)) /\ UNCHANGED <<writes, work>>
    <3>1. Owing(r) <=> Owing(entries[k])
      BY <2>3, <2>5 DEF Seen, Owing
    <3>2. Owing(Current)' <=> Owing(Current)
      <4>1. Owing(Current)' <=> Owing(Current')
        BY DEF Owing
      <4> QED BY <1>0, <2>1, <2>4, <3>1, <4>1
    <3> QED BY <2>1, <2>2, <2>4, <2>5, <3>2, WorkKept, FileKept
  <2>6. CASE ~r.pending /\ Persist(Current', NoCall, Ended)
    <3>1. CASE background
      <4>1. k = Len(entries)
        BY <1>0, <2>1, <3>1
      <4>2. Current' = r /\ ~Owing(r)
        BY <2>4, <2>6, <4>1 DEF Owing
      <4>3. Persist(r, NoCall, Ended)
        BY <2>6, <4>2
      <4> QED BY <1>0, <2>1, <2>2, <2>4, <4>2, <4>3, PersistEnds
    <3>2. CASE ~background
      <4>1. ~work.begun /\ ~Ended.begun /\ Current' \in EntryRecords
        BY <1>0, <2>1, <2>4, <3>2, KnowledgeIs DEF WorkInv
      <4>2. FileInv'
        BY <1>0, <2>1, <2>2, <2>6, <4>1, FilePersist
      <4>3. WorkInv'
        <5>1. work' = Ended
          BY <2>6 DEF Persist
        <5> QED BY <2>1, <2>2, <2>4, <4>1, <5>1, KnowledgeIs DEF WorkInv
      <4> QED BY <2>2, <4>2, <4>3
    <3> QED BY <3>1, <3>2
  <2> QED BY <2>2, <2>5, <2>6
<1>6. CASE Interrupt
  <2> DEFINE e == [Current EXCEPT !.status = "resumable", !.error = "timeout",
                                  !.preserve = TRUE, !.controller = NoCall]
  <2>1. up /\ Live
    <3>1. DOMAIN calls = 1..Len(calls)
      BY DEF TypeOK
    <3> QED BY <1>6, <3>1, CallFacts DEF Interrupt, Started
  <2>2. e \in EntryRecords
    BY <1>0, <2>1 DEF EntryRecords, Statuses, Errors
  <2>3. /\ entries' = [entries EXCEPT ![Len(entries)] = e] /\ Persist(e, NoCall, work)
        /\ Recoverable(Current.status)
        /\ UNCHANGED <<background, up, file, recovery>>
    BY <1>6 DEF Interrupt
  <2>4. Owing(e) <=> Owing(Current)
    BY <1>0, <2>1, <2>3 DEF EntryRecords, Owing, Recoverable
  <2> HIDE DEF e
  <2>5. Live' /\ Current' = e
    BY <1>0, <2>1, <2>2, <2>3, SeqPut DEF Live, Current
  <2>7. work.begun => (Owing(e) <=> ~work.ended)
    BY <2>1, <2>4 DEF WorkInv
  <2>8. FileInv'
    BY <1>0, <2>1, <2>2, <2>3, <2>7, FilePersist
  <2>9. WorkInv'
    <3>1. work' = work /\ (Owing(Current)' <=> Owing(e))
      BY <2>3, <2>5 DEF Persist, Owing
    <3> QED BY <2>1, <2>3, <2>4, <2>5, <3>1, WorkKept
  <2> QED BY <2>3, <2>8, <2>9
<1>7. CASE Cancel
  <2> DEFINE e == Cancelled(Current)
  <2>1. up /\ Live
    BY <1>7 DEF Cancel
  <2>2. e \in EntryRecords /\ ~Owing(e)
    <3>1. Current.token + 1 \in Nat
      BY <1>0, <2>1 DEF EntryRecords
    <3>2. e \in EntryRecords
      BY <1>0, <2>1, <3>1 DEF EntryRecords, Statuses, Errors, NoCall, Cancelled
    <3>3. ~Owing(e)
      BY <1>0, <2>1 DEF EntryRecords, Cancelled, Owing, Recoverable
    <3> QED BY <3>2, <3>3
  <2>3. /\ entries' = [entries EXCEPT ![Len(entries)] = e] /\ Persist(e, NoCall, Ended)
        /\ UNCHANGED <<background, up, file, recovery>>
    BY <1>7 DEF Cancel
  <2> HIDE DEF e
  <2>4. Live' /\ Current' = e
    BY <1>0, <2>1, <2>2, <2>3, SeqPut DEF Live, Current
  <2> QED BY <1>0, <2>1, <2>2, <2>3, <2>4, PersistEnds
<1>8. ASSUME NEW k \in 1..Len(writes), Land(k)
      PROVE  FileInv' /\ WorkInv' /\ UNCHANGED recovery
  BY <1>8, FileLand DEF Land
<1>9. CASE Crash
  <2>1. /\ up' = FALSE /\ writes' = <<>>
        /\ UNCHANGED <<background, file, work, recovery>>
    BY <1>9 DEF Crash
  <2>2. (Owing(file)' <=> Owing(file)) /\ Len(<<>>) = 0
    BY <2>1 DEF Owing
  <2>3. FileInv'
    BY <2>1, <2>2 DEF FileInv
  <2>4. WorkInv'
    BY <2>1 DEF WorkInv
  <2> QED BY <2>1, <2>3, <2>4
<1> QED BY <1>1, <1>2, <1>3, <1>4, <1>5, <1>6, <1>7, <1>8, <1>9, NextCases

\* A restart runs exactly the invocations again that the file owes, and starts
\* from a file that it has just written.
LEMMA RestartStep ==
  ASSUME TypeOK, WorkInv, FileInv, NEW handler \in BOOLEAN, Restart(handler)
  PROVE  FileInv' /\ WorkInv' /\ RecoveryExact'
<1> DEFINE e == Hydrated(handler)
<1>1. /\ ~up /\ up' /\ writes' = writes /\ writes = <<>> /\ background' = background
      /\ file' = IF file # NoFile THEN Snapshot(e, NoCall, FALSE, FALSE) ELSE file
      /\ work' = NoWork
      /\ recovery' = [again |-> file # NoFile /\ RestartsAgain(e),
                      ended |-> work.endDurable,
                      owed  |-> background /\ ~expired /\ handler /\ work.landed /\ ~work.ended,
                      stale |-> file.passed]
  BY DEF Restart, FileInv
<1>2. /\ NoWork.begun = FALSE /\ NoWork.ended = FALSE /\ NoWork.landed = FALSE
      /\ NoWork.endDurable = FALSE /\ Len(<<>>) = 0
  BY DEF NoWork
<1>3. FileInv'
  <2>1. 1..Len(writes') = {} /\ up' /\ ~work'.landed /\ ~work'.endDurable
    BY <1>1, <1>2
  <2> QED BY <2>1 DEF FileInv
<1>4. WorkInv'
  BY <1>1, <1>2 DEF WorkInv
<1>5. RecoveryExact'
  <2>1. Owing(file) => file # NoFile
    BY DEF Owing, Recoverable, NoFile, Snapshot, Fresh
  <2>2. file # NoFile /\ RestartsAgain(e) => Owing(file)
    BY HydratedIs DEF RestartsAgain, Owing, Recoverable
  <2>3. Owing(file) /\ background /\ ~expired /\ handler => RestartsAgain(e)
    BY <2>1, HydratedIs DEF RestartsAgain
  <2>4. ~file.passed => /\ work.endDurable => ~Owing(file)
                        /\ work.landed /\ ~work.endDurable => Owing(file)
    BY DEF FileInv
  <2>5. work.endDurable => work.ended
    BY DEF WorkInv
  <2> HIDE DEF e
  <2>6. /\ recovery'.again <=> file # NoFile /\ RestartsAgain(e)
        /\ recovery'.ended = work.endDurable
        /\ recovery'.owed <=> background /\ ~expired /\ handler /\ work.landed /\ ~work.ended
        /\ recovery'.stale = file.passed
    BY <1>1
  <2> QED BY <2>1, <2>2, <2>3, <2>4, <2>5, <2>6 DEF RecoveryExact
<1> QED BY <1>3, <1>4, <1>5

-----------------------------------------------------------------------------
(* The theorems                                                            *)

\* The invariant holds of the session before its first spawn.
LEMMA InitIInv == Init => IInv
<1> SUFFICES ASSUME Init PROVE IInv
  OBVIOUS
<1>1. /\ Len(<<>>) = 0 /\ <<>> \in Seq(EntryRecords) /\ <<>> \in Seq(CallRecords) /\ <<>> \in Seq(SnapshotRecords)
      /\ MaxCalls \in Nat /\ MaxWrites \in Nat /\ MaxEvents \in Nat
  BY WorkerAssumption
<1>2. TypeOK
  <2>1. /\ entries \in Seq(EntryRecords) /\ Len(entries) = 0
        /\ calls \in Seq(CallRecords) /\ Len(calls) = 0
        /\ writes \in Seq(SnapshotRecords) /\ Len(writes) = 0
    BY <1>1 DEF Init
  <2>2. 0 <= MaxCalls /\ 0 <= MaxWrites /\ events \in 0..MaxEvents
    BY <1>1 DEF Init
  <2>3. /\ work \in Knowledge
        /\ recovery \in [again : BOOLEAN, ended : BOOLEAN, owed : BOOLEAN, stale : BOOLEAN]
    BY DEF Init, NoWork, NoRecovery, Knowledge
  <2>4. /\ background \in BOOLEAN /\ expired \in BOOLEAN /\ up \in BOOLEAN /\ up
        /\ file \in SnapshotRecords \cup {NoFile} /\ interrupted \in BOOLEAN
    BY DEF Init
  <2> QED BY <2>1, <2>2, <2>3, <2>4 DEF TypeOK
<1>3. CallInv /\ WorkInv /\ RecoveryExact
  BY <1>1 DEF Init, CallInv, WorkInv, RecoveryExact, NoWork, NoRecovery
<1>4. FileInv
  BY <1>1 DEF Init, FileInv, NoWork
<1> QED BY <1>2, <1>3, <1>4 DEF IInv

\* The invariant is inductive.
LEMMA StepIInv == IInv /\ [Next]_vars => IInv'
<1> SUFFICES ASSUME IInv, [Next]_vars PROVE IInv'
  OBVIOUS
<1>1. CASE Next
  <2>1. TypeOK'
    BY <1>1, TypeStep DEF IInv
  <2>2. CallInv'
    BY <1>1, <2>1, CallStep DEF IInv
  <2>3. CASE \E handler \in BOOLEAN : Restart(handler)
    BY <2>1, <2>2, <2>3, RestartStep DEF IInv
  <2>4. CASE ~ \E handler \in BOOLEAN : Restart(handler)
    BY <1>1, <2>1, <2>2, <2>4, KnowledgeStep DEF IInv, RecoveryExact
  <2> QED BY <2>3, <2>4
<1>2. CASE UNCHANGED vars
  BY <1>2 DEF vars, IInv, TypeOK, CallInv, CallHolds, WorkInv, FileInv, WriteHolds, Later, Owing,
     RecoveryExact, Live, Current
<1> QED BY <1>1, <1>2

\* The inductive invariant holds in every state of the session.
LEMMA Invariance == Spec => []IInv
  BY InitIInv, StepIInv, PTL DEF Spec

\* Every variable of the session keeps its type, its calls and the writes under
\* way their bounds, and a session that runs on its own has one entry.
THEOREM TypeCorrect == Spec => []TypeOK
<1>1. IInv => TypeOK
  BY DEF IInv
<1> QED BY <1>1, Invariance, PTL

\* A run that was neither aborted nor displaced is the one that the session's
\* controller stops (send's finally block, interrupt, cancel).
THEOREM Reachable == Spec => []RunReachable
<1>1. IInv => RunReachable
  <2> SUFFICES ASSUME IInv, NEW i \in Started, calls[i].abort = "none", calls[i].overtaken = "no"
               PROVE  calls[i].entry = Len(entries) /\ Current.controller = i
    BY DEF RunReachable
  <2>1. i \in 1..Len(calls) /\ calls[i].stage = "started"
    BY DEF IInv, TypeOK, Started
  <2> QED BY <2>1 DEF IInv, CallInv, CallHolds
<1> QED BY <1>1, Invariance, PTL

\* A restart runs a background invocation again exactly if it is not over, as
\* far as no older snapshot landed on a newer one (hydrateSessions and
\* restartBackgroundInvocations).
THEOREM ExactRecovery == Spec => []RecoveryExact
<1>1. IInv => RecoveryExact
  BY DEF IInv
<1> QED BY <1>1, Invariance, PTL

\* An overtaken call ends without being seen: shouldCommitCompletion finds that
\* the token is another, or the entry is not the session's any more.
LEMMA OvertakenStep ==
  ASSUME IInv, Next, NEW i \in DOMAIN calls, calls[i].overtaken # "no",
         calls[i].stage # "ended", calls'[i].stage = "ended"
  PROVE  Seen(Current)' = Seen(Current)
<1>0. /\ TypeOK /\ CallInv /\ CallHolds(i) /\ i \in 1..Len(calls) /\ Len(calls) \in Nat
      /\ entries \in Seq(EntryRecords) /\ Len(entries) \in Nat
      /\ calls \in Seq(CallRecords) /\ DOMAIN calls = 1..Len(calls)
      /\ TypeOK'
  BY TypeStep DEF IInv, TypeOK, CallInv
<1>1. \A x \in {"spawn", "ask", "summary", "restart"}, y \in BOOLEAN : NewCall(x, y) \in CallRecords
  BY FreshIs
<1>2. CASE Spawn
  <2> DEFINE os == Overtake(calls, "displaced")
             c == NewCall("spawn", TRUE)
  <2>1. calls' = Append(os, c) /\ c \in CallRecords
    BY <1>2, FreshIs DEF Spawn
  <2>2. os \in Seq(CallRecords) /\ Len(os) = Len(calls) /\ os[i].stage = calls[i].stage
    BY <1>0, OvertakeFacts
  <2> HIDE DEF os, c
  <2>3. calls'[i] = os[i]
    BY <1>0, <2>1, <2>2, SeqAppend
  <2> QED BY <2>2, <2>3
<1>3. CASE Resume
  <2> DEFINE c == NewCall("ask", FALSE)
  <2>1. calls' = Append(calls, c) /\ c \in CallRecords
    BY <1>3, FreshIs DEF Resume
  <2> HIDE DEF c
  <2> QED BY <1>0, <2>1, SeqAppend
<1>4. ASSUME NEW j \in 1..Len(calls), SummaryPass(j)
      PROVE  Seen(Current)' = Seen(Current)
  <2>1. entries' = entries
    BY <1>4 DEF SummaryPass
  <2> QED BY <2>1 DEF Seen, Current
<1>5. ASSUME NEW j \in 1..Len(calls), Start(j)
      PROVE  Seen(Current)' = Seen(Current)
  <2>1. calls'[j].stage = "started" /\ (j # i => calls'[i] = Overtake(calls, "displaced")[i])
    BY <1>0, <1>5, StartFacts
  <2>2. Overtake(calls, "displaced")[i].stage = calls[i].stage
    BY <1>0, OvertakeFacts
  <2> QED BY <2>1, <2>2
<1>6. ASSUME NEW j \in 1..Len(calls), StartUnavailable(j)
      PROVE  Seen(Current)' = Seen(Current)
  <2>1. calls[j].stage = "asked" /\ calls' = [calls EXCEPT ![j] = EndedCall(calls[j])]
    BY <1>0, <1>6, CallFacts DEF StartUnavailable, ReadyToStart, EndCall
  <2>2. j # i
    BY <1>0, <2>1 DEF CallHolds
  <2>3. calls'[i] = calls[i]
    BY <1>0, <2>1, <2>2
  <2> QED BY <2>3
<1>7. ASSUME NEW j \in 1..Len(calls), CallEnds(j)
      PROVE  Seen(Current)' = Seen(Current)
  <2>1. Running(j) /\ up /\ Live /\ calls[j].entry \in 1..Len(entries) /\ calls[j].stage = "started"
    BY <1>0, <1>7, CallFacts DEF CallEnds, Running, Started
  <2>2. PICK r \in EntryRecords :
          /\ entries' = [entries EXCEPT ![calls[j].entry] = r]
          /\ calls' = [calls EXCEPT ![j] = EndedCall(calls[j])]
          /\ Seen(r) = Seen(Mine(j)) \/ MayCommit(j)
    BY <1>0, <1>7, <2>1, EndEffects DEF CallEnds
  <2>3. j = i
    BY <1>0, <2>2
  <2>4. /\ Len(entries') = Len(entries)
        /\ \A k \in 1..Len(entries) : entries'[k] = IF k = calls[i].entry THEN r ELSE entries[k]
    BY <1>0, <2>1, <2>2, <2>3, SeqPut
  <2>5. Len(entries) \in 1..Len(entries) /\ Current = entries[Len(entries)] /\ Current.token \in Nat
    BY <1>0, <2>1, CurrentIs DEF EntryRecords
  <2>6. Seen(Current)' = Seen(Current')
    BY DEF Seen
  <2>7. CASE calls[i].entry = Len(entries)
    <3>1. calls[i].token < Current.token /\ calls[i].token \in Nat
      BY <1>0, <2>1, <2>3, <2>7, CallIs DEF CallHolds, CallRecords
    <3>2. ~MayCommit(i)
      BY <2>5, <3>1 DEF MayCommit
    <3>3. Mine(i) = Current
      BY <2>5, <2>7 DEF Mine
    <3>4. Current' = r
      BY <2>4, <2>5, <2>7 DEF Current
    <3> QED BY <2>2, <2>3, <2>6, <3>2, <3>3, <3>4
  <2>8. CASE calls[i].entry # Len(entries)
    <3>1. Current' = Current
      BY <2>4, <2>5, <2>8 DEF Current
    <3> QED BY <2>6, <3>1
  <2> QED BY <2>7, <2>8
<1>8. ASSUME NEW j \in 1..Len(calls), Deadline(j) \/ ParentAbort(j)
      PROVE  Seen(Current)' = Seen(Current)
  <2>1. entries' = entries
    BY <1>8 DEF Deadline, ParentAbort
  <2> QED BY <2>1 DEF Seen, Current
<1>9. CASE Interrupt
  <2> DEFINE yes == TRUE
  <2>1. Current.controller \in Nat
    <3>1. Live
      BY <1>0, <1>9, CallFacts DEF Interrupt, Started
    <3> QED BY <1>0, <3>1, CurrentIs DEF EntryRecords
  <2>2. calls' = Aborted(calls, Current.controller, "interrupt", yes)
    BY <1>9 DEF Interrupt
  <2> HIDE DEF yes
  <2>3. calls'[i].stage = calls[i].stage
    BY <1>0, <2>1, <2>2, AbortedFacts
  <2> QED BY <2>3
<1>10. CASE Cancel
  <2> DEFINE os == Overtake(calls, "stopped")
  <2>1. Current.controller \in Nat
    <3>1. Live
      BY <1>10 DEF Cancel
    <3> QED BY <1>0, <3>1, CurrentIs DEF EntryRecords
  <2>2. calls' = Aborted(os, Current.controller, "cancel", Current.preserve)
    BY <1>10 DEF Cancel
  <2>3. os \in Seq(CallRecords) /\ Len(os) = Len(calls) /\ os[i].stage = calls[i].stage
    BY <1>0, OvertakeFacts
  <2> HIDE DEF os
  <2>4. calls'[i].stage = os[i].stage
    BY <1>0, <2>1, <2>2, <2>3, AbortedFacts
  <2> QED BY <2>3, <2>4
<1>11. CASE Expire
  <2>1. entries' = entries
    BY <1>11 DEF Expire
  <2> QED BY <2>1 DEF Seen, Current
<1>12. ASSUME NEW k \in 1..Len(writes), Land(k)
       PROVE  Seen(Current)' = Seen(Current)
  <2>1. entries' = entries
    BY <1>12 DEF Land
  <2> QED BY <2>1 DEF Seen, Current
<1>13. CASE Crash
  <2>1. calls'[i].stage = "lost"
    BY <1>0, <1>13, FreshIs DEF Crash
  <2> QED BY <2>1
<1>14. ASSUME NEW handler \in BOOLEAN, Restart(handler)
       PROVE  Seen(Current)' = Seen(Current)
  <2> DEFINE c == NewCall("restart", FALSE)
  <2>1. c \in CallRecords /\ (calls' = calls \/ calls' = Append(calls, c))
    BY <1>14, FreshIs DEF Restart
  <2> HIDE DEF c
  <2>2. Append(calls, c)[i] = calls[i]
    BY <1>0, <2>1, SeqAppend
  <2>3. calls'[i] = calls[i]
    BY <2>1, <2>2
  <2> QED BY <2>3
<1> QED
  BY <1>0, <1>2, <1>3, <1>4, <1>5, <1>6, <1>7, <1>8, <1>9, <1>10, <1>11, <1>12, <1>13, <1>14, NextCases

\* However late a call ends that a cancellation, another call or another spawn
\* has overtaken, and whatever it brings: nobody sees it in the session.
THEOREM OvertakenUnseen == Spec => OvertakenNeverSettles
<1>1. IInv /\ [Next]_vars =>
        [\A i \in DOMAIN calls :
           calls[i].overtaken # "no" /\ calls[i].stage # "ended" /\ calls'[i].stage = "ended"
             => Seen(Current)' = Seen(Current)]_vars
  BY OvertakenStep
<1> QED BY <1>1, Invariance, PTL DEF Spec, OvertakenNeverSettles

=============================================================================
