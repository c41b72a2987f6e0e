----------------------------- MODULE JobLogProofs -----------------------------
(* Theorems about JobLog, for any items, any number of DELETE requests and   *)
(* readers, and any limits.                                                  *)
EXTENDS JobLog, FiniteSetTheorems, TLAPS

\* The log is well formed.  A full log has only room for its end, and the
\* worker only appends drafts.
LogInv ==
    /\ log \in Seq([sequence : Nat, draft : U!Drafts])
    /\ Len(log) <= MaxUpdates + 1
    /\ ~U!Ended => Len(log) <= MaxUpdates
    /\ worker = "appending" => draft \in U!Drafts

\* What a DELETE has behind it.
HandlerInv ==
    \A h \in Handlers :
        handler[h] \in {"notifying", "finish", "decrement", "evict"} => U!Ended

\* The one withdrawal of the job's activity.
ActivityInv ==
    /\ activeJobs = IF active \/ Withdrawing # {} \/ worker = "decrement" THEN 1 ELSE 0
    /\ active => Withdrawing = {} /\ worker # "decrement"
    /\ worker = "decrement" => Withdrawing = {}
    /\ \A g, h \in Withdrawing : g = h
    /\ \A h \in Handlers : handler[h] = "evict" => ~active

\* A reader that has read the log without news will not sleep through any.
ReaderInv ==
    \A r \in Readers :
        reader[r] \in {"caughtUp", "waiting"} /\ cursor[r] < Len(log) =>
            \/ woken[r]
            \/ worker = "notifying"
            \/ \E h \in Handlers : handler[h] = "notifying"

\* The inductive invariant of a job.
IInv ==
    /\ TypeOK
    /\ LogInv
    /\ HandlerInv
    /\ ActivityInv
    /\ ReaderInv
    /\ EvictedHasEnded

-----------------------------------------------------------------------------
(* The log *)

\* The drafts of the job's end are drafts.
LEMMA EndDrafts ==
    /\ [kind |-> "complete"] \in U!Drafts
    /\ [kind |-> "failed"] \in U!Drafts
    /\ [kind |-> "cancelled"] \in U!Drafts
    /\ \A k \in U!TerminalKinds : [kind |-> k] \in U!Drafts /\ U!IsTerminal([kind |-> k])
BY DEF U!Drafts, U!TerminalKinds, U!IsTerminal

\* A step of the job either leaves the log alone or publishes into it, one of
\* the drafts the stream allows, and never beyond the terminal update.
LEMMA LogStep ==
    ASSUME LogInv, Next
    PROVE  \/ UNCHANGED log
           \/ \E d \in U!Drafts :
                /\ U!Publish(d)
                /\ ~U!IsTerminal(d) => Len(log) < MaxUpdates
<1>1. CASE AppendDraft
  <2>1. CASE Refused(draft)
    BY <1>1, <2>1 DEF AppendDraft
  <2>2. CASE ~Refused(draft)
    <3>1. draft \in U!Drafts
      BY <1>1 DEF AppendDraft, LogInv
    <3>2. U!Publish(draft)
      BY <1>1, <2>2 DEF AppendDraft, Push, Refused, Repeats, Regresses, U!Publish
    <3>3. ~U!IsTerminal(draft) => Len(log) < MaxUpdates
      BY <2>2, BoundsAssumption DEF Refused, Full, LogInv
    <3> QED BY <3>1, <3>2, <3>3
  <2> QED BY <2>1, <2>2
<1>2. ASSUME NEW h \in Handlers, PublishCancelled(h)
      PROVE  UNCHANGED log \/ (U!Publish([kind |-> "cancelled"]))
  BY <1>2 DEF PublishCancelled, Push, U!Publish, U!ItemKinds
<1>3. ASSUME NEW h \in Handlers, PublishCancelled(h)
      PROVE  UNCHANGED log \/ \E d \in U!Drafts : U!Publish(d) /\ U!IsTerminal(d)
  BY <1>2, <1>3, EndDrafts DEF U!TerminalKinds
<1>4. CASE WorkerStep /\ ~AppendDraft
  BY <1>4 DEF WorkerStep, PipelineStep, Start, Publish, PipelineOk, PipelineErr, Outcome,
              Notify, FailJob, FinishWorker, DecrementWorker
<1>5. CASE Panic \/ EvictForRoom
  BY <1>5 DEF Panic, EvictForRoom
<1>6. ASSUME NEW h \in Handlers,
             Delete(h) \/ DeleteMissing(h) \/ (HandlerStep(h) /\ ~PublishCancelled(h))
      PROVE  UNCHANGED log
  BY <1>6 DEF Delete, DeleteMissing, HandlerStep, NotifyCancelled, FinishHandler,
              DecrementHandler, EvictJob
<1>7. ASSUME NEW r \in Readers, ReaderStep(r) \/ Timeout(r) PROVE UNCHANGED log
  BY <1>7 DEF ReaderStep, Poll, Replay, Sleep, Wake, Timeout
<1> QED BY <1>1, <1>3, <1>4, <1>5, <1>6, <1>7 DEF Next, HandlerStep

\* What a publication does to a log.
LEMMA PublishLog ==
    ASSUME LogInv, NEW d \in U!Drafts, U!Publish(d)
    PROVE  /\ log' \in Seq([sequence : Nat, draft : U!Drafts])
           /\ Len(log') = Len(log) + 1
           /\ ~U!Ended
           /\ U!IsTerminal(d) <=> U!Ended'
<1>1. log' = Append(log, [sequence |-> Len(log) + 1, draft |-> d]) /\ ~U!Ended
  BY DEF U!Publish
<1>2. [sequence |-> Len(log) + 1, draft |-> d] \in [sequence : Nat, draft : U!Drafts]
  BY DEF LogInv
<1>3. log' \in Seq([sequence : Nat, draft : U!Drafts]) /\ Len(log') = Len(log) + 1
  BY <1>1, <1>2 DEF LogInv
<1>4. log'[Len(log')].draft = d /\ log' # <<>>
  BY <1>1, <1>3 DEF LogInv
<1>5. U!Ended' <=> U!IsTerminal(d)
  BY <1>4 DEF U!Ended
<1> QED BY <1>1, <1>3, <1>5

\* The end of the log stays its end.
LEMMA EndedStays ==
    ASSUME LogInv, Next, U!Ended
    PROVE  UNCHANGED log /\ U!Ended'
BY LogStep DEF U!Publish, U!Ended

\* No step shortens the log.
LEMMA LogGrows ==
    ASSUME LogInv, Next
    PROVE  /\ log' \in Seq([sequence : Nat, draft : U!Drafts])
           /\ Len(log) <= Len(log') /\ Len(log') <= MaxUpdates + 1
           /\ ~U!Ended' => Len(log') <= MaxUpdates
<1>1. CASE UNCHANGED log
  BY <1>1 DEF LogInv, U!Ended
<1>2. ASSUME NEW d \in U!Drafts, U!Publish(d), ~U!IsTerminal(d) => Len(log) < MaxUpdates
      PROVE  /\ log' \in Seq([sequence : Nat, draft : U!Drafts])
             /\ Len(log) <= Len(log') /\ Len(log') <= MaxUpdates + 1
             /\ ~U!Ended' => Len(log') <= MaxUpdates
  <2>1. /\ log' \in Seq([sequence : Nat, draft : U!Drafts])
        /\ Len(log') = Len(log) + 1
        /\ ~U!Ended
        /\ U!IsTerminal(d) <=> U!Ended'
    BY <1>2, PublishLog
  <2>2. Len(log) \in Nat /\ Len(log) <= MaxUpdates /\ MaxUpdates \in Nat
    BY <2>1, BoundsAssumption DEF LogInv
  <2> QED BY <1>2, <2>1, <2>2
<1> QED BY <1>1, <1>2, LogStep

-----------------------------------------------------------------------------
(* The inductive invariant *)

\* A job starts counted once, with a log of one update.
LEMMA InitIInv == Init => IInv
<1> SUFFICES ASSUME Init PROVE IInv
  OBVIOUS
<1> DEFINE first == [sequence |-> 1, draft |-> [kind |-> "progress", overall |-> 0]]
<1>1. first \in [sequence : Nat, draft : U!Drafts]
  BY LevelsAssumption DEF U!Drafts
<1>2. log = <<first>> /\ Len(log) = 1
  BY DEF Init, U!Init
<1>3. ~U!Ended
  BY <1>2 DEF U!Ended, U!IsTerminal, U!TerminalKinds
<1>4. TypeOK
  <2> HIDE DEF first
  <2>1. log \in Seq([sequence : Nat, draft : U!Drafts]) /\ Len(log) <= MaxUpdates + 1
    BY <1>1, <1>2, BoundsAssumption
  <2>2. (\A r \in Readers : cursor[r] <= Len(log)) /\ cursor \in [Readers -> Nat]
    BY <1>2 DEF Init
  <2>3. activeJobs \in 0..1 /\ worker \in WorkerPlaces /\ draft \in U!Drafts \cup {NoDraft}
    BY DEF Init, WorkerPlaces
  <2>5. cancel \in BOOLEAN /\ active \in BOOLEAN /\ stored \in BOOLEAN
    BY Zenon DEF Init
  <2>4. /\ handler \in [Handlers -> HandlerPlaces]
        /\ reader \in [Readers -> ReaderPlaces]
        /\ woken \in [Readers -> BOOLEAN]
    BY DEF Init, HandlerPlaces, ReaderPlaces
  <2> QED BY <2>1, <2>2, <2>3, <2>4, <2>5 DEF TypeOK
<1>5. LogInv
  BY <1>1, <1>2, BoundsAssumption DEF LogInv, Init
<1>6. Withdrawing = {}
  BY DEF Init, Withdrawing
<1>7. ActivityInv
  BY <1>6 DEF Init, ActivityInv
<1>8. HandlerInv /\ ReaderInv /\ EvictedHasEnded
  BY DEF Init, HandlerInv, ReaderInv, EvictedHasEnded
<1> QED BY <1>4, <1>5, <1>7, <1>8 DEF IInv

USE DEF Go, Turn, flags, readers, Swap

\* Every step of the worker, of a DELETE and of a reader keeps the log within
\* its limit and leaves the worker with a draft to append.
LEMMA StepLogInv == IInv /\ Next => LogInv'
<1> SUFFICES ASSUME IInv, Next PROVE LogInv'
  OBVIOUS
<1> USE DEF IInv
<1>1. (worker = "appending" => draft \in U!Drafts)'
  <2>1. CASE Publish
    BY <2>1 DEF Publish
  <2>2. ASSUME NEW place, NEW kind \in U!TerminalKinds, Outcome(place, kind)
        PROVE  worker' = "appending" => draft' \in U!Drafts
    BY <2>2, EndDrafts DEF Outcome
  <2>3. CASE PipelineOk \/ FailJob
    BY <2>2, <2>3 DEF PipelineOk, FailJob, U!TerminalKinds
  <2>4. CASE WorkerStep /\ ~Publish /\ ~PipelineOk /\ ~FailJob
    BY <2>4 DEF WorkerStep, PipelineStep, Start, PipelineErr, AppendDraft, Notify,
                FinishWorker, DecrementWorker
  <2>5. CASE Panic \/ EvictForRoom
    BY <2>5 DEF Panic, EvictForRoom, LogInv
  <2>6. ASSUME NEW h \in Handlers, Delete(h) \/ DeleteMissing(h) \/ HandlerStep(h)
        PROVE  UNCHANGED <<worker, draft>>
    BY <2>6 DEF Delete, DeleteMissing, HandlerStep, PublishCancelled, NotifyCancelled,
                FinishHandler, DecrementHandler, EvictJob
  <2>7. ASSUME NEW r \in Readers, ReaderStep(r) \/ Timeout(r)
        PROVE  UNCHANGED <<worker, draft>>
    BY <2>7 DEF ReaderStep, Poll, Replay, Sleep, Wake, Timeout
  <2> QED BY <2>1, <2>3, <2>4, <2>5, <2>6, <2>7 DEF Next, LogInv
<1> QED BY <1>1, LogGrows DEF LogInv

\* Each step keeps the other variables in their types.
LEMMA StepTypeOK == IInv /\ Next /\ ActivityInv' /\ LogInv' => TypeOK'
<1> SUFFICES ASSUME IInv, Next, ActivityInv', LogInv' PROVE TypeOK'
  OBVIOUS
<1> USE DEF IInv
<1>1. activeJobs' \in 0..1
  BY DEF ActivityInv
<1>2. (\A r \in Readers : cursor[r] <= Len(log))' /\ cursor' \in [Readers -> Nat]
  <2>1. Len(log) \in Nat /\ Len(log') \in Nat /\ Len(log) <= Len(log')
    BY LogGrows DEF LogInv
  <2>2. ASSUME NEW r \in Readers, Replay(r)
        PROVE  (\A s \in Readers : cursor[s] <= Len(log))' /\ cursor' \in [Readers -> Nat]
    <3> DEFINE next == IF cursor[r] + Page < Len(log) THEN cursor[r] + Page ELSE Len(log)
    <3>1. next \in Nat /\ next <= Len(log)
      BY <2>1, BoundsAssumption DEF TypeOK
    <3>2. UNCHANGED log
      BY <2>2 DEF Replay
    <3>3. cursor' = [cursor EXCEPT ![r] = next] \/ UNCHANGED cursor
      BY <2>2 DEF Replay
    <3> HIDE DEF next
    <3> QED BY <2>1, <3>1, <3>2, <3>3 DEF TypeOK
  <2>3. CASE UNCHANGED cursor
    BY <2>1, <2>3 DEF TypeOK
  <2>4. UNCHANGED cursor \/ \E r \in Readers : Replay(r)
    BY DEF Next, WorkerStep, PipelineStep, Start, Publish, PipelineOk, PipelineErr, Outcome,
           AppendDraft, Notify, FailJob, FinishWorker, DecrementWorker, Panic, EvictForRoom,
           Delete, DeleteMissing, HandlerStep, PublishCancelled, NotifyCancelled,
           FinishHandler, DecrementHandler, EvictJob, ReaderStep, Poll, Sleep, Wake, Timeout
  <2> QED BY <2>2, <2>3, <2>4
<1>3. /\ cancel' \in BOOLEAN /\ active' \in BOOLEAN /\ stored' \in BOOLEAN
      /\ worker' \in WorkerPlaces
      /\ draft' \in U!Drafts \cup {NoDraft}
      /\ handler' \in [Handlers -> HandlerPlaces]
      /\ reader' \in [Readers -> ReaderPlaces]
      /\ woken' \in [Readers -> BOOLEAN]
  <2> USE DEF TypeOK, WorkerPlaces, HandlerPlaces, ReaderPlaces
  <2>1. CASE PipelineOk \/ FailJob
    BY <2>1, EndDrafts DEF PipelineOk, FailJob, Outcome
  <2>2. CASE WorkerStep /\ ~PipelineOk /\ ~FailJob
    BY <2>2 DEF WorkerStep, PipelineStep, Start, Publish, PipelineErr, AppendDraft, Notify,
                NotifyReaders, FinishWorker, DecrementWorker
  <2>3. CASE Panic \/ EvictForRoom
    BY <2>3 DEF Panic, EvictForRoom
  <2>4. ASSUME NEW h \in Handlers, Delete(h) \/ DeleteMissing(h) \/ HandlerStep(h)
        PROVE  /\ UNCHANGED <<worker, draft, reader>>
               /\ cancel' \in BOOLEAN /\ active' \in BOOLEAN /\ stored' \in BOOLEAN
               /\ handler' \in [Handlers -> HandlerPlaces]
               /\ woken' \in [Readers -> BOOLEAN]
    BY <2>4 DEF Delete, DeleteMissing, HandlerStep, PublishCancelled, NotifyCancelled,
                NotifyReaders, FinishHandler, DecrementHandler, EvictJob
  <2>5. ASSUME NEW r \in Readers, ReaderStep(r) \/ Timeout(r)
        PROVE  /\ UNCHANGED <<cancel, active, stored, worker, draft, handler>>
               /\ reader' \in [Readers -> ReaderPlaces]
               /\ woken' \in [Readers -> BOOLEAN]
    BY <2>5 DEF ReaderStep, Poll, Replay, Sleep, Wake, Timeout
  <2> QED BY <2>1, <2>2, <2>3, <2>4, <2>5 DEF Next
<1> QED BY <1>1, <1>2, <1>3 DEF TypeOK, LogInv

\* A DELETE past its publication has seen the job's end.
LEMMA StepHandlerInv == IInv /\ Next => HandlerInv'
<1> SUFFICES ASSUME IInv, Next, NEW h \in Handlers,
                    handler'[h] \in {"notifying", "finish", "decrement", "evict"}
             PROVE  U!Ended'
  BY DEF HandlerInv
<1> USE DEF IInv
<1>1. CASE handler[h] \in {"notifying", "finish", "decrement", "evict"}
  BY <1>1, EndedStays DEF HandlerInv
<1>2. CASE PublishCancelled(h)
  <2>1. CASE U!Ended
    BY <2>1, EndedStays
  <2>2. CASE ~U!Ended
    <3>1. U!Publish([kind |-> "cancelled"])
      BY <1>2, <2>2 DEF PublishCancelled, Push, U!Publish, U!ItemKinds
    <3>2. [kind |-> "cancelled"] \in U!Drafts /\ U!IsTerminal([kind |-> "cancelled"])
      BY EndDrafts DEF U!TerminalKinds
    <3> QED BY <3>1, <3>2, PublishLog
  <2> QED BY <2>1, <2>2
<1>3. CASE handler[h] \notin {"notifying", "finish", "decrement", "evict"} /\ ~PublishCancelled(h)
  <2>1. ASSUME NEW g \in Handlers, Delete(g) \/ DeleteMissing(g) \/ HandlerStep(g)
        PROVE  handler'[h] \notin {"notifying", "finish", "decrement", "evict"}
    <3>1. CASE g = h
      BY <1>3, <2>1, <3>1 DEF Delete, DeleteMissing, HandlerStep, NotifyCancelled,
                              FinishHandler, DecrementHandler, EvictJob, TypeOK
    <3>2. CASE g # h
      BY <1>3, <2>1, <3>2 DEF Delete, DeleteMissing, HandlerStep, PublishCancelled,
                              NotifyCancelled, FinishHandler, DecrementHandler, EvictJob, TypeOK
    <3> QED BY <3>1, <3>2
  <2>2. CASE WorkerStep \/ Panic \/ EvictForRoom
    BY <1>3, <2>2 DEF WorkerStep, PipelineStep, Start, Publish, PipelineOk, PipelineErr, Outcome,
                AppendDraft, Notify, FailJob, FinishWorker, DecrementWorker, Panic, EvictForRoom
  <2>3. ASSUME NEW r \in Readers, ReaderStep(r) \/ Timeout(r) PROVE UNCHANGED handler
    BY <2>3 DEF ReaderStep, Poll, Replay, Sleep, Wake, Timeout
  <2> QED BY <1>3, <2>1, <2>2, <2>3 DEF Next
<1> QED BY <1>1, <1>2, <1>3

\* Whoever swaps the active flag first is the only one to withdraw the job.
LEMMA StepActivityInv == IInv /\ Next => ActivityInv'
<1> SUFFICES ASSUME IInv, Next PROVE ActivityInv'
  OBVIOUS
<1> USE DEF IInv, TypeOK
<1>1. CASE FinishWorker
  <2>1. UNCHANGED handler /\ Withdrawing' = Withdrawing
    BY <1>1 DEF FinishWorker, Withdrawing
  <2> QED BY <1>1, <2>1 DEF FinishWorker, ActivityInv
<1>2. CASE DecrementWorker
  <2>1. UNCHANGED handler /\ Withdrawing' = Withdrawing
    BY <1>2 DEF DecrementWorker, Withdrawing
  <2> QED BY <1>2, <2>1 DEF DecrementWorker, ActivityInv
<1>3. ASSUME NEW h \in Handlers, FinishHandler(h) PROVE ActivityInv'
  <2>1. CASE active
    <3>1. Withdrawing = {}
      BY <2>1 DEF ActivityInv
    <3>2. Withdrawing' = {h}
      BY <1>3, <2>1, <3>1 DEF FinishHandler, Withdrawing
    <3>3. \A g \in Handlers : handler'[g] = "evict" => handler[g] = "evict"
      BY <1>3, <2>1 DEF FinishHandler
    <3> QED BY <1>3, <2>1, <3>2, <3>3 DEF FinishHandler, ActivityInv
  <2>2. CASE ~active
    <3>1. Withdrawing' = Withdrawing
      BY <1>3, <2>2 DEF FinishHandler, Withdrawing
    <3> QED BY <1>3, <2>2, <3>1 DEF FinishHandler, ActivityInv
  <2> QED BY <2>1, <2>2
<1>4. ASSUME NEW h \in Handlers, DecrementHandler(h) PROVE ActivityInv'
  <2>1. Withdrawing = {h}
    BY <1>4 DEF DecrementHandler, Withdrawing, ActivityInv
  <2>2. Withdrawing' = {}
    BY <1>4, <2>1 DEF DecrementHandler, Withdrawing
  <2>3. ~active /\ worker # "decrement" /\ activeJobs = 1
    BY <2>1 DEF ActivityInv
  <2> QED BY <1>4, <2>2, <2>3 DEF DecrementHandler, ActivityInv
<1>5. ASSUME NEW h \in Handlers,
             \/ Delete(h) \/ DeleteMissing(h) \/ PublishCancelled(h)
             \/ NotifyCancelled(h) \/ EvictJob(h)
      PROVE  ActivityInv'
  <2>1. UNCHANGED <<active, activeJobs, worker>>
    BY <1>5 DEF Delete, DeleteMissing, PublishCancelled, NotifyCancelled, EvictJob
  <2>2. Withdrawing' = Withdrawing
    BY <1>5 DEF Delete, DeleteMissing, PublishCancelled, NotifyCancelled, EvictJob, Withdrawing
  <2>3. \A g \in Handlers : handler'[g] = "evict" => handler[g] = "evict"
    BY <1>5 DEF Delete, DeleteMissing, PublishCancelled, NotifyCancelled, EvictJob
  <2> QED BY <2>1, <2>2, <2>3 DEF ActivityInv
<1>6. CASE \/ WorkerStep /\ ~FinishWorker /\ ~DecrementWorker
           \/ Panic \/ EvictForRoom
           \/ \E r \in Readers : ReaderStep(r) \/ Timeout(r)
  <2>1. worker' = "decrement" <=> worker = "decrement"
    BY <1>6 DEF WorkerStep, PipelineStep, Start, Publish, PipelineOk, PipelineErr, Outcome,
                AppendDraft, Notify, FailJob, Panic, EvictForRoom, ReaderStep, Poll, Replay,
                Sleep, Wake, Timeout
  <2>2. UNCHANGED <<active, activeJobs, handler>>
    BY <1>6 DEF WorkerStep, PipelineStep, Start, Publish, PipelineOk, PipelineErr, Outcome,
                AppendDraft, Notify, FailJob, Panic, EvictForRoom, ReaderStep, Poll, Replay,
                Sleep, Wake, Timeout
  <2>3. Withdrawing' = Withdrawing
    BY <2>2 DEF Withdrawing
  <2> QED BY <2>1, <2>2, <2>3 DEF ActivityInv
<1> QED BY <1>1, <1>2, <1>3, <1>4, <1>5, <1>6 DEF Next, HandlerStep

\* Every append is followed by a notification of each future that exists.
LEMMA StepReaderInv == IInv /\ Next => ReaderInv'
<1> SUFFICES ASSUME IInv, Next PROVE ReaderInv'
  OBVIOUS
<1> USE DEF IInv, TypeOK
<1>1. CASE AppendDraft
  <2>1. CASE Refused(draft)
    BY <1>1, <2>1 DEF AppendDraft, ReaderInv
  <2>2. CASE ~Refused(draft)
    BY <1>1, <2>2 DEF AppendDraft, ReaderInv
  <2> QED BY <2>1, <2>2
<1>2. ASSUME NEW h \in Handlers, PublishCancelled(h) PROVE ReaderInv'
  <2>1. CASE U!Ended
    <3>1. \A g \in Handlers : handler[g] = "notifying" => handler'[g] = "notifying"
      BY <1>2, <2>1 DEF PublishCancelled
    <3>2. UNCHANGED <<log, worker, reader, cursor, woken>>
      BY <1>2, <2>1 DEF PublishCancelled
    <3> QED BY <3>1, <3>2 DEF ReaderInv
  <2>2. CASE ~U!Ended
    <3>1. handler'[h] = "notifying"
      BY <1>2, <2>2 DEF PublishCancelled
    <3> QED BY <3>1 DEF ReaderInv
  <2> QED BY <2>1, <2>2
<1>3. CASE Notify \/ \E h \in Handlers : NotifyCancelled(h)
  BY <1>3 DEF Notify, NotifyCancelled, NotifyReaders, Listening, ReaderInv
<1>4. CASE (WorkerStep /\ ~AppendDraft /\ ~Notify) \/ Panic \/ EvictForRoom
  <2>1. /\ UNCHANGED <<log, handler, reader, cursor, woken>>
        /\ worker = "notifying" => worker' = "notifying"
    BY <1>4 DEF WorkerStep, PipelineStep, Start, Publish, PipelineOk, PipelineErr, Outcome,
                FailJob, FinishWorker, DecrementWorker, Panic, EvictForRoom
  <2> QED BY <2>1 DEF ReaderInv
<1>5. ASSUME NEW h \in Handlers,
             \/ Delete(h) \/ DeleteMissing(h) \/ FinishHandler(h)
             \/ DecrementHandler(h) \/ EvictJob(h)
      PROVE  ReaderInv'
  <2>1. UNCHANGED <<log, worker, reader, cursor, woken>>
    BY <1>5 DEF Delete, DeleteMissing, FinishHandler, DecrementHandler, EvictJob
  <2>2. \A g \in Handlers : handler[g] = "notifying" => handler'[g] = "notifying"
    BY <1>5 DEF Delete, DeleteMissing, FinishHandler, DecrementHandler, EvictJob
  <2> QED BY <2>1, <2>2 DEF ReaderInv
<1>6. ASSUME NEW r \in Readers, ReaderStep(r) \/ Timeout(r) PROVE ReaderInv'
  <2>1. UNCHANGED <<log, worker, handler>>
    BY <1>6 DEF ReaderStep, Poll, Replay, Sleep, Wake, Timeout
  <2>2. ASSUME NEW s \in Readers, s # r
        PROVE  reader'[s] = reader[s] /\ cursor'[s] = cursor[s] /\ woken'[s] = woken[s]
    BY <1>6, <2>2 DEF ReaderStep, Poll, Replay, Sleep, Wake, Timeout
  <2>3. CASE Replay(r)
    <3>1. reader'[r] \in {"caughtUp", "waiting"} => ~(cursor'[r] < Len(log'))
      BY <2>3 DEF Replay
    <3> QED BY <2>1, <2>2, <3>1 DEF ReaderInv
  <2>4. CASE Poll(r) \/ Wake(r) \/ Timeout(r)
    <3>1. reader'[r] \notin {"caughtUp", "waiting"}
      BY <2>4 DEF Poll, Wake, Timeout
    <3> QED BY <2>1, <2>2, <3>1 DEF ReaderInv
  <2>5. CASE Sleep(r)
    <3>1. reader[r] = "caughtUp" /\ UNCHANGED <<cursor, woken>>
      BY <2>5 DEF Sleep
    <3> QED BY <2>1, <2>2, <3>1 DEF ReaderInv
  <2> QED BY <1>6, <2>3, <2>4, <2>5 DEF ReaderStep
<1> QED BY <1>1, <1>2, <1>3, <1>4, <1>5, <1>6 DEF Next, HandlerStep

\* Whoever evicts the job has seen it end and stop being active.
LEMMA StepEvicted == IInv /\ Next => EvictedHasEnded'
<1> SUFFICES ASSUME IInv, Next, ~stored' PROVE U!Ended' /\ ~active'
  BY DEF EvictedHasEnded
<1> USE DEF IInv
<1>1. active' => active
  BY DEF Next, WorkerStep, PipelineStep, Start, Publish, PipelineOk, PipelineErr, Outcome,
         AppendDraft, Notify, FailJob, FinishWorker, DecrementWorker, Panic, EvictForRoom,
         Delete, DeleteMissing, HandlerStep, PublishCancelled, NotifyCancelled,
         FinishHandler, DecrementHandler, EvictJob, ReaderStep, Poll, Replay, Sleep, Wake,
         Timeout
<1>2. \/ ~stored
      \/ EvictForRoom
      \/ \E h \in Handlers : EvictJob(h)
  BY DEF Next, WorkerStep, PipelineStep, Start, Publish, PipelineOk, PipelineErr, Outcome,
         AppendDraft, Notify, FailJob, FinishWorker, DecrementWorker, Panic,
         Delete, DeleteMissing, HandlerStep, PublishCancelled, NotifyCancelled,
         FinishHandler, DecrementHandler, ReaderStep, Poll, Replay, Sleep, Wake, Timeout
<1>3. U!Ended /\ ~active
  BY <1>2 DEF EvictForRoom, EvictJob, HandlerInv, ActivityInv, EvictedHasEnded
<1> QED BY <1>1, <1>3, EndedStays

\* The inductive invariant holds in every reachable state.
THEOREM Invariance == Spec => []IInv
<1>1. IInv /\ [Next]_vars => IInv'
  <2>1. CASE IInv /\ Next
    BY <2>1, StepLogInv, StepHandlerInv, StepActivityInv, StepReaderInv, StepEvicted,
       StepTypeOK DEF IInv
  <2>2. CASE IInv /\ UNCHANGED vars
    BY <2>2 DEF vars, IInv, TypeOK, LogInv, HandlerInv, ActivityInv, ReaderInv,
                EvictedHasEnded, Withdrawing, U!Ended
  <2> QED BY <2>1, <2>2
<1> QED BY InitIInv, <1>1, PTL DEF Spec

-----------------------------------------------------------------------------
(* What it means for the job *)

\* The log is a prefix of an abstract update stream: however a worker that
\* publishes an item, Complete or Failed races any number of cancellations,
\* each step of the daemon is one publication the stream allows, or none.
THEOREM LogRefinement == Spec => ImplementsUpdateLog
<1>1. Init => U!Init
  BY DEF Init
<1>2. IInv /\ [Next]_vars => [U!Next]_log
  BY LogStep DEF IInv, U!Next, vars
<1> QED BY <1>1, <1>2, Invariance, PTL DEF Spec, ImplementsUpdateLog, U!Spec

\* The daemon counts the job until exactly one finish_active, of the worker or
\* of whichever DELETE, has withdrawn it.
THEOREM CountedOnce == Spec => []ActivityCountedOnce
<1>1. IInv => ActivityCountedOnce
  <2> SUFFICES ASSUME IInv PROVE ActivityCountedOnce
    OBVIOUS
  <2>1. CASE Withdrawing = {}
    BY <2>1, FS_EmptySet DEF IInv, ActivityInv, ActivityCountedOnce
  <2>2. ASSUME NEW h \in Withdrawing PROVE ActivityCountedOnce
    <3>1. Withdrawing = {h} /\ ~active /\ worker # "decrement"
      BY <2>2 DEF IInv, ActivityInv
    <3>2. Cardinality(Withdrawing) = 1
      BY <3>1, FS_Singleton
    <3> QED BY <3>1, <3>2 DEF IInv, ActivityInv, ActivityCountedOnce
  <2> QED BY <2>1, <2>2
<1> QED BY Invariance, <1>1, PTL

\* No reader sleeps on an update that nobody will notify it of.
THEOREM ReadersNotified == Spec => []NoLostWakeup
<1>1. IInv => NoLostWakeup
  BY DEF IInv, ReaderInv, NoLostWakeup
<1> QED BY Invariance, <1>1, PTL

\* Once a DELETE has answered for the log, no append of the worker reaches it.
THEOREM CancellationFinal == Spec => CancelledIsFinal
<1>1. IInv /\ [Next]_vars =>
        [(\E h \in Handlers : handler[h] \in {"finish", "decrement", "evict"})
            => UNCHANGED log]_vars
  BY EndedStays DEF IInv, HandlerInv, vars
<1> QED BY Invariance, <1>1, PTL DEF Spec, CancelledIsFinal

\* The job's log never exceeds the limit by more than its terminal update, and
\* no reader's cursor runs ahead of it.
THEOREM TypeCorrect == Spec => []TypeOK
<1>1. IInv => TypeOK
  BY DEF IInv
<1> QED BY Invariance, <1>1, PTL

\* A job is only evicted with its end in the log and its activity withdrawn.
THEOREM EvictionAfterEnd == Spec => []EvictedHasEnded
<1>1. IInv => EvictedHasEnded
  BY DEF IInv
<1> QED BY Invariance, <1>1, PTL

=============================================================================
