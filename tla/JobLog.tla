------------------------------- MODULE JobLog -------------------------------
(***************************************************************************)
(* One browser job of the daemon (crates/browser-companion/src/server.rs): *)
(* its append-only update log, the worker that runs the pipeline and       *)
(* publishes into it, DELETE handlers that cancel and evict the job, and   *)
(* long-polling readers.                                                   *)
(*                                                                         *)
(* The cancel flag is an atomic read outside the log's mutex, the active   *)
(* flag an atomic swap, and readers are woken after the mutex is dropped;  *)
(* every such access is a step of its own.                                 *)
(***************************************************************************)
EXTENDS Naturals, Sequences, FiniteSets

CONSTANTS
    Items,          \* image regions or document blocks of the job
    Levels,         \* values of the overall progress
    Handlers,       \* DELETE /jobs/{id} requests
    Readers,        \* GET /jobs/{id}/updates clients, each with one cursor
    MaxUpdates,     \* MAX_UPDATES_PER_JOB
    Page            \* MAX_REPLAY_UPDATES

ASSUME LevelsAssumption == Levels \subseteq Nat /\ 0 \in Levels
ASSUME HandlersAssumption == IsFiniteSet(Handlers)
ASSUME BoundsAssumption == MaxUpdates \in Nat \ {0} /\ Page \in Nat \ {0}

VARIABLES
    log,            \* JobLog.updates
    cancel,         \* JobRecord.cancel
    active,         \* JobRecord.active
    activeJobs,     \* this job's share of BridgeState.active_jobs
    stored,         \* the record is in Storage.jobs
    worker,         \* where run_image_job or run_document_job stands
    draft,          \* what the worker is appending
    handler,        \* where each DELETE stands
    reader,         \* where each reader stands
    cursor,         \* the last sequence each reader has
    woken           \* a reader's Notified future has been notified

vars == <<log, cancel, active, activeJobs, stored, worker, draft, handler,
          reader, cursor, woken>>
flags == <<cancel, active, activeJobs, stored>>
readers == <<reader, cursor, woken>>

U == INSTANCE UpdateLog WITH Items <- Items, Levels <- Levels, log <- log

NoDraft == [kind |-> "none"]

WorkerPlaces == {"start", "running", "erred", "appending", "notifying",
                 "finish", "decrement", "over", "dead"}
HandlerPlaces == {"idle", "flagged", "notifying", "finish", "decrement", "evict", "over"}
ReaderPlaces == {"idle", "registered", "caughtUp", "waiting", "notFound"}

TypeOK ==
    /\ log \in Seq([sequence : Nat, draft : U!Drafts])
    /\ Len(log) <= MaxUpdates + 1
    /\ cancel \in BOOLEAN /\ active \in BOOLEAN /\ stored \in BOOLEAN
    /\ activeJobs \in 0..1
    /\ worker \in WorkerPlaces
    /\ draft \in U!Drafts \cup {NoDraft}
    /\ handler \in [Handlers -> HandlerPlaces]
    /\ reader \in [Readers -> ReaderPlaces]
    /\ cursor \in [Readers -> Nat]
    /\ \A r \in Readers : cursor[r] <= Len(log)
    /\ woken \in [Readers -> BOOLEAN]

\* reserve_job: the record is stored and counted with its Queued update.
Init ==
    /\ U!Init
    /\ cancel = FALSE
    /\ active = TRUE
    /\ activeJobs = 1
    /\ stored = TRUE
    /\ worker = "start"
    /\ draft = NoDraft
    /\ handler = [h \in Handlers |-> "idle"]
    /\ reader = [r \in Readers |-> "idle"]
    /\ cursor = [r \in Readers |-> 0]
    /\ woken = [r \in Readers |-> FALSE]

-----------------------------------------------------------------------------
(* JobRecord::append under the log's mutex *)

Full(d) == ~U!IsTerminal(d) /\ Len(log) >= MaxUpdates

\* Mutant: translated and preserved items are told apart.
RepeatsKind(d) ==
    d.kind \in U!ItemKinds /\ \E i \in DOMAIN log : log[i].draft = d

Repeats(d) == d.kind \in U!ItemKinds /\ U!Published(d.item)

Regresses(d) == d.kind = "progress" /\ ~U!Reached(d.overall)

\* Mutant: the log's own terminal flag is not consulted again.
RefusedUnlessFresh(d) == Full(d) \/ Regresses(d) \/ Repeats(d)

Refused(d) == U!Ended \/ Full(d) \/ Regresses(d) \/ Repeats(d)

Push(d) == log' = Append(log, [sequence |-> Len(log) + 1, draft |-> d])

\* Mutant: an append does not notify.
NobodyNotified == UNCHANGED woken

\* Mutant: the future is created only after the log was read.
NotifySleeping ==
    woken' = [r \in Readers |-> woken[r] \/ reader[r] = "waiting"]

\* The readers whose Notified future exists.
Listening == {"registered", "caughtUp", "waiting"}

\* notify_waiters: every Notified future created so far completes.
NotifyReaders ==
    woken' = [r \in Readers |-> woken[r] \/ reader[r] \in Listening]

-----------------------------------------------------------------------------
(* run_image_job and run_document_job *)

\* Cancelled before it starts; resources or source missing; or the pipeline
\* (or the replay of a cached result) begins.
Start ==
    /\ worker = "start"
    /\ IF cancel THEN worker' = "finish" ELSE worker' \in {"running", "erred"}
    /\ UNCHANGED <<log, flags, draft, handler, readers>>

\* The pipeline publishes: append first reads the cancel flag.
Publish ==
    /\ worker = "running"
    /\ \E d \in U!Drafts :
        /\ ~U!IsTerminal(d)
        /\ IF cancel THEN worker' = "erred" /\ UNCHANGED draft
           ELSE worker' = "appending" /\ draft' = d
    /\ UNCHANGED <<log, flags, handler, readers>>

\* A refused item or progress update fails the pipeline; a refused terminal
\* update is ignored.
AppendDraft ==
    /\ worker = "appending"
    /\ IF Refused(draft)
       THEN /\ worker' = IF U!IsTerminal(draft) THEN "finish" ELSE "erred"
            /\ UNCHANGED log
       ELSE Push(draft) /\ worker' = "notifying"
    /\ UNCHANGED <<flags, draft, handler, readers>>

Notify ==
    /\ worker = "notifying"
    /\ worker' = IF U!IsTerminal(draft) THEN "finish" ELSE "running"
    /\ draft' = NoDraft
    /\ NotifyReaders
    /\ UNCHANGED <<log, flags, handler, reader, cursor>>

\* Mutant: a failure is only logged by the daemon.
SilentOutcome(place, kind) ==
    /\ worker = place
    /\ IF cancel \/ U!Ended \/ kind = "failed"
       THEN worker' = "finish" /\ UNCHANGED draft
       ELSE worker' = "appending" /\ draft' = [kind |-> kind]
    /\ UNCHANGED <<log, flags, handler, readers>>

\* The outcome of the pipeline.  Complete, or fail_job's Failed, is published
\* unless the job is already cancelled or terminal; append reads the cancel
\* flag once more before it takes the mutex.
Outcome(place, kind) ==
    /\ worker = place
    /\ IF cancel \/ U!Ended
       THEN worker' = "finish" /\ UNCHANGED draft
       ELSE worker' = "appending" /\ draft' = [kind |-> kind]
    /\ UNCHANGED <<log, flags, handler, readers>>

PipelineOk == Outcome("running", "complete")

PipelineErr ==
    /\ worker = "running"
    /\ worker' = "erred"
    /\ UNCHANGED <<log, flags, draft, handler, readers>>

FailJob == Outcome("erred", "failed")

\* The spawned task panics (a poisoned model lock, a failed expect): nothing
\* after the await of the pipeline runs.
Panic ==
    /\ worker = "running"
    /\ worker' = "dead"
    /\ UNCHANGED <<log, flags, draft, handler, readers>>

\* Mutant: the flag is read and cleared without a swap, after the decision.
SwapLate == UNCHANGED active

\* finish_active: active.swap(false).
Swap == active' = FALSE

FinishWorker ==
    /\ worker = "finish"
    /\ worker' = IF active THEN "decrement" ELSE "over"
    /\ Swap
    /\ UNCHANGED <<log, cancel, activeJobs, stored, draft, handler, readers>>

\* active_jobs.fetch_sub(1), a usize that must not wrap.
DecrementWorker ==
    /\ worker = "decrement"
    /\ worker' = "over"
    /\ activeJobs' = activeJobs - 1
    /\ UNCHANGED <<log, cancel, active, stored, draft, handler, readers>>

-----------------------------------------------------------------------------
(* cancel_job *)

Go(h, place) == handler' = [handler EXCEPT ![h] = place]

\* find_job, then cancel.store(true).
Delete(h) ==
    /\ handler[h] = "idle"
    /\ stored
    /\ cancel' = TRUE
    /\ Go(h, "flagged")
    /\ UNCHANGED <<log, active, activeJobs, stored, worker, draft, readers>>

DeleteMissing(h) ==
    /\ handler[h] = "idle"
    /\ ~stored
    /\ Go(h, "over")
    /\ UNCHANGED <<log, flags, worker, draft, readers>>

\* The Cancelled update is refused when the log is terminal by now.
PublishCancelled(h) ==
    /\ handler[h] = "flagged"
    /\ IF U!Ended
       THEN Go(h, "finish") /\ UNCHANGED log
       ELSE Push([kind |-> "cancelled"]) /\ Go(h, "notifying")
    /\ UNCHANGED <<flags, worker, draft, readers>>

NotifyCancelled(h) ==
    /\ handler[h] = "notifying"
    /\ Go(h, "finish")
    /\ NotifyReaders
    /\ UNCHANGED <<log, flags, worker, draft, reader, cursor>>

\* Mutant: cancellation leaves the activity to the worker.
SkipFinish(h) ==
    /\ handler[h] = "finish"
    /\ Go(h, "evict")
    /\ UNCHANGED <<log, flags, worker, draft, readers>>

FinishHandler(h) ==
    /\ handler[h] = "finish"
    /\ Go(h, IF active THEN "decrement" ELSE "evict")
    /\ Swap
    /\ UNCHANGED <<log, cancel, activeJobs, stored, worker, draft, readers>>

DecrementHandler(h) ==
    /\ handler[h] = "decrement"
    /\ Go(h, "evict")
    /\ activeJobs' = activeJobs - 1
    /\ UNCHANGED <<log, cancel, active, stored, worker, draft, readers>>

EvictJob(h) ==
    /\ handler[h] = "evict"
    /\ stored' = FALSE
    /\ Go(h, "over")
    /\ UNCHANGED <<log, cancel, active, activeJobs, worker, draft, readers>>

\* Another job's reservation evicts this one once is_evictable holds.
EvictForRoom ==
    /\ stored /\ ~active /\ U!Ended
    /\ stored' = FALSE
    /\ UNCHANGED <<log, cancel, active, activeJobs, worker, draft, handler, readers>>

-----------------------------------------------------------------------------
(* job_updates *)

Turn(r, place) == reader' = [reader EXCEPT ![r] = place]

\* find_job, then the Notified future is created before the log is read.
Poll(r) ==
    /\ reader[r] = "idle"
    /\ cursor[r] = Len(log) => ~U!Ended     \* a reader that has the end is done
    /\ Turn(r, IF stored THEN "registered" ELSE "notFound")
    /\ woken' = [woken EXCEPT ![r] = FALSE]
    /\ UNCHANGED <<log, flags, worker, draft, handler, cursor>>

\* replay_after(cursor): one page of later updates, or an empty answer when
\* the log is terminal, or the wait.
Replay(r) ==
    /\ reader[r] = "registered"
    /\ IF cursor[r] < Len(log)
       THEN /\ cursor' = [cursor EXCEPT ![r] =
                            IF cursor[r] + Page < Len(log) THEN cursor[r] + Page
                            ELSE Len(log)]
            /\ Turn(r, "idle")
       ELSE Turn(r, IF U!Ended THEN "idle" ELSE "caughtUp") /\ UNCHANGED cursor
    /\ UNCHANGED <<log, flags, worker, draft, handler, woken>>

\* The mutex is released by now: updates may have come since the log was read.
Sleep(r) ==
    /\ reader[r] = "caughtUp"
    /\ Turn(r, "waiting")
    /\ UNCHANGED <<log, flags, worker, draft, handler, cursor, woken>>

\* Notified: around the loop, with a new future.
Wake(r) ==
    /\ reader[r] = "waiting" /\ woken[r]
    /\ Turn(r, "registered")
    /\ woken' = [woken EXCEPT ![r] = FALSE]
    /\ UNCHANGED <<log, flags, worker, draft, handler, cursor>>

\* The long poll's deadline: an empty answer that keeps the cursor.
Timeout(r) ==
    /\ reader[r] = "waiting"
    /\ Turn(r, "idle")
    /\ UNCHANGED <<log, flags, worker, draft, handler, cursor, woken>>

-----------------------------------------------------------------------------
PipelineStep == Publish \/ PipelineOk \/ PipelineErr
WorkerStep == Start \/ PipelineStep \/ AppendDraft \/ Notify \/ FailJob
                \/ FinishWorker \/ DecrementWorker
HandlerStep(h) == PublishCancelled(h) \/ NotifyCancelled(h) \/ FinishHandler(h)
                    \/ DecrementHandler(h) \/ EvictJob(h)
ReaderStep(r) == Poll(r) \/ Replay(r) \/ Sleep(r) \/ Wake(r)

Next ==
    \/ WorkerStep \/ Panic \/ EvictForRoom
    \/ \E h \in Handlers : Delete(h) \/ DeleteMissing(h) \/ HandlerStep(h)
    \/ \E r \in Readers : ReaderStep(r) \/ Timeout(r)

Spec == Init /\ [][Next]_vars

\* The runtime runs the worker, until it panics, and every handler and reader
\* that can run; the client polls again after each answer.  Nothing is assumed
\* of the 20 s deadline of a long poll, nor that any DELETE is sent.
LiveSpec ==
    /\ Spec
    /\ WF_vars(WorkerStep)
    /\ \A h \in Handlers : WF_vars(HandlerStep(h))
    /\ \A r \in Readers : WF_vars(ReaderStep(r))

-----------------------------------------------------------------------------
(* Properties *)

\* The daemon's log implements the stream its readers are promised: one
\* terminal update and nothing after it, although a worker publishing Complete
\* or Failed races every cancellation; one publication per item; sequences
\* without gaps; progress that never moves back.
ImplementsUpdateLog == U!Spec

\* The daemon's count of active jobs, which alone keeps it from shutting
\* down, covers this job exactly until one finish_active, of whichever of the
\* worker and the DELETE handlers comes first, has withdrawn it.
Withdrawing == {h \in Handlers : handler[h] = "decrement"}
ActivityCountedOnce ==
    activeJobs = (IF active THEN 1 ELSE 0) + Cardinality(Withdrawing)
                    + (IF worker = "decrement" THEN 1 ELSE 0)

\* Once a DELETE has gone past its publication, the log never changes again,
\* whatever the worker was about to append.
CancelledIsFinal ==
    [][(\E h \in Handlers : handler[h] \in {"finish", "decrement", "evict"})
            => UNCHANGED log]_vars

\* A reader that sleeps on a log with later updates has been notified or will
\* be by an append that has still to notify: no update waits for the long
\* poll's deadline.
NoLostWakeup ==
    \A r \in Readers :
        reader[r] = "waiting" /\ cursor[r] < Len(log) =>
            \/ woken[r]
            \/ worker = "notifying"
            \/ \E h \in Handlers : handler[h] = "notifying"

\* A job is only ever evicted with its terminal update in the log, so a reader
\* that found it can still read how it ended.
EvictedHasEnded == ~stored => U!Ended /\ ~active

\* A DELETE releases the daemon's activity although the worker has died.
CancelReleasesActivity == cancel ~> activeJobs = 0

\* Unless its worker panics, every job gets its terminal update and is no
\* longer counted, and every reader that keeps polling receives it, or finds
\* the job evicted.
Panicked == worker = "dead"
JobEnds == <>(Panicked \/ (U!Ended /\ activeJobs = 0))
ReaderSeesEnd ==
    \A r \in Readers : <>(\/ (U!Ended /\ cursor[r] = Len(log))
                          \/ reader[r] = "notFound"
                          \/ Panicked)

=============================================================================
