---------------------------- MODULE ImageChapter ----------------------------
(***************************************************************************)
(* The translation of an image chapter in a page of the browser: the mode  *)
(* that follows the page's images (image-chapter-mode.ts), its work queue  *)
(* (queue.ts), the state of each image (run-state.ts) and the runs the     *)
(* reader starts, cancels and restarts (chapter-run-controller.ts), with   *)
(* the background's half of a run's life (chapter-lifecycle.ts).           *)
(*                                                                         *)
(* The page is single-threaded: `page' holds what its code changes between *)
(* two awaits, and each call is a function of it.  A drain of the queue    *)
(* may start any pending item first (which image is visible is the page's  *)
(* business), so it gives a set of pages.                                  *)
(***************************************************************************)
EXTENDS Naturals, FiniteSetsExt

CONSTANTS
  Images,         \* images of the page, numbered in document order
  Revisions,      \* contents an image may have, one after the other
  MaxRuns,        \* runs the reader starts
  MaxEvents,      \* images added, removed or changed
  MaxConcurrent,  \* the queue's maximumConcurrent
  Processors      \* processors that may be under way, aborted ones included

ASSUME ImageChapterAssumption ==
  /\ {Images, Revisions, MaxRuns, MaxConcurrent, Processors} \subseteq Nat \ {0}
  /\ MaxEvents \in Nat
  /\ Processors > 2 * MaxConcurrent

VARIABLES
  page,      \* the content script's state
  start,     \* per run, where its start() is
  snapshot,  \* per run, the candidates start() recovers
  close,     \* runs whose chapter:cancel is on its way
  release,   \* runs whose jobs:cancel-page is asked for
  chapters,  \* the background's open chapters
  events     \* discovery events so far
vars == <<page, start, snapshot, close, release, chapters, events>>

Surfaces == 1..Images
Runs == 1..MaxRuns
Ids == Surfaces \X (1..Revisions)   \* candidateKey: the element and its source
Slots == 1..Processors
Idle == [at |-> "idle", id |-> <<0, 0>>, run |-> 0, index |-> 0, aborted |-> FALSE,
         job |-> FALSE]

\* The images present when the content script is injected get their indexes
\* in document order.
Rank(S, s) == Cardinality({t \in S : t <= s})

Init ==
  /\ \E S \in SUBSET Surfaces :
       page = [present |-> S, rev |-> [s \in Surfaces |-> 1],
               run |-> 0, phase |-> "idle", scoped |-> FALSE, timer |-> "none",
               pending |-> {}, failedIds |-> {}, active |-> [id \in Ids |-> 0], stopped |-> FALSE,
               queueId |-> [s \in Surfaces |-> 0], runState |-> [s \in Surfaces |-> "none"],
               index |-> [s \in Surfaces |-> IF s \in S THEN Rank(S, s) ELSE 0],
               order |-> {Rank(S, s) : s \in S},
               submitted |-> {}, submitting |-> {},
               slots |-> [k \in Slots |-> Idle], left |-> {}]
  /\ start = [n \in Runs |-> "none"]
  /\ snapshot = [n \in Runs |-> {}]
  /\ close = {} /\ release = {} /\ chapters = {} /\ events = 0

(***************************************************************************)
(* Calls within the page.                                                  *)
(***************************************************************************)
IsRunning(p) == p.phase \in {"running", "attention", "complete"}
Current(p, n) == IsRunning(p) /\ p.run = n
Released(p) == p.phase \in {"cancelled", "failed"}   \* releasing || pageReleased
IsPresent(p, id) == id[1] \in p.present /\ p.rev[id[1]] = id[2]

\* assertCurrent of the candidate, its source and the item's signal
Valid(p, k) == Current(p, p.slots[k].run) /\ ~p.slots[k].aborted /\ IsPresent(p, p.slots[k].id)

Aborted(p) == {k \in Slots : p.slots[k].at # "idle" /\ p.slots[k].aborted}
Running(p) == {id \in Ids : p.active[id] # 0 /\ p.active[id] \notin Aborted(p)}
QueueEmpty(p) == p.pending = {} /\ Running(p) = {}

\* update() reopens a settled run.
Update(p) == [p EXCEPT !.phase = IF IsRunning(p) THEN "running" ELSE @]

ScheduleFinish(p) ==
  IF p.scoped /\ p.phase \notin {"cancelled", "complete"} /\ QueueEmpty(p) /\ p.timer = "none"
  THEN [p EXCEPT !.timer = "set"] ELSE p

Assigned(p, S) ==
  LET new == {s \in S : p.index[s] = 0}
      old == Cardinality({s \in Surfaces : p.index[s] # 0})
  IN  [p EXCEPT !.index = [s \in Surfaces |-> IF s \in new THEN old + Rank(new, s) ELSE @[s]]]

\* canonicalSourceIndex of every image of S: an index for life, and a place
\* in chapterSourceOrder, which lists the live indexes in document order.
Included(p, S) ==
  LET q == Assigned(p, S) IN [q EXCEPT !.order = @ \cup {q.index[s] : s \in S}]

\* The first, synchronous part of process().
Begun(p, id) ==
  [Idle EXCEPT !.id = id, !.run = p.run,
     !.index = IF IsRunning(p) THEN p.index[id[1]] ELSE 0,
     !.at = IF IsRunning(p) /\ IsPresent(p, id) THEN "opening" ELSE "ending"]

\* Items X leave the queue for the processors K.
Started(p, X, K) ==
  LET of == CHOOSE f \in [X -> K] : \A x, y \in X : x # y => f[x] # f[y]
      item(k) == CHOOSE x \in X : of[x] = k
      q == IF IsRunning(p) THEN Included(p, {id[1] : id \in X}) ELSE p
  IN  IF X = {} THEN p ELSE
      [q EXCEPT !.pending = @ \ X, !.timer = "none",
         !.active = [id \in Ids |-> IF id \in X THEN of[id] ELSE @[id]],
         !.slots = [k \in Slots |-> IF k \in K THEN Begun(p, item(k)) ELSE @[k]],
         !.runState = [s \in Surfaces |-> IF \E id \in X : id[1] = s THEN "running" ELSE @[s]]]

\* drain, of each page of a set: as many pending items as there is room for.
Room(p) ==
  IF p.stopped THEN 0 ELSE
  LET room == MaxConcurrent - Cardinality(Running(p))
  IN  IF room < Cardinality(p.pending) THEN room ELSE Cardinality(p.pending)

Starts(p) ==
  {Started(p, X, K) : X \in kSubset(Room(p), p.pending),
                      K \in {CHOOSE J \in kSubset(Room(p), {k \in Slots : p.slots[k].at = "idle"}) : TRUE}}

Drained(P) ==
  {IF ~p.stopped /\ QueueEmpty(p) THEN ScheduleFinish(p) ELSE p : p \in UNION {Starts(q) : q \in P}}

\* enqueue of a set of candidates: an image that is known already is left alone.
Enqueued(p, Q) ==
  LET wanted == {id \in Q : /\ p.phase # "complete"
                            /\ p.runState[id[1]] = "none" /\ p.queueId[id[1]] = 0}
      taken == wanted \ (p.failedIds \cup p.pending \cup Running(p))
      q == Included(p, {id[1] : id \in wanted})
      key(s) == CHOOSE id \in taken : id[1] = s
      Taken == {id[1] : id \in taken}
  IN  [q EXCEPT !.pending = @ \cup taken,
         !.timer = IF wanted = {} THEN @ ELSE "none",
         !.stopped = @ /\ taken = {},
         !.queueId = [s \in Surfaces |-> IF s \in Taken THEN key(s)[2] ELSE @[s]],
         !.runState = [s \in Surfaces |-> IF s \in Taken THEN "queued" ELSE @[s]]]

EnqueuedOne(p, id) ==
  LET q == Enqueued(p, {id}) IN IF q.pending = p.pending THEN {q} ELSE Drained({q})

\* abort() of the processors K; one that knows its job cancels it, and a
\* job:cancel that was sent counts as delivered: nothing here waits for it.
Abort(p, K, silent) ==
  [p EXCEPT !.slots = [k \in Slots |->
     IF k \notin K \/ @[k].aborted THEN @[k]
     ELSE [@[k] EXCEPT !.aborted = TRUE,
             !.job = p.slots[k].job /\ (silent \/ p.slots[k].at = "created")]]]

ActiveSlots(p, I) == {p.active[id] : id \in I} \ {0}

\* removeTracked
Removed(p, s) ==
  LET id == <<s, p.queueId[s]>>
      known == p.queueId[s] # 0
      drops == p.runState[s] # "running" /\ p.index[s] \notin p.submitted \cup p.submitting
      q == IF known THEN Abort(p, ActiveSlots(p, {id}), Released(p)) ELSE p
      r == [q EXCEPT !.order = IF drops THEN @ \ {p.index[s]} ELSE @,
                     !.pending = @ \ {id}, !.failedIds = @ \ {id},
                     !.queueId[s] = 0, !.runState[s] = "none"]
  IN  IF known \/ p.runState[s] # "none" THEN ScheduleFinish(r) ELSE r

\* restoreAll: every abort comes while the run is being released.
RestoreAll(p) ==
  LET q == Abort(p, ActiveSlots(p, Ids), TRUE)
  IN  [q EXCEPT !.timer = "none", !.stopped = TRUE, !.pending = {}, !.failedIds = {},
         !.queueId = [s \in Surfaces |-> 0], !.runState = [s \in Surfaces |-> "none"],
         !.index = [s \in Surfaces |-> 0], !.order = {}, !.submitted = {}, !.submitting = {}]

\* finish() of the mode and of the controller
Settled(p) ==
  LET found == {p.runState[s] : s \in Surfaces} \ {"none"}
  IN  [p EXCEPT !.phase = IF ~IsRunning(p) THEN @ ELSE IF found = {"complete"} THEN "complete" ELSE "attention"]

Finish(p) ==
  IF \E s \in Surfaces : p.runState[s] \in {"queued", "running"}
  THEN ScheduleFinish(Update(p)) ELSE Settled(p)

(***************************************************************************)
(* The runs.  Every abort leaves room for the processors the queue may     *)
(* start while the aborted ones are still under way (Processors).          *)
(***************************************************************************)
Spare == Cardinality(Aborted(page)) + 2 * MaxConcurrent <= Processors

\* closeChapter and releaseCurrentPage, once for each run
Closes ==
  LET ended == IF IsRunning(page) THEN {page.run} ELSE {}
  IN  close' = close \cup ended /\ release' = release \cup ended

StartRun ==
  /\ page.run < MaxRuns /\ Spare
  /\ LET n == page.run + 1
         prior == IF page.run = 0 THEN page ELSE RestoreAll(page)
     IN  /\ page' = [prior EXCEPT !.run = n, !.phase = "running", !.scoped = FALSE]
         /\ start' = [start EXCEPT ![n] = IF page.run = 0 THEN "opening"
                                          ELSE IF IsRunning(page) THEN "closing" ELSE "closingReleased"]
         /\ close' = IF IsRunning(page) THEN close \cup {page.run} ELSE close
  /\ UNCHANGED <<snapshot, release, chapters, events>>

\* The old chapter is closed, its jobs are cancelled unless they were already,
\* and a run that is still current opens its own chapter.
AwaitClose(n) ==
  /\ start[n] \in {"closing", "closingReleased"} /\ n - 1 \notin close
  /\ IF start[n] = "closing"
     THEN /\ release' = release \cup {n - 1}
          /\ start' = [start EXCEPT ![n] = "releasing"]
     ELSE /\ start' = [start EXCEPT ![n] = IF Current(page, n) THEN "opening" ELSE "over"]
          /\ UNCHANGED release
  /\ UNCHANGED <<page, snapshot, close, chapters, events>>

AwaitRelease(n) ==
  /\ start[n] = "releasing" /\ n - 1 \notin release
  /\ start' = [start EXCEPT ![n] = IF Current(page, n) THEN "opening" ELSE "over"]
  /\ UNCHANGED <<page, snapshot, close, release, chapters, events>>

OpenChapter(n) ==
  /\ start[n] = "opening"
  /\ start' = [start EXCEPT ![n] = "opened"] /\ chapters' = chapters \cup {n}
  /\ UNCHANGED <<page, snapshot, close, release, events>>

\* The candidates are the images of this moment; with none the run settles.
Opened(n) ==
  /\ start[n] = "opened"
  /\ IF ~Current(page, n) THEN start' = [start EXCEPT ![n] = "over"] /\ UNCHANGED <<page, snapshot>>
     ELSE \E p \in {Included([page EXCEPT !.scoped = TRUE, !.timer = "none",
                                          !.runState = [s \in Surfaces |-> "none"]], page.present)} :
            IF p.present = {}
            THEN page' = Settled(p) /\ start' = [start EXCEPT ![n] = "over"] /\ UNCHANGED snapshot
            ELSE /\ page' = p /\ start' = [start EXCEPT ![n] = "recovering"]
                 /\ snapshot' = [snapshot EXCEPT ![n] = {<<s, p.rev[s]>> : s \in p.present}]
  /\ UNCHANGED <<close, release, chapters, events>>

\* The answer to jobs:recover, of a background that has no job to recover:
\* the candidates enter the queue as one batch.
Recovered(n) ==
  /\ start[n] = "recovering"
  /\ start' = [start EXCEPT ![n] = "over"] /\ snapshot' = [snapshot EXCEPT ![n] = {}]
  /\ IF ~Current(page, n) THEN UNCHANGED page
     ELSE \E p \in Drained({Enqueued(q, snapshot[n]) : q \in {Included(page, {id[1] : id \in snapshot[n]})}}) :
            page' = Update(p)
  /\ UNCHANGED <<close, release, chapters, events>>

\* chapter:start or jobs:recover fails: run.fail(), for whichever run is on.
StartFails(n) ==
  /\ start[n] \in {"opening", "recovering"}
  /\ start' = [start EXCEPT ![n] = "over"] /\ snapshot' = [snapshot EXCEPT ![n] = {}]
  /\ page' = [RestoreAll(page) EXCEPT !.phase = "failed", !.scoped = @ /\ start[n] = "opening"]
  /\ Closes
  /\ UNCHANGED <<chapters, events>>

Cancel ==
  /\ IsRunning(page) /\ Spare
  /\ page' = [RestoreAll(page) EXCEPT !.phase = "cancelled"]
  /\ Closes
  /\ UNCHANGED <<start, snapshot, chapters, events>>

(***************************************************************************)
(* The background's half.  Messages of one page arrive in order, so a      *)
(* chapter is closed after the chapter:start sent before.                  *)
(***************************************************************************)
CloseChapter(n) ==
  /\ n \in close /\ start[n] # "opening"
  /\ close' = close \ {n} /\ chapters' = chapters \ {n}
  /\ UNCHANGED <<page, start, snapshot, release, events>>

\* jobs:cancel-page waits for the close, and ends the jobs recorded by now.
CancelPage(n) ==
  /\ n \in release \ close
  /\ release' = release \ {n} /\ chapters' = chapters \ {n}
  /\ page' = [page EXCEPT !.slots = [k \in Slots |-> IF @[k].run = n THEN [@[k] EXCEPT !.job = FALSE] ELSE @[k]],
                          !.left = @ \ {n}]
  /\ UNCHANGED <<start, snapshot, close, events>>

(***************************************************************************)
(* The processors, from one await to the next.                             *)
(***************************************************************************)
Only(p) == page' = p /\ UNCHANGED <<start, snapshot, close, release, chapters, events>>
At(k) == page.slots[k].at

\* The entry of an item goes with the controller that made it.
\* Mutant: finally deletes the entry of its id, whoever made it.
ForgottenById(p, k) == [p EXCEPT !.active = [id \in Ids |-> IF id = p.slots[k].id THEN 0 ELSE @[id]], !.slots[k] = Idle]

Forgotten(p, k) ==
  [p EXCEPT !.active = [id \in Ids |-> IF @[id] = k THEN 0 ELSE @[id]], !.slots[k] = Idle]

\* The catch of process(): its job is cancelled unless the page was released,
\* and a page that was never submitted leaves the order.
Caught(p, k) ==
  LET w == p.slots[k]
  IN  [p EXCEPT !.order = IF w.index \in p.submitted \cup p.submitting THEN @ ELSE @ \ {w.index},
                !.left = IF w.job /\ Released(p) THEN @ \cup {w.run} ELSE @]

\* Mutant: an aborted item fails like any other.
OnAnyFailure(p, k) ==
  LET w == p.slots[k]
  IN  ScheduleFinish([Forgotten(p, k) EXCEPT !.failedIds = @ \cup {w.id}, !.runState[w.id[1]] = "failed"])

OnFailure(p, k) ==
  LET w == p.slots[k]
  IN  IF w.aborted THEN p
      ELSE ScheduleFinish([Forgotten(p, k) EXCEPT !.failedIds = @ \cup {w.id}, !.runState[w.id[1]] = "failed"])

\* Mutant: finally drains the queue for items that were not aborted.
FailsUndrained(p, k) ==
  \E caught \in {Caught(p, k)} : \E failed \in {OnFailure(caught, k)} :
    IF p.slots[k].aborted THEN Only(Forgotten(failed, k))
    ELSE \E q \in Drained({Forgotten(failed, k)}) : Only(q)

\* The processor ends with an error: catch, onFailure, then finally.
Fails(p, k) ==
  \E caught \in {Caught(p, k)} : \E failed \in {OnFailure(caught, k)} :
    \E q \in Drained({Forgotten(failed, k)}) : Only(q)

\* parseImageSubmit takes a strictly increasing order that has the page.
Accepted(p, i) ==
  /\ i \in p.order
  /\ \A s, t \in Surfaces :
       s < t /\ {p.index[s], p.index[t]} \subseteq p.order => p.index[s] < p.index[t]

\* The image is open; its index and the order are sent.
Submit(k) ==
  /\ At(k) = "opening"
  /\ IF Valid(page, k)
     THEN Only([page EXCEPT !.submitting = @ \cup {page.slots[k].index},
                  !.slots[k].at = IF Accepted(page, page.slots[k].index) THEN "sent" ELSE "refused"])
     ELSE Fails(page, k)

\* The background records the job under the page's session.
Create(k) ==
  /\ At(k) = "sent"
  /\ Only([page EXCEPT !.slots[k].at = "created", !.slots[k].job = TRUE])

Unsubmitting(k) == [page EXCEPT !.submitting = @ \ {page.slots[k].index}]
Denied(k) == At(k) \in {"refused", "sent"} /\ Fails(Unsubmitting(k), k)

\* Mutant: a job that comes too late is left to the page-wide cancellation.
CreatedLate(k) ==
  /\ At(k) = "created"
  /\ LET p == [Unsubmitting(k) EXCEPT !.submitted = @ \cup {page.slots[k].index}]
     IN  IF Valid(page, k) THEN Only([p EXCEPT !.slots[k].at = "streaming"])
         ELSE Fails(IF Current(page, page.slots[k].run) THEN p ELSE Unsubmitting(k), k)

\* registerJob: the job of a run that is over is cancelled here.
Created(k) ==
  /\ At(k) = "created"
  /\ LET w == page.slots[k]
         p == [Unsubmitting(k) EXCEPT !.submitted = @ \cup {w.index}]
     IN  IF Valid(page, k) THEN Only([p EXCEPT !.slots[k].at = "streaming"])
         ELSE IF Current(page, w.run) THEN Fails(p, k)
         ELSE Fails([Unsubmitting(k) EXCEPT !.slots[k].job = FALSE], k)

\* A progress update reopens a settled run.
Progress(k) ==
  /\ At(k) = "streaming" /\ Valid(page, k) /\ page.phase # "running"
  /\ Only(Update(page))

\* The stream ends: with everything translated, with a job that ended in
\* part or failed, or with an error of the page's own, the job still open.
EndStream(k) ==
  /\ At(k) = "streaming"
  /\ \/ Only([page EXCEPT !.slots[k].at = "ending"])
     \/ /\ Valid(page, k)
        /\ \E at \in {"stopping", "ending"} : Only([page EXCEPT !.slots[k].at = at, !.slots[k].job = FALSE])

\* viewportReporter.stop() has been awaited: after a complete stream, onSuccess.
Stop(k) ==
  /\ At(k) = "stopping"
  /\ IF Valid(page, k)
     THEN LET s == page.slots[k].id[1]
          IN  \E p \in Drained({[Forgotten(page, k) EXCEPT !.queueId[s] = 0, !.runState[s] = "complete"]}) : Only(p)
     ELSE Fails(page, k)

\* ... and after any other.
Fail(k) == At(k) = "ending" /\ Fails(page, k)

(***************************************************************************)
(* The settle timer, the reader's retry, and the images that come, go or   *)
(* change.                                                                 *)
(***************************************************************************)
Settle ==
  /\ page.timer # "none"
  /\ LET p == [page EXCEPT !.timer = "none"]
     IN  page' = IF ~p.scoped \/ p.phase \in {"cancelled", "complete"} \/ ~QueueEmpty(p) THEN p
                 ELSE IF page.timer = "changed" THEN ScheduleFinish(p) ELSE Finish(p)
  /\ UNCHANGED <<start, snapshot, close, release, chapters, events>>

\* An image that is no longer there fails again at once.
Retry(s) ==
  /\ page.runState[s] = "failed" /\ Spare
  /\ LET id == <<s, page.queueId[s]>>
         p == [page EXCEPT !.failedIds = @ \ {id}, !.pending = @ \cup {id},
                 !.runState[s] = "queued", !.stopped = FALSE]
     IN  /\ s \in page.present /\ id \in page.failedIds
         /\ \E q \in Drained({p}) : page' = Update(q)
  /\ UNCHANGED <<start, snapshot, close, release, chapters, events>>

Event == events < MaxEvents /\ Spare /\ events' = events + 1
Changed(p) == [p EXCEPT !.timer = IF @ = "none" THEN @ ELSE "changed"]
Follows(p) == p.scoped /\ p.phase # "cancelled"
Takes(p, s) == IF Follows(p) /\ p.runState[s] # "failed" THEN EnqueuedOne(p, <<s, p.rev[s]>>) ELSE {p}

ImageAdded(s) ==
  /\ s \notin page.present /\ Event
  /\ page' \in Takes(Included(Changed([page EXCEPT !.present = @ \cup {s}]), {s}), s)
  /\ UNCHANGED <<start, snapshot, close, release, chapters>>

ImageRemoved(s) ==
  /\ s \in page.present /\ Event
  /\ page' = Removed(Changed([page EXCEPT !.present = @ \ {s}]), s)
  /\ UNCHANGED <<start, snapshot, close, release, chapters>>

ImageUpdated(s) ==
  /\ s \in page.present /\ page.rev[s] < Revisions /\ Event
  /\ page' \in Takes(Removed(Included(Changed([page EXCEPT !.rev[s] = @ + 1]), {s}), s), s)
  /\ UNCHANGED <<start, snapshot, close, release, chapters>>

Processor(k) ==
  Submit(k) \/ Create(k) \/ Denied(k) \/ Created(k) \/ EndStream(k) \/ Stop(k) \/ Fail(k)

Starting(n) ==
  AwaitClose(n) \/ AwaitRelease(n) \/ OpenChapter(n) \/ Opened(n) \/ Recovered(n) \/ StartFails(n)

Next ==
  \/ StartRun \/ Cancel \/ Settle
  \/ \E n \in Runs : Starting(n) \/ CloseChapter(n) \/ CancelPage(n)
  \/ \E k \in Slots : Processor(k) \/ Progress(k)
  \/ \E s \in Surfaces : Retry(s) \/ ImageAdded(s) \/ ImageRemoved(s) \/ ImageUpdated(s)

\* Awaits are answered, jobs end and the timer fires.  Nobody has to start,
\* cancel or retry, and images need not change.
Fairness ==
  /\ WF_vars(Settle)
  /\ \A n \in Runs : /\ WF_vars(Starting(n)) /\ WF_vars(CloseChapter(n)) /\ WF_vars(CancelPage(n))
  /\ \A k \in Slots : WF_vars(Processor(k))

Spec == Init /\ [][Next]_vars /\ Fairness

(***************************************************************************)
(* Properties.                                                             *)
(***************************************************************************)

\* No image is stuck: one that waits is in the queue under its key, and one
\* that runs has a processor under way that nobody aborted.  The run state,
\* the queue and the keys are three maps that every path updates by hand.
Queued(s) == page.runState[s] = "queued" /\ <<s, page.queueId[s]>> \in page.pending
Served(s) == page.runState[s] = "running" /\ <<s, page.queueId[s]>> \in Running(page)
NoStuckImage ==
  /\ \A s \in Surfaces : page.runState[s] \in {"queued", "running"} => Queued(s) \/ Served(s)
  /\ \A id \in page.pending : page.queueId[id[1]] = id[2] /\ page.runState[id[1]] = "queued"
  /\ \A id \in Running(page) : /\ page.queueId[id[1]] = id[2] /\ page.runState[id[1]] = "running"
                               /\ page.slots[page.active[id]].id = id

\* An aborted processor goes on to its end, next to the item that took its
\* place or in the middle of a later run.  Its steps never change an image,
\* the item's entry or the run; they may at most let the queue start another.
AbortedIsInert ==
  [][\A k \in Slots :
       page.slots[k].aborted /\ page'.slots[k].at # page.slots[k].at =>
         /\ page'.phase = page.phase /\ page'.failedIds = page.failedIds
         /\ page'.queueId = page.queueId
         /\ \A s \in Surfaces : page'.runState[s] # page.runState[s] =>
              page.runState[s] = "queued" /\ page'.runState[s] = "running"]_vars

\* Whatever a run opened is let go once it has ended or was replaced: jobs
\* that were being created when it was cancelled, and its chapter.
Over(n) == page.run > n \/ (page.run = n /\ Released(page))
Holds(n) ==
  \/ n \in chapters \cup page.left
  \/ \E k \in Slots : page.slots[k].run = n /\ page.slots[k].job
EndedRunReleased == []<>(\A n \in Runs : Over(n) => ~Holds(n))

\* The queue serves every image it took: one that waits, or is being
\* processed, is translated or fails, unless it is removed or the run ends.
\* A removal aborts without draining; the aborted processor drains later.
ImageSettles ==
  \A s \in Surfaces : page.runState[s] \in {"queued", "running"} ~> page.runState[s] \notin {"queued", "running"}

\* "The HUD says all discovered content is processed": a run that is shown as
\* complete has no image left in the page that it did not translate.
CompleteIsProcessed ==
  page.phase = "complete" => \A s \in page.present : page.runState[s] = "complete"

\* A page that is submitted is submitted in an order the background accepts.
SubmissionAccepted == \A k \in Slots : page.slots[k].at # "refused"
=============================================================================
