--------------------------- MODULE UpdateDelivery ---------------------------
(***************************************************************************)
(* One translation job as the Firefox extension sees it: the page's        *)
(* renderer that polls, installs and acknowledges updates (job-stream.ts), *)
(* the background's handlers, and the record they share in browser         *)
(* storage (background.ts, active-jobs.ts), with the daemon at the far     *)
(* end.  A handler is a chain of awaits: it reads the record, calls the    *)
(* daemon, and writes the record it read back, so every await is a step.   *)
(***************************************************************************)
EXTENDS Naturals, FiniteSetsExt

CONSTANTS
  Items,      \* items the job may publish before its terminal update
  Documents,  \* the page's documents: 1 is the first, each reload adds one
  Overlap     \* may a reload happen while the old document's poll is open?

ASSUME DeliveryAssumption ==
  /\ Items \in Nat \ {0}
  /\ Documents \in Nat \ {0}
  /\ Overlap \in BOOLEAN

VARIABLES
  daemon,   \* the daemon's side: the job and its log
  record,   \* the ActiveJobRecord in storage.local
  artifact, \* the PageArtifactRecord in storage.session
  page,     \* the renderer of the current document
  call,     \* per document, the handler its renderer awaits
  release,  \* per document and message, the cancelling handlers
  lost      \* ghost: a DELETE never reached the daemon
vars == <<daemon, record, artifact, page, call, release, lost>>

Gens == 1..Documents
Last == Items + 1                          \* the terminal update's sequence
NoRecord == [present |-> FALSE, acked |-> 0, delivered |-> 0, items |-> 0]
NoArtifact == [present |-> FALSE, items |-> 0]
NoCall == [pc |-> "none", seen |-> NoRecord, seq |-> 0, end |-> "no"]
\* job:cancel, jobs:cancel-page, tabs.onRemoved, and recover() of a changed source
Cancelling == {"job", "page", "tab", "recover"}
Running == {"streaming", "polling", "installing", "acking"}

Init ==
  /\ daemon = [job |-> "none", items |-> 0, ended |-> "no"]
  /\ record = NoRecord
  /\ artifact = NoArtifact
  /\ page = [gen |-> 1, phase |-> "fresh", after |-> 0, next |-> 0, end |-> "no"]
  /\ call = [g \in Gens |-> NoCall]
  /\ release = [g \in Gens |-> [c \in Cancelling |-> "idle"]]
  /\ lost = FALSE

(***************************************************************************)
(* The daemon: it publishes items and one terminal update; DELETE appends  *)
(* the cancellation and forgets the job; a restart forgets every job.      *)
(***************************************************************************)
Latest == daemon.items + (IF daemon.ended = "no" THEN 0 ELSE 1)
Working == daemon.job = "live" /\ daemon.ended = "no"

PublishItem ==
  /\ Working /\ daemon.items < Items
  /\ daemon' = [daemon EXCEPT !.items = @ + 1]
  /\ UNCHANGED <<record, artifact, page, call, release, lost>>

PublishEnd ==
  /\ Working
  /\ \E t \in {"complete", "failed"} : daemon' = [daemon EXCEPT !.ended = t]
  /\ UNCHANGED <<record, artifact, page, call, release, lost>>

Restart ==
  /\ daemon.job = "live"
  /\ daemon' = [daemon EXCEPT !.job = "gone", !.ended = "lost"]
  /\ UNCHANGED <<record, artifact, page, call, release, lost>>

Deleted ==
  IF daemon.job # "live" THEN daemon
  ELSE [daemon EXCEPT !.job = "gone", !.ended = IF @ = "no" THEN "cancelled" ELSE @]

\* releaseBackendJob: the request arrives, or fails on the way.
Delete ==
  \/ daemon' = Deleted /\ UNCHANGED lost
  \/ daemon.job = "live" /\ lost' = TRUE /\ UNCHANGED daemon

(***************************************************************************)
(* The page.  A reply reaches only the document that asked, and only while *)
(* its run is current.                                                     *)
(***************************************************************************)
Waits(g, phase) == page.gen = g /\ page.phase = phase
Open(g) == call[g].pc # "none" \/ \E c \in Cancelling : release[g][c] # "idle"
Busy == \E g \in Gens : Open(g)
Asks(g, pc, seq, end) == call' = [call EXCEPT ![g] = [NoCall EXCEPT !.pc = pc, !.seq = seq, !.end = end]]
Returns(g) == call' = [call EXCEPT ![g] = NoCall]
Goes(g, pc) == call' = [call EXCEPT ![g].pc = pc]
Sends(g, c) == release' = [release EXCEPT ![g][c] = IF @ = "idle" THEN "jobs" ELSE @]

\* The item fails: image-chapter-mode cancels the job it knows of.
Fails(g, phase, c) ==
  IF Waits(g, phase) THEN page' = [page EXCEPT !.phase = "failed"] /\ Sends(g, c)
  ELSE UNCHANGED <<page, release>>

Start ==
  /\ page.phase = "fresh"
  /\ page' = [page EXCEPT !.phase = "recovering"]
  /\ Asks(page.gen, "recover", 0, "no")
  /\ UNCHANGED <<daemon, record, artifact, release, lost>>

Poll ==
  /\ page.phase = "streaming"
  /\ page' = [page EXCEPT !.phase = "polling"]
  /\ Asks(page.gen, "poll", page.after, "no")
  /\ UNCHANGED <<daemon, record, artifact, release, lost>>

\* Every update of the batch is installed; then, and only then, acknowledged.
Install ==
  /\ page.phase = "installing"
  /\ page' = [page EXCEPT !.phase = "acking", !.after = page.next]
  /\ Asks(page.gen, "ack", page.next, page.end)
  /\ UNCHANGED <<daemon, record, artifact, release, lost>>

InstallFails ==
  /\ page.phase = "installing"
  /\ Fails(page.gen, "installing", "job")
  /\ UNCHANGED <<daemon, record, artifact, call, lost>>

CancelPage ==
  /\ page.phase \notin {"fresh", "cancelled", "closed"}
  /\ page' = [page EXCEPT !.phase = "cancelled"]
  /\ Sends(page.gen, "page")
  /\ UNCHANGED <<daemon, record, artifact, call, lost>>

CloseTab ==
  /\ page.phase # "closed"
  /\ page' = [page EXCEPT !.phase = "closed"]
  /\ Sends(page.gen, "tab")
  /\ UNCHANGED <<daemon, record, artifact, call, lost>>

\* The same page session in a new document; the background is told nothing.
\* Loading takes longer than a storage call, so what may still be open of the old
\* document is its long poll, which the daemon holds for up to twenty seconds.
Reload ==
  /\ page.phase # "closed" /\ page.gen < Documents
  /\ IF Overlap THEN \A g \in Gens : call[g].pc \in {"none", "wait"} ELSE ~Busy
  /\ page' = [gen |-> page.gen + 1, phase |-> "fresh", after |-> 0, next |-> 0, end |-> "no"]
  /\ UNCHANGED <<daemon, record, artifact, call, release, lost>>

(***************************************************************************)
(* The background: job:submit-*, jobs:recover.                             *)
(***************************************************************************)
\* The answer to jobs:recover.  Without a record the renderer submits: this job
\* if it was never created, otherwise another one, which is not followed here.
Unmatched(g) ==
  IF ~Waits(g, "recovering") THEN Returns(g) /\ UNCHANGED page
  ELSE IF daemon.job = "none" /\ \A h \in Gens : call[h].pc \notin {"create", "add"}
  THEN page' = [page EXCEPT !.phase = "submitting"] /\ Asks(g, "create", 0, "no")
  ELSE page' = [page EXCEPT !.phase = "other"] /\ Returns(g)

Recover(g) ==
  /\ call[g].pc = "recover"
  /\ \/ ~record.present /\ Unmatched(g) /\ UNCHANGED release
     \/ /\ record.present
        /\ call' = [call EXCEPT ![g].pc = "reset", ![g].seen = record]
        /\ UNCHANGED <<page, release>>
     \/ /\ record.present
        /\ release' = [release EXCEPT ![g]["recover"] = "delete"]
        /\ Returns(g)
        /\ UNCHANGED page
  /\ UNCHANGED <<daemon, record, artifact, lost>>

Reset(g) ==
  /\ call[g].pc = "reset"
  /\ record' = [call[g].seen EXCEPT !.acked = 0, !.delivered = 0]
  /\ page' = IF Waits(g, "recovering") THEN [page EXCEPT !.phase = "streaming"] ELSE page
  /\ Returns(g)
  /\ UNCHANGED <<daemon, artifact, release, lost>>

Create(g) ==
  /\ call[g].pc = "create"
  /\ \/ daemon' = [daemon EXCEPT !.job = "live"] /\ Goes(g, "add") /\ UNCHANGED page
     \/ /\ page' = IF Waits(g, "submitting") THEN [page EXCEPT !.phase = "failed"] ELSE page
        /\ Returns(g)
        /\ UNCHANGED daemon
  /\ UNCHANGED <<record, artifact, release, lost>>

\* A run that was cancelled meanwhile cancels the job it now learns of.
Add(g) ==
  /\ call[g].pc = "add"
  /\ record' = [NoRecord EXCEPT !.present = TRUE]
  /\ Returns(g)
  /\ page' = IF Waits(g, "submitting") THEN [page EXCEPT !.phase = "streaming"] ELSE page
  /\ IF Waits(g, "cancelled") THEN Sends(g, "job") ELSE UNCHANGED release
  /\ UNCHANGED <<daemon, artifact, lost>>

(***************************************************************************)
(* job:updates                                                             *)
(***************************************************************************)
ReadForPoll(g) ==
  /\ call[g].pc = "poll"
  /\ IF record.present /\ call[g].seq = record.acked
     THEN /\ call' = [call EXCEPT ![g].pc = "find", ![g].seen = record]
          /\ UNCHANGED <<page, release>>
     ELSE Returns(g) /\ Fails(g, "polling", "job")
  /\ UNCHANGED <<daemon, record, artifact, lost>>

Find(g) ==
  /\ call[g].pc = "find"
  /\ IF daemon.job = "live" THEN Goes(g, "wait") /\ UNCHANGED <<page, release>>
     ELSE Returns(g) /\ Fails(g, "polling", "job")
  /\ UNCHANGED <<daemon, record, artifact, lost>>

\* Mutant: the terminal update is held back.
ItemsAlone(after) == IF daemon.items > after THEN after + 1..daemon.items ELSE {after}
\* Where a batch after `after` may end.
Batches(after) == IF Latest > after THEN after + 1..Latest ELSE {after}

\* The long poll ends with a batch, empty at its timeout.
Answer(g) ==
  /\ call[g].pc = "wait"
  /\ IF daemon.ended = "lost" THEN Returns(g) /\ Fails(g, "polling", "job")
     ELSE \E n \in Batches(call[g].seq) :
            /\ call' = [call EXCEPT ![g].pc = "store", ![g].seq = n,
                                    ![g].end = IF n = Latest THEN daemon.ended ELSE "no"]
            /\ UNCHANGED <<page, release>>
  /\ UNCHANGED <<daemon, record, artifact, lost>>

\* The terminal update of a batch is no item.
ItemsUpTo(n, end) == IF end = "no" \/ n = 0 THEN n ELSE n - 1
\* Mutant: the batch's items are not added to the record's.
WithoutItems(seen, n, end) == [seen EXCEPT !.delivered = Max({@, n})]
\* Mutant: delivery counts as acknowledgement.
AckedOnDelivery(seen, n, end) ==
  [seen EXCEPT !.delivered = Max({@, n}), !.acked = n, !.items = Max({@, ItemsUpTo(n, end)})]
Delivered(seen, n, end) ==
  [seen EXCEPT !.delivered = Max({@, n}), !.items = Max({@, ItemsUpTo(n, end)})]

Store(g) ==
  /\ call[g].pc = "store"
  /\ record' = Delivered(call[g].seen, call[g].seq, call[g].end)
  /\ page' = IF ~Waits(g, "polling") THEN page
             ELSE IF call[g].seq = page.after THEN [page EXCEPT !.phase = "streaming"]
             ELSE [page EXCEPT !.phase = "installing", !.next = call[g].seq, !.end = call[g].end]
  /\ Returns(g)
  /\ UNCHANGED <<daemon, artifact, release, lost>>

(***************************************************************************)
(* job:ack                                                                 *)
(***************************************************************************)
InRange(g) ==
  /\ record.present
  /\ call[g].seq \in record.acked..record.delivered
  /\ call[g].end # "no" => call[g].seq = record.delivered

ReadForAck(g) ==
  /\ call[g].pc = "ack"
  /\ IF InRange(g)
     THEN /\ call' = [call EXCEPT ![g].seen = record,
                                  ![g].pc = IF call[g].end = "no" THEN "advance"
                                            ELSE IF call[g].end = "complete" /\ record.items > 0
                                            THEN "keep" ELSE "end"]
          /\ UNCHANGED <<page, release>>
     ELSE Returns(g) /\ Fails(g, "acking", "job")
  /\ UNCHANGED <<daemon, record, artifact, lost>>

Advance(g) ==
  /\ call[g].pc = "advance"
  /\ record' = [call[g].seen EXCEPT !.acked = call[g].seq]
  /\ page' = IF Waits(g, "acking") THEN [page EXCEPT !.phase = "streaming"] ELSE page
  /\ Returns(g)
  /\ UNCHANGED <<daemon, artifact, release, lost>>

\* Mutant: the artifact is not stored before the record is removed.
Dropped(seen) == artifact
Kept(seen) == [present |-> TRUE, items |-> seen.items]
Keep(g) ==
  /\ call[g].pc = "keep"
  /\ artifact' = Kept(call[g].seen)
  /\ Goes(g, "remove")
  /\ UNCHANGED <<daemon, record, page, release, lost>>

\* A DELETE that fails or finds no job throws: the record stays.
End(g) ==
  /\ call[g].pc = "end"
  /\ \/ /\ daemon.job = "live" /\ daemon' = Deleted
        /\ Goes(g, "remove")
        /\ UNCHANGED <<page, release>>
     \/ Returns(g) /\ Fails(g, "acking", "job") /\ UNCHANGED daemon
  /\ UNCHANGED <<record, artifact, lost>>

Remove(g) ==
  /\ call[g].pc = "remove"
  /\ record' = NoRecord
  /\ Returns(g)
  /\ IF call[g].end = "complete"
     THEN /\ page' = IF Waits(g, "acking") THEN [page EXCEPT !.phase = "done"] ELSE page
          /\ UNCHANGED release
     ELSE Fails(g, "acking", "job")
  /\ UNCHANGED <<daemon, artifact, lost>>

(***************************************************************************)
(* job:cancel, jobs:cancel-page and a closed tab: read the record, DELETE, *)
(* then remove both records; a page or tab also releases its artifacts.    *)
(***************************************************************************)
Moves(g, c, pc) == release' = [release EXCEPT ![g][c] = pc]

\* Mutant: a page cancel does not look at the artifacts.
ActiveOnly(c) == "idle"
Otherwise(c) == IF c = "job" THEN "idle" ELSE "artifacts"
ReadJobs(g, c) ==
  /\ release[g][c] = "jobs"
  /\ Moves(g, c, IF record.present THEN "delete" ELSE Otherwise(c))
  /\ UNCHANGED <<daemon, record, artifact, page, call, lost>>

ReadArtifacts(g, c) ==
  /\ release[g][c] = "artifacts"
  /\ Moves(g, c, IF artifact.present THEN "deleteKept" ELSE "idle")
  /\ UNCHANGED <<daemon, record, artifact, page, call, lost>>

Release(g, c) ==
  /\ release[g][c] \in {"delete", "deleteKept"}
  /\ Delete
  /\ Moves(g, c, IF release[g][c] = "delete" THEN "unlist" ELSE "drop")
  /\ UNCHANGED <<record, artifact, page, call>>

Unlist(g, c) ==
  /\ release[g][c] = "unlist"
  /\ record' = NoRecord
  /\ Moves(g, c, "drop")
  /\ UNCHANGED <<daemon, artifact, page, call, lost>>

Drop(g, c) ==
  /\ release[g][c] = "drop"
  /\ artifact' = NoArtifact
  /\ Moves(g, c, "idle")
  /\ page' = IF c = "recover" /\ Waits(g, "recovering") THEN [page EXCEPT !.phase = "other"] ELSE page
  /\ UNCHANGED <<daemon, record, call, lost>>

-----------------------------------------------------------------------------
Daemon == PublishItem \/ PublishEnd
Renderer == Start \/ Poll \/ Install
User == InstallFails \/ CancelPage \/ CloseTab \/ Reload
Handler(g) ==
  \/ Recover(g) \/ Reset(g) \/ Create(g) \/ Add(g)
  \/ ReadForPoll(g) \/ Find(g) \/ Answer(g) \/ Store(g)
  \/ ReadForAck(g) \/ Advance(g) \/ Keep(g) \/ End(g) \/ Remove(g)
Canceller(g, c) ==
  ReadJobs(g, c) \/ ReadArtifacts(g, c) \/ Release(g, c) \/ Unlist(g, c) \/ Drop(g, c)

Next ==
  \/ Daemon \/ Restart \/ Renderer \/ User
  \/ \E g \in Gens : Handler(g) \/ \E c \in Cancelling : Canceller(g, c)

\* The daemon works until its terminal update, the renderer's loop never waits
\* but for its message, and every await of a handler settles (the client gives
\* each request a timeout).  What the user does is never owed.
Spec ==
  /\ Init /\ [][Next]_vars
  /\ WF_vars(Daemon) /\ WF_vars(Renderer)
  /\ \A g \in Gens : WF_vars(Handler(g)) /\ \A c \in Cancelling : WF_vars(Canceller(g, c))

-----------------------------------------------------------------------------
Records == [present : BOOLEAN, acked : 0..Last, delivered : 0..Last, items : 0..Last]
Ends == {"no", "complete", "failed", "cancelled"}
TypeOK ==
  /\ daemon \in [job : {"none", "live", "gone"}, items : 0..Items, ended : Ends \cup {"lost"}]
  /\ record \in Records
  /\ artifact \in [present : BOOLEAN, items : 0..Last]
  /\ page \in [gen : Gens, after : 0..Last, next : 0..Last, end : Ends,
               phase : Running \cup {"fresh", "recovering", "submitting", "other", "done",
                                     "failed", "cancelled", "closed"}]
  /\ call \in [Gens -> [pc : {"none", "recover", "reset", "create", "add", "poll", "find",
                              "wait", "store", "ack", "advance", "keep", "end", "remove"},
                        seen : Records, seq : 0..Last, end : Ends]]
  /\ release \in [Gens -> [Cancelling -> {"idle", "jobs", "artifacts", "delete", "deleteKept",
                                         "unlist", "drop"}]]
  /\ lost \in BOOLEAN

(* The record's acknowledgement is what the current renderer has installed:  *)
(* `after` is the last page-installed acknowledgement, and a new renderer    *)
(* starts again at zero.                                                     *)
Between ==
  \/ page.phase \in {"streaming", "installing"}
  \/ page.phase = "polling" /\ call[page.gen].pc = "poll"
CursorsAgree == Between /\ record.present => record.acked = page.after

(* What the renderer installs, it may fetch patches and fonts for: the       *)
(* record, and once the job is complete the artifact that replaces it, owns  *)
(* every item delivered to this renderer.                                    *)
InstalledAreOwned ==
  /\ page.phase = "installing" /\ record.present => record.items >= ItemsUpTo(page.next, page.end)
  /\ page.phase = "done" /\ page.after > 1 => artifact.present /\ artifact.items >= page.after - 1

(* A job of the daemon is never forgotten by both stores, so a page cancel,  *)
(* a recovery or the closing of its tab can still release it, unless a       *)
(* DELETE failed.                                                            *)
NoOrphanJob ==
  daemon.job = "live" =>
    record.present \/ artifact.present \/ lost \/ \E g \in Gens : call[g].pc = "add"

(* A run that is cancelled releases its job for good, even when the job was  *)
(* still being created, unless a DELETE failed.                              *)
CancelReleases ==
  <>[](page.phase = "cancelled") => <>[](daemon.job # "live" \/ lost)

(* The poll, install and acknowledge loop comes to an end: a renderer does   *)
(* not poll for ever, however its calls interleave with cancellations.       *)
StreamSettles == page.phase \in Running ~> page.phase \notin Running

(* Cancellation invalidates ownership: once a cancelled or closed page's     *)
(* calls are over, storage holds nothing of it.                              *)
CancelledPageHoldsNothing ==
  page.phase \in {"cancelled", "closed"} /\ ~Busy => ~record.present /\ ~artifact.present
=============================================================================
