----------------------------- MODULE ResultCache -----------------------------
(***************************************************************************)
(* The persistent result cache of the daemon (result_cache.rs) and the     *)
(* jobs that read and fill it (server.rs: create_job, create_document_job, *)
(* run_image_job, run_document_job).  Lookups and invalidations run on     *)
(* blocking threads; one writer thread, behind a channel of two, stores    *)
(* and prunes.  A restart forgets the channel and the index but no file.   *)
(*                                                                         *)
(* A key stands for one source revision with its settings and context.     *)
(***************************************************************************)
EXTENDS Naturals, Sequences, FiniteSetsExt

CONSTANTS
    Jobs,           \* browser jobs, each created once
    Keys,           \* cache keys
    DocumentKeys,   \* the keys of document sources; the others are images
    Items,          \* text regions or blocks of each source
    Weight,         \* bytes of one stored item of each key
    MaxCacheBytes,  \* RESULT_CACHE_MAX_BYTES
    MaxEntryBytes,  \* RESULT_CACHE_MAX_ENTRY_BYTES
    MaxFaults       \* bound on restarts and damaged files together

ASSUME KeysAssumption ==
    DocumentKeys \subseteq Keys /\ Weight \in [Keys -> Nat \ {0}] /\ IsFiniteSet(Items)
ASSUME CacheBoundsAssumption ==
    MaxCacheBytes \in Nat /\ MaxEntryBytes \in Nat /\ MaxFaults \in Nat

VARIABLES
    files,      \* the entry of each key on disk
    index,      \* CacheIndex: size and age of the files it knows of
    scanned,    \* the index has been read from the directory
    queue,      \* the writer's channel
    written,    \* the key the writer has just persisted, not yet pruned
    stage,      \* where each job stands
    key,        \* the source of each job
    retry,      \* its retryItemIds
    result,     \* what it is answered from the cache
    clock,      \* age of the newest file
    faults

cacheVars == <<files, index, scanned, queue, written, stage, key, retry, result, clock,
               faults>>
request == <<key, retry>>
writer  == <<index, scanned, queue, written, clock>>

Outcomes == {"ready", "excluded", "unreadable"}
Results  == UNION {[S -> Outcomes] : S \in SUBSET Items}

NoFile  == [kind |-> "none"]
Idle    == [kind |-> "idle"]
File    == [kind : {"result", "damaged"}, items : Results, bytes : Nat, modified : Nat]
Task    == [key : Keys, retry : SUBSET Items, items : Results]
Channel == 2

ASSUME IdleAssumption == Idle \notin Keys

CacheTypeOK ==
    /\ files \in [Keys -> File \cup {NoFile}]
    /\ DOMAIN index \subseteq Keys
    /\ \A k \in DOMAIN index : index[k] \in [bytes : Nat, modified : Nat]
    /\ scanned \in BOOLEAN
    /\ queue \in Seq(Task) /\ Len(queue) <= Channel
    /\ written \in Keys \cup {Idle}
    /\ stage \in [Jobs -> {"new", "bad", "running", "cached", "over"}]
    /\ key \in [Jobs -> Keys]
    /\ retry \in [Jobs -> SUBSET Items]
    /\ result \in [Jobs -> Results]
    /\ clock \in Nat /\ faults \in 0..MaxFaults

Nothing == [k \in {} |-> {}]

CacheInit ==
    /\ files = [k \in Keys |-> NoFile]
    /\ index = Nothing
    /\ scanned = FALSE
    /\ queue = <<>>
    /\ written = Idle
    /\ stage = [j \in Jobs |-> "new"]
    /\ key \in [Jobs -> Keys]
    /\ retry \in [Jobs -> SUBSET Items]
    /\ result = [j \in Jobs |-> Nothing]
    /\ clock = 0
    /\ faults = 0

On(k) == files[k] # NoFile
IsDocument(k) == k \in DocumentKeys
Proceed(j, to) == stage' = [stage EXCEPT ![j] = to]

-----------------------------------------------------------------------------
(* Creating a job *)

\* validate_against for documents; an image entry has no item list to meet.
Valid(k, items) == IsDocument(k) => DOMAIN items = Items

Readable(k) == files[k].kind = "result" /\ Valid(k, files[k].items)

\* Only a full request is answered from the cache, and only with an entry that
\* leaves nothing to retry.
Replayable(j, items) ==
    /\ retry[j] = {}
    /\ \A i \in DOMAIN items :
        items[i] = "ready" \/ (items[i] = "excluded" /\ ~IsDocument(key[j]))

\* load_image or load_document on a blocking thread.
Load(j) ==
    /\ stage[j] = "new"
    /\ IF ~On(key[j]) THEN Proceed(j, "running") /\ UNCHANGED result
       ELSE IF ~Readable(key[j]) THEN Proceed(j, "bad") /\ UNCHANGED result
       ELSE IF Replayable(j, files[key[j]].items)
       THEN /\ Proceed(j, "cached")
            /\ result' = [result EXCEPT ![j] = files[key[j]].items]
       ELSE Proceed(j, "running") /\ UNCHANGED result
    /\ UNCHANGED <<files, writer, request, faults>>

\* A failed load removes whatever the key's file is by now, and the index
\* keeps its entry.
Invalidate(j) ==
    /\ stage[j] = "bad"
    /\ files' = [files EXCEPT ![key[j]] = NoFile]
    /\ Proceed(j, "running")
    /\ UNCHANGED <<writer, request, result, faults>>

-----------------------------------------------------------------------------
(* Running a job *)

\* A retry publishes the requested items alone.
Requested(j) == IF retry[j] = {} THEN Items ELSE retry[j]

\* try_send: a full channel drops the result.
Send(task) == queue' = IF Len(queue) < Channel THEN Append(queue, task) ELSE queue

\* The pipeline succeeds, and the published items go to the writer.
Complete(j) ==
    /\ stage[j] = "running"
    /\ \E items \in [Requested(j) -> Outcomes] :
        Send([key |-> key[j], retry |-> retry[j], items |-> items])
    /\ Proceed(j, "over")
    /\ UNCHANGED <<files, index, scanned, written, clock, request, result, faults>>

\* The pipeline fails or is cancelled, or a patch is no longer retained.
Abandon(j) ==
    /\ stage[j] = "running"
    /\ Proceed(j, "over")
    /\ UNCHANGED <<files, writer, request, result, faults>>

-----------------------------------------------------------------------------
(* The writer thread *)

Bytes(task) == Weight[task.key] * Cardinality(DOMAIN task.items)

\* The document task skips targeted retries; the image task does not.
Persistable(task) ==
    /\ IsDocument(task.key) => task.retry = {}
    /\ Valid(task.key, task.items)
    /\ Bytes(task) <= MaxEntryBytes /\ Bytes(task) <= MaxCacheBytes

\* store_stored up to the rename.  The file's age is its own, later than that
\* of every file the same thread has written before.
Persist ==
    /\ written = Idle /\ queue # <<>>
    /\ queue' = Tail(queue)
    /\ LET task == Head(queue) IN
        IF Persistable(task)
        THEN /\ files' = [files EXCEPT ![task.key] =
                            [kind |-> "result", items |-> task.items,
                             bytes |-> Bytes(task), modified |-> clock + 1]]
             /\ written' = task.key
             /\ clock' = clock + 1
        ELSE UNCHANGED <<files, written, clock>>
    /\ UNCHANGED <<index, scanned, stage, request, result, faults>>

Metadata(k) == [bytes |-> files[k].bytes, modified |-> files[k].modified]

\* The index before the new file: read from the directory the first time.
Known ==
    IF scanned THEN index ELSE [k \in {l \in Keys : On(l)} |-> Metadata(k)]

\* Mutant: the index is only ever what the first scan found.
NotListed == Known

\* CacheIndex.insert of the file just written.
Listed ==
    [k \in DOMAIN Known \cup {written} |-> IF k = written THEN Metadata(k) ELSE Known[k]]

\* Mutant: the newest entries go first.
SurvivesOldest(known, k) ==
    MapThenSumSet(LAMBDA l : known[l].bytes,
                  {l \in DOMAIN known : known[l].modified <= known[k].modified}) <= MaxCacheBytes

\* k survives when everything at least as new as k fits together: the oldest
\* entries are removed until the total does.
Survives(known, k) ==
    MapThenSumSet(LAMBDA l : known[l].bytes,
                  {l \in DOMAIN known : known[l].modified >= known[k].modified}) <= MaxCacheBytes

\* prune_to_limit, under the index's mutex.  It gives up, with the index
\* initialized, when the file it protects has been invalidated meanwhile.
Prune ==
    /\ written # Idle
    /\ IF On(written)
       THEN LET kept == {k \in DOMAIN Listed : Survives(Listed, k)} IN
            /\ index' = [k \in kept |-> Listed[k]]
            /\ files' = [k \in Keys |->
                            IF k \in DOMAIN Listed \ kept THEN NoFile ELSE files[k]]
       ELSE index' = Known /\ UNCHANGED files
    /\ scanned' = TRUE
    /\ written' = Idle
    /\ UNCHANGED <<queue, clock, stage, request, result, faults>>

-----------------------------------------------------------------------------
(* Faults *)

\* The daemon is killed: running jobs, channel, index and the pruning that was
\* due are lost.
Restart ==
    /\ faults < MaxFaults
    /\ faults' = faults + 1
    /\ queue' = <<>>
    /\ index' = Nothing
    /\ scanned' = FALSE
    /\ written' = Idle
    /\ stage' = [j \in Jobs |-> IF stage[j] \in {"bad", "running"} THEN "over" ELSE stage[j]]
    /\ UNCHANGED <<files, clock, request, result>>

\* A file is damaged on disk, or left by another build.
Damage(k) ==
    /\ faults < MaxFaults
    /\ faults' = faults + 1
    /\ On(k)
    /\ files' = [files EXCEPT ![k].kind = "damaged"]
    /\ UNCHANGED <<writer, stage, request, result>>

-----------------------------------------------------------------------------
CacheNext ==
    \/ Persist \/ Prune \/ Restart
    \/ \E j \in Jobs : Load(j) \/ Invalidate(j) \/ Complete(j) \/ Abandon(j)
    \/ \E k \in Keys : Damage(k)

CacheSpec == CacheInit /\ [][CacheNext]_cacheVars

-----------------------------------------------------------------------------
(* Properties *)

\* Whatever was invalidated, replaced or forgotten in between, the index knows
\* every file with its present size and age, but for one that is just being
\* written: a file the index has lost would never be pruned.
IndexCoversFiles ==
    scanned =>
        \A k \in Keys \ {written} :
            On(k) => k \in DOMAIN index /\ index[k] = Metadata(k)

\* A pruning that runs to its end leaves the directory itself, not only the
\* index, within the limit, and never removes the result it was called for.
PruneBoundsDisk ==
    [][written # Idle /\ written' = Idle /\ scanned' /\ On(written) =>
        /\ MapThenSumSet(LAMBDA k : files'[k].bytes, {k \in Keys : files'[k] # NoFile})
                <= MaxCacheBytes
        /\ files'[written] = files[written]]_cacheVars

\* Checked as a violation.  result_cache.rs:507 says that an entry is one
\* complete job: a request answered from the cache receives every item.
CachedAnswersAreWhole ==
    \A j \in Jobs : stage[j] = "cached" => DOMAIN result[j] = Items

=============================================================================
