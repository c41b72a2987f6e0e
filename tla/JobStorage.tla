------------------------------ MODULE JobStorage ------------------------------
(***************************************************************************)
(* The daemon's table of jobs (server.rs): the creation ledger that makes  *)
(* POST idempotent, the bounded storage of jobs, decoded sources and       *)
(* patches with its eviction, the workers that store patches and the       *)
(* DELETEs that evict.                                                     *)
(*                                                                         *)
(* Each request is one POST and names both the ledger entry it inserts and *)
(* the job it creates.  A handler may be dropped at an await when its      *)
(* client goes away; the storage lock makes each reservation, patch and    *)
(* eviction one step.                                                      *)
(***************************************************************************)
EXTENDS Integers, FiniteSetsExt

CONSTANTS
    Requests,       \* POSTs of creation
    Clients,        \* values of clientRequestId
    ClientOf,       \* the clientRequestId of each request
    Payloads,       \* digests of request bodies
    SourceBytes,    \* decoded source size of each request, 0 for documents and cache hits
    LedgerLimit,    \* entries of the creation ledger, 4,096
    MaxJobs,        \* max_retained_jobs
    MaxBytes,       \* max_stored_blob_bytes
    MaxPatches      \* bound on the patches of one job, one byte each

None == "none"

ASSUME RequestsAssumption ==
    /\ ClientOf \in [Requests -> Clients]
    /\ SourceBytes \in [Requests -> Nat]
    /\ IsFiniteSet(Requests) /\ None \notin Requests
ASSUME BoundsAssumption ==
    LedgerLimit \in Nat \ {0} /\ MaxJobs \in Nat \ {0} /\ MaxBytes \in Nat /\ MaxPatches \in Nat

VARIABLES
    payload,        \* body of each request
    place,          \* where each POST stands
    slot,           \* the ledger entry each POST has cloned
    ledger,         \* BridgeState.creations: the entry of each client id
    old,            \* client ids whose entry is older than 30 minutes
    created,        \* the Option<String> of each entry, a set of at most one job
    answer,         \* the job each POST is answered with
    stored,         \* Storage.jobs
    order,          \* JobRecord.order
    nextOrder,      \* Storage.next_job_order
    active, terminal, cancel, source,
    blobs,          \* patches in Storage.blobs, counted by owner
    published,      \* patches named by a published region
    worker,         \* where each job's worker stands
    deleter         \* where each job's DELETE stands

vars == <<payload, place, slot, ledger, old, created, answer, stored, order, nextOrder,
          active, terminal, cancel, source, blobs, published, worker, deleter>>
creation == <<payload, place, slot, ledger, old, created, answer>>
record   == <<active, terminal, cancel, source>>

TypeOK ==
    /\ payload \in [Requests -> Payloads]
    /\ place \in [Requests -> {"new", "waiting", "holding", "answered", "refused", "dropped"}]
    /\ slot \in [Requests -> Requests \cup {None}]
    /\ ledger \in [Clients -> Requests \cup {None}]
    /\ old \subseteq Clients
    /\ created \in [Requests -> SUBSET Requests]
    /\ answer \in [Requests -> Requests \cup {None}]
    /\ stored \subseteq Requests
    /\ order \in [Requests -> Nat] /\ nextOrder \in Nat
    /\ active \in [Requests -> BOOLEAN] /\ terminal \in [Requests -> BOOLEAN]
    /\ cancel \in [Requests -> BOOLEAN]
    /\ source \in [Requests -> Nat]
    /\ blobs \in [Requests -> 0..MaxPatches] /\ published \in [Requests -> 0..MaxPatches]
    /\ worker \in [Requests -> {"none", "running", "storing", "publishing", "erred",
                                "finish", "over"}]
    /\ deleter \in [Requests -> {"none", "flagged", "ended", "withdrawn", "over"}]

Init ==
    /\ payload \in [Requests -> Payloads]
    /\ place = [r \in Requests |-> "new"]
    /\ slot = [r \in Requests |-> None]
    /\ ledger = [c \in Clients |-> None]
    /\ old = {}
    /\ created = [r \in Requests |-> {}]
    /\ answer = [r \in Requests |-> None]
    /\ stored = {}
    /\ order = [r \in Requests |-> 0] /\ nextOrder = 0
    /\ active = [r \in Requests |-> FALSE] /\ terminal = [r \in Requests |-> FALSE]
    /\ cancel = [r \in Requests |-> FALSE]
    /\ source = [r \in Requests |-> 0]
    /\ blobs = [r \in Requests |-> 0] /\ published = [r \in Requests |-> 0]
    /\ worker = [r \in Requests |-> "none"]
    /\ deleter = [r \in Requests |-> "none"]

Go(r, to)   == place' = [place EXCEPT ![r] = to]
Work(r, to) == worker' = [worker EXCEPT ![r] = to]

-----------------------------------------------------------------------------
(* The creation ledger *)

\* Arc::strong_count > 1: a request waits for the entry or holds it.
InUse(e) == \E r \in Requests : slot[r] = e /\ place[r] \in {"waiting", "holding"}

Entries == {c \in Clients : ledger[c] # None}

\* Mutant: age alone decides.
PrunableByAge(c) == c \in old

Prunable(c) == c \in old /\ ~InUse(ledger[c])

Age(c) ==
    /\ c \in Entries \ old
    /\ old' = old \cup {c}
    /\ UNCHANGED <<payload, place, slot, ledger, created, answer, stored, order, nextOrder,
                   record, blobs, published, worker, deleter>>

\* Mutant: a client id alone identifies a creation.
AnyPayload(r) == TRUE

SamePayload(r) == payload[ledger[ClientOf[r]]] = payload[r]

\* creation_guard up to the entry's own mutex.
Lookup(r) ==
    LET c == ClientOf[r]
        pruned == IF Cardinality(Entries) < LedgerLimit THEN {}
                  ELSE {d \in Entries : Prunable(d)}
        Enter(e) == Go(r, "waiting") /\ slot' = [slot EXCEPT ![r] = e]
    IN  /\ place[r] = "new"
        /\ IF c \in Entries
           THEN /\ IF SamePayload(r) THEN Enter(ledger[c])
                   ELSE Go(r, "refused") /\ UNCHANGED slot
                /\ UNCHANGED <<ledger, old>>
           ELSE LET kept == [d \in Clients |-> IF d \in pruned THEN None ELSE ledger[d]]
                    full == Cardinality(Entries \ pruned) >= LedgerLimit
                IN  /\ ledger' = IF full THEN kept ELSE [kept EXCEPT ![c] = r]
                    /\ old' = old \ pruned
                    /\ IF full THEN Go(r, "refused") /\ UNCHANGED slot ELSE Enter(r)
        /\ UNCHANGED <<payload, created, answer, stored, order, nextOrder, record, blobs,
                       published, worker, deleter>>

\* Mutant: the entry is read without waiting for its holder.
AlwaysFree(r) == TRUE

Free(r) == \A s \in Requests : slot[s] = slot[r] => place[s] # "holding"

\* The entry's mutex: a job already created under it is the answer.
Lock(r) ==
    /\ place[r] = "waiting"
    /\ Free(r)
    /\ IF created[slot[r]] = {} THEN Go(r, "holding") /\ UNCHANGED answer
       ELSE /\ Go(r, "answered")
            /\ \E job \in created[slot[r]] : answer' = [answer EXCEPT ![r] = job]
    /\ UNCHANGED <<payload, slot, ledger, old, created, stored, order, nextOrder, record,
                   blobs, published, worker, deleter>>

\* The client goes away, or the upload is refused, while the handler awaits:
\* the guard is released with nothing created.
Drop(r) ==
    /\ place[r] \in {"waiting", "holding"}
    /\ Go(r, "dropped")
    /\ UNCHANGED <<payload, slot, ledger, old, created, answer, stored, order, nextOrder,
                   record, blobs, published, worker, deleter>>

-----------------------------------------------------------------------------
(* Bounded storage *)

\* Mutant: the worker may still be finishing.
EndedInLog == {r \in stored : terminal[r]}

\* is_evictable
Evictable == {r \in stored : ~active[r] /\ terminal[r]}

\* The sets of oldest evictable jobs.
Oldest == {{}} \cup {{s \in Evictable : order[s] <= order[r]} : r \in Evictable}

\* Bytes retained once the jobs of gone are evicted.
Retained(gone) ==
    MapThenSumSet(LAMBDA r : source[r], stored \ gone)
        + MapThenSumSet(LAMBDA r : blobs[r], Requests \ gone)

\* Mutant: the limit is compared before the addition.
FitsBefore(gone, newJobs, added) ==
    /\ newJobs = 1 => Cardinality(stored \ gone) < MaxJobs
    /\ Retained(gone) <= MaxBytes

Fits(gone, newJobs, added) ==
    /\ newJobs = 1 => Cardinality(stored \ gone) < MaxJobs
    /\ Retained(gone) + added <= MaxBytes

\* make_room_for_job and make_room_for_blob evict the oldest jobs one by one
\* until the addition fits, and all of them when it never does.
CanFit(newJobs, added) ==
    added <= MaxBytes /\ \E gone \in Oldest : Fits(gone, newJobs, added)

Evicted(newJobs, added) ==
    IF added > MaxBytes THEN {}
    ELSE IF ~CanFit(newJobs, added) THEN Evictable
    ELSE CHOOSE gone \in Oldest :
            /\ Fits(gone, newJobs, added)
            /\ \A other \in Oldest : Fits(other, newJobs, added) => gone \subseteq other

Without(gone) == [r \in Requests |-> IF r \in gone THEN 0 ELSE blobs[r]]

\* Mutant: the ledger is told only when the handler has returned.
TellNobody(r) == UNCHANGED created

\* The entry's Option becomes the new job.
Tell(r) == created' = [created EXCEPT ![slot[r]] = @ \cup {r}]

\* reserve_job, the ledger's entry and the spawn of the worker, without an
\* await in between.
Reserve(r) ==
    LET gone == Evicted(1, SourceBytes[r]) IN
    /\ place[r] = "holding"
    /\ blobs' = Without(gone)
    /\ IF CanFit(1, SourceBytes[r])
       THEN /\ stored' = (stored \ gone) \cup {r}
            /\ order' = [order EXCEPT ![r] = nextOrder] /\ nextOrder' = nextOrder + 1
            /\ active' = [active EXCEPT ![r] = TRUE]
            /\ source' = [source EXCEPT ![r] = SourceBytes[r]]
            /\ Tell(r)
            /\ answer' = [answer EXCEPT ![r] = r]
            /\ Work(r, "running")
            /\ Go(r, "answered")
       ELSE /\ stored' = stored \ gone
            /\ Go(r, "refused")
            /\ UNCHANGED <<order, nextOrder, active, source, created, answer, worker>>
    /\ UNCHANGED <<payload, slot, ledger, old, terminal, cancel, published, deleter>>

-----------------------------------------------------------------------------
(* The worker of job r *)

\* validate_patch_storage_request reads the flags before the storage lock.
ValidatePatch(r) ==
    /\ worker[r] = "running"
    /\ published[r] < MaxPatches
    /\ Work(r, IF cancel[r] \/ terminal[r] THEN "erred" ELSE "storing")
    /\ UNCHANGED <<creation, stored, order, nextOrder, record, blobs, published, deleter>>

\* Mutant: the owner is not looked up.
OwnerAssumed(r) == TRUE

OwnerStored(r) == r \in stored

\* store_patch_bytes
StorePatch(r) ==
    LET gone == IF OwnerStored(r) THEN Evicted(0, 1) ELSE {} IN
    /\ worker[r] = "storing"
    /\ stored' = stored \ gone
    /\ IF OwnerStored(r) /\ CanFit(0, 1)
       THEN /\ blobs' = [Without(gone) EXCEPT ![r] = @ + 1]
            /\ Work(r, "publishing")
       ELSE blobs' = Without(gone) /\ Work(r, "erred")
    /\ UNCHANGED <<creation, order, nextOrder, record, published, deleter>>

\* publish: the patch must belong to the job and the log be open.
PublishRegion(r) ==
    /\ worker[r] = "publishing"
    /\ IF blobs[r] > published[r] /\ ~cancel[r] /\ ~terminal[r]
       THEN published' = [published EXCEPT ![r] = @ + 1] /\ Work(r, "running")
       ELSE Work(r, "erred") /\ UNCHANGED published
    /\ UNCHANGED <<creation, stored, order, nextOrder, record, blobs, deleter>>

\* Complete, or fail_job, which drops the decoded source first; nothing when
\* the job is cancelled.
EndJob(r) ==
    /\ worker[r] \in {"running", "erred"}
    /\ terminal' = [terminal EXCEPT ![r] = @ \/ ~cancel[r]]
    /\ source' = [source EXCEPT ![r] = IF worker[r] = "erred" /\ ~cancel[r] THEN 0 ELSE @]
    /\ Work(r, "finish")
    /\ UNCHANGED <<creation, stored, order, nextOrder, active, cancel, blobs, published,
                   deleter>>

\* finish_active
Withdraw(r) ==
    /\ active' = [active EXCEPT ![r] = FALSE]
    /\ source' = [source EXCEPT ![r] = 0]

FinishJob(r) ==
    /\ worker[r] = "finish"
    /\ Withdraw(r)
    /\ Work(r, "over")
    /\ UNCHANGED <<creation, stored, order, nextOrder, terminal, cancel, blobs, published,
                   deleter>>

-----------------------------------------------------------------------------
(* cancel_job *)

Delete(r, from, to) ==
    /\ deleter[r] = from
    /\ deleter' = [deleter EXCEPT ![r] = to]
    /\ UNCHANGED <<creation, order, nextOrder, published, worker>>

DeleteFlag(r) ==
    /\ r \in stored
    /\ Delete(r, "none", "flagged")
    /\ cancel' = [cancel EXCEPT ![r] = TRUE]
    /\ UNCHANGED <<stored, active, terminal, source, blobs>>

DeleteEnd(r) ==
    /\ Delete(r, "flagged", "ended")
    /\ terminal' = [terminal EXCEPT ![r] = TRUE]
    /\ UNCHANGED <<stored, active, cancel, source, blobs>>

DeleteWithdraw(r) ==
    /\ Delete(r, "ended", "withdrawn")
    /\ Withdraw(r)
    /\ UNCHANGED <<stored, terminal, cancel, blobs>>

\* evict_job removes patches only together with their job.
DeleteEvict(r) ==
    /\ Delete(r, "withdrawn", "over")
    /\ stored' = stored \ {r}
    /\ blobs' = IF r \in stored THEN Without({r}) ELSE blobs
    /\ UNCHANGED record

-----------------------------------------------------------------------------
Next ==
    \/ \E c \in Clients : Age(c)
    \/ \E r \in Requests :
        \/ Lookup(r) \/ Lock(r) \/ Drop(r) \/ Reserve(r)
        \/ ValidatePatch(r) \/ StorePatch(r) \/ PublishRegion(r) \/ EndJob(r) \/ FinishJob(r)
        \/ DeleteFlag(r) \/ DeleteEnd(r) \/ DeleteWithdraw(r) \/ DeleteEvict(r)

Spec == Init /\ [][Next]_vars

-----------------------------------------------------------------------------
(* Properties *)

\* Repeated, concurrent and abandoned POSTs with one clientRequestId create at
\* most one job per ledger entry.
OneJobPerEntry == \A e \in Requests : Cardinality(created[e]) <= 1

\* Even when the ledger forgets entries under pressure, no two handlers are
\* ever creating a job for the same clientRequestId.
NoConcurrentCreation ==
    \A r, s \in Requests :
        place[r] = "holding" /\ place[s] = "holding" /\ ClientOf[r] = ClientOf[s] => r = s

\* A POST is only ever answered with a job created for its own id and body.
AnswersMatch ==
    \A r \in Requests : answer[r] # None =>
        /\ ClientOf[answer[r]] = ClientOf[r]
        /\ payload[answer[r]] = payload[r]

\* Jobs, decoded sources and patches stay within their bounds together.
WithinLimits == Cardinality(stored) <= MaxJobs /\ Retained({}) <= MaxBytes

\* Pressure never costs a job that nobody cancelled its place or its patches
\* while its worker is still running.
RunningJobsKept ==
    \A r \in Requests :
        worker[r] \notin {"none", "over"} /\ ~cancel[r] =>
            r \in stored /\ published[r] <= blobs[r]

\* Checked as a violation.  server.rs:2598 says that DELETE owns the complete
\* native artifact lifecycle, safe whether the worker has finished or not: no
\* patch outlives its job.
NoOrphanPatches == \A r \in Requests : blobs[r] > 0 => r \in stored

=============================================================================
