---------------------------- MODULE CudaScheduler ----------------------------
(***************************************************************************)
(* Process-wide admission of CUDA inference phases                         *)
(* (crates/browser-companion/src/cuda_scheduler.rs).                       *)
(*                                                                         *)
(* Two lanes, Vision and Language, each run one phase at a time.  A task   *)
(* calls acquire(), which either takes an idle lane at once, is refused    *)
(* because the shared queue is full, or queues a waiter and polls until it *)
(* heads its lane.  Every critical section of the scheduler's mutex is one *)
(* action; the cancellation flag is read outside the mutex, so a flag set  *)
(* between two actions of a request is a real interleaving.                *)
(***************************************************************************)
EXTENDS Integers, FiniteSets

CONSTANTS
    Requests,   \* calls of acquire(), each made once
    Jobs,       \* browser jobs; the acquires of one job share its cancel flag
    JobOf,      \* the job on whose behalf a request is made
    Arguments,  \* the lane and the priority each request may ask for
    Capacity    \* CUDA_QUEUE_CAPACITY

ASSUME CapacityAssumption == Capacity \in Nat \ {0}
ASSUME RequestsAssumption == IsFiniteSet(Requests)
ASSUME JobOfAssumption == JobOf \in [Requests -> Jobs]

Workloads == {"Vision", "Language"}

Offscreen == 0
Visible   == 1
Priorities == {Offscreen, Visible}

ASSUME ArgumentsAssumption == Arguments \subseteq [Requests -> Workloads \X Priorities]

VARIABLES
    active,         \* vision_active and language_active
    nextSequence,   \* next_sequence (a u64 that no run of the program wraps)
    waiters,        \* the queued waiters, told apart by their sequence
    cancel,         \* the AtomicBool of each job
    workload,       \* argument of each acquire
    priority,       \* argument of each acquire
    sequence,       \* the local of each acquire that has queued a waiter
    pc              \* where each acquire stands

vars == <<active, nextSequence, waiters, cancel, workload, priority, sequence, pc>>
args == <<workload, priority>>

\* "new"       acquire() not called yet
\* "entered"   past the first cancellation check, before the mutex
\* "polling"   at the top of the loop, registration armed
\* "checking"  past the loop's cancellation check, before the mutex
\* "waiting"   in select!, for a notification or for the 10 ms sleep
\* "leaving"   the future ends with its registration still armed
\* "holding"   owns the lane's CudaPermit
\* "released", "full", "cancelled"   the call is over
Queued == {"polling", "checking", "waiting", "leaving"}
Over   == {"released", "full", "cancelled"}
Places == {"new", "entered", "holding"} \cup Queued \cup Over

Waiter == [sequence : Nat, priority : Priorities, workload : Workloads, job : Jobs]

TypeOK ==
    /\ active \in [Workloads -> BOOLEAN]
    /\ nextSequence \in Nat
    /\ waiters \subseteq Waiter
    /\ Cardinality(waiters) <= Capacity
    /\ cancel \in [Jobs -> BOOLEAN]
    /\ workload \in [Requests -> Workloads]
    /\ priority \in [Requests -> Priorities]
    /\ sequence \in [Requests -> Nat]
    /\ pc \in [Requests -> Places]

Init ==
    /\ active = [w \in Workloads |-> FALSE]
    /\ nextSequence = 0
    /\ waiters = {}
    /\ cancel = [j \in Jobs |-> FALSE]
    /\ \E a \in Arguments :
        /\ workload = [r \in Requests |-> a[r][1]]
        /\ priority = [r \in Requests |-> a[r][2]]
    /\ sequence = [r \in Requests |-> 0]
    /\ pc = [r \in Requests |-> "new"]

-----------------------------------------------------------------------------
(* The scheduler's state under its mutex *)

\* Mutant: cancelled waiters are not swept.
AllWaiters == waiters

\* remove_cancelled: every critical section but cancel_waiter starts with it.
Live == {x \in waiters : ~cancel[x.job]}

Room == Cardinality(Live) < Capacity

\* Mutant: first come, first served.
ByArrival(x, y) == x.sequence < y.sequence

\* x is served before y: higher priority first, then earlier arrival.
Before(x, y) ==
    \/ x.priority > y.priority
    \/ x.priority = y.priority /\ x.sequence < y.sequence

\* next_waiter_sequence(w) = Some(s)
Heads(s, w) ==
    \E x \in Live :
        /\ x.sequence = s
        /\ x.workload = w
        /\ \A y \in Live : y.workload = w /\ y # x => Before(x, y)

\* remove_waiter
Without(queue, s) == {x \in queue : x.sequence # s}

Move(r, place) == pc' = [pc EXCEPT ![r] = place]

-----------------------------------------------------------------------------
(* acquire *)

\* The call fails at once when its job is already cancelled.
Enter(r) ==
    /\ pc[r] = "new"
    /\ Move(r, IF cancel[JobOf[r]] THEN "cancelled" ELSE "entered")
    /\ UNCHANGED <<active, nextSequence, waiters, cancel, args, sequence>>

\* Mutant: a queue without waiters is taken for an idle lane.
NobodyWaits(r) == \A x \in Live : x.workload # workload[r]

\* The lane is idle and nobody waits for it.
Unqueued(r) ==
    ~active[workload[r]] /\ \A x \in Live : x.workload # workload[r]

TakeIdleLane(r) ==
    /\ pc[r] = "entered"
    /\ Unqueued(r)
    /\ active' = [active EXCEPT ![workload[r]] = TRUE]
    /\ waiters' = Live
    /\ Move(r, "holding")
    /\ UNCHANGED <<nextSequence, cancel, args, sequence>>

QueueFull(r) ==
    /\ pc[r] = "entered"
    /\ ~Unqueued(r)
    /\ ~Room
    /\ waiters' = Live
    /\ Move(r, "full")
    /\ UNCHANGED <<active, nextSequence, cancel, args, sequence>>

Enqueue(r) ==
    /\ pc[r] = "entered"
    /\ ~Unqueued(r)
    /\ Room
    /\ waiters' = Live \cup {[sequence |-> nextSequence, priority |-> priority[r],
                              workload |-> workload[r], job |-> JobOf[r]]}
    /\ sequence' = [sequence EXCEPT ![r] = nextSequence]
    /\ nextSequence' = nextSequence + 1
    /\ Move(r, "polling")
    /\ UNCHANGED <<active, cancel, args>>

\* The cancellation check at the top of the loop, outside the mutex.
Poll(r) ==
    /\ pc[r] = "polling"
    /\ Move(r, IF cancel[JobOf[r]] THEN "leaving" ELSE "checking")
    /\ UNCHANGED <<active, nextSequence, waiters, cancel, args, sequence>>

\* The head of an idle lane leaves the queue with the permit, its
\* registration disarmed.
Admit(r) ==
    /\ pc[r] = "checking"
    /\ ~active[workload[r]]
    /\ Heads(sequence[r], workload[r])
    /\ active' = [active EXCEPT ![workload[r]] = TRUE]
    /\ waiters' = Without(Live, sequence[r])
    /\ Move(r, "holding")
    /\ UNCHANGED <<nextSequence, cancel, args, sequence>>

\* Not admitted: wait on, or leave when some critical section has already
\* removed the waiter because its job was cancelled.
Stay(r) ==
    /\ pc[r] = "checking"
    /\ active[workload[r]] \/ ~Heads(sequence[r], workload[r])
    /\ waiters' = Live
    /\ Move(r, IF \E x \in Live : x.sequence = sequence[r] THEN "waiting" ELSE "leaving")
    /\ UNCHANGED <<active, nextSequence, cancel, args, sequence>>

\* Mutant: no poll, only the notification of a release.
WakeOnRelease(r) ==
    /\ pc[r] = "waiting" /\ ~active[workload[r]]
    /\ Move(r, "polling")
    /\ UNCHANGED <<active, nextSequence, waiters, cancel, args, sequence>>

\* A notification or the end of the 10 ms sleep.  The sleep alone enables the
\* step, so a notification only makes it earlier.
Wake(r) ==
    /\ pc[r] = "waiting"
    /\ Move(r, "polling")
    /\ UNCHANGED <<active, nextSequence, waiters, cancel, args, sequence>>

\* The task that owns the future is aborted while the future is suspended
\* (CleanupBatchTask::cancel); its locals are dropped.
Abort(r) ==
    /\ pc[r] = "waiting"
    /\ Move(r, "leaving")
    /\ UNCHANGED <<active, nextSequence, waiters, cancel, args, sequence>>

\* Mutant: the queue membership outlives the future.
LeaveOrphan(r) ==
    /\ pc[r] = "leaving"
    /\ Move(r, "cancelled")
    /\ UNCHANGED <<active, nextSequence, waiters, cancel, args, sequence>>

\* Drop of CudaWaiterRegistration: cancel_waiter.
DropRegistration(r) ==
    /\ pc[r] = "leaving"
    /\ waiters' = Without(waiters, sequence[r])
    /\ Move(r, "cancelled")
    /\ UNCHANGED <<active, nextSequence, cancel, args, sequence>>

\* Drop of CudaPermit: release.
Release(r) ==
    /\ pc[r] = "holding"
    /\ active' = [active EXCEPT ![workload[r]] = FALSE]
    /\ waiters' = Live
    /\ Move(r, "released")
    /\ UNCHANGED <<nextSequence, cancel, args, sequence>>

\* The job's cancel flag is set, by a handler outside the scheduler.
Cancel(j) ==
    /\ ~cancel[j]
    /\ cancel' = [cancel EXCEPT ![j] = TRUE]
    /\ UNCHANGED <<active, nextSequence, waiters, args, sequence, pc>>

Submit(r) == TakeIdleLane(r) \/ QueueFull(r) \/ Enqueue(r)
Try(r) == Admit(r) \/ Stay(r)

\* Every call returns, with or without the permit.
Finished ==
    /\ \A r \in Requests : pc[r] \in Over
    /\ UNCHANGED vars

Next ==
    \/ \E r \in Requests :
        \/ Enter(r) \/ Submit(r) \/ Poll(r) \/ Try(r) \/ Wake(r) \/ Abort(r)
        \/ DropRegistration(r) \/ Release(r)
    \/ \E j \in Jobs : Cancel(j)
    \/ Finished

Spec == Init /\ [][Next]_vars

\* The runtime keeps running each acquire future; nothing is assumed of the
\* tasks that hold a permit, nor of callers, cancels and aborts.
AcquireFairness(r) ==
    WF_vars(Submit(r) \/ Poll(r) \/ Try(r) \/ Wake(r) \/ DropRegistration(r))

PollSpec == Spec /\ \A r \in Requests : AcquireFairness(r)

\* Inference phases end: every permit is dropped.
PhasesEnd == \A r \in Requests : WF_vars(Release(r))

-----------------------------------------------------------------------------
(* Properties *)

\* A lane is marked active exactly while one request holds its permit: two
\* phases of one model family never overlap (the serialization the module's
\* header promises), and no permit's end leaves its lane marked busy, which
\* would block every later page.
LaneExclusive ==
    \A w \in Workloads :
        /\ active[w] <=> \E r \in Requests : pc[r] = "holding" /\ workload[r] = w
        /\ \A r, s \in Requests :
            /\ pc[r] = "holding" /\ workload[r] = w
            /\ pc[s] = "holding" /\ workload[s] = w
            => r = s

\* Every queued waiter belongs to a future that is still alive and will poll
\* for it, or drop it: an aborted or cancelled acquire never leaves an
\* ownerless sequence at the head of a lane (comment at line 157).
NoOrphanWaiter ==
    \A x \in waiters : \E r \in Requests :
        /\ pc[r] \in Queued
        /\ sequence[r] = x.sequence
        /\ workload[r] = x.workload
        /\ priority[r] = x.priority
        /\ JobOf[r] = x.job

\* A lane is never granted past a live waiter that should come first: neither
\* a newcomer finding the lane idle just after a release nor a queued request
\* overtakes an uncancelled waiter of higher priority or of the same priority
\* and an earlier arrival.
GrantsInOrder ==
    [][\A r \in Requests :
        pc[r] # "holding" /\ pc'[r] = "holding" =>
            \A x \in Live :
                \/ x.workload # workload[r]
                \/ pc[r] # "entered"
                   /\ \/ x.sequence = sequence[r]
                      \/ x.priority < priority[r]
                      \/ x.priority = priority[r] /\ x.sequence > sequence[r]]_vars

\* A request is refused only against a queue that Capacity live requests fill:
\* waiters of cancelled jobs take no place from a visible page.
RefusedOnlyWhenFull ==
    [][\A r \in Requests :
        pc[r] # "full" /\ pc'[r] = "full" =>
            /\ Cardinality(waiters') = Capacity
            /\ \A x \in waiters' : ~cancel[x.job]]_vars

\* A queued request whose job is cancelled returns although the phase that
\* holds the lane never ends.
CancelObserved ==
    \A r \in Requests :
        pc[r] \in Queued /\ cancel[JobOf[r]] ~> pc[r] \notin Queued

\* With phases that end, every call of acquire returns: no waiter is
\* forgotten when a release, a cancellation or an abort races its check.
EveryAcquireReturns ==
    PhasesEnd => \A r \in Requests : pc[r] = "entered" ~> pc[r] \in Over \cup {"holding"}

=============================================================================
