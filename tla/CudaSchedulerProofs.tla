------------------------- MODULE CudaSchedulerProofs -------------------------
(* Theorems about CudaScheduler, for any set of requests and any capacity.   *)
EXTENDS CudaScheduler, FiniteSetTheorems, TLAPS

\* Each registered acquire owns a sequence of its own, already handed out.
DistinctSequences ==
    /\ \A r \in Requests : pc[r] \in Queued => sequence[r] < nextSequence
    /\ \A r, s \in Requests :
        pc[r] \in Queued /\ pc[s] \in Queued /\ sequence[r] = sequence[s] => r = s

\* The inductive invariant of the scheduler.
IInv ==
    /\ TypeOK
    /\ IsFiniteSet(waiters)
    /\ DistinctSequences
    /\ NoOrphanWaiter
    /\ LaneExclusive

\* The sweep of cancelled waiters keeps the queue finite and within its bound.
LEMMA SweepBounded ==
    ASSUME IsFiniteSet(waiters), Cardinality(waiters) <= Capacity,
           NEW queue \in SUBSET waiters
    PROVE  IsFiniteSet(queue) /\ Cardinality(queue) <= Capacity
<1>1. IsFiniteSet(queue) /\ Cardinality(queue) <= Cardinality(waiters)
  BY FS_Subset
<1>2. Cardinality(queue) \in Nat /\ Cardinality(waiters) \in Nat
  BY <1>1, FS_CardinalityType
<1> QED BY <1>1, <1>2, CapacityAssumption

\* One more waiter fits into a queue that has room for it.
LEMMA RoomForWaiter ==
    ASSUME IsFiniteSet(waiters), NEW x, Room
    PROVE  IsFiniteSet(Live \cup {x}) /\ Cardinality(Live \cup {x}) <= Capacity
<1>1. IsFiniteSet(Live)
  BY FS_Subset DEF Live
<1>2. Cardinality(Live) \in Nat /\ Cardinality(Live) < Capacity
  BY <1>1, FS_CardinalityType DEF Room
<1>3. /\ IsFiniteSet(Live \cup {x})
      /\ \/ Cardinality(Live \cup {x}) = Cardinality(Live)
         \/ Cardinality(Live \cup {x}) = Cardinality(Live) + 1
  BY <1>1, FS_AddElement
<1> QED BY <1>2, <1>3, CapacityAssumption

\* Initially no lane is active and the queue is empty.
LEMMA InitIInv == Init => IInv
<1> SUFFICES ASSUME Init PROVE IInv
  OBVIOUS
<1>1. IsFiniteSet(waiters) /\ Cardinality(waiters) = 0
  BY FS_EmptySet DEF Init
<1>2. TypeOK
  BY <1>1, CapacityAssumption, ArgumentsAssumption DEF Init, TypeOK, Places
<1>3. DistinctSequences /\ NoOrphanWaiter /\ LaneExclusive
  BY DEF Init, DistinctSequences, NoOrphanWaiter, LaneExclusive, Queued
<1> QED BY <1>1, <1>2, <1>3 DEF IInv

USE DEF args, Move, Live, Queued

\* Steps of an acquire that leave the lanes, and possibly sweep the queue.
LEMMA StepIInv == IInv /\ [Next]_vars => IInv'
<1> SUFFICES ASSUME IInv, [Next]_vars PROVE IInv'
  OBVIOUS
<1> USE DEF IInv
<1>1. ASSUME NEW r \in Requests, Enter(r) \/ Poll(r) \/ Wake(r) \/ Abort(r) PROVE IInv'
  <2>1. TypeOK' /\ IsFiniteSet(waiters)'
    BY <1>1 DEF Enter, Poll, Wake, Abort, TypeOK, Places, Over
  <2>2. DistinctSequences'
    BY <1>1 DEF Enter, Poll, Wake, Abort, TypeOK, DistinctSequences
  <2>3. NoOrphanWaiter'
    BY <1>1 DEF Enter, Poll, Wake, Abort, TypeOK, NoOrphanWaiter
  <2>4. LaneExclusive'
    BY <1>1 DEF Enter, Poll, Wake, Abort, TypeOK, LaneExclusive
  <2> QED BY <2>1, <2>2, <2>3, <2>4
<1>2. ASSUME NEW r \in Requests, QueueFull(r) \/ Stay(r) \/ DropRegistration(r) PROVE IInv'
  <2> waiters' \in SUBSET waiters
    BY <1>2 DEF QueueFull, Stay, DropRegistration, Without
  <2>1. TypeOK' /\ IsFiniteSet(waiters)'
    BY <1>2, SweepBounded DEF QueueFull, Stay, DropRegistration, Without, TypeOK, Places, Over
  <2>2. DistinctSequences'
    BY <1>2 DEF QueueFull, Stay, DropRegistration, TypeOK, DistinctSequences
  <2>3. NoOrphanWaiter'
    <3> SUFFICES ASSUME NEW x \in waiters'
                 PROVE  \E s \in Requests :
                          /\ pc'[s] \in Queued
                          /\ sequence'[s] = x.sequence
                          /\ workload'[s] = x.workload
                          /\ priority'[s] = x.priority
                          /\ JobOf[s] = x.job
      BY DEF NoOrphanWaiter
    <3>1. PICK s \in Requests :
            /\ pc[s] \in Queued
            /\ sequence[s] = x.sequence
            /\ workload[s] = x.workload
            /\ priority[s] = x.priority
            /\ JobOf[s] = x.job
      BY DEF NoOrphanWaiter
    <3>2. pc'[s] \in Queued
      BY <1>2, <3>1 DEF QueueFull, Stay, DropRegistration, Without, TypeOK
    <3> QED BY <1>2, <3>1, <3>2 DEF QueueFull, Stay, DropRegistration
  <2>4. LaneExclusive'
    BY <1>2 DEF QueueFull, Stay, DropRegistration, TypeOK, LaneExclusive
  <2> QED BY <2>1, <2>2, <2>3, <2>4
<1>3. ASSUME NEW r \in Requests, Enqueue(r) PROVE IInv'
  <2> DEFINE x == [sequence |-> nextSequence, priority |-> priority[r],
                   workload |-> workload[r], job |-> JobOf[r]]
  <2>1. TypeOK' /\ IsFiniteSet(waiters)'
    <3>1. x \in Waiter
      BY JobOfAssumption DEF Waiter, TypeOK
    <3>2. IsFiniteSet(waiters') /\ Cardinality(waiters') <= Capacity
      BY <1>3, RoomForWaiter DEF Enqueue
    <3> QED BY <1>3, <3>1, <3>2 DEF Enqueue, TypeOK, Places
  <2>2. DistinctSequences'
    BY <1>3 DEF Enqueue, TypeOK, DistinctSequences
  <2>3. NoOrphanWaiter'
    BY <1>3 DEF Enqueue, TypeOK, NoOrphanWaiter
  <2>4. LaneExclusive'
    BY <1>3 DEF Enqueue, TypeOK, LaneExclusive
  <2> QED BY <2>1, <2>2, <2>3, <2>4
<1>4. ASSUME NEW r \in Requests, TakeIdleLane(r) \/ Admit(r) PROVE IInv'
  <2> waiters' \in SUBSET waiters
    BY <1>4 DEF TakeIdleLane, Admit, Without
  <2>1. TypeOK' /\ IsFiniteSet(waiters)'
    BY <1>4, SweepBounded DEF TakeIdleLane, Admit, Without, TypeOK, Places
  <2>2. DistinctSequences'
    BY <1>4 DEF TakeIdleLane, Admit, TypeOK, DistinctSequences
  <2>3. NoOrphanWaiter'
    BY <1>4 DEF TakeIdleLane, Admit, Without, TypeOK, NoOrphanWaiter
  <2>4. LaneExclusive'
    <3>1. ~active[workload[r]]
      BY <1>4 DEF TakeIdleLane, Admit, Unqueued
    <3> QED BY <1>4, <3>1 DEF TakeIdleLane, Admit, TypeOK, LaneExclusive
  <2> QED BY <2>1, <2>2, <2>3, <2>4
<1>5. ASSUME NEW r \in Requests, Release(r) PROVE IInv'
  <2> waiters' \in SUBSET waiters
    BY <1>5 DEF Release
  <2>1. TypeOK' /\ IsFiniteSet(waiters)'
    BY <1>5, SweepBounded DEF Release, TypeOK, Places, Over
  <2>2. DistinctSequences'
    BY <1>5 DEF Release, TypeOK, DistinctSequences
  <2>3. NoOrphanWaiter'
    BY <1>5 DEF Release, TypeOK, NoOrphanWaiter
  <2>4. LaneExclusive'
    BY <1>5 DEF Release, TypeOK, LaneExclusive
  <2> QED BY <2>1, <2>2, <2>3, <2>4
<1>6. ASSUME NEW j \in Jobs, Cancel(j) PROVE IInv'
  BY <1>6 DEF Cancel, TypeOK, DistinctSequences, NoOrphanWaiter, LaneExclusive
<1>7. CASE UNCHANGED vars
  BY <1>7 DEF vars, TypeOK, DistinctSequences, NoOrphanWaiter, LaneExclusive
<1> QED BY <1>1, <1>2, <1>3, <1>4, <1>5, <1>6, <1>7 DEF Next, Submit, Try, Finished

\* The inductive invariant holds in every reachable state.
THEOREM Invariance == Spec => []IInv
BY InitIInv, StepIInv, PTL DEF Spec

\* The scheduler's state is well typed and its queue never outgrows the
\* capacity, whatever the requests do.
THEOREM TypeCorrect == Spec => []TypeOK
<1>1. IInv => TypeOK
  BY DEF IInv
<1> QED BY Invariance, <1>1, PTL

\* Two phases of one model family never overlap, and a lane marked busy has
\* an owner that will return it.
THEOREM LanesExclusive == Spec => []LaneExclusive
<1>1. IInv => LaneExclusive
  BY DEF IInv
<1> QED BY Invariance, <1>1, PTL

\* No queued sequence outlives the future that registered it.
THEOREM WaitersOwned == Spec => []NoOrphanWaiter
<1>1. IInv => NoOrphanWaiter
  BY DEF IInv
<1> QED BY Invariance, <1>1, PTL

-----------------------------------------------------------------------------
(* Action properties *)

\* The waiter that heads the lane of a request's own sequence is the one the
\* request queued, so it has the request's priority.
LEMMA HeadIsOwn ==
    ASSUME IInv, NEW r \in Requests, pc[r] \in Queued,
           NEW x \in Live, x.sequence = sequence[r]
    PROVE  x.priority = priority[r]
<1>1. PICK s \in Requests : /\ pc[s] \in Queued
                            /\ sequence[s] = x.sequence
                            /\ priority[s] = x.priority
  BY DEF IInv, NoOrphanWaiter
<1>2. s = r
  BY <1>1 DEF IInv, DistinctSequences
<1> QED BY <1>1, <1>2

\* No live waiter of the lane should have come before the request that a step
\* admits.
LEMMA GrantStep ==
    ASSUME IInv, [Next]_vars, NEW r \in Requests,
           pc[r] # "holding", pc'[r] = "holding", NEW x \in Live
    PROVE  \/ x.workload # workload[r]
           \/ /\ pc[r] # "entered"
              /\ \/ x.sequence = sequence[r]
                 \/ x.priority < priority[r]
                 \/ x.priority = priority[r] /\ x.sequence > sequence[r]
<1>1. TakeIdleLane(r) \/ Admit(r)
  BY DEF IInv, TypeOK, Next, Submit, Try, Finished, vars, Enter, TakeIdleLane, QueueFull,
         Enqueue, Poll, Admit, Stay, Wake, Abort, DropRegistration, Release, Cancel
<1>2. CASE TakeIdleLane(r)
  BY <1>2 DEF TakeIdleLane, Unqueued
<1>3. CASE Admit(r)
  <2>1. pc[r] = "checking"
    BY <1>3 DEF Admit
  <2>2. PICK h \in Live :
          /\ h.sequence = sequence[r]
          /\ h.workload = workload[r]
          /\ \A y \in Live : y.workload = workload[r] /\ y # h => Before(h, y)
    BY <1>3 DEF Admit, Heads
  <2>3. h.priority = priority[r]
    BY <2>1, <2>2, HeadIsOwn
  <2>4. h \in Waiter /\ x \in Waiter
    BY DEF IInv, TypeOK
  <2>5. CASE x.workload # workload[r]
    BY <2>5
  <2>6. CASE x = h
    BY <2>1, <2>2, <2>6
  <2>7. CASE x.workload = workload[r] /\ x # h
    <3>1. Before(h, x)
      BY <2>2, <2>7
    <3>2. /\ h.sequence \in Nat /\ x.sequence \in Nat
          /\ h.priority \in Int /\ x.priority \in Int
      BY <2>4 DEF Waiter, Priorities, Offscreen, Visible
    <3> QED BY <2>1, <2>2, <2>3, <3>1, <3>2 DEF Before
  <2> QED BY <2>5, <2>6, <2>7
<1> QED BY <1>1, <1>2, <1>3

\* Whatever the requests, priorities and cancellations, a lane is granted to
\* its most urgent, then oldest, live request.
THEOREM GrantsOrdered == Spec => GrantsInOrder
<1>1. IInv /\ [Next]_vars =>
        [\A r \in Requests :
            pc[r] # "holding" /\ pc'[r] = "holding" =>
                \A x \in Live :
                    \/ x.workload # workload[r]
                    \/ pc[r] # "entered"
                       /\ \/ x.sequence = sequence[r]
                          \/ x.priority < priority[r]
                          \/ x.priority = priority[r] /\ x.sequence > sequence[r]]_vars
  BY GrantStep
<1> QED BY Invariance, <1>1, PTL DEF Spec, GrantsInOrder

\* A queue without room holds exactly Capacity live waiters.
LEMMA FullQueue ==
    ASSUME IInv, ~Room
    PROVE  Cardinality(Live) = Capacity
<1>1. Live \in SUBSET waiters
  OBVIOUS
<1>2. IsFiniteSet(waiters) /\ Cardinality(waiters) <= Capacity
  BY DEF IInv, TypeOK
<1>3. IsFiniteSet(Live) /\ Cardinality(Live) <= Capacity
  BY <1>1, <1>2, SweepBounded
<1>4. Cardinality(Live) \in Nat
  BY <1>3, FS_CardinalityType
<1> QED BY <1>3, <1>4, CapacityAssumption DEF Room

\* A request is turned away only when the sweep leaves the queue full.
LEMMA RefusalStep ==
    ASSUME IInv, [Next]_vars, NEW r \in Requests, pc[r] # "full", pc'[r] = "full"
    PROVE  /\ Cardinality(waiters') = Capacity
           /\ \A x \in waiters' : ~cancel[x.job]
<1>1. QueueFull(r)
  BY DEF IInv, TypeOK, Next, Submit, Try, Finished, vars, Enter, TakeIdleLane, QueueFull,
         Enqueue, Poll, Admit, Stay, Wake, Abort, DropRegistration, Release, Cancel
<1>2. waiters' = Live /\ ~Room
  BY <1>1 DEF QueueFull
<1>3. Cardinality(waiters') = Capacity
  BY <1>2, FullQueue
<1> QED BY <1>2, <1>3

\* Waiters of cancelled jobs never cost a live request its place.
THEOREM RefusalsJustified == Spec => RefusedOnlyWhenFull
<1>1. IInv /\ [Next]_vars =>
        [\A r \in Requests :
            pc[r] # "full" /\ pc'[r] = "full" =>
                /\ Cardinality(waiters') = Capacity
                /\ \A x \in waiters' : ~cancel[x.job]]_vars
  BY RefusalStep
<1> QED BY Invariance, <1>1, PTL DEF Spec, RefusedOnlyWhenFull

=============================================================================
