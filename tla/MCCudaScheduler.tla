--------------------------- MODULE MCCudaScheduler ---------------------------
(* Model-checking instance of CudaScheduler: requests r1 and r2 belong to    *)
(* one job and share its cancel flag, every other request to a second job.   *)
EXTENDS CudaScheduler, TLC

CONSTANTS r1, r2, r3, r4, j1, j2

MCJobOf == [r \in Requests |-> IF r \in {r1, r2} THEN j1 ELSE j2]

\* A place in an order of the arguments.
Rank(a) == a[2] + IF a[1] = "Vision" THEN 2 ELSE 0

\* Requests of one job are interchangeable, and so are the lanes.  One job asks
\* for one lane at both priorities, the other at any, and at most one of its
\* requests for the second lane: three of a lane fill it and the queue behind it.
MCArguments ==
    {a \in [Requests -> Workloads \X Priorities] :
        /\ a[r1] = <<"Vision", Visible>>
        /\ a[r2] = <<"Vision", Offscreen>>
        /\ a[r3][1] = "Vision"
        /\ Rank(a[r3]) >= Rank(a[r4])}

=============================================================================
