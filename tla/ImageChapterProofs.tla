------------------------- MODULE ImageChapterProofs -------------------------
(***************************************************************************)
(* For any number of images, revisions, runs, events and processors: no    *)
(* image is stuck, and an aborted processor is inert.  The page's calls    *)
(* are functions of the page, so there is a lemma for each of them, and    *)
(* the steps compose those lemmas.                                         *)
(***************************************************************************)
EXTENDS ImageChapter, FiniteSetTheorems, TLAPS

-----------------------------------------------------------------------------
(* The invariant.                                                          *)

Steps == {"idle", "opening", "sent", "refused", "created", "streaming", "stopping", "ending"}
Items == [at : Steps, id : Ids \cup {<<0, 0>>}, run : 0..MaxRuns, index : Nat,
          aborted : BOOLEAN, job : BOOLEAN]
Pages == [present : SUBSET Surfaces, rev : [Surfaces -> 1..Revisions],
          run : 0..MaxRuns, phase : {"idle", "running", "attention", "complete", "cancelled", "failed"},
          scoped : BOOLEAN, timer : {"none", "set", "changed"},
          pending : SUBSET Ids, failedIds : SUBSET Ids, active : [Ids -> 0..Processors],
          stopped : BOOLEAN, queueId : [Surfaces -> 0..Revisions],
          runState : [Surfaces -> {"none", "queued", "running", "complete", "failed"}],
          index : [Surfaces -> Nat], order : SUBSET Nat,
          submitted : SUBSET Nat, submitting : SUBSET Nat,
          slots : [Slots -> Items], left : SUBSET (0..MaxRuns)]

TypeOK ==
  /\ page \in Pages
  /\ start \in [Runs -> {"none", "opening", "closing", "closingReleased", "releasing", "opened",
                         "recovering", "over"}]
  /\ snapshot \in [Runs -> SUBSET Ids]
  /\ close \subseteq Runs /\ release \subseteq Runs /\ chapters \subseteq Runs
  /\ events \in 0..MaxEvents

\* An entry of the queue names a processor of its item; a processor that nobody
\* aborted has an entry.
Entries(p) ==
  /\ \A id \in Ids : p.active[id] # 0 =>
       p.slots[p.active[id]].at # "idle" /\ p.slots[p.active[id]].id = id
  /\ \A k \in Slots :
       IF p.slots[k].at = "idle" THEN p.slots[k] = Idle
       ELSE /\ p.slots[k].id \in Ids
            /\ ~p.slots[k].aborted => p.active[p.slots[k].id] = k

\* The run state, the queue and the keys agree.
Unstuck(p) ==
  /\ \A s \in Surfaces : p.runState[s] = "queued" => <<s, p.queueId[s]>> \in p.pending
  /\ \A s \in Surfaces : p.runState[s] = "running" => <<s, p.queueId[s]>> \in Running(p)
  /\ \A id \in p.pending : p.queueId[id[1]] = id[2] /\ p.runState[id[1]] = "queued"
  /\ \A id \in Running(p) : p.queueId[id[1]] = id[2] /\ p.runState[id[1]] = "running"

\* The queue runs no more than it may, and there is a processor for each place
\* it may still fill.
Roomy(p) ==
  /\ Cardinality(Running(p)) <= MaxConcurrent
  /\ IsRunning(p) \/ ~p.stopped => Cardinality(Aborted(p)) + MaxConcurrent <= Processors

\* Nothing is tracked before the scope of the run is set.
Untracked(p) ==
  p.pending = {} /\ Running(p) = {} /\ \A s \in Surfaces : p.runState[s] = "none"
Scoping(p) == ~p.scoped => Untracked(p)

Good(p) == p \in Pages /\ Entries(p) /\ Unstuck(p) /\ Roomy(p) /\ Scoping(p)

\* Where a run's start() is fixes the scope while it is the current one; the
\* first run has none before it to close.
Unopened == {"opening", "closing", "closingReleased", "releasing", "opened"}
Sessions ==
  /\ page.run = 0 => ~page.scoped /\ ~IsRunning(page)
  /\ \A n \in Runs :
       /\ start[n] = "closing" => n > 1
       /\ Current(page, n) /\ start[n] \in Unopened => ~page.scoped
       /\ Current(page, n) /\ start[n] = "recovering" => page.scoped
       /\ \A x, y \in snapshot[n] : x[1] = y[1] => x = y

IInv == TypeOK /\ Good(page) /\ Sessions

-----------------------------------------------------------------------------
(* Types, and pages that differ in nothing the invariant speaks of.        *)

LEMMA Sizes ==
    /\ Images \in Nat /\ Images > 0 /\ Revisions \in Nat /\ Revisions > 0
    /\ MaxRuns \in Nat /\ MaxRuns > 0 /\ MaxEvents \in Nat
    /\ MaxConcurrent \in Nat /\ MaxConcurrent > 0
    /\ Processors \in Nat /\ Processors > 2 * MaxConcurrent
BY ImageChapterAssumption DEF ImageChapterAssumption

LEMMA FiniteParts ==
    /\ IsFiniteSet(Surfaces) /\ IsFiniteSet(Ids)
    /\ IsFiniteSet(Slots) /\ Cardinality(Slots) = Processors
    /\ \A S \in SUBSET Surfaces : Cardinality(S) \in Nat
<1>1. IsFiniteSet(Surfaces) /\ IsFiniteSet(1..Revisions)
    BY Sizes, FS_Interval DEF Surfaces
<1>2. IsFiniteSet(Ids)
    BY <1>1, FS_Product DEF Ids
<1>3. IsFiniteSet(Slots) /\ Cardinality(Slots) = Processors
    BY Sizes, FS_Interval DEF Slots
<1> QED BY <1>1, <1>2, <1>3, FS_Subset, FS_CardinalityType

LEMMA IdsArePairs ==
    \A id \in Ids : /\ id[1] \in Surfaces /\ id[2] \in 1..Revisions /\ id = <<id[1], id[2]>>
                    /\ id # <<0, 0>>
BY Sizes DEF Ids, Surfaces

LEMMA SlotNumbers ==
    /\ \A k \in Slots : k # 0 /\ k \in 0..Processors
    /\ \A k \in 0..Processors : k # 0 => k \in Slots
BY Sizes DEF Slots

LEMMA ActiveSlot ==
    ASSUME NEW p \in Pages, NEW id \in Ids, p.active[id] # 0
    PROVE  p.active[id] \in Slots
BY SlotNumbers DEF Pages

LEMMA IdleItem == Idle \in Items /\ Idle.at = "idle" /\ Idle.aborted = FALSE /\ Idle.run = 0
BY Sizes DEF Idle, Items, Steps

\* q differs from p in its timer, its phase, its indexes and its order only.
Alike(p, q) ==
  /\ q \in Pages
  /\ q.present = p.present /\ q.rev = p.rev /\ q.run = p.run /\ q.scoped = p.scoped
  /\ q.pending = p.pending /\ q.failedIds = p.failedIds /\ q.active = p.active
  /\ q.stopped = p.stopped /\ q.queueId = p.queueId /\ q.runState = p.runState
  /\ q.slots = p.slots

LEMMA AlikeGood ==
    ASSUME NEW p, NEW q, Good(p), Alike(p, q), IsRunning(q) => IsRunning(p)
    PROVE  Good(q)
<1>1. Running(q) = Running(p) /\ Aborted(q) = Aborted(p)
    BY DEF Alike, Running, Aborted
<1>2. Entries(q) /\ Unstuck(q) /\ Roomy(q) /\ Scoping(q)
    BY <1>1 DEF Good, Alike, Entries, Unstuck, Roomy, Scoping, Untracked
<1> QED BY <1>2 DEF Good, Alike

LEMMA AlikeTransitive ==
    ASSUME NEW p, NEW q, NEW r, Alike(p, q), Alike(q, r) PROVE Alike(p, r)
BY DEF Alike

LEMMA UpdateAlike ==
    ASSUME NEW p \in Pages
    PROVE  Alike(p, Update(p)) /\ (IsRunning(Update(p)) <=> IsRunning(p))
BY DEF Update, Alike, Pages, IsRunning

LEMMA TimerAlike ==
    ASSUME NEW p \in Pages, NEW t \in {"none", "set", "changed"}
    PROVE  /\ Alike(p, [p EXCEPT !.timer = t])
           /\ [p EXCEPT !.timer = t].phase = p.phase
BY DEF Alike, Pages

LEMMA FinishTimerAlike ==
    ASSUME NEW p \in Pages
    PROVE  /\ Alike(p, ScheduleFinish(p)) /\ ScheduleFinish(p).phase = p.phase
           /\ Alike(p, Changed(p)) /\ Changed(p).phase = p.phase
<1>1. Alike(p, p)
    BY DEF Alike
<1> QED BY <1>1, TimerAlike DEF ScheduleFinish, Changed, Pages

LEMMA IncludedAlike ==
    ASSUME NEW p \in Pages, NEW S \in SUBSET Surfaces
    PROVE  Alike(p, Included(p, S)) /\ Included(p, S).phase = p.phase
<1> DEFINE new == {s \in S : p.index[s] = 0}
           old == Cardinality({s \in Surfaces : p.index[s] # 0})
           index == [s \in Surfaces |-> IF s \in new THEN old + Rank(new, s) ELSE p.index[s]]
<1>1. old \in Nat /\ \A s \in Surfaces : Rank(new, s) \in Nat
    BY FiniteParts DEF Rank
<1>2. index \in [Surfaces -> Nat]
    <2> HIDE DEF old, new
    <2> QED BY <1>1 DEF Pages
<1>3. Assigned(p, S) = [p EXCEPT !.index = index]
    BY DEF Assigned, Pages
<1> HIDE DEF index
<1>4. /\ Alike(p, Assigned(p, S)) /\ Assigned(p, S).phase = p.phase
    BY <1>2, <1>3 DEF Alike, Pages
<1>5. \A q \in Pages : LET r == [q EXCEPT !.order = @ \cup {q.index[s] : s \in S}]
                       IN  Alike(q, r) /\ r.phase = q.phase
    BY DEF Alike, Pages
<1> QED BY <1>4, <1>5, AlikeTransitive DEF Included, Alike

LEMMA SettledAlike ==
    ASSUME NEW p \in Pages
    PROVE  Alike(p, Settled(p)) /\ (IsRunning(Settled(p)) <=> IsRunning(p))
BY DEF Settled, Alike, Pages, IsRunning

LEMMA FinishAlike ==
    ASSUME NEW p \in Pages
    PROVE  Alike(p, Finish(p)) /\ (IsRunning(Finish(p)) <=> IsRunning(p))
<1>1. /\ Alike(p, Update(p)) /\ (IsRunning(Update(p)) <=> IsRunning(p))
      /\ Alike(Update(p), ScheduleFinish(Update(p)))
      /\ ScheduleFinish(Update(p)).phase = Update(p).phase
    BY UpdateAlike, FinishTimerAlike DEF Alike
<1> QED BY <1>1, SettledAlike, AlikeTransitive DEF Finish, IsRunning

-----------------------------------------------------------------------------
(* The processors that are under way.                                      *)

Busy(p) == {k \in Slots : p.slots[k].at # "idle"}

LEMMA RunningFinite ==
    ASSUME NEW p
    PROVE  /\ IsFiniteSet(Running(p)) /\ Cardinality(Running(p)) \in Nat
           /\ IsFiniteSet(Aborted(p)) /\ Cardinality(Aborted(p)) \in Nat
           /\ IsFiniteSet(Busy(p)) /\ Cardinality(Busy(p)) \in Nat
BY FiniteParts, FS_Subset, FS_CardinalityType DEF Running, Aborted, Busy

\* A processor is aborted, or is the one of an item that runs.
LEMMA BusyBound ==
    ASSUME NEW p, Entries(p)
    PROVE  Cardinality(Busy(p)) <= Cardinality(Aborted(p)) + Cardinality(Running(p))
<1> DEFINE live == Busy(p) \ Aborted(p)
           id == [k \in live |-> p.slots[k].id]
<1>1. \A k \in live : p.slots[k].id \in Running(p) /\ p.active[p.slots[k].id] = k
    BY SlotNumbers DEF Busy, Aborted, Entries, Running
<1>2. id \in Injection(live, Running(p))
    BY <1>1 DEF Injection, IsInjective
<1>3. Cardinality(live) <= Cardinality(Running(p)) /\ IsFiniteSet(live)
    BY <1>2, RunningFinite, FS_Injection
<1>4. Cardinality(Aborted(p) \cup live) =
        Cardinality(Aborted(p)) + Cardinality(live) - Cardinality(Aborted(p) \cap live)
    BY <1>3, RunningFinite, FS_Union
<1>5. Aborted(p) \cap live = {} /\ Aborted(p) \cup live = Busy(p)
    BY DEF Aborted, Busy
<1>6. Cardinality(Aborted(p) \cap live) = 0
    BY <1>5, FS_EmptySet
<1>7. Cardinality(live) \in Nat
    BY <1>3, FS_CardinalityType
<1>8. Cardinality(Busy(p)) = Cardinality(Aborted(p)) + Cardinality(live) - 0
    BY <1>4, <1>5, <1>6
<1>9. Cardinality(Aborted(p)) \in Nat /\ Cardinality(Running(p)) \in Nat
    BY RunningFinite
<1> HIDE DEF live
<1> QED BY <1>3, <1>7, <1>8, <1>9

LEMMA SubsetOfSize ==
    ASSUME NEW S, IsFiniteSet(S), NEW n \in Nat, n <= Cardinality(S)
    PROVE  \E J \in SUBSET S : Cardinality(J) = n
<1>1. Cardinality(S) \in Nat
    BY FS_CardinalityType
<1>2. PICK f : f \in Bijection(1..Cardinality(S), S)
    BY FS_CardinalityType DEF ExistsBijection
<1> DEFINE g == [i \in 1..n |-> f[i]]
           J == {f[i] : i \in 1..n}
<1>3. 1..n \subseteq 1..Cardinality(S)
    BY <1>1
<1>4. f \in [1..Cardinality(S) -> S] /\ \A i, j \in 1..Cardinality(S) : f[i] = f[j] => i = j
    BY <1>2 DEF Bijection, Injection, IsInjective
<1>5. J \subseteq S
    BY <1>3, <1>4
<1>6. g \in [1..n -> J] /\ (\A i, j \in 1..n : g[i] = g[j] => i = j)
      /\ \A x \in J : \E i \in 1..n : g[i] = x
    BY <1>3, <1>4
<1>7. g \in Bijection(1..n, J)
    BY <1>6 DEF Bijection, Injection, Surjection, IsInjective
<1>8. Cardinality(J) = n
    BY <1>7, FS_CountingElements DEF ExistsBijection
<1> QED BY <1>5, <1>8

\* There is a processor for every place that drain() may fill.
LEMMA FreeProcessors ==
    ASSUME NEW p, Good(p)
    PROVE  /\ Room(p) \in Nat /\ Room(p) <= Cardinality(p.pending)
           /\ Cardinality(Running(p)) + Room(p) <= MaxConcurrent
           /\ \E J \in SUBSET {k \in Slots : p.slots[k].at = "idle"} : Cardinality(J) = Room(p)
<1> DEFINE free == {k \in Slots : p.slots[k].at = "idle"}
<1>1. /\ Cardinality(Running(p)) \in Nat /\ Cardinality(Aborted(p)) \in Nat
      /\ Cardinality(Busy(p)) \in Nat /\ Cardinality(Running(p)) <= MaxConcurrent
    BY RunningFinite DEF Good, Roomy
<1>2. IsFiniteSet(p.pending) /\ Cardinality(p.pending) \in Nat
    BY FiniteParts, FS_Subset, FS_CardinalityType DEF Good, Pages
<1>3. /\ Room(p) \in Nat /\ Room(p) <= Cardinality(p.pending)
      /\ Cardinality(Running(p)) + Room(p) <= MaxConcurrent
    BY <1>1, <1>2, Sizes DEF Room
<1>4. IsFiniteSet(free) /\ Cardinality(free) \in Nat
    BY FiniteParts, FS_Subset, FS_CardinalityType
<1>5. Room(p) <= Cardinality(free)
  <2>1. CASE p.stopped
    BY <1>4, <2>1 DEF Room
  <2>2. CASE ~p.stopped
    <3>1. Cardinality(Aborted(p)) + MaxConcurrent <= Processors
      BY <2>2 DEF Good, Roomy
    <3>2. Cardinality(Slots \ Busy(p)) = Processors - Cardinality(Slots \cap Busy(p))
      BY FiniteParts, FS_Difference
    <3>3. Slots \ Busy(p) = free /\ Slots \cap Busy(p) = Busy(p)
      BY DEF Busy
    <3>4. Cardinality(free) = Processors - Cardinality(Busy(p))
      BY <3>2, <3>3
    <3>5. Cardinality(Busy(p)) <= Cardinality(Aborted(p)) + Cardinality(Running(p))
      BY BusyBound DEF Good
    <3> QED BY <1>1, <1>3, <1>4, <3>1, <3>4, <3>5, Sizes
  <2> QED BY <2>1, <2>2 DEF Good, Pages
<1>6. \E J \in SUBSET free : Cardinality(J) = Room(p)
    BY <1>3, <1>4, <1>5, SubsetOfSize
<1> QED BY <1>3, <1>6

\* drain() can give each item it starts a processor of its own, and then every
\* one of those processors has an item.
LEMMA Matching ==
    ASSUME NEW X, NEW K, IsFiniteSet(X), IsFiniteSet(K), Cardinality(X) = Cardinality(K)
    PROVE  (\E f : f \in Injection(X, K)) /\ Injection(X, K) \subseteq Surjection(X, K)
<1>1. PICK f : f \in Bijection(X, K)
    BY FS_SameCardinalityBij DEF ExistsBijection
<1>2. \A g \in Injection(X, K) : g \in Surjection(X, K)
    BY FS_Injection
<1> QED BY <1>1, <1>2 DEF Bijection

-----------------------------------------------------------------------------
(* drain().                                                                *)

\* What a drain may do to a page: queued images run, on processors that were
\* idle.
Serves(p, q) ==
  /\ q \in Pages
  /\ q.phase = p.phase /\ q.present = p.present /\ q.rev = p.rev /\ q.run = p.run
  /\ q.scoped = p.scoped /\ q.failedIds = p.failedIds /\ q.stopped = p.stopped
  /\ q.queueId = p.queueId /\ q.pending \subseteq p.pending
  /\ \A s \in Surfaces : q.runState[s] # p.runState[s] =>
       p.runState[s] = "queued" /\ q.runState[s] = "running"
  /\ \A k \in Slots : p.slots[k].at # "idle" => q.slots[k] = p.slots[k]

LEMMA BegunItem ==
    ASSUME NEW p \in Pages, NEW id \in Ids
    PROVE  /\ Begun(p, id) \in Items /\ Begun(p, id).id = id
           /\ Begun(p, id).at # "idle" /\ Begun(p, id).aborted = FALSE
           /\ Begun(p, id).run = p.run
<1>1. p.index[id[1]] \in Nat /\ p.run \in 0..MaxRuns /\ 0 \in Nat
    BY IdsArePairs DEF Pages
<1>2. Idle \in [at : Steps, id : Ids \cup {<<0, 0>>}, run : 0..MaxRuns, index : Nat,
                aborted : BOOLEAN, job : BOOLEAN]
    BY IdleItem DEF Items
<1>3. \A i \in Nat, at \in {"opening", "ending"} :
        LET w == [Idle EXCEPT !.id = id, !.run = p.run, !.index = i, !.at = at]
        IN  /\ w \in Items /\ w.id = id /\ w.at # "idle" /\ w.aborted = FALSE /\ w.run = p.run
    BY <1>1, <1>2, IdleItem DEF Items, Steps
<1>4. \E i \in Nat, at \in {"opening", "ending"} :
        Begun(p, id) = [Idle EXCEPT !.id = id, !.run = p.run, !.index = i, !.at = at]
    BY <1>1 DEF Begun
<1> QED BY <1>3, <1>4

\* The items X have begun on the processors K of their own.
LEMMA StartedFields ==
    ASSUME NEW p \in Pages, NEW X \in SUBSET p.pending, NEW K \in SUBSET Slots,
           Cardinality(X) = Cardinality(K), X # {}
    PROVE  LET q == Started(p, X, K) IN
           /\ q \in Pages
           /\ q.phase = p.phase /\ q.present = p.present /\ q.rev = p.rev /\ q.run = p.run
           /\ q.scoped = p.scoped /\ q.failedIds = p.failedIds /\ q.stopped = p.stopped
           /\ q.queueId = p.queueId /\ q.pending = p.pending \ X
           /\ \A id \in Ids : id \notin X => q.active[id] = p.active[id]
           /\ \A id \in X : q.active[id] \in K /\ q.slots[q.active[id]].id = id
           /\ \A k \in Slots : k \notin K => q.slots[k] = p.slots[k]
           /\ \A k \in K : /\ q.slots[k].at # "idle" /\ ~q.slots[k].aborted
                           /\ q.slots[k].id \in X /\ q.active[q.slots[k].id] = k
           /\ \A s \in Surfaces :
                q.runState[s] = IF \E id \in X : id[1] = s THEN "running" ELSE p.runState[s]
<1> DEFINE of == CHOOSE f \in [X -> K] : \A x, y \in X : x # y => f[x] # f[y]
           item(k) == CHOOSE x \in X : of[x] = k
           q0 == IF IsRunning(p) THEN Included(p, {id[1] : id \in X}) ELSE p
           active == [id \in Ids |-> IF id \in X THEN of[id] ELSE p.active[id]]
           slots == [k \in Slots |-> IF k \in K THEN Begun(p, item(k)) ELSE p.slots[k]]
           runState == [s \in Surfaces |-> IF \E id \in X : id[1] = s THEN "running"
                                           ELSE p.runState[s]]
           q == Started(p, X, K)
<1>0. X \subseteq Ids
    BY DEF Pages
<1>1. IsFiniteSet(X) /\ IsFiniteSet(K)
    BY <1>0, FiniteParts, FS_Subset
<1>2. /\ of \in [X -> K]
      /\ \A x, y \in X : of[x] = of[y] => x = y
      /\ \A k \in K : \E x \in X : of[x] = k
  <2>0. (\E f : f \in Injection(X, K)) /\ Injection(X, K) \subseteq Surjection(X, K)
    BY <1>1, Matching
  <2>1. \E f \in [X -> K] : \A x, y \in X : x # y => f[x] # f[y]
    BY <2>0 DEF Injection, IsInjective
  <2>2. of \in [X -> K] /\ \A x, y \in X : x # y => of[x] # of[y]
    BY <2>1
  <2> HIDE DEF of
  <2>3. of \in Injection(X, K)
    BY <2>2 DEF Injection, IsInjective
  <2>4. of \in Surjection(X, K)
    BY <2>0, <2>3
  <2> QED BY <2>2, <2>4 DEF Surjection
<1>3. \A k \in K : item(k) \in X /\ of[item(k)] = k
    <2> HIDE DEF of
    <2> QED BY <1>2
<1>4. Alike(p, q0) /\ q0.phase = p.phase
    <2>1. {id[1] : id \in X} \subseteq Surfaces
      BY <1>0, IdsArePairs
    <2>2. Alike(p, p)
      BY DEF Alike
    <2> QED BY <2>1, <2>2, IncludedAlike
<1>5. q = [q0 EXCEPT !.pending = @ \ X, !.timer = "none",
             !.active = [id \in Ids |-> IF id \in X THEN of[id] ELSE @[id]],
             !.slots = [k \in Slots |-> IF k \in K THEN Begun(p, item(k)) ELSE @[k]],
             !.runState = [s \in Surfaces |-> IF \E id \in X : id[1] = s THEN "running"
                                              ELSE @[s]]]
    BY DEF Started
<1> HIDE DEF of, item, q0, q
<1>6. \A id \in X : item(of[id]) = id /\ of[id] \in K
    BY <1>2, <1>3
<1>7. \A k \in K : item(k) \in Ids
    BY <1>0, <1>3
<1>8. active \in [Ids -> 0..Processors]
    BY <1>2, SlotNumbers DEF Pages
<1>9. slots \in [Slots -> Items]
    BY <1>7, BegunItem DEF Pages
<1>10. runState \in [Surfaces -> {"none", "queued", "running", "complete", "failed"}]
    BY DEF Pages
<1>11. q = [q0 EXCEPT !.pending = p.pending \ X, !.timer = "none", !.active = active,
                      !.slots = slots, !.runState = runState]
    BY <1>4, <1>5 DEF Alike, Pages
<1>12. /\ q.pending = p.pending \ X /\ q.active = active /\ q.slots = slots
       /\ q.runState = runState /\ q \in Pages
       /\ q.phase = p.phase /\ q.present = p.present /\ q.rev = p.rev /\ q.run = p.run
       /\ q.scoped = p.scoped /\ q.failedIds = p.failedIds /\ q.stopped = p.stopped
       /\ q.queueId = p.queueId
    <2> HIDE DEF active, slots, runState
    <2> QED BY <1>4, <1>8, <1>9, <1>10, <1>11 DEF Alike, Pages
<1>13. \A id \in Ids : id \notin X => q.active[id] = p.active[id]
    BY <1>12
<1>14. \A k \in Slots : k \notin K => q.slots[k] = p.slots[k]
    BY <1>12
<1>15. \A k \in K : /\ q.slots[k].id = item(k) /\ q.slots[k].at # "idle"
                    /\ q.slots[k].aborted = FALSE
  <2> TAKE k \in K
  <2>1. q.slots[k] = Begun(p, item(k))
    BY <1>12
  <2>2. \A id \in Ids : /\ Begun(p, id).id = id /\ Begun(p, id).at # "idle"
                        /\ Begun(p, id).aborted = FALSE
    BY BegunItem
  <2> QED BY <1>7, <2>1, <2>2
<1>16. \A id \in X : q.active[id] = of[id]
    BY <1>0, <1>12
<1>17. \A id \in X : q.active[id] \in K /\ q.slots[q.active[id]].id = id
    BY <1>0, <1>6, <1>15, <1>16
<1>18. \A k \in K : /\ q.slots[k].at # "idle" /\ ~q.slots[k].aborted
                    /\ q.slots[k].id \in X /\ q.active[q.slots[k].id] = k
    BY <1>3, <1>7, <1>15, <1>16
<1>19. \A s \in Surfaces :
         q.runState[s] = IF \E id \in X : id[1] = s THEN "running" ELSE p.runState[s]
    BY <1>12
<1> QED BY <1>12, <1>13, <1>14, <1>17, <1>18, <1>19 DEF q

LEMMA StartedGood ==
    ASSUME NEW p, Good(p), NEW X \in SUBSET p.pending, NEW K \in SUBSET Slots,
           \A k \in K : p.slots[k].at = "idle",
           Cardinality(X) = Room(p), Cardinality(K) = Room(p)
    PROVE  Good(Started(p, X, K)) /\ Serves(p, Started(p, X, K))
<1>1. CASE X = {}
    BY <1>1 DEF Started, Serves, Good
<1>2. CASE X # {}
  <2> DEFINE q == Started(p, X, K)
  <2>1. p \in Pages /\ Entries(p) /\ Unstuck(p) /\ X \subseteq Ids /\ 0 \notin K
    BY SlotNumbers DEF Good, Pages
  <2>2. /\ q \in Pages
        /\ q.phase = p.phase /\ q.present = p.present /\ q.rev = p.rev /\ q.run = p.run
        /\ q.scoped = p.scoped /\ q.failedIds = p.failedIds /\ q.stopped = p.stopped
        /\ q.queueId = p.queueId /\ q.pending = p.pending \ X
        /\ \A id \in Ids : id \notin X => q.active[id] = p.active[id]
        /\ \A id \in X : q.active[id] \in K /\ q.slots[q.active[id]].id = id
        /\ \A k \in Slots : k \notin K => q.slots[k] = p.slots[k]
        /\ \A k \in K : /\ q.slots[k].at # "idle" /\ ~q.slots[k].aborted
                        /\ q.slots[k].id \in X /\ q.active[q.slots[k].id] = k
        /\ \A s \in Surfaces :
             q.runState[s] = IF \E id \in X : id[1] = s THEN "running" ELSE p.runState[s]
    BY <1>2, <2>1, StartedFields
  <2> HIDE DEF q
  <2>3. Aborted(q) = Aborted(p)
    BY <2>2 DEF Aborted
  <2>4. \A id \in Running(p) : id \in Ids /\ p.active[id] \in Slots /\ p.active[id] \notin K
    BY <2>1, ActiveSlot DEF Running, Entries
  <2>5. Running(q) = Running(p) \cup X
    <3>1. \A id \in X : id \in Running(q)
      <4> TAKE id \in X
      <4>1. /\ q.active[id] \in K /\ q.active[id] # 0 /\ id \in Ids
            /\ ~q.slots[q.active[id]].aborted
        BY <2>1, <2>2
      <4> QED BY <4>1 DEF Running, Aborted
    <3>2. \A id \in Ids \ X : id \in Running(q) <=> id \in Running(p)
      BY <2>2, <2>3 DEF Running
    <3> QED BY <2>1, <3>1, <3>2 DEF Running
  <2>6. Entries(q)
    <3>1. \A id \in Ids : q.active[id] # 0 =>
            q.slots[q.active[id]].at # "idle" /\ q.slots[q.active[id]].id = id
      <4> TAKE id \in Ids
      <4>1. CASE id \in X
        BY <2>2, <4>1
      <4>2. CASE id \notin X
        BY <2>1, <2>2, <4>2, ActiveSlot DEF Entries
      <4> QED BY <4>1, <4>2
    <3>2. \A k \in Slots :
            IF q.slots[k].at = "idle" THEN q.slots[k] = Idle
            ELSE q.slots[k].id \in Ids /\ (~q.slots[k].aborted => q.active[q.slots[k].id] = k)
      <4> TAKE k \in Slots
      <4>1. CASE k \in K
        BY <2>1, <2>2, <4>1
      <4>2. CASE k \notin K
        <5>1. CASE p.slots[k].at # "idle" /\ ~p.slots[k].aborted
          <6>1. p.slots[k].id \in Running(p)
            BY <2>1, <5>1, SlotNumbers DEF Entries, Running, Aborted
          <6>2. p.slots[k].id \notin X
            BY <2>1, <6>1 DEF Unstuck
          <6> QED BY <2>1, <2>2, <4>2, <6>2 DEF Entries
        <5>2. CASE ~(p.slots[k].at # "idle" /\ ~p.slots[k].aborted)
          BY <2>1, <2>2, <4>2, <5>2 DEF Entries
        <5> QED BY <5>1, <5>2
      <4> QED BY <4>1, <4>2
    <3> QED BY <3>1, <3>2 DEF Entries
  <2>7. Unstuck(q)
    <3>1. \A id \in X : p.queueId[id[1]] = id[2] /\ p.runState[id[1]] = "queued"
      BY <2>1 DEF Unstuck
    <3>2. \A s \in Surfaces : q.runState[s] = "queued" => <<s, q.queueId[s]>> \in q.pending
      <4> SUFFICES ASSUME NEW s \in Surfaces, q.runState[s] = "queued"
                   PROVE  <<s, q.queueId[s]>> \in q.pending
          OBVIOUS
      <4>1. p.runState[s] = "queued" /\ ~\E id \in X : id[1] = s
        BY <2>2
      <4>2. <<s, p.queueId[s]>> \in p.pending /\ <<s, p.queueId[s]>> \notin X
        BY <2>1, <4>1 DEF Unstuck
      <4> QED BY <2>2, <4>2
    <3>3. \A s \in Surfaces : q.runState[s] = "running" => <<s, q.queueId[s]>> \in Running(q)
      <4> SUFFICES ASSUME NEW s \in Surfaces, q.runState[s] = "running"
                   PROVE  <<s, q.queueId[s]>> \in Running(q)
          OBVIOUS
      <4>1. CASE \E id \in X : id[1] = s
        BY <2>1, <2>2, <2>5, <3>1, <4>1, IdsArePairs
      <4>2. CASE p.runState[s] = "running"
        BY <2>1, <2>2, <2>5, <4>2 DEF Unstuck
      <4> QED BY <2>2, <4>1, <4>2
    <3>4. \A id \in q.pending : q.queueId[id[1]] = id[2] /\ q.runState[id[1]] = "queued"
      <4> SUFFICES ASSUME NEW id \in q.pending
                   PROVE  q.queueId[id[1]] = id[2] /\ q.runState[id[1]] = "queued"
          OBVIOUS
      <4>1. id \in Ids /\ id \in p.pending /\ id \notin X
        BY <2>1, <2>2 DEF Pages
      <4>2. p.queueId[id[1]] = id[2] /\ p.runState[id[1]] = "queued"
        BY <2>1, <4>1 DEF Unstuck
      <4>3. \A x \in X : x[1] # id[1]
        BY <2>1, <3>1, <4>1, <4>2, IdsArePairs
      <4> QED BY <2>2, <4>1, <4>2, <4>3, IdsArePairs
    <3>5. \A id \in Running(q) : q.queueId[id[1]] = id[2] /\ q.runState[id[1]] = "running"
      <4> SUFFICES ASSUME NEW id \in Running(q)
                   PROVE  q.queueId[id[1]] = id[2] /\ q.runState[id[1]] = "running"
          OBVIOUS
      <4>1. id[1] \in Surfaces
        BY IdsArePairs DEF Running
      <4>2. CASE id \in X
        BY <2>2, <3>1, <4>1, <4>2
      <4>3. CASE id \in Running(p)
        BY <2>1, <2>2, <4>1, <4>3 DEF Unstuck
      <4> QED BY <2>5, <4>2, <4>3
    <3> QED BY <3>2, <3>3, <3>4, <3>5 DEF Unstuck
  <2>8. Roomy(q)
    <3>1. Cardinality(Running(p) \cup X) =
            Cardinality(Running(p)) + Cardinality(X) - Cardinality(Running(p) \cap X)
      BY <2>1, RunningFinite, FiniteParts, FS_Subset, FS_Union
    <3>2. Running(p) \cap X = {}
      BY <2>1 DEF Unstuck
    <3>3. Cardinality(Running(q)) = Cardinality(Running(p)) + Room(p) - 0
      BY <2>5, <3>1, <3>2, FS_EmptySet
    <3>4. Cardinality(Running(q)) <= MaxConcurrent
      BY <3>3, FreeProcessors, RunningFinite, Sizes
    <3> QED BY <2>2, <2>3, <3>4 DEF Good, Roomy, IsRunning
  <2>9. Scoping(q)
    BY <1>2, <2>2 DEF Good, Scoping, Untracked
  <2>10. Good(q)
    BY <2>2, <2>6, <2>7, <2>8, <2>9 DEF Good
  <2>11. Serves(p, q)
    <3>1. \A s \in Surfaces : q.runState[s] # p.runState[s] =>
            p.runState[s] = "queued" /\ q.runState[s] = "running"
      BY <2>1, <2>2 DEF Unstuck
    <3>2. \A k \in Slots : p.slots[k].at # "idle" => q.slots[k] = p.slots[k]
      BY <2>2
    <3> QED BY <2>2, <3>1, <3>2 DEF Serves
  <2> QED BY <2>10, <2>11 DEF q
<1> QED BY <1>1, <1>2

\* A drain leaves every page good, and only serves it.
LEMMA DrainedGood ==
    ASSUME NEW p, Good(p), NEW q \in Drained({p})
    PROVE  Good(q) /\ Serves(p, q)
<1>1. PICK r \in Starts(p) :
        q = IF ~r.stopped /\ QueueEmpty(r) THEN ScheduleFinish(r) ELSE r
    BY DEF Drained
<1>2. PICK X \in kSubset(Room(p), p.pending),
           K \in {CHOOSE J \in kSubset(Room(p), {k \in Slots : p.slots[k].at = "idle"}) : TRUE} :
        r = Started(p, X, K)
    BY <1>1 DEF Starts
<1>3. \E J \in kSubset(Room(p), {k \in Slots : p.slots[k].at = "idle"}) : TRUE
    BY FreeProcessors DEF kSubset
<1>4. K \in kSubset(Room(p), {k \in Slots : p.slots[k].at = "idle"})
    BY <1>2, <1>3
<1>5. Good(r) /\ Serves(p, r)
    BY <1>2, <1>4, StartedGood DEF kSubset
<1>6. Alike(r, ScheduleFinish(r)) /\ ScheduleFinish(r).phase = r.phase
    BY <1>5, FinishTimerAlike DEF Good
<1>7. Good(ScheduleFinish(r))
    BY <1>5, <1>6, AlikeGood DEF IsRunning
<1>8. Serves(p, ScheduleFinish(r))
    BY <1>5, <1>6 DEF Serves, Alike
<1> QED BY <1>1, <1>5, <1>7, <1>8

-----------------------------------------------------------------------------
(* enqueue().                                                              *)

HasRoom(p) == Cardinality(Aborted(p)) + MaxConcurrent <= Processors
Keyed(Q) == Q \subseteq Ids /\ \A x, y \in Q : x[1] = y[1] => x = y

\* q has the candidates T of Q in its queue, each under the key of its image.
Joins(p, Q, q) ==
  /\ q \in Pages
  /\ q.phase = p.phase /\ q.present = p.present /\ q.rev = p.rev /\ q.run = p.run
  /\ q.scoped = p.scoped /\ q.failedIds = p.failedIds /\ q.active = p.active
  /\ q.slots = p.slots
  /\ \E T \in SUBSET Q :
       /\ q.pending = p.pending \cup T /\ (T = {} => q.stopped = p.stopped)
       /\ \A x \in T : /\ p.runState[x[1]] = "none" /\ p.queueId[x[1]] = 0
                       /\ q.runState[x[1]] = "queued" /\ q.queueId[x[1]] = x[2]
       /\ \A s \in Surfaces : (\A x \in T : x[1] # s) =>
            q.runState[s] = p.runState[s] /\ q.queueId[s] = p.queueId[s]

LEMMA EnqueuedFields ==
    ASSUME NEW p \in Pages, NEW Q, Keyed(Q)
    PROVE  Joins(p, Q, Enqueued(p, Q))
<1> DEFINE wanted == {id \in Q : /\ p.phase # "complete"
                                 /\ p.runState[id[1]] = "none" /\ p.queueId[id[1]] = 0}
           T == wanted \ (p.failedIds \cup p.pending \cup Running(p))
           q0 == Included(p, {id[1] : id \in wanted})
           key(s) == CHOOSE id \in T : id[1] = s
           Taken == {id[1] : id \in T}
           queueId == [s \in Surfaces |-> IF s \in Taken THEN key(s)[2] ELSE p.queueId[s]]
           runState == [s \in Surfaces |-> IF s \in Taken THEN "queued" ELSE p.runState[s]]
           timer == IF wanted = {} THEN q0.timer ELSE "none"
           stopped == q0.stopped /\ T = {}
           q == Enqueued(p, Q)
<1>1. /\ T \subseteq Q /\ wanted \subseteq Ids /\ T \subseteq Ids
      /\ \A x \in T : p.runState[x[1]] = "none" /\ p.queueId[x[1]] = 0
      /\ \A x, y \in T : x[1] = y[1] => x = y
    BY DEF Keyed
<1>2. Alike(p, q0) /\ q0.phase = p.phase
  <2>1. {id[1] : id \in wanted} \subseteq Surfaces
    BY <1>1, IdsArePairs
  <2> HIDE DEF wanted
  <2> QED BY <2>1, IncludedAlike
<1>3. \A x \in T : key(x[1]) = x /\ x[1] \in Surfaces /\ x[2] \in 0..Revisions
  <2> HIDE DEF T
  <2> QED BY <1>1, IdsArePairs
<1>4. queueId \in [Surfaces -> 0..Revisions]
  <2> HIDE DEF T, key
  <2> QED BY <1>3 DEF Pages
<1>5. runState \in [Surfaces -> {"none", "queued", "running", "complete", "failed"}]
  <2> HIDE DEF T
  <2> QED BY DEF Pages
<1>6. q = [q0 EXCEPT !.pending = @ \cup T, !.timer = IF wanted = {} THEN @ ELSE "none",
             !.stopped = @ /\ T = {},
             !.queueId = [s \in Surfaces |-> IF s \in Taken THEN key(s)[2] ELSE @[s]],
             !.runState = [s \in Surfaces |-> IF s \in Taken THEN "queued" ELSE @[s]]]
  BY DEF Enqueued
<1> HIDE DEF T, wanted, q0, key, q
<1>7. q = [q0 EXCEPT !.pending = p.pending \cup T, !.timer = timer, !.stopped = stopped,
                     !.queueId = queueId, !.runState = runState]
  BY <1>2, <1>6 DEF Alike, Pages
<1>8. timer \in {"none", "set", "changed"} /\ stopped \in BOOLEAN
      /\ (T = {} => stopped = p.stopped)
  BY <1>2 DEF Alike, Pages
<1>9. /\ q \in Pages
      /\ q.phase = p.phase /\ q.present = p.present /\ q.rev = p.rev /\ q.run = p.run
      /\ q.scoped = p.scoped /\ q.failedIds = p.failedIds /\ q.active = p.active
      /\ q.slots = p.slots /\ q.pending = p.pending \cup T
      /\ q.queueId = queueId /\ q.runState = runState /\ q.stopped = stopped
  <2> HIDE DEF timer, stopped, queueId, runState
  <2> QED BY <1>1, <1>2, <1>4, <1>5, <1>7, <1>8 DEF Alike, Pages
<1>10. \A x \in T : q.runState[x[1]] = "queued" /\ q.queueId[x[1]] = x[2]
  BY <1>3, <1>9
<1>11. \A s \in Surfaces : (\A x \in T : x[1] # s) =>
         q.runState[s] = p.runState[s] /\ q.queueId[s] = p.queueId[s]
  BY <1>9
<1>12. \E U \in SUBSET Q :
         /\ q.pending = p.pending \cup U /\ (U = {} => q.stopped = p.stopped)
         /\ \A x \in U : /\ p.runState[x[1]] = "none" /\ p.queueId[x[1]] = 0
                         /\ q.runState[x[1]] = "queued" /\ q.queueId[x[1]] = x[2]
         /\ \A s \in Surfaces : (\A x \in U : x[1] # s) =>
              q.runState[s] = p.runState[s] /\ q.queueId[s] = p.queueId[s]
  <2> HIDE DEF stopped, Taken, queueId, runState
  <2>1. T \in SUBSET Q
    BY <1>1
  <2> WITNESS T \in SUBSET Q
  <2> QED BY <1>1, <1>8, <1>9, <1>10, <1>11
<1>13. Joins(p, Q, q)
  BY <1>9, <1>12 DEF Joins
<1> QED BY <1>13 DEF q

LEMMA EnqueuedGood ==
    ASSUME NEW p, Good(p), NEW Q, Keyed(Q), p.scoped, HasRoom(p)
    PROVE  /\ Good(Enqueued(p, Q)) /\ Enqueued(p, Q).phase = p.phase
           /\ Enqueued(p, Q).scoped = p.scoped /\ Enqueued(p, Q).slots = p.slots
           /\ Enqueued(p, Q).run = p.run
<1> DEFINE q == Enqueued(p, Q)
<1>0. Joins(p, Q, q)
  BY EnqueuedFields DEF Good
<1> HIDE DEF q
<1>1. /\ q \in Pages /\ q.phase = p.phase /\ q.scoped = p.scoped /\ q.active = p.active
      /\ q.slots = p.slots /\ q.run = p.run
  BY <1>0 DEF Joins
<1>2. PICK T \in SUBSET Q :
        /\ q.pending = p.pending \cup T /\ (T = {} => q.stopped = p.stopped)
        /\ \A x \in T : /\ p.runState[x[1]] = "none" /\ p.queueId[x[1]] = 0
                        /\ q.runState[x[1]] = "queued" /\ q.queueId[x[1]] = x[2]
        /\ \A s \in Surfaces : (\A x \in T : x[1] # s) =>
             q.runState[s] = p.runState[s] /\ q.queueId[s] = p.queueId[s]
  BY <1>0 DEF Joins
<1>3. Running(q) = Running(p) /\ Aborted(q) = Aborted(p)
  BY <1>1 DEF Running, Aborted
<1>4. T \subseteq Ids /\ Unstuck(p) /\ p.pending \subseteq Ids
  BY DEF Keyed, Good, Pages
<1>5. Unstuck(q)
  <2>1. \A s \in Surfaces : q.runState[s] = "queued" => <<s, q.queueId[s]>> \in q.pending
    <3> SUFFICES ASSUME NEW s \in Surfaces, q.runState[s] = "queued"
                 PROVE  <<s, q.queueId[s]>> \in q.pending
        OBVIOUS
    <3>1. CASE \E x \in T : x[1] = s
      BY <1>2, <1>4, <3>1, IdsArePairs
    <3>2. CASE \A x \in T : x[1] # s
      BY <1>2, <1>4, <3>2 DEF Unstuck
    <3> QED BY <3>1, <3>2
  <2>2. \A s \in Surfaces : q.runState[s] = "running" => <<s, q.queueId[s]>> \in Running(q)
    <3> SUFFICES ASSUME NEW s \in Surfaces, q.runState[s] = "running"
                 PROVE  <<s, q.queueId[s]>> \in Running(q)
        OBVIOUS
    <3>1. \A x \in T : x[1] # s
      BY <1>2
    <3> QED BY <1>2, <1>3, <1>4, <3>1 DEF Unstuck
  <2>3. \A id \in q.pending : q.queueId[id[1]] = id[2] /\ q.runState[id[1]] = "queued"
    <3> SUFFICES ASSUME NEW id \in q.pending
                 PROVE  q.queueId[id[1]] = id[2] /\ q.runState[id[1]] = "queued"
        OBVIOUS
    <3>1. CASE id \in T
      BY <1>2, <3>1
    <3>2. CASE id \in p.pending
      <4>1. p.queueId[id[1]] = id[2] /\ p.runState[id[1]] = "queued" /\ id[1] \in Surfaces
        BY <1>4, <3>2, IdsArePairs DEF Unstuck
      <4> QED BY <1>2, <4>1
    <3> QED BY <1>2, <3>1, <3>2
  <2>4. \A id \in Running(q) : q.queueId[id[1]] = id[2] /\ q.runState[id[1]] = "running"
    <3> SUFFICES ASSUME NEW id \in Running(p)
                 PROVE  q.queueId[id[1]] = id[2] /\ q.runState[id[1]] = "running"
        BY <1>3
    <3>1. p.queueId[id[1]] = id[2] /\ p.runState[id[1]] = "running"
      BY <1>4 DEF Unstuck
    <3>2. id[1] \in Surfaces
      BY IdsArePairs DEF Running
    <3> QED BY <1>2, <3>1, <3>2
  <2> QED BY <2>1, <2>2, <2>3, <2>4 DEF Unstuck
<1>6. Entries(q) /\ Roomy(q) /\ Scoping(q)
  BY <1>1, <1>3 DEF Good, Entries, Roomy, Scoping, HasRoom
<1> QED BY <1>1, <1>5, <1>6 DEF Good, q

\* One candidate enters the queue, which starts what it has room for.
LEMMA EnqueuedOneGood ==
    ASSUME NEW p, Good(p), NEW id \in Ids, p.scoped, HasRoom(p), NEW q \in EnqueuedOne(p, id)
    PROVE  /\ Good(q) /\ q.phase = p.phase /\ q.scoped = p.scoped /\ q.run = p.run
           /\ \A k \in Slots : p.slots[k].at # "idle" => q.slots[k] = p.slots[k]
<1> DEFINE r == Enqueued(p, {id})
<1>1. /\ Good(r) /\ r.phase = p.phase /\ r.scoped = p.scoped /\ r.slots = p.slots
      /\ r.run = p.run
  BY EnqueuedGood DEF Keyed
<1> HIDE DEF r
<1>2. q = r \/ q \in Drained({r})
  BY DEF EnqueuedOne, r
<1>3. CASE q = r
  BY <1>1, <1>3
<1>4. CASE q \in Drained({r})
  <2>1. Good(q) /\ Serves(r, q)
    BY <1>1, <1>4, DrainedGood
  <2> QED BY <1>1, <2>1 DEF Serves
<1> QED BY <1>2, <1>3, <1>4

-----------------------------------------------------------------------------
(* The processors' own steps.                                              *)

\* q differs from p in what Alike allows, in the images there are, and in how
\* far a processor has come.
Near(p, q) ==
  /\ q \in Pages
  /\ q.run = p.run /\ q.scoped = p.scoped /\ q.stopped = p.stopped
  /\ q.pending = p.pending /\ q.failedIds = p.failedIds /\ q.active = p.active
  /\ q.queueId = p.queueId /\ q.runState = p.runState
  /\ \A k \in Slots :
       IF p.slots[k].at = "idle" THEN q.slots[k] = p.slots[k]
       ELSE /\ q.slots[k].at # "idle" /\ q.slots[k].id = p.slots[k].id
            /\ q.slots[k].aborted = p.slots[k].aborted

LEMMA NearGood ==
    ASSUME NEW p, NEW q, Good(p), Near(p, q), IsRunning(q) => IsRunning(p)
    PROVE  /\ Good(q) /\ Running(q) = Running(p) /\ Aborted(q) = Aborted(p)
<1>1. Aborted(q) = Aborted(p)
    BY DEF Near, Aborted
<1>2. Running(q) = Running(p)
    BY <1>1 DEF Near, Running
<1>3. Entries(q)
  <2>1. \A id \in Ids : q.active[id] # 0 =>
          q.slots[q.active[id]].at # "idle" /\ q.slots[q.active[id]].id = id
    BY ActiveSlot DEF Good, Near, Entries
  <2>2. \A k \in Slots :
          IF q.slots[k].at = "idle" THEN q.slots[k] = Idle
          ELSE /\ q.slots[k].id \in Ids
               /\ ~q.slots[k].aborted => q.active[q.slots[k].id] = k
    BY DEF Good, Near, Entries
  <2> QED BY <2>1, <2>2 DEF Entries
<1>4. Unstuck(q) /\ Roomy(q) /\ Scoping(q)
    BY <1>1, <1>2 DEF Good, Near, Unstuck, Roomy, Scoping, Untracked
<1> QED BY <1>1, <1>2, <1>3, <1>4 DEF Good, Near

LEMMA AlikeNear ==
    ASSUME NEW p, NEW q, Good(p), Alike(p, q) PROVE Near(p, q)
BY DEF Good, Alike, Near

\* The item of the processor k is over with the run state st, or was aborted.
Ended(p, q, k) ==
  /\ q \in Pages
  /\ q.phase = p.phase /\ q.run = p.run /\ q.scoped = p.scoped /\ q.stopped = p.stopped
  /\ q.pending = p.pending
  /\ \A id \in Ids : q.active[id] = IF p.active[id] = k THEN 0 ELSE p.active[id]
  /\ q.slots[k] = Idle /\ \A j \in Slots : j # k => q.slots[j] = p.slots[j]
  /\ IF p.slots[k].aborted
     THEN q.runState = p.runState /\ q.queueId = p.queueId /\ q.failedIds = p.failedIds
     ELSE LET s == p.slots[k].id[1] IN
          /\ q.runState[s] \in {"complete", "failed"}
          /\ \A t \in Surfaces : t # s =>
               q.runState[t] = p.runState[t] /\ q.queueId[t] = p.queueId[t]

LEMMA EndedGood ==
    ASSUME NEW p, NEW k \in Slots, NEW q, Good(p), p.slots[k].at # "idle", Ended(p, q, k)
    PROVE  Good(q)
<1> DEFINE w == p.slots[k]
<1>1. p \in Pages /\ Entries(p) /\ Unstuck(p) /\ Roomy(p) /\ Scoping(p) /\ w.id \in Ids
      /\ w.id[1] \in Surfaces
    BY IdsArePairs DEF Good, Entries
<1>2. Aborted(q) = Aborted(p) \ {k}
    BY IdleItem DEF Ended, Aborted
<1>3. \A id \in Ids : p.active[id] = k => id = w.id
    BY <1>1, SlotNumbers DEF Entries
<1>4. Running(q) = IF w.aborted THEN Running(p) ELSE Running(p) \ {w.id}
  <2>1. CASE w.aborted
    <3>1. \A id \in Ids : id \in Running(q) <=> id \in Running(p)
      BY <1>1, <1>2, <2>1 DEF Ended, Running, Aborted
    <3> QED BY <2>1, <3>1 DEF Running
  <2>2. CASE ~w.aborted
    <3>1. p.active[w.id] = k /\ k \notin Aborted(p)
      BY <1>1, <2>2 DEF Entries, Aborted
    <3>2. \A id \in Ids : id \in Running(q) <=> id \in Running(p) /\ id # w.id
      BY <1>1, <1>2, <1>3, <3>1 DEF Ended, Running
    <3> QED BY <2>2, <3>2 DEF Running
  <2> QED BY <2>1, <2>2
<1>5. Entries(q)
  <2>1. \A id \in Ids : q.active[id] # 0 =>
          q.slots[q.active[id]].at # "idle" /\ q.slots[q.active[id]].id = id
    BY <1>1, ActiveSlot DEF Ended, Entries
  <2>2. \A j \in Slots :
          IF q.slots[j].at = "idle" THEN q.slots[j] = Idle
          ELSE /\ q.slots[j].id \in Ids
               /\ ~q.slots[j].aborted => q.active[q.slots[j].id] = j
    BY <1>1, IdleItem DEF Ended, Entries
  <2> QED BY <2>1, <2>2 DEF Entries
<1>6. Unstuck(q)
  <2>1. CASE w.aborted
    BY <1>1, <1>4, <2>1 DEF Ended, Unstuck
  <2>2. CASE ~w.aborted
    <3> DEFINE s == w.id[1]
    <3>1. w.id \in Running(p)
      BY <1>1, <2>2, SlotNumbers DEF Entries, Running, Aborted
    <3>2. p.queueId[s] = w.id[2] /\ p.runState[s] = "running"
      BY <1>1, <3>1 DEF Unstuck
    <3>3. /\ q.runState[s] \in {"complete", "failed"} /\ q.pending = p.pending
          /\ \A t \in Surfaces : t # s =>
               q.runState[t] = p.runState[t] /\ q.queueId[t] = p.queueId[t]
      BY <2>2 DEF Ended
    <3>4. \A t \in Surfaces : q.runState[t] = "queued" => <<t, q.queueId[t]>> \in q.pending
      BY <1>1, <3>3 DEF Unstuck
    <3>5. \A t \in Surfaces : q.runState[t] = "running" => <<t, q.queueId[t]>> \in Running(q)
      BY <1>1, <1>4, <2>2, <3>3, IdsArePairs DEF Unstuck
    <3>6. \A id \in q.pending : q.queueId[id[1]] = id[2] /\ q.runState[id[1]] = "queued"
      BY <1>1, <3>2, <3>3, IdsArePairs DEF Unstuck, Pages
    <3>7. \A id \in Running(q) : q.queueId[id[1]] = id[2] /\ q.runState[id[1]] = "running"
      <4> SUFFICES ASSUME NEW id \in Running(q)
                   PROVE  q.queueId[id[1]] = id[2] /\ q.runState[id[1]] = "running"
          OBVIOUS
      <4>1. id \in Running(p) /\ id # w.id /\ id \in Ids
        BY <1>4, <2>2 DEF Running
      <4>2. p.queueId[id[1]] = id[2] /\ p.runState[id[1]] = "running"
        BY <1>1, <4>1 DEF Unstuck
      <4>3. id[1] # s /\ id[1] \in Surfaces
        BY <1>1, <3>2, <4>1, <4>2, IdsArePairs
      <4> QED BY <3>3, <4>2, <4>3
    <3> QED BY <3>4, <3>5, <3>6, <3>7 DEF Unstuck
  <2> QED BY <2>1, <2>2
<1>7. Roomy(q)
  <2>1. Running(q) \subseteq Running(p) /\ Aborted(q) \subseteq Aborted(p)
    BY <1>2, <1>4
  <2>2. /\ Cardinality(Running(q)) <= Cardinality(Running(p))
        /\ Cardinality(Aborted(q)) <= Cardinality(Aborted(p))
    BY <2>1, RunningFinite, FS_Subset
  <2>3. IsRunning(q) = IsRunning(p) /\ q.stopped = p.stopped
    BY DEF Ended, IsRunning
  <2> QED BY <1>1, <2>2, <2>3, RunningFinite, Sizes DEF Roomy
<1>8. Scoping(q)
  <2>1. CASE w.aborted
    BY <1>1, <1>4, <2>1 DEF Ended, Scoping, Untracked
  <2>2. CASE ~w.aborted
    <3>1. w.id \in Running(p)
      BY <1>1, <2>2, SlotNumbers DEF Entries, Running, Aborted
    <3> QED BY <1>1, <3>1 DEF Ended, Scoping, Untracked
  <2> QED BY <2>1, <2>2
<1> QED BY <1>5, <1>6, <1>7, <1>8 DEF Good, Ended

LEMMA ForgottenFields ==
    ASSUME NEW p \in Pages, NEW k \in Slots
    PROVE  LET q == Forgotten(p, k) IN
           /\ q \in Pages /\ q.slots[k] = Idle
           /\ \A id \in Ids : q.active[id] = IF p.active[id] = k THEN 0 ELSE p.active[id]
           /\ \A j \in Slots : j # k => q.slots[j] = p.slots[j]
           /\ q.present = p.present /\ q.rev = p.rev /\ q.phase = p.phase
           /\ q.run = p.run /\ q.scoped = p.scoped /\ q.stopped = p.stopped
           /\ q.pending = p.pending /\ q.failedIds = p.failedIds
           /\ q.runState = p.runState /\ q.queueId = p.queueId
<1> DEFINE active == [id \in Ids |-> IF p.active[id] = k THEN 0 ELSE p.active[id]]
           slots == [p.slots EXCEPT ![k] = Idle]
<1>1. active \in [Ids -> 0..Processors]
    BY Sizes DEF Pages
<1>2. slots \in [Slots -> Items] /\ slots[k] = Idle
      /\ \A j \in Slots : j # k => slots[j] = p.slots[j]
    BY IdleItem DEF Pages
<1>3. Forgotten(p, k) = [p EXCEPT !.active = active, !.slots = slots]
    BY DEF Forgotten, Pages
<1>4. \A id \in Ids : active[id] = IF p.active[id] = k THEN 0 ELSE p.active[id]
    OBVIOUS
<1> HIDE DEF active, slots
<1>5. /\ Forgotten(p, k) \in Pages
      /\ Forgotten(p, k).active = active /\ Forgotten(p, k).slots = slots
    BY <1>1, <1>2, <1>3 DEF Pages
<1>6. LET q == Forgotten(p, k) IN
           /\ q.present = p.present /\ q.rev = p.rev /\ q.phase = p.phase
           /\ q.run = p.run /\ q.scoped = p.scoped /\ q.stopped = p.stopped
           /\ q.pending = p.pending /\ q.failedIds = p.failedIds
           /\ q.runState = p.runState /\ q.queueId = p.queueId
    BY <1>3 DEF Pages
<1> QED BY <1>2, <1>4, <1>5, <1>6

LEMMA AbortedEnded ==
    ASSUME NEW p \in Pages, NEW k \in Slots, p.slots[k].aborted
    PROVE  Ended(p, Forgotten(p, k), k)
BY ForgottenFields DEF Ended

\* onFailure and onSuccess give the image its last state.
LEMMA SettledEnded ==
    ASSUME NEW p \in Pages, NEW k \in Slots, ~p.slots[k].aborted, p.slots[k].id \in Ids,
           NEW st \in {"complete", "failed"}, NEW failed \in SUBSET Ids, NEW v \in 0..Revisions
    PROVE  LET s == p.slots[k].id[1]
           IN  /\ Ended(p, [Forgotten(p, k) EXCEPT !.failedIds = failed, !.runState[s] = st], k)
               /\ Ended(p, [Forgotten(p, k) EXCEPT !.queueId[s] = v, !.runState[s] = st], k)
<1> DEFINE s == p.slots[k].id[1]
           q0 == Forgotten(p, k)
           q1 == [q0 EXCEPT !.failedIds = failed, !.runState[s] = st]
           q2 == [q0 EXCEPT !.queueId[s] = v, !.runState[s] = st]
<1>1. s \in Surfaces
    BY IdsArePairs
<1>2. /\ q0 \in Pages /\ q0.slots[k] = Idle
      /\ \A id \in Ids : q0.active[id] = IF p.active[id] = k THEN 0 ELSE p.active[id]
      /\ \A j \in Slots : j # k => q0.slots[j] = p.slots[j]
      /\ q0.phase = p.phase
      /\ q0.run = p.run /\ q0.scoped = p.scoped /\ q0.stopped = p.stopped
      /\ q0.pending = p.pending
      /\ q0.runState = p.runState /\ q0.queueId = p.queueId
    BY ForgottenFields
<1> HIDE DEF s, q0
<1>3. /\ q1 \in Pages /\ q2 \in Pages
      /\ q1.active = q0.active /\ q2.active = q0.active
      /\ q1.slots = q0.slots /\ q2.slots = q0.slots
      /\ q1.phase = p.phase /\ q1.run = p.run /\ q1.scoped = p.scoped
      /\ q1.stopped = p.stopped /\ q1.pending = p.pending
      /\ q2.phase = p.phase /\ q2.run = p.run /\ q2.scoped = p.scoped
      /\ q2.stopped = p.stopped /\ q2.pending = p.pending
      /\ q1.runState[s] = st /\ q2.runState[s] = st
      /\ \A t \in Surfaces : t # s =>
           /\ q1.runState[t] = p.runState[t] /\ q1.queueId[t] = p.queueId[t]
           /\ q2.runState[t] = p.runState[t] /\ q2.queueId[t] = p.queueId[t]
    BY <1>1, <1>2 DEF Pages
<1> HIDE DEF q1, q2
<1>4. Ended(p, q1, k) /\ Ended(p, q2, k)
    BY <1>2, <1>3 DEF Ended, s
<1> QED BY <1>4 DEF q0, q1, q2, s

\* finally has nothing left to delete after onFailure.
LEMMA ForgottenAgain ==
    ASSUME NEW p \in Pages, NEW k \in Slots, p.slots[k] = Idle, \A id \in Ids : p.active[id] # k
    PROVE  Alike(p, Forgotten(p, k)) /\ Forgotten(p, k).phase = p.phase
<1>1. [id \in Ids |-> IF p.active[id] = k THEN 0 ELSE p.active[id]] = p.active
    BY DEF Pages
<1>2. [p.slots EXCEPT ![k] = Idle] = p.slots
    BY DEF Pages
<1>3. Forgotten(p, k) = [p EXCEPT !.active = p.active, !.slots = p.slots]
    BY <1>1, <1>2 DEF Forgotten, Pages
<1> QED BY <1>3 DEF Alike, Pages

LEMMA CaughtAlike ==
    ASSUME NEW p \in Pages, NEW k \in Slots
    PROVE  Alike(p, Caught(p, k)) /\ Caught(p, k).phase = p.phase
<1>1. p.slots[k].run \in 0..MaxRuns
    BY DEF Pages, Items
<1> QED BY <1>1 DEF Caught, Alike, Pages

\* What an aborted processor may do to the images.
Inert(p, q) ==
  /\ q.phase = p.phase /\ q.failedIds = p.failedIds /\ q.queueId = p.queueId
  /\ \A s \in Surfaces : q.runState[s] # p.runState[s] =>
       p.runState[s] = "queued" /\ q.runState[s] = "running"

\* The end of a processor's item, and the drain that comes after it.
Finishes(p, q, k) ==
  /\ Good(q) /\ q.phase = p.phase /\ q.run = p.run /\ q.scoped = p.scoped
  /\ \A j \in Slots : j # k /\ p.slots[j].at # "idle" => q.slots[j] = p.slots[j]
  /\ p.slots[k].aborted => Inert(p, q)

LEMMA EndedFinishes ==
    ASSUME NEW p, NEW k \in Slots, Good(p), p.slots[k].at # "idle",
           NEW r, Ended(p, r, k), NEW t, Alike(r, t), t.phase = r.phase, NEW q \in Drained({t})
    PROVE  Finishes(p, q, k)
<1>1. Good(r)
    BY EndedGood
<1>2. Good(t)
    BY <1>1, AlikeGood DEF IsRunning
<1>3. Good(q) /\ Serves(t, q)
    BY <1>2, DrainedGood
<1>4. q.phase = p.phase /\ q.run = p.run /\ q.scoped = p.scoped
      /\ \A j \in Slots : j # k /\ p.slots[j].at # "idle" => q.slots[j] = p.slots[j]
    BY <1>3 DEF Ended, Alike, Serves
<1>5. p.slots[k].aborted => Inert(p, q)
    BY <1>3 DEF Ended, Alike, Serves, Inert
<1> QED BY <1>3, <1>4, <1>5 DEF Finishes

LEMMA FailsFinishes ==
    ASSUME NEW p, NEW k \in Slots, Good(p), p.slots[k].at # "idle", Fails(p, k)
    PROVE  Finishes(p, page', k) /\ UNCHANGED <<start, snapshot, close, release, chapters, events>>
<1> DEFINE c == Caught(p, k)
           f == OnFailure(c, k)
<1>1. PICK q \in Drained({Forgotten(f, k)}) : Only(q)
    BY DEF Fails
<1>2. page' = q /\ UNCHANGED <<start, snapshot, close, release, chapters, events>>
    BY <1>1 DEF Only
<1>3. Alike(p, c) /\ c.phase = p.phase
    BY CaughtAlike DEF Good
<1>4. Good(c) /\ c \in Pages /\ c.slots = p.slots
    BY <1>3, AlikeGood DEF IsRunning, Good, Alike
<1> HIDE DEF c
<1>5. Finishes(c, q, k)
  <2>1. CASE c.slots[k].aborted
    <3>1. f = c
      BY <2>1 DEF OnFailure
    <3>2. Ended(c, Forgotten(c, k), k) /\ Forgotten(c, k) \in Pages
      BY <1>4, <2>1, AbortedEnded, ForgottenFields
    <3>3. Alike(Forgotten(c, k), Forgotten(c, k))
      BY <3>2 DEF Alike
    <3> HIDE DEF f
    <3> QED BY <1>1, <1>4, <3>1, <3>2, <3>3, EndedFinishes
  <2>2. CASE ~c.slots[k].aborted
    <3> DEFINE failed == [Forgotten(c, k) EXCEPT !.failedIds = @ \cup {c.slots[k].id},
                                                 !.runState[c.slots[k].id[1]] = "failed"]
    <3>1. f = ScheduleFinish(failed)
      BY <2>2 DEF OnFailure
    <3>2. c.slots[k].id \in Ids
      BY <1>4 DEF Good, Entries
    <3>3. Ended(c, failed, k) /\ failed \in Pages
      <4>1. Forgotten(c, k) \in Pages
        BY <1>4, ForgottenFields
      <4>2. Forgotten(c, k).failedIds \cup {c.slots[k].id} \in SUBSET Ids
        BY <3>2, <4>1 DEF Pages
      <4>3. failed = [Forgotten(c, k) EXCEPT
                        !.failedIds = Forgotten(c, k).failedIds \cup {c.slots[k].id},
                        !.runState[c.slots[k].id[1]] = "failed"]
        BY <4>1 DEF Pages
      <4>4. 0 \in 0..Revisions
        BY Sizes
      <4>5. Ended(c, failed, k)
        <5> HIDE DEF failed
        <5> QED BY <1>4, <2>2, <3>2, <4>2, <4>3, <4>4, SettledEnded
      <4> QED BY <4>5 DEF Ended
    <3> HIDE DEF failed, f
    <3>4. Alike(failed, f) /\ f.phase = failed.phase
      BY <3>1, <3>3, FinishTimerAlike
    <3>5. f \in Pages /\ f.slots[k] = Idle /\ \A id \in Ids : f.active[id] # k
      BY <3>3, <3>4, SlotNumbers DEF Ended, Alike
    <3>6. Alike(f, Forgotten(f, k)) /\ Forgotten(f, k).phase = f.phase
      BY <3>5, ForgottenAgain
    <3>7. Alike(failed, Forgotten(f, k)) /\ Forgotten(f, k).phase = failed.phase
      BY <3>4, <3>6, AlikeTransitive
    <3> QED BY <1>1, <1>4, <3>3, <3>7, EndedFinishes
  <2> QED BY <2>1, <2>2
<1>6. Finishes(p, q, k)
    BY <1>3, <1>5 DEF Finishes, Inert, Alike
<1> QED BY <1>2, <1>6

-----------------------------------------------------------------------------
(* abort(), and the calls that abort.                                      *)

\* Room for the processors the queue may start while the aborted ones go on.
Ample(p) == Cardinality(Aborted(p)) + 2 * MaxConcurrent <= Processors

LEMMA AmpleHasRoom ==
    ASSUME NEW p, Ample(p) PROVE HasRoom(p)
BY Sizes, RunningFinite DEF Ample, HasRoom

\* q is p with the processors K aborted.
Aborts(p, q, K) ==
  /\ q.slots \in [Slots -> Items]
  /\ \A k \in Slots : /\ q.slots[k].at = p.slots[k].at /\ q.slots[k].id = p.slots[k].id
                      /\ q.slots[k].aborted = (p.slots[k].aborted \/ k \in K)
                      /\ k \notin K => q.slots[k] = p.slots[k]

LEMMA AbortFields ==
    ASSUME NEW p \in Pages, NEW K \in SUBSET Slots, NEW silent \in BOOLEAN
    PROVE  LET q == Abort(p, K, silent) IN
           /\ Aborts(p, q, K) /\ q = [p EXCEPT !.slots = q.slots]
<1> DEFINE slots == [k \in Slots |->
                       IF k \notin K \/ p.slots[k].aborted THEN p.slots[k]
                       ELSE [p.slots[k] EXCEPT !.aborted = TRUE,
                               !.job = p.slots[k].job
                                         /\ (silent \/ p.slots[k].at = "created")]]
<1>1. Abort(p, K, silent) = [p EXCEPT !.slots = slots]
    BY DEF Abort, Pages
<1>2. \A k \in Slots :
        /\ slots[k] \in Items /\ slots[k].at = p.slots[k].at /\ slots[k].id = p.slots[k].id
        /\ slots[k].aborted = (p.slots[k].aborted \/ k \in K)
        /\ k \notin K => slots[k] = p.slots[k]
  <2> SUFFICES ASSUME NEW k \in Slots
               PROVE  /\ slots[k] \in Items /\ slots[k].at = p.slots[k].at
                      /\ slots[k].id = p.slots[k].id
                      /\ slots[k].aborted = (p.slots[k].aborted \/ k \in K)
                      /\ k \notin K => slots[k] = p.slots[k]
      OBVIOUS
  <2>1. p.slots[k] \in Items
    BY DEF Pages
  <2>2. \A w \in Items : \A job \in BOOLEAN :
          LET v == [w EXCEPT !.aborted = TRUE, !.job = w.job /\ job]
          IN  v \in Items /\ v.at = w.at /\ v.id = w.id /\ v.aborted = TRUE
    BY DEF Items
  <2>3. CASE k \notin K \/ p.slots[k].aborted
    <3>1. slots[k] = p.slots[k]
      BY <2>3
    <3>2. p.slots[k].aborted \in BOOLEAN
      BY <2>1 DEF Items
    <3> HIDE DEF slots
    <3> QED BY <2>1, <2>3, <3>1, <3>2
  <2>4. CASE k \in K /\ ~p.slots[k].aborted
    <3>1. slots[k] = [p.slots[k] EXCEPT !.aborted = TRUE,
                        !.job = p.slots[k].job /\ (silent \/ p.slots[k].at = "created")]
      BY <2>4
    <3> HIDE DEF slots
    <3> QED BY <2>1, <2>2, <2>4, <3>1
  <2> QED BY <2>3, <2>4
<1>3. slots \in [Slots -> Items]
    BY <1>2
<1> HIDE DEF slots
<1>4. Abort(p, K, silent).slots = slots
    BY <1>1 DEF Pages
<1> QED BY <1>1, <1>2, <1>3, <1>4 DEF Aborts

LEMMA AbortedParts ==
    ASSUME NEW p, NEW q, Good(p), NEW K \in SUBSET Busy(p), Aborts(p, q, K), q.active = p.active
    PROVE  /\ Entries(q) /\ Aborted(q) = Aborted(p) \cup K
           /\ Running(q) = {id \in Running(p) : p.active[id] \notin K}
           /\ Cardinality(Running(q)) <= MaxConcurrent
           /\ Cardinality(Aborted(q)) <= Processors
           /\ Ample(p) => HasRoom(q)
<1>1. p \in Pages /\ Entries(p) /\ Cardinality(Running(p)) <= MaxConcurrent
    BY DEF Good, Roomy
<1>2. Aborted(q) = Aborted(p) \cup K
    BY DEF Aborts, Aborted, Busy
<1>3. Running(q) = {id \in Running(p) : p.active[id] \notin K}
    BY <1>2 DEF Running
<1>4. Entries(q)
  <2>1. \A id \in Ids : q.active[id] # 0 =>
          q.slots[q.active[id]].at # "idle" /\ q.slots[q.active[id]].id = id
    BY <1>1, ActiveSlot DEF Aborts, Entries
  <2>2. ASSUME NEW j \in Slots
        PROVE  IF q.slots[j].at = "idle" THEN q.slots[j] = Idle
               ELSE /\ q.slots[j].id \in Ids
                    /\ ~q.slots[j].aborted => q.active[q.slots[j].id] = j
    <3>1. CASE p.slots[j].at = "idle"
      <4>1. j \notin K
        BY <3>1 DEF Busy
      <4> QED BY <1>1, <3>1, <4>1 DEF Aborts, Entries
    <3>2. CASE p.slots[j].at # "idle"
      BY <1>1, <3>2 DEF Aborts, Entries
    <3> QED BY <3>1, <3>2
  <2> QED BY <2>1, <2>2 DEF Entries
<1>5. Cardinality(Running(q)) <= MaxConcurrent
  <2>1. Cardinality(Running(q)) <= Cardinality(Running(p))
    BY <1>3, RunningFinite, FS_Subset
  <2> QED BY <1>1, <2>1, RunningFinite, Sizes
<1>6. Cardinality(Aborted(q)) <= Processors
  <2>1. Aborted(q) \subseteq Slots
    BY DEF Aborted
  <2> QED BY <2>1, FiniteParts, FS_Subset
<1>7. ASSUME Ample(p) PROVE HasRoom(q)
  <2>1. Aborted(q) \subseteq Busy(p)
    BY <1>2 DEF Aborted, Busy
  <2>2. Cardinality(Aborted(q)) <= Cardinality(Busy(p))
    BY <2>1, RunningFinite, FS_Subset
  <2>3. Cardinality(Busy(p)) <= Cardinality(Aborted(p)) + Cardinality(Running(p))
    BY <1>1, BusyBound
  <2>4. /\ Cardinality(Aborted(q)) \in Nat /\ Cardinality(Busy(p)) \in Nat
        /\ Cardinality(Aborted(p)) \in Nat /\ Cardinality(Running(p)) \in Nat
    BY RunningFinite
  <2> QED BY <1>1, <1>7, <2>2, <2>3, <2>4, Sizes DEF Ample, HasRoom
<1> QED BY <1>2, <1>3, <1>4, <1>5, <1>6, <1>7

LEMMA ActiveBusy ==
    ASSUME NEW p, Good(p), NEW I \in SUBSET Ids
    PROVE  ActiveSlots(p, I) \subseteq Busy(p) /\ ActiveSlots(p, I) \subseteq Slots
BY ActiveSlot DEF Good, ActiveSlots, Busy, Entries

\* restoreAll() leaves nothing tracked and the queue stopped.
LEMMA RestoreAllParts ==
    ASSUME NEW p, Good(p)
    PROVE  LET q == RestoreAll(p) IN
           /\ q \in Pages /\ Entries(q) /\ Unstuck(q) /\ Untracked(q) /\ q.stopped
           /\ Cardinality(Running(q)) <= MaxConcurrent
           /\ Ample(p) => HasRoom(q)
           /\ q.phase = p.phase /\ q.run = p.run /\ q.scoped = p.scoped
           /\ \A k \in Slots : q.slots[k].at = p.slots[k].at
<1> DEFINE K == ActiveSlots(p, Ids)
           r == Abort(p, K, TRUE)
           q == RestoreAll(p)
<1>1. p \in Pages /\ K \subseteq Busy(p) /\ K \subseteq Slots
    BY ActiveBusy DEF Good
<1> HIDE DEF K
<1>2. Aborts(p, r, K) /\ r = [p EXCEPT !.slots = r.slots]
    BY <1>1, AbortFields
<1>3. q = [r EXCEPT !.timer = "none", !.stopped = TRUE, !.pending = {}, !.failedIds = {},
             !.queueId = [s \in Surfaces |-> 0], !.runState = [s \in Surfaces |-> "none"],
             !.index = [s \in Surfaces |-> 0], !.order = {}, !.submitted = {}, !.submitting = {}]
    BY DEF RestoreAll, K
<1> HIDE DEF r, q
<1>4. /\ r.slots \in [Slots -> Items] /\ r \in Pages
      /\ r.phase = p.phase /\ r.run = p.run /\ r.scoped = p.scoped /\ r.active = p.active
    BY <1>1, <1>2 DEF Aborts, Pages
<1>5. 0 \in 0..Revisions
    BY Sizes
<1>6. /\ q \in Pages /\ q.slots = r.slots /\ q.active = p.active
      /\ q.phase = p.phase /\ q.run = p.run /\ q.scoped = p.scoped
      /\ q.stopped = TRUE /\ q.pending = {}
      /\ q.runState = [s \in Surfaces |-> "none"]
    BY <1>3, <1>4, <1>5 DEF Pages
<1>7. Aborts(p, q, K)
    BY <1>2, <1>6 DEF Aborts
<1>8. /\ Entries(q) /\ Running(q) = {id \in Running(p) : p.active[id] \notin K}
      /\ Cardinality(Running(q)) <= MaxConcurrent
      /\ Ample(p) => HasRoom(q)
    BY <1>1, <1>6, <1>7, AbortedParts
<1>9. Running(q) = {}
  <2>1. \A id \in Running(p) : p.active[id] \in K
    BY DEF Running, K, ActiveSlots
  <2> QED BY <1>8, <2>1
<1>10. Untracked(q) /\ Unstuck(q)
    BY <1>6, <1>9 DEF Untracked, Unstuck
<1>11. \A k \in Slots : q.slots[k].at = p.slots[k].at
    BY <1>7 DEF Aborts
<1> QED BY <1>6, <1>8, <1>10, <1>11 DEF q

\* removeTracked() of an image.
LEMMA RemovedGood ==
    ASSUME NEW p, Good(p), Ample(p), NEW s \in Surfaces
    PROVE  LET q == Removed(p, s) IN
           /\ Good(q) /\ HasRoom(q)
           /\ q.phase = p.phase /\ q.run = p.run /\ q.scoped = p.scoped
           /\ \A k \in Slots : q.slots[k].at = p.slots[k].at
<1> DEFINE id == <<s, p.queueId[s]>>
           known == p.queueId[s] # 0
           K == IF known THEN ActiveSlots(p, {id}) ELSE {}
           r == IF known THEN Abort(p, ActiveSlots(p, {id}), Released(p)) ELSE p
           order == IF /\ p.runState[s] # "running"
                       /\ p.index[s] \notin p.submitted \cup p.submitting
                    THEN r.order \ {p.index[s]} ELSE r.order
           q == [r EXCEPT !.order = order, !.pending = @ \ {id}, !.failedIds = @ \ {id},
                          !.queueId[s] = 0, !.runState[s] = "none"]
<1>1. p \in Pages /\ Entries(p) /\ Unstuck(p) /\ Scoping(p) /\ p.queueId[s] \in 0..Revisions
    BY DEF Good, Pages
<1>2. known => id \in Ids
    BY <1>1, Sizes DEF Ids
<1>3. K \subseteq Busy(p) /\ K \subseteq Slots
    BY <1>2, ActiveBusy DEF Busy
<1>4. /\ r \in Pages /\ Aborts(p, r, K) /\ r.active = p.active
      /\ r.phase = p.phase /\ r.run = p.run /\ r.scoped = p.scoped /\ r.stopped = p.stopped
      /\ r.pending = p.pending /\ r.failedIds = p.failedIds
      /\ r.runState = p.runState /\ r.queueId = p.queueId
  <2>1. CASE known
    <3>1. r = Abort(p, K, Released(p))
      BY <2>1
    <3>2. Released(p) \in BOOLEAN
      BY DEF Released
    <3> HIDE DEF K, r
    <3>3. Aborts(p, r, K) /\ r = [p EXCEPT !.slots = r.slots]
      BY <1>1, <1>3, <3>1, <3>2, AbortFields
    <3>4. r.slots \in [Slots -> Items]
      BY <3>3 DEF Aborts
    <3> QED BY <1>1, <3>3, <3>4 DEF Pages
  <2>2. CASE ~known
    <3>1. r = p /\ K = {}
      BY <2>2
    <3> HIDE DEF r, K
    <3>2. \A k \in Slots : p.slots[k].aborted \in BOOLEAN
      BY <1>1 DEF Pages, Items
    <3> QED BY <1>1, <3>1, <3>2 DEF Aborts, Pages
  <2> QED BY <2>1, <2>2
<1>5. Removed(p, s) = IF known \/ p.runState[s] # "none" THEN ScheduleFinish(q) ELSE q
    BY <1>1 DEF Removed
<1> HIDE DEF K, r
<1>6. order \in SUBSET Nat /\ 0 \in 0..Revisions
    BY <1>4, Sizes DEF Pages
<1>7. q = [r EXCEPT !.order = order, !.pending = p.pending \ {id},
                    !.failedIds = p.failedIds \ {id},
                    !.queueId[s] = 0, !.runState[s] = "none"]
    BY <1>4 DEF Pages
<1> HIDE DEF q, order
<1>8. /\ q \in Pages /\ q.slots = r.slots /\ q.active = p.active
      /\ q.phase = p.phase /\ q.run = p.run /\ q.scoped = p.scoped /\ q.stopped = p.stopped
      /\ q.pending = p.pending \ {id} /\ q.runState[s] = "none"
      /\ \A t \in Surfaces : t # s =>
           q.runState[t] = p.runState[t] /\ q.queueId[t] = p.queueId[t]
  <2>1. p.pending \ {id} \in SUBSET Ids /\ p.failedIds \ {id} \in SUBSET Ids
    BY <1>1 DEF Pages
  <2> HIDE DEF id
  <2> QED BY <1>4, <1>6, <1>7, <2>1 DEF Pages
<1>9. Aborts(p, q, K)
    BY <1>4, <1>8 DEF Aborts
<1>10. /\ Entries(q) /\ Running(q) = {x \in Running(p) : p.active[x] \notin K}
       /\ Cardinality(Running(q)) <= MaxConcurrent /\ HasRoom(q)
    BY <1>3, <1>8, <1>9, AbortedParts
<1>11. Running(q) = Running(p) \ {id}
  <2>1. \A x \in Running(p) : x \in Ids /\ p.active[x] # 0
    BY DEF Running
  <2>2. ASSUME NEW x \in Running(p), p.active[x] \in K PROVE x = id
    <3>1. known /\ p.active[id] = p.active[x] /\ id \in Ids
      BY <1>2, <2>2 DEF K, ActiveSlots
    <3> HIDE DEF id, known
    <3> QED BY <1>1, <2>1, <3>1 DEF Entries
  <2>3. ASSUME id \in Running(p) PROVE p.active[id] \in K
    <3>1. id \in Ids /\ p.active[id] # 0
      BY <2>1, <2>3
    <3>2. known
      BY <3>1, IdsArePairs DEF Ids
    <3> HIDE DEF id, known
    <3> QED BY <3>1, <3>2 DEF K, ActiveSlots
  <2> HIDE DEF id
  <2> QED BY <1>10, <2>2, <2>3
<1>12. Unstuck(q)
  <2>1. \A t \in Surfaces : q.runState[t] = "queued" => <<t, q.queueId[t]>> \in q.pending
    BY <1>1, <1>8 DEF Unstuck
  <2>2. \A t \in Surfaces : q.runState[t] = "running" => <<t, q.queueId[t]>> \in Running(q)
    BY <1>1, <1>8, <1>11 DEF Unstuck
  <2>3. \A x \in q.pending : q.queueId[x[1]] = x[2] /\ q.runState[x[1]] = "queued"
    <3> SUFFICES ASSUME NEW x \in q.pending
                 PROVE  q.queueId[x[1]] = x[2] /\ q.runState[x[1]] = "queued"
        OBVIOUS
    <3>1. x \in p.pending /\ x # id /\ x \in Ids
      BY <1>1, <1>8 DEF Pages
    <3>2. p.queueId[x[1]] = x[2] /\ p.runState[x[1]] = "queued"
      BY <1>1, <3>1 DEF Unstuck
    <3>3. x[1] # s /\ x[1] \in Surfaces
      BY <3>1, <3>2, IdsArePairs
    <3> QED BY <1>8, <3>2, <3>3
  <2>4. \A x \in Running(q) : q.queueId[x[1]] = x[2] /\ q.runState[x[1]] = "running"
    <3> SUFFICES ASSUME NEW x \in Running(q)
                 PROVE  q.queueId[x[1]] = x[2] /\ q.runState[x[1]] = "running"
        OBVIOUS
    <3>1. x \in Running(p) /\ x # id /\ x \in Ids
      BY <1>11 DEF Running
    <3>2. p.queueId[x[1]] = x[2] /\ p.runState[x[1]] = "running"
      BY <1>1, <3>1 DEF Unstuck
    <3>3. x[1] # s /\ x[1] \in Surfaces
      BY <3>1, <3>2, IdsArePairs
    <3> QED BY <1>8, <3>2, <3>3
  <2> QED BY <2>1, <2>2, <2>3, <2>4 DEF Unstuck
<1>13. Roomy(q)
    BY <1>10 DEF Roomy, HasRoom
<1>14. Scoping(q)
    BY <1>1, <1>8, <1>11 DEF Scoping, Untracked
<1>15. Good(q)
    BY <1>8, <1>10, <1>12, <1>13, <1>14 DEF Good
<1>16. \A k \in Slots : q.slots[k].at = p.slots[k].at
    BY <1>9 DEF Aborts
<1>17. Alike(q, ScheduleFinish(q)) /\ ScheduleFinish(q).phase = q.phase
    BY <1>8, FinishTimerAlike
<1>18. Good(ScheduleFinish(q)) /\ HasRoom(ScheduleFinish(q))
  <2>1. Good(ScheduleFinish(q))
    BY <1>15, <1>17, AlikeGood DEF IsRunning
  <2>2. Aborted(ScheduleFinish(q)) = Aborted(q)
    BY <1>17 DEF Alike, Aborted
  <2> QED BY <1>10, <2>1, <2>2 DEF HasRoom
<1>19. /\ ScheduleFinish(q).run = q.run /\ ScheduleFinish(q).scoped = q.scoped
       /\ ScheduleFinish(q).slots = q.slots
    BY <1>17 DEF Alike
<1>20. Removed(p, s) = q \/ Removed(p, s) = ScheduleFinish(q)
    BY <1>5
<1> HIDE DEF id, known
<1> QED BY <1>8, <1>10, <1>15, <1>16, <1>17, <1>18, <1>19, <1>20

-----------------------------------------------------------------------------
(* The steps of the runs.                                                  *)

\* No processor under way comes any further.
Steady(p, q) == \A k \in Slots : p.slots[k].at # "idle" => q.slots[k].at = p.slots[k].at

AbortedStep ==
  \A k \in Slots :
    page.slots[k].aborted /\ page'.slots[k].at # page.slots[k].at => Inert(page, page')

LEMMA SteadyInert ==
    ASSUME Good(page), Steady(page, page') PROVE AbortedStep
<1>1. \A k \in Slots : page.slots[k].at = "idle" => page.slots[k].aborted = FALSE
    BY IdleItem DEF Good, Entries
<1> QED BY <1>1 DEF AbortedStep, Steady

\* A step that goes on with the current run.
Follow(p, q) ==
  /\ Good(q) /\ q.run = p.run /\ q.scoped = p.scoped
  /\ IsRunning(q) => IsRunning(p)

LEMMA FollowKeeps ==
    ASSUME IInv, Follow(page, page'), UNCHANGED <<start, snapshot>>,
           close' \subseteq Runs, release' \subseteq Runs, chapters' \subseteq Runs,
           events' \in 0..MaxEvents
    PROVE  IInv'
<1>1. TypeOK'
    BY DEF IInv, TypeOK, Follow, Good
<1>2. Sessions'
    BY DEF IInv, Sessions, Follow, Current
<1> QED BY <1>1, <1>2 DEF IInv, Follow

\* A page in a new phase, or with a new run.
Rephase(p, n, phase, scoped) == [p EXCEPT !.run = n, !.phase = phase, !.scoped = scoped]

LEMMA Rephased ==
    ASSUME NEW p \in Pages, Entries(p), Unstuck(p), Cardinality(Running(p)) <= MaxConcurrent,
           NEW n \in 0..MaxRuns, NEW scoped \in BOOLEAN, ~scoped => Untracked(p),
           NEW phase \in {"running", "cancelled", "failed"},
           phase = "running" \/ ~p.stopped => HasRoom(p)
    PROVE  LET q == Rephase(p, n, phase, scoped)
           IN  Good(q) /\ q.run = n /\ q.phase = phase /\ q.scoped = scoped /\ q.slots = p.slots
<1> DEFINE q == Rephase(p, n, phase, scoped)
<1>1. /\ q \in Pages /\ q.run = n /\ q.phase = phase /\ q.scoped = scoped
      /\ q.slots = p.slots /\ q.active = p.active /\ q.pending = p.pending
      /\ q.queueId = p.queueId /\ q.runState = p.runState /\ q.stopped = p.stopped
    BY DEF Pages, Rephase
<1> HIDE DEF q
<1>2. Aborted(q) = Aborted(p) /\ Running(q) = Running(p)
    BY <1>1 DEF Aborted, Running
<1>3. Entries(q) /\ Unstuck(q)
    BY <1>1, <1>2 DEF Entries, Unstuck
<1>4. Roomy(q) /\ Scoping(q)
    BY <1>1, <1>2 DEF Roomy, HasRoom, IsRunning, Scoping, Untracked
<1> QED BY <1>1, <1>3, <1>4 DEF Good, q

LEMMA SpareAmple == Spare => Ample(page)
BY DEF Spare, Ample

LEMMA StartRunKeeps ==
    ASSUME IInv, StartRun PROVE IInv' /\ AbortedStep
<1> DEFINE n == page.run + 1
           prior == IF page.run = 0 THEN page ELSE RestoreAll(page)
<1>1. /\ Good(page) /\ page.run \in 0..MaxRuns /\ Ample(page) /\ n \in Runs /\ n # page.run
      /\ (page.run # 0 => n > 1) /\ (IsRunning(page) => page.run \in Runs)
    BY SpareAmple, Sizes DEF IInv, Good, Pages, StartRun, Runs, Sessions
<1>2. /\ prior \in Pages /\ Entries(prior) /\ Unstuck(prior) /\ Untracked(prior)
      /\ Cardinality(Running(prior)) <= MaxConcurrent /\ HasRoom(prior)
      /\ Steady(page, prior)
  <2>1. CASE page.run = 0
    <3>1. prior = page
      BY <2>1
    <3>2. Untracked(page)
      BY <1>1, <2>1 DEF IInv, Sessions, Good, Scoping
    <3> HIDE DEF prior
    <3> QED BY <1>1, <3>1, <3>2, AmpleHasRoom DEF Good, Roomy, Steady
  <2>2. CASE page.run # 0
    <3>1. prior = RestoreAll(page)
      BY <2>2
    <3> HIDE DEF prior
    <3> QED BY <1>1, <3>1, RestoreAllParts DEF Steady
  <2> QED BY <2>1, <2>2
<1>3. page' = Rephase(prior, n, "running", FALSE)
    BY DEF StartRun, Rephase
<1>4. /\ \E v \in {"opening", "closing", "closingReleased"} :
           start' = [start EXCEPT ![n] = v] /\ (v = "closing" => page.run # 0)
      /\ close' = IF IsRunning(page) THEN close \cup {page.run} ELSE close
      /\ UNCHANGED <<snapshot, release, chapters, events>>
    BY DEF StartRun
<1> HIDE DEF prior
<1>5. n \in 0..MaxRuns
    BY <1>1 DEF Runs
<1> HIDE DEF n
<1>6. Good(page') /\ page'.run = n /\ page'.phase = "running" /\ page'.scoped = FALSE
      /\ page'.slots = prior.slots
    BY <1>2, <1>3, <1>5, Rephased
<1>7. Sessions'
  <2>1. PICK v \in {"opening", "closing", "closingReleased"} :
          start' = [start EXCEPT ![n] = v] /\ (v = "closing" => page.run # 0)
    BY <1>4
  <2>2. start'[n] = v /\ v \in Unopened /\ \A m \in Runs : m # n => start'[m] = start[m]
    BY <1>1, <2>1 DEF IInv, TypeOK, Unopened
  <2>3. page'.run # 0 /\ \A m \in Runs : m # n => ~Current(page', m)
    BY <1>1, <1>6, Sizes DEF Current, Runs
  <2>4. \A m \in Runs : \A x, y \in snapshot'[m] : x[1] = y[1] => x = y
    BY <1>4 DEF IInv, Sessions
  <2>5. v # "recovering"
    OBVIOUS
  <2>6. \A m \in Runs : start'[m] = "closing" => m > 1
    BY <1>1, <2>1, <2>2 DEF IInv, Sessions
  <2>7. start'[n] # "recovering" /\ ~page'.scoped
    BY <1>6, <2>2, <2>5
  <2>8. \A m \in Runs : Current(page', m) /\ start'[m] = "recovering" => page'.scoped
    BY <2>3, <2>7
  <2> QED BY <2>3, <2>4, <2>6, <2>7, <2>8 DEF Sessions, Current
<1>8. TypeOK'
    BY <1>1, <1>4, <1>6 DEF IInv, TypeOK, Good
<1>9. AbortedStep
    BY <1>1, <1>2, <1>6, SteadyInert DEF Steady
<1> QED BY <1>6, <1>7, <1>8, <1>9 DEF IInv

LEMMA ClosesTyped ==
    ASSUME IInv, Closes PROVE close' \subseteq Runs /\ release' \subseteq Runs
<1>1. IsRunning(page) => page.run \in Runs
    BY Sizes DEF IInv, Good, Pages, Sessions, Runs
<1> QED BY <1>1 DEF Closes, IInv, TypeOK

LEMMA CancelKeeps ==
    ASSUME IInv, Cancel PROVE IInv' /\ AbortedStep
<1> DEFINE r == RestoreAll(page)
<1>1. Good(page) /\ Ample(page)
    BY SpareAmple DEF IInv, Cancel
<1>2. /\ r \in Pages /\ Entries(r) /\ Unstuck(r) /\ Untracked(r)
      /\ Cardinality(Running(r)) <= MaxConcurrent /\ HasRoom(r)
      /\ r.run = page.run /\ r.scoped = page.scoped
      /\ \A k \in Slots : r.slots[k].at = page.slots[k].at
    BY <1>1, RestoreAllParts
<1>3. page' = [r EXCEPT !.phase = "cancelled"]
    BY DEF Cancel
<1> HIDE DEF r
<1>4. page' = Rephase(r, r.run, "cancelled", r.scoped)
    BY <1>2, <1>3 DEF Pages, Rephase
<1>5. r.run \in 0..MaxRuns /\ r.scoped \in BOOLEAN
    BY <1>2 DEF Pages
<1>6. /\ Good(page') /\ page'.run = page.run /\ page'.phase = "cancelled"
      /\ page'.scoped = page.scoped /\ page'.slots = r.slots
    BY <1>2, <1>4, <1>5, Rephased
<1>7. Follow(page, page')
    BY <1>6 DEF Follow, IsRunning
<1>8. IInv'
    BY <1>7, ClosesTyped, FollowKeeps DEF Cancel, IInv, TypeOK
<1>9. AbortedStep
    BY <1>1, <1>2, <1>6, SteadyInert DEF Steady
<1> QED BY <1>8, <1>9

\* start() goes on without a change of the page.
LEMMA StartMoves ==
    ASSUME IInv, NEW n \in Runs, NEW v \in {"releasing", "opening", "opened", "over"},
           start' = [start EXCEPT ![n] = v], v # "over" => start[n] \in Unopened,
           UNCHANGED <<page, snapshot, close, events>>,
           release' \subseteq Runs, chapters' \subseteq Runs
    PROVE  IInv' /\ AbortedStep
<1>1. start'[n] = v /\ \A m \in Runs : m # n => start'[m] = start[m]
    BY DEF IInv, TypeOK
<1>2. TypeOK'
    BY DEF IInv, TypeOK
<1>3. Sessions'
  <2>1. \A m \in Runs : start'[m] = "closing" => start[m] = "closing"
    BY <1>1
  <2>2. \A m \in Runs : start'[m] \in Unopened => start[m] \in Unopened
    BY <1>1 DEF Unopened
  <2>3. \A m \in Runs : start'[m] = "recovering" => start[m] = "recovering"
    BY <1>1
  <2> QED BY <2>1, <2>2, <2>3 DEF IInv, Sessions, Current
<1>4. Good(page')
    BY DEF IInv
<1>5. AbortedStep
    BY DEF AbortedStep
<1> QED BY <1>2, <1>3, <1>4, <1>5 DEF IInv

LEMMA AwaitingKeeps ==
    ASSUME IInv, NEW n \in Runs, AwaitClose(n) \/ AwaitRelease(n) \/ OpenChapter(n)
    PROVE  IInv' /\ AbortedStep
<1>1. release \subseteq Runs /\ chapters \subseteq Runs
    BY DEF IInv, TypeOK
<1>2. CASE AwaitClose(n)
  <2>1. start[n] \in Unopened
    BY <1>2 DEF AwaitClose, Unopened
  <2>2. CASE start[n] = "closing"
    <3>1. n - 1 \in Runs
      BY <2>2, Sizes DEF IInv, Sessions, Runs
    <3>2. release' \subseteq Runs /\ start' = [start EXCEPT ![n] = "releasing"]
      BY <1>1, <1>2, <2>2, <3>1 DEF AwaitClose
    <3> QED BY <1>1, <1>2, <2>1, <3>2, StartMoves DEF AwaitClose
  <2>3. CASE start[n] # "closing"
    BY <1>1, <1>2, <2>1, <2>3, StartMoves DEF AwaitClose
  <2> QED BY <2>2, <2>3
<1>3. CASE AwaitRelease(n)
    BY <1>1, <1>3, StartMoves DEF AwaitRelease, Unopened
<1>4. CASE OpenChapter(n)
    BY <1>1, <1>4, StartMoves DEF OpenChapter, Unopened
<1> QED BY <1>2, <1>3, <1>4

LEMMA StartFailsKeeps ==
    ASSUME IInv, NEW n \in Runs, StartFails(n) PROVE IInv' /\ AbortedStep
<1> DEFINE r == RestoreAll(page)
           scoped == r.scoped /\ start[n] = "opening"
<1>1. Good(page)
    BY DEF IInv
<1>2. /\ r \in Pages /\ Entries(r) /\ Unstuck(r) /\ Untracked(r) /\ r.stopped
      /\ Cardinality(Running(r)) <= MaxConcurrent
      /\ r.run = page.run /\ r.scoped = page.scoped
      /\ \A k \in Slots : r.slots[k].at = page.slots[k].at
    BY <1>1, RestoreAllParts
<1>3. page' = [r EXCEPT !.phase = "failed", !.scoped = @ /\ start[n] = "opening"]
    BY DEF StartFails
<1> HIDE DEF r
<1>4. page' = Rephase(r, r.run, "failed", scoped)
    BY <1>2, <1>3 DEF Pages, Rephase
<1>5. r.run \in 0..MaxRuns /\ scoped \in BOOLEAN
    BY <1>2 DEF Pages
<1> HIDE DEF scoped
<1>6. /\ Good(page') /\ page'.run = page.run /\ page'.phase = "failed"
      /\ page'.scoped = scoped /\ page'.slots = r.slots
    BY <1>2, <1>4, <1>5, Rephased
<1>7. /\ start' = [start EXCEPT ![n] = "over"] /\ snapshot' = [snapshot EXCEPT ![n] = {}]
      /\ UNCHANGED <<chapters, events>> /\ close' \subseteq Runs /\ release' \subseteq Runs
    BY ClosesTyped DEF StartFails
<1>8. TypeOK'
    BY <1>6, <1>7 DEF IInv, TypeOK, Good
<1>9. Sessions'
  <2>1. ~IsRunning(page')
    BY <1>6 DEF IsRunning
  <2>2. page'.run = 0 => ~page'.scoped
    BY <1>2, <1>6 DEF scoped, IInv, Sessions
  <2>3. \A m \in Runs : start'[m] = "closing" => m > 1
    BY <1>7 DEF IInv, TypeOK, Sessions
  <2>4. \A m \in Runs : \A x, y \in snapshot'[m] : x[1] = y[1] => x = y
    BY <1>7 DEF IInv, TypeOK, Sessions
  <2> QED BY <2>1, <2>2, <2>3, <2>4 DEF Sessions, Current
<1>10. AbortedStep
    BY <1>1, <1>2, <1>6, SteadyInert DEF Steady
<1> QED BY <1>6, <1>8, <1>9, <1>10 DEF IInv

LEMMA OpenedKeeps ==
    ASSUME IInv, NEW n \in Runs, Opened(n) PROVE IInv' /\ AbortedStep
<1>1. Good(page) /\ page \in Pages /\ close \subseteq Runs /\ release \subseteq Runs
      /\ chapters \subseteq Runs /\ events \in 0..MaxEvents
      /\ UNCHANGED <<close, release, chapters, events>> /\ start[n] = "opened"
    BY DEF IInv, Good, TypeOK, Opened
<1>2. CASE ~Current(page, n)
    BY <1>1, <1>2, StartMoves DEF Opened
<1>3. CASE Current(page, n)
  <2> DEFINE none == [s \in Surfaces |-> "none"]
             t == [page EXCEPT !.scoped = TRUE, !.timer = "none", !.runState = none]
             p == Included(t, page.present)
  <2>1. Untracked(page)
    BY <1>1, <1>3 DEF IInv, Sessions, Unopened, Good, Scoping
  <2>2. none \in [Surfaces -> {"none", "queued", "running", "complete", "failed"}]
        /\ \A s \in Surfaces : none[s] = "none"
    OBVIOUS
  <2> HIDE DEF none
  <2>3. /\ t \in Pages /\ t.scoped = TRUE /\ t.runState = none
        /\ t.slots = page.slots /\ t.active = page.active /\ t.pending = page.pending
        /\ t.phase = page.phase /\ t.run = page.run /\ t.stopped = page.stopped
    BY <1>1, <2>2 DEF Pages
  <2> HIDE DEF t
  <2>4. Aborted(t) = Aborted(page) /\ Running(t) = Running(page)
    BY <2>3 DEF Aborted, Running
  <2>5. Good(t)
    <3>1. Entries(t) /\ Roomy(t) /\ Scoping(t)
      BY <1>1, <2>3, <2>4 DEF Good, Entries, Roomy, IsRunning, Scoping
    <3>2. Unstuck(t)
      BY <2>1, <2>2, <2>3, <2>4 DEF Untracked, Unstuck
    <3> QED BY <2>3, <3>1, <3>2 DEF Good
  <2>6. page.present \in SUBSET Surfaces
    BY <1>1 DEF Pages
  <2>7. Alike(t, p) /\ p.phase = t.phase
    BY <2>3, <2>6, IncludedAlike
  <2>8. /\ \/ page' = Settled(p) /\ start' = [start EXCEPT ![n] = "over"]
              /\ snapshot' = snapshot
           \/ /\ page' = p /\ start' = [start EXCEPT ![n] = "recovering"]
              /\ snapshot' = [snapshot EXCEPT ![n] = {<<s, p.rev[s]>> : s \in p.present}]
    BY <1>3 DEF Opened, t, none
  <2> HIDE DEF p
  <2>9. Alike(t, page') /\ (IsRunning(page') <=> IsRunning(t))
    <3>1. p \in Pages
      BY <2>7 DEF Alike
    <3>2. Alike(p, Settled(p)) /\ (IsRunning(Settled(p)) <=> IsRunning(p))
      BY <3>1, SettledAlike
    <3>3. IsRunning(p) <=> IsRunning(t)
      BY <2>7 DEF IsRunning
    <3> QED BY <2>7, <2>8, <3>2, <3>3, AlikeTransitive
  <2>10. Good(page')
    BY <2>5, <2>9, AlikeGood
  <2>11. page'.run = page.run /\ page'.scoped = TRUE /\ page'.slots = page.slots
    BY <2>3, <2>9 DEF Alike
  <2>12. {<<s, p.rev[s]>> : s \in p.present} \subseteq Ids
         /\ \A x, y \in {<<s, p.rev[s]>> : s \in p.present} : x[1] = y[1] => x = y
    BY <2>7 DEF Alike, Pages, Ids
  <2>13. TypeOK'
    <3>1. start' \in [Runs -> {"none", "opening", "closing", "closingReleased", "releasing",
                               "opened", "recovering", "over"}]
      BY <2>8 DEF IInv, TypeOK
    <3>2. snapshot' \in [Runs -> SUBSET Ids]
      BY <2>8, <2>12 DEF IInv, TypeOK
    <3> QED BY <1>1, <2>10, <3>1, <3>2 DEF TypeOK, Good
  <2>14. Sessions'
    <3>1. \A m \in Runs : m # n => ~Current(page', m)
      BY <1>3, <2>11 DEF Current
    <3>2. \A m \in Runs : \A x, y \in snapshot'[m] : x[1] = y[1] => x = y
      BY <2>8, <2>12 DEF IInv, TypeOK, Sessions
    <3>3. \A m \in Runs : start'[m] = "closing" => m > 1
      BY <2>8 DEF IInv, TypeOK, Sessions
    <3>4. page'.run # 0
      BY <1>3, <2>11, Sizes DEF Current, Runs
    <3>5. start'[n] \notin Unopened
      BY <2>8 DEF IInv, TypeOK, Unopened
    <3>6. \A m \in Runs : Current(page', m) => start'[m] \notin Unopened
      BY <3>1, <3>5
    <3> QED BY <2>11, <3>2, <3>3, <3>4, <3>6 DEF Sessions, Current
  <2>15. AbortedStep
    BY <1>1, <2>11, SteadyInert DEF Steady
  <2> QED BY <2>10, <2>13, <2>14, <2>15 DEF IInv
<1> QED BY <1>2, <1>3

LEMMA RecoveredKeeps ==
    ASSUME IInv, NEW n \in Runs, Recovered(n) PROVE IInv' /\ AbortedStep
<1>1. /\ start[n] = "recovering" /\ start' = [start EXCEPT ![n] = "over"]
      /\ snapshot' = [snapshot EXCEPT ![n] = {}]
      /\ UNCHANGED <<close, release, chapters, events>> /\ Good(page) /\ page \in Pages
    BY DEF Recovered, IInv, Good
<1>2. Follow(page, page') /\ Steady(page, page')
  <2>1. CASE ~Current(page, n)
    BY <1>1, <2>1 DEF Recovered, Follow, Steady
  <2>2. CASE Current(page, n)
    <3> DEFINE S == {id[1] : id \in snapshot[n]}
               q == Included(page, S)
               e == Enqueued(q, snapshot[n])
    <3>1. Keyed(snapshot[n]) /\ S \in SUBSET Surfaces
      BY IdsArePairs DEF IInv, TypeOK, Sessions, Keyed
    <3>2. Alike(page, q) /\ q.phase = page.phase
      BY <1>1, <3>1, IncludedAlike
    <3>3. PICK p \in Drained({e}) : page' = Update(p)
      <4>1. PICK p \in Drained({Enqueued(x, snapshot[n]) : x \in {q}}) : page' = Update(p)
        BY <2>2 DEF Recovered
      <4>2. {Enqueued(x, snapshot[n]) : x \in {q}} = {e}
        OBVIOUS
      <4> QED BY <4>1, <4>2
    <3> HIDE DEF S, q
    <3>4. Good(q) /\ IsRunning(q) /\ q.scoped = TRUE
      <4>1. IsRunning(q)
        BY <2>2, <3>2 DEF Current, IsRunning
      <4>2. page.scoped = TRUE
        BY <1>1, <2>2 DEF IInv, Sessions, Pages
      <4> QED BY <1>1, <3>2, <4>1, <4>2, AlikeGood DEF Alike, Current, IsRunning
    <3>5. HasRoom(q)
      BY <3>4 DEF Good, Roomy, HasRoom
    <3>6. Good(e) /\ e.phase = q.phase /\ e.scoped = q.scoped /\ e.slots = q.slots /\ e.run = q.run
      BY <3>1, <3>4, <3>5, EnqueuedGood
    <3> HIDE DEF e
    <3>7. Good(p) /\ Serves(e, p)
      BY <3>3, <3>6, DrainedGood
    <3>8. Alike(p, page') /\ (IsRunning(page') <=> IsRunning(p))
      BY <3>3, <3>7, UpdateAlike DEF Good
    <3>9. Good(page')
      BY <3>7, <3>8, AlikeGood
    <3>10. page'.run = page.run /\ page'.scoped = page.scoped
      BY <3>2, <3>6, <3>7, <3>8 DEF Alike, Serves
    <3>11. IsRunning(page)
      BY <2>2 DEF Current
    <3>12. Steady(page, page')
      BY <3>2, <3>6, <3>7, <3>8 DEF Alike, Serves, Steady
    <3> QED BY <3>9, <3>10, <3>11, <3>12 DEF Follow
  <2> QED BY <2>1, <2>2
<1>3. TypeOK'
    BY <1>1, <1>2 DEF IInv, TypeOK, Follow, Good
<1>4. Sessions'
  <2>1. \A m \in Runs : start'[m] = "over" \/ start'[m] = start[m]
    BY <1>1 DEF IInv, TypeOK
  <2>2. \A m \in Runs : \A x, y \in snapshot'[m] : x[1] = y[1] => x = y
    BY <1>1 DEF IInv, TypeOK, Sessions
  <2> QED BY <1>2, <2>1, <2>2 DEF IInv, Sessions, Follow, Current, Unopened
<1>5. AbortedStep
    BY <1>1, <1>2, SteadyInert
<1> QED BY <1>2, <1>3, <1>4, <1>5 DEF IInv, Follow

\* A step that only changes what Near allows, with the same phase or none.
LEMMA NearFollows ==
    ASSUME Good(page), Near(page, page'), IsRunning(page') => IsRunning(page)
    PROVE  Follow(page, page')
BY NearGood DEF Follow, Near

LEMMA BackgroundKeeps ==
    ASSUME IInv, NEW n \in Runs, CloseChapter(n) \/ CancelPage(n) PROVE IInv' /\ AbortedStep
<1>1. Good(page) /\ page \in Pages /\ close \subseteq Runs /\ release \subseteq Runs
      /\ chapters \subseteq Runs /\ events \in 0..MaxEvents
    BY DEF IInv, Good, TypeOK
<1>2. CASE CloseChapter(n)
  <2>1. Follow(page, page') /\ Steady(page, page')
    BY <1>1, <1>2 DEF CloseChapter, Follow, Steady
  <2> QED BY <1>1, <1>2, <2>1, FollowKeeps, SteadyInert DEF CloseChapter
<1>3. CASE CancelPage(n)
  <2> DEFINE slots == [k \in Slots |-> IF page.slots[k].run = n
                                       THEN [page.slots[k] EXCEPT !.job = FALSE]
                                       ELSE page.slots[k]]
  <2>1. page' = [page EXCEPT !.slots = slots, !.left = page.left \ {n}]
    BY <1>1, <1>3 DEF CancelPage, Pages
  <2>2. ASSUME NEW k \in Slots
        PROVE  /\ slots[k] \in Items /\ slots[k].at = page.slots[k].at
               /\ slots[k].id = page.slots[k].id /\ slots[k].aborted = page.slots[k].aborted
               /\ page.slots[k].at = "idle" => slots[k] = page.slots[k]
    <3>1. page.slots[k] \in Items
      BY <1>1 DEF Pages
    <3>2. page.slots[k].at = "idle" => page.slots[k].run # n
      BY <1>1, IdleItem, Sizes DEF Good, Entries, Runs
    <3> QED BY <3>1, <3>2 DEF Items
  <2>3. slots \in [Slots -> Items]
    BY <2>2
  <2>4. page.left \ {n} \in SUBSET (0..MaxRuns)
    BY <1>1 DEF Pages
  <2> HIDE DEF slots
  <2>5. page' \in Pages /\ page'.slots = slots /\ page'.phase = page.phase
        /\ page'.run = page.run /\ page'.scoped = page.scoped /\ page'.stopped = page.stopped
        /\ page'.pending = page.pending /\ page'.failedIds = page.failedIds
        /\ page'.active = page.active /\ page'.queueId = page.queueId
        /\ page'.runState = page.runState
    BY <1>1, <2>1, <2>3, <2>4 DEF Pages
  <2>6. Near(page, page') /\ Steady(page, page')
    BY <2>2, <2>5 DEF Near, Steady
  <2>7. Follow(page, page')
    BY <1>1, <2>5, <2>6, NearFollows DEF IsRunning
  <2>8. close' \subseteq Runs /\ release' \subseteq Runs /\ chapters' \subseteq Runs
        /\ events' \in 0..MaxEvents /\ UNCHANGED <<start, snapshot>>
    BY <1>1, <1>3 DEF CancelPage
  <2> QED BY <1>1, <2>6, <2>7, <2>8, FollowKeeps, SteadyInert
<1> QED BY <1>2, <1>3

-----------------------------------------------------------------------------
(* The steps of the processors.                                            *)

\* A step of the processor k.
ProcessorStep(k) ==
  /\ Follow(page, page')
  /\ \A j \in Slots : j # k /\ page.slots[j].at # "idle" => page'.slots[j].at = page.slots[j].at
  /\ page.slots[k].aborted => Inert(page, page')

LEMMA ProcessorStepKeeps ==
    ASSUME IInv, NEW k \in Slots, ProcessorStep(k),
           UNCHANGED <<start, snapshot, close, release, chapters, events>>
    PROVE  IInv' /\ AbortedStep
<1>1. IInv'
    BY FollowKeeps DEF IInv, TypeOK, ProcessorStep
<1>2. \A j \in Slots : page.slots[j].at = "idle" => page.slots[j].aborted = FALSE
    BY IdleItem DEF IInv, Good, Entries
<1>3. AbortedStep
    BY <1>2 DEF AbortedStep, ProcessorStep
<1> QED BY <1>1, <1>3

\* A processor comes to a step of its own, with the indexes of the chapter's
\* submissions as they are then.
Moved(k, at, job, submitting, submitted) ==
  [page EXCEPT !.slots[k] = [page.slots[k] EXCEPT !.at = at, !.job = job],
               !.submitting = submitting, !.submitted = submitted]
Moves(k, q) ==
  /\ Near(page, q) /\ q.phase = page.phase
  /\ \A j \in Slots : j # k => q.slots[j] = page.slots[j]

LEMMA MovedNear ==
    ASSUME IInv, NEW k \in Slots, page.slots[k].at # "idle",
           NEW at \in Steps \ {"idle"}, NEW job \in BOOLEAN,
           NEW submitting \in SUBSET Nat, NEW submitted \in SUBSET Nat
    PROVE  Moves(k, Moved(k, at, job, submitting, submitted))
<1> DEFINE w == [page.slots[k] EXCEPT !.at = at, !.job = job]
<1>1. page \in Pages /\ page.slots[k] \in Items
    BY DEF IInv, Good, Pages
<1>2. w \in Items /\ w.at = at /\ w.id = page.slots[k].id /\ w.aborted = page.slots[k].aborted
    BY <1>1 DEF Items
<1> HIDE DEF w
<1> DEFINE slots == [page.slots EXCEPT ![k] = w]
           q == Moved(k, at, job, submitting, submitted)
<1>3. /\ slots \in [Slots -> Items] /\ slots[k] = w
      /\ \A j \in Slots : j # k => slots[j] = page.slots[j]
    BY <1>1, <1>2 DEF Pages
<1>4. q = [page EXCEPT !.slots = slots, !.submitting = submitting, !.submitted = submitted]
    BY DEF Moved, w
<1> HIDE DEF slots, q
<1>5. /\ q \in Pages /\ q.slots = slots /\ q.phase = page.phase
      /\ q.run = page.run /\ q.scoped = page.scoped /\ q.stopped = page.stopped
      /\ q.pending = page.pending /\ q.failedIds = page.failedIds /\ q.active = page.active
      /\ q.queueId = page.queueId /\ q.runState = page.runState
    BY <1>1, <1>3, <1>4 DEF Pages
<1>6. Moves(k, q)
    BY <1>2, <1>3, <1>5 DEF Moves, Near
<1> QED BY <1>6 DEF q

LEMMA MovesStep ==
    ASSUME IInv, NEW k \in Slots, NEW q, Moves(k, q), Only(q)
    PROVE  ProcessorStep(k) /\ UNCHANGED <<start, snapshot, close, release, chapters, events>>
<1>1. page' = q /\ UNCHANGED <<start, snapshot, close, release, chapters, events>>
    BY DEF Only
<1>2. Follow(page, page')
    BY <1>1, NearFollows DEF IInv, Moves, IsRunning
<1> QED BY <1>1, <1>2 DEF ProcessorStep, Moves, Near, Inert

LEMMA MovesFails ==
    ASSUME IInv, NEW k \in Slots, page.slots[k].at # "idle", NEW q, Moves(k, q), Fails(q, k)
    PROVE  ProcessorStep(k) /\ UNCHANGED <<start, snapshot, close, release, chapters, events>>
<1>1. Good(q)
    BY NearGood DEF IInv, IsRunning, Moves
<1>2. q.slots[k].at # "idle" /\ q.slots[k].aborted = page.slots[k].aborted
    BY DEF Moves, Near
<1>3. Finishes(q, page', k) /\ UNCHANGED <<start, snapshot, close, release, chapters, events>>
    BY <1>1, <1>2, FailsFinishes
<1>4. Follow(page, page')
    BY <1>3 DEF Finishes, Moves, Near, Follow, IsRunning
<1>5. \A j \in Slots : j # k /\ page.slots[j].at # "idle" => page'.slots[j].at = page.slots[j].at
    BY <1>3 DEF Finishes, Moves
<1>6. page.slots[k].aborted => Inert(page, page')
    BY <1>2, <1>3 DEF Finishes, Inert, Moves, Near
<1> QED BY <1>3, <1>4, <1>5, <1>6 DEF ProcessorStep

LEMMA ItemTypes ==
    ASSUME IInv, NEW k \in Slots
    PROVE  /\ page \in Pages /\ page.slots[k] \in Items /\ page.slots[k].index \in Nat
           /\ page.slots[k].job \in BOOLEAN /\ page.slots[k].at \in Steps
           /\ page.submitting \in SUBSET Nat /\ page.submitted \in SUBSET Nat
BY DEF IInv, Good, Pages, Items

\* A step may leave the item itself as it is.
Counted(submitting, submitted) == [page EXCEPT !.submitting = submitting, !.submitted = submitted]

LEMMA MovedStays ==
    ASSUME IInv, NEW k \in Slots, NEW submitting \in SUBSET Nat, NEW submitted \in SUBSET Nat
    PROVE  Moved(k, page.slots[k].at, page.slots[k].job, submitting, submitted) =
             Counted(submitting, submitted)
<1> DEFINE w == page.slots[k]
           same == [page.slots EXCEPT ![k] = [w EXCEPT !.at = w.at, !.job = w.job]]
<1>1. page \in Pages /\ w \in Items
    BY ItemTypes
<1>2. [w EXCEPT !.at = w.at, !.job = w.job] = w
  <2> HIDE DEF w
  <2> QED BY <1>1 DEF Items
<1>3. same = page.slots
    BY <1>1, <1>2 DEF Pages
<1>4. Moved(k, w.at, w.job, submitting, submitted) =
        [page EXCEPT !.slots = same, !.submitting = submitting, !.submitted = submitted]
    BY DEF Moved
<1> HIDE DEF same, w
<1>5. [page EXCEPT !.slots = page.slots, !.submitting = submitting, !.submitted = submitted] =
        [page EXCEPT !.submitting = submitting, !.submitted = submitted]
    BY <1>1 DEF Pages
<1> QED BY <1>3, <1>4, <1>5 DEF w, Counted

LEMMA PageMoves ==
    ASSUME IInv, NEW k \in Slots, page.slots[k].at # "idle" PROVE Moves(k, page)
<1>1. Counted(page.submitting, page.submitted) = page
    BY ItemTypes DEF Counted, Pages
<1>2. page.slots[k].at \in Steps \ {"idle"}
    BY ItemTypes
<1> QED BY <1>1, <1>2, MovedStays, MovedNear, ItemTypes

LEMMA SubmitStep ==
    ASSUME IInv, NEW k \in Slots, Submit(k) PROVE IInv' /\ AbortedStep
<1> DEFINE w == page.slots[k]
           at == IF Accepted(page, w.index) THEN "sent" ELSE "refused"
<1>1. w.at = "opening" /\ w.at # "idle"
    BY DEF Submit, At
<1>2. CASE Valid(page, k)
  <2>1. Only([page EXCEPT !.submitting = @ \cup {w.index}, !.slots[k].at = at])
    BY <1>2 DEF Submit
  <2>2. at \in Steps \ {"idle"}
    BY DEF Steps
  <2> HIDE DEF at
  <2>3. [page EXCEPT !.submitting = @ \cup {w.index}, !.slots[k].at = at] =
          Moved(k, at, w.job, page.submitting \cup {w.index}, page.submitted)
    BY ItemTypes DEF Moved, Pages, Items
  <2>4. Moves(k, Moved(k, at, w.job, page.submitting \cup {w.index}, page.submitted))
    BY <1>1, <2>2, ItemTypes, MovedNear
  <2> QED BY <2>1, <2>3, <2>4, MovesStep, ProcessorStepKeeps
<1>3. CASE ~Valid(page, k)
  <2>1. Fails(page, k)
    BY <1>3 DEF Submit
  <2>2. Moves(k, page)
    BY <1>1, PageMoves
  <2> QED BY <1>1, <2>1, <2>2, MovesFails, ProcessorStepKeeps
<1> QED BY <1>2, <1>3

LEMMA CreateStep ==
    ASSUME IInv, NEW k \in Slots, Create(k) PROVE IInv' /\ AbortedStep
<1> DEFINE q == Moved(k, "created", TRUE, page.submitting, page.submitted)
<1>1. page.slots[k].at # "idle" /\ Only([page EXCEPT !.slots[k].at = "created", !.slots[k].job = TRUE])
    BY DEF Create, At
<1>2. [page EXCEPT !.slots[k].at = "created", !.slots[k].job = TRUE] = q
    BY ItemTypes DEF Moved, Pages, Items
<1>3. Moves(k, q)
    BY <1>1, ItemTypes, MovedNear DEF Steps
<1> QED BY <1>1, <1>2, <1>3, MovesStep, ProcessorStepKeeps

LEMMA UnsubmittingMoves ==
    ASSUME IInv, NEW k \in Slots, page.slots[k].at # "idle"
    PROVE  /\ Moves(k, Unsubmitting(k))
           /\ Moves(k, [Unsubmitting(k) EXCEPT !.submitted = @ \cup {page.slots[k].index}])
           /\ Moves(k, [Unsubmitting(k) EXCEPT !.slots[k].job = FALSE])
           /\ LET p == [Unsubmitting(k) EXCEPT !.submitted = @ \cup {page.slots[k].index}]
              IN  Moves(k, [p EXCEPT !.slots[k].at = "streaming"])
<1> DEFINE w == page.slots[k]
           less == page.submitting \ {w.index}
           more == page.submitted \cup {w.index}
           p == [Unsubmitting(k) EXCEPT !.submitted = @ \cup {w.index}]
           closed == [Unsubmitting(k) EXCEPT !.slots[k].job = FALSE]
           streams == [p EXCEPT !.slots[k].at = "streaming"]
<1>1. /\ less \in SUBSET Nat /\ more \in SUBSET Nat /\ page.submitted \in SUBSET Nat
      /\ w.at \in Steps \ {"idle"} /\ "streaming" \in Steps \ {"idle"} /\ w.job \in BOOLEAN
    BY ItemTypes DEF Steps
<1>0. page \in Pages /\ w \in Items /\ k \in Slots
    BY ItemTypes
<1>2. Unsubmitting(k) = Moved(k, w.at, w.job, less, page.submitted)
  <2>1. Unsubmitting(k) = Counted(less, page.submitted)
    BY <1>0 DEF Unsubmitting, Counted, Pages
  <2> QED BY <1>1, <2>1, MovedStays
<1>3. p = Moved(k, w.at, w.job, less, more)
  <2>1. p = Counted(less, more)
    BY <1>0 DEF Unsubmitting, Counted, Pages
  <2> QED BY <1>1, <2>1, MovedStays
<1>4. closed = Moved(k, w.at, FALSE, less, page.submitted)
    BY <1>0 DEF Unsubmitting, Moved, Pages, Items
<1>5. streams = Moved(k, "streaming", w.job, less, more)
    BY <1>0 DEF Unsubmitting, Moved, Pages, Items
<1> HIDE DEF less, more, p, closed, streams
<1>6. \A at \in Steps \ {"idle"}, job \in BOOLEAN, x, y \in SUBSET Nat : Moves(k, Moved(k, at, job, x, y))
    BY MovedNear
<1>7. Moves(k, Unsubmitting(k)) /\ Moves(k, p) /\ Moves(k, closed) /\ Moves(k, streams)
    BY <1>1, <1>2, <1>3, <1>4, <1>5, <1>6
<1> QED BY <1>7 DEF p, closed, streams

LEMMA AnswerStep ==
    ASSUME IInv, NEW k \in Slots, Denied(k) \/ Created(k) PROVE IInv' /\ AbortedStep
<1> DEFINE p == [Unsubmitting(k) EXCEPT !.submitted = @ \cup {page.slots[k].index}]
<1>1. page.slots[k].at # "idle"
    BY DEF Denied, Created, At
<1>2. CASE Denied(k)
  <2>1. Fails(Unsubmitting(k), k)
    BY <1>2 DEF Denied
  <2> QED BY <1>1, <2>1, UnsubmittingMoves, MovesFails, ProcessorStepKeeps
<1>3. CASE Created(k)
  <2>1. \/ Only([p EXCEPT !.slots[k].at = "streaming"]) \/ Fails(p, k)
        \/ Fails([Unsubmitting(k) EXCEPT !.slots[k].job = FALSE], k)
    BY <1>3 DEF Created
  <2>2. /\ Moves(k, [p EXCEPT !.slots[k].at = "streaming"]) /\ Moves(k, p)
        /\ Moves(k, [Unsubmitting(k) EXCEPT !.slots[k].job = FALSE])
    BY <1>1, UnsubmittingMoves
  <2> HIDE DEF p
  <2> QED BY <1>1, <2>1, <2>2, MovesStep, MovesFails, ProcessorStepKeeps
<1> QED BY <1>2, <1>3

LEMMA EndStreamStep ==
    ASSUME IInv, NEW k \in Slots, EndStream(k) PROVE IInv' /\ AbortedStep
<1> DEFINE w == page.slots[k]
<1>1. w.at # "idle"
    BY DEF EndStream, At
<1>2. PICK at \in {"stopping", "ending"} :
        \/ Only([page EXCEPT !.slots[k].at = at])
        \/ Only([page EXCEPT !.slots[k].at = at, !.slots[k].job = FALSE])
    BY DEF EndStream
<1>3. /\ [page EXCEPT !.slots[k].at = at] = Moved(k, at, w.job, page.submitting, page.submitted)
      /\ [page EXCEPT !.slots[k].at = at, !.slots[k].job = FALSE] =
           Moved(k, at, FALSE, page.submitting, page.submitted)
    BY ItemTypes DEF Moved, Pages, Items
<1>4. \A job \in BOOLEAN : Moves(k, Moved(k, at, job, page.submitting, page.submitted))
    BY <1>1, ItemTypes, MovedNear DEF Steps
<1>5. w.job \in BOOLEAN
    BY ItemTypes
<1> QED BY <1>2, <1>3, <1>4, <1>5, MovesStep, ProcessorStepKeeps

LEMMA StopStep ==
    ASSUME IInv, NEW k \in Slots, Stop(k) PROVE IInv' /\ AbortedStep
<1> DEFINE w == page.slots[k]
           s == w.id[1]
           r == [Forgotten(page, k) EXCEPT !.queueId[s] = 0, !.runState[s] = "complete"]
<1>1. w.at # "idle" /\ page \in Pages /\ w.id \in Ids /\ Good(page)
    BY DEF Stop, At, IInv, Good, Entries
<1>2. CASE Valid(page, k)
  <2>1. ~w.aborted
    BY <1>2 DEF Valid
  <2>2. PICK p \in Drained({r}) : Only(p)
    BY <1>2 DEF Stop
  <2>3. Ended(page, r, k)
    <3>1. 0 \in 0..Revisions /\ {} \in SUBSET Ids
      BY Sizes
    <3> QED BY <1>1, <2>1, <3>1, SettledEnded
  <2> HIDE DEF r
  <2>4. Alike(r, r)
    BY <2>3 DEF Ended, Alike
  <2>5. Finishes(page, p, k)
    BY <1>1, <2>2, <2>3, <2>4, EndedFinishes
  <2>6. page' = p /\ UNCHANGED <<start, snapshot, close, release, chapters, events>>
    BY <2>2 DEF Only
  <2>7. ProcessorStep(k)
    BY <2>5, <2>6 DEF Finishes, ProcessorStep, Follow, IsRunning
  <2> QED BY <2>6, <2>7, ProcessorStepKeeps
<1>3. CASE ~Valid(page, k)
  <2>1. Fails(page, k)
    BY <1>3 DEF Stop
  <2>2. Moves(k, page)
    BY <1>1, PageMoves
  <2> QED BY <1>1, <2>1, <2>2, MovesFails, ProcessorStepKeeps
<1> QED BY <1>2, <1>3

LEMMA FailStep ==
    ASSUME IInv, NEW k \in Slots, Fail(k) PROVE IInv' /\ AbortedStep
<1>1. page.slots[k].at # "idle" /\ Fails(page, k)
    BY DEF Fail, At
<1>2. Moves(k, page)
    BY <1>1, PageMoves
<1> QED BY <1>1, <1>2, MovesFails, ProcessorStepKeeps

LEMMA NearStep ==
    ASSUME IInv, Near(page, page'), IsRunning(page') => IsRunning(page),
           \A k \in Slots : page'.slots[k] = page.slots[k],
           UNCHANGED <<start, snapshot, close, release, chapters, events>>
    PROVE  IInv' /\ AbortedStep
<1>1. Follow(page, page') /\ Steady(page, page')
    BY NearFollows DEF IInv, Steady
<1>2. IInv'
    BY <1>1, FollowKeeps DEF IInv, TypeOK
<1> QED BY <1>1, <1>2, SteadyInert DEF IInv

LEMMA ProgressStep ==
    ASSUME IInv, NEW k \in Slots, Progress(k) PROVE IInv' /\ AbortedStep
<1>1. page' = Update(page) /\ UNCHANGED <<start, snapshot, close, release, chapters, events>>
    BY DEF Progress, Only
<1>2. Alike(page, page') /\ (IsRunning(page') <=> IsRunning(page))
    BY <1>1, UpdateAlike DEF IInv, Good
<1>3. Near(page, page') /\ \A j \in Slots : page'.slots[j] = page.slots[j]
    BY <1>2, AlikeNear DEF IInv, Alike
<1> QED BY <1>1, <1>2, <1>3, NearStep

-----------------------------------------------------------------------------
(* The timer, the retry and the images.                                    *)

LEMMA SettleStep ==
    ASSUME IInv, Settle PROVE IInv' /\ AbortedStep
<1> DEFINE p == [page EXCEPT !.timer = "none"]
<1>1. Alike(page, p) /\ p.phase = page.phase
    BY TimerAlike DEF IInv, Good
<1>2. page' = p \/ page' = ScheduleFinish(p) \/ page' = Finish(p)
    BY DEF Settle
<1> HIDE DEF p
<1>3. Alike(page, page') /\ (IsRunning(page') => IsRunning(page))
  <2>1. p \in Pages
    BY <1>1 DEF Alike
  <2>2. /\ Alike(p, ScheduleFinish(p)) /\ ScheduleFinish(p).phase = p.phase
        /\ Alike(p, Finish(p)) /\ (IsRunning(Finish(p)) <=> IsRunning(p))
    BY <2>1, FinishTimerAlike, FinishAlike
  <2>3. Alike(page, ScheduleFinish(p)) /\ Alike(page, Finish(p))
    BY <1>1, <2>2, AlikeTransitive
  <2> QED BY <1>1, <1>2, <2>2, <2>3 DEF IsRunning
<1>4. Near(page, page') /\ \A j \in Slots : page'.slots[j] = page.slots[j]
    BY <1>3, AlikeNear DEF IInv, Alike
<1>5. UNCHANGED <<start, snapshot, close, release, chapters, events>>
    BY DEF Settle
<1> QED BY <1>3, <1>4, <1>5, NearStep

LEMMA RetryStep ==
    ASSUME IInv, NEW s \in Surfaces, Retry(s) PROVE IInv' /\ AbortedStep
<1> DEFINE id == <<s, page.queueId[s]>>
           failedIds == page.failedIds \ {id}
           pending == page.pending \cup {id}
           runState == [page.runState EXCEPT ![s] = "queued"]
           p == [page EXCEPT !.failedIds = failedIds, !.pending = pending,
                             !.runState = runState, !.stopped = FALSE]
<1>1. /\ Good(page) /\ page \in Pages /\ HasRoom(page) /\ page.runState[s] = "failed"
      /\ id \in page.failedIds /\ UNCHANGED <<start, snapshot, close, release, chapters, events>>
    BY SpareAmple, AmpleHasRoom DEF Retry, IInv, Good
<1>2. id \in Ids /\ id[1] = s /\ id[2] = page.queueId[s]
    BY <1>1 DEF Pages
<1>3. PICK q \in Drained({p}) : page' = Update(q)
    BY <1>1 DEF Retry, Pages
<1>4. /\ failedIds \in SUBSET Ids /\ pending \in SUBSET Ids
      /\ runState \in [Surfaces -> {"none", "queued", "running", "complete", "failed"}]
      /\ runState[s] = "queued" /\ \A t \in Surfaces : t # s => runState[t] = page.runState[t]
    BY <1>1, <1>2 DEF Pages
<1> HIDE DEF id, failedIds, runState, p
<1>5. /\ p \in Pages /\ p.phase = page.phase /\ p.run = page.run /\ p.scoped = page.scoped
      /\ p.active = page.active /\ p.slots = page.slots /\ p.queueId = page.queueId
      /\ p.pending = page.pending \cup {id} /\ p.runState = runState
    BY <1>1, <1>4 DEF p, Pages
<1>6. Aborted(p) = Aborted(page) /\ Running(p) = Running(page)
    BY <1>5 DEF Aborted, Running
<1>7. Unstuck(p)
  <2>0. Unstuck(page) /\ page.pending \subseteq Ids
    BY <1>1 DEF Good, Pages
  <2>1. \A t \in Surfaces : p.runState[t] = "queued" => <<t, p.queueId[t]>> \in p.pending
    BY <1>4, <1>5, <2>0 DEF Unstuck, id
  <2>2. \A t \in Surfaces : p.runState[t] = "running" => <<t, p.queueId[t]>> \in Running(p)
    BY <1>4, <1>5, <1>6, <2>0 DEF Unstuck
  <2>3. \A x \in p.pending : p.queueId[x[1]] = x[2] /\ p.runState[x[1]] = "queued"
    BY <1>2, <1>4, <1>5, <2>0, IdsArePairs DEF Unstuck
  <2>4. \A x \in Running(p) : p.queueId[x[1]] = x[2] /\ p.runState[x[1]] = "running"
    <3> SUFFICES ASSUME NEW x \in Running(page)
                 PROVE  p.queueId[x[1]] = x[2] /\ p.runState[x[1]] = "running"
        BY <1>6
    <3>1. page.queueId[x[1]] = x[2] /\ page.runState[x[1]] = "running" /\ x[1] \in Surfaces
      BY <2>0, IdsArePairs DEF Unstuck, Running
    <3> QED BY <1>1, <1>4, <1>5, <3>1
  <2> QED BY <2>1, <2>2, <2>3, <2>4 DEF Unstuck
<1>8. Entries(p) /\ Roomy(p)
    BY <1>1, <1>5, <1>6 DEF Good, Entries, Roomy, HasRoom
<1>9. Scoping(p)
    BY <1>1, <1>5 DEF Good, Scoping, Untracked
<1>10. Good(p)
    BY <1>5, <1>7, <1>8, <1>9 DEF Good
<1>11. Good(q) /\ Serves(p, q)
    BY <1>3, <1>10, DrainedGood
<1>12. Alike(q, page') /\ (IsRunning(page') <=> IsRunning(q))
    BY <1>3, <1>11, UpdateAlike DEF Good
<1>13. Good(page')
    BY <1>11, <1>12, AlikeGood
<1>14. page'.run = page.run /\ page'.scoped = page.scoped /\ (IsRunning(page') => IsRunning(page))
    BY <1>5, <1>11, <1>12 DEF Alike, Serves, IsRunning
<1>15. Steady(page, page')
    BY <1>5, <1>11, <1>12 DEF Alike, Serves, Steady
<1>16. IInv'
    BY <1>1, <1>13, <1>14, FollowKeeps DEF Follow, IInv, TypeOK
<1> QED BY <1>1, <1>15, <1>16, SteadyInert

\* What an image that comes, goes or changes does to the page.
Shifts(p, q) ==
  /\ Good(q) /\ HasRoom(q)
  /\ q.phase = p.phase /\ q.run = p.run /\ q.scoped = p.scoped
  /\ \A k \in Slots : q.slots[k].at = p.slots[k].at

LEMMA AlikeShifts ==
    ASSUME NEW p, Good(p), HasRoom(p), NEW q, Alike(p, q), q.phase = p.phase
    PROVE  Shifts(p, q) /\ Aborted(q) = Aborted(p)
<1>1. Good(q)
    BY AlikeGood DEF IsRunning
<1>2. Aborted(q) = Aborted(p)
    BY DEF Alike, Aborted
<1> QED BY <1>1, <1>2 DEF Shifts, Alike, HasRoom

\* The images themselves are nothing the invariant speaks of.
LEMMA ImagesShift ==
    ASSUME Good(page), Spare, NEW present \in SUBSET Surfaces,
           NEW rev \in [Surfaces -> 1..Revisions]
    PROVE  LET q == Changed([page EXCEPT !.present = present, !.rev = rev])
           IN  Shifts(page, q) /\ Aborted(q) = Aborted(page)
<1> DEFINE r == [page EXCEPT !.present = present, !.rev = rev]
<1>1. /\ r \in Pages /\ r.phase = page.phase /\ r.slots = page.slots
      /\ r.run = page.run /\ r.scoped = page.scoped /\ r.stopped = page.stopped
      /\ r.pending = page.pending /\ r.failedIds = page.failedIds /\ r.active = page.active
      /\ r.queueId = page.queueId /\ r.runState = page.runState
    BY DEF Good, Pages
<1> HIDE DEF r
<1>2. Near(page, r)
    BY <1>1 DEF Near
<1>3. Good(r) /\ Aborted(r) = Aborted(page)
    BY <1>1, <1>2, NearGood DEF IsRunning
<1>4. HasRoom(r)
    BY <1>3, SpareAmple, AmpleHasRoom DEF HasRoom
<1>5. Shifts(r, Changed(r)) /\ Aborted(Changed(r)) = Aborted(r)
    BY <1>1, <1>3, <1>4, FinishTimerAlike, AlikeShifts
<1>6. Shifts(page, Changed(r)) /\ Aborted(Changed(r)) = Aborted(page)
    BY <1>1, <1>3, <1>5 DEF Shifts
<1> QED BY <1>6 DEF r

LEMMA TakesGood ==
    ASSUME NEW p, Good(p), HasRoom(p), NEW s \in Surfaces, NEW q \in Takes(p, s)
    PROVE  /\ Good(q) /\ q.phase = p.phase /\ q.run = p.run /\ q.scoped = p.scoped
           /\ \A k \in Slots : p.slots[k].at # "idle" => q.slots[k].at = p.slots[k].at
<1>1. CASE Follows(p) /\ p.runState[s] # "failed"
  <2>1. <<s, p.rev[s]>> \in Ids /\ p.scoped
    BY <1>1 DEF Good, Pages, Ids, Follows
  <2>2. q \in EnqueuedOne(p, <<s, p.rev[s]>>)
    BY <1>1 DEF Takes
  <2>3. /\ Good(q) /\ q.phase = p.phase /\ q.scoped = p.scoped /\ q.run = p.run
        /\ \A k \in Slots : p.slots[k].at # "idle" => q.slots[k] = p.slots[k]
    BY <2>1, <2>2, EnqueuedOneGood
  <2> QED BY <2>3
<1>2. CASE ~(Follows(p) /\ p.runState[s] # "failed")
    BY <1>2 DEF Takes
<1> QED BY <1>1, <1>2

LEMMA EventKeeps ==
    ASSUME IInv, Event, Good(page'), page'.phase = page.phase, page'.run = page.run,
           page'.scoped = page.scoped, Steady(page, page'),
           UNCHANGED <<start, snapshot, close, release, chapters>>
    PROVE  IInv' /\ AbortedStep
<1>1. events' \in 0..MaxEvents
    BY Sizes DEF IInv, TypeOK, Event
<1>2. Follow(page, page')
    BY DEF Follow, IsRunning
<1>3. IInv'
    BY <1>1, <1>2, FollowKeeps DEF IInv, TypeOK
<1> QED BY <1>3, SteadyInert DEF IInv

LEMMA ImageAddedStep ==
    ASSUME IInv, NEW s \in Surfaces, ImageAdded(s) PROVE IInv' /\ AbortedStep
<1> DEFINE present == page.present \cup {s}
           p == Changed([page EXCEPT !.present = present, !.rev = page.rev])
           q == Included(p, {s})
<1>1. Good(page) /\ page \in Pages /\ Event /\ Spare
    BY DEF IInv, Good, ImageAdded, Event
<1>2. /\ page' \in Takes(q, s) /\ UNCHANGED <<start, snapshot, close, release, chapters>>
  <2>1. [page EXCEPT !.present = @ \cup {s}] = [page EXCEPT !.present = present, !.rev = page.rev]
    BY <1>1 DEF Pages
  <2> HIDE DEF present
  <2> QED BY <2>1 DEF ImageAdded
<1>3. present \in SUBSET Surfaces /\ page.rev \in [Surfaces -> 1..Revisions]
    BY <1>1 DEF Pages
<1> HIDE DEF present
<1>4. Shifts(page, p)
    BY <1>1, <1>3, ImagesShift
<1> HIDE DEF p
<1>5. Shifts(p, q)
    BY <1>4, IncludedAlike, AlikeShifts DEF Shifts, Good
<1> HIDE DEF q
<1>6. /\ Good(page') /\ page'.phase = q.phase /\ page'.run = q.run /\ page'.scoped = q.scoped
      /\ \A k \in Slots : q.slots[k].at # "idle" => page'.slots[k].at = q.slots[k].at
    BY <1>2, <1>5, TakesGood DEF Shifts
<1>7. /\ page'.phase = page.phase /\ page'.run = page.run /\ page'.scoped = page.scoped
      /\ Steady(page, page')
    BY <1>4, <1>5, <1>6 DEF Shifts, Steady
<1> QED BY <1>1, <1>2, <1>6, <1>7, EventKeeps

LEMMA ImageRemovedStep ==
    ASSUME IInv, NEW s \in Surfaces, ImageRemoved(s) PROVE IInv' /\ AbortedStep
<1> DEFINE present == page.present \ {s}
           p == Changed([page EXCEPT !.present = present, !.rev = page.rev])
<1>1. Good(page) /\ page \in Pages /\ Event /\ Spare
    BY DEF IInv, Good, ImageRemoved, Event
<1>2. page' = Removed(p, s) /\ UNCHANGED <<start, snapshot, close, release, chapters>>
  <2>1. [page EXCEPT !.present = @ \ {s}] = [page EXCEPT !.present = present, !.rev = page.rev]
    BY <1>1 DEF Pages
  <2> HIDE DEF present
  <2> QED BY <2>1 DEF ImageRemoved
<1>3. present \in SUBSET Surfaces /\ page.rev \in [Surfaces -> 1..Revisions]
    BY <1>1 DEF Pages
<1> HIDE DEF present
<1>4. Shifts(page, p) /\ Aborted(p) = Aborted(page)
    BY <1>1, <1>3, ImagesShift
<1> HIDE DEF p
<1>5. Good(p) /\ Ample(p)
    BY <1>1, <1>4, SpareAmple DEF Shifts, Ample
<1>6. /\ Good(page') /\ page'.phase = p.phase /\ page'.run = p.run /\ page'.scoped = p.scoped
      /\ \A k \in Slots : page'.slots[k].at = p.slots[k].at
    BY <1>2, <1>5, RemovedGood
<1>7. /\ page'.phase = page.phase /\ page'.run = page.run /\ page'.scoped = page.scoped
      /\ Steady(page, page')
    BY <1>4, <1>6 DEF Shifts, Steady
<1> QED BY <1>1, <1>2, <1>6, <1>7, EventKeeps

LEMMA ImageUpdatedStep ==
    ASSUME IInv, NEW s \in Surfaces, ImageUpdated(s) PROVE IInv' /\ AbortedStep
<1> DEFINE rev == [page.rev EXCEPT ![s] = @ + 1]
           p == Changed([page EXCEPT !.present = page.present, !.rev = rev])
           q == Included(p, {s})
           r == Removed(q, s)
<1>1. Good(page) /\ page \in Pages /\ Event /\ Spare /\ page.rev[s] < Revisions
    BY DEF IInv, Good, ImageUpdated, Event
<1>2. page' \in Takes(r, s) /\ UNCHANGED <<start, snapshot, close, release, chapters>>
  <2>1. [page EXCEPT !.rev[s] = @ + 1] = [page EXCEPT !.present = page.present, !.rev = rev]
    BY <1>1 DEF Pages
  <2> HIDE DEF rev
  <2> QED BY <2>1 DEF ImageUpdated
<1>3. page.present \in SUBSET Surfaces /\ rev \in [Surfaces -> 1..Revisions]
    BY <1>1, Sizes DEF Pages
<1> HIDE DEF rev
<1>4. Shifts(page, p) /\ Aborted(p) = Aborted(page)
    BY <1>1, <1>3, ImagesShift
<1> HIDE DEF p
<1>5. Shifts(p, q) /\ Aborted(q) = Aborted(p)
    BY <1>4, IncludedAlike, AlikeShifts DEF Shifts, Good
<1> HIDE DEF q
<1>6. Good(q) /\ Ample(q)
    BY <1>1, <1>4, <1>5, SpareAmple DEF Shifts, Ample
<1>7. /\ Good(r) /\ HasRoom(r) /\ r.phase = q.phase /\ r.run = q.run /\ r.scoped = q.scoped
      /\ \A k \in Slots : r.slots[k].at = q.slots[k].at
    BY <1>6, RemovedGood
<1> HIDE DEF r
<1>8. /\ Good(page') /\ page'.phase = r.phase /\ page'.run = r.run /\ page'.scoped = r.scoped
      /\ \A k \in Slots : r.slots[k].at # "idle" => page'.slots[k].at = r.slots[k].at
    BY <1>2, <1>7, TakesGood
<1>9. /\ page'.phase = page.phase /\ page'.run = page.run /\ page'.scoped = page.scoped
      /\ Steady(page, page')
    BY <1>4, <1>5, <1>7, <1>8 DEF Shifts, Steady
<1> QED BY <1>1, <1>2, <1>8, <1>9, EventKeeps

-----------------------------------------------------------------------------
(* The theorems.                                                           *)

LEMMA InitInvariant == Init => IInv
<1> SUFFICES ASSUME Init PROVE IInv
    OBVIOUS
<1>1. PICK S \in SUBSET Surfaces :
        page = [present |-> S, rev |-> [s \in Surfaces |-> 1],
               run |-> 0, phase |-> "idle", scoped |-> FALSE, timer |-> "none",
               pending |-> {}, failedIds |-> {}, active |-> [id \in Ids |-> 0], stopped |-> FALSE,
               queueId |-> [s \in Surfaces |-> 0], runState |-> [s \in Surfaces |-> "none"],
               index |-> [s \in Surfaces |-> IF s \in S THEN Rank(S, s) ELSE 0],
               order |-> {Rank(S, s) : s \in S},
               submitted |-> {}, submitting |-> {},
               slots |-> [k \in Slots |-> Idle], left |-> {}]
    BY DEF Init
<1>2. /\ start = [n \in Runs |-> "none"] /\ snapshot = [n \in Runs |-> {}]
      /\ close = {} /\ release = {} /\ chapters = {} /\ events = 0
    BY DEF Init
<1>3. \A s \in Surfaces : Rank(S, s) \in Nat
    BY FiniteParts DEF Rank
<1>4. [s \in Surfaces |-> IF s \in S THEN Rank(S, s) ELSE 0] \in [Surfaces -> Nat]
      /\ {Rank(S, s) : s \in S} \subseteq Nat
  <2> HIDE DEF Surfaces, Rank
  <2> QED BY <1>3
<1>5. /\ [s \in Surfaces |-> 1] \in [Surfaces -> 1..Revisions] /\ 0 \in 0..MaxRuns
      /\ [id \in Ids |-> 0] \in [Ids -> 0..Processors]
      /\ [s \in Surfaces |-> 0] \in [Surfaces -> 0..Revisions]
      /\ [k \in Slots |-> Idle] \in [Slots -> Items]
    BY Sizes, IdleItem
<1>6. /\ page \in Pages /\ page.run = 0 /\ page.phase = "idle" /\ page.scoped = FALSE
      /\ page.pending = {} /\ page.active = [id \in Ids |-> 0]
      /\ page.runState = [s \in Surfaces |-> "none"] /\ page.slots = [k \in Slots |-> Idle]
    BY <1>1, <1>4, <1>5 DEF Pages
<1>7. Running(page) = {} /\ Aborted(page) = {}
    BY <1>6, IdleItem DEF Running, Aborted
<1>8. Entries(page) /\ Unstuck(page) /\ Scoping(page)
    BY <1>6, <1>7, IdleItem DEF Entries, Unstuck, Scoping, Untracked
<1>9. Roomy(page)
  <2>1. Cardinality({}) = 0
    BY FS_EmptySet
  <2> QED BY <1>7, <2>1, Sizes DEF Roomy
<1>10. TypeOK
    BY <1>2, <1>6, Sizes DEF TypeOK
<1>11. Sessions
    BY <1>2, <1>6 DEF Sessions, Current, IsRunning, Unopened
<1> QED BY <1>6, <1>8, <1>9, <1>10, <1>11 DEF IInv, Good

LEMMA NextInvariant == IInv /\ [Next]_vars => IInv' /\ AbortedStep
<1> SUFFICES ASSUME IInv, [Next]_vars PROVE IInv' /\ AbortedStep
    OBVIOUS
<1>1. CASE StartRun \/ Cancel \/ Settle
    BY <1>1, StartRunKeeps, CancelKeeps, SettleStep
<1>2. ASSUME NEW n \in Runs, Starting(n) \/ CloseChapter(n) \/ CancelPage(n)
      PROVE  IInv' /\ AbortedStep
    BY <1>2, AwaitingKeeps, OpenedKeeps, RecoveredKeeps, StartFailsKeeps, BackgroundKeeps
       DEF Starting
<1>3. ASSUME NEW k \in Slots, Processor(k) \/ Progress(k)
      PROVE  IInv' /\ AbortedStep
    BY <1>3, SubmitStep, CreateStep, AnswerStep, EndStreamStep, StopStep, FailStep, ProgressStep
       DEF Processor
<1>4. ASSUME NEW s \in Surfaces,
             Retry(s) \/ ImageAdded(s) \/ ImageRemoved(s) \/ ImageUpdated(s)
      PROVE  IInv' /\ AbortedStep
    BY <1>4, RetryStep, ImageAddedStep, ImageRemovedStep, ImageUpdatedStep
<1>5. CASE UNCHANGED vars
  <2>1. page' = page /\ start' = start /\ snapshot' = snapshot /\ close' = close
        /\ release' = release /\ chapters' = chapters /\ events' = events
    BY <1>5 DEF vars
  <2>2. Follow(page, page') /\ Steady(page, page')
    BY <2>1 DEF IInv, Follow, Steady
  <2> QED BY <2>1, <2>2, FollowKeeps, SteadyInert DEF IInv, TypeOK
<1> QED BY <1>1, <1>2, <1>3, <1>4, <1>5 DEF Next

\* The page, its runs and the background keep their types, and the queue's
\* entries, run states, keys and processors agree (IInv) whatever the reader,
\* the images and the answers do.
LEMMA Invariance == Spec => []IInv
<1>1. Init => IInv
    BY InitInvariant
<1>2. IInv /\ [Next]_vars => IInv'
    BY NextInvariant
<1> QED BY <1>1, <1>2, PTL DEF Spec

\* Every variable of the page (image-chapter-mode.ts, queue.ts, run-state.ts)
\* and of its runs keeps its type.
THEOREM TypeCorrect == Spec => []TypeOK
<1>1. IInv => TypeOK
    BY DEF IInv
<1> QED BY <1>1, Invariance, PTL

\* No image is stuck: one that waits is in the queue under its key and one that
\* runs has a processor that nobody aborted, after any order of additions,
\* removals, changes, retries, cancellations and new runs.
THEOREM NothingStuck == Spec => []NoStuckImage
<1>1. IInv => NoStuckImage
    BY DEF IInv, Good, Unstuck, Entries, NoStuckImage, Queued, Served, Running
<1> QED BY <1>1, Invariance, PTL

\* The queue never works on more images than maximumConcurrent (queue.ts), aborted
\* ones aside.  And the bound Processors never shows: during a run there is a
\* processor for every place the queue may fill (Starts chooses one).
THEOREM PlacesBounded ==
    Spec => [](/\ Cardinality(Running(page)) <= MaxConcurrent
               /\ IsRunning(page) => Cardinality(Aborted(page)) + MaxConcurrent <= Processors)
<1>1. IInv => /\ Cardinality(Running(page)) <= MaxConcurrent
              /\ IsRunning(page) => Cardinality(Aborted(page)) + MaxConcurrent <= Processors
    BY DEF IInv, Good, Roomy
<1> QED BY <1>1, Invariance, PTL

\* A processor that was aborted changes no image, no entry and not the run on
\* its way to its end, also in the middle of a later run.
THEOREM AbortedInert == Spec => AbortedIsInert
<1>1. IInv /\ [Next]_vars =>
        [\A k \in Slots :
           page.slots[k].aborted /\ page'.slots[k].at # page.slots[k].at =>
             /\ page'.phase = page.phase /\ page'.failedIds = page.failedIds
             /\ page'.queueId = page.queueId
             /\ \A s \in Surfaces : page'.runState[s] # page.runState[s] =>
                  page.runState[s] = "queued" /\ page'.runState[s] = "running"]_vars
    BY NextInvariant DEF AbortedStep, Inert
<1> QED BY <1>1, Invariance, PTL DEF Spec, AbortedIsInert

=============================================================================
