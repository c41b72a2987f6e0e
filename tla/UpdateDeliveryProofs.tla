------------------------ MODULE UpdateDeliveryProofs ------------------------
(***************************************************************************)
(* For any number of items and reloads: no job of the daemon is forgotten  *)
(* by both stores, whatever the old document's calls still do; and, when a *)
(* reload waits for those calls, the record's cursor and the ownership of  *)
(* what is installed follow the current renderer.                          *)
(***************************************************************************)
EXTENDS UpdateDelivery, TLAPS

-----------------------------------------------------------------------------
(* Types.                                                                  *)

Phases == Running \cup {"fresh", "recovering", "submitting", "other", "done",
                        "failed", "cancelled", "closed"}
Pages == [gen : Gens, phase : Phases, after : 0..Last, next : 0..Last, end : Ends]
Calls == [pc : {"none", "recover", "reset", "create", "add", "poll", "find",
                "wait", "store", "ack", "advance", "keep", "end", "remove"},
          seen : Records, seq : 0..Last, end : Ends]
Moments == {"idle", "jobs", "artifacts", "delete", "deleteKept", "unlist", "drop"}

LEMMA Sizes == /\ Items \in Nat /\ Items > 0 /\ Last = Items + 1
               /\ 0 \in 0..Last /\ 0 \in 0..Items /\ 1 \in Gens
BY DeliveryAssumption DEF DeliveryAssumption, Last, Gens

LEMMA EmptyRecords == NoRecord \in Records /\ NoArtifact \in [present : BOOLEAN, items : 0..Last]
BY Sizes DEF NoRecord, Records, NoArtifact

LEMMA EmptyCall == NoCall \in Calls
BY Sizes, EmptyRecords DEF NoCall, Calls, Ends

LEMMA TypeInit == Init => TypeOK
<1> SUFFICES ASSUME Init PROVE TypeOK
    OBVIOUS
<1>1. page \in Pages
    BY Sizes DEF Init, Pages, Phases, Ends
<1>2. call \in [Gens -> Calls]
    BY EmptyCall DEF Init
<1>3. daemon \in [job : {"none", "live", "gone"}, items : 0..Items, ended : Ends \cup {"lost"}]
    BY Sizes DEF Init, Ends
<1>4. release \in [Gens -> [Cancelling -> Moments]]
    BY DEF Init, Moments
<1> QED BY <1>1, <1>2, <1>3, <1>4, EmptyRecords
        DEF Init, TypeOK, Pages, Calls, Moments, Phases

LEMMA Parts ==
    ASSUME TypeOK
    PROVE  /\ page \in Pages /\ call \in [Gens -> Calls]
           /\ release \in [Gens -> [Cancelling -> Moments]]
BY DEF TypeOK, Pages, Calls, Moments, Phases

LEMMA Whole ==
    ASSUME daemon' \in [job : {"none", "live", "gone"}, items : 0..Items,
                        ended : Ends \cup {"lost"}],
           record' \in Records, artifact' \in [present : BOOLEAN, items : 0..Last],
           page' \in Pages, call' \in [Gens -> Calls],
           release' \in [Gens -> [Cancelling -> Moments]], lost' \in BOOLEAN
    PROVE  TypeOK'
BY DEF TypeOK, Pages, Calls, Moments, Phases

LEMMA ReturnsType ==
    ASSUME TypeOK, NEW g \in Gens, Returns(g)
    PROVE  call' \in [Gens -> Calls]
BY Parts, EmptyCall DEF Returns

LEMMA AsksType ==
    ASSUME TypeOK, NEW g \in Gens, NEW seq \in 0..Last, NEW end \in Ends,
           NEW pc \in {"recover", "create", "poll", "ack"}, Asks(g, pc, seq, end)
    PROVE  call' \in [Gens -> Calls]
<1> DEFINE c == [NoCall EXCEPT !.pc = pc, !.seq = seq, !.end = end]
<1>1. c \in Calls
    BY EmptyCall DEF Calls
<1>2. call' = [call EXCEPT ![g] = c]
    BY DEF Asks
<1> HIDE DEF c
<1> QED BY <1>1, <1>2, Parts

LEMMA GoesType ==
    ASSUME TypeOK, NEW g \in Gens,
           NEW pc \in {"add", "wait", "remove"}, Goes(g, pc)
    PROVE  call' \in [Gens -> Calls]
<1> DEFINE c == [call[g] EXCEPT !.pc = pc]
<1>1. c \in Calls
    BY Parts DEF Calls
<1>2. call' = [call EXCEPT ![g] = c]
    BY DEF Goes
<1> HIDE DEF c
<1> QED BY <1>1, <1>2, Parts

LEMMA SendsType ==
    ASSUME TypeOK, NEW g \in Gens, NEW c \in Cancelling, Sends(g, c)
    PROVE  release' \in [Gens -> [Cancelling -> Moments]]
<1> DEFINE r == [release[g] EXCEPT ![c] = IF @ = "idle" THEN "jobs" ELSE @]
<1>1. r \in [Cancelling -> Moments]
    BY Parts DEF Moments
<1>2. release' = [release EXCEPT ![g] = r]
    BY DEF Sends
<1> HIDE DEF r
<1> QED BY <1>1, <1>2, Parts

LEMMA MovesType ==
    ASSUME TypeOK, NEW g \in Gens, NEW c \in Cancelling, NEW pc \in Moments,
           Moves(g, c, pc)
    PROVE  release' \in [Gens -> [Cancelling -> Moments]]
<1> DEFINE r == [release[g] EXCEPT ![c] = pc]
<1>1. r \in [Cancelling -> Moments]
    BY Parts
<1>2. release' = [release EXCEPT ![g] = r]
    BY DEF Moves
<1> HIDE DEF r
<1> QED BY <1>1, <1>2, Parts

LEMMA PhaseType ==
    ASSUME TypeOK, NEW phase \in Phases
    PROVE  [page EXCEPT !.phase = phase] \in Pages
BY Parts DEF Pages

LEMMA FailsType ==
    ASSUME TypeOK, NEW g \in Gens, NEW c \in Cancelling, NEW phase, Fails(g, phase, c)
    PROVE  page' \in Pages /\ release' \in [Gens -> [Cancelling -> Moments]]
BY Parts, PhaseType, SendsType DEF Fails, Phases

LEMMA DeletedType ==
    ASSUME TypeOK
    PROVE  Deleted \in [job : {"none", "live", "gone"}, items : 0..Items,
                        ended : Ends \cup {"lost"}]
BY DEF TypeOK, Deleted, Ends
LEMMA MaxOfTwo ==
    ASSUME NEW n \in Nat, NEW a \in 0..n, NEW b \in 0..n
    PROVE  Max({a, b}) \in 0..n
<1>1. \E x \in {a, b} : \A y \in {a, b} : x >= y
    OBVIOUS
<1>2. Max({a, b}) \in {a, b}
    BY <1>1 DEF Max
<1> QED BY <1>2

LEMMA MaxIsUpper ==
    ASSUME NEW n \in Nat, NEW a \in 0..n, NEW b \in 0..n
    PROVE  Max({a, b}) >= a /\ Max({a, b}) >= b
<1>1. \E x \in {a, b} : \A y \in {a, b} : x >= y
    OBVIOUS
<1> QED BY <1>1 DEF Max

LEMMA DeliveredType ==
    ASSUME NEW seen \in Records, NEW n \in 0..Last, NEW end \in Ends
    PROVE  Delivered(seen, n, end) \in Records
<1>1. ItemsUpTo(n, end) \in 0..Last /\ Last \in Nat
    BY Sizes DEF ItemsUpTo
<1> QED BY <1>1, MaxOfTwo DEF Delivered, Records

LEMMA DeliveredBounds ==
    ASSUME NEW seen \in Records, NEW n \in 0..Last, NEW end \in Ends
    PROVE  /\ Delivered(seen, n, end).acked = seen.acked
           /\ Delivered(seen, n, end).items >= ItemsUpTo(n, end)
<1>1. ItemsUpTo(n, end) \in 0..Last /\ Last \in Nat
    BY Sizes DEF ItemsUpTo
<1>2. seen.items \in 0..Last
    BY DEF Records
<1>3. Max({seen.items, ItemsUpTo(n, end)}) >= ItemsUpTo(n, end)
    BY <1>1, <1>2, MaxIsUpper
<1> QED BY <1>3 DEF Delivered, Records

LEMMA TypeStep == TypeOK /\ [Next]_vars => TypeOK'
<1> SUFFICES ASSUME TypeOK, [Next]_vars PROVE TypeOK'
    OBVIOUS
<1>0. /\ daemon \in [job : {"none", "live", "gone"}, items : 0..Items,
                     ended : Ends \cup {"lost"}]
      /\ record \in Records /\ artifact \in [present : BOOLEAN, items : 0..Last]
      /\ page \in Pages /\ call \in [Gens -> Calls]
      /\ release \in [Gens -> [Cancelling -> Moments]] /\ lost \in BOOLEAN
      /\ page.gen \in Gens
    BY Parts DEF TypeOK, Pages
<1>1. CASE PublishItem
    BY <1>0, <1>1, Whole, Sizes DEF PublishItem, Working
<1>2. CASE PublishEnd
    BY <1>0, <1>2, Whole DEF PublishEnd, Ends
<1>3. CASE Restart
    BY <1>0, <1>3, Whole DEF Restart
<1>4. CASE Start
    BY <1>0, <1>4, Whole, AsksType, PhaseType, Sizes DEF Start, Phases, Ends
<1>5. CASE Poll
  <2>1. page.after \in 0..Last
    BY <1>0 DEF Pages
  <2> QED BY <1>0, <1>5, <2>1, Whole, AsksType, PhaseType DEF Poll, Phases, Running, Ends
<1>6. CASE Install
  <2>1. page.next \in 0..Last /\ page.end \in Ends
    BY <1>0 DEF Pages
  <2>2. page' \in Pages
    BY <1>0, <1>6, <2>1 DEF Install, Pages, Phases, Running
  <2> QED BY <1>0, <1>6, <2>1, <2>2, Whole, AsksType DEF Install
<1>7. CASE InstallFails
    BY <1>0, <1>7, Whole, FailsType DEF InstallFails, Cancelling
<1>8. CASE CancelPage
    BY <1>0, <1>8, Whole, PhaseType, SendsType DEF CancelPage, Cancelling, Phases
<1>9. CASE CloseTab
    BY <1>0, <1>9, Whole, PhaseType, SendsType DEF CloseTab, Cancelling, Phases
<1>10. CASE Reload
  <2>1. page.gen + 1 \in Gens
    BY <1>0, <1>10, DeliveryAssumption DEF Reload, Gens, DeliveryAssumption
  <2>2. page' \in Pages
    BY <1>10, <2>1, Sizes DEF Reload, Pages, Phases, Ends
  <2> QED BY <1>0, <1>10, <2>2, Whole DEF Reload
<1>11. ASSUME NEW g \in Gens, Handler(g) PROVE TypeOK'
  <2>0. /\ call[g].seen \in Records /\ call[g].seq \in 0..Last /\ call[g].end \in Ends
    BY <1>0 DEF Calls
  <2>1. CASE Recover(g)
    <3>1. CASE ~record.present /\ Unmatched(g) /\ UNCHANGED release
      <4>1. \/ Returns(g)
            \/ Asks(g, "create", 0, "no")
        BY <3>1 DEF Unmatched
      <4>2. call' \in [Gens -> Calls]
        BY <4>1, ReturnsType, AsksType, Sizes DEF Ends
      <4>3. page' \in Pages
        <5>1. \/ page' = page
              \/ page' = [page EXCEPT !.phase = "submitting"]
              \/ page' = [page EXCEPT !.phase = "other"]
          BY Zenon, <3>1 DEF Unmatched
        <5>2. "submitting" \in Phases /\ "other" \in Phases
          BY DEF Phases
        <5> QED BY Zenon, <1>0, <5>1, <5>2, PhaseType
      <4> QED BY <1>0, <2>1, <3>1, <4>2, <4>3, Whole DEF Recover
    <3>2. CASE /\ call' = [call EXCEPT ![g].pc = "reset", ![g].seen = record]
               /\ UNCHANGED <<page, release>>
      <4>1. call' \in [Gens -> Calls]
        BY <1>0, <3>2 DEF Calls
      <4> QED BY <1>0, <2>1, <3>2, <4>1, Whole DEF Recover
    <3>3. CASE /\ release' = [release EXCEPT ![g]["recover"] = "delete"]
               /\ Returns(g) /\ UNCHANGED page
      <4>1. release' \in [Gens -> [Cancelling -> Moments]]
        BY <1>0, <3>3, MovesType DEF Moves, Moments, Cancelling
      <4> QED BY <1>0, <2>1, <3>3, <4>1, Whole, ReturnsType DEF Recover
    <3> QED BY <2>1, <3>1, <3>2, <3>3 DEF Recover
  <2>2. CASE Reset(g)
    <3>1. record' \in Records
        BY <2>0, <2>2, Sizes DEF Reset, Records
    <3> QED BY <1>0, <2>2, <3>1, Whole, ReturnsType, PhaseType DEF Reset, Phases, Running
  <2>3. CASE Create(g)
    <3>1. CASE daemon' = [daemon EXCEPT !.job = "live"] /\ Goes(g, "add") /\ UNCHANGED page
        BY <1>0, <2>3, <3>1, Whole, GoesType DEF Create
    <3>2. CASE /\ page' = IF Waits(g, "submitting")
                          THEN [page EXCEPT !.phase = "failed"] ELSE page
               /\ Returns(g) /\ UNCHANGED daemon
        BY <1>0, <2>3, <3>2, Whole, ReturnsType, PhaseType DEF Create, Phases
    <3> QED BY <2>3, <3>1, <3>2 DEF Create
  <2>4. CASE Add(g)
    <3>1. record' \in Records
        BY <2>4, EmptyRecords DEF Add, Records
    <3>2. page' \in Pages
        BY <1>0, <2>4, PhaseType DEF Add, Phases, Running
    <3>3. release' \in [Gens -> [Cancelling -> Moments]]
        BY <1>0, <2>4, SendsType DEF Add, Cancelling
    <3> QED BY <1>0, <2>4, <3>1, <3>2, <3>3, Whole, ReturnsType DEF Add
  <2>5. CASE ReadForPoll(g)
    <3>1. CASE record.present /\ call[g].seq = record.acked
      <4>1. call' \in [Gens -> Calls]
        BY <1>0, <2>5, <3>1 DEF ReadForPoll, Calls
      <4> QED BY <1>0, <2>5, <3>1, <4>1, Whole DEF ReadForPoll
    <3>2. CASE ~(record.present /\ call[g].seq = record.acked)
        BY <1>0, <2>5, <3>2, Whole, ReturnsType, FailsType DEF ReadForPoll, Cancelling
    <3> QED BY <3>1, <3>2
  <2>6. CASE Find(g)
    BY <1>0, <2>6, Whole, GoesType, ReturnsType, FailsType DEF Find, Cancelling
  <2>7. CASE Answer(g)
    <3>1. CASE daemon.ended = "lost"
        BY <1>0, <2>7, <3>1, Whole, ReturnsType, FailsType DEF Answer, Cancelling
    <3>2. CASE daemon.ended # "lost"
      <4>1. daemon.ended \in Ends
        BY <1>0, <3>2
      <4>2. Latest \in 0..Last
        BY <1>0, Sizes DEF Latest
      <4>3. \A n \in Batches(call[g].seq) : n \in 0..Last
        BY <2>0, <4>2, Sizes DEF Batches
      <4>4. PICK n \in 0..Last :
              /\ call' = [call EXCEPT ![g].pc = "store", ![g].seq = n,
                             ![g].end = IF n = Latest THEN daemon.ended ELSE "no"]
              /\ UNCHANGED <<page, release>>
        BY <2>7, <3>2, <4>3 DEF Answer
      <4>5. (IF n = Latest THEN daemon.ended ELSE "no") \in Ends
        BY <4>1 DEF Ends
      <4>6. call' \in [Gens -> Calls]
        <5> DEFINE e == IF n = Latest THEN daemon.ended ELSE "no"
                   c == [call[g] EXCEPT !.pc = "store", !.seq = n, !.end = e]
        <5>1. c \in Calls
            BY <1>0, <4>5 DEF Calls
        <5>2. call' = [call EXCEPT ![g] = c]
            BY <4>4
        <5> HIDE DEF c
        <5> QED BY <1>0, <5>1, <5>2
      <4> QED BY <1>0, <2>7, <4>4, <4>6, Whole DEF Answer
    <3> QED BY <3>1, <3>2
  <2>8. CASE Store(g)
    <3>1. record' \in Records
        BY <2>0, <2>8, DeliveredType DEF Store
    <3>2. page' \in Pages
        BY <1>0, <2>0, <2>8, PhaseType DEF Store, Pages, Phases, Running
    <3> QED BY <1>0, <2>8, <3>1, <3>2, Whole, ReturnsType DEF Store
  <2>9. CASE ReadForAck(g)
    <3>1. CASE InRange(g)
      <4>1. call' \in [Gens -> Calls]
        BY <1>0, <2>9, <3>1 DEF ReadForAck, Calls
      <4> QED BY <1>0, <2>9, <3>1, <4>1, Whole DEF ReadForAck
    <3>2. CASE ~InRange(g)
        BY <1>0, <2>9, <3>2, Whole, ReturnsType, FailsType DEF ReadForAck, Cancelling
    <3> QED BY <3>1, <3>2
  <2>10. CASE Advance(g)
    <3>1. record' \in Records
        BY <2>0, <2>10 DEF Advance, Records
    <3> QED BY <1>0, <2>10, <3>1, Whole, ReturnsType, PhaseType
            DEF Advance, Phases, Running
  <2>11. CASE Keep(g)
    <3>1. artifact' \in [present : BOOLEAN, items : 0..Last]
        BY <2>0, <2>11 DEF Keep, Kept, Records
    <3> QED BY <1>0, <2>11, <3>1, Whole, GoesType DEF Keep
  <2>12. CASE End(g)
    <3>1. CASE daemon' = Deleted /\ Goes(g, "remove") /\ UNCHANGED <<page, release>>
        BY <1>0, <2>12, <3>1, Whole, GoesType, DeletedType DEF End
    <3>2. CASE Returns(g) /\ Fails(g, "acking", "job") /\ UNCHANGED daemon
        BY <1>0, <2>12, <3>2, Whole, ReturnsType, FailsType DEF End, Cancelling
    <3> QED BY <2>12, <3>1, <3>2 DEF End
  <2>13. CASE Remove(g)
    <3>1. page' \in Pages /\ release' \in [Gens -> [Cancelling -> Moments]]
      <4>1. CASE call[g].end = "complete"
        <5>1. /\ page' = page \/ page' = [page EXCEPT !.phase = "done"]
              /\ release' = release
          BY Zenon, <2>13, <4>1 DEF Remove
        <5>2. "done" \in Phases
          BY DEF Phases
        <5> QED BY Zenon, <1>0, <5>1, <5>2, PhaseType
      <4>2. CASE call[g].end # "complete"
        BY <1>0, <2>13, <4>2, FailsType DEF Remove, Cancelling
      <4> QED BY <4>1, <4>2
    <3> QED BY <1>0, <2>13, <3>1, Whole, ReturnsType, EmptyRecords DEF Remove
  <2> QED BY <1>11, <2>1, <2>2, <2>3, <2>4, <2>5, <2>6, <2>7, <2>8, <2>9, <2>10, <2>11,
             <2>12, <2>13 DEF Handler
<1>12. ASSUME NEW g \in Gens, NEW c \in Cancelling, Canceller(g, c) PROVE TypeOK'
  <2>1. CASE ReadJobs(g, c)
    BY <1>0, <2>1, Whole, MovesType DEF ReadJobs, Otherwise, Moments
  <2>2. CASE ReadArtifacts(g, c)
    BY <1>0, <2>2, Whole, MovesType DEF ReadArtifacts, Moments
  <2>3. CASE Release(g, c)
    <3>1. /\ daemon' \in [job : {"none", "live", "gone"}, items : 0..Items,
                          ended : Ends \cup {"lost"}]
          /\ lost' \in BOOLEAN
        BY <1>0, <2>3, DeletedType DEF Release, Delete
    <3> QED BY <1>0, <2>3, <3>1, Whole, MovesType DEF Release, Moments
  <2>4. CASE Unlist(g, c)
    BY <1>0, <2>4, Whole, MovesType, EmptyRecords DEF Unlist, Moments
  <2>5. CASE Drop(g, c)
    <3>1. page' \in Pages
        BY <1>0, <2>5, PhaseType DEF Drop, Phases
    <3> QED BY <1>0, <2>5, <3>1, Whole, MovesType, EmptyRecords DEF Drop, Moments
  <2> QED BY <1>12, <2>1, <2>2, <2>3, <2>4, <2>5 DEF Canceller
<1>13. CASE UNCHANGED vars
    BY <1>0, <1>13, Whole DEF vars
<1> QED BY <1>1, <1>2, <1>3, <1>4, <1>5, <1>6, <1>7, <1>8, <1>9, <1>10, <1>11, <1>12,
           <1>13 DEF Next, Daemon, Renderer, User

\* The variables of the model keep their types: no cursor passes the terminal
\* update, however stale the record a handler writes back.
THEOREM TypeCorrect == Spec => []TypeOK
BY TypeInit, TypeStep, PTL DEF Spec

-----------------------------------------------------------------------------
(* No job is orphaned.  The inductive invariant says what each await holds   *)
(* on to: a handler between two awaits has read a record that was present,   *)
(* a canceller that removes records has sent its DELETE, and at most one     *)
(* creation is under way, before which no job exists.                        *)

Knowing == {"reset", "find", "wait", "store", "advance"}
Aware == Knowing \cup {"add", "keep", "end", "remove"}
Owed == {"delete", "deleteKept", "unlist", "drop"}
Released == lost \/ daemon.job # "live"

OneCreation ==
  \A g \in Gens : call[g].pc = "create" =>
    daemon.job = "none" /\ \A h \in Gens \ {g} : call[h].pc \notin {"create", "add"}
KnownExists ==
  \/ record.present \/ artifact.present
  \/ \E g \in Gens : call[g].pc \in Aware \/ \E c \in Cancelling : release[g][c] \in Owed
  => daemon.job # "none"
SeenListed == \A g \in Gens : call[g].pc \in Knowing => call[g].seen.present
RemovedReleased ==
  /\ \A g \in Gens : call[g].pc = "remove" => artifact.present \/ Released
  /\ \A g \in Gens, c \in Cancelling : release[g][c] \in {"unlist", "drop"} => Released
NothingAhead ==
  /\ \A g \in Gens : g > page.gen => call[g].pc = "none"
  /\ page.phase \in {"fresh", "streaming", "installing"} => call[page.gen].pc = "none"
IInv == /\ OneCreation /\ KnownExists /\ SeenListed
        /\ RemovedReleased /\ NothingAhead /\ NoOrphanJob

\* What the helpers of the handlers do to the calls and to the cancellers.
OthersStay(g) == \A h \in Gens \ {g} : call'[h] = call[h]
NothingNewOwed ==
  \A h \in Gens, c \in Cancelling :
    release'[h][c] = release[h][c] \/ release'[h][c] \notin Owed

LEMMA CallSteps ==
    ASSUME TypeOK, NEW g \in Gens
    PROVE  /\ Returns(g) => call'[g].pc = "none" /\ OthersStay(g)
           /\ \A pc, seq, end : Asks(g, pc, seq, end) => call'[g].pc = pc /\ OthersStay(g)
           /\ \A pc : Goes(g, pc) => /\ call'[g].pc = pc /\ call'[g].seen = call[g].seen
                                    /\ OthersStay(g)
<1>0. call \in [Gens -> Calls]
    BY Parts
<1>1. ASSUME Returns(g) PROVE call'[g].pc = "none" /\ OthersStay(g)
    BY <1>0, <1>1 DEF Returns, NoCall, OthersStay
<1>2. ASSUME NEW pc, NEW seq, NEW end, Asks(g, pc, seq, end)
      PROVE  call'[g].pc = pc /\ OthersStay(g)
  <2> DEFINE c == [NoCall EXCEPT !.pc = pc, !.seq = seq, !.end = end]
  <2>1. c.pc = pc
    BY DEF NoCall
  <2>2. call' = [call EXCEPT ![g] = c]
    BY <1>2 DEF Asks
  <2> HIDE DEF c
  <2> QED BY <1>0, <2>1, <2>2 DEF OthersStay
<1>3. ASSUME NEW pc, Goes(g, pc)
      PROVE  call'[g].pc = pc /\ call'[g].seen = call[g].seen /\ OthersStay(g)
  <2> DEFINE c == [call[g] EXCEPT !.pc = pc]
  <2>1. c.pc = pc /\ c.seen = call[g].seen
    BY <1>0 DEF Calls
  <2>2. call' = [call EXCEPT ![g] = c]
    BY <1>3 DEF Goes
  <2> HIDE DEF c
  <2> QED BY <1>0, <2>1, <2>2 DEF OthersStay
<1> QED BY <1>1, <1>2, <1>3

LEMMA SendsNothingOwed ==
    ASSUME TypeOK, NEW g \in Gens, NEW d \in Cancelling, Sends(g, d)
    PROVE  NothingNewOwed
<1> DEFINE m == IF release[g][d] = "idle" THEN "jobs" ELSE release[g][d]
<1>1. m = release[g][d] \/ m \notin Owed
    BY DEF Owed
<1>2. release' = [release EXCEPT ![g] = [release[g] EXCEPT ![d] = m]]
    BY DEF Sends
<1>3. \A h \in Gens, c \in Cancelling :
        release'[h][c] = IF h = g /\ c = d THEN m ELSE release[h][c]
  <2> HIDE DEF m
  <2> QED BY <1>2, Parts
<1> HIDE DEF m
<1> QED BY <1>1, <1>3 DEF NothingNewOwed

LEMMA FailsQuietly ==
    ASSUME TypeOK, NEW g \in Gens, NEW c \in Cancelling, NEW phase, Fails(g, phase, c)
    PROVE  /\ NothingNewOwed /\ page'.gen = page.gen
           /\ page'.phase = page.phase \/ page'.phase = "failed"
<1>1. CASE Waits(g, phase)
    BY <1>1, SendsNothingOwed, Parts DEF Fails, Pages
<1>2. CASE ~Waits(g, phase)
    BY <1>2 DEF Fails, NothingNewOwed
<1> QED BY <1>1, <1>2

LEMMA MovesOne ==
    ASSUME TypeOK, NEW g \in Gens, NEW d \in Cancelling, NEW pc, Moves(g, d, pc)
    PROVE  \A h \in Gens, c \in Cancelling :
             release'[h][c] = IF h = g /\ c = d THEN pc ELSE release[h][c]
BY Parts DEF Moves

\* The phases in which the renderer awaits no call.
Calling == {"fresh", "streaming", "installing"}

\* A handler that returns, having perhaps written back the record it read.
LEMMA ReturnKeeps ==
    ASSUME IInv, NEW g \in Gens, page.gen \in Gens,
           call'[g].pc = "none", OthersStay(g), NothingNewOwed,
           daemon' = daemon, lost' = lost, artifact' = artifact, page'.gen = page.gen,
           page'.phase \in Calling => page.phase \in Calling \/ g = page.gen,
           record'.present => record.present \/ call[g].pc \in Aware,
           \/ record'.present
           \/ record'.present = record.present /\ call[g].pc # "add"
    PROVE  IInv'
<1>1. OneCreation'
    BY DEF IInv, OneCreation, OthersStay
<1>2. KnownExists'
    BY DEF IInv, KnownExists, OthersStay, NothingNewOwed, Aware, Knowing
<1>3. SeenListed'
    BY DEF IInv, SeenListed, OthersStay, Knowing
<1>4. RemovedReleased'
    BY DEF IInv, RemovedReleased, OthersStay, NothingNewOwed, Released, Owed
<1>5. NothingAhead'
    BY DEF IInv, NothingAhead, OthersStay, Calling, Gens
<1>6. NoOrphanJob'
    BY DEF IInv, NoOrphanJob, OthersStay
<1> QED BY <1>1, <1>2, <1>3, <1>4, <1>5, <1>6 DEF IInv

\* A handler that goes on to its next await, holding a record it has read.
LEMMA GoesOnKeeps ==
    ASSUME IInv, NEW g \in Gens, page.gen \in Gens,
           call[g].pc # "none", call[g].pc # "add", OthersStay(g),
           call'[g].pc \in Aware \ {"add"},
           call'[g].pc \in Knowing => call'[g].seen.present,
           call[g].pc \in Aware \/ record.present,
           call'[g].pc = "remove" => artifact'.present \/ Released',
           daemon'.job = daemon.job \/ daemon'.job = "gone",
           record' = record, artifact' = artifact \/ artifact'.present,
           page' = page, release' = release, lost' = lost
    PROVE  IInv'
<1>0. daemon.job # "none" /\ daemon'.job # "none"
    BY DEF IInv, KnownExists
<1>1. OneCreation'
    BY <1>0 DEF IInv, OneCreation, OthersStay, Aware, Knowing
<1>2. KnownExists'
    BY <1>0 DEF KnownExists
<1>3. SeenListed'
    BY DEF IInv, SeenListed, OthersStay
<1>4. RemovedReleased'
    BY DEF IInv, RemovedReleased, OthersStay, Released
<1>5. NothingAhead'
    BY DEF IInv, NothingAhead, OthersStay
<1>6. NoOrphanJob'
    BY DEF IInv, NoOrphanJob, OthersStay
<1> QED BY <1>1, <1>2, <1>3, <1>4, <1>5, <1>6 DEF IInv

\* The renderer asks, or the page is cancelled, closed or loaded anew.
LEMMA PageKeeps ==
    ASSUME IInv, NEW g \in Gens, page.gen = g, page'.gen \in Gens, page'.gen >= g,
           NothingNewOwed,
           \/ call' = call /\ (page'.phase \in Calling => page'.gen > g)
           \/ /\ page.phase \in Calling /\ page'.phase \notin Calling /\ OthersStay(g)
              /\ call'[g].pc \in {"recover", "poll", "ack"} /\ page'.gen = g,
           daemon' = daemon, record' = record, artifact' = artifact, lost' = lost
    PROVE  IInv'
<1>0. g \in Nat /\ page'.gen \in Nat /\ \A h \in Gens : h \in Nat
    BY DEF Gens
<1>1. OneCreation'
    BY DEF IInv, OneCreation, OthersStay
<1>2. KnownExists'
    BY DEF IInv, KnownExists, OthersStay, NothingNewOwed, Aware, Knowing
<1>3. SeenListed'
    BY DEF IInv, SeenListed, OthersStay, Knowing
<1>4. RemovedReleased'
    BY DEF IInv, RemovedReleased, OthersStay, NothingNewOwed, Released, Owed
<1>5. NothingAhead'
    BY <1>0 DEF IInv, NothingAhead, OthersStay, Calling
<1>6. NoOrphanJob'
    BY DEF IInv, NoOrphanJob, NothingAhead, OthersStay, Calling
<1> QED BY <1>1, <1>2, <1>3, <1>4, <1>5, <1>6 DEF IInv

\* A canceller's step, and the daemon's: no call moves.
LEMMA OthersKeep ==
    ASSUME IInv, page'.gen = page.gen,
           page'.phase \in Calling => page.phase \in Calling, call' = call,
           daemon'.job = daemon.job \/ (daemon'.job = "gone" /\ daemon.job # "none"),
           lost => lost',
           \A h \in Gens, c \in Cancelling :
             /\ release'[h][c] \in Owed =>
                  release[h][c] \in Owed \/ record.present \/ artifact.present
             /\ release'[h][c] \in {"unlist", "drop"} =>
                  release[h][c] \in {"unlist", "drop"} \/ Released',
           record' = record \/ (record' = NoRecord /\ Released'),
           artifact' = artifact \/ (artifact' = NoArtifact /\ Released')
    PROVE  IInv'
<1>0. ~NoRecord.present /\ ~NoArtifact.present /\ (Released => Released')
    BY DEF NoRecord, NoArtifact, Released
<1>1. OneCreation'
  <2>1. daemon.job = "none" => daemon'.job = "none"
    OBVIOUS
  <2> QED BY <2>1 DEF IInv, OneCreation
<1>2. KnownExists'
  <2>1. daemon.job # "none" => daemon'.job # "none"
    OBVIOUS
  <2> QED BY <1>0, <2>1 DEF IInv, KnownExists
<1>3. SeenListed'
    BY DEF IInv, SeenListed
<1>4. RemovedReleased'
    BY <1>0 DEF IInv, RemovedReleased
<1>5. NothingAhead'
    BY DEF IInv, NothingAhead, Calling
<1>6. NoOrphanJob'
    BY <1>0 DEF IInv, NoOrphanJob, Released
<1> QED BY <1>1, <1>2, <1>3, <1>4, <1>5, <1>6 DEF IInv

LEMMA IInvInit == Init => IInv
BY Sizes DEF Init, IInv, OneCreation, KnownExists, SeenListed, RemovedReleased, NothingAhead,
             NoOrphanJob, NoRecord, NoArtifact, NoCall, Aware, Knowing, Owed

LEMMA IInvStep == TypeOK /\ IInv /\ [Next]_vars => IInv'
<1> SUFFICES ASSUME TypeOK, IInv, [Next]_vars PROVE IInv'
    OBVIOUS
<1>0. /\ page \in Pages /\ page.gen \in Gens /\ page.gen \in Nat
      /\ \A phase : /\ [page EXCEPT !.phase = phase].gen = page.gen
                    /\ [page EXCEPT !.phase = phase].phase = phase
    BY Parts DEF Pages, Gens
<1>1. CASE PublishItem \/ PublishEnd \/ Restart
  <2>1. daemon'.job = daemon.job \/ (daemon'.job = "gone" /\ daemon.job # "none")
    BY <1>1 DEF TypeOK, PublishItem, PublishEnd, Restart
  <2>2. UNCHANGED <<record, artifact, page, call, release, lost>>
    BY <1>1 DEF PublishItem, PublishEnd, Restart
  <2> QED BY <2>1, <2>2, OthersKeep
<1>2. CASE Start
  <2>1. page'.phase = "recovering" /\ page'.gen = page.gen /\ page.phase = "fresh"
    BY <1>0, <1>2 DEF Start
  <2>2. call'[page.gen].pc = "recover" /\ OthersStay(page.gen)
    BY <1>0, <1>2, CallSteps DEF Start
  <2> QED BY <1>0, <1>2, <2>1, <2>2, PageKeeps DEF Start, Calling, NothingNewOwed
<1>3. CASE Poll
  <2>1. page'.phase = "polling" /\ page'.gen = page.gen /\ page.phase = "streaming"
    BY <1>0, <1>3 DEF Poll
  <2>2. call'[page.gen].pc = "poll" /\ OthersStay(page.gen)
    BY <1>0, <1>3, CallSteps DEF Poll
  <2> QED BY <1>0, <1>3, <2>1, <2>2, PageKeeps DEF Poll, Calling, NothingNewOwed
<1>4. CASE Install
  <2>1. page'.phase = "acking" /\ page'.gen = page.gen /\ page.phase = "installing"
    BY <1>0, <1>4 DEF Install, Pages
  <2>2. call'[page.gen].pc = "ack" /\ OthersStay(page.gen)
    BY <1>0, <1>4, CallSteps DEF Install
  <2> QED BY <1>0, <1>4, <2>1, <2>2, PageKeeps DEF Install, Calling, NothingNewOwed
<1>5. CASE InstallFails
  <2>1. /\ page'.phase = "failed" /\ page'.gen = page.gen /\ NothingNewOwed
    BY <1>0, <1>5, FailsQuietly DEF InstallFails, Fails, Waits, Cancelling
  <2> QED BY <1>0, <1>5, <2>1, PageKeeps DEF InstallFails, Calling
<1>6. CASE CancelPage
  <2>1. /\ page'.phase = "cancelled" /\ page'.gen = page.gen /\ NothingNewOwed
    BY <1>0, <1>6, SendsNothingOwed DEF CancelPage, Cancelling
  <2> QED BY <1>0, <1>6, <2>1, PageKeeps DEF CancelPage, Calling
<1>7. CASE CloseTab
  <2>1. /\ page'.phase = "closed" /\ page'.gen = page.gen /\ NothingNewOwed
    BY <1>0, <1>7, SendsNothingOwed DEF CloseTab, Cancelling
  <2> QED BY <1>0, <1>7, <2>1, PageKeeps DEF CloseTab, Calling
<1>8. CASE Reload
  <2>1. page'.gen = page.gen + 1 /\ page'.gen \in Gens
    BY <1>0, <1>8, DeliveryAssumption DEF Reload, Gens, DeliveryAssumption
  <2> QED BY <1>0, <1>8, <2>1, PageKeeps DEF Reload, NothingNewOwed
<1>9. ASSUME NEW g \in Gens, Handler(g) PROVE IInv'
  <2>0. /\ Returns(g) => call'[g].pc = "none" /\ OthersStay(g)
        /\ \A pc : Goes(g, pc) => /\ call'[g].pc = pc /\ call'[g].seen = call[g].seen
                                 /\ OthersStay(g)
        /\ call[g] \in Calls /\ "job" \in Cancelling /\ "recover" \in Cancelling
    BY CallSteps, Parts DEF Cancelling
  <2>00. UNCHANGED release => NothingNewOwed
    BY DEF NothingNewOwed
  <2>01. ASSUME NEW phase, Returns(g), Fails(g, phase, "job"), call[g].pc # "add",
                UNCHANGED <<daemon, record, artifact, lost>>
         PROVE  IInv'
    BY <1>0, <2>0, <2>01, FailsQuietly, ReturnKeeps DEF Calling
  <2>1. CASE Recover(g)
    <3>1. CASE ~record.present /\ Unmatched(g) /\ UNCHANGED release
      <4>1. CASE ~Waits(g, "recovering")
        BY <1>0, <2>0, <2>00, <2>1, <3>1, <4>1, ReturnKeeps DEF Recover, Unmatched
      <4>2. CASE /\ Waits(g, "recovering") /\ daemon.job = "none"
                 /\ \A h \in Gens : call[h].pc \notin {"create", "add"}
        <5>1. /\ page' = [page EXCEPT !.phase = "submitting"] /\ Asks(g, "create", 0, "no")
              /\ g = page.gen
          BY <3>1, <4>2 DEF Unmatched, Waits
        <5>2. call'[g].pc = "create" /\ OthersStay(g)
          BY <5>1, CallSteps
        <5>3. page'.gen = page.gen /\ page'.phase = "submitting"
          BY <1>0, <5>1
        <5>4. UNCHANGED <<daemon, record, artifact, release, lost>>
          BY <2>1, <3>1 DEF Recover
        <5>5. OneCreation' /\ KnownExists' /\ SeenListed'
          BY <4>2, <5>2, <5>4 DEF IInv, OneCreation, KnownExists, SeenListed, OthersStay,
                                  Aware, Knowing
        <5>6. RemovedReleased' /\ NothingAhead' /\ NoOrphanJob'
          BY <1>0, <4>2, <5>1, <5>2, <5>3, <5>4
             DEF IInv, RemovedReleased, Released, NothingAhead, NoOrphanJob, OthersStay, Gens
        <5> QED BY <5>5, <5>6 DEF IInv
      <4>3. CASE /\ Waits(g, "recovering")
                 /\ ~(daemon.job = "none" /\ \A h \in Gens : call[h].pc \notin {"create", "add"})
        <5>1. page' = [page EXCEPT !.phase = "other"] /\ Returns(g)
          BY <3>1, <4>3 DEF Unmatched
        <5> QED BY <1>0, <2>0, <2>00, <2>1, <3>1, <5>1, ReturnKeeps DEF Recover, Calling
      <4> QED BY <4>1, <4>2, <4>3
    <3>2. CASE /\ record.present
               /\ call' = [call EXCEPT ![g].pc = "reset", ![g].seen = record]
               /\ UNCHANGED <<page, release>>
      <4>1. /\ call'[g].pc = "reset" /\ call'[g].seen.present /\ OthersStay(g)
        BY <3>2, <2>0, Parts DEF OthersStay, Calls
      <4> QED BY <1>0, <2>1, <3>2, <4>1, GoesOnKeeps DEF Recover, Aware, Knowing
    <3>3. CASE /\ record.present
               /\ release' = [release EXCEPT ![g]["recover"] = "delete"]
               /\ Returns(g) /\ UNCHANGED page
      <4>1. \A h \in Gens, c \in Cancelling :
              release'[h][c] = IF h = g /\ c = "recover" THEN "delete" ELSE release[h][c]
        <5>1. Moves(g, "recover", "delete")
          BY <3>3 DEF Moves
        <5> QED BY <2>0, <5>1, MovesOne
      <4>2. UNCHANGED <<daemon, record, artifact, page, lost>> /\ call[g].pc = "recover"
        BY <2>1, <3>3 DEF Recover
      <4>3. call'[g].pc = "none" /\ OthersStay(g)
        BY <2>0, <3>3
      <4>4. daemon.job # "none"
        BY <3>3 DEF IInv, KnownExists
      <4>5. OneCreation' /\ KnownExists' /\ SeenListed'
        BY <4>2, <4>3, <4>4 DEF IInv, OneCreation, KnownExists, SeenListed, OthersStay, Knowing
      <4>6. RemovedReleased'
        BY <4>1, <4>2, <4>3 DEF IInv, RemovedReleased, Released, OthersStay
      <4>7. NothingAhead' /\ NoOrphanJob'
        BY <1>0, <4>2, <4>3 DEF IInv, NothingAhead, NoOrphanJob, OthersStay
      <4> QED BY <4>5, <4>6, <4>7 DEF IInv
    <3> QED BY <2>1, <3>1, <3>2, <3>3 DEF Recover
  <2>2. CASE Reset(g)
    <3>1. record'.present
      BY <2>0, <2>2 DEF Reset, IInv, SeenListed, Knowing, Calls, Records
    <3>2. page'.gen = page.gen /\ (page'.phase \in Calling => page.phase \in Calling \/ g = page.gen)
      BY <1>0, <2>2 DEF Reset, Waits
    <3> QED BY <1>0, <2>0, <2>00, <2>2, <3>1, <3>2, ReturnKeeps DEF Reset, Aware, Knowing
  <2>3. CASE Create(g)
    <3>1. CASE daemon' = [daemon EXCEPT !.job = "live"] /\ Goes(g, "add") /\ UNCHANGED page
      <4>1. daemon'.job = "live"
        BY <3>1 DEF TypeOK
      <4>2. call'[g].pc = "add" /\ OthersStay(g) /\ call[g].pc = "create"
        BY <2>0, <2>3, <3>1 DEF Create
      <4>3. UNCHANGED <<record, artifact, page, release, lost>>
        BY <2>3, <3>1 DEF Create
      <4>4. daemon.job = "none" /\ \A h \in Gens \ {g} : call[h].pc \notin {"create", "add"}
        BY <4>2 DEF IInv, OneCreation
      <4>5. \A h \in Gens : call[h].pc \notin Aware /\ \A c \in Cancelling : release[h][c] \notin Owed
        BY <4>4 DEF IInv, KnownExists
      <4>6. OneCreation' /\ KnownExists' /\ SeenListed'
        BY <4>1, <4>2, <4>4 DEF IInv, OneCreation, KnownExists, SeenListed, OthersStay, Knowing
      <4>7. RemovedReleased'
        BY <4>2, <4>3, <4>5 DEF RemovedReleased, OthersStay, Aware, Owed
      <4>8. NothingAhead'
        BY <1>0, <4>2, <4>3 DEF IInv, NothingAhead, OthersStay
      <4>9. NoOrphanJob'
        BY <4>2 DEF NoOrphanJob
      <4> QED BY <4>6, <4>7, <4>8, <4>9 DEF IInv
    <3>2. CASE /\ page' = IF Waits(g, "submitting")
                          THEN [page EXCEPT !.phase = "failed"] ELSE page
               /\ Returns(g) /\ UNCHANGED daemon
      BY <1>0, <2>0, <2>00, <2>3, <3>2, ReturnKeeps DEF Create, Calling
    <3> QED BY <2>3, <3>1, <3>2 DEF Create
  <2>4. CASE Add(g)
    <3>1. record'.present
      BY <2>4 DEF Add, NoRecord
    <3>2. page'.gen = page.gen /\ (page'.phase \in Calling => page.phase \in Calling \/ g = page.gen)
      BY <1>0, <2>4 DEF Add, Waits
    <3>3. NothingNewOwed
      BY <2>0, <2>00, <2>4, SendsNothingOwed DEF Add
    <3> QED BY <1>0, <2>0, <2>4, <3>1, <3>2, <3>3, ReturnKeeps DEF Add, Aware
  <2>5. CASE ReadForPoll(g)
    <3>1. CASE record.present /\ call[g].seq = record.acked
      <4>1. /\ call'[g].pc = "find" /\ call'[g].seen.present /\ OthersStay(g)
        BY <2>0, <2>5, <3>1, Parts DEF ReadForPoll, OthersStay, Calls
      <4> QED BY <1>0, <2>5, <3>1, <4>1, GoesOnKeeps DEF ReadForPoll, Aware, Knowing
    <3>2. CASE ~(record.present /\ call[g].seq = record.acked)
      BY <2>01, <2>5, <3>2 DEF ReadForPoll
    <3> QED BY <3>1, <3>2
  <2>6. CASE Find(g)
    <3>1. CASE daemon.job = "live"
      <4>1. /\ call'[g].pc = "wait" /\ call'[g].seen.present /\ OthersStay(g)
        BY <2>0, <2>6, <3>1 DEF Find, IInv, SeenListed, Knowing
      <4> QED BY <1>0, <2>6, <3>1, <4>1, GoesOnKeeps DEF Find, Aware, Knowing
    <3>2. CASE daemon.job # "live"
      BY <2>01, <2>6, <3>2 DEF Find
    <3> QED BY <3>1, <3>2
  <2>7. CASE Answer(g)
    <3>1. CASE daemon.ended = "lost"
      BY <2>01, <2>7, <3>1 DEF Answer
    <3>2. CASE daemon.ended # "lost"
      <4>1. PICK n : /\ call' = [call EXCEPT ![g].pc = "store", ![g].seq = n,
                               ![g].end = IF n = Latest THEN daemon.ended ELSE "no"]
                     /\ UNCHANGED <<page, release>>
        BY <2>7, <3>2 DEF Answer
      <4>2. /\ call'[g].pc = "store" /\ call'[g].seen = call[g].seen /\ OthersStay(g)
        BY <2>0, <4>1, Parts DEF OthersStay, Calls
      <4>3. call[g].pc = "wait" /\ call[g].seen.present
        BY <2>7 DEF Answer, IInv, SeenListed, Knowing
      <4> QED BY <1>0, <2>7, <4>1, <4>2, <4>3, GoesOnKeeps DEF Answer, Aware, Knowing
    <3> QED BY <3>1, <3>2
  <2>8. CASE Store(g)
    <3>1. record'.present
      BY <2>0, <2>8 DEF Store, Delivered, IInv, SeenListed, Knowing, Calls, Records
    <3>2. page'.gen = page.gen /\ (page'.phase \in Calling => page.phase \in Calling \/ g = page.gen)
      BY <1>0, <2>8 DEF Store, Waits, Pages
    <3> QED BY <1>0, <2>0, <2>00, <2>8, <3>1, <3>2, ReturnKeeps DEF Store, Aware, Knowing
  <2>9. CASE ReadForAck(g)
    <3>1. CASE InRange(g)
      <4>1. /\ call'[g].pc \in {"advance", "keep", "end"} /\ call'[g].seen = record
            /\ OthersStay(g)
        BY <2>0, <2>9, <3>1, Parts DEF ReadForAck, OthersStay, Calls
      <4>2. record.present /\ UNCHANGED <<page, release>>
        BY <2>9, <3>1 DEF ReadForAck, InRange
      <4> QED BY <1>0, <2>9, <4>1, <4>2, GoesOnKeeps DEF ReadForAck, Aware, Knowing
    <3>2. CASE ~InRange(g)
      BY <2>01, <2>9, <3>2 DEF ReadForAck
    <3> QED BY <3>1, <3>2
  <2>10. CASE Advance(g)
    <3>1. record'.present
      BY <2>0, <2>10 DEF Advance, IInv, SeenListed, Knowing, Calls, Records
    <3>2. page'.gen = page.gen /\ (page'.phase \in Calling => page.phase \in Calling \/ g = page.gen)
      BY <1>0, <2>10 DEF Advance, Waits
    <3> QED BY <1>0, <2>0, <2>00, <2>10, <3>1, <3>2, ReturnKeeps DEF Advance, Aware, Knowing
  <2>11. CASE Keep(g)
    <3>1. /\ call'[g].pc = "remove" /\ OthersStay(g) /\ artifact'.present
      BY <2>0, <2>11 DEF Keep, Kept
    <3> QED BY <1>0, <2>11, <3>1, GoesOnKeeps DEF Keep, Aware, Knowing
  <2>12. CASE End(g)
    <3>1. CASE /\ daemon.job = "live" /\ daemon' = Deleted
               /\ Goes(g, "remove") /\ UNCHANGED <<page, release>>
      <4>1. call'[g].pc = "remove" /\ OthersStay(g)
        BY <2>0, <3>1
      <4>2. daemon'.job = "gone"
        BY <3>1 DEF Deleted, TypeOK
      <4> QED BY <1>0, <2>12, <3>1, <4>1, <4>2, GoesOnKeeps DEF End, Aware, Knowing, Released
    <3>2. CASE Returns(g) /\ Fails(g, "acking", "job") /\ UNCHANGED daemon
      BY <2>01, <2>12, <3>2 DEF End
    <3> QED BY <2>12, <3>1, <3>2 DEF End
  <2>13. CASE Remove(g)
    <3>1. call[g].pc = "remove" /\ ~record'.present /\ (artifact.present \/ Released)
      BY <2>13 DEF Remove, NoRecord, IInv, RemovedReleased
    <3>2. call'[g].pc = "none" /\ OthersStay(g) /\ UNCHANGED <<daemon, artifact, lost>>
      BY <2>0, <2>13 DEF Remove
    <3>3. /\ NothingNewOwed /\ page'.gen = page.gen
          /\ page'.phase \in Calling => page.phase \in Calling
      <4>1. CASE call[g].end = "complete"
        BY <1>0, <2>00, <2>13, <4>1 DEF Remove, Calling
      <4>2. CASE call[g].end # "complete"
        BY <2>0, <2>13, <4>2, FailsQuietly DEF Remove, Calling
      <4> QED BY <4>1, <4>2
    <3>4. OneCreation' /\ SeenListed'
      BY <3>2 DEF IInv, OneCreation, SeenListed, OthersStay, Knowing
    <3>5. KnownExists'
      BY <3>1, <3>2, <3>3 DEF IInv, KnownExists, OthersStay, NothingNewOwed, Aware, Knowing
    <3>6. RemovedReleased'
      BY <3>2, <3>3 DEF IInv, RemovedReleased, OthersStay, NothingNewOwed, Released, Owed
    <3>7. NothingAhead'
      BY <1>0, <3>2, <3>3 DEF IInv, NothingAhead, OthersStay, Calling
    <3>8. NoOrphanJob'
      BY <3>1, <3>2 DEF NoOrphanJob, Released
    <3> QED BY <3>4, <3>5, <3>6, <3>7, <3>8 DEF IInv
  <2> QED BY <1>9, <2>1, <2>2, <2>3, <2>4, <2>5, <2>6, <2>7, <2>8, <2>9, <2>10, <2>11,
             <2>12, <2>13 DEF Handler
<1>10. ASSUME NEW g \in Gens, NEW c \in Cancelling, Canceller(g, c) PROVE IInv'
  <2>1. CASE ReadJobs(g, c)
    <3>1. \A h \in Gens, d \in Cancelling : release'[h][d] =
            IF h = g /\ d = c THEN (IF record.present THEN "delete" ELSE Otherwise(c))
            ELSE release[h][d]
      BY <2>1, MovesOne DEF ReadJobs
    <3> QED BY <2>1, <3>1, OthersKeep DEF ReadJobs, Otherwise, Owed
  <2>2. CASE ReadArtifacts(g, c)
    <3>1. \A h \in Gens, d \in Cancelling : release'[h][d] =
            IF h = g /\ d = c THEN (IF artifact.present THEN "deleteKept" ELSE "idle")
            ELSE release[h][d]
      BY <2>2, MovesOne DEF ReadArtifacts
    <3> QED BY <2>2, <3>1, OthersKeep DEF ReadArtifacts, Owed
  <2>3. CASE Release(g, c)
    <3>1. \A h \in Gens, d \in Cancelling : release'[h][d] =
            IF h = g /\ d = c THEN (IF release[g][c] = "delete" THEN "unlist" ELSE "drop")
            ELSE release[h][d]
      BY <2>3, MovesOne DEF Release
    <3>2. release[g][c] \in Owed /\ daemon.job # "none"
      BY <2>3 DEF Release, Owed, IInv, KnownExists
    <3>3. /\ daemon'.job = daemon.job \/ daemon'.job = "gone"
          /\ Released' /\ (lost => lost')
      <4>1. CASE daemon' = Deleted /\ UNCHANGED lost
        <5>1. daemon'.job # "live" /\ (daemon'.job = daemon.job \/ daemon'.job = "gone")
          BY <4>1 DEF Deleted, TypeOK
        <5> QED BY <4>1, <5>1 DEF Released
      <4>2. CASE daemon.job = "live" /\ lost' = TRUE /\ UNCHANGED daemon
        BY <4>2 DEF Released
      <4> QED BY <2>3, <4>1, <4>2 DEF Release, Delete
    <3>4. UNCHANGED <<record, artifact, page, call>>
      BY <2>3 DEF Release
    <3> QED BY <3>1, <3>2, <3>3, <3>4, OthersKeep
  <2>4. CASE Unlist(g, c)
    <3>1. \A h \in Gens, d \in Cancelling : release'[h][d] =
            IF h = g /\ d = c THEN "drop" ELSE release[h][d]
      BY <2>4, MovesOne DEF Unlist
    <3>2. release[g][c] = "unlist" /\ Released
      BY <2>4 DEF Unlist, IInv, RemovedReleased
    <3>3. Released'
      BY <2>4, <3>2 DEF Unlist, Released
    <3> QED BY <2>4, <3>1, <3>2, <3>3, OthersKeep DEF Unlist, Owed
  <2>5. CASE Drop(g, c)
    <3>1. \A h \in Gens, d \in Cancelling : release'[h][d] =
            IF h = g /\ d = c THEN "idle" ELSE release[h][d]
      BY <2>5, MovesOne DEF Drop
    <3>2. Released
      BY <2>5 DEF Drop, IInv, RemovedReleased
    <3>3. Released'
      BY <2>5, <3>2 DEF Drop, Released
    <3>4. page'.gen = page.gen /\ (page'.phase \in Calling => page.phase \in Calling)
      BY <1>0, <2>5 DEF Drop, Calling
    <3> QED BY <2>5, <3>1, <3>3, <3>4, OthersKeep DEF Drop, Owed
  <2> QED BY <1>10, <2>1, <2>2, <2>3, <2>4, <2>5 DEF Canceller
<1>11. CASE UNCHANGED vars
    BY <1>11, OthersKeep DEF vars
<1> QED BY <1>1, <1>2, <1>3, <1>4, <1>5, <1>6, <1>7, <1>8, <1>9, <1>10, <1>11
        DEF Next, Daemon, Renderer, User

\* A live job of the daemon is in one of the two stores, is just being written
\* there, or lost its DELETE: for every number of items and reloads, and even
\* when an old document's poll outlives a reload (background.ts, active-jobs.ts).
THEOREM NothingOrphaned == Spec => []NoOrphanJob
<1>1. TypeOK /\ IInv /\ [Next]_vars => IInv'
    BY IInvStep
<1>2. IInv => NoOrphanJob
    BY DEF IInv
<1> QED BY IInvInit, TypeCorrect, <1>1, <1>2, PTL DEF Spec

-----------------------------------------------------------------------------
(* One document at a time: with no reload over an open call, the cursors and *)
(* the ownership of the current renderer.  Where the renderer stands fixes   *)
(* the step of its call, and what the call has read.                         *)

Current == call[page.gen]
Loose == {"other", "failed", "cancelled", "closed"}

Alone == \A g \in Gens : g # page.gen => ~Open(g)
Quiet == \A c \in Cancelling : release[page.gen][c] = "idle"
InCursor == record.present => record.acked = page.after
Covered == page.after > 1 => artifact.present /\ artifact.items >= page.after - 1

InFresh == page.phase = "fresh" => Quiet /\ Current.pc = "none" /\ page.after = 0
InRecovering ==
  page.phase = "recovering" =>
    /\ page.after = 0
    /\ \A c \in Cancelling \ {"recover"} : release[page.gen][c] = "idle"
    /\ \/ Current.pc = "none"
       \/ Current.pc \in {"recover", "reset"} /\ release[page.gen]["recover"] = "idle"
InSubmitting ==
  page.phase = "submitting" => Quiet /\ Current.pc \in {"create", "add"} /\ page.after = 0
InStreaming == page.phase = "streaming" => Quiet /\ Current.pc = "none" /\ InCursor
InPolling ==
  page.phase = "polling" =>
    /\ Quiet /\ InCursor
    /\ \/ Current.pc = "poll" /\ Current.seq = page.after
       \/ Current.pc \in {"find", "wait", "store"} /\ Current.seen.acked = page.after
InInstalling ==
  page.phase = "installing" =>
    /\ Quiet /\ Current.pc = "none" /\ InCursor
    /\ record.present => record.items >= ItemsUpTo(page.next, page.end)
InAcking ==
  page.phase = "acking" =>
    /\ Quiet /\ Current.seq = page.after
    /\ \/ /\ Current.pc = "ack"
          /\ record.present => record.items >= ItemsUpTo(page.after, Current.end)
       \/ Current.pc = "advance"
       \/ /\ Current.pc = "keep" /\ Current.end = "complete"
          /\ Current.seen.items >= ItemsUpTo(page.after, "complete")
       \/ Current.pc = "end" /\ (Current.end = "complete" => page.after <= 1)
       \/ Current.pc = "remove" /\ (Current.end = "complete" => Covered)
InDone == page.phase = "done" => Quiet /\ Current.pc = "none" /\ Covered

Follows == /\ InFresh /\ InRecovering /\ InSubmitting /\ InStreaming
           /\ InPolling /\ InInstalling /\ InAcking /\ InDone
Paced == Alone /\ Follows

LEMMA LooseFollows == ASSUME page'.phase \in Loose PROVE Follows'
BY DEF Loose, Follows, InFresh, InRecovering, InSubmitting, InStreaming, InPolling, InInstalling,
       InAcking, InDone

\* An open call or canceller tells where the renderer stands.
LEMMA Whereabouts ==
    ASSUME TypeOK, Paced, page.phase \notin Loose
    PROVE  /\ Current.pc \in {"recover", "reset"} => page.phase = "recovering"
           /\ Current.pc \in {"create", "add"} => page.phase = "submitting"
           /\ Current.pc \in {"poll", "find", "wait", "store"} => page.phase = "polling"
           /\ Current.pc \in {"ack", "advance", "keep", "end", "remove"} => page.phase = "acking"
           /\ \A c \in Cancelling : release[page.gen][c] # "idle" =>
                page.phase = "recovering" /\ c = "recover" /\ Current.pc = "none"
<1>1. page.phase \in {"fresh", "recovering", "submitting", "streaming", "polling", "installing",
                      "acking", "done"}
    BY Parts DEF Pages, Phases, Running, Loose
<1> QED BY <1>1 DEF Paced, Follows, InFresh, InRecovering, InSubmitting, InStreaming, InPolling,
                    InInstalling, InAcking, InDone, Quiet

LEMMA CallParts ==
    ASSUME TypeOK, NEW g \in Gens
    PROVE  /\ \A pc, seq, end : Asks(g, pc, seq, end) =>
                call'[g].pc = pc /\ call'[g].seq = seq /\ call'[g].end = end
           /\ \A pc : Goes(g, pc) =>
                /\ call'[g].pc = pc /\ call'[g].seq = call[g].seq
                /\ call'[g].end = call[g].end /\ call'[g].seen = call[g].seen
<1>0. call \in [Gens -> Calls]
    BY Parts
<1>1. ASSUME NEW pc, NEW seq, NEW end, Asks(g, pc, seq, end)
      PROVE  call'[g].pc = pc /\ call'[g].seq = seq /\ call'[g].end = end
  <2> DEFINE c == [NoCall EXCEPT !.pc = pc, !.seq = seq, !.end = end]
  <2>1. c.pc = pc /\ c.seq = seq /\ c.end = end
    BY DEF NoCall
  <2>2. call' = [call EXCEPT ![g] = c]
    BY <1>1 DEF Asks
  <2> HIDE DEF c
  <2> QED BY <1>0, <2>1, <2>2
<1>2. ASSUME NEW pc, Goes(g, pc)
      PROVE  /\ call'[g].pc = pc /\ call'[g].seq = call[g].seq
             /\ call'[g].end = call[g].end /\ call'[g].seen = call[g].seen
  <2> DEFINE c == [call[g] EXCEPT !.pc = pc]
  <2>1. /\ c.pc = pc /\ c.seq = call[g].seq /\ c.end = call[g].end /\ c.seen = call[g].seen
    BY <1>0 DEF Calls
  <2>2. call' = [call EXCEPT ![g] = c]
    BY <1>2 DEF Goes
  <2> HIDE DEF c
  <2> QED BY <1>0, <2>1, <2>2
<1> QED BY <1>1, <1>2

LEMMA PageParts ==
    ASSUME TypeOK, NEW phase
    PROVE  /\ [page EXCEPT !.phase = phase].phase = phase
           /\ [page EXCEPT !.phase = phase].gen = page.gen
           /\ [page EXCEPT !.phase = phase].after = page.after
           /\ [page EXCEPT !.phase = phase].next = page.next
           /\ [page EXCEPT !.phase = phase].end = page.end
BY Parts DEF Pages

\* What a handler or a canceller of g leaves alone.
OthersRest(g) == \A h \in Gens \ {g} : release'[h] = release[h]

LEMMA SendsRest ==
    ASSUME TypeOK, NEW g \in Gens, NEW c, Sends(g, c) \/ UNCHANGED release
    PROVE  OthersRest(g)
<1> DEFINE m == [release[g] EXCEPT ![c] = IF @ = "idle" THEN "jobs" ELSE @]
<1>1. release' = [release EXCEPT ![g] = m] \/ release' = release
    BY DEF Sends
<1> HIDE DEF m
<1> QED BY <1>1, Parts DEF OthersRest

LEMMA FailsRest ==
    ASSUME TypeOK, NEW g \in Gens, NEW c, NEW phase, Fails(g, phase, c)
    PROVE  /\ OthersRest(g) /\ page'.gen = page.gen
           /\ IF Waits(g, phase) THEN page'.phase = "failed" ELSE page' = page
BY SendsRest, PageParts DEF Fails

LEMMA AloneKeeps ==
    ASSUME Alone, NEW g, g = page.gen, page'.gen = page.gen, OthersStay(g), OthersRest(g)
    PROVE  Alone'
BY DEF Alone, Open, OthersStay, OthersRest

LEMMA HandlerIsCurrent ==
    ASSUME Alone, NEW g \in Gens, call[g].pc # "none" PROVE g = page.gen
BY DEF Alone, Open

LEMMA CancellerIsCurrent ==
    ASSUME Alone, NEW g \in Gens, NEW c \in Cancelling, release[g][c] # "idle"
    PROVE  g = page.gen
BY DEF Alone, Open

LEMMA RecoverPaced ==
    ASSUME TypeOK, Paced, NEW g \in Gens, Recover(g) \/ Reset(g) \/ Create(g) \/ Add(g)
    PROVE  Paced'
<1>0. /\ g = page.gen /\ call[g].pc \in {"recover", "reset", "create", "add"}
      /\ call \in [Gens -> Calls] /\ page \in Pages
    BY HandlerIsCurrent, Parts DEF Paced, Recover, Reset, Create, Add
<1>1. CASE Recover(g)
  <2>1. CASE ~record.present /\ Unmatched(g) /\ UNCHANGED release
    <3>1. OthersRest(g)
      BY <2>1, SendsRest
    <3>2. CASE ~Waits(g, "recovering")
      <4>1. Returns(g) /\ page' = page
        BY <2>1, <3>2 DEF Unmatched
      <4>2. page.phase \in Loose
        BY <1>0, <1>1, <3>2, Whereabouts DEF Waits, Current, Recover
      <4> QED BY <1>0, <3>1, <4>1, <4>2, LooseFollows, AloneKeeps, CallSteps DEF Paced
    <3>3. CASE page' = [page EXCEPT !.phase = "submitting"] /\ Asks(g, "create", 0, "no")
               /\ Waits(g, "recovering")
      <4>1. /\ page'.phase = "submitting" /\ page'.gen = page.gen /\ page'.after = page.after
            /\ call'[g].pc = "create" /\ OthersStay(g)
        BY <3>3, CallSteps, PageParts
      <4>2. page.after = 0 /\ Quiet
        BY <1>0, <1>1, <3>3 DEF Paced, Follows, InRecovering, Waits, Quiet, Recover, Current
      <4>3. Quiet'
        BY <2>1, <4>1, <4>2 DEF Quiet
      <4>4. Follows'
        BY <1>0, <4>1, <4>2, <4>3 DEF Follows, InFresh, InRecovering, InSubmitting, InStreaming,
             InPolling, InInstalling, InAcking, InDone, Current
      <4> QED BY <1>0, <3>1, <4>1, <4>4, AloneKeeps DEF Paced
    <3>4. CASE page' = [page EXCEPT !.phase = "other"] /\ Returns(g)
      <4>1. page'.phase \in Loose /\ page'.gen = page.gen /\ OthersStay(g)
        BY <3>4, CallSteps, PageParts DEF Loose
      <4> QED BY <1>0, <3>1, <4>1, LooseFollows, AloneKeeps DEF Paced
    <3> QED BY <2>1, <3>2, <3>3, <3>4 DEF Unmatched
  <2>2. CASE /\ call' = [call EXCEPT ![g].pc = "reset", ![g].seen = record]
             /\ UNCHANGED <<page, release>>
    <3>1. call'[g].pc = "reset" /\ OthersStay(g) /\ OthersRest(g) /\ page' = page
      BY <1>0, <2>2 DEF OthersStay, OthersRest, Calls
    <3>2. Alone'
      BY <1>0, <3>1, AloneKeeps DEF Paced
    <3>3. CASE page.phase \in Loose
      BY <3>1, <3>2, <3>3, LooseFollows DEF Paced
    <3>4. CASE page.phase \notin Loose
      <4>1. page.phase = "recovering"
        BY <1>0, <1>1, <3>4, Whereabouts DEF Recover, Current
      <4>2. /\ page.after = 0 /\ release[g]["recover"] = "idle"
            /\ \A c \in Cancelling \ {"recover"} : release[g][c] = "idle"
        BY <1>0, <1>1, <4>1 DEF Paced, Follows, InRecovering, Recover, Current
      <4>3. Follows'
        BY <1>0, <2>2, <3>1, <4>1, <4>2 DEF Follows, InFresh, InRecovering, InSubmitting,
             InStreaming, InPolling, InInstalling, InAcking, InDone, Current
      <4> QED BY <3>2, <4>3 DEF Paced
    <3> QED BY <3>3, <3>4
  <2>3. CASE /\ release' = [release EXCEPT ![g]["recover"] = "delete"]
             /\ Returns(g) /\ UNCHANGED page
    <3>1. call'[g].pc = "none" /\ OthersStay(g)
      BY <2>3, CallSteps
    <3>2. \A h \in Gens, c \in Cancelling :
            release'[h][c] = IF h = g /\ c = "recover" THEN "delete" ELSE release[h][c]
      <4>1. Moves(g, "recover", "delete") /\ "recover" \in Cancelling
        BY <2>3 DEF Moves, Cancelling
      <4> QED BY <4>1, MovesOne
    <3>3. OthersRest(g)
      BY <2>3, Parts DEF OthersRest
    <3>4. Alone'
      BY <1>0, <2>3, <3>1, <3>3, AloneKeeps DEF Paced
    <3>5. CASE page.phase \in Loose
      BY <2>3, <3>4, <3>5, LooseFollows DEF Paced
    <3>6. CASE page.phase \notin Loose
      <4>1. page.phase = "recovering"
        BY <1>0, <1>1, <3>6, Whereabouts DEF Recover, Current
      <4>2. /\ page.after = 0
            /\ \A c \in Cancelling \ {"recover"} : release[g][c] = "idle"
        BY <1>0, <4>1 DEF Paced, Follows, InRecovering
      <4>3. \A c \in Cancelling \ {"recover"} : release'[g][c] = "idle"
        BY <3>2, <4>2
      <4>4. Follows'
        BY <1>0, <2>3, <3>1, <4>1, <4>2, <4>3 DEF Follows, InFresh, InRecovering, InSubmitting,
             InStreaming, InPolling, InInstalling, InAcking, InDone, Current
      <4> QED BY <3>4, <4>4 DEF Paced
    <3> QED BY <3>5, <3>6
  <2> QED BY <1>1, <2>1, <2>2, <2>3 DEF Recover
<1>2. CASE Reset(g)
  <2>1. call'[g].pc = "none" /\ OthersStay(g) /\ OthersRest(g) /\ UNCHANGED release
    BY <1>2, CallSteps, SendsRest DEF Reset
  <2>2. CASE Waits(g, "recovering")
    <3>1. page'.phase = "streaming" /\ page'.gen = page.gen /\ page'.after = page.after
      BY <1>2, <2>2, PageParts DEF Reset
    <3>2. page.after = 0 /\ Quiet
      BY <1>0, <1>2, <2>2 DEF Paced, Follows, InRecovering, Waits, Quiet, Reset, Current
    <3>3. record'.acked = 0
      BY <1>0, <1>2 DEF Reset, Calls, Records
    <3>4. Quiet' /\ InCursor'
      BY <2>1, <3>1, <3>2, <3>3 DEF Quiet, InCursor
    <3>5. Follows'
      BY <1>0, <2>1, <3>1, <3>4 DEF Follows, InFresh, InRecovering, InSubmitting, InStreaming,
           InPolling, InInstalling, InAcking, InDone, Current
    <3> QED BY <1>0, <2>1, <3>1, <3>5, AloneKeeps DEF Paced
  <2>3. CASE ~Waits(g, "recovering")
    <3>1. page' = page /\ page.phase \in Loose
      BY <1>0, <1>2, <2>3, Whereabouts DEF Reset, Waits, Current
    <3> QED BY <1>0, <2>1, <3>1, LooseFollows, AloneKeeps DEF Paced
  <2> QED BY <2>2, <2>3
<1>3. CASE Create(g)
  <2>0. OthersRest(g) /\ UNCHANGED release
    BY <1>3, SendsRest DEF Create
  <2>1. CASE Goes(g, "add") /\ UNCHANGED page
    <3>1. call'[g].pc = "add" /\ OthersStay(g)
      BY <2>1, CallSteps
    <3>2. Alone'
      BY <1>0, <2>0, <2>1, <3>1, AloneKeeps DEF Paced
    <3>3. CASE page.phase \in Loose
      BY <2>1, <3>2, <3>3, LooseFollows DEF Paced
    <3>4. CASE page.phase \notin Loose
      <4>1. page.phase = "submitting"
        BY <1>0, <1>3, <3>4, Whereabouts DEF Create, Current
      <4>2. page.after = 0 /\ Quiet
        BY <4>1 DEF Paced, Follows, InSubmitting
      <4>3. Quiet'
        BY <2>0, <2>1, <4>2 DEF Quiet
      <4>4. Follows'
        BY <1>0, <2>1, <3>1, <4>1, <4>2, <4>3 DEF Follows, InFresh, InRecovering, InSubmitting,
             InStreaming, InPolling, InInstalling, InAcking, InDone, Current
      <4> QED BY <3>2, <4>4 DEF Paced
    <3> QED BY <3>3, <3>4
  <2>2. CASE /\ page' = IF Waits(g, "submitting") THEN [page EXCEPT !.phase = "failed"] ELSE page
             /\ Returns(g)
    <3>1. page'.phase \in Loose /\ page'.gen = page.gen
      BY <1>0, <1>3, <2>2, Whereabouts, PageParts DEF Create, Waits, Current, Loose
    <3> QED BY <1>0, <2>0, <2>2, <3>1, LooseFollows, AloneKeeps, CallSteps DEF Paced
  <2> QED BY <1>3, <2>1, <2>2 DEF Create
<1>4. CASE Add(g)
  <2>1. call'[g].pc = "none" /\ OthersStay(g) /\ OthersRest(g)
    BY <1>4, CallSteps, SendsRest DEF Add
  <2>2. CASE Waits(g, "submitting")
    <3>1. page'.phase = "streaming" /\ page'.gen = page.gen /\ page'.after = page.after
      BY <1>4, <2>2, PageParts DEF Add
    <3>2. page.after = 0 /\ Quiet
      BY <2>2 DEF Paced, Follows, InSubmitting, Waits
    <3>3. record'.acked = 0 /\ UNCHANGED release
      BY <1>4, <2>2 DEF Add, Waits, NoRecord
    <3>4. Quiet' /\ InCursor'
      BY <3>1, <3>2, <3>3 DEF Quiet, InCursor
    <3>5. Follows'
      BY <1>0, <2>1, <3>1, <3>4 DEF Follows, InFresh, InRecovering, InSubmitting, InStreaming,
           InPolling, InInstalling, InAcking, InDone, Current
    <3> QED BY <1>0, <2>1, <3>1, <3>5, AloneKeeps DEF Paced
  <2>3. CASE ~Waits(g, "submitting")
    <3>1. page' = page /\ page.phase \in Loose
      BY <1>0, <1>4, <2>3, Whereabouts DEF Add, Waits, Current
    <3> QED BY <1>0, <2>1, <3>1, LooseFollows, AloneKeeps DEF Paced
  <2> QED BY <2>2, <2>3
<1> QED BY <1>1, <1>2, <1>3, <1>4

LEMMA LoosePaced ==
    ASSUME Alone, NEW g, g = page.gen, page'.gen = page.gen, page'.phase \in Loose,
           OthersStay(g), OthersRest(g)
    PROVE  Paced'
BY LooseFollows, AloneKeeps DEF Paced

\* A handler that refuses the renderer leaves it loose.
LEMMA RefusedPaced ==
    ASSUME TypeOK, Paced, NEW g \in Gens, g = page.gen, NEW phase,
           Returns(g), Fails(g, phase, "job"), page.phase = phase \/ page.phase \in Loose
    PROVE  Paced'
<1>1. OthersStay(g)
    BY CallSteps
<1>2. OthersRest(g) /\ page'.gen = page.gen /\ page'.phase \in Loose
    BY FailsRest DEF Waits, Loose
<1> QED BY <1>1, <1>2, LoosePaced DEF Paced

LEMMA PollPaced ==
    ASSUME TypeOK, Paced, NEW g \in Gens,
           ReadForPoll(g) \/ Find(g) \/ Answer(g) \/ Store(g)
    PROVE  Paced'
<1>0. /\ g = page.gen /\ call[g].pc \in {"poll", "find", "wait", "store"}
      /\ call \in [Gens -> Calls] /\ page \in Pages /\ call[g] = Current
    BY HandlerIsCurrent, Parts DEF Paced, ReadForPoll, Find, Answer, Store, Current
<1>1. page.phase = "polling" \/ page.phase \in Loose
    BY <1>0, Whereabouts
<1>2. page.phase = "polling" =>
        /\ Quiet /\ InCursor
        /\ \/ call[g].pc = "poll" /\ call[g].seq = page.after
           \/ call[g].pc # "poll" /\ call[g].seen.acked = page.after
    BY <1>0 DEF Paced, Follows, InPolling
<1>3. ASSUME page' = page, OthersStay(g), UNCHANGED <<record, release>>,
             call'[g].pc \in {"find", "wait", "store"}, call'[g].seen.acked = page.after \/
             page.phase \in Loose
      PROVE  Paced'
  <2>1. OthersRest(g) /\ page'.gen = page.gen
    BY <1>3 DEF OthersRest
  <2>2. CASE page.phase \in Loose
    BY <1>0, <1>3, <2>1, <2>2, LoosePaced DEF Paced
  <2>3. CASE page.phase = "polling"
    <3>1. Quiet' /\ InCursor'
      BY <1>2, <1>3, <2>3 DEF Quiet, InCursor
    <3>2. page.phase \notin Loose
      BY <2>3 DEF Loose
    <3>3. Follows'
      BY <1>0, <1>3, <2>3, <3>1, <3>2 DEF Follows, InFresh, InRecovering, InSubmitting,
           InStreaming, InPolling, InInstalling, InAcking, InDone, Current
    <3> QED BY <1>0, <1>3, <2>1, <3>3, AloneKeeps DEF Paced
  <2> QED BY <1>1, <2>2, <2>3
<1>4. CASE ReadForPoll(g)
  <2>1. CASE /\ record.present /\ call[g].seq = record.acked
             /\ call' = [call EXCEPT ![g].pc = "find", ![g].seen = record]
             /\ UNCHANGED <<page, release>>
    <3>1. call'[g].pc = "find" /\ call'[g].seen = record /\ OthersStay(g)
      BY <1>0, <2>1 DEF OthersStay, Calls
    <3>2. call'[g].seen.acked = page.after \/ page.phase \in Loose
      BY <1>1, <1>2, <2>1, <3>1 DEF InCursor
    <3> QED BY <1>3, <1>4, <2>1, <3>1, <3>2 DEF ReadForPoll
  <2> QED BY <1>0, <1>1, <1>4, <2>1, RefusedPaced DEF ReadForPoll
<1>5. CASE Find(g)
  <2>1. CASE Goes(g, "wait") /\ UNCHANGED <<page, release>>
    <3>1. call'[g].pc = "wait" /\ call'[g].seen = call[g].seen /\ OthersStay(g)
      BY <2>1, CallParts, CallSteps
    <3>2. call'[g].seen.acked = page.after \/ page.phase \in Loose
      BY <1>1, <1>2, <1>5, <3>1 DEF Find
    <3> QED BY <1>3, <1>5, <2>1, <3>1, <3>2 DEF Find
  <2> QED BY <1>0, <1>1, <1>5, <2>1, RefusedPaced DEF Find
<1>6. CASE Answer(g)
  <2>1. ASSUME NEW n, NEW end, UNCHANGED <<page, release>>,
               call' = [call EXCEPT ![g].pc = "store", ![g].seq = n, ![g].end = end]
        PROVE  Paced'
    <3>1. call'[g].pc = "store" /\ call'[g].seen = call[g].seen /\ OthersStay(g)
      BY <1>0, <2>1 DEF OthersStay, Calls
    <3>2. call'[g].seen.acked = page.after \/ page.phase \in Loose
      BY <1>1, <1>2, <1>6, <3>1 DEF Answer
    <3> QED BY <1>3, <1>6, <2>1, <3>1, <3>2 DEF Answer
  <2>2. CASE daemon.ended = "lost"
    <3>1. Returns(g) /\ Fails(g, "polling", "job")
      BY <1>6, <2>2 DEF Answer
    <3> QED BY <1>0, <1>1, <3>1, RefusedPaced
  <2>3. CASE daemon.ended # "lost"
    <3>1. PICK n \in Batches(call[g].seq) :
            /\ call' = [call EXCEPT ![g].pc = "store", ![g].seq = n,
                                    ![g].end = IF n = Latest THEN daemon.ended ELSE "no"]
            /\ UNCHANGED <<page, release>>
      BY <1>6, <2>3 DEF Answer
    <3> QED BY <2>1, <3>1
  <2> QED BY <2>2, <2>3
<1>7. CASE Store(g)
  <2>1. call'[g].pc = "none" /\ OthersStay(g) /\ OthersRest(g) /\ UNCHANGED release
    BY <1>7, CallSteps, SendsRest DEF Store
  <2>2. CASE page.phase \in Loose
    <3>1. page' = page
      BY <1>7, <2>2 DEF Store, Waits, Loose
    <3> QED BY <1>0, <2>1, <2>2, <3>1, LoosePaced DEF Paced
  <2>3. CASE page.phase = "polling"
    <3>1. /\ Quiet /\ call[g].seen \in Records /\ call[g].seen.acked = page.after
          /\ call[g].seq \in 0..Last /\ call[g].end \in Ends
      BY <1>0, <1>2, <1>7, <2>3 DEF Store, Calls
    <3>2. /\ record'.acked = page.after
          /\ record'.items >= ItemsUpTo(call[g].seq, call[g].end)
      BY <1>7, <3>1, DeliveredBounds DEF Store
    <3>3. Quiet' \/ page'.gen # page.gen
      BY <2>1, <3>1 DEF Quiet
    <3>4. CASE page' = [page EXCEPT !.phase = "streaming"]
      <4>1. page'.phase = "streaming" /\ page'.gen = page.gen /\ page'.after = page.after
        BY <3>4, PageParts
      <4>2. Follows'
        BY <1>0, <2>1, <3>2, <3>3, <4>1 DEF Follows, InFresh, InRecovering, InSubmitting,
             InStreaming, InPolling, InInstalling, InAcking, InDone, InCursor, Current
      <4> QED BY <1>0, <2>1, <4>1, <4>2, AloneKeeps DEF Paced
    <3>5. CASE page' = [page EXCEPT !.phase = "installing", !.next = call[g].seq,
                                    !.end = call[g].end]
      <4>1. /\ page'.phase = "installing" /\ page'.gen = page.gen /\ page'.after = page.after
            /\ page'.next = call[g].seq /\ page'.end = call[g].end
        BY <1>0, <3>5 DEF Pages
      <4>2. ItemsUpTo(page'.next, page'.end) = ItemsUpTo(call[g].seq, call[g].end)
        BY <4>1
      <4>3. record'.items >= ItemsUpTo(page.next, page.end)'
        BY <3>2, <4>2 DEF ItemsUpTo
      <4>4. Follows'
        BY <1>0, <2>1, <3>2, <3>3, <4>1, <4>3 DEF Follows, InFresh, InRecovering,
             InSubmitting, InStreaming, InPolling, InInstalling, InAcking, InDone, InCursor,
             Current
      <4> QED BY <1>0, <2>1, <4>1, <4>4, AloneKeeps DEF Paced
    <3> QED BY <1>0, <1>7, <2>3, <3>4, <3>5 DEF Store, Waits
  <2> QED BY <1>1, <2>2, <2>3
<1> QED BY <1>4, <1>5, <1>6, <1>7

LEMMA AckPaced ==
    ASSUME TypeOK, Paced, NEW g \in Gens,
           ReadForAck(g) \/ Advance(g) \/ Keep(g) \/ End(g) \/ Remove(g)
    PROVE  Paced'
<1>0. /\ g = page.gen /\ call[g].pc \in {"ack", "advance", "keep", "end", "remove"}
      /\ call \in [Gens -> Calls] /\ page \in Pages /\ call[g] = Current
      /\ page.after \in Nat /\ Last \in Nat
    BY HandlerIsCurrent, Parts, Sizes
       DEF Paced, ReadForAck, Advance, Keep, End, Remove, Current, Pages
<1>1. page.phase = "acking" \/ page.phase \in Loose
    BY <1>0, Whereabouts
<1>2. page.phase = "acking" =>
        /\ Quiet /\ call[g].seq = page.after
        /\ call[g].pc = "ack" /\ record.present =>
             record.items >= ItemsUpTo(page.after, call[g].end)
        /\ call[g].pc = "keep" =>
             call[g].end = "complete" /\ call[g].seen.items >= ItemsUpTo(page.after, "complete")
        /\ call[g].pc = "end" /\ call[g].end = "complete" => page.after <= 1
        /\ call[g].pc = "remove" /\ call[g].end = "complete" => Covered
    BY <1>0 DEF Paced, Follows, InAcking
\* The handler goes on: what the rest of the acknowledgement relies on.
<1>3. ASSUME page' = page, OthersStay(g), UNCHANGED release,
             page.phase \in Loose \/
             /\ call'[g].seq = page.after
             /\ \/ call'[g].pc = "advance"
                \/ /\ call'[g].pc = "keep" /\ call'[g].end = "complete"
                   /\ call'[g].seen.items >= ItemsUpTo(page.after, "complete")
                \/ call'[g].pc = "end" /\ (call'[g].end = "complete" => page.after <= 1)
                \/ call'[g].pc = "remove" /\ (call'[g].end = "complete" => Covered')
      PROVE  Paced'
  <2>1. OthersRest(g) /\ page'.gen = page.gen
    BY <1>3 DEF OthersRest
  <2>2. CASE page.phase \in Loose
    BY <1>0, <1>3, <2>1, <2>2, LoosePaced DEF Paced
  <2>3. CASE page.phase = "acking"
    <3>1. Quiet'
      BY <1>2, <1>3, <2>3 DEF Quiet
    <3>2. page.phase \notin Loose
      BY <2>3 DEF Loose
    <3>3. InAcking'
      BY <1>0, <1>3, <3>1, <3>2 DEF InAcking, ItemsUpTo, Current
    <3>4. Follows'
      BY <1>3, <2>3, <3>3 DEF Follows, InFresh, InRecovering, InSubmitting,
           InStreaming, InPolling, InInstalling, InDone
    <3> QED BY <1>0, <1>3, <2>1, <3>4, AloneKeeps DEF Paced
  <2> QED BY <1>1, <2>2, <2>3
<1>4. CASE ReadForAck(g)
  <2>1. CASE InRange(g)
    <3> DEFINE pc == IF call[g].end = "no" THEN "advance"
                     ELSE IF call[g].end = "complete" /\ record.items > 0 THEN "keep" ELSE "end"
    <3>1. call' = [call EXCEPT ![g].seen = record, ![g].pc = pc] /\ UNCHANGED <<page, release>>
      BY <1>4, <2>1 DEF ReadForAck
    <3>2. /\ call'[g].pc = pc /\ call'[g].seen = record /\ OthersStay(g)
          /\ call'[g].seq = call[g].seq /\ call'[g].end = call[g].end
      <4> HIDE DEF pc
      <4> QED BY <1>0, <3>1 DEF OthersStay, Calls
    <3>3. call[g].pc = "ack" /\ record.present /\ record.items \in Nat
      BY <1>0, <1>4, <2>1 DEF ReadForAck, InRange, TypeOK, Records
    <3>4. CASE page.phase = "acking"
      <4>1. page.after = call[g].seq /\ record.items >= ItemsUpTo(page.after, call[g].end)
        BY <1>2, <3>3, <3>4
      <4>2. CASE pc = "keep"
        <5>1. call[g].end = "complete"
          BY <4>2
        <5> QED BY <1>3, <3>1, <3>2, <4>1, <4>2, <5>1
      <4>3. CASE pc = "end"
        <5>1. call[g].end = "complete" => page.after <= 1
          BY <1>0, <3>3, <4>1, <4>3 DEF ItemsUpTo
        <5> QED BY <1>3, <3>1, <3>2, <4>1, <4>3, <5>1
      <4>4. CASE pc = "advance"
        BY <1>3, <3>1, <3>2, <4>1, <4>4
      <4> QED BY <4>2, <4>3, <4>4
    <3> QED BY <1>1, <1>3, <3>1, <3>2, <3>4
  <2> QED BY <1>0, <1>1, <1>4, <2>1, RefusedPaced DEF ReadForAck
<1>5. CASE Advance(g)
  <2>1. call'[g].pc = "none" /\ OthersStay(g) /\ OthersRest(g) /\ UNCHANGED release
    BY <1>5, CallSteps, SendsRest DEF Advance
  <2>2. CASE page.phase \in Loose
    <3>1. page' = page
      BY <1>5, <2>2 DEF Advance, Waits, Loose
    <3> QED BY <1>0, <2>1, <2>2, <3>1, LoosePaced DEF Paced
  <2>3. CASE page.phase = "acking"
    <3>1. page'.phase = "streaming" /\ page'.gen = page.gen /\ page'.after = page.after
      BY <1>0, <1>5, <2>3, PageParts DEF Advance, Waits
    <3>2. record'.acked = page.after
      BY <1>0, <1>2, <1>5, <2>3 DEF Advance, Calls, Records
    <3>3. Quiet' /\ InCursor'
      BY <1>2, <2>1, <2>3, <3>1, <3>2 DEF Quiet, InCursor
    <3>4. Follows'
      BY <1>0, <2>1, <3>1, <3>3 DEF Follows, InFresh, InRecovering, InSubmitting, InStreaming,
           InPolling, InInstalling, InAcking, InDone, Current
    <3> QED BY <1>0, <2>1, <3>1, <3>4, AloneKeeps DEF Paced
  <2> QED BY <1>1, <2>2, <2>3
<1>6. CASE Keep(g)
  <2>1. /\ call'[g].pc = "remove" /\ call'[g].seq = call[g].seq /\ OthersStay(g)
        /\ UNCHANGED <<page, release>>
    BY <1>6, CallParts, CallSteps DEF Keep
  <2>2. page.phase = "acking" => Covered'
    <3>1. artifact'.present /\ artifact'.items = call[g].seen.items
      BY <1>6 DEF Keep, Kept
    <3> QED BY <1>0, <1>2, <1>6, <2>1, <3>1 DEF Covered, ItemsUpTo, Keep
  <2> QED BY <1>1, <1>2, <1>3, <2>1, <2>2
<1>7. CASE End(g)
  <2>1. CASE Goes(g, "remove") /\ UNCHANGED <<page, release>>
    <3>1. /\ call'[g].pc = "remove" /\ call'[g].seq = call[g].seq
          /\ call'[g].end = call[g].end /\ OthersStay(g)
      BY <2>1, CallParts, CallSteps
    <3>2. page.phase = "acking" /\ call[g].end = "complete" => Covered'
      <4>1. page.phase = "acking" /\ call[g].end = "complete" => page'.after <= 1
        BY <1>2, <1>7, <2>1 DEF End
      <4>2. page'.after \in Nat
        BY <1>0, <2>1
      <4> QED BY <4>1, <4>2 DEF Covered
    <3> QED BY <1>1, <1>2, <1>3, <2>1, <3>1, <3>2
  <2> QED BY <1>0, <1>1, <1>7, <2>1, RefusedPaced DEF End
<1>8. CASE Remove(g)
  <2>1. CASE call[g].end = "complete"
    <3>1. call'[g].pc = "none" /\ OthersStay(g) /\ OthersRest(g) /\ UNCHANGED <<artifact, release>>
      BY <1>8, <2>1, CallSteps, SendsRest DEF Remove
    <3>2. CASE page.phase \in Loose
      <4>1. page' = page
        BY <1>8, <2>1, <3>2 DEF Remove, Waits, Loose
      <4> QED BY <1>0, <3>1, <3>2, <4>1, LoosePaced DEF Paced
    <3>3. CASE page.phase = "acking"
      <4>1. page'.phase = "done" /\ page'.gen = page.gen /\ page'.after = page.after
        <5>1. page' = [page EXCEPT !.phase = "done"]
          BY <1>0, <1>8, <2>1, <3>3 DEF Remove, Waits
        <5> QED BY <5>1, PageParts
      <4>2. Quiet' /\ Covered'
        BY <1>2, <1>8, <2>1, <3>1, <3>3, <4>1 DEF Quiet, Covered, Remove
      <4>3. Follows'
        BY <1>0, <3>1, <4>1, <4>2 DEF Follows, InFresh, InRecovering, InSubmitting, InStreaming,
             InPolling, InInstalling, InAcking, InDone, Current
      <4> QED BY <1>0, <3>1, <4>1, <4>3, AloneKeeps DEF Paced
    <3> QED BY <1>1, <3>2, <3>3
  <2> QED BY <1>0, <1>1, <1>8, <2>1, RefusedPaced DEF Remove
<1> QED BY <1>4, <1>5, <1>6, <1>7, <1>8

LEMMA CancellerPaced ==
    ASSUME TypeOK, Paced, NEW g \in Gens, NEW c \in Cancelling, Canceller(g, c)
    PROVE  Paced'
<1>0. /\ g = page.gen /\ release[g][c] # "idle"
      /\ call' = call /\ page \in Pages /\ OthersStay(g)
    BY CancellerIsCurrent, Parts DEF Paced, Canceller, ReadJobs, ReadArtifacts, Release, Unlist,
       Drop, OthersStay
<1>1. \/ page.phase \in Loose
      \/ page.phase = "recovering" /\ c = "recover" /\ Current.pc = "none"
    BY <1>0, Whereabouts
<1>2. \E pc : \A h \in Gens, d \in Cancelling :
        release'[h][d] = IF h = g /\ d = c THEN pc ELSE release[h][d]
  <2>1. \E pc : Moves(g, c, pc)
    BY DEF Canceller, ReadJobs, ReadArtifacts, Release, Unlist, Drop
  <2> QED BY <2>1, MovesOne
<1>3. OthersRest(g)
    BY Parts DEF Canceller, ReadJobs, ReadArtifacts, Release, Unlist, Drop, Moves, OthersRest
<1>4. CASE page' = page
  <2>1. CASE page.phase \in Loose
    BY <1>0, <1>3, <1>4, <2>1, LoosePaced DEF Paced
  <2>2. CASE page.phase = "recovering" /\ c = "recover" /\ Current.pc = "none"
    <3>1. /\ page.after = 0
          /\ \A d \in Cancelling \ {"recover"} : release[g][d] = "idle"
      BY <1>0, <2>2 DEF Paced, Follows, InRecovering
    <3>2. \A d \in Cancelling \ {"recover"} : release'[g][d] = "idle"
      BY <1>2, <2>2, <3>1
    <3>3. Follows'
      BY <1>0, <1>4, <2>2, <3>1, <3>2 DEF Follows, InFresh, InRecovering, InSubmitting,
           InStreaming, InPolling, InInstalling, InAcking, InDone, Current
    <3> QED BY <1>0, <1>3, <1>4, <3>3, AloneKeeps DEF Paced
  <2> QED BY <1>1, <2>1, <2>2
<1>5. CASE page' # page
  <2>1. page' = [page EXCEPT !.phase = "other"]
    BY <1>5 DEF Canceller, ReadJobs, ReadArtifacts, Release, Unlist, Drop
  <2>2. page'.phase \in Loose /\ page'.gen = page.gen
    BY <2>1, PageParts DEF Loose
  <2> QED BY <1>0, <1>3, <2>2, LoosePaced DEF Paced
<1> QED BY <1>4, <1>5

LEMMA StartPaced == ASSUME TypeOK, Paced, Start PROVE Paced'
<1>1. /\ page.gen \in Gens /\ page' = [page EXCEPT !.phase = "recovering"]
      /\ Asks(page.gen, "recover", 0, "no") /\ UNCHANGED release
    BY Parts DEF Start, Pages
<1>2. /\ page'.phase = "recovering" /\ page'.gen = page.gen /\ page'.after = page.after
      /\ call'[page.gen].pc = "recover" /\ OthersStay(page.gen) /\ OthersRest(page.gen)
    BY <1>1, PageParts, CallParts, CallSteps, SendsRest
<1>3. page.after = 0 /\ Quiet
    BY DEF Start, Paced, Follows, InFresh
<1>4. "recover" \in Cancelling
    BY DEF Cancelling
<1>5. Follows'
    BY <1>1, <1>2, <1>3, <1>4 DEF Follows, InFresh, InRecovering, InSubmitting,
       InStreaming, InPolling, InInstalling, InAcking, InDone, Quiet, Current
<1> QED BY <1>1, <1>2, <1>5, AloneKeeps DEF Paced

LEMMA PollingPaced == ASSUME TypeOK, Paced, Poll PROVE Paced'
<1>1. /\ page.gen \in Gens /\ page' = [page EXCEPT !.phase = "polling"]
      /\ Asks(page.gen, "poll", page.after, "no") /\ UNCHANGED <<record, release>>
    BY Parts DEF Poll, Pages
<1>2. /\ page'.phase = "polling" /\ page'.gen = page.gen /\ page'.after = page.after
      /\ call'[page.gen].pc = "poll" /\ call'[page.gen].seq = page.after
      /\ OthersStay(page.gen) /\ OthersRest(page.gen)
    BY <1>1, PageParts, CallParts, CallSteps, SendsRest
<1>3. Quiet /\ InCursor
    BY DEF Poll, Paced, Follows, InStreaming
<1>4. Quiet' /\ InCursor'
    BY <1>1, <1>2, <1>3 DEF Quiet, InCursor
<1>5. Follows'
    BY <1>1, <1>2, <1>4 DEF Follows, InFresh, InRecovering, InSubmitting,
       InStreaming, InPolling, InInstalling, InAcking, InDone, Current
<1> QED BY <1>1, <1>2, <1>5, AloneKeeps DEF Paced

LEMMA InstallPaced == ASSUME TypeOK, Paced, Install PROVE Paced'
<1>1. /\ page.gen \in Gens
      /\ page' = [page EXCEPT !.phase = "acking", !.after = page.next]
      /\ Asks(page.gen, "ack", page.next, page.end) /\ UNCHANGED <<record, release>>
    BY Parts DEF Install, Pages
<1>2. page'.phase = "acking" /\ page'.gen = page.gen /\ page'.after = page.next
    BY <1>1, Parts DEF Pages
<1>3. /\ call'[page.gen].pc = "ack" /\ call'[page.gen].seq = page.next
      /\ call'[page.gen].end = page.end /\ OthersStay(page.gen) /\ OthersRest(page.gen)
    BY <1>1, CallParts, CallSteps, SendsRest
<1>4. Quiet /\ (record.present => record.items >= ItemsUpTo(page.next, page.end))
    BY DEF Install, Paced, Follows, InInstalling
<1>5. Quiet'
    BY <1>1, <1>2, <1>4 DEF Quiet
<1>6. InAcking'
    BY <1>1, <1>2, <1>3, <1>4, <1>5 DEF InAcking, ItemsUpTo, Current
<1>7. Follows'
    BY <1>2, <1>6 DEF Follows, InFresh, InRecovering, InSubmitting, InStreaming, InPolling,
       InInstalling, InDone
<1> QED BY <1>1, <1>2, <1>3, <1>7, AloneKeeps DEF Paced

\* A cancelled, closed or failed run is loose; a reload that waits for the old
\* document's calls leaves the new one alone.
LEMMA UserPaced ==
    ASSUME TypeOK, Paced, ~Overlap, User
    PROVE  Paced'
<1>0. page.gen \in Gens /\ page \in Pages
    BY Parts DEF Pages
<1>1. CASE InstallFails \/ CancelPage \/ CloseTab
  <2>1. page'.phase \in Loose /\ page'.gen = page.gen /\ OthersRest(page.gen)
    <3>1. CASE InstallFails
      BY <1>0, <3>1, FailsRest DEF InstallFails, Loose, Waits
    <3>2. CASE CancelPage
      BY <1>0, <3>2, PageParts, SendsRest DEF CancelPage, Loose
    <3>3. CASE CloseTab
      BY <1>0, <3>3, PageParts, SendsRest DEF CloseTab, Loose
    <3> QED BY <1>1, <3>1, <3>2, <3>3
  <2>2. OthersStay(page.gen)
    BY <1>1 DEF InstallFails, CancelPage, CloseTab, OthersStay
  <2> QED BY <2>1, <2>2, LoosePaced DEF Paced
<1>2. CASE Reload
  <2>1. /\ page'.gen = page.gen + 1 /\ page'.phase = "fresh" /\ page'.after = 0
        /\ UNCHANGED <<call, release>> /\ page.gen < Documents /\ ~Busy
    BY <1>2 DEF Reload
  <2>2. page'.gen \in Gens
    BY <1>0, <2>1, DeliveryAssumption DEF Gens, DeliveryAssumption
  <2>3. \A h \in Gens : call[h].pc = "none" /\ \A c \in Cancelling : release[h][c] = "idle"
    BY <2>1 DEF Busy, Open
  <2>4. Alone' /\ Quiet' /\ Current'.pc = "none"
    BY <2>1, <2>2, <2>3 DEF Alone, Open, Quiet, Current
  <2>5. Follows'
    BY <2>1, <2>4 DEF Follows, InFresh, InRecovering, InSubmitting, InStreaming, InPolling,
       InInstalling, InAcking, InDone, Quiet
  <2> QED BY <2>4, <2>5 DEF Paced
<1> QED BY <1>1, <1>2 DEF User

LEMMA DaemonPaced ==
    ASSUME Paced, UNCHANGED <<record, artifact, page, call, release>>
    PROVE  Paced'
BY DEF Paced, Alone, Open, Follows, InFresh, InRecovering, InSubmitting, InStreaming, InPolling,
       InInstalling, InAcking, InDone, Current, Quiet, InCursor, Covered, ItemsUpTo

LEMMA PacedInit == Init => Paced
<1> SUFFICES ASSUME Init PROVE Paced
    OBVIOUS
<1>1. /\ page.gen \in Gens /\ page.phase = "fresh" /\ page.after = 0
      /\ \A g \in Gens : call[g].pc = "none" /\ \A c \in Cancelling : release[g][c] = "idle"
    BY Sizes DEF Init, NoCall
<1> QED BY <1>1 DEF Paced, Alone, Open, Follows, InFresh, InRecovering, InSubmitting,
        InStreaming, InPolling, InInstalling, InAcking, InDone, Current, Quiet

LEMMA PacedStep == ~Overlap /\ TypeOK /\ Paced /\ [Next]_vars => Paced'
<1> SUFFICES ASSUME ~Overlap, TypeOK, Paced, [Next]_vars PROVE Paced'
    OBVIOUS
<1>1. CASE Daemon \/ Restart \/ UNCHANGED vars
    BY <1>1, DaemonPaced DEF Daemon, PublishItem, PublishEnd, Restart, vars
<1>2. CASE Renderer
    BY <1>2, StartPaced, PollingPaced, InstallPaced DEF Renderer
<1>3. CASE User
    BY <1>3, UserPaced
<1>4. ASSUME NEW g \in Gens, Handler(g) PROVE Paced'
    BY <1>4, RecoverPaced, PollPaced, AckPaced DEF Handler
<1>5. ASSUME NEW g \in Gens, NEW c \in Cancelling, Canceller(g, c) PROVE Paced'
    BY <1>5, CancellerPaced
<1> QED BY <1>1, <1>2, <1>3, <1>4, <1>5 DEF Next

LEMMA PacedAlways == ASSUME ~Overlap PROVE Spec => [](TypeOK /\ Paced)
<1>1. TypeOK /\ Paced /\ [Next]_vars => Paced'
    BY PacedStep
<1> QED BY PacedInit, TypeCorrect, <1>1, PTL DEF Spec

\* When every reload waits for the old document's calls, the acknowledgement in
\* the record is, whenever the renderer is between two of its calls, what this
\* renderer has installed: whatever is cancelled, closed, restarted or refused
\* meanwhile, no poll is answered for another cursor (background.ts,
\* job-stream.ts).  With Overlap it is false: an old poll writes its record back.
THEOREM CursorsKept == ASSUME ~Overlap PROVE Spec => []CursorsAgree
<1>1. TypeOK /\ Paced => CursorsAgree
    BY DEF Paced, Follows, InStreaming, InPolling, InInstalling, InCursor, CursorsAgree, Between,
       Current
<1> QED BY PacedAlways, <1>1, PTL

\* Under the same condition the record owns every item of a batch before the
\* renderer may install it, and the artifact owns every item of a job the renderer
\* has completed: the fetch of a patch or a font of an installed item finds its
\* owner (active-jobs.ts, background.ts).
THEOREM InstalledOwned == ASSUME ~Overlap PROVE Spec => []InstalledAreOwned
<1>1. TypeOK /\ Paced => InstalledAreOwned
    BY DEF Paced, Follows, InInstalling, InDone, Covered, InstalledAreOwned
<1> QED BY PacedAlways, <1>1, PTL

=============================================================================
