----------------------- MODULE DocumentPipelineProofs -----------------------
(***************************************************************************)
(* For every request, every split, every batch bound and every behaviour   *)
(* of the reader: the document job implements DocumentPublication.         *)
(***************************************************************************)
EXTENDS DocumentPipeline, TLAPS

-----------------------------------------------------------------------------
(* Types.                                                                  *)

LEMMA PieceFields ==
    ASSUME NEW p \in Piece
    PROVE  p[1] \in Block /\ p[2] \in 1..MaxPieces /\ p = <<p[1], p[2]>>
BY DEF Piece

LEMMA TypeInit == Init => TypeOK
<1> SUFFICES ASSUME Init PROVE TypeOK
    OBVIOUS
<1>1. MaxFocus \in Nat
    BY DocumentAssumption DEF DocumentAssumption
<1>2. split \in [Block -> 0..MaxPieces] /\ visible \subseteq Block
    BY DocumentAssumption DEF DocumentAssumption, Init, Block
<1>3. got \in [Block -> SUBSET (1..MaxPieces)]
    BY DEF Init
<1>4. wanted \subseteq Block
    BY DEF Init
<1>5. /\ answer \in [Piece -> {"none", "ok", "bad"}]
      /\ outcome \in [Block -> {"none", "ready", "preserved"}]
    BY DEF Init
<1>6. changes \in 0..MaxFocus
    BY <1>1 DEF Init
<1> QED BY <1>2, <1>3, <1>4, <1>5, <1>6 DEF Init, TypeOK

LEMMA BatchTaken ==
    ASSUME NEW start
    PROVE  Batch(start) \subseteq remaining
BY DEF Batch

LEMMA EndType == ASSUME TypeOK, NEW how \in Ends, End(how) PROVE TypeOK'
BY DEF End, TypeOK, plan, work, focus, accumulators, Block, Piece, Ends

LEMMA TypeStep == TypeOK /\ [Next]_vars => TypeOK'
<1> SUFFICES ASSUME TypeOK, [Next]_vars PROVE TypeOK'
    OBVIOUS
<1> USE DEF TypeOK
<1>1. CASE Plan
    BY <1>1 DEF Plan, plan, focus, Block, Piece, PiecesOf
<1>2. CASE PublishRefused
    BY <1>2, EndType DEF PublishRefused, Ends
<1>3. CASE Published
    BY <1>3 DEF Published, plan, work, focus, accumulators, Ends, Block, Piece
<1>4. CASE Choose
    BY <1>4, BatchTaken DEF Choose, plan, focus, accumulators, Block, Piece
<1>5. CASE PutBack
    BY <1>5 DEF PutBack, plan, focus, accumulators, Block, Piece
<1>6. CASE Close
    BY <1>6 DEF Close, plan, work, focus, Block, Piece
<1>7. CASE Fail
    BY <1>7, EndType DEF Fail, Ends
<1>8. CASE Cancelled
    BY <1>8, EndType DEF Cancelled, Ends
<1>9. ASSUME NEW b \in Block, NEW o \in {"ready", "preserved"}, PublishBlock(b, o)
      PROVE  TypeOK'
    BY <1>9 DEF PublishBlock, plan, work, focus, Block, Piece
<1>10. ASSUME NEW p \in Piece, Dispatch(p) PROVE TypeOK'
    BY <1>10 DEF Dispatch, plan, focus, accumulators, Block, Piece
<1>11. ASSUME NEW p \in Piece, NEW r \in {"ok", "bad"}, Answer(p, r) PROVE TypeOK'
    BY <1>11, PieceFields DEF Answer, plan, focus, Block
<1>12. ASSUME NEW blocks \in Views, NEW on \in BOOLEAN, UpdateFocus(blocks, on)
       PROVE  TypeOK'
  <2>1. MaxFocus \in Nat /\ blocks \subseteq Block
    BY DocumentAssumption DEF DocumentAssumption, Block
  <2>2. changes' \in 0..MaxFocus
    BY <1>12, <2>1 DEF UpdateFocus
  <2> QED BY <1>12, <2>1, <2>2 DEF UpdateFocus, plan, work, accumulators, Block, Piece
<1>13. CASE Cancel
    BY <1>13 DEF Cancel, plan, work, focus, accumulators, Block, Piece
<1>14. CASE UNCHANGED vars
    BY <1>14 DEF vars, plan, work, focus, accumulators, Block, Piece
<1> QED BY <1>1, <1>2, <1>3, <1>4, <1>5, <1>6, <1>7, <1>8, <1>9, <1>10, <1>11,
           <1>12, <1>13, <1>14 DEF Next, Step

\* The variables of the model keep their types.
THEOREM TypeCorrect == Spec => []TypeOK
BY TypeInit, TypeStep, PTL DEF Spec

-----------------------------------------------------------------------------
(* The inductive invariant: every wanted piece is on its way or answered,  *)
(* and an accumulator holds what the answers of its block say.             *)

Running == {"publish", "choose", "piece", "translate", "closing"}
Todo == UNION {PiecesOf(b) : b \in wanted}
OnItsWay == remaining \cup queued \cup inflight

\* Before planning, nothing has happened.
Untouched ==
    /\ answer = [p \in Piece |-> "none"]
    /\ outcome = [b \in Block |-> "none"]
    /\ got = [b \in Block |-> {}]
    /\ remaining = {} /\ queued = {} /\ inflight = {}

\* A wanted piece waits in one place until it is answered.
Conserved ==
    /\ OnItsWay \subseteq Todo
    /\ \A p \in Todo : p \in OnItsWay <=> answer[p] = "none"
    /\ remaining \cap queued = {} /\ inflight \cap (remaining \cup queued) = {}
    /\ \A p, q \in inflight : p = q
    /\ pc # "translate" => inflight = {}
    /\ pc \in {"choose", "closing"} => queued = {}
    /\ pc = "closing" => remaining = {}

\* What was published is what the log holds.
LogMatches ==
    /\ Block \ wanted \subseteq published
    /\ \A b \in wanted : b \in published <=> outcome[b] # "none"

\* A rejected block has a reason; any other one holds its translated pieces.
Kept(b) ==
    IF b \in rejected
    THEN split[b] = 0 \/ \E p \in PiecesOf(b) : answer[p] = "bad"
    ELSE /\ split[b] > 0
         /\ got[b] \subseteq 1..split[b]
         /\ \A p \in PiecesOf(b) :
               answer[p] # "bad" /\ (p[2] \in got[b] <=> answer[p] = "ok")

Accumulated == \A b \in wanted \ published : Kept(b)

IInv ==
    /\ TypeOK
    /\ pc = "plan" => Untouched
    /\ pc \in Running => Conserved /\ LogMatches /\ Accumulated

LEMMA IInvInit == Init => IInv
BY TypeInit DEF Init, IInv, Untouched, Running

LEMMA PiecesAre ==
    ASSUME TypeOK, NEW b \in Block
    PROVE  /\ PiecesOf(b) \subseteq Piece
           /\ \A p \in PiecesOf(b) : p[1] = b /\ p[2] \in 1..split[b]
           /\ \A i \in 1..split[b] : <<b, i>> \in PiecesOf(b)
<1>1. MaxPieces \in Nat /\ split[b] \in 0..MaxPieces
    BY DocumentAssumption DEF DocumentAssumption, TypeOK
<1>2. \A i \in 1..split[b] : i \in 1..MaxPieces /\ i <= split[b]
    BY <1>1
<1>3. \A i \in 1..split[b] : <<b, i>> \in PiecesOf(b)
    BY <1>2 DEF PiecesOf, Piece
<1>4. ASSUME NEW p \in PiecesOf(b) PROVE p[1] = b /\ p[2] \in 1..split[b]
  <2>1. p \in Piece /\ p[1] = b /\ p[2] <= split[b]
    BY DEF PiecesOf
  <2>2. p[2] \in 1..MaxPieces
    BY <2>1, PieceFields
  <2> QED BY <2>1, <2>2, <1>1
<1> QED BY <1>3, <1>4 DEF PiecesOf

LEMMA TodoOf ==
    ASSUME TypeOK, NEW p \in Todo
    PROVE  p \in Piece /\ p[1] \in wanted /\ p \in PiecesOf(p[1])
BY DEF Todo, PiecesOf, Piece, TypeOK

\* A step that ends the job keeps the invariant: it is about running jobs.
LEMMA EndKeeps ==
    ASSUME IInv, NEW how \in Ends, End(how)
    PROVE  IInv'
<1>1. TypeOK'
    BY EndType DEF IInv
<1>2. pc' = how
    BY DEF End
<1> QED BY <1>1, <1>2 DEF IInv, Ends, Running

\* A step that leaves the invariant's state alone.
LEMMA Quiet ==
    ASSUME IInv, TypeOK', pc \in Running, pc' = pc,
           UNCHANGED <<plan, remaining, queued, inflight, got, rejected,
                       published, answer, outcome>>
    PROVE  Conserved' /\ LogMatches' /\ Accumulated'
BY DEF IInv, Conserved, LogMatches, Accumulated, Kept, OnItsWay, Todo, PiecesOf,
       plan, Running
LEMMA KeepsPlan ==
    ASSUME IInv, TypeOK', Plan
    PROVE  IInv'
<1> USE DEF IInv, Plan, TypeOK, plan
<1>1. Untouched
    OBVIOUS
<1>2. PiecesOf(1)' = PiecesOf(1) /\ \A b \in Block : PiecesOf(b)' = PiecesOf(b)
    BY DEF PiecesOf
<1>3. Todo' = Todo /\ remaining' = Todo
    BY <1>2 DEF Todo
<1>4. Conserved'
    BY <1>1, <1>3, TodoOf DEF Conserved, Untouched, OnItsWay
<1>5. LogMatches'
    BY <1>1 DEF LogMatches, Untouched
<1>6. ASSUME NEW b \in wanted, b \notin published' PROVE Kept(b)'
  <2>1. CASE split[b] = 0
    BY <2>1 DEF Kept
  <2>2. CASE split[b] # 0
    <3>1. b \notin rejected' /\ split[b] > 0 /\ got'[b] = {}
        BY <2>2, <1>1 DEF Untouched
    <3>2. \A p \in PiecesOf(b) : answer'[p] = "none"
        BY <1>1, PiecesAre DEF Untouched
    <3> QED BY <3>1, <3>2, <1>2 DEF Kept
  <2> QED BY <2>1, <2>2
<1> QED BY <1>4, <1>5, <1>6 DEF Accumulated, Running

LEMMA KeepsPublish ==
    ASSUME IInv, TypeOK', NEW b \in Block, NEW o \in {"ready", "preserved"},
           PublishBlock(b, o)
    PROVE  IInv'
<1> USE DEF PublishBlock, TypeOK, plan, work
<1>0. TypeOK /\ Conserved /\ LogMatches /\ Accumulated /\ pc' = pc /\ pc \in Running
    BY DEF IInv, Running
<1>1. \A c \in Block : PiecesOf(c)' = PiecesOf(c)
    BY DEF PiecesOf
<1>2. Todo' = Todo
    BY <1>1 DEF Todo
<1>3. Conserved'
    BY <1>0, <1>2 DEF Conserved, OnItsWay
<1>4. LogMatches'
    BY <1>0 DEF LogMatches
<1>5. ASSUME NEW c \in wanted, c \notin published' PROVE Kept(c)'
  <2>1. c # b /\ Kept(c) /\ (c \in rejected' <=> c \in rejected)
    BY <1>0, <1>5 DEF Accumulated
  <2> QED BY <2>1, <1>1 DEF Kept
<1> QED BY <1>0, <1>3, <1>4, <1>5 DEF IInv, Accumulated, Running

LEMMA KeepsPublished ==
    ASSUME IInv, TypeOK', Published
    PROVE  IInv'
<1> USE DEF Published, plan, work, accumulators
<1>0. TypeOK /\ Conserved /\ LogMatches /\ Accumulated
    BY DEF IInv, Running
<1>1. \A c \in Block : PiecesOf(c)' = PiecesOf(c)
    BY DEF PiecesOf
<1>2. Todo' = Todo
    BY <1>1 DEF Todo, TypeOK
<1>3. pc' # "closing" /\ pc' # "plan" /\ (pc' = "choose" => queued = {})
      /\ inflight = {}
    BY <1>0 DEF Conserved
<1>4. Conserved'
    BY <1>0, <1>2, <1>3 DEF Conserved, OnItsWay
<1>5. LogMatches' /\ Accumulated'
    BY <1>0, <1>1 DEF LogMatches, Accumulated, Kept, TypeOK
<1> QED BY <1>3, <1>4, <1>5 DEF IInv

LEMMA KeepsChoose ==
    ASSUME IInv, TypeOK', Choose
    PROVE  IInv'
<1> USE DEF Choose, plan, accumulators
<1>0. TypeOK /\ Conserved /\ LogMatches /\ Accumulated
    BY DEF IInv, Running
<1>1. \A c \in Block : PiecesOf(c)' = PiecesOf(c)
    BY DEF PiecesOf
<1>2. Todo' = Todo
    BY <1>1 DEF Todo, TypeOK
<1>3. queued = {} /\ queued' \subseteq remaining /\ remaining' = remaining \ queued'
    BY <1>0, BatchTaken DEF Conserved
<1>4. Conserved'
    BY <1>0, <1>2, <1>3 DEF Conserved, OnItsWay
<1>5. LogMatches' /\ Accumulated'
    BY <1>0, <1>1 DEF LogMatches, Accumulated, Kept, TypeOK
<1> QED BY <1>4, <1>5 DEF IInv

LEMMA KeepsPutBack ==
    ASSUME IInv, TypeOK', PutBack
    PROVE  IInv'
<1> USE DEF PutBack, plan, accumulators
<1>0. TypeOK /\ Conserved /\ LogMatches /\ Accumulated
    BY DEF IInv, Running
<1>1. \A c \in Block : PiecesOf(c)' = PiecesOf(c)
    BY DEF PiecesOf
<1>2. Todo' = Todo
    BY <1>1 DEF Todo, TypeOK
<1>3. Conserved'
    BY <1>0, <1>2 DEF Conserved, OnItsWay
<1>4. LogMatches' /\ Accumulated'
    BY <1>0, <1>1 DEF LogMatches, Accumulated, Kept, TypeOK
<1> QED BY <1>3, <1>4 DEF IInv

LEMMA KeepsDispatch ==
    ASSUME IInv, TypeOK', NEW p \in Piece, Dispatch(p)
    PROVE  IInv'
<1> USE DEF Dispatch, plan, accumulators
<1>0. TypeOK /\ Conserved /\ LogMatches /\ Accumulated
    BY DEF IInv, Running
<1>1. \A c \in Block : PiecesOf(c)' = PiecesOf(c)
    BY DEF PiecesOf
<1>2. Todo' = Todo
    BY <1>1 DEF Todo, TypeOK
<1>3. Conserved'
    BY <1>0, <1>2 DEF Conserved, OnItsWay
<1>4. LogMatches' /\ Accumulated'
    BY <1>0, <1>1 DEF LogMatches, Accumulated, Kept, TypeOK
<1> QED BY <1>3, <1>4 DEF IInv

LEMMA KeepsAnswer ==
    ASSUME IInv, TypeOK', NEW p \in Piece, NEW r \in {"ok", "bad"}, Answer(p, r)
    PROVE  IInv'
<1> USE DEF Answer, plan, TypeOK
<1>0. TypeOK /\ Conserved /\ LogMatches /\ Accumulated
    BY DEF IInv, Running
<1>1. \A c \in Block : PiecesOf(c)' = PiecesOf(c)
    BY DEF PiecesOf
<1>2. Todo' = Todo
    BY <1>1 DEF Todo
<1>3. p \in Todo /\ answer[p] = "none" /\ answer'[p] = r
      /\ \A q \in Piece : q # p => answer'[q] = answer[q]
    BY <1>0 DEF Conserved, OnItsWay
<1>4. OnItsWay' = OnItsWay \ {p} /\ inflight' = {}
    BY <1>0 DEF Conserved, OnItsWay
<1>5. Conserved'
  <2>1. \A q \in Todo : q \in Piece
    BY <1>0, TodoOf
  <2>2. \A q \in Todo : q \in OnItsWay' <=> answer'[q] = "none"
    BY <2>1, <1>0, <1>3, <1>4 DEF Conserved
  <2>3. OnItsWay' \subseteq Todo
    BY <1>0, <1>4 DEF Conserved
  <2> QED BY <2>2, <2>3, <1>0, <1>2, <1>4 DEF Conserved
<1>6. LogMatches'
    BY <1>0 DEF LogMatches
<1>7. ASSUME NEW b \in wanted, b \notin published' PROVE Kept(b)'
  <2>1. b \in Block /\ b \notin published /\ Kept(b)
    BY <1>7, <1>0 DEF Accumulated
  <2>2. CASE p[1] # b
    <3>1. \A q \in PiecesOf(b) : q \in Piece /\ q # p
        BY <1>0, <2>1, <2>2, PiecesAre
    <3>2. got'[b] = got[b] /\ (b \in rejected' <=> b \in rejected)
        BY <2>1, <2>2, PieceFields
    <3> QED BY <2>1, <3>1, <3>2, <1>1, <1>3 DEF Kept
  <2>3. CASE p[1] = b
    <3>1. p \in PiecesOf(b) /\ p = <<b, p[2]>> /\ p[2] \in 1..split[b]
        BY <1>0, <2>1, <2>3, <1>3, TodoOf, PiecesAre, PieceFields
    <3>2. CASE r = "bad"
        BY <3>1, <3>2, <2>3, <1>1, <1>3 DEF Kept
    <3>3. CASE r = "ok" /\ b \in rejected
      <4>1. b \in rejected'
          BY <3>3
      <4>2. \A q \in PiecesOf(b) : answer[q] = "bad" => answer'[q] = "bad"
          BY <1>0, <2>1, <1>3, PiecesAre
      <4> QED BY <4>1, <4>2, <2>1, <3>3, <1>1 DEF Kept
    <3>4. CASE r = "ok" /\ b \notin rejected
      <4>1. b \notin rejected' /\ got'[b] = got[b] \cup {p[2]}
          BY <3>4, <2>1, <2>3
      <4>2. ASSUME NEW q \in PiecesOf(b)
            PROVE  answer'[q] # "bad" /\ (q[2] \in got'[b] <=> answer'[q] = "ok")
        <5>1. q \in Piece /\ q = <<b, q[2]>>
            BY <1>0, <2>1, PiecesAre, PieceFields
        <5>2. q[2] = p[2] <=> q = p
            BY <5>1, <3>1
        <5> QED BY <5>1, <5>2, <4>1, <2>1, <3>4, <1>3 DEF Kept
      <4>3. split[b] > 0 /\ got'[b] \subseteq 1..split[b]
          BY <4>1, <2>1, <3>1, <3>4 DEF Kept
      <4> QED BY <4>1, <4>2, <4>3, <1>1 DEF Kept
    <3> QED BY <3>2, <3>3, <3>4
  <2> QED BY <2>2, <2>3
<1> QED BY <1>5, <1>6, <1>7 DEF IInv, Accumulated
\* When every piece was taken and none is in the model, every wanted block is
\* complete or published: the last rejection of run finds nothing to reject.
LEMMA AllAnswered ==
    ASSUME TypeOK, Conserved, Accumulated,
           remaining = {}, queued = {}, inflight = {},
           NEW b \in wanted, b \notin published
    PROVE  Complete(b) /\ \A p \in PiecesOf(b) : answer[p] # "none"
<1>1. b \in Block /\ Kept(b)
    BY DEF Accumulated, TypeOK
<1>2. \A p \in PiecesOf(b) : p \in Todo
    BY DEF Todo
<1>3. \A p \in PiecesOf(b) : answer[p] # "none"
    BY <1>2 DEF Conserved, OnItsWay
<1>4. CASE b \in rejected
    BY <1>3, <1>4 DEF Complete
<1>5. CASE b \notin rejected
  <2>1. ASSUME NEW i \in 1..split[b] PROVE i \in got[b]
    <3>1. <<b, i>> \in PiecesOf(b) /\ <<b, i>> \in Piece /\ <<b, i>>[2] = i
        BY <1>1, PiecesAre
    <3>2. answer[<<b, i>>] = "ok"
        BY <3>1, <1>1, <1>3, <1>5 DEF Kept, TypeOK
    <3> QED BY <3>1, <3>2, <1>1, <1>5 DEF Kept
  <2> QED BY <2>1, <1>1, <1>3, <1>5 DEF Kept, Complete
<1> QED BY <1>4, <1>5

LEMMA CloseFindsNothing ==
    ASSUME TypeOK, Conserved, LogMatches, Accumulated, Close
    PROVE  rejected' = rejected
<1>1. remaining = {} /\ queued = {} /\ inflight = {}
    BY DEF Close, Conserved
<1>2. ASSUME NEW b \in Block \ published PROVE Complete(b)
    BY <1>1, AllAnswered DEF LogMatches
<1> QED BY <1>2 DEF Close

LEMMA KeepsClose ==
    ASSUME IInv, TypeOK', Close
    PROVE  IInv'
<1> USE DEF Close, plan, work
<1>0. TypeOK /\ Conserved /\ LogMatches /\ Accumulated
    BY DEF IInv, Running
<1>1. \A c \in Block : PiecesOf(c)' = PiecesOf(c)
    BY DEF PiecesOf
<1>2. Todo' = Todo
    BY <1>0, <1>1 DEF Todo, TypeOK
<1>3. Conserved'
    BY <1>0, <1>2 DEF Conserved, OnItsWay
<1>4. LogMatches'
    BY <1>0 DEF LogMatches
<1>5. rejected' = rejected
    BY <1>0, CloseFindsNothing
<1>6. Accumulated'
    BY <1>0, <1>1, <1>5 DEF Accumulated, Kept, TypeOK
<1> QED BY <1>3, <1>4, <1>6 DEF IInv

LEMMA IInvStep == IInv /\ [Next]_vars => IInv'
<1> SUFFICES ASSUME IInv, [Next]_vars PROVE IInv'
    OBVIOUS
<1>0. TypeOK /\ TypeOK'
    BY TypeStep DEF IInv
<1>1. CASE Plan
    BY <1>0, <1>1, KeepsPlan
<1>2. CASE PublishRefused
    BY <1>2, EndKeeps DEF PublishRefused, Ends
<1>3. CASE Published
    BY <1>0, <1>3, KeepsPublished
<1>4. CASE Choose
    BY <1>0, <1>4, KeepsChoose
<1>5. CASE PutBack
    BY <1>0, <1>5, KeepsPutBack
<1>6. CASE Close
    BY <1>0, <1>6, KeepsClose
<1>7. CASE Fail
    BY <1>7, EndKeeps DEF Fail, Ends
<1>8. CASE Cancelled
    BY <1>8, EndKeeps DEF Cancelled, Ends
<1>9. ASSUME NEW b \in Block, NEW o \in {"ready", "preserved"}, PublishBlock(b, o)
      PROVE  IInv'
    BY <1>0, <1>9, KeepsPublish
<1>10. ASSUME NEW p \in Piece, Dispatch(p) PROVE IInv'
    BY <1>0, <1>10, KeepsDispatch
<1>11. ASSUME NEW p \in Piece, NEW r \in {"ok", "bad"}, Answer(p, r) PROVE IInv'
    BY <1>0, <1>11, KeepsAnswer
<1>12. ASSUME UNCHANGED <<plan, pc, work, accumulators, answer, outcome>>
       PROVE  IInv'
  <2>1. UNCHANGED <<remaining, queued, inflight, got, rejected, published>>
    BY <1>12 DEF work, accumulators
  <2>2. CASE pc \in Running
    BY <1>0, <1>12, <2>1, <2>2, Quiet DEF IInv, Running
  <2>3. CASE pc = "plan"
    BY <1>0, <1>12, <2>1, <2>3 DEF IInv, Untouched, Running
  <2>4. CASE pc \in Ends
    BY <1>0, <1>12, <2>4 DEF IInv, Running, Ends
  <2> QED BY <1>0, <2>2, <2>3, <2>4 DEF TypeOK, Running
<1>13. ASSUME NEW blocks \in Views, NEW on \in BOOLEAN, UpdateFocus(blocks, on)
       PROVE  IInv'
    BY <1>12, <1>13 DEF UpdateFocus
<1>14. CASE Cancel
    BY <1>12, <1>14 DEF Cancel
<1>15. CASE UNCHANGED vars
    BY <1>12, <1>15 DEF vars
<1> QED BY <1>1, <1>2, <1>3, <1>4, <1>5, <1>6, <1>7, <1>8, <1>9, <1>10, <1>11,
           <1>13, <1>14, <1>15 DEF Next, Step

LEMMA Inductive == Spec => []IInv
BY IInvInit, IInvStep, PTL DEF Spec
-----------------------------------------------------------------------------
(* The refinement: every step of a job is one of DocumentPublication's.    *)

LEMMA SamePieces ==
    ASSUME NEW b PROVE Publication!PiecesOf(b) = PiecesOf(b)
BY DEF PiecesOf, Piece, Block, Publication!PiecesOf, Publication!Piece,
       Publication!Block

LEMMA EndMaps ==
    ASSUME pc \notin Ends, NEW how \in {"failed", "cancelled"}, End(how)
    PROVE  Publication!Next
<1>1. Publication!End(how)
    BY DEF End, Publication!End, Status, Ends, plan
<1> QED BY <1>1 DEF Publication!Next

\* A step that changes nothing the promise speaks of.
LEMMA Stutters ==
    ASSUME UNCHANGED <<plan, answer, outcome>>, Status' = Status
    PROVE  UNCHANGED Publication!vars
BY DEF plan, Publication!vars

LEMMA PublishMaps ==
    ASSUME IInv, NEW b \in Block, NEW o \in {"ready", "preserved"},
           PublishBlock(b, o)
    PROVE  Publication!Next
<1>0. TypeOK /\ LogMatches /\ Accumulated /\ pc \notin Ends
    BY DEF IInv, PublishBlock, Running, Ends
<1>1. b \in wanted /\ b \notin published /\ Complete(b) /\ outcome[b] = "none"
    BY <1>0 DEF PublishBlock, ToPublish, LogMatches
<1>2. Kept(b)
    BY <1>0, <1>1 DEF Accumulated
<1>3. Publication!Publish(b, o)
    BY <1>0, <1>1
       DEF PublishBlock, plan, work, Publication!Publish, Status
<1>4. b \in Publication!Block
    BY DEF Block, Publication!Block
<1>5. CASE b \notin rejected
  <2>1. split[b] > 0 /\ got[b] = 1..split[b]
    BY <1>1, <1>2, <1>5 DEF Kept, Complete
  <2>2. Publication!Answered(b, "ok")
    BY <2>1, <1>0, <1>2, <1>5, PiecesAre, SamePieces
       DEF Kept, Publication!Answered
  <2>3. Publication!Ready(b) \/ Publication!Preserve(b)
    BY <1>3, <2>1, <2>2 DEF Publication!Ready, Publication!Preserve
  <2> QED BY <1>4, <2>3 DEF Publication!Next
<1>6. CASE b \in rejected
  <2>1. o = "preserved" /\ Publication!Publish(b, "preserved")
    BY <1>3, <1>6 DEF PublishBlock, Publication!Publish
  <2>2. ASSUME split[b] = 0 PROVE Publication!Answered(b, "ok")
    <3>1. PiecesOf(b) = {}
        BY <1>0, <2>2, PiecesAre
    <3> QED BY <3>1, SamePieces DEF Publication!Answered
  <2>3. \/ \E p \in PiecesOf(b) : answer[p] = "bad"
        \/ Publication!Answered(b, "ok")
    BY <1>2, <1>6, <2>2 DEF Kept
  <2>4. Publication!Preserve(b)
    BY <2>1, <2>3, SamePieces DEF Publication!Preserve
  <2> QED BY <1>4, <2>4 DEF Publication!Next
<1> QED BY <1>5, <1>6

LEMMA AnswerMaps ==
    ASSUME IInv, NEW p \in Piece, NEW r \in {"ok", "bad"}, Answer(p, r)
    PROVE  Publication!Next
<1>0. TypeOK /\ Conserved /\ pc \notin Ends /\ pc' \notin Ends
    BY DEF IInv, Answer, Running, Ends
<1>1. p \in Todo /\ answer[p] = "none"
    BY <1>0 DEF Answer, Conserved, OnItsWay
<1>2. p[1] \in wanted /\ p \in PiecesOf(p[1]) /\ p[1] \in Block
    BY <1>0, <1>1, TodoOf, PieceFields
<1>3. Publication!Answer(p[1], p, r)
    BY <1>0, <1>1, <1>2, SamePieces DEF Answer, plan, Publication!Answer, Status
<1>4. p[1] \in Publication!Block /\ p \in Publication!Piece
    BY <1>2 DEF Piece, Block, Publication!Block, Publication!Piece
<1> QED BY <1>3, <1>4 DEF Publication!Next

\* Published ends a closing job: then nothing is left to answer or publish.
LEMMA PublishedMaps ==
    ASSUME IInv, Published
    PROVE  Publication!Next \/ UNCHANGED Publication!vars
<1>0. TypeOK /\ Conserved /\ LogMatches /\ Accumulated /\ pc \notin Ends
    BY DEF IInv, Published, Running, Ends
<1>1. CASE pc # "closing"
  <2>1. Status' = Status /\ UNCHANGED <<plan, answer, outcome>>
    BY <1>0, <1>1 DEF Published, Status, Ends
  <2> QED BY <2>1, Stutters
<1>2. CASE pc = "closing"
  <2>1. remaining = {} /\ queued = {} /\ inflight = {}
    BY <1>0, <1>2 DEF Conserved
  <2>2. ASSUME NEW b \in wanted
        PROVE  outcome[b] # "none" /\ \A p \in PiecesOf(b) : answer[p] # "none"
    <3>1. \A p \in PiecesOf(b) : p \in Todo
        BY DEF Todo
    <3>2. \A p \in PiecesOf(b) : answer[p] # "none"
        BY <1>0, <2>1, <3>1 DEF Conserved, OnItsWay
    <3>3. b \in published
        BY <1>0, <2>1, AllAnswered DEF Published, ToPublish, TypeOK
    <3> QED BY <1>0, <3>2, <3>3 DEF LogMatches
  <2>3. Publication!End("done")
    BY <1>0, <1>2, <2>2, SamePieces
       DEF Published, plan, Publication!End, Status, Ends
  <2> QED BY <2>3 DEF Publication!Next
<1> QED BY <1>1, <1>2

LEMMA StepMaps ==
    IInv /\ [Next]_vars => [Publication!Next]_(Publication!vars)
<1> SUFFICES ASSUME IInv, [Next]_vars
             PROVE  Publication!Next \/ UNCHANGED Publication!vars
    OBVIOUS
<1>1. ASSUME pc \notin Ends, pc' \notin Ends, UNCHANGED <<plan, answer, outcome>>
      PROVE  UNCHANGED Publication!vars
    BY <1>1, Stutters DEF Status
<1>2. CASE Plan
    BY <1>1, <1>2 DEF Plan, Ends
<1>3. CASE PublishRefused
    BY <1>3, EndMaps DEF PublishRefused, Ends
<1>4. CASE Published
    BY <1>4, PublishedMaps
<1>5. CASE Choose
    BY <1>1, <1>5 DEF Choose, Ends
<1>6. CASE PutBack
    BY <1>1, <1>6 DEF PutBack, Ends
<1>7. CASE Close
    BY <1>1, <1>7 DEF Close, Ends
<1>8. CASE Fail
    BY <1>8, EndMaps DEF Fail, Ends
<1>9. CASE Cancelled
    BY <1>9, EndMaps DEF Cancelled, Ends
<1>10. ASSUME NEW b \in Block, NEW o \in {"ready", "preserved"}, PublishBlock(b, o)
       PROVE  Publication!Next
    BY <1>10, PublishMaps
<1>11. ASSUME NEW p \in Piece, Dispatch(p) PROVE UNCHANGED Publication!vars
    BY <1>1, <1>11 DEF Dispatch, Ends
<1>12. ASSUME NEW p \in Piece, NEW r \in {"ok", "bad"}, Answer(p, r)
       PROVE  Publication!Next
    BY <1>12, AnswerMaps
<1>13. ASSUME UNCHANGED <<plan, pc, answer, outcome>>
       PROVE  UNCHANGED Publication!vars
    BY <1>13, Stutters DEF Status
<1>14. ASSUME NEW blocks \in Views, NEW on \in BOOLEAN, UpdateFocus(blocks, on)
       PROVE  UNCHANGED Publication!vars
    BY <1>13, <1>14 DEF UpdateFocus
<1>15. CASE Cancel
    BY <1>13, <1>15 DEF Cancel
<1>16. CASE UNCHANGED vars
    BY <1>13, <1>16 DEF vars
<1> QED BY <1>2, <1>3, <1>4, <1>5, <1>6, <1>7, <1>8, <1>9, <1>10, <1>11, <1>12,
           <1>14, <1>15, <1>16 DEF Next, Step

LEMMA InitMaps == Init => Publication!Init
<1> SUFFICES ASSUME Init PROVE Publication!Init
    OBVIOUS
<1>1. TypeOK
    BY TypeInit
<1> QED BY <1>1 DEF Init, TypeOK, Publication!Init, Status, Ends, Block, Piece,
                    Publication!Block, Publication!Piece

\* A document job implements what it promises: for any number of blocks and
\* pieces, any batch bounds and any focus updates, no piece is lost or
\* translated twice, and every wanted block is published once for its answers.
THEOREM PromisesKept == Spec => Promises
<1>1. Init => Publication!Init
    BY InitMaps
<1>2. IInv /\ [Next]_vars => [Publication!Next]_(Publication!vars)
    BY StepMaps
<1> QED BY <1>1, <1>2, Inductive, PTL DEF Spec, Promises, Publication!Spec

-----------------------------------------------------------------------------
(* What is in view goes first.                                             *)

\* A batch is in view as a whole, or nothing that waits is.
OneView ==
    pc \in {"publish", "piece", "translate"} =>
        \/ \A q \in queued : q[1] \in selected
        \/ \A q \in remaining \cup queued : q[1] \notin selected

LEMMA BatchInView ==
    ASSUME TypeOK, InView # {}, NEW start \in remaining, Starts(start),
           NEW p \in Batch(start)
    PROVE  p[1] \in visible
<1>1. start[1] \in visible
    BY DEF Starts, InView
<1>2. CASE p = start
    BY <1>1, <1>2
<1>3. CASE p # start
  <2>1. p \in remaining /\ Upto(start, p) /\ p \in Piece
    BY DEF Batch, TypeOK
  <2>2. p[1] \in Nat /\ p[2] \in Nat
    BY <2>1, PieceFields DEF Block
  <2>3. Upto(p, p)
    BY <2>2 DEF Upto
  <2>4. p \in Span(start, p) \ {start}
    BY <1>3, <2>1, <2>3 DEF Span
  <2>5. Joins(start, p)
    BY <2>4 DEF Batch
  <2> QED BY <2>5 DEF Joins, InView
<1> QED BY <1>2, <1>3

LEMMA OneViewStep == IInv /\ OneView /\ [Next]_vars => OneView'
<1> SUFFICES ASSUME IInv, OneView, [Next]_vars PROVE OneView'
    OBVIOUS
<1>0. TypeOK
    BY DEF IInv
<1>1. CASE Plan
    BY <1>1 DEF OneView, Plan, IInv, Untouched
<1>2. ASSUME NEW how \in Ends, End(how) PROVE OneView'
    BY <1>2 DEF End, OneView, Ends
<1>3. CASE PublishRefused \/ Fail \/ Cancelled
    BY <1>2, <1>3 DEF PublishRefused, Fail, Cancelled, Ends
<1>4. CASE Published
    BY <1>4 DEF Published, OneView, work
<1>5. CASE Choose
  <2>1. PICK start \in remaining : Starts(start) /\ queued' = Batch(start)
    BY <1>5 DEF Choose
  <2>2. queued' \subseteq remaining /\ remaining' \subseteq remaining
        /\ selected' = visible
    BY <1>5, <2>1, BatchTaken DEF Choose
  <2>3. CASE InView # {}
    BY <1>0, <2>1, <2>2, <2>3, BatchInView DEF OneView
  <2>4. CASE InView = {}
    BY <2>2, <2>4 DEF OneView, InView
  <2> QED BY <2>3, <2>4
<1>6. CASE PutBack \/ Close
    BY <1>6 DEF PutBack, Close, OneView
<1>7. ASSUME NEW b \in Block, NEW o \in {"ready", "preserved"}, PublishBlock(b, o)
      PROVE  OneView'
    BY <1>7 DEF PublishBlock, OneView, work
<1>8. ASSUME NEW p \in Piece, Dispatch(p) PROVE OneView'
    BY <1>8 DEF Dispatch, OneView
<1>9. ASSUME NEW p \in Piece, NEW r \in {"ok", "bad"}, Answer(p, r) PROVE OneView'
    BY <1>9 DEF Answer, OneView
<1>10. ASSUME NEW blocks \in Views, NEW on \in BOOLEAN, UpdateFocus(blocks, on)
       PROVE  OneView'
    BY <1>10 DEF UpdateFocus, OneView, work
<1>11. CASE Cancel \/ UNCHANGED vars
    BY <1>11 DEF Cancel, vars, OneView, work
<1> QED BY <1>1, <1>3, <1>4, <1>5, <1>6, <1>7, <1>8, <1>9, <1>10, <1>11
           DEF Next, Step

\* A dispatch is the only step that hands a piece to the model, and it looks
\* at the focus first.
LEMMA DispatchInView ==
    ASSUME OneView, NEW p \in Piece, Dispatch(p)
    PROVE  \A q \in inflight' \ inflight :
              /\ active
              /\ \/ q[1] \in visible
                 \/ \A r \in remaining \cup queued : r[1] \notin visible
<1>1. active /\ visible = selected /\ p \in queued /\ inflight' = {p}
    BY DEF Dispatch, Moved
<1>2. \/ \A q \in queued : q[1] \in visible
      \/ \A q \in remaining \cup queued : q[1] \notin visible
    BY <1>1 DEF Dispatch, OneView
<1> QED BY <1>1, <1>2

LEMMA NothingStarts ==
    ASSUME [Next]_vars, \A p \in Piece : ~Dispatch(p)
    PROVE  inflight' \subseteq inflight
<1>1. CASE Step
    BY <1>1 DEF Step, Plan, PublishRefused, Published, Choose, PutBack, Close, Fail,
                Cancelled, PublishBlock, Answer, End, work
<1> QED BY <1>1 DEF Next, UpdateFocus, Cancel, vars, work

\* No piece out of view goes to the model while one in view waits, and none
\* while the page is inactive, however stale the batch it was taken in.
THEOREM ViewGoesFirst == Spec => VisibleFirst
<1>1. Init => OneView
    BY DEF Init, OneView
<1>2. IInv /\ OneView /\ [Next]_vars =>
        [\A p \in inflight' \ inflight :
          /\ active
          /\ p[1] \in visible
             \/ \A q \in remaining \cup queued : q[1] \notin visible]_vars
    BY DispatchInView, NothingStarts
<1> QED BY <1>1, <1>2, OneViewStep, Inductive, PTL DEF Spec, VisibleFirst
=============================================================================
