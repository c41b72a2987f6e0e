-------------------------- MODULE DocumentPipeline --------------------------
(***************************************************************************)
(* One document job, from its request to its terminal update: blocks are   *)
(* split into pieces, pieces are taken in batches chosen by what the       *)
(* reader sees, and each block is published from its accumulator as soon   *)
(* as it is complete.  The reader scrolls, pauses, resumes and cancels at  *)
(* any moment; the job looks at the focus once per batch and once before   *)
(* each piece.                                                             *)
(***************************************************************************)
EXTENDS Naturals, FiniteSets, FiniteSetsExt

CONSTANTS Blocks, MaxPieces,    \* as in DocumentPublication
          Splits,               \* the splits of the request to consider
          Tokens,               \* token_count of a piece of each block
          MaxBatch,             \* DOCUMENT_BATCH_MAX
          Budget,               \* DOCUMENT_BATCH_TOKEN_BUDGET
          Views,                \* the sets of visible blocks the page reports
          MaxFocus              \* bound: the focus updates of one job

ASSUME DocumentAssumption ==
    /\ Blocks \in Nat \ {0} /\ MaxPieces \in Nat \ {0}
    /\ Splits \subseteq [1..Blocks -> 0..MaxPieces]
    /\ Views \subseteq SUBSET (1..Blocks)
    /\ Tokens \in [1..Blocks -> Nat]
    /\ {MaxBatch, Budget, MaxFocus} \subseteq Nat

VARIABLES split, wanted,        \* the plan: pieces of each block, retried blocks
          pc,                   \* where run is, or how it ended
          remaining,            \* pieces not taken yet
          queued,               \* pieces of the batch not started yet
          inflight,             \* the piece the model has, if any
          first,                \* first_dispatch
          selected,             \* visible blocks when the batch was taken
          visible, active,      \* the job's focus, written by its handler
          changes,              \* focus updates so far
          cancelled,            \* the job's cancel flag
          got, rejected, published,     \* the accumulators' fields
          answer,               \* history: what the model said of each piece
          outcome               \* the blocks in the job's log

plan == <<split, wanted>>
work == <<remaining, queued, inflight, first, selected>>
focus == <<visible, active, changes>>
accumulators == <<got, rejected, published>>
vars == <<plan, pc, work, focus, cancelled, accumulators, answer, outcome>>

Block == 1..Blocks
Piece == Block \X (1..MaxPieces)
PiecesOf(b) == {p \in Piece : p[1] = b /\ p[2] <= split[b]}
Ends == {"done", "failed", "cancelled"}

-----------------------------------------------------------------------------
(* The batch: take_next_document_batch.                                    *)

\* The order the remaining pieces are sorted in.
Upto(p, q) == p[1] < q[1] \/ (p[1] = q[1] /\ p[2] <= q[2])

\* contiguous_piece or contiguous_block
Contiguous(p, q) ==
    \/ q[1] = p[1] /\ q[2] = p[2] + 1
    \/ q[1] = p[1] + 1 /\ q[2] = 1

InView == {p \in remaining : p[1] \in visible}

\* A batch starts at the first visible piece, or at the first one.
Starts(p) ==
    /\ p \in IF InView # {} THEN InView ELSE remaining
    /\ \A q \in IF InView # {} THEN InView ELSE remaining : Upto(p, q)

Span(start, q) == {p \in remaining : Upto(start, p) /\ Upto(p, q)}
Weight(pieces) == MapThenSumSet(LAMBDA p : Tokens[p[1]], pieces)

\* The batch that starts at start may go on with q: a batch of visible blocks
\* stops at a block out of view, and the first one at its first block.
Joins(start, q) ==
    /\ InView # {} => q \in InView /\ (first => q[1] = start[1])
    /\ \E p \in Span(start, q) : Contiguous(p, q)
    /\ Cardinality(Span(start, q)) <= MaxBatch
    /\ Weight(Span(start, q)) <= Budget

Batch(start) ==
    {p \in remaining : /\ Upto(start, p)
                       /\ \A q \in Span(start, p) \ {start} : Joins(start, q)}

-----------------------------------------------------------------------------
\* The accumulators.
Complete(b) == b \in rejected \/ got[b] = 1..split[b]
ToPublish == {b \in Block \ published : Complete(b)}

\* The job's log refuses what comes after a cancellation, and a block twice.
Refused(b) == cancelled \/ outcome[b] # "none"

End(how) ==
    /\ pc' = how
    /\ UNCHANGED <<plan, work, focus, cancelled, accumulators, answer, outcome>>

Init ==
    /\ split \in Splits
    /\ wanted \in (SUBSET Block) \ {{}}
    /\ pc = "plan"
    /\ remaining = {} /\ queued = {} /\ inflight = {} /\ first = TRUE
    /\ visible \in Views /\ selected = {} /\ active = TRUE /\ changes = 0
    /\ cancelled = FALSE
    /\ got = [b \in Block |-> {}] /\ rejected = {} /\ published = {}
    /\ answer = [p \in Piece |-> "none"]
    /\ outcome = [b \in Block |-> "none"]

\* The runtime is ready: split the blocks and plan the wanted pieces.  A block
\* that cannot be split is rejected at once.
Plan ==
    /\ pc = "plan" /\ ~cancelled
    /\ pc' = "publish"
    /\ remaining' = UNION {PiecesOf(b) : b \in wanted}
    /\ rejected' = {b \in Block : split[b] = 0}
    /\ published' = Block \ wanted
    /\ UNCHANGED <<plan, queued, inflight, first, selected, focus, cancelled,
                   got, answer, outcome>>

\* publish_document_accumulator of the first block that is complete.  The
\* reason of a rejected block is taken; a joined text that fails validation
\* turns a block of valid pieces into a preserved one.
PublishBlock(b, o) ==
    /\ pc \in {"publish", "closing"}
    /\ b \in ToPublish /\ \A c \in ToPublish : b <= c
    /\ b \in rejected => o = "preserved"
    /\ ~Refused(b)
    /\ outcome' = [outcome EXCEPT ![b] = o]
    /\ rejected' = rejected \ {b}
    /\ published' = published \cup {b}
    /\ UNCHANGED <<plan, pc, work, focus, cancelled, got, answer>>

\* The log refuses the publication: the job ends there.
PublishRefused ==
    /\ pc \in {"publish", "closing"}
    /\ \E b \in ToPublish : (\A c \in ToPublish : b <= c) /\ Refused(b)
    /\ End(IF cancelled THEN "cancelled" ELSE "failed")

\* Nothing left to publish: on with the batch, with the next one, or done.
Published ==
    /\ pc \in {"publish", "closing"} /\ ToPublish = {}
    /\ pc' = IF pc = "closing" THEN "done"
             ELSE IF queued # {} THEN "piece" ELSE "choose"
    /\ UNCHANGED <<plan, work, focus, cancelled, accumulators, answer, outcome>>

\* wait_for_active_document, then one batch of the focus it returned.
Choose ==
    /\ pc = "choose" /\ remaining # {} /\ active /\ ~cancelled
    /\ \E start \in remaining :
          /\ Starts(start)
          /\ queued' = Batch(start)
          /\ remaining' = remaining \ Batch(start)
    /\ selected' = visible /\ first' = FALSE
    /\ pc' = "piece"
    /\ UNCHANGED <<plan, inflight, focus, cancelled, accumulators, answer, outcome>>

\* Mutant: the focus is looked at once per batch.
MovedNever == FALSE

\* current_focus is not selected_focus any more.
Moved == ~active \/ visible # selected

\* Mutant: only the piece at hand goes back, not the rest of the batch.
PutBackOne ==
    /\ pc = "piece" /\ Moved
    /\ \E p \in queued : remaining' = remaining \cup {p}
    /\ queued' = {}
    /\ pc' = "choose"
    /\ UNCHANGED <<plan, inflight, first, selected, focus, cancelled,
                   accumulators, answer, outcome>>

\* The focus moved since the batch was taken: what was not started goes back.
PutBack ==
    /\ pc = "piece" /\ Moved
    /\ remaining' = remaining \cup queued /\ queued' = {}
    /\ pc' = "choose"
    /\ UNCHANGED <<plan, inflight, first, selected, focus, cancelled,
                   accumulators, answer, outcome>>

\* The next piece of the batch goes to the model.
Dispatch(p) ==
    /\ pc = "piece" /\ ~Moved /\ ~cancelled
    /\ p \in queued /\ \A q \in queued : Upto(p, q)
    /\ queued' = queued \ {p} /\ inflight' = {p}
    /\ pc' = "translate"
    /\ UNCHANGED <<plan, remaining, first, selected, focus, cancelled,
                   accumulators, answer, outcome>>

\* The model translated the piece, or refused or omitted it.
Answer(p, r) ==
    /\ pc = "translate" /\ p \in inflight
    /\ inflight' = {} /\ answer' = [answer EXCEPT ![p] = r]
    /\ IF r = "ok"
       THEN /\ got' = IF p[1] \in rejected THEN got
                      ELSE [got EXCEPT ![p[1]] = @ \cup {p[2]}]
            /\ UNCHANGED rejected
       ELSE /\ rejected' = rejected \cup {p[1]}
            /\ UNCHANGED got
    /\ pc' = "publish"
    /\ UNCHANGED <<plan, remaining, queued, first, selected, focus, cancelled,
                   published, outcome>>

\* Every piece was taken: what is incomplete is rejected, and the rest published.
Close ==
    /\ pc = "choose" /\ remaining = {}
    /\ pc' = "closing"
    /\ rejected' = rejected \cup {b \in Block \ published : ~Complete(b)}
    /\ UNCHANGED <<plan, work, focus, cancelled, got, published, answer, outcome>>

\* The runtime or the model fails: the error ends the job.
Fail == pc \in {"plan", "translate"} /\ End("failed")

\* Mutant: a job that waits for its focus does not look at the flag.
CancelledUnlessPaused ==
    /\ cancelled
    /\ \/ pc \in {"plan", "translate"}
       \/ pc = "choose" /\ remaining # {} /\ active
       \/ pc = "piece" /\ ~Moved
    /\ End("cancelled")

\* cancellation_boundary, where the job looks: before planning, at a batch,
\* while it waits for an active focus, and in the model's call.
Cancelled ==
    /\ cancelled
    /\ \/ pc \in {"plan", "translate"}
       \/ pc = "choose" /\ remaining # {}
       \/ pc = "piece" /\ ~Moved
    /\ End("cancelled")

Step ==
    \/ Plan \/ PublishRefused \/ Published \/ Choose \/ PutBack \/ Close
    \/ Fail \/ Cancelled
    \/ \E b \in Block, o \in {"ready", "preserved"} : PublishBlock(b, o)
    \/ \E p \in Piece : Dispatch(p) \/ \E r \in {"ok", "bad"} : Answer(p, r)

-----------------------------------------------------------------------------
\* The page reports what the reader sees, or pauses or resumes the job.
UpdateFocus(blocks, on) ==
    /\ pc \notin Ends /\ changes < MaxFocus
    /\ visible' = blocks /\ active' = on /\ changes' = changes + 1
    /\ UNCHANGED <<plan, pc, work, cancelled, accumulators, answer, outcome>>

Cancel ==
    /\ pc \notin Ends /\ ~cancelled
    /\ cancelled' = TRUE
    /\ UNCHANGED <<plan, pc, work, focus, accumulators, answer, outcome>>

Next ==
    \/ Step
    \/ \E blocks \in Views, on \in BOOLEAN : UpdateFocus(blocks, on)
    \/ Cancel

Spec == Init /\ [][Next]_vars

\* The task is scheduled until it returns, and the model answers or fails.
FairSpec == Spec /\ WF_vars(Step)

-----------------------------------------------------------------------------
TypeOK ==
    /\ split \in [Block -> 0..MaxPieces] /\ wanted \subseteq Block
    /\ pc \in {"plan", "publish", "choose", "piece", "translate", "closing"} \cup Ends
    /\ remaining \subseteq Piece /\ queued \subseteq Piece /\ inflight \subseteq Piece
    /\ first \in BOOLEAN /\ selected \subseteq Block
    /\ visible \subseteq Block /\ active \in BOOLEAN /\ changes \in 0..MaxFocus
    /\ cancelled \in BOOLEAN
    /\ got \in [Block -> SUBSET (1..MaxPieces)]
    /\ rejected \subseteq Block /\ published \subseteq Block
    /\ answer \in [Piece -> {"none", "ok", "bad"}]
    /\ outcome \in [Block -> {"none", "ready", "preserved"}]

Status == IF pc \in Ends THEN pc ELSE "running"

Publication == INSTANCE DocumentPublication WITH status <- Status

\* The job keeps what a document job promises, whatever the focus does between
\* its batches: no piece is lost when a batch is put back and none translated
\* twice, each wanted block is published once, none for a missing piece, and a
\* job that ends well has published all of them (run, 458-713).
Promises == Publication!Spec

\* A piece goes to the model only while the reader reads, and one out of view
\* only when no piece in view waits: not even late in a batch that was taken
\* for another focus (the check before each piece, 639-646).
VisibleFirst ==
    [][\A p \in inflight' \ inflight :
          /\ active
          /\ p[1] \in visible
             \/ \A q \in remaining \cup queued : q[1] \notin visible]_vars

\* A job that is cancelled, even one that is paused, ends; so does one whose
\* page stays active, however its focus moved before (wait_for_active_document).
DocumentEnds == (<>cancelled \/ <>[]active) => <>(pc \in Ends)
=============================================================================
