------------------------ MODULE DocumentPublication ------------------------
(***************************************************************************)
(* What one document job promises the page it translates, without its      *)
(* scheduler: every piece of a wanted block is answered by the language    *)
(* model once, a block is published once, as ready from all of its pieces  *)
(* or as preserved for a reason, and a job that ends well has left nothing *)
(* out.  A job that fails or is cancelled may stop anywhere.               *)
(***************************************************************************)
EXTENDS Naturals

CONSTANTS Blocks,       \* the blocks of the request, 1..Blocks in order
          MaxPieces     \* the pieces a block is split into, at most

VARIABLES split,        \* the pieces of each block; 0: it cannot be split
          wanted,       \* the blocks the job was asked for
          answer,       \* what the model said of each piece
          outcome,      \* what the job's log holds of each block
          status        \* "running", "done", "failed" or "cancelled"

vars == <<split, wanted, answer, outcome, status>>

Block == 1..Blocks
Piece == Block \X (1..MaxPieces)
PiecesOf(b) == {p \in Piece : p[1] = b /\ p[2] <= split[b]}

Answered(b, r) == \A p \in PiecesOf(b) : answer[p] = r

Init ==
    /\ split \in [Block -> 0..MaxPieces]
    /\ wanted \in SUBSET Block
    /\ answer = [p \in Piece |-> "none"]
    /\ outcome = [b \in Block |-> "none"]
    /\ status = "running"

\* The model answers one piece of a wanted block, once.
Answer(b, p, r) ==
    /\ status = "running" /\ b \in wanted
    /\ p \in PiecesOf(b) /\ answer[p] = "none"
    /\ answer' = [answer EXCEPT ![p] = r]
    /\ UNCHANGED <<split, wanted, outcome, status>>

Publish(b, o) ==
    /\ status = "running" /\ b \in wanted /\ outcome[b] = "none"
    /\ outcome' = [outcome EXCEPT ![b] = o]
    /\ UNCHANGED <<split, wanted, answer, status>>

\* A block is ready only when every piece of it was translated.
Ready(b) == split[b] > 0 /\ Answered(b, "ok") /\ Publish(b, "ready")

\* A block is preserved when it could not be split, when a piece was refused,
\* or when its joined translation is not valid: never for a missing piece.
Preserve(b) ==
    /\ \/ \E p \in PiecesOf(b) : answer[p] = "bad"
       \/ Answered(b, "ok")
    /\ Publish(b, "preserved")

End(s) ==
    /\ status = "running"
    /\ s = "done" => \A b \in wanted :
          outcome[b] # "none" /\ \A p \in PiecesOf(b) : answer[p] # "none"
    /\ status' = s
    /\ UNCHANGED <<split, wanted, answer, outcome>>

Next ==
    \/ \E b \in Block :
          \/ \E p \in Piece, r \in {"ok", "bad"} : Answer(b, p, r)
          \/ Ready(b)
          \/ Preserve(b)
    \/ \E s \in {"done", "failed", "cancelled"} : End(s)

Spec == Init /\ [][Next]_vars
=============================================================================
