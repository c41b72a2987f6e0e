---------------------------- MODULE MCResultCache ----------------------------
(* Model-checking instance of ResultCache: two image sources and a document. *)
(* A whole entry of the heavy image exceeds the entry limit, and no two      *)
(* whole entries fit together.                                               *)
EXTENDS ResultCache, TLC

CONSTANTS image, heavy, document

MCWeight == image :> 1 @@ heavy :> 2 @@ document :> 1
MCSymmetry == Permutations(Jobs) \cup Permutations(Items)

=============================================================================
