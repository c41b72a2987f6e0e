---------------------------- MODULE MCJobStorage ----------------------------
(* Model-checking instance of JobStorage: two POSTs share a client id, and   *)
(* the third, of another client, competes for the same storage.              *)
EXTENDS JobStorage, TLC

CONSTANTS r1, r2, r3, c1, c2

MCClientOf    == r1 :> c1 @@ r2 :> c1 @@ r3 :> c2
MCSourceBytes == r1 :> 1 @@ r2 :> 1 @@ r3 :> 0
MCSymmetry    == Permutations({r1, r2}) \cup Permutations(Payloads)

=============================================================================
