--------------------------- MODULE MCChapterContext ---------------------------
(* Model-checking instance of ChapterContext: on the first page the source a *)
(* is replaced by b, and a is replayed from the cache when it comes back;    *)
(* the second page is replayed too.                                          *)
EXTENDS ChapterContext, TLC

CONSTANTS p1, p2, a, b, c, j1, j2, j3, j4

MCPageOf     == j1 :> p1 @@ j2 :> p1 @@ j3 :> p1 @@ j4 :> p2
MCRevisionOf == j1 :> a @@ j2 :> b @@ j3 :> a @@ j4 :> c
MCRegionsOf  == a :> {1, 2} @@ b :> {1} @@ c :> {1}

=============================================================================
