------------------------- MODULE MCDocumentPipeline -------------------------
EXTENDS DocumentPipeline

\* A long block between two short ones: a batch of all three is over budget.
MCTokens == [b \in 1..Blocks |-> IF b = 2 THEN 2 ELSE 1]

\* A long block in the middle or at the end, and one that cannot be split.
MCSplits == {<<1, 2, 1>>, <<2, 0, 1>>, <<1, 1, 2>>}

\* Nothing in view, the first or the last block, or the end of the page.
MCViews == {{}, {1}, {3}, {2, 3}}
=============================================================================
