--------------------------- MODULE MCImageChapter ---------------------------
\* A chapter of two images, each of which may change once, and two runs of
\* it.  One item at a time, as in a page whose images exceed the pixel budget.
EXTENDS ImageChapter
=============================================================================
