------------------------------ MODULE MCJobLog ------------------------------
(* Model-checking instance of JobLog: one item, two concurrent DELETEs.      *)
EXTENDS JobLog

=============================================================================
