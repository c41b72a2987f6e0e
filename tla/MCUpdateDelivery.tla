-------------------------- MODULE MCUpdateDelivery --------------------------
(* A job of two items, a page that is reloaded once. *)
EXTENDS UpdateDelivery
=============================================================================
