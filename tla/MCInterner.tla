----------------------------- MODULE MCInterner -----------------------------
(***************************************************************************)
(* Three strings and a first buffer of one element, so that the array is   *)
(* full at once and again soon after.  One failure each of a put and of a  *)
(* push, in any order, gives every way the two records can part.           *)
(***************************************************************************)
EXTENDS DenseInterner
=============================================================================
