----------------------------- MODULE MCLazyMount ------------------------------
(* The instance of LazyMount for TLC: its constants are all model values. *)
EXTENDS LazyMount
===============================================================================
