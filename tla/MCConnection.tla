----------------------------- MODULE MCConnection -----------------------------
(* Small instances of Connection for TLC: every number is scaled down, keeping *)
(* one read of a head longer than its blank line.                              *)
EXTENDS Connection
===============================================================================
