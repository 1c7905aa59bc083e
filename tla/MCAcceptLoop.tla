----------------------------- MODULE MCAcceptLoop -----------------------------
(* The instance of AcceptLoop for TLC. *)
EXTENDS AcceptLoop

(* A connection's own error, a system-wide exhaustion with room in the         *)
(* process's table, and an errno the table of accept.rs does not name.         *)
AnyTransient == {"ECONNABORTED", "ENFILE", "EIO"}
===============================================================================
