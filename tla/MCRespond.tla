------------------------------ MODULE MCRespond -------------------------------
(* An instance of Respond with one argument name beside the body's own two.    *)
EXTENDS Respond
===============================================================================
