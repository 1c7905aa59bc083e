---------------------------- MODULE MCRevalidation -----------------------------
(* An instance of Revalidation: two faces that may hold the same bytes, a      *)
(* header that asks for one of them, and a header of neither.                  *)
EXTENDS Revalidation, TLC

CONSTANTS html, json

MCAccepts == {<<Other, json>>, <<Other>>}
Symmetry == Permutations(Clients) \cup Permutations(Bytes)
===============================================================================
