------------------------------- MODULE MCCompose -------------------------------
(* A small instance of Compose for TLC: an IRI is a sequence of parts, and a   *)
(* prefix claims what begins with it. One part is longer than two others, so   *)
(* prefixes that claim nothing in common are sorted among each other too.      *)
EXTENDS Compose

S == INSTANCE SequencesExt

MCPrefixes == {<<>>, <<"repo">>, <<"repo", "tree">>, <<"iki">>}
MCIRIs == {<<"repo", "tree">>, <<"repo", "log">>, <<"iki">>}
MCClaims == [p \in MCPrefixes |-> {iri \in MCIRIs : S!IsPrefix(p, iri)}]
MCLength == [p \in MCPrefixes |->
                CASE p = <<>> -> 0 [] p = <<"repo">> -> 5
                  [] p = <<"repo", "tree">> -> 10 [] p = <<"iki">> -> 12]
===============================================================================
