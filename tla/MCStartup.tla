------------------------------- MODULE MCStartup -------------------------------
(* Small instances of Startup for TLC: two prefixes, one within the other, and *)
(* files that hold every combination of a few lines of each key.               *)
EXTENDS Startup

CONSTANTS Lo, Lan, Cap1, Cap2

MCPrefixes == {"urn:", "urn:repo:"}
MCIRIs == {"urn:x", "urn:repo:x"}
MCClaims == [p \in MCPrefixes |-> IF p = "urn:" THEN MCIRIs ELSE {"urn:repo:x"}]
MCLength == [p \in MCPrefixes |-> IF p = "urn:" THEN 4 ELSE 9]

Line(kind, prefix) == [kind |-> kind, prefix |-> prefix]
MCFiles ==
    [mount : {<<>>, <<Line("override", "urn:")>>, <<Line("prefer", "urn:repo:"), Line("alias", "urn:")>>},
     webMount : {<<>>, <<Line("prefer", "urn:")>>, <<Malformed>>},
     bind : {<<>>, <<Lo>>, <<Lan>>, <<Lan, Lo>>, <<Malformed>>},
     port : {<<>>, <<Lo>>, <<Malformed>>},
     cap : {<<>>, <<Cap1>>, <<Cap1, Cap2>>, <<Cap1, Malformed>>}]
===============================================================================
