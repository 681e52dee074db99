-------------------------- MODULE MCPolicyInspector -------------------------
(* Values of the constants of PolicyInspector for TLC: a robots.txt that    *)
(* allows a visit and then does not, an ai.txt that does not object, and two *)
(* tasks, the first of which stops at a robots.txt that forbids.           *)
EXTENDS PolicyInspector, TLC

CONSTANTS robots, ai, c1

MCSays == [ep \in Endpoint |-> IF ep = robots THEN <<"allows", "disallows">> ELSE <<"allows">>]
MCClientOf == [c \in Caller |-> CHOOSE k \in Client : TRUE]
MCStopOf == [c \in Caller |-> c = c1]
MCNeverStop == [c \in Caller |-> FALSE]

MaxAge == [keep |-> TRUE, ttl |-> 1]
NoCache == [keep |-> TRUE, ttl |-> 0]
NoStore == [keep |-> FALSE, ttl |-> 0]
MCMaxAge == [ep \in Endpoint |-> IF ep = robots THEN {MaxAge} ELSE {MaxAge, NoStore}]
MCNoCache == [ep \in Endpoint |-> {NoCache}]
=============================================================================
