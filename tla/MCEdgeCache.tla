----------------------------- MODULE MCEdgeCache ----------------------------
(* Values of the constants of EdgeCache for TLC.  The directory of an agent *)
(* keeps its size; the list does not fit in beside it, and grows beyond    *)
(* what is kept when an agent registers.                                   *)
EXTENDS EdgeCache, TLC

CONSTANTS directory, list

MCSize == [k \in Key, v \in Version |-> IF k = directory THEN 2 ELSE 2 + v]
MCSymmetry == Permutations(Reader) \cup Permutations(Isolate)
=============================================================================
