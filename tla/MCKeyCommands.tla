--------------------------- MODULE MCKeyCommands ----------------------------
(* Values of the constants of KeyCommands for TLC.                         *)
EXTENDS KeyCommands, TLC

MCSymmetry == Permutations(Process) \cup Permutations(Key)
=============================================================================
