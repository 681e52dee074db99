----------------------------- MODULE MCKeyring ------------------------------
(* Values of the constants of Keyring for TLC.                             *)
EXTENDS Keyring, TLC

MCSymmetry == Permutations(Process) \cup Permutations(Key)
=============================================================================
