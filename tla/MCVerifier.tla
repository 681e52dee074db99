----------------------------- MODULE MCVerifier -----------------------------
(* Values of the constants of Verifier for TLC: a request signed with k1,  *)
(* copies of it damaged in two ways, and three signed with k2, which is to *)
(* replace k1, one of them without a nonce.                                *)
EXTENDS Verifier, TLC

CONSTANTS k1, k2, n1, n2, n3

Signed(nonce, created, expires, key) ==
  [nonce |-> nonce, created |-> created, expires |-> expires, key |-> key, flaw |-> "none"]

First == Signed(n1, 0, 2, k1)
MCRequest ==
  {First, [First EXCEPT !.flaw = "signature"], [First EXCEPT !.flaw = "form"],
   Signed(n2, 1, 3, k2), Signed(n3, 1, 3, k2), Signed(NoNonce, 1, 3, k2)}
MCSymmetry == Permutations(Delivery) \cup Permutations({n2, n3})
=============================================================================
