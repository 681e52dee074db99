--------------------------- MODULE MCRegistration ---------------------------
(* Values of the constants of Registration for TLC: every key is submitted *)
(* alone and together with another one, for its hosted page; one is also   *)
(* claimed for outside sites, and signs a submit for the other.            *)
EXTENDS Registration, TLC

CONSTANT Other   (* a key, the one that does both *)

OneAddress == {[family |-> "v4", net |-> 1, host |-> 1]}
(* Two hosts of one /64, and an IPv4 host.                                 *)
ThreeAddresses ==
  {[family |-> "v6", net |-> 1, host |-> h] : h \in {1, 2}} \cup OneAddress

Submit(k, keys, url) ==
  [kid |-> k, keys |-> keys, signer |-> k, url |-> url, flaw |-> "none"]

HostedBody == {Submit(k, {k}, Hosted(k)) : k \in Kid}

(* Two submits that a local check refuses.                                 *)
TimeBody ==
  HostedBody \cup {[Submit(Other, {Other}, Hosted(Other)) EXCEPT !.flaw = f] :
                    f \in {"reserved_name", "content_digest_mismatch"}}

MCBody ==
  HostedBody
  \cup {Submit(k, {k, j}, Hosted(k)) : k, j \in Kid}
  \cup {Submit(Other, {Other}, Foreign(u)) : u \in Site}
  \cup {[Submit(k, {k}, Hosted(k)) EXCEPT !.signer = Other] : k \in Kid}

MCSymmetry == Permutations(Slot)
=============================================================================
