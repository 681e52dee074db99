-------------------------- MODULE DomainOwnership --------------------------
(***************************************************************************)
(* The proof that a registrant controls the URL it claims                  *)
(* (directory/src/domain.ts).  A URL is either the page this directory     *)
(* itself hosts for a key, or a site of the outside web.  Asking a URL     *)
(* yields an answer:                                                       *)
(*   "none"      no answer in time, an HTTP error, or a body that is no    *)
(*               JWKS or too large                                         *)
(*   "redirect"  a 3xx, or an answer of another origin, with `keys` the    *)
(*               ones that would be found there                            *)
(*   "jwks"      a JWKS document that lists `keys`                         *)
(***************************************************************************)
CONSTANTS
  Kid,            (* RFC 7638 thumbprints; a thumbprint determines its key *)
  Site,           (* URLs outside this directory                           *)
  ForbiddenSite   (* the ones that are not https or on a private host      *)

ASSUME SiteAssumption == ForbiddenSite \subseteq Site

Hosted(k) == <<"hosted", k>>
Foreign(u) == <<"site", u>>
Url == {Hosted(k) : k \in Kid} \cup {Foreign(u) : u \in Site}

Answer == [kind : {"none"}, keys : {{}}]
            \cup [kind : {"redirect", "jwks"}, keys : SUBSET Kid]
NoAnswer == [kind |-> "none", keys |-> {}]

isForbiddenHost(u) == u \in {Foreign(site) : site \in ForbiddenSite}

(* What asking the URL u may yield when the agents' own pages list         *)
(* `published`.  Any request may fail; a forbidden host is never asked.    *)
AnswersAt(u, published) ==
  IF isForbiddenHost(u) THEN {NoAnswer}
  ELSE IF u \in {Foreign(site) : site \in Site} THEN Answer
  ELSE {NoAnswer} \cup {[kind |-> "jwks", keys |-> published[k]] :
                          k \in {k \in Kid : u = Hosted(k)}}

(* domain_verified for the key k and the URL u that gave the answer a.     *)
verifyDomainOwnership(u, k, a) ==
  \/ u = Hosted(k)
  \/ a.kind = "jwks" /\ k \in a.keys

=============================================================================
