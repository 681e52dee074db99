------------------------------ MODULE Verifier ------------------------------
(***************************************************************************)
(* Verifying signed requests at an origin: Verifier.verify with its        *)
(* JwksCache and NonceStore, python/src/wbauth/verifier.py.  Requests are  *)
(* verified concurrently, one atomic step from await to await; the same    *)
(* request may be delivered several times, and the directory of its signer *)
(* replaces its keys meanwhile.                                            *)
(*                                                                         *)
(* There is one directory, and no custom key_resolver.  A request has a    *)
(* flaw when a check of its form, its components, its digest or its        *)
(* signature fails.  The wall clock and the monotonic clock advance        *)
(* together.                                                               *)
(***************************************************************************)
EXTENDS NonceStore, SequencesExt

CONSTANTS
  Delivery,   (* deliveries of requests, each made at most once            *)
  Request,    (* signed requests                                           *)
  Key,        (* the signer's keys, by thumbprint                          *)
  Listing,    (* the sets of keys the directory may list                   *)
  NoNonce,    (* the nonce of a request that carries none                  *)
  SKEW,       (* max_skew                                                  *)
  TTL,        (* ttl of JwksCache                                          *)
  Latency,    (* bound on the time a verification takes                    *)
  MaxTime     (* bound on the clock                                        *)

ASSUME NonceAssumption == NoNonce \notin Nonce
ASSUME ListingAssumption == Listing \subseteq SUBSET Key
ASSUME RequestAssumption ==
  Request # {} /\
  Request \subseteq [nonce : Nonce \cup {NoNonce}, created : Nat, expires : Nat, key : Key,
                     flaw : {"none", "form", "signature"}]
ASSUME TimeAssumption ==
  SKEW \in Nat /\ TTL \in Nat \ {0} /\ Latency \in Nat /\ MaxTime \in Nat

VARIABLES
  now,         (* time.time(), time.monotonic()                            *)
  published,   (* the keys the directory lists                             *)
  listed,      (* history, per key: the last time it was listed, or -1     *)
  unlisted,    (* history, per key: the last time it was not, or -1        *)
  jwks,        (* JwksCache._entries of the directory: {} or one entry     *)
  delivery,    (* per delivery: the state of its verification              *)
  accepted     (* history: the deliveries accepted, in order               *)

verifyVars == <<now, published, listed, unlisted, jwks, delivery, accepted>>
vars == <<storeVars, verifyVars>>

Time == 0 .. MaxTime
Waiting == {"fetch", "answer"}
Refusal == {"form", "time", "unreachable", "unpublished", "signature", "replayed"}

(* Where a verification is, of what request, since when, the keys it has   *)
(* in its hands, and when it ended.                                        *)
Verification ==
  [stage : {"none", "accepted"} \cup Waiting \cup Refusal, request : Request,
   t : Time, keys : SUBSET Key, end : Time]
Verify(stage, r, start, keys) ==
  [stage |-> stage, request |-> r, t |-> start, keys |-> keys, end |-> now]

Entry == [until : Nat, keys : SUBSET Key]

(* Slip: an entry serves until it is replaced.                             *)
CachedForGood == jwks

(* JwksCache.keys: an entry whose time is not over.                        *)
Cached == {e \in jwks : e.until > now}

-----------------------------------------------------------------------------

Init ==
  /\ StoreInit
  /\ now = 0
  /\ published \in Listing
  /\ listed = [k \in Key |-> IF k \in published THEN 0 ELSE -1]
  /\ unlisted = [k \in Key |-> IF k \in published THEN -1 ELSE 0]
  /\ jwks = {}
  /\ delivery = [d \in Delivery |->
       [stage |-> "none", request |-> CHOOSE r \in Request : TRUE, t |-> 0, keys |-> {}, end |-> 0]]
  /\ accepted = <<>>

(* The request carries no signature, or one whose form, covered components *)
(* or digest are not what is asked for; and one whose signature does not   *)
(* verify under its key.                                                   *)
Malformed(r) == r.flaw = "form"
Forged(r) == r.flaw = "signature"

InTime(r) == r.created <= now + SKEW /\ r.expires >= now - SKEW

(* Slip: a nonce is kept until its request expires, skew not included.     *)
EndAtExpiry(r) == r.expires

(* Until when the nonce of a request is kept.                              *)
KeptUntil(r) == r.expires + SKEW

(* A verification ends, refused or accepted.                               *)
Refuse(d, r, start, keys, why) ==
  /\ delivery' = [delivery EXCEPT ![d] = Verify(why, r, start, keys)]
  /\ UNCHANGED accepted

Accept(d, r, start, keys) ==
  /\ delivery' = [delivery EXCEPT ![d] = Verify("accepted", r, start, keys)]
  /\ accepted' = Append(accepted, d)

(* Slip: the nonce is remembered before the signature is verified.         *)
FinishNonceFirst(d, r, start, keys) ==
  \/ /\ r.key \notin keys
     /\ Refuse(d, r, start, keys, "unpublished")
     /\ UNCHANGED storeVars
  \/ /\ r.key \in keys /\ r.nonce = NoNonce
     /\ IF Forged(r) THEN Refuse(d, r, start, keys, "signature")
        ELSE Accept(d, r, start, keys)
     /\ UNCHANGED storeVars
  \/ /\ r.key \in keys /\ r.nonce # NoNonce
     /\ IF Known(r.nonce, now) THEN Refuse(d, r, start, keys, "replayed")
        ELSE IF Forged(r) THEN Refuse(d, r, start, keys, "signature")
        ELSE Accept(d, r, start, keys)
     /\ seen(r.nonce, KeptUntil(r), now)

(* What follows once the keys are there, without an await: the key is      *)
(* looked for, the signature verified and the nonce remembered.            *)
Finish(d, r, start, keys) ==
  \/ /\ r.key \notin keys
     /\ Refuse(d, r, start, keys, "unpublished")
     /\ UNCHANGED storeVars
  \/ /\ r.key \in keys /\ Forged(r)
     /\ Refuse(d, r, start, keys, "signature")
     /\ UNCHANGED storeVars
  \/ /\ r.key \in keys /\ ~Forged(r) /\ r.nonce = NoNonce
     /\ Accept(d, r, start, keys)
     /\ UNCHANGED storeVars
  \/ /\ r.key \in keys /\ ~Forged(r) /\ r.nonce # NoNonce
     /\ IF Known(r.nonce, now) THEN Refuse(d, r, start, keys, "replayed")
        ELSE Accept(d, r, start, keys)
     /\ seen(r.nonce, KeptUntil(r), now)

(* A request arrives and fails a check that needs no key.                  *)
RefuseAtOnce(d, r) ==
  /\ delivery[d].stage = "none"
  /\ \/ Malformed(r) /\ Refuse(d, r, now, {}, "form")
     \/ ~Malformed(r) /\ ~InTime(r) /\ Refuse(d, r, now, {}, "time")
  /\ UNCHANGED <<storeVars, now, published, listed, unlisted, jwks>>

(* A request arrives and the keys are cached: no await.                    *)
VerifyCached(d, r) ==
  /\ delivery[d].stage = "none"
  /\ ~Malformed(r) /\ InTime(r)
  /\ \E e \in Cached : Finish(d, r, now, e.keys)
  /\ UNCHANGED <<now, published, listed, unlisted, jwks>>

(* A request arrives and they are not: the directory is asked.             *)
Fetch(d, r) ==
  /\ delivery[d].stage = "none"
  /\ ~Malformed(r) /\ InTime(r)
  /\ Cached = {}
  /\ delivery' = [delivery EXCEPT ![d] = Verify("fetch", r, now, {})]
  /\ UNCHANGED <<storeVars, now, published, listed, unlisted, jwks, accepted>>

(* The directory answers with the keys it lists.                           *)
Answer(d) ==
  LET q == delivery[d] IN
  /\ q.stage = "fetch"
  /\ delivery' = [delivery EXCEPT ![d] = Verify("answer", q.request, q.t, published)]
  /\ UNCHANGED <<storeVars, now, published, listed, unlisted, jwks, accepted>>

(* Slip: the answer is added to what was cached before.                    *)
StoreMerged(d) ==
  LET q == delivery[d]
      keys == q.keys \cup UNION {e.keys : e \in jwks}
  IN
  /\ q.stage = "answer"
  /\ jwks' = {[until |-> now + TTL, keys |-> keys]}
  /\ Finish(d, q.request, q.t, keys)
  /\ UNCHANGED <<now, published, listed, unlisted>>

(* The answer has arrived; it is cached for TTL from now on.               *)
Store(d) ==
  LET q == delivery[d] IN
  /\ q.stage = "answer"
  /\ jwks' = {[until |-> now + TTL, keys |-> q.keys]}
  /\ Finish(d, q.request, q.t, q.keys)
  /\ UNCHANGED <<now, published, listed, unlisted>>

(* The directory is unreachable, answers with an error, too much or no     *)
(* JWKS.                                                                   *)
FetchFails(d) ==
  LET q == delivery[d] IN
  /\ q.stage \in Waiting
  /\ Refuse(d, q.request, q.t, {}, "unreachable")
  /\ UNCHANGED <<storeVars, now, published, listed, unlisted, jwks>>

(* The directory lists other keys from now on.                             *)
Publish(keys) ==
  /\ keys # published
  /\ published' = keys
  /\ listed' = [k \in Key |-> IF k \in published \cup keys THEN now ELSE listed[k]]
  /\ unlisted' = [k \in Key |-> IF k \in published \cap keys THEN unlisted[k] ELSE now]
  /\ UNCHANGED <<storeVars, now, jwks, delivery, accepted>>

(* Time passes; no verification takes longer than Latency.                 *)
Tick ==
  /\ now < MaxTime
  /\ \A d \in Delivery : delivery[d].stage \in Waiting => now < delivery[d].t + Latency
  /\ now' = now + 1
  /\ UNCHANGED <<storeVars, published, listed, unlisted, jwks, delivery, accepted>>

Next ==
  \/ \E d \in Delivery, r \in Request : RefuseAtOnce(d, r) \/ VerifyCached(d, r) \/ Fetch(d, r)
  \/ \E d \in Delivery : Answer(d) \/ Store(d) \/ FetchFails(d)
  \/ \E keys \in Listing : Publish(keys)
  \/ Tick

Spec == Init /\ [][Next]_vars

-----------------------------------------------------------------------------

TypeOK ==
  /\ StoreTypeOK
  /\ now \in Time
  /\ published \subseteq Key
  /\ listed \in [Key -> Time \cup {-1}]
  /\ unlisted \in [Key -> Time \cup {-1}]
  /\ jwks \subseteq Entry /\ Cardinality(jwks) <= 1
  /\ delivery \in [Delivery -> Verification]
  /\ accepted \in Seq(Delivery) /\ IsInjective(accepted)

(* The last moment a request is in time.                                   *)
End(r) == r.expires + SKEW

(* The pairs of acceptances with one nonce, the earlier one first.         *)
Repeats ==
  {p \in (1 .. Len(accepted)) \X (1 .. Len(accepted)) :
     LET n == delivery[accepted[p[1]]].request.nonce IN
     p[1] < p[2] /\ n # NoNonce /\ n = delivery[accepted[p[2]]].request.nonce}

(* A nonce is accepted once, but for two cases: a full store made it give  *)
(* way, or it is accepted again when the time of the request it came with  *)
(* is over, skew included, by the clock of the store                       *)
(* (verifier.py:164-175, 307-311, 341).                                    *)
NonceAcceptedOnce ==
  \A p \in Repeats :
    LET first == delivery[accepted[p[1]]] IN
    first.request.nonce \in forgotten \/ delivery[accepted[p[2]]].end >= End(first.request)

(* A request is refused as a replay only when one with its nonce has been  *)
(* accepted, within its time: one that is refused, such as a damaged copy  *)
(* that arrives first, uses no nonce up (verifier.py:335-342).             *)
RefusedForAnAcceptance ==
  \A d \in Delivery : delivery[d].stage = "replayed" =>
    \E i \in DOMAIN accepted :
      LET first == delivery[accepted[i]] IN
      /\ first.request.nonce = delivery[d].request.nonce
      /\ first.end <= delivery[d].end
      /\ delivery[d].end < End(first.request)

LastListed(k) == IF k \in published THEN now ELSE listed[k]
LastUnlisted(k) == IF k \in published THEN unlisted[k] ELSE now
Ends(d, outcome) == delivery[d].stage # outcome /\ delivery'[d].stage = outcome

(* How late a rotation can show: a request is accepted only if its key was *)
(* listed less than TTL and a request's time ago, and refused for its key  *)
(* only if that was not listed then (verifier.py:205-237, 266-274).        *)
AcceptedKeyWasListed ==
  [][\A d \in Delivery : Ends(d, "accepted") =>
       LET k == delivery'[d].request.key IN
       LastListed(k) >= 0 /\ now < LastListed(k) + TTL + Latency]_vars

RefusedKeyWasNotListed ==
  [][\A d \in Delivery : Ends(d, "unpublished") =>
       LET k == delivery'[d].request.key IN
       LastUnlisted(k) >= 0 /\ now < LastUnlisted(k) + TTL + Latency]_vars

=============================================================================
