---------------------------- MODULE Registration ----------------------------
(***************************************************************************)
(* Registering a key with the directory: POST /register/challenge and      *)
(* POST /register/submit (directory/src/routes/register.ts), over the D1   *)
(* tables registration_challenges, agents and ratelimit.                   *)
(*                                                                         *)
(* A slot of RateLimit is one HTTP request; its handler runs concurrently  *)
(* with all the others, one atomic step from await to await: each D1       *)
(* statement or batch, the fetch of the claimed URL, each reading of the   *)
(* clock that is used after an await.  A body is chosen freely, so the     *)
(* slots hold retries and duplicates of one another too.                   *)
(*                                                                         *)
(* The nonce of a challenge is 128 random bits, so it is identified with   *)
(* the request that had it made.  A key is identified with its thumbprint; *)
(* a body whose kid is not the thumbprint of its key has a flaw.           *)
(***************************************************************************)
EXTENDS RateLimit, DomainOwnership

CONSTANTS
  Body,   (* what submits may carry, their challenge aside                 *)
  TTL     (* CHALLENGE_TTL_SECONDS                                         *)

BodyFlaw == {"reserved_name", "kid_not_thumbprint"}
HeaderFlaw == {"duplicate_kid", "content_digest_not_signed",
               "content_digest_mismatch", "signature_agent_mismatch"}

(* `signer` is the key the request's signature verifies under, as keyid;   *)
(* `flaw` a defect of the body or its headers that one local check finds.  *)
ASSUME BodyAssumption ==
  Body \subseteq [kid : Kid, keys : SUBSET Kid, signer : Kid, url : Url,
                flaw : BodyFlaw \cup HeaderFlaw \cup {"none"}]
ASSUME TTLAssumption == TTL \in Nat

VARIABLES
  pc,          (* per slot: the await the handler is at                     *)
  request,     (* per slot: the request's body and the key that signed it   *)
  at,          (* per slot: the handler's `now`                             *)
  unproven,    (* per slot: extra keys whose possession is still to be shown *)
  won,         (* per slot: it consumed its challenge                       *)
  seen,        (* per slot: what the claimed URL answered                   *)
  reply,       (* per slot: the HTTP status answered, 0 while there is none *)
  challenges,  (* the rows of registration_challenges                       *)
  agents       (* the rows of agents, by kid                                *)

vars == <<limitVars, pc, request, at, unproven, won, seen, reply, challenges, agents>>

-----------------------------------------------------------------------------

(* `nonce` is the challenge a submit quotes, its own slot for a made-up    *)
(* one.                                                                    *)
Request == [kid : Kid, keys : SUBSET Kid, signer : Kid, url : Url,
            flaw : BodyFlaw \cup HeaderFlaw \cup {"none"}, nonce : Slot]
Quoting(b, n) == [kid |-> b.kid, keys |-> b.keys, signer |-> b.signer, url |-> b.url,
                  flaw |-> b.flaw, nonce |-> n]
NoRequest == [flaw |-> "none"]

Challenge == [nonce : Slot, kid : Kid, expires_at : Nat]

AgentRow == [keys : SUBSET Kid, url : Url, created_at : Nat,
             last_updated : Nat, domain_verified : BOOLEAN]

Registered == DOMAIN agents
Published == [k \in Kid |-> IF k \in Registered THEN agents[k].keys ELSE {}]

Extra(r) == r.keys \ {r.kid}

(* The handler of s goes on to its next await, or answers.                 *)
Goto(s, next) ==
  /\ pc' = [pc EXCEPT ![s] = next]
  /\ UNCHANGED reply
Respond(s, status) ==
  /\ pc' = [pc EXCEPT ![s] = "done"]
  /\ reply' = [reply EXCEPT ![s] = status]

-----------------------------------------------------------------------------

Init ==
  /\ LimitInit
  /\ pc = [s \in Slot |-> "none"]
  /\ request = [s \in Slot |-> NoRequest]
  /\ at = [s \in Slot |-> 0]
  /\ unproven = [s \in Slot |-> {}]
  /\ won = [s \in Slot |-> FALSE]
  /\ seen = [s \in Slot |-> NoAnswer]
  /\ reply = [s \in Slot |-> 0]
  /\ challenges = {}
  /\ agents = [k \in {} |-> {}]

(* A request arrives and asks for its share of the daily budget.           *)
Arrive(s, scope, a) ==
  /\ pc[s] = "none"
  /\ BeginCall(s, scope, a)
  /\ Goto(s, "gate")
  /\ UNCHANGED <<at, unproven, won, seen, challenges, agents>>

ArriveChallenge(s, a) ==
  /\ Arrive(s, "challenge", a)
  /\ \E k \in Kid :
       request' = [request EXCEPT ![s] =
                     [kid |-> k, keys |-> {}, signer |-> k, url |-> Hosted(k),
                      flaw |-> "none", nonce |-> s]]

(* The sender of a submit can quote a challenge only once it has seen it.  *)
ArriveSubmit(s, a) ==
  /\ Arrive(s, "submit", a)
  /\ \E b \in Body, n \in Slot :
       /\ n # s => call[n].scope = "challenge" /\ reply[n] = 200
       /\ request' = [request EXCEPT ![s] = Quoting(b, n)]

(* The budget check answers.                                               *)
PassGate(s) ==
  /\ pc[s] = "gate"
  /\ CountCall(s)
  /\ \/ call'[s].stage = "refused" /\ Respond(s, 429)
     \/ /\ call'[s].stage = "allowed"
        /\ Goto(s, IF call[s].scope = "challenge" THEN "mint" ELSE "body")
  /\ UNCHANGED <<request, at, unproven, won, seen, challenges, agents>>

-----------------------------------------------------------------------------
(* POST /register/challenge                                                *)

(* The nonce is drawn and its expiry fixed.                                *)
MintChallenge(s) ==
  /\ pc[s] = "mint"
  /\ at' = [at EXCEPT ![s] = clock]
  /\ Goto(s, "insert")
  /\ UNCHANGED <<limitVars, request, unproven, won, seen, challenges, agents>>

(* Slip: one pending challenge per kid, as in the first schema.            *)
InsertChallengePerKid(s) ==
  /\ pc[s] = "insert"
  /\ challenges' = {c \in challenges : c.expires_at >= at[s] /\ c.kid # request[s].kid}
                     \cup {[nonce |-> s, kid |-> request[s].kid,
                            expires_at |-> at[s] + TTL]}
  /\ Respond(s, 200)
  /\ UNCHANGED <<limitVars, request, at, unproven, won, seen, agents>>

(* The batch: expired challenges are deleted, this one is inserted.        *)
InsertChallenge(s) ==
  /\ pc[s] = "insert"
  /\ challenges' = {c \in challenges : c.expires_at >= at[s]}
                     \cup {[nonce |-> s, kid |-> request[s].kid,
                            expires_at |-> at[s] + TTL]}
  /\ Respond(s, 200)
  /\ UNCHANGED <<limitVars, request, at, unproven, won, seen, agents>>

-----------------------------------------------------------------------------
(* POST /register/submit                                                   *)

(* Reserved names, thumbprints, and the registering key among the keys.    *)
CheckBody(s) ==
  LET r == request[s] IN
  /\ pc[s] = "body"
  /\ IF r.flaw = "reserved_name" THEN Respond(s, 422)
     ELSE IF r.flaw = "kid_not_thumbprint" \/ r.kid \notin r.keys THEN Respond(s, 400)
     ELSE Goto(s, IF Extra(r) = {} THEN "headers" ELSE "previous")
  /\ UNCHANGED <<limitVars, request, at, unproven, won, seen, challenges, agents>>

(* The extra keys that were in this kid's previous registration are proven. *)
ReadPrevious(s) ==
  LET r == request[s] IN
  /\ pc[s] = "previous"
  /\ unproven' = [unproven EXCEPT ![s] = Extra(r) \ Published[r.kid]]
  /\ Goto(s, IF unproven'[s] = {} THEN "headers" ELSE "own")
  /\ UNCHANGED <<limitVars, request, at, won, seen, challenges, agents>>

(* Slip: a key that has no row of its own is not refused.                  *)
ReadOwnIfRegistered(s) ==
  /\ pc[s] = "own"
  /\ unproven' = [unproven EXCEPT ![s] = {}]
  /\ Goto(s, "headers")
  /\ UNCHANGED <<limitVars, request, at, won, seen, challenges, agents>>

(* Any other one must be a registered agent's own key.                     *)
ReadOwn(s) ==
  /\ pc[s] = "own"
  /\ \E k \in unproven[s] :
       \/ /\ k \in Published[k]
          /\ unproven' = [unproven EXCEPT ![s] = @ \ {k}]
          /\ Goto(s, IF unproven'[s] = {} THEN "headers" ELSE "own")
       \/ /\ k \notin Published[k]
          /\ Respond(s, 400)
          /\ UNCHANGED unproven
  /\ UNCHANGED <<limitVars, request, at, won, seen, challenges, agents>>

(* Duplicate keys, the digest and Signature-Agent are checked; then the    *)
(* handler takes the time it judges the challenge by and registers with.   *)
CheckHeaders(s) ==
  /\ pc[s] = "headers"
  /\ IF request[s].flaw \in HeaderFlaw
       THEN Respond(s, 400) /\ UNCHANGED at
       ELSE Goto(s, "select") /\ at' = [at EXCEPT ![s] = clock]
  /\ UNCHANGED <<limitVars, request, unproven, won, seen, challenges, agents>>

(* Slip: expiry is left to the cleanup of the next challenge.              *)
UsableAtAnyAge(s) ==
  \E c \in challenges : c.nonce = request[s].nonce /\ c.kid = request[s].kid

(* The challenge is looked up, then the signature is verified.             *)
Usable(s) ==
  \E c \in challenges : /\ c.nonce = request[s].nonce
                        /\ c.kid = request[s].kid
                        /\ c.expires_at >= at[s]

SelectChallenge(s) ==
  /\ pc[s] = "select"
  /\ IF ~Usable(s) THEN Respond(s, 400)
     ELSE IF request[s].signer # request[s].kid THEN Respond(s, 401)
     ELSE Goto(s, "consume")
  /\ UNCHANGED <<limitVars, request, at, unproven, won, seen, challenges, agents>>

(* DELETE ... RETURNING: whoever finds the row has the challenge.          *)
QuotedBy(s) ==
  {c \in challenges : c.nonce = request[s].nonce /\ c.kid = request[s].kid}

(* Slip: the row is deleted, but nobody looks whether it was there.        *)
ConsumeUnchecked(s) ==
  /\ pc[s] = "consume"
  /\ Goto(s, "domain")
  /\ won' = [won EXCEPT ![s] = TRUE]
  /\ challenges' = challenges \ QuotedBy(s)
  /\ UNCHANGED <<limitVars, request, at, unproven, seen, agents>>

ConsumeChallenge(s) ==
  /\ pc[s] = "consume"
  /\ IF QuotedBy(s) = {}
       THEN Respond(s, 409) /\ UNCHANGED won
       ELSE Goto(s, "domain") /\ won' = [won EXCEPT ![s] = TRUE]
  /\ challenges' = challenges \ QuotedBy(s)
  /\ UNCHANGED <<limitVars, request, at, unproven, seen, agents>>

(* The claimed URL is asked for the key.                                   *)
AskDomain(s) ==
  /\ pc[s] = "domain"
  /\ \E a \in AnswersAt(request[s].url, Published) : seen' = [seen EXCEPT ![s] = a]
  /\ Goto(s, "upsert")
  /\ UNCHANGED <<limitVars, request, at, unproven, won, challenges, agents>>

(* INSERT ... ON CONFLICT(kid) DO UPDATE: everything but created_at.       *)
(* Slip: a verified domain stays verified when the URL changes.            *)
NewRowStaysVerified(s) ==
  LET r == request[s] IN
  [keys |-> r.keys, url |-> r.url, last_updated |-> at[s],
   created_at |-> IF r.kid \in Registered THEN agents[r.kid].created_at ELSE at[s],
   domain_verified |-> \/ verifyDomainOwnership(r.url, r.kid, seen[s])
                       \/ r.kid \in Registered /\ agents[r.kid].domain_verified]

NewRow(s) ==
  LET r == request[s] IN
  [keys |-> r.keys, url |-> r.url, last_updated |-> at[s],
   created_at |-> IF r.kid \in Registered THEN agents[r.kid].created_at ELSE at[s],
   domain_verified |-> verifyDomainOwnership(r.url, r.kid, seen[s])]

UpsertAgent(s) ==
  /\ pc[s] = "upsert"
  /\ agents' = [k \in Registered \cup {request[s].kid} |->
                  IF k = request[s].kid THEN NewRow(s) ELSE agents[k]]
  /\ Goto(s, "drop")
  /\ UNCHANGED <<limitVars, request, at, unproven, won, seen, challenges>>

(* Slip: the status of a plain success.                                    *)
DropChallengesOK(s) ==
  /\ pc[s] = "drop"
  /\ challenges' = {c \in challenges : c.kid # request[s].kid}
  /\ Respond(s, 200)
  /\ UNCHANGED <<limitVars, request, at, unproven, won, seen, agents>>

(* The kid's remaining challenges are deleted.  The cache purge the handler *)
(* then starts is a step of module EdgeCache.                              *)
DropChallenges(s) ==
  /\ pc[s] = "drop"
  /\ challenges' = {c \in challenges : c.kid # request[s].kid}
  /\ Respond(s, 201)
  /\ UNCHANGED <<limitVars, request, at, unproven, won, seen, agents>>

(* A statement fails or the worker is stopped: the handler goes no further *)
(* and what it had written stays.                                          *)
Fail(s) ==
  /\ pc[s] \notin {"none", "done"}
  /\ Respond(s, 500)
  /\ \/ pc[s] = "gate" /\ FailCall(s)
     \/ pc[s] # "gate" /\ UNCHANGED limitVars
  /\ UNCHANGED <<request, at, unproven, won, seen, challenges, agents>>

-----------------------------------------------------------------------------

Handle(s) ==
  \/ PassGate(s) \/ MintChallenge(s) \/ InsertChallenge(s)
  \/ CheckBody(s) \/ ReadPrevious(s) \/ ReadOwn(s) \/ CheckHeaders(s)
  \/ SelectChallenge(s) \/ ConsumeChallenge(s) \/ AskDomain(s)
  \/ UpsertAgent(s) \/ DropChallenges(s)

TimePasses ==
  /\ Tick
  /\ UNCHANGED <<pc, request, at, unproven, won, seen, reply, challenges, agents>>

Next ==
  \/ \E s \in Slot, a \in Address : ArriveChallenge(s, a) \/ ArriveSubmit(s, a)
  \/ \E s \in Slot : Handle(s) \/ Fail(s)
  \/ TimePasses

Spec == Init /\ [][Next]_vars

-----------------------------------------------------------------------------

TypeOK ==
  /\ LimitTypeOK
  /\ pc \in [Slot -> {"none", "gate", "mint", "insert", "body", "previous", "own",
                      "headers", "select", "consume", "domain", "upsert", "drop", "done"}]
  /\ request \in [Slot -> Request \cup {NoRequest}]
  /\ \A s \in Slot : pc[s] # "none" => request[s] \in Request
  /\ at \in [Slot -> Nat]
  /\ unproven \in [Slot -> SUBSET Kid]
  /\ won \in [Slot -> BOOLEAN]
  /\ seen \in [Slot -> Answer]
  /\ reply \in [Slot -> {0, 200, 201, 400, 401, 409, 422, 429, 500}]
  /\ \A s \in Slot : reply[s] = 200 => call[s].scope = "challenge"
  /\ \A s \in Slot : reply[s] = 201 => won[s]
  /\ challenges \subseteq Challenge
  /\ Registered \subseteq Kid
  /\ agents \in [Registered -> AgentRow]

(* One challenge lets at most one submit through, however many quote it    *)
(* and however their steps interleave (register.ts:210-216).               *)
SingleUse ==
  \A s, t \in Slot : won[s] /\ won[t] /\ s # t => request[s].nonce # request[t].nonce

(* Whoever got through had asked for that challenge for that very kid, no  *)
(* more than TTL before it was judged, and signed with the kid's key       *)
(* (register.ts:184-216).                                                  *)
ChallengeHonoured ==
  \A s \in Slot : won[s] =>
    LET n == request[s].nonce IN
    /\ call[n].scope = "challenge"
    /\ request[n].kid = request[s].kid
    /\ at[n] <= at[s] /\ at[s] <= at[n] + TTL
    /\ request[s].signer = request[s].kid

(* The key k has signed a registration of its own that got through.        *)
Proven(k) == \E s \in Slot : won[s] /\ request[s].signer = k

(* Every key the directory publishes, in whichever agent's key set, was    *)
(* proven by its holder with a registration of its own, even when agents   *)
(* register and publish one another's keys concurrently (register.ts:126). *)
EveryPublishedKeyProven ==
  \A k \in Registered : \A j \in agents[k].keys : Proven(j)

(* A row of agents is one submit that got through, whole: no column stays  *)
(* from an earlier or a concurrent one, and it says domain_verified only   *)
(* if the row's own URL is the hosted one or showed the row's own key.     *)
(* (register.ts:226-264, domain.ts:79-138).                                *)
RowIsOneSubmit ==
  \A k \in Registered : \E s \in Slot :
    LET row == agents[k] IN
    /\ won[s]
    /\ request[s].kid = k
    /\ <<row.keys, row.url, row.last_updated>> = <<request[s].keys, request[s].url, at[s]>>
    /\ row.domain_verified =>
         \/ row.url = Hosted(k)
         \/ /\ ~isForbiddenHost(row.url)
            /\ seen[s].kind = "jwks" /\ k \in seen[s].keys

(* A challenge that has not expired goes away only when a submit signed    *)
(* with its kid's key got through: no request for another challenge and no *)
(* failed submit costs anyone a pending one (register.ts:11-12, 78-87).    *)
PendingChallengesSafe ==
  [][\A c \in challenges \ challenges' :
       \/ c.expires_at < clock
       \/ \E s \in Slot : /\ pc'[s] # pc[s] /\ won'[s]
                         /\ request[s].kid = c.kid /\ request[s].signer = c.kid]_vars

=============================================================================
