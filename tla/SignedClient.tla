---------------------------- MODULE SignedClient ----------------------------
(***************************************************************************)
(* HTTP clients that sign what they send: the adapters for httpx and       *)
(* requests in python/src/wbauth/adapters, with sign() of signer.py, and   *)
(* PolicyGuard in front of one of them; and createSignedFetch of           *)
(* typescript/src/adapters/fetch.ts.                                       *)
(*                                                                         *)
(* A call is a chain of hops: the library follows redirects, copying the   *)
(* headers of the hop before, and the application may send the same        *)
(* request object again.  Which hops wbauth signs depends on its form:     *)
(*   transport  signed_async_client with a policy guard, every hop;        *)
(*   session    signed_session, every hop, no guard;                       *)
(*   auth       httpx with auth=WebBotAuth, the first hop of a call;       *)
(*   fetch      createSignedFetch, which follows redirects itself.         *)
(* The guard is modelled for the origin Site, whose slots calls share with *)
(* the other tasks of PolicyGuard; any other origin may be waited for as   *)
(* long as it takes.  Bodies are read at once.                             *)
(***************************************************************************)
EXTENDS PolicyGuard

CONSTANTS
  Caller,    (* the tasks whose hops are followed                          *)
  Origin,
  Secure,    (* the origins reached by https                               *)
  Allowed,   (* the origins that `hosts` names                             *)
  Site,
  None,      (* no signature                                               *)
  EXPIRES,   (* DEFAULT_EXPIRES_SECONDS                                    *)
  REDIRECTS  (* max_redirects of the library                               *)

ASSUME CallerAssumption == Caller \subseteq Request
ASSUME OriginAssumption == Site \in Origin
ASSUME HopAssumption == EXPIRES \in Nat /\ REDIRECTS \in Nat

VARIABLE hop   (* per caller: the hop its call is at                       *)

clientVars == <<vars, hop>>

Form == {"transport", "session", "auth", "fetch"}

(* The Content-Digest header: absent, that of the body by sha-256 or by    *)
(* another algorithm, or that of another body.                             *)
Digest == {"absent", "right", "other", "stale"}

(* A signature: the origin and the digest it was made for, its age (up to  *)
(* one more than it is valid), and whether it has been sent.               *)
Signature == [origin : Origin, digest : Digest, age : 0 .. EXPIRES + 1, sent : BOOLEAN]

ASSUME NoneAssumption == None \notin Signature

(* A hop: between calls, before it is sent, sent, or answered to the       *)
(* caller; its headers, and the digest the caller gave; the redirects      *)
(* left; whether a signature has gone astray in its call, and whether the  *)
(* caller has been warned.                                                 *)
Hop == [at : {"none", "go", "wire", "done"}, form : Form, origin : Origin, body : BOOLEAN,
        digest : Digest, own : Digest, sig : Signature \cup {None}, left : 0 .. REDIRECTS,
        stray : BOOLEAN, warned : BOOLEAN]

NoHop == [at |-> "none", form |-> "session", origin |-> Site, body |-> FALSE,
          digest |-> "absent", own |-> "absent", sig |-> None, left |-> 0,
          stray |-> FALSE, warned |-> FALSE]

-----------------------------------------------------------------------------

(* Is this origin among those to sign for?                                 *)
host_matches(o) == o \in Allowed
decide(o) == o \in Secure /\ host_matches(o)

(* Slip: a digest that is there is taken for the body's.                   *)
DigestKept(h) ==
  IF h.body /\ h.digest = "absent" THEN [h EXCEPT !.digest = "right"] ELSE h

(* A body gets its digest; the caller's own stays if it is right, or of    *)
(* another algorithm.                                                      *)
ensure_content_digest(h) ==
  IF h.body /\ h.digest # "other" THEN [h EXCEPT !.digest = "right"] ELSE h

(* The digest a signature covers: that of the body, if there is one.       *)
components_for(h) == IF h.body THEN h.digest ELSE "absent"

(* A new signature.                                                        *)
sign_fast(h) == [origin |-> h.origin, digest |-> components_for(h), age |-> 0, sent |-> FALSE]

(* Slip: what is signed for its origin already is left alone.              *)
SignOnce(h) ==
  IF h.sig # None /\ h.sig.origin = h.origin THEN h ELSE [h EXCEPT !.sig = sign_fast(h)]

(* It takes the place of whatever was signed before.                       *)
sign(h) == [h EXCEPT !.sig = sign_fast(h)]

(* The headers of a hop that is to be signed.                              *)
sign_request(h) == sign(ensure_content_digest(h))

strip(h) == [h EXCEPT !.sig = None]

(* Slip: a hop that is not signed keeps the headers it has.                *)
PrepareOnly(h) == IF decide(h.origin) THEN sign_request(h) ELSE h

Prepare(h) == IF decide(h.origin) THEN sign_request(h) ELSE strip(h)

(* The form auth prepares the first hop only.                              *)
First(h) == h.left = REDIRECTS
Signs(h) == h.form # "auth" \/ First(h)
Stray(h) == h.sig # None /\ h.sig.origin # h.origin

(* The hop is prepared and sent; nothing but the signing is awaited        *)
(* between the two.                                                        *)
Sent(h) ==
  LET g == IF Signs(h) THEN Prepare(h) ELSE h IN
  [g EXCEPT !.at = "wire", !.stray = @ \/ Stray(g)]

(* The hop that follows in createSignedFetch, which prepares a copy of the *)
(* headers it was given and drops those of a body that it drops.           *)
Refetched(h, o, body, left) ==
  LET own == IF h.body /\ ~body THEN "absent" ELSE h.own IN
  [h EXCEPT !.at = "go", !.origin = o, !.body = body, !.left = left,
            !.digest = own, !.own = own, !.sig = None]

(* The hop that follows in a library: the same headers to the origin o,    *)
(* with the body (307, 308, or a request sent again) or without it (303).  *)
After(h, o, body, left) ==
  [h EXCEPT !.at = "go", !.origin = o, !.body = body, !.left = left,
            !.digest = IF h.body /\ ~body /\ @ = "right" THEN "stale" ELSE @,
            !.sig = IF @ = None THEN None ELSE [@ EXCEPT !.sent = TRUE]]

(* The hop that follows a redirect.                                        *)
Redirected(h, o, body, left) ==
  IF h.form = "fetch" THEN Refetched(h, o, body, left) ELSE After(h, o, body, left)

-----------------------------------------------------------------------------

ClientInit == Init /\ hop = [r \in Caller |-> NoHop]

Guarded(h) == h.form = "transport" /\ h.origin = Site

(* The caller r is about to send the hop h: a guarded one is checked.      *)
Go(r, h) ==
  /\ now < Closing
  /\ hop' = [hop EXCEPT ![r] = h]
  /\ IF Guarded(h) THEN Begin(r) ELSE UNCHANGED vars

(* The application sends a request, with the headers it likes.             *)
Call(r) ==
  /\ hop[r].at \in {"none", "done"}
  /\ \E form \in Form, o \in Origin, body \in BOOLEAN, digest \in Digest :
       /\ body \/ digest = "absent"
       /\ Go(r, [NoHop EXCEPT !.at = "go", !.form = form, !.origin = o, !.body = body,
                              !.digest = digest, !.own = digest, !.left = REDIRECTS])

Passes(r) == hop' = [hop EXCEPT ![r] = Sent(@)]

(* The guard lets a request go on, and a caller's hop is sent then.        *)
OutOfGuard(r) ==
  IF r \in Caller /\ request'[r] = Idle THEN Passes(r) ELSE UNCHANGED hop

GuardCheck(r) == (\E d \in Delay : Send(r, d) \/ WaitTurn(r, d)) /\ OutOfGuard(r)
GuardResume(r) == Resume(r) /\ OutOfGuard(r)
GuardWake(r) == Wake(r) /\ OutOfGuard(r)

(* Hops that Site does not guard are sent when their time has come.        *)
Unguarded(r) ==
  /\ hop[r].at = "go" /\ ~Guarded(hop[r])
  /\ Passes(r)
  /\ UNCHANGED vars

(* A redirect is followed.                                                 *)
Redirect(r) ==
  /\ hop[r].at = "wire" /\ hop[r].left > 0
  /\ \E o \in Origin, body \in {FALSE, hop[r].body} :
       Go(r, Redirected(hop[r], o, body, hop[r].left - 1))

(* The application sends the same request object once more.  A fetch is    *)
(* given none that it changes.                                             *)
Again(r) ==
  /\ hop[r].at = "wire" /\ hop[r].form # "fetch"
  /\ Go(r, [After(hop[r], hop[r].origin, hop[r].body, REDIRECTS) EXCEPT !.stray = FALSE])

Over(h, warned) ==
  [NoHop EXCEPT !.at = "done", !.form = h.form, !.stray = h.stray, !.warned = warned]

(* Slip: the warning is for responses of the first hop.                    *)
AnswerUnwarned(r) ==
  /\ hop[r].at = "wire"
  /\ hop' = [hop EXCEPT ![r] = Over(@, FALSE)]
  /\ UNCHANGED vars

(* The response is the caller's; the form auth looks at its history.       *)
Answer(r) ==
  /\ hop[r].at = "wire"
  /\ hop' = [hop EXCEPT ![r] = Over(@, hop[r].form = "auth" /\ ~First(hop[r]))]
  /\ UNCHANGED vars

Ends(r) == IF r \in Caller THEN hop' = [hop EXCEPT ![r] = NoHop] ELSE UNCHANGED hop

(* The call ends with an error: forbidden by the policy, cancelled, too    *)
(* many redirects, no connection.                                          *)
GuardRefuse(r) == Refuse(r) /\ Ends(r)
GuardCancel(r) == Cancel(r) /\ Ends(r)

Fail(r) ==
  /\ hop[r].at \in {"go", "wire"} /\ request[r] = Idle
  /\ hop' = [hop EXCEPT ![r] = NoHop]
  /\ UNCHANGED vars

Older(h) ==
  IF h.sig = None THEN h ELSE [h EXCEPT !.sig.age = Smaller(@ + 1, EXPIRES + 1)]

ClientTick == Tick /\ hop' = [r \in Caller |-> Older(hop[r])]

GuardStep(r) == GuardCheck(r) \/ GuardRefuse(r) \/ GuardResume(r) \/ GuardWake(r)

ClientNext ==
  \/ \E r \in Request \ Caller : Begin(r) /\ UNCHANGED hop
  \/ \E r \in Request : GuardStep(r) \/ GuardCancel(r)
  \/ \E r \in Caller : Call(r) \/ Unguarded(r) \/ Redirect(r) \/ Again(r) \/ Answer(r) \/ Fail(r)
  \/ ClientTick

(* That of PolicyGuard.  Nothing is assumed of the library: requests has   *)
(* no timeout unless it is given one.                                      *)
ClientFairness ==
  /\ \A r \in Request :
       /\ WF_clientVars(GuardCheck(r) \/ GuardRefuse(r))
       /\ WF_clientVars(GuardResume(r)) /\ WF_clientVars(GuardWake(r))
  /\ WF_clientVars(ClientTick)

ClientSpec == ClientInit /\ [][ClientNext]_clientVars /\ ClientFairness

-----------------------------------------------------------------------------

(* The guard's variables keep their types, a caller is in the guard only   *)
(* before a hop to Site, and no signature is older than it can be.         *)
ClientTypeOK ==
  /\ TypeOK
  /\ hop \in [Caller -> Hop]
  /\ \A r \in Caller : request[r] # Idle => hop[r].at = "go" /\ Guarded(hop[r])

Sends(r) == hop[r].at = "go" /\ hop'[r].at = "wire"

(* Whatever headers a redirect or a second try left on it, and however     *)
(* long the guard held it, a hop to an origin in scope carries a signature *)
(* of its own: for this origin, for the digest of the body it has if it    *)
(* has one, sent never before and within its time (signer.py:216-241,      *)
(* _utils.py:38-44, guard.py:95-97).                                       *)
SignedHopsFit ==
  [][\A r \in Caller : Sends(r) /\ Signs(hop[r]) =>
       LET h == hop'[r] IN decide(h.origin) =>
         /\ h.sig # None
         /\ h.sig.origin = h.origin
         /\ h.sig.digest \in (IF h.body THEN {"right", "other"} ELSE {"absent"})
         /\ ~h.sig.sent /\ h.sig.age <= EXPIRES]_clientVars

(* A hop to any other origin carries no signature, made for it or for the  *)
(* one before (httpx_auth.py:116-121, requests_adapter.py:75-77).          *)
OtherHopsBare ==
  [][\A r \in Caller : Sends(r) /\ Signs(hop[r]) /\ ~decide(hop'[r].origin) =>
       hop'[r].sig = None]_clientVars

(* A signature goes to another origin than it was made for only in the     *)
(* form auth, and the caller who gets a response is told so                *)
(* (httpx_auth.py:12-19, 96-104).                                          *)
StrayHopsWarned ==
  \A r \in Caller : hop[r].stray =>
    hop[r].form = "auth" /\ (hop[r].at = "done" => hop[r].warned)

=============================================================================
