----------------------------- MODULE Middleware ------------------------------
(***************************************************************************)
(* WebBotAuthMiddleware around an ASGI application,                        *)
(* python/src/wbauth/verifier.py l.358-417: one request, whose messages    *)
(* come in as the client sends its body, or goes away.  The middleware     *)
(* takes the messages of a signed request before the application does,     *)
(* verifies what they add up to, and hands them on.                        *)
(*                                                                         *)
(* What the verifier finds apart from the body is an outcome, see Verifier *)
(* for it; it may take any time.                                           *)
(***************************************************************************)
EXTENDS Integers, SequencesExt, FiniteSetsExt

CONSTANTS
  Chunk,       (* the parts bodies are made of, of size 1                  *)
  MAX_BODY,    (* max_body                                                 *)
  MaxMessages  (* bound on the messages of a request                       *)

ASSUME BodyAssumption == MAX_BODY \in Nat /\ MaxMessages \in Nat

VARIABLES
  request,   (* what does not change: see Request                          *)
  sent,      (* the messages the server has had for it                     *)
  taken,     (* how many of them receive() has returned                    *)
  stage,     (* where the middleware is                                    *)
  messages,  (* those it holds                                             *)
  agent,     (* scope["state"]["web_bot_auth"] is an agent                 *)
  read       (* the messages the application has been given                *)

vars == <<request, sent, taken, stage, messages, agent, read>>

(* A part of the body, empty or not, with more to come or not; the client  *)
(* has gone away.                                                          *)
Message == [type : {"http.request"}, body : {<<>>} \cup {<<c>> : c \in Chunk}, more_body : BOOLEAN]
Disconnect == [type |-> "http.disconnect", body |-> <<>>, more_body |-> FALSE]

(* Whether it is an HTTP request, is signed, and has to be; the body that  *)
(* its Content-Digest was made for; whether its signature and the rest are *)
(* valid.                                                                  *)
Request == [http : BOOLEAN, signed : BOOLEAN, required : BOOLEAN, valid : BOOLEAN,
            digest : BoundedSeq(Chunk, MaxMessages)]

(* The body that messages add up to.                                       *)
Body(ms) == FlattenSeq([i \in DOMAIN ms |-> ms[i].body])

Init ==
  /\ request \in Request
  /\ sent = <<>> /\ taken = 0
  /\ stage = "call"
  /\ messages = <<>> /\ read = <<>>
  /\ agent = FALSE

(* The body has been sent, or the client is gone.                          *)
Ended(ms) == ms # <<>> /\ ~Last(ms).more_body

(* The server: another part of the body comes in, or the client leaves.    *)
Arrive(m) ==
  /\ Len(sent) < MaxMessages
  /\ m = Disconnect \/ ~Ended(sent)
  /\ sent' = Append(sent, m)
  /\ UNCHANGED <<request, taken, stage, messages, agent, read>>

(* __call__: what is not an HTTP request is not looked at, a signed one is *)
(* taken in, any other is rejected if it has to be signed.                 *)
Call ==
  /\ stage = "call"
  /\ stage' = CASE ~request.http -> "app"
                [] request.http /\ request.signed -> "buffer"
                [] OTHER -> IF request.required THEN "reject" ELSE "app"
  /\ UNCHANGED <<request, sent, taken, messages, agent, read>>

(* await receive(): one more message, until there is no more to come; too  *)
(* big a body is rejected, whether the request has to be signed or not.    *)
Buffer ==
  /\ stage = "buffer" /\ taken < Len(sent)
  /\ LET m == sent[taken + 1] IN
       /\ taken' = taken + 1
       /\ messages' = Append(messages, m)
       /\ stage' = IF Len(Body(Append(messages, m))) > MAX_BODY THEN "reject"
                   ELSE IF m.more_body THEN "buffer" ELSE "verify"
  /\ UNCHANGED <<request, sent, agent, read>>

(* Slip: the digest is compared with the body of the first message.        *)
VerifiesFirst(body) ==
  request.valid /\ (body = <<>> \/ request.digest = Body(<<Head(messages)>>))

(* verify(): a body, if there is one, has to match its Content-Digest.     *)
Verifies(body) == request.valid /\ (body = <<>> \/ request.digest = body)

(* await verify(): it is as it should be; or not, for one reason or        *)
(* another; or an error that is no VerificationError goes up to the server *)
Verify ==
  /\ stage = "verify"
  /\ \/ Verifies(Body(messages)) /\ agent' = TRUE /\ stage' = "app"
     \/ agent' = FALSE /\ stage' = IF request.required THEN "reject" ELSE "app"
     \/ agent' = FALSE /\ stage' = "error"
  /\ UNCHANGED <<request, sent, taken, messages, read>>

(* Slip: pop() without its index.                                          *)
ReplayLast ==
  /\ stage = "app" /\ messages # <<>>
  /\ read' = Append(read, Last(messages))
  /\ messages' = Front(messages)
  /\ UNCHANGED <<request, sent, taken, stage, agent>>

(* The application calls receive(): it is given what the middleware holds, *)
Replay ==
  /\ stage = "app" /\ messages # <<>>
  /\ read' = Append(read, Head(messages))
  /\ messages' = Tail(messages)
  /\ UNCHANGED <<request, sent, taken, stage, agent>>

(* and then what the server has.                                           *)
Receive ==
  /\ stage = "app" /\ messages = <<>> /\ taken < Len(sent)
  /\ read' = Append(read, sent[taken + 1])
  /\ taken' = taken + 1
  /\ UNCHANGED <<request, sent, stage, messages, agent>>

(* The application is done.                                                *)
Return ==
  /\ stage = "app"
  /\ stage' = "done"
  /\ UNCHANGED <<request, sent, taken, messages, agent, read>>

Next ==
  \/ \E m \in Message \cup {Disconnect} : Arrive(m)
  \/ Call \/ Buffer \/ Verify \/ Replay \/ Receive \/ Return

Spec == Init /\ [][Next]_vars

-----------------------------------------------------------------------------

(* The application is given the messages of the server, each once and in   *)
(* their order, whoever took them; and none is taken that it cannot be     *)
(* given (verifier.py:372-383, 405-408).                                   *)
MessagesInOrder ==
  /\ IsPrefix(read, sent)
  /\ stage = "app" => Len(read) + Len(messages) = taken

(* What an application that finds an agent reads is the body the agent has *)
(* made its digest for, or none at all: no other to begin with, no other   *)
(* at its end, none that is longer than allowed, also if the client leaves *)
(* early; and where a signature is required it finds one, or is not called *)
(* (verifier.py:376-403).                                                  *)
AgentVouches ==
  stage \in {"app", "done"} /\ request.http =>
    /\ agent => /\ IsPrefix(Body(read), request.digest) /\ Len(Body(read)) <= MAX_BODY
                /\ Ended(read) => Body(read) \in {<<>>, request.digest}
    /\ request.required => agent

=============================================================================
