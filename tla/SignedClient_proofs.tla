------------------------- MODULE SignedClient_proofs -------------------------
(***************************************************************************)
(* Proofs about SignedClient and the PolicyGuard in it, for any number of  *)
(* tasks, any delays, origins and redirects: the requests keep the pace,   *)
(* which is no slower than it has to be; and which hops are signed.        *)
(***************************************************************************)
EXTENDS SignedClient, SequenceTheorems, TLAPS

(* PolicyGuard without its fairness.                                       *)
GuardSafety == Init /\ [][Next]_vars

(* A request that waits keeps a delay.                                     *)
Waits(r) == request[r].stage \in {"queue", "sleep"}

GuardTypes ==
  /\ now \in Nat /\ nextSlot \in Nat
  /\ DOMAIN request = Request
  /\ \A r \in Request : Waits(r) => request[r].delay \in 1 .. MAX_DELAY
  /\ released \in Seq([at : Nat, delay : 1 .. MAX_DELAY])

(* A sleeper has a slot, and is not woken later than LATE; the slot is the *)
(* delay of the last request away from it, or less.                        *)
Slots ==
  /\ \A r \in Request : request[r].stage = "sleep" => nextSlot > 0 /\ now <= nextSlot + LATE
  /\ released = <<>> => nextSlot = 0
  /\ released # <<>> =>
       nextSlot <= released[Len(released)].at + released[Len(released)].delay

GuardInv == GuardTypes /\ Slots

LEMMA DelayForType ==
  ASSUME NEW d \in Delay PROVE DelayFor(d) \in 0 .. MAX_DELAY
BY DelayAssumption DEF DelayFor, Smaller, Larger

(* What sending a request in the slot s does.                              *)
LEMMA ReleaseKeeps ==
  ASSUME GuardInv, NEW r \in Request, NEW s \in nextSlot .. now, NEW d \in 1 .. MAX_DELAY,
         NEW line, Release(r, s, d, line), UNCHANGED now
  PROVE  GuardInv'
<1> DEFINE e == [at |-> now, delay |-> d]
<1>1. now \in Nat /\ nextSlot \in Nat /\ d \in Nat \ {0} /\ s \in Nat /\ s <= now /\ nextSlot <= s
  BY DelayAssumption DEF GuardInv, GuardTypes
<1>2. released \in Seq([at : Nat, delay : 1 .. MAX_DELAY]) /\ e \in [at : Nat, delay : 1 .. MAX_DELAY]
  BY <1>1 DEF GuardInv, GuardTypes
<1>3. released' = Append(released, e) BY DEF Release
<1>4. /\ released' \in Seq([at : Nat, delay : 1 .. MAX_DELAY]) /\ released' # <<>>
      /\ released'[Len(released')] = e
  BY <1>2, <1>3
<1>5. /\ DOMAIN request' = Request
      /\ \A q \in Request : q # r => request'[q] = request[q]
      /\ request'[r] = Idle
  BY DEF Release, Leave, GuardInv, GuardTypes
<1>6. nextSlot' = s + d BY DEF Release
<1>7. GuardTypes'
  <2>1. \A q \in Request : Waits(q)' => q # r /\ Waits(q) BY <1>5 DEF Waits, Idle
  <2>2. QED BY <1>1, <1>4, <1>5, <1>6, <2>1 DEF GuardInv, GuardTypes
<1>8. e.at = now /\ e.delay = d OBVIOUS
<1> HIDE DEF e
<1>9. Slots'
  <2>1. \A q \in Request : request'[q].stage = "sleep" => request[q].stage = "sleep"
    BY <1>5 DEF Idle
  <2>2. \A q \in Request : request'[q].stage = "sleep" => nextSlot' > 0 /\ now' <= nextSlot' + LATE
    BY <1>1, <1>6, <2>1, TimeAssumption DEF GuardInv, Slots
  <2>3. nextSlot' <= released'[Len(released')].at + released'[Len(released')].delay
    BY <1>1, <1>4, <1>6, <1>8
  <2>4. QED BY <1>4, <2>2, <2>3 DEF Slots
<1>10. QED BY <1>7, <1>9 DEF GuardInv

(* A request goes to another stage, and no time passes.                    *)
LEMMA StageKeeps ==
  ASSUME GuardInv, NEW r \in Request, NEW stage, NEW d, At(r, stage, d),
         stage \in {"queue", "sleep"} => d \in 1 .. MAX_DELAY,
         stage = "sleep" => nextSlot > now,
         UNCHANGED <<now, nextSlot, released>>
  PROVE  GuardInv'
<1>1. /\ DOMAIN request' = Request
      /\ \A q \in Request : q # r => request'[q] = request[q]
      /\ request'[r].stage = stage /\ request'[r].delay = d
  BY DEF At, GuardInv, GuardTypes
<1>2. GuardTypes' BY <1>1 DEF GuardInv, GuardTypes, Waits
<1>3. Slots' BY <1>1, TimeAssumption DEF GuardInv, GuardTypes, Slots
<1>4. QED BY <1>2, <1>3 DEF GuardInv

LEMMA HoldKeeps ==
  ASSUME GuardInv, NEW r \in Request, NEW d \in 1 .. MAX_DELAY, NEW line, Hold(r, d, line),
         UNCHANGED now
  PROVE  GuardInv'
<1>1. CASE nextSlot > now
  BY <1>1, StageKeeps DEF Hold
<1>2. CASE ~(nextSlot > now)
  <2>1. now \in nextSlot .. now BY <1>2 DEF GuardInv, GuardTypes
  <2>2. Release(r, now, d, line) BY <1>2 DEF Hold
  <2>3. QED BY <2>1, <2>2, ReleaseKeeps
<1>3. QED BY <1>1, <1>2

LEMMA GuardInvNext == ASSUME GuardInv, [Next]_vars PROVE GuardInv'
<1>1. CASE UNCHANGED vars BY <1>1 DEF vars, GuardInv, GuardTypes, Slots, Waits
<1>2. ASSUME NEW r \in Request, Begin(r) PROVE GuardInv'
  BY <1>2, StageKeeps DEF Begin
<1>3. ASSUME NEW r \in Request,
             Refuse(r) \/ (\E d \in Delay : Send(r, d)) \/ Cancel(r)
      PROVE  GuardInv'
  <2>1. At(r, "idle", 0) /\ UNCHANGED <<now, nextSlot, released>>
    BY <1>3 DEF Refuse, Send, Cancel, Leave, At, Idle
  <2>2. QED BY <2>1, StageKeeps
<1>4. ASSUME NEW r \in Request, NEW d \in Delay, WaitTurn(r, d) PROVE GuardInv'
  <2>1. DelayFor(d) \in 1 .. MAX_DELAY
    BY <1>4, DelayForType, DelayAssumption DEF WaitTurn
  <2>2. CASE queue = <<>> BY <1>4, <2>1, <2>2, HoldKeeps DEF WaitTurn
  <2>3. CASE queue # <<>> BY <1>4, <2>1, <2>3, StageKeeps DEF WaitTurn
  <2>4. QED BY <2>2, <2>3
<1>5. ASSUME NEW r \in Request, Resume(r) PROVE GuardInv'
  <2>1. request[r].delay \in 1 .. MAX_DELAY
    BY <1>5 DEF Resume, FirstInLine, GuardInv, GuardTypes, Waits
  <2>2. QED BY <1>5, <2>1, HoldKeeps DEF Resume
<1>6. ASSUME NEW r \in Request, Wake(r) PROVE GuardInv'
  <2>1. request[r].delay \in 1 .. MAX_DELAY /\ nextSlot \in nextSlot .. now
    BY <1>6 DEF Wake, GuardInv, GuardTypes, Waits
  <2>2. QED BY <1>6, <2>1, ReleaseKeeps DEF Wake
<1>7. CASE Tick
  <2>1. GuardTypes' BY <1>7 DEF Tick, GuardInv, GuardTypes, Waits
  <2>2. Slots' BY <1>7, TimeAssumption DEF Tick, GuardInv, GuardTypes, Slots
  <2>3. QED BY <2>1, <2>2 DEF GuardInv
<1>8. QED BY <1>1, <1>2, <1>3, <1>4, <1>5, <1>6, <1>7 DEF Next, Check

LEMMA GuardInvInit == ASSUME Init PROVE GuardInv
BY DEF Init, Idle, GuardInv, GuardTypes, Slots, Waits

(* The inductive invariant of the guard, whoever sends what: a sleeper has *)
(* a slot and is not woken later than LATE, and the next slot is at most   *)
(* the delay of the last request after that request (guard.py:66-81).      *)
THEOREM GuardInvariant == GuardSafety => []GuardInv
<1>1. Init => GuardInv BY GuardInvInit
<1>2. GuardInv /\ [Next]_vars => GuardInv' BY GuardInvNext
<1>3. QED BY <1>1, <1>2, PTL DEF GuardSafety


-----------------------------------------------------------------------------

(* Every step of the guard sends a request in a slot of Pacing, lets time  *)
(* pass, or is none of its.                                                *)
LEMMA ReleasePaces ==
  ASSUME GuardInv, NEW r \in Request, NEW s \in nextSlot .. now, NEW d \in 1 .. MAX_DELAY,
         NEW line, Release(r, s, d, line), UNCHANGED now, now <= s + LATE
  PROVE  Pace!Next
<1>1. Pace!Send(s, d) BY DEF Pace!Send, Release
<1>2. s \in 0 .. now BY DEF GuardInv, GuardTypes
<1>3. QED BY <1>1, <1>2 DEF Pace!Next

LEMMA HoldPaces ==
  ASSUME GuardInv, NEW r \in Request, NEW d \in 1 .. MAX_DELAY, NEW line, Hold(r, d, line),
         UNCHANGED now
  PROVE  Pace!Next \/ UNCHANGED <<now, nextSlot, released>>
<1>1. CASE nextSlot > now BY <1>1 DEF Hold
<1>2. CASE ~(nextSlot > now)
  <2>1. now \in nextSlot .. now /\ now <= now + LATE
    BY <1>2, TimeAssumption DEF GuardInv, GuardTypes
  <2>2. Release(r, now, d, line) BY <1>2 DEF Hold
  <2>3. QED BY <2>1, <2>2, ReleasePaces
<1>3. QED BY <1>1, <1>2

LEMMA GuardPaces ==
  ASSUME GuardInv, [Next]_vars PROVE [Pace!Next]_<<now, nextSlot, released>>
<1>1. CASE UNCHANGED vars BY <1>1 DEF vars
<1>2. ASSUME NEW r \in Request,
             Begin(r) \/ Refuse(r) \/ (\E d \in Delay : Send(r, d)) \/ Cancel(r)
      PROVE  UNCHANGED <<now, nextSlot, released>>
  BY <1>2 DEF Begin, Refuse, Send, Cancel
<1>3. ASSUME NEW r \in Request, NEW d \in Delay, WaitTurn(r, d)
      PROVE  Pace!Next \/ UNCHANGED <<now, nextSlot, released>>
  <2>1. DelayFor(d) \in 1 .. MAX_DELAY
    BY <1>3, DelayForType, DelayAssumption DEF WaitTurn
  <2>2. CASE queue = <<>> BY <1>3, <2>1, <2>2, HoldPaces DEF WaitTurn
  <2>3. CASE queue # <<>> BY <1>3, <2>3 DEF WaitTurn
  <2>4. QED BY <2>2, <2>3
<1>4. ASSUME NEW r \in Request, Resume(r)
      PROVE  Pace!Next \/ UNCHANGED <<now, nextSlot, released>>
  <2>1. request[r].delay \in 1 .. MAX_DELAY
    BY <1>4 DEF Resume, FirstInLine, GuardInv, GuardTypes, Waits
  <2>2. QED BY <1>4, <2>1, HoldPaces DEF Resume
<1>5. ASSUME NEW r \in Request, Wake(r) PROVE Pace!Next
  <2>1. request[r].delay \in 1 .. MAX_DELAY /\ nextSlot \in nextSlot .. now
        /\ now <= nextSlot + LATE
    BY <1>5 DEF Wake, GuardInv, GuardTypes, Slots, Waits
  <2>2. QED BY <1>5, <2>1, ReleasePaces DEF Wake
<1>6. CASE Tick BY <1>6 DEF Tick, Pace!Next, Pace!Tick
<1>7. QED BY <1>1, <1>2, <1>3, <1>4, <1>5, <1>6 DEF Next, Check

-----------------------------------------------------------------------------

(* The guard of a client that signs is a PolicyGuard: a hop of a call      *)
(* takes its steps, or none.                                               *)
LEMMA ClientStep == ASSUME [ClientNext]_clientVars PROVE [Next]_vars
<1>1. CASE UNCHANGED clientVars BY <1>1 DEF clientVars
<1>2. ASSUME NEW r \in Request \ Caller, Begin(r) PROVE Next BY <1>2 DEF Next
<1>3. ASSUME NEW r \in Request, GuardStep(r) \/ GuardCancel(r) PROVE Next
  BY <1>3 DEF GuardStep, GuardCancel, GuardCheck, GuardRefuse, GuardResume, GuardWake, Next, Check
<1>4. ASSUME NEW r \in Caller, NEW h, Go(r, h) PROVE [Next]_vars
  BY <1>4, CallerAssumption DEF Go, Next
<1>5. ASSUME NEW r \in Caller,
             Call(r) \/ Unguarded(r) \/ Redirect(r) \/ Again(r) \/ Answer(r) \/ Fail(r)
      PROVE  [Next]_vars
  <2>1. CASE Call(r) \/ Redirect(r) \/ Again(r)
    BY <1>4, <2>1 DEF Call, Redirect, Again
  <2>2. CASE Unguarded(r) \/ Answer(r) \/ Fail(r)
    BY <2>2 DEF Unguarded, Answer, Fail
  <2>3. QED BY <1>5, <2>1, <2>2
<1>6. CASE ClientTick BY <1>6 DEF ClientTick, Next
<1>7. QED BY <1>1, <1>2, <1>3, <1>5, <1>6 DEF ClientNext

(* Whatever the clients do with their calls, what the guard sees is a      *)
(* behaviour of the guard alone (guard.py:92-97).                          *)
THEOREM ClientsAreGuarded == ClientSpec => GuardSafety
<1>1. ClientInit => Init BY DEF ClientInit
<1>2. [ClientNext]_clientVars => [Next]_vars BY ClientStep
<1>3. QED BY <1>1, <1>2, PTL DEF ClientSpec, GuardSafety

(* However requests queue, wake late and are cancelled, the origin sees    *)
(* them in slots that are their delays apart (guard.py:66-81).             *)
THEOREM ClientsKeepPace == ClientSpec => KeepsPace
<1>1. Init => Pace!Init BY DEF Init, Pace!Init
<1>2. GuardInv /\ [Next]_vars => [Pace!Next]_<<now, nextSlot, released>> BY GuardPaces
<1>3. QED
  BY <1>1, <1>2, ClientsAreGuarded, GuardInvariant, PTL
     DEF KeepsPace, Pace!Spec, GuardSafety

(* None of them waits for longer than the delay after the one before it    *)
(* (guard.py:75-81).                                                       *)
THEOREM ClientsLeaveNoGap == ClientSpec => []NoGap
<1>1. ASSUME GuardInv PROVE NoGap
  BY <1>1 DEF GuardInv, GuardTypes, Slots, NoGap, Last
<1>2. QED BY <1>1, ClientsAreGuarded, GuardInvariant, PTL


-----------------------------------------------------------------------------

(* What preparing a hop makes of it.                                       *)
LEMMA DigestOfBody ==
  ASSUME NEW h \in Hop
  PROVE  LET g == ensure_content_digest(h) IN
         /\ g \in Hop
         /\ g.form = h.form /\ g.origin = h.origin /\ g.body = h.body /\ g.left = h.left
         /\ g.stray = h.stray /\ g.warned = h.warned
         /\ g.body => g.digest \in {"right", "other"}
BY DEF Hop, ensure_content_digest, Digest

LEMMA SignatureOf ==
  ASSUME NEW h \in Hop
  PROVE  LET s == sign_fast(h) IN
         /\ s \in Signature /\ s.origin = h.origin /\ s.digest = components_for(h)
         /\ s.age = 0 /\ ~s.sent
<1>1. components_for(h) \in Digest /\ h.origin \in Origin /\ 0 \in 0 .. EXPIRES + 1
  BY HopAssumption DEF Hop, components_for, Digest
<1>2. QED BY <1>1 DEF sign_fast, Signature

LEMMA Prepared ==
  ASSUME NEW h \in Hop
  PROVE  LET g == Prepare(h) IN
         /\ g \in Hop
         /\ g.form = h.form /\ g.origin = h.origin /\ g.body = h.body /\ g.left = h.left
         /\ g.stray = h.stray /\ g.warned = h.warned
         /\ decide(h.origin) =>
              /\ g.sig \in Signature /\ g.sig.origin = h.origin
              /\ g.sig.digest \in (IF h.body THEN {"right", "other"} ELSE {"absent"})
              /\ ~g.sig.sent /\ g.sig.age = 0
         /\ ~decide(h.origin) => g.sig = None
<1>1. CASE ~decide(h.origin) BY <1>1 DEF Prepare, strip, Hop
<1>2. CASE decide(h.origin)
  <2> DEFINE e == ensure_content_digest(h)
             s == sign_fast(e)
  <2>1. /\ e \in Hop
        /\ e.form = h.form /\ e.origin = h.origin /\ e.body = h.body /\ e.left = h.left
        /\ e.stray = h.stray /\ e.warned = h.warned
        /\ e.body => e.digest \in {"right", "other"}
    BY DigestOfBody
  <2>2. /\ s \in Signature /\ s.origin = e.origin /\ s.digest = components_for(e)
        /\ s.age = 0 /\ ~s.sent
    BY <2>1, SignatureOf
  <2>3. Prepare(h) = [e EXCEPT !.sig = s] BY <1>2 DEF Prepare, sign_request, sign
  <2> HIDE DEF e, s
  <2>4. s.digest \in (IF h.body THEN {"right", "other"} ELSE {"absent"})
    BY <2>1, <2>2 DEF components_for
  <2>5. QED BY <1>2, <2>1, <2>2, <2>3, <2>4 DEF Hop
<1>3. QED BY <1>1, <1>2

(* What a hop is like when it is sent.                                     *)
LEMMA SentIs ==
  ASSUME NEW h \in Hop
  PROVE  LET g == IF Signs(h) THEN Prepare(h) ELSE h IN
         /\ Sent(h) \in Hop /\ Sent(h).at = "wire"
         /\ Sent(h).form = h.form /\ Sent(h).origin = h.origin /\ Sent(h).body = h.body
         /\ Sent(h).left = h.left /\ Sent(h).sig = g.sig
         /\ Sent(h).stray = (h.stray \/ Stray(g))
<1> DEFINE g == IF Signs(h) THEN Prepare(h) ELSE h
<1>1. /\ g \in Hop
      /\ g.form = h.form /\ g.origin = h.origin /\ g.body = h.body /\ g.left = h.left
      /\ g.stray = h.stray
  BY Prepared
<1>2. Sent(h) = [g EXCEPT !.at = "wire", !.stray = g.stray \/ Stray(g)] BY DEF Sent
<1> HIDE DEF g
<1>3. (g.stray \/ Stray(g)) \in BOOLEAN BY DEF Stray
<1>4. QED BY <1>1, <1>2, <1>3 DEF Hop, g


(* A signature goes astray only on the redirected hops of the form auth.   *)
StrayOK(h) ==
  h.stray => /\ h.form = "auth"
             /\ h.at \in {"go", "wire"} => ~First(h)
             /\ h.at = "done" => h.warned

(* A request the guard holds is a call that goes through it.               *)
HopInv ==
  /\ DOMAIN request = Request
  /\ hop \in [Caller -> Hop]
  /\ \A r \in Caller : StrayOK(hop[r])
  /\ \A r \in Caller : request[r] # Idle => hop[r].at = "go" /\ Guarded(hop[r])

LEMMA NoHopOK == NoHop \in Hop /\ StrayOK(NoHop)
BY HopAssumption, OriginAssumption DEF NoHop, Hop, Form, Digest, StrayOK

LEMMA CallOK ==
  ASSUME NEW form \in Form, NEW o \in Origin, NEW body \in BOOLEAN, NEW digest \in Digest
  PROVE  LET h == [NoHop EXCEPT !.at = "go", !.form = form, !.origin = o, !.body = body,
                                !.digest = digest, !.own = digest, !.left = REDIRECTS] IN
         h \in Hop /\ StrayOK(h)
<1>1. REDIRECTS \in 0 .. REDIRECTS BY HopAssumption
<1>2. QED BY <1>1, NoHopOK DEF NoHop, Hop, StrayOK

LEMMA SentOK ==
  ASSUME NEW h \in Hop, StrayOK(h), h.at = "go"
  PROVE  Sent(h) \in Hop /\ StrayOK(Sent(h))
<1> DEFINE g == IF Signs(h) THEN Prepare(h) ELSE h
<1>1. /\ Sent(h) \in Hop /\ Sent(h).at = "wire" /\ Sent(h).form = h.form
      /\ Sent(h).left = h.left /\ Sent(h).stray = (h.stray \/ Stray(g))
  BY SentIs
<1>2. Signs(h) => ~Stray(g) BY Prepared DEF Stray
<1>3. ~Signs(h) => h.form = "auth" /\ ~First(h) BY DEF Signs
<1> HIDE DEF g
<1>4. QED BY <1>1, <1>2, <1>3 DEF StrayOK, First

LEMMA SignatureSent ==
  ASSUME NEW s \in Signature \cup {None}
  PROVE  (IF s = None THEN None ELSE [s EXCEPT !.sent = TRUE]) \in Signature \cup {None}
BY DEF Signature

LEMMA AfterIs ==
  ASSUME NEW h \in Hop, NEW o \in Origin, NEW body \in BOOLEAN, NEW left \in 0 .. REDIRECTS
  PROVE  LET g == After(h, o, body, left) IN
         /\ g \in Hop /\ g.at = "go" /\ g.form = h.form /\ g.left = left /\ g.stray = h.stray
<1> DEFINE s == IF h.sig = None THEN None ELSE [h.sig EXCEPT !.sent = TRUE]
           d == IF h.body /\ ~body /\ h.digest = "right" THEN "stale" ELSE h.digest
           e == [h EXCEPT !.at = "go", !.origin = o, !.body = body, !.left = left]
<1>1. s \in Signature \cup {None} BY SignatureSent DEF Hop
<1>2. d \in Digest BY DEF Hop, Digest
<1>3. /\ e \in Hop /\ e.at = "go" /\ e.form = h.form /\ e.left = left /\ e.stray = h.stray
  BY DEF Hop
<1>4. After(h, o, body, left) = [e EXCEPT !.digest = d, !.sig = s]
  BY DEF After, Hop
<1> HIDE DEF d, s, e
<1>5. QED BY <1>1, <1>2, <1>3, <1>4 DEF Hop

LEMMA RefetchedIs ==
  ASSUME NEW h \in Hop, NEW o \in Origin, NEW body \in BOOLEAN, NEW left \in 0 .. REDIRECTS
  PROVE  LET g == Refetched(h, o, body, left) IN
         /\ g \in Hop /\ g.at = "go" /\ g.form = h.form /\ g.left = left /\ g.stray = h.stray
<1> DEFINE d == IF h.body /\ ~body THEN "absent" ELSE h.own
           s == None
           e == [h EXCEPT !.at = "go", !.origin = o, !.body = body, !.left = left]
<1>1. d \in Digest /\ s \in Signature \cup {None} BY DEF Hop, Digest
<1>2. /\ e \in Hop /\ e.at = "go" /\ e.form = h.form /\ e.left = left /\ e.stray = h.stray
  BY DEF Hop
<1>3. Refetched(h, o, body, left) = [e EXCEPT !.digest = d, !.own = d, !.sig = s]
  BY DEF Refetched, Hop
<1> HIDE DEF d, s, e
<1>4. QED BY <1>1, <1>2, <1>3 DEF Hop

LEMMA RedirectedIs ==
  ASSUME NEW h \in Hop, NEW o \in Origin, NEW body \in BOOLEAN, NEW left \in 0 .. REDIRECTS
  PROVE  LET g == Redirected(h, o, body, left) IN
         /\ g \in Hop /\ g.at = "go" /\ g.form = h.form /\ g.left = left /\ g.stray = h.stray
<1>1. CASE h.form = "fetch" BY <1>1, RefetchedIs DEF Redirected
<1>2. CASE h.form # "fetch" BY <1>2, AfterIs DEF Redirected
<1>3. QED BY <1>1, <1>2

LEMMA OlderOK ==
  ASSUME NEW h \in Hop, StrayOK(h) PROVE Older(h) \in Hop /\ StrayOK(Older(h))
<1>1. CASE h.sig = None BY <1>1 DEF Older
<1>2. CASE h.sig # None
  <2> DEFINE a == Smaller(h.sig.age + 1, EXPIRES + 1)
             s == [h.sig EXCEPT !.age = a]
  <2>1. h.sig \in Signature BY <1>2 DEF Hop
  <2>2. a \in 0 .. EXPIRES + 1 BY <2>1, HopAssumption DEF Signature, Smaller
  <2>3. s \in Signature BY <2>1, <2>2 DEF Signature
  <2>4. Older(h) = [h EXCEPT !.sig = s] BY <1>2 DEF Older
  <2> HIDE DEF a, s
  <2>5. QED BY <2>3, <2>4 DEF Hop, StrayOK, First
<1>3. QED BY <1>1, <1>2

LEMMA OverOK ==
  ASSUME NEW h \in Hop, StrayOK(h), h.at = "wire"
  PROVE  LET g == Over(h, h.form = "auth" /\ ~First(h)) IN g \in Hop /\ StrayOK(g)
BY NoHopOK DEF Over, NoHop, Hop, StrayOK, First

(* A caller's hop becomes another that is in order, and is in the guard    *)
(* only as it may be.                                                      *)
LEMMA HopKeeps ==
  ASSUME HopInv, NEW r \in Caller, NEW h \in Hop, StrayOK(h), hop' = [hop EXCEPT ![r] = h],
         DOMAIN request' = Request,
         \A q \in Request : q # r => request'[q] = request[q],
         request'[r] # Idle => h.at = "go" /\ Guarded(h)
  PROVE  HopInv'
<1>1. hop' \in [Caller -> Hop] BY DEF HopInv
<1>2. hop'[r] = h /\ \A q \in Caller : q # r => hop'[q] = hop[q] BY DEF HopInv
<1>3. \A q \in Caller : StrayOK(hop'[q]) BY <1>2 DEF HopInv
<1>4. \A q \in Caller : request'[q] # Idle => hop'[q].at = "go" /\ Guarded(hop'[q])
  BY <1>2, CallerAssumption DEF HopInv
<1>5. (\A q \in Caller : StrayOK(hop[q]))' BY <1>3 DEF StrayOK, First
<1>6. QED BY <1>1, <1>4, <1>5 DEF HopInv, Guarded

(* A step of the guard is one of a task that is in it.                     *)
LEMMA GuardMoves ==
  ASSUME DOMAIN request = Request, NEW r \in Request,
         \/ \E d \in Delay : Send(r, d) \/ WaitTurn(r, d)
         \/ Refuse(r) \/ Resume(r) \/ Wake(r) \/ Cancel(r)
  PROVE  /\ DOMAIN request' = Request
         /\ \A q \in Request : q # r => request'[q] = request[q]
         /\ request[r] # Idle
<1>1. request[r].stage # "idle"
  BY DEF Send, WaitTurn, Refuse, Resume, FirstInLine, Wake, Cancel
<1>2. \E x : request' = [request EXCEPT ![r] = x]
  BY DEF Send, WaitTurn, Refuse, Resume, Wake, Cancel, Hold, Release, At, Leave
<1>3. QED BY <1>1, <1>2 DEF Idle

(* A caller goes on to a hop.                                              *)
LEMMA GoKeeps ==
  ASSUME HopInv, NEW r \in Caller, NEW h \in Hop, StrayOK(h), h.at = "go", Go(r, h),
         hop[r].at # "go"
  PROVE  HopInv'
<1>1. request[r] = Idle BY DEF HopInv
<1>2. hop' = [hop EXCEPT ![r] = h] BY DEF Go
<1>3. /\ DOMAIN request' = Request
      /\ \A q \in Request : q # r => request'[q] = request[q]
      /\ ~Guarded(h) => request'[r] = Idle
  <2>1. CASE Guarded(h) BY <2>1, CallerAssumption DEF Go, Begin, At, HopInv
  <2>2. CASE ~Guarded(h) BY <1>1, <2>2 DEF Go, HopInv, vars
  <2>3. QED BY <2>1, <2>2
<1>4. QED BY <1>2, <1>3, HopKeeps

LEMMA HopInvNext == ASSUME HopInv, [ClientNext]_clientVars PROVE HopInv'
<1>1. CASE UNCHANGED clientVars
  BY <1>1 DEF clientVars, vars, HopInv, StrayOK, First, Guarded
<1>2. ASSUME NEW r \in Request \ Caller, Begin(r), UNCHANGED hop PROVE HopInv'
  <2>1. DOMAIN request' = Request /\ \A q \in Request : q # r => request'[q] = request[q]
    BY <1>2 DEF Begin, At, HopInv
  <2>2. QED BY <1>2, <2>1, CallerAssumption DEF HopInv, StrayOK, First, Guarded
<1>3. ASSUME NEW r \in Request, GuardStep(r) \/ GuardCancel(r) PROVE HopInv'
  <2>1. /\ DOMAIN request' = Request
        /\ \A q \in Request : q # r => request'[q] = request[q]
        /\ request[r] # Idle
    BY <1>3, GuardMoves
       DEF GuardStep, GuardCheck, GuardRefuse, GuardResume, GuardWake, GuardCancel, HopInv
  <2>2. CASE r \notin Caller
    <3>1. UNCHANGED hop
      BY <1>3, <2>2 DEF GuardStep, GuardCheck, GuardRefuse, GuardResume, GuardWake,
         GuardCancel, OutOfGuard, Ends
    <3>2. QED BY <2>1, <2>2, <3>1, CallerAssumption DEF HopInv, StrayOK, First, Guarded
  <2>3. CASE r \in Caller
    <3>1. hop[r] \in Hop /\ StrayOK(hop[r]) /\ hop[r].at = "go" /\ Guarded(hop[r])
      BY <2>1, <2>3 DEF HopInv
    <3>2. CASE OutOfGuard(r)
      <4>1. CASE request'[r] = Idle
        BY <2>1, <2>3, <3>1, <3>2, <4>1, SentOK, HopKeeps DEF OutOfGuard, Passes
      <4>2. CASE request'[r] # Idle
        <5>1. UNCHANGED hop BY <3>2, <4>2 DEF OutOfGuard
        <5>2. QED BY <2>1, <3>1, <5>1, CallerAssumption DEF HopInv, StrayOK, First, Guarded
      <4>3. QED BY <4>1, <4>2
    <3>3. CASE Ends(r) /\ request' = [request EXCEPT ![r] = Idle]
      <4>1. request'[r] = Idle BY <2>3, <3>3, CallerAssumption DEF HopInv
      <4>2. QED BY <2>1, <2>3, <3>3, <4>1, NoHopOK, HopKeeps DEF Ends
    <3>4. QED
      BY <1>3, <3>2, <3>3 DEF GuardStep, GuardCheck, GuardRefuse, GuardResume, GuardWake,
         GuardCancel, Refuse, Cancel, Leave
  <2>4. QED BY <2>2, <2>3
<1>4. ASSUME NEW r \in Caller, Call(r) PROVE HopInv'
  <2>1. PICK form \in Form, o \in Origin, body \in BOOLEAN, digest \in Digest :
          Go(r, [NoHop EXCEPT !.at = "go", !.form = form, !.origin = o, !.body = body,
                              !.digest = digest, !.own = digest, !.left = REDIRECTS])
    BY <1>4 DEF Call
  <2> DEFINE h == [NoHop EXCEPT !.at = "go", !.form = form, !.origin = o, !.body = body,
                                !.digest = digest, !.own = digest, !.left = REDIRECTS]
  <2>2. h \in Hop /\ StrayOK(h) BY CallOK
  <2>3. h.at = "go" BY DEF NoHop
  <2>4. Go(r, h) /\ hop[r].at # "go" BY <1>4, <2>1 DEF Call
  <2> HIDE DEF h
  <2>5. QED BY <2>2, <2>3, <2>4, GoKeeps
<1>5. ASSUME NEW r \in Caller, Redirect(r) PROVE HopInv'
  <2>1. hop[r] \in Hop /\ StrayOK(hop[r]) /\ hop[r].at = "wire" /\ hop[r].left > 0
    BY <1>5 DEF Redirect, HopInv
  <2>2. PICK o \in Origin, body \in {FALSE, hop[r].body} :
          Go(r, Redirected(hop[r], o, body, hop[r].left - 1))
    BY <1>5 DEF Redirect
  <2>3. /\ body \in BOOLEAN
        /\ hop[r].left - 1 \in 0 .. REDIRECTS /\ hop[r].left - 1 # REDIRECTS
    <3>1. hop[r].body \in BOOLEAN /\ hop[r].left \in 0 .. REDIRECTS BY <2>1 DEF Hop
    <3>2. body \in BOOLEAN BY <3>1
    <3>3. hop[r].left - 1 \in 0 .. REDIRECTS /\ hop[r].left - 1 # REDIRECTS
      BY <2>1, <3>1, HopAssumption
    <3>4. QED BY <3>2, <3>3
  <2> DEFINE h == Redirected(hop[r], o, body, hop[r].left - 1)
  <2>4. /\ h \in Hop /\ h.at = "go" /\ h.form = hop[r].form /\ h.left = hop[r].left - 1
        /\ h.stray = hop[r].stray
    BY <2>1, <2>3, RedirectedIs
  <2> HIDE DEF h
  <2>5. StrayOK(h) BY <2>1, <2>3, <2>4 DEF StrayOK, First
  <2>6. QED BY <2>1, <2>2, <2>4, <2>5, GoKeeps DEF h
<1>6. ASSUME NEW r \in Caller, Again(r) PROVE HopInv'
  <2>1. hop[r] \in Hop /\ hop[r].at = "wire" BY <1>6 DEF Again, HopInv
  <2> DEFINE g == After(hop[r], hop[r].origin, hop[r].body, REDIRECTS)
             h == [g EXCEPT !.stray = FALSE]
  <2>2. hop[r].origin \in Origin /\ hop[r].body \in BOOLEAN /\ REDIRECTS \in 0 .. REDIRECTS
    BY <2>1, HopAssumption DEF Hop
  <2>3. g \in Hop /\ g.at = "go" BY <2>1, <2>2, AfterIs
  <2>4. Go(r, h) BY <1>6 DEF Again
  <2> HIDE DEF g
  <2>5. h \in Hop /\ h.at = "go" /\ StrayOK(h) BY <2>3 DEF Hop, StrayOK
  <2> HIDE DEF h
  <2>6. QED BY <2>1, <2>4, <2>5, GoKeeps
<1>7. ASSUME NEW r \in Caller, Unguarded(r) \/ Answer(r) \/ Fail(r) PROVE HopInv'
  <2>1. UNCHANGED vars BY <1>7 DEF Unguarded, Answer, Fail
  <2>2. DOMAIN request' = Request /\ request' = request BY <2>1 DEF HopInv, vars
  <2>3. hop[r] \in Hop /\ StrayOK(hop[r]) /\ request[r] = Idle
    BY <1>7 DEF Unguarded, Answer, Fail, HopInv
  <2>4. CASE Unguarded(r)
    BY <2>2, <2>3, <2>4, SentOK, HopKeeps DEF Unguarded, Passes
  <2>5. CASE Answer(r) BY <2>2, <2>3, <2>5, OverOK, HopKeeps DEF Answer
  <2>6. CASE Fail(r) BY <2>2, <2>3, <2>6, NoHopOK, HopKeeps DEF Fail
  <2>7. QED BY <1>7, <2>4, <2>5, <2>6
<1>8. CASE ClientTick
  <2>1. request' = request /\ hop' = [r \in Caller |-> Older(hop[r])]
    BY <1>8 DEF ClientTick, Tick
  <2>2. \A r \in Caller : Older(hop[r]) \in Hop /\ StrayOK(Older(hop[r]))
    BY OlderOK DEF HopInv
  <2>3. hop' \in [Caller -> Hop] /\ \A r \in Caller : StrayOK(hop'[r])
    BY <2>1, <2>2
  <2>4. \A r \in Caller : hop[r].at = "go" /\ Guarded(hop[r]) =>
          hop'[r].at = "go" /\ Guarded(hop'[r])
    BY <2>1 DEF HopInv, Older, Guarded, Hop
  <2>5. (\A q \in Caller : StrayOK(hop[q]))' BY <2>3 DEF StrayOK, First
  <2>6. QED BY <2>1, <2>3, <2>4, <2>5 DEF HopInv, Guarded
<1>9. QED
  BY <1>1, <1>2, <1>3, <1>4, <1>5, <1>6, <1>7, <1>8 DEF ClientNext


LEMMA HopInvInit == ASSUME ClientInit PROVE HopInv
BY NoHopOK, CallerAssumption DEF ClientInit, Init, HopInv

(* The inductive invariant of the calls: one whose signature went astray   *)
(* is past the first hop of the form auth, and its caller is warned when   *)
(* it is done; what the guard holds is a hop that is about to go           *)
(* (httpx_auth.py:78-104, guard.py:92-97).                                 *)
THEOREM ClientInvariant == ClientSpec => []HopInv
<1>1. ClientInit => HopInv BY HopInvInit
<1>2. HopInv /\ [ClientNext]_clientVars => HopInv' BY HopInvNext
<1>3. QED BY <1>1, <1>2, PTL DEF ClientSpec

(* A response whose signatures went astray is one of the form auth, and    *)
(* its caller is warned (httpx_auth.py:12-19, 96-104).                     *)
THEOREM StraysAreWarnedOf == ClientSpec => []StrayHopsWarned
<1>1. HopInv => StrayHopsWarned BY DEF HopInv, StrayOK, StrayHopsWarned
<1>2. QED BY <1>1, ClientInvariant, PTL

(* A hop that is sent in this step is one that passes.                     *)
LEMMA SendsPasses ==
  ASSUME HopInv, [ClientNext]_clientVars, NEW r \in Caller, Sends(r)
  PROVE  hop'[r] = Sent(hop[r]) /\ hop[r] \in Hop
<1>1. hop[r] \in Hop /\ hop[r].at = "go" /\ hop'[r].at = "wire" BY DEF HopInv, Sends
<1>2. ASSUME NEW q \in Caller, NEW h, hop' = [hop EXCEPT ![q] = h], h.at # "wire" PROVE FALSE
  <2>1. q = r => hop'[r] = h BY <1>2 DEF HopInv
  <2>2. q # r => hop'[r] = hop[r] BY <1>2 DEF HopInv
  <2>3. QED BY <1>1, <1>2, <2>1, <2>2
<1>3. ASSUME NEW q \in Caller, Passes(q) PROVE hop'[r] = Sent(hop[r])
  <2>1. CASE q = r BY <1>3, <2>1 DEF Passes, HopInv
  <2>2. CASE q # r
    <3>1. hop'[r] = hop[r] BY <1>3, <2>2 DEF Passes, HopInv
    <3>2. QED BY <1>1, <3>1
  <2>3. QED BY <2>1, <2>2
<1>4. ~UNCHANGED hop BY <1>1
<1>5. NoHop.at # "wire" BY DEF NoHop
<1>6. ASSUME NEW q \in Request, GuardStep(q) \/ GuardCancel(q) PROVE hop'[r] = Sent(hop[r])
  <2>1. (q \in Caller /\ Passes(q)) \/ UNCHANGED hop \/ (q \in Caller /\ hop' = [hop EXCEPT ![q] = NoHop])
    BY <1>6 DEF GuardStep, GuardCheck, GuardRefuse, GuardResume, GuardWake, GuardCancel,
       OutOfGuard, Ends
  <2>2. QED BY <1>2, <1>3, <1>4, <1>5, <2>1
<1>7. ASSUME NEW q \in Caller, Call(q) \/ Redirect(q) \/ Again(q) PROVE FALSE
  <2>1. CASE Call(q)
    <3>1. PICK form \in Form, o \in Origin, body \in BOOLEAN, digest \in Digest :
            Go(q, [NoHop EXCEPT !.at = "go", !.form = form, !.origin = o, !.body = body,
                                !.digest = digest, !.own = digest, !.left = REDIRECTS])
      BY <2>1 DEF Call
    <3> DEFINE h == [NoHop EXCEPT !.at = "go", !.form = form, !.origin = o, !.body = body,
                                  !.digest = digest, !.own = digest, !.left = REDIRECTS]
    <3>2. h.at = "go" BY DEF NoHop
    <3>3. hop' = [hop EXCEPT ![q] = h] BY <3>1 DEF Go
    <3> HIDE DEF h
    <3>4. QED BY <1>2, <3>2, <3>3
  <2>2. ASSUME hop[q] \in Hop, NEW o \in Origin, NEW body \in BOOLEAN, NEW left \in 0 .. REDIRECTS
        PROVE  After(hop[q], o, body, left).at = "go" /\ After(hop[q], o, body, left) \in Hop
    BY <2>2, AfterIs
  <2>3. CASE Redirect(q)
    <3>1. hop[q] \in Hop /\ hop[q].left > 0 BY <2>3 DEF Redirect, HopInv
    <3>2. hop[q].body \in BOOLEAN /\ hop[q].left \in 0 .. REDIRECTS BY <3>1 DEF Hop
    <3>3. hop[q].left - 1 \in 0 .. REDIRECTS BY <3>1, <3>2, HopAssumption
    <3>4. PICK o \in Origin, body \in {FALSE, hop[q].body} :
            hop' = [hop EXCEPT ![q] = Redirected(hop[q], o, body, hop[q].left - 1)]
      BY <2>3 DEF Redirect, Go
    <3>5. body \in BOOLEAN BY <3>2
    <3>6. Redirected(hop[q], o, body, hop[q].left - 1).at = "go"
      BY <3>1, <3>3, <3>5, RedirectedIs
    <3>7. QED BY <1>2, <3>4, <3>6
  <2>4. CASE Again(q)
    <3>1. hop[q] \in Hop BY DEF HopInv
    <3>2. hop[q].origin \in Origin /\ hop[q].body \in BOOLEAN /\ REDIRECTS \in 0 .. REDIRECTS
      BY <3>1, HopAssumption DEF Hop
    <3> DEFINE g == After(hop[q], hop[q].origin, hop[q].body, REDIRECTS)
    <3>3. g.at = "go" /\ g \in Hop BY <2>2, <3>1, <3>2
    <3>4. hop' = [hop EXCEPT ![q] = [g EXCEPT !.stray = FALSE]] BY <2>4 DEF Again, Go
    <3> HIDE DEF g
    <3>5. [g EXCEPT !.stray = FALSE].at = "go" BY <3>3 DEF Hop
    <3>6. QED BY <1>2, <3>4, <3>5
  <2>5. QED BY <1>7, <2>1, <2>3, <2>4
<1>8. ASSUME NEW q \in Caller, Unguarded(q) \/ Answer(q) \/ Fail(q) PROVE hop'[r] = Sent(hop[r])
  <2>1. CASE Unguarded(q) BY <1>3, <2>1 DEF Unguarded
  <2>2. CASE Answer(q)
    <3>1. hop' = [hop EXCEPT ![q] = Over(hop[q], hop[q].form = "auth" /\ ~First(hop[q]))]
      BY <2>2 DEF Answer
    <3>2. Over(hop[q], hop[q].form = "auth" /\ ~First(hop[q])).at = "done"
      BY DEF Over, NoHop
    <3>3. QED BY <1>2, <3>1, <3>2
  <2>3. CASE Fail(q) BY <1>2, <1>5, <2>3 DEF Fail
  <2>4. QED BY <1>8, <2>1, <2>2, <2>3
<1>9. ~ClientTick
  <2>1. Older(hop[r]).at = "go" BY <1>1 DEF Older, Hop
  <2>2. QED BY <1>1, <2>1 DEF ClientTick
<1>10. QED
  BY <1>1, <1>4, <1>6, <1>7, <1>8, <1>9 DEF ClientNext, clientVars

(* However often a call is redirected or sent again, and however long the  *)
(* guard holds a hop, what it signs carries a new signature for its own    *)
(* origin and body (signer.py:216-241, _utils.py:38-44, guard.py:95-97).   *)
THEOREM SignaturesFit == ClientSpec => SignedHopsFit
<1>1. ASSUME HopInv, [ClientNext]_clientVars, NEW r \in Caller, Sends(r), Signs(hop[r]),
             decide(hop'[r].origin)
      PROVE  /\ hop'[r].sig # None /\ hop'[r].sig.origin = hop'[r].origin
             /\ hop'[r].sig.digest \in (IF hop'[r].body THEN {"right", "other"} ELSE {"absent"})
             /\ ~hop'[r].sig.sent /\ hop'[r].sig.age <= EXPIRES
  <2>1. hop'[r] = Sent(hop[r]) /\ hop[r] \in Hop BY <1>1, SendsPasses
  <2> DEFINE h == hop[r]
             g == hop'[r]
  <2>2. g.origin = h.origin /\ g.body = h.body /\ g.sig = Prepare(h).sig
    BY <1>1, <2>1, SentIs
  <2>3. /\ g.sig \in Signature /\ g.sig.origin = g.origin
        /\ g.sig.digest \in (IF g.body THEN {"right", "other"} ELSE {"absent"})
        /\ ~g.sig.sent /\ g.sig.age = 0
    BY <1>1, <2>1, <2>2, Prepared
  <2>4. 0 <= EXPIRES BY HopAssumption
  <2>5. QED BY <2>3, <2>4, NoneAssumption
<1>2. HopInv /\ [ClientNext]_clientVars =>
        [\A r \in Caller : Sends(r) /\ Signs(hop[r]) =>
           LET h == hop'[r] IN decide(h.origin) =>
             /\ h.sig # None
             /\ h.sig.origin = h.origin
             /\ h.sig.digest \in (IF h.body THEN {"right", "other"} ELSE {"absent"})
             /\ ~h.sig.sent /\ h.sig.age <= EXPIRES]_clientVars
  BY <1>1
<1>3. QED BY <1>2, ClientInvariant, PTL DEF ClientSpec, SignedHopsFit

(* A hop to an origin out of scope carries none (httpx_auth.py:116-121,    *)
(* requests_adapter.py:75-77).                                             *)
THEOREM OthersAreBare == ClientSpec => OtherHopsBare
<1>1. ASSUME HopInv, [ClientNext]_clientVars, NEW r \in Caller, Sends(r), Signs(hop[r]),
             ~decide(hop'[r].origin)
      PROVE  hop'[r].sig = None
  <2>1. hop'[r] = Sent(hop[r]) /\ hop[r] \in Hop BY <1>1, SendsPasses
  <2>2. Sent(hop[r]).origin = hop[r].origin /\ Sent(hop[r]).sig = Prepare(hop[r]).sig
    BY <1>1, <2>1, SentIs
  <2>3. QED BY <1>1, <2>1, <2>2, Prepared
<1>2. HopInv /\ [ClientNext]_clientVars =>
        [\A r \in Caller : Sends(r) /\ Signs(hop[r]) /\ ~decide(hop'[r].origin) =>
           hop'[r].sig = None]_clientVars
  BY <1>1
<1>3. QED BY <1>2, ClientInvariant, PTL DEF ClientSpec, OtherHopsBare
-----------------------------------------------------------------------------
(* The line.                                                               *)

Line(q) == q \in Seq(Request) /\ IsInjective(q)

LEMMA TailLine ==
  ASSUME NEW q, Line(q), q # <<>>
  PROVE  /\ q[1] \in Request /\ Line(Tail(q)) /\ ToSet(Tail(q)) = ToSet(q) \ {q[1]}
<1>1. /\ q \in Seq(Request) /\ Len(q) \in Nat /\ Len(q) >= 1 /\ DOMAIN q = 1 .. Len(q)
      /\ \A i, j \in 1 .. Len(q) : q[i] = q[j] => i = j
  BY DEF Line, IsInjective
<1>2. /\ Tail(q) \in Seq(Request) /\ Len(Tail(q)) = Len(q) - 1
      /\ \A i \in 1 .. Len(q) - 1 : Tail(q)[i] = q[i + 1]
  BY <1>1, HeadTailProperties
<1>3. DOMAIN Tail(q) = 1 .. Len(q) - 1
  BY <1>1, <1>2
<1>4. IsInjective(Tail(q))
  <2> SUFFICES ASSUME NEW i \in 1 .. Len(q) - 1, NEW j \in 1 .. Len(q) - 1,
                      Tail(q)[i] = Tail(q)[j]
               PROVE  i = j
    BY <1>3 DEF IsInjective
  <2>1. i + 1 \in 1 .. Len(q) /\ j + 1 \in 1 .. Len(q) /\ q[i + 1] = q[j + 1]
    BY <1>1, <1>2
  <2>2. i + 1 = j + 1
    BY <1>1, <2>1
  <2>3. QED
    BY <2>2
<1>5. ToSet(Tail(q)) = ToSet(q) \ {q[1]}
  <2>1. ASSUME NEW x \in ToSet(Tail(q))
        PROVE  x \in ToSet(q) \ {q[1]}
    <3>1. PICK i \in 1 .. Len(q) - 1 : x = Tail(q)[i]
      BY <1>3 DEF ToSet
    <3>2. i + 1 \in 1 .. Len(q) /\ 1 \in 1 .. Len(q) /\ i + 1 # 1 /\ x = q[i + 1]
      BY <1>1, <1>2, <3>1
    <3>3. q[i + 1] # q[1]
      BY <1>1, <3>2
    <3>4. QED
      BY <1>1, <3>2, <3>3 DEF ToSet
  <2>2. ASSUME NEW x \in ToSet(q) \ {q[1]}
        PROVE  x \in ToSet(Tail(q))
    <3>1. PICK i \in 1 .. Len(q) : x = q[i]
      BY <1>1 DEF ToSet
    <3>2. i # 1
      BY <3>1
    <3>3. i - 1 \in 1 .. Len(q) - 1 /\ (i - 1) + 1 = i
      BY <1>1, <3>2
    <3>4. Tail(q)[i - 1] = x
      BY <1>2, <3>1, <3>3
    <3>5. QED
      BY <1>3, <3>3, <3>4 DEF ToSet
  <2>3. QED
    BY <2>1, <2>2
<1>6. q[1] \in Request
  BY <1>1
<1>7. QED
  BY <1>2, <1>4, <1>5, <1>6 DEF Line

LEMMA FirstLine ==
  ASSUME NEW q, Line(q), NEW r \in Request, r \notin ToSet(q)
  PROVE  /\ Line(<<r>> \o q) /\ ToSet(<<r>> \o q) = ToSet(q) \cup {r} /\ (<<r>> \o q)[1] = r
<1> DEFINE p == <<r>> \o q
<1>1. /\ q \in Seq(Request) /\ Len(q) \in Nat /\ DOMAIN q = 1 .. Len(q)
      /\ \A i, j \in 1 .. Len(q) : q[i] = q[j] => i = j
      /\ \A i \in 1 .. Len(q) : q[i] # r
  BY DEF Line, IsInjective, ToSet
<1>2. <<r>> \in Seq(Request) /\ Len(<<r>>) = 1 /\ <<r>>[1] = r
  OBVIOUS
<1>3. /\ p \in Seq(Request) /\ Len(p) = 1 + Len(q)
      /\ \A i \in 1 .. 1 + Len(q) : p[i] = IF i <= 1 THEN <<r>>[i] ELSE q[i - 1]
  BY <1>1, <1>2, ConcatProperties
<1> HIDE DEF p
<1>4. /\ DOMAIN p = 1 .. 1 + Len(q) /\ p[1] = r
      /\ \A i \in 1 .. 1 + Len(q) : i # 1 => i - 1 \in 1 .. Len(q) /\ p[i] = q[i - 1]
  BY <1>1, <1>2, <1>3
<1>5. IsInjective(p)
  <2> SUFFICES ASSUME NEW i \in 1 .. 1 + Len(q), NEW j \in 1 .. 1 + Len(q), p[i] = p[j]
               PROVE  i = j
    BY <1>4 DEF IsInjective
  <2>1. CASE i = 1 \/ j = 1
    BY <1>1, <1>4, <2>1
  <2>2. CASE i # 1 /\ j # 1
    <3>1. i - 1 = j - 1
      BY <1>1, <1>4, <2>2
    <3>2. QED
      BY <1>1, <3>1
  <2>3. QED
    BY <2>1, <2>2
<1>6. ToSet(p) = ToSet(q) \cup {r}
  <2>1. ASSUME NEW x \in ToSet(p)
        PROVE  x \in ToSet(q) \cup {r}
    BY <1>1, <1>4 DEF ToSet
  <2>2. r \in ToSet(p)
    <3>1. 1 \in 1 .. 1 + Len(q)
      BY <1>1
    <3>2. QED
      BY <1>4, <3>1 DEF ToSet
  <2>3. ASSUME NEW x \in ToSet(q)
        PROVE  x \in ToSet(p)
    <3>1. PICK i \in 1 .. Len(q) : x = q[i]
      BY <1>1 DEF ToSet
    <3>2. i + 1 \in 1 .. 1 + Len(q) /\ i + 1 # 1 /\ (i + 1) - 1 = i
      BY <1>1
    <3>3. p[i + 1] = x
      BY <1>4, <3>1, <3>2
    <3>4. QED
      BY <1>4, <3>2, <3>3 DEF ToSet
  <2>4. QED
    BY <2>1, <2>2, <2>3
<1>7. QED
  BY <1>3, <1>4, <1>5, <1>6 DEF Line, p

LEMMA LastLine ==
  ASSUME NEW q, Line(q), NEW r \in Request, r \notin ToSet(q)
  PROVE  /\ Line(Append(q, r)) /\ ToSet(Append(q, r)) = ToSet(q) \cup {r}
         /\ q # <<>> => Append(q, r)[1] = q[1]
<1> DEFINE p == Append(q, r)
<1>1. /\ q \in Seq(Request) /\ Len(q) \in Nat /\ DOMAIN q = 1 .. Len(q)
      /\ \A i, j \in 1 .. Len(q) : q[i] = q[j] => i = j
      /\ \A i \in 1 .. Len(q) : q[i] # r
  BY DEF Line, IsInjective, ToSet
<1>2. /\ p \in Seq(Request) /\ Len(p) = Len(q) + 1 /\ p[Len(q) + 1] = r
      /\ \A i \in 1 .. Len(q) : p[i] = q[i]
  BY <1>1, AppendProperties
<1>3. q # <<>> => p[1] = q[1]
  BY <1>1, <1>2
<1> HIDE DEF p
<1>4. DOMAIN p = 1 .. Len(q) + 1 /\ \A i \in 1 .. Len(q) + 1 : i \in 1 .. Len(q) \/ i = Len(q) + 1
  BY <1>1, <1>2
<1>5. IsInjective(p)
  BY <1>1, <1>2, <1>4 DEF IsInjective
<1>6. ToSet(p) = ToSet(q) \cup {r}
  <2>1. ASSUME NEW x \in ToSet(p)
        PROVE  x \in ToSet(q) \cup {r}
    BY <1>1, <1>2, <1>4 DEF ToSet
  <2>2. Len(q) + 1 \in 1 .. Len(q) + 1 /\ \A i \in 1 .. Len(q) : i \in 1 .. Len(q) + 1
    BY <1>1
  <2>3. ASSUME NEW x \in ToSet(q) \cup {r}
        PROVE  x \in ToSet(p)
    BY <1>1, <1>2, <1>4, <2>2 DEF ToSet
  <2>4. QED
    BY <2>1, <2>3
<1>7. QED
  BY <1>2, <1>3, <1>5, <1>6 DEF Line, p

LEMMA OutOfLine ==
  ASSUME NEW q, Line(q), NEW i \in DOMAIN q
  PROVE  /\ Line(RemoveAt(q, i)) /\ ToSet(RemoveAt(q, i)) = ToSet(q) \ {q[i]}
         /\ i # 1 => RemoveAt(q, i) # <<>> /\ RemoveAt(q, i)[1] = q[1]
<1> DEFINE n == Len(q)
           a == SubSeq(q, 1, i - 1)
           b == SubSeq(q, i + 1, n)
           p == a \o b
<1>1. /\ q \in Seq(Request) /\ n \in Nat /\ DOMAIN q = 1 .. n /\ i \in 1 .. n
      /\ \A j, k \in 1 .. n : q[j] = q[k] => j = k
      /\ \A j \in 1 .. n : q[j] \in Request
  BY DEF Line, IsInjective
<1>2. /\ a \in Seq(Request) /\ Len(a) = i - 1
      /\ \A j \in 1 .. i - 1 : a[j] = q[j]
  <2>1. 1 \in Int /\ i - 1 \in Int /\ \A j \in 1 .. i - 1 : j \in 1 .. n
    BY <1>1
  <2>2. \A j \in 1 .. i - 1 : q[j] \in Request
    BY <1>1, <2>1
  <2>3. /\ a \in Seq(Request) /\ Len(a) = IF 1 <= i - 1 THEN (i - 1) - 1 + 1 ELSE 0
        /\ \A j \in 1 .. (i - 1) - 1 + 1 : a[j] = q[1 + j - 1]
    BY <2>1, <2>2, SubSeqProperties
  <2>4. QED
    BY <1>1, <2>3
<1>3. /\ b \in Seq(Request) /\ Len(b) = n - i
      /\ \A j \in 1 .. n - i : b[j] = q[i + j]
  <2>1. i + 1 \in Int /\ n \in Int /\ \A j \in i + 1 .. n : j \in 1 .. n
    BY <1>1
  <2>2. \A j \in i + 1 .. n : q[j] \in Request
    BY <1>1, <2>1
  <2>3. /\ b \in Seq(Request) /\ Len(b) = IF i + 1 <= n THEN n - (i + 1) + 1 ELSE 0
        /\ \A j \in 1 .. n - (i + 1) + 1 : b[j] = q[(i + 1) + j - 1]
    BY <2>1, <2>2, SubSeqProperties
  <2>4. QED
    BY <1>1, <2>3
<1> HIDE DEF a, b, n
<1>4. /\ p \in Seq(Request) /\ Len(p) = n - 1
      /\ \A j \in 1 .. n - 1 : p[j] = IF j < i THEN q[j] ELSE q[j + 1]
  <2>1. /\ p \in Seq(Request) /\ Len(p) = Len(a) + Len(b)
        /\ \A j \in 1 .. Len(a) + Len(b) : p[j] = IF j <= Len(a) THEN a[j] ELSE b[j - Len(a)]
    BY <1>2, <1>3, ConcatProperties
  <2>2. Len(a) + Len(b) = n - 1
    BY <1>1, <1>2, <1>3
  <2>3. ASSUME NEW j \in 1 .. n - 1
        PROVE  p[j] = IF j < i THEN q[j] ELSE q[j + 1]
    <3>1. CASE j < i
      BY <1>1, <1>2, <2>1, <2>2, <3>1
    <3>2. CASE ~(j < i)
      <4>1. ~(j <= Len(a)) /\ j - Len(a) \in 1 .. n - i /\ i + (j - Len(a)) = j + 1
        BY <1>1, <1>2, <3>2
      <4>2. QED
        BY <1>3, <2>1, <2>2, <3>2, <4>1
    <3>3. QED
      BY <3>1, <3>2
  <2>4. QED
    BY <2>1, <2>2, <2>3
<1>5. p = RemoveAt(q, i)
  BY DEF RemoveAt, a, b, n
<1> HIDE DEF p
<1>6. DOMAIN p = 1 .. n - 1 /\ \A j \in 1 .. n - 1 : j \in 1 .. n /\ j + 1 \in 1 .. n
  BY <1>1, <1>4
<1>7. IsInjective(p)
  <2> SUFFICES ASSUME NEW j \in 1 .. n - 1, NEW k \in 1 .. n - 1, p[j] = p[k]
               PROVE  j = k
    BY <1>6 DEF IsInjective
  <2>1. j \in Int /\ k \in Int /\ i \in Int
    BY <1>1
  <2> DEFINE jj == IF j < i THEN j ELSE j + 1
             kk == IF k < i THEN k ELSE k + 1
  <2>2. jj \in 1 .. n /\ kk \in 1 .. n /\ q[jj] = q[kk]
    BY <1>4, <1>6
  <2>3. jj = kk
    BY <1>1, <2>2
  <2>4. QED
    BY <2>1, <2>3
<1>8. ToSet(p) = ToSet(q) \ {q[i]}
  <2>1. ASSUME NEW x \in ToSet(p)
        PROVE  x \in ToSet(q) \ {q[i]}
    <3>1. PICK j \in 1 .. n - 1 : x = p[j]
      BY <1>6 DEF ToSet
    <3> DEFINE jj == IF j < i THEN j ELSE j + 1
    <3>2. jj \in 1 .. n /\ x = q[jj]
      BY <1>4, <1>6, <3>1
    <3>3. jj # i
      BY <1>1
    <3> HIDE DEF jj
    <3>4. QED
      BY <1>1, <3>2, <3>3 DEF ToSet
  <2>2. ASSUME NEW x \in ToSet(q) \ {q[i]}
        PROVE  x \in ToSet(p)
    <3>1. PICK j \in 1 .. n : x = q[j]
      BY <1>1 DEF ToSet
    <3>2. j # i /\ j \in Int /\ i \in Int /\ n \in Nat
      BY <1>1, <3>1
    <3>3. CASE j < i
      <4>1. j \in 1 .. n - 1 /\ p[j] = x
        BY <1>1, <1>4, <3>1, <3>2, <3>3
      <4>2. QED
        BY <1>6, <4>1 DEF ToSet
    <3>4. CASE ~(j < i)
      <4>1. j - 1 \in 1 .. n - 1 /\ ~(j - 1 < i) /\ (j - 1) + 1 = j
        BY <1>1, <3>2, <3>4
      <4>2. p[j - 1] = x
        BY <1>4, <3>1, <4>1
      <4>3. QED
        BY <1>6, <4>1, <4>2 DEF ToSet
    <3>5. QED
      BY <3>3, <3>4
  <2>3. QED
    BY <2>1, <2>2
<1>9. i # 1 => p # <<>> /\ p[1] = q[1]
  <2> SUFFICES ASSUME i # 1
               PROVE  p # <<>> /\ p[1] = q[1]
    OBVIOUS
  <2>1. 1 \in 1 .. n - 1 /\ 1 < i
    BY <1>1
  <2>2. QED
    BY <1>4, <1>6, <2>1
<1>10. QED
  BY <1>4, <1>5, <1>7, <1>8, <1>9 DEF Line

LEMMA EmptyLine == Line(<<>>) /\ ToSet(<<>>) = {}
BY DEF Line, IsInjective, ToSet

LEMMA FirstInLineIs ==
  ASSUME NEW q, Line(q), NEW r, IsPrefix(<<r>>, q)
  PROVE  q # <<>> /\ q[1] = r
<1>1. q \in Seq(Request) /\ Len(q) \in Nat /\ \A i \in 1 .. Len(q) : q[i] \in Request
  BY DEF Line
<1>2. /\ <<r>> \in Seq({r}) /\ Len(<<r>>) = 1 /\ <<r>>[1] = r
      /\ \A i \in 1 .. 1 : <<r>>[i] \in {r}
  OBVIOUS
<1>3. 1 <= Len(q) /\ SubSeq(<<r>>, 1, 1) = SubSeq(q, 1, 1)
  BY <1>2 DEF IsPrefix
<1>4. 1 \in Int /\ 1 \in 1 .. 1 - 1 + 1 /\ 1 + 1 - 1 = 1 /\ \A i \in 1 .. 1 : q[i] \in Request
  BY <1>1, <1>3
<1>5. SubSeq(<<r>>, 1, 1)[1] = <<r>>[1]
  BY <1>2, <1>4, SubSeqProperties
<1>6. SubSeq(q, 1, 1)[1] = q[1]
  BY <1>4, SubSeqProperties
<1>7. QED
  BY <1>1, <1>2, <1>3, <1>5, <1>6

(* Who sleeps is the first in line.                                        *)
SleepersLead ==
  \A r \in Request : request[r].stage = "sleep" => queue # <<>> /\ queue[1] = r

LineInv == TypeOK /\ SleepersLead

Sending == [at : 0 .. MaxTime, delay : 1 .. MAX_DELAY]

(* A request changes its stage, and the line is what it should be then.    *)
LEMMA Placed ==
  ASSUME LineInv, NEW r \in Request, NEW stage \in Stage, NEW d \in 0 .. MAX_DELAY,
         At(r, stage, d), NEW p, queue' = p, Line(p),
         ToSet(p) = (ToSet(queue) \ {r}) \cup {q \in {r} : stage \in {"queue", "sleep"}},
         \A q \in Request \ {r} : request[q].stage = "sleep" => p # <<>> /\ p[1] = q,
         stage = "sleep" => p # <<>> /\ p[1] = r,
         now' \in 0 .. MaxTime, nextSlot' \in Nat, released' \in Seq(Sending)
  PROVE  LineInv'
<1>1. /\ request \in [Request -> [stage : Stage, delay : 0 .. MAX_DELAY]]
      /\ ToSet(queue) = {q \in Request : request[q].stage \in {"queue", "sleep"}}
  BY DEF LineInv, TypeOK
<1>2. request' = [request EXCEPT ![r] = [stage |-> stage, delay |-> d]]
  BY DEF At
<1>3. /\ request' \in [Request -> [stage : Stage, delay : 0 .. MAX_DELAY]]
      /\ \A q \in Request : q # r => request'[q] = request[q]
      /\ request'[r].stage = stage
  BY <1>1, <1>2
<1>4. ToSet(p) = {q \in Request : request'[q].stage \in {"queue", "sleep"}}
  BY <1>1, <1>3
<1>5. \A q \in Request : request'[q].stage = "sleep" => p # <<>> /\ p[1] = q
  BY <1>3
<1>6. p \in Seq(Request) /\ IsInjective(p)
  BY DEF Line
<1>7. SleepersLead'
  BY <1>5 DEF SleepersLead
<1>8. QED
  BY <1>3, <1>4, <1>6, <1>7 DEF LineInv, TypeOK, Sending

LEMMA LineInvMeans ==
  ASSUME LineInv
  PROVE  /\ Line(queue) /\ now \in 0 .. MaxTime /\ nextSlot \in Nat /\ released \in Seq(Sending)
         /\ \A r \in Request :
              /\ request[r].stage \in Stage /\ request[r].delay \in 0 .. MAX_DELAY
              /\ r \in ToSet(queue) <=> request[r].stage \in {"queue", "sleep"}
              /\ request[r].stage = "sleep" => queue # <<>> /\ queue[1] = r
<1>1. TypeOK /\ SleepersLead
  BY DEF LineInv
<1>2. /\ Line(queue) /\ now \in 0 .. MaxTime /\ nextSlot \in Nat /\ released \in Seq(Sending)
  BY <1>1 DEF TypeOK, Line, Sending
<1>3. /\ request \in [Request -> [stage : Stage, delay : 0 .. MAX_DELAY]]
      /\ ToSet(queue) = {q \in Request : request[q].stage \in {"queue", "sleep"}}
  BY <1>1 DEF TypeOK
<1>4. QED
  BY <1>1, <1>2, <1>3 DEF SleepersLead

(* A request is sent and takes its place in the line with it.              *)
LEMMA ReleaseKeepsLine ==
  ASSUME LineInv, NEW r \in Request, NEW s \in Nat, NEW d \in 1 .. MAX_DELAY, NEW line,
         Release(r, s, d, line), UNCHANGED now, Line(line), ToSet(line) = ToSet(queue) \ {r},
         \A q \in Request \ {r} : request[q].stage # "sleep"
  PROVE  LineInv'
<1>1. now \in 0 .. MaxTime /\ released \in Seq(Sending) /\ MAX_DELAY \in Nat
  BY LineInvMeans, DelayAssumption
<1>2. [at |-> now, delay |-> d] \in Sending
  BY <1>1 DEF Sending
<1>3. released' \in Seq(Sending)
  BY <1>1, <1>2 DEF Release
<1>4. nextSlot' \in Nat
  BY <1>1 DEF Release
<1>5. At(r, "idle", 0) /\ queue' = line /\ 0 \in 0 .. MAX_DELAY /\ "idle" \in Stage
  BY <1>1 DEF Release, Leave, At, Idle, Stage
<1>6. ToSet(line) = (ToSet(queue) \ {r}) \cup {q \in {r} : "idle" \in {"queue", "sleep"}}
  OBVIOUS
<1>7. QED
  BY <1>1, <1>3, <1>4, <1>5, <1>6, Placed

(* A request gets the lock, and is sent or goes to sleep.                  *)
LEMMA HoldKeepsLine ==
  ASSUME LineInv, NEW r \in Request, NEW d \in 1 .. MAX_DELAY, NEW line,
         Hold(r, d, line), UNCHANGED now, Line(line), ToSet(line) = ToSet(queue) \ {r},
         \A q \in Request \ {r} : request[q].stage # "sleep"
  PROVE  LineInv'
<1>1. now \in Nat /\ now \in 0 .. MaxTime /\ nextSlot \in Nat /\ released \in Seq(Sending)
      /\ d \in 0 .. MAX_DELAY
  BY LineInvMeans
<1>2. CASE nextSlot > now
  <2>1. At(r, "sleep", d) /\ queue' = <<r>> \o line /\ UNCHANGED <<nextSlot, released>>
    BY <1>2 DEF Hold
  <2>2. r \notin ToSet(line)
    OBVIOUS
  <2>3. /\ Line(<<r>> \o line) /\ ToSet(<<r>> \o line) = ToSet(line) \cup {r}
        /\ (<<r>> \o line)[1] = r
    BY <2>2, FirstLine
  <2>4. <<r>> \o line # <<>>
    <3>1. r \in ToSet(<<r>> \o line)
      BY <2>3
    <3>2. QED
      BY <3>1, EmptyLine
  <2> DEFINE p == <<r>> \o line
  <2>5. queue' = p /\ Line(p) /\ p # <<>> /\ p[1] = r
        /\ ToSet(p) = (ToSet(queue) \ {r}) \cup {q \in {r} : "sleep" \in {"queue", "sleep"}}
    BY <2>1, <2>3, <2>4
  <2> HIDE DEF p
  <2>6. "sleep" \in Stage
    BY DEF Stage
  <2>7. QED
    BY <1>1, <2>1, <2>5, <2>6, Placed
<1>3. CASE ~(nextSlot > now)
  <2>1. Release(r, now, d, line)
    BY <1>3 DEF Hold
  <2>2. QED
    BY <1>1, <2>1, ReleaseKeepsLine
<1>4. QED
  BY <1>2, <1>3

LEMMA LineInvNext == ASSUME LineInv, GuardInv, [Next]_vars PROVE LineInv'
<1>1. /\ Line(queue) /\ now \in 0 .. MaxTime /\ nextSlot \in Nat /\ released \in Seq(Sending)
      /\ \A r \in Request :
           /\ request[r].stage \in Stage /\ request[r].delay \in 0 .. MAX_DELAY
           /\ r \in ToSet(queue) <=> request[r].stage \in {"queue", "sleep"}
           /\ request[r].stage = "sleep" => queue # <<>> /\ queue[1] = r
      /\ \A r \in Request :
           request[r].stage \in {"queue", "sleep"} => request[r].delay \in 1 .. MAX_DELAY
  BY LineInvMeans DEF GuardInv, GuardTypes, Waits
<1>2. 0 \in 0 .. MAX_DELAY /\ "idle" \in Stage /\ "check" \in Stage /\ "queue" \in Stage
  BY DelayAssumption DEF Stage
<1>3. CASE UNCHANGED vars
  BY <1>3 DEF vars, LineInv, TypeOK, SleepersLead
<1>4. ASSUME NEW r \in Request, Begin(r) \/ Refuse(r) \/ (\E d \in Delay : Send(r, d))
      PROVE  LineInv'
  <2>1. PICK stage \in {"idle", "check"} : At(r, stage, 0)
    BY <1>4 DEF Begin, Refuse, Send, Leave, At, Idle
  <2>2. UNCHANGED <<now, queue, nextSlot, released>> /\ request[r].stage \in {"idle", "check"}
    BY <1>4 DEF Begin, Refuse, Send
  <2> DEFINE p == queue
  <2>3. ToSet(p) = (ToSet(queue) \ {r}) \cup {q \in {r} : stage \in {"queue", "sleep"}}
    BY <1>1, <2>1, <2>2
  <2>4. stage \in Stage /\ stage # "sleep"
    BY <1>2, <2>1
  <2>5. QED
    BY <1>1, <1>2, <2>1, <2>2, <2>3, <2>4, Placed
<1>5. ASSUME NEW r \in Request, NEW d \in Delay, WaitTurn(r, d)
      PROVE  LineInv'
  <2>1. DelayFor(d) \in 1 .. MAX_DELAY /\ DelayFor(d) \in 0 .. MAX_DELAY
    BY <1>5, DelayForType, DelayAssumption DEF WaitTurn
  <2>2. r \notin ToSet(queue) /\ now' = now
    BY <1>1, <1>5 DEF WaitTurn
  <2>3. CASE queue = <<>>
    <3>1. Hold(r, DelayFor(d), <<>>)
      BY <1>5, <2>3 DEF WaitTurn
    <3>2. Line(<<>>) /\ ToSet(<<>>) = ToSet(queue) \ {r}
      BY <2>3, EmptyLine
    <3>3. \A q \in Request \ {r} : request[q].stage # "sleep"
      BY <1>1, <2>3
    <3>4. QED
      BY <2>1, <2>2, <3>1, <3>2, <3>3, HoldKeepsLine
  <2>4. CASE queue # <<>>
    <3> DEFINE p == Append(queue, r)
    <3>1. At(r, "queue", DelayFor(d)) /\ queue' = p /\ UNCHANGED <<nextSlot, released>>
      BY <1>5, <2>4 DEF WaitTurn
    <3>2. Line(p) /\ ToSet(p) = ToSet(queue) \cup {r} /\ p[1] = queue[1]
      BY <1>1, <2>2, <2>4, LastLine
    <3>3. p # <<>>
      <4>1. r \in ToSet(p)
        BY <3>2
      <4>2. QED
        BY <4>1, EmptyLine
    <3> HIDE DEF p
    <3>4. ToSet(p) = (ToSet(queue) \ {r}) \cup {q \in {r} : "queue" \in {"queue", "sleep"}}
      BY <3>2
    <3>5. \A q \in Request \ {r} : request[q].stage = "sleep" => p # <<>> /\ p[1] = q
      BY <1>1, <3>2, <3>3
    <3>6. QED
      BY <1>1, <1>2, <2>1, <2>2, <3>1, <3>2, <3>4, <3>5, Placed
  <2>5. QED
    BY <2>3, <2>4
<1>6. ASSUME NEW r \in Request, request[r].stage \in {"queue", "sleep"}, queue # <<>>,
             queue[1] = r
      PROVE  /\ Line(Tail(queue)) /\ ToSet(Tail(queue)) = ToSet(queue) \ {r}
             /\ \A q \in Request \ {r} : request[q].stage # "sleep"
  BY <1>1, <1>6, TailLine
<1>7. ASSUME NEW r \in Request, Resume(r)
      PROVE  LineInv'
  <2>1. /\ request[r].stage = "queue" /\ IsPrefix(<<r>>, queue) /\ now' = now
        /\ Hold(r, request[r].delay, Tail(queue))
    BY <1>7 DEF Resume, FirstInLine
  <2>2. queue # <<>> /\ queue[1] = r
    BY <1>1, <2>1, FirstInLineIs
  <2>3. QED
    BY <1>1, <1>6, <2>1, <2>2, HoldKeepsLine
<1>8. ASSUME NEW r \in Request, Wake(r)
      PROVE  LineInv'
  <2>1. /\ request[r].stage = "sleep" /\ now' = now
        /\ Release(r, nextSlot, request[r].delay, Tail(queue))
    BY <1>8 DEF Wake
  <2>2. QED
    BY <1>1, <1>6, <2>1, ReleaseKeepsLine
<1>9. ASSUME NEW r \in Request, Cancel(r)
      PROVE  LineInv'
  <2>1. At(r, "idle", 0) /\ StepOut(r) /\ UNCHANGED <<now, nextSlot, released>>
    BY <1>9 DEF Cancel, Leave, At, Idle
  <2>2. PICK p : /\ queue' = p /\ Line(p) /\ ToSet(p) = ToSet(queue) \ {r}
                 /\ \A q \in Request \ {r} : request[q].stage = "sleep" => p # <<>> /\ p[1] = q
    <3>1. CASE r \notin ToSet(queue) /\ queue' = queue
      BY <1>1, <3>1
    <3>2. CASE \E i \in DOMAIN queue : queue[i] = r /\ queue' = RemoveAt(queue, i)
      <4>1. PICK i \in DOMAIN queue : queue[i] = r /\ queue' = RemoveAt(queue, i)
        BY <3>2
      <4> DEFINE p == RemoveAt(queue, i)
      <4>2. /\ Line(p) /\ ToSet(p) = ToSet(queue) \ {r}
            /\ i # 1 => p # <<>> /\ p[1] = queue[1]
        BY <1>1, <4>1, OutOfLine
      <4> HIDE DEF p
      <4>3. ASSUME NEW q \in Request \ {r}, request[q].stage = "sleep"
            PROVE  p # <<>> /\ p[1] = q
        BY <1>1, <4>1, <4>2, <4>3
      <4>4. QED
        BY <4>1, <4>2, <4>3 DEF p
    <3>3. QED
      BY <2>1, <3>1, <3>2 DEF StepOut
  <2>3. ToSet(p) = (ToSet(queue) \ {r}) \cup {q \in {r} : "idle" \in {"queue", "sleep"}}
    BY <2>2
  <2>4. QED
    BY <1>1, <1>2, <2>1, <2>2, <2>3, Placed
<1>10. CASE Tick
  <2>1. now' \in 0 .. MaxTime
    BY <1>1, <1>10, TimeAssumption DEF Tick
  <2>2. QED
    BY <1>10, <2>1 DEF Tick, LineInv, TypeOK, SleepersLead
<1>11. QED
  BY <1>3, <1>4, <1>5, <1>7, <1>8, <1>9, <1>10 DEF Next, Check

LEMMA LineInvInit == ASSUME Init PROVE LineInv
<1>1. 0 \in 0 .. MaxTime /\ 0 \in 0 .. MAX_DELAY /\ "idle" \in Stage
  BY TimeAssumption, DelayAssumption DEF Stage
<1>2. /\ request \in [Request -> [stage : Stage, delay : 0 .. MAX_DELAY]]
      /\ \A r \in Request : request[r].stage = "idle"
  BY <1>1 DEF Init, Idle
<1>3. queue \in Seq(Request) /\ IsInjective(queue) /\ ToSet(queue) = {}
  BY EmptyLine DEF Init, Line
<1>4. ToSet(queue) = {r \in Request : request[r].stage \in {"queue", "sleep"}}
  BY <1>2, <1>3
<1>5. now \in 0 .. MaxTime /\ nextSlot \in Nat /\ released \in Seq(Sending)
  BY <1>1 DEF Init
<1>6. SleepersLead
  BY <1>2 DEF SleepersLead
<1>7. QED
  BY <1>2, <1>3, <1>4, <1>5, <1>6 DEF LineInv, TypeOK, Sending

(* Whoever is cancelled or woken late, the tasks that wait are those in    *)
(* the line, each once, and the one that sleeps with the lock is its       *)
(* first; only a hop to Site is in the guard (guard.py:66-97).             *)
THEOREM ClientTypes == ClientSpec => []ClientTypeOK
<1>1. Init => LineInv
  BY LineInvInit
<1>2. LineInv /\ GuardInv /\ [Next]_vars => LineInv'
  BY LineInvNext
<1>3. LineInv /\ HopInv => ClientTypeOK
  BY DEF LineInv, HopInv, ClientTypeOK
<1>4. QED
  BY <1>1, <1>2, <1>3, ClientsAreGuarded, GuardInvariant, ClientInvariant, PTL DEF GuardSafety

=============================================================================
