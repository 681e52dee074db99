---------------------------- MODULE PolicyGuard -----------------------------
(***************************************************************************)
(* Spacing the requests to one origin by its Crawl-delay: PolicyGuard in   *)
(* python/src/wbauth/policy/guard.py.  Requests are sent concurrently;     *)
(* each is checked, waits for the lock of the origin, and sleeps there     *)
(* until its slot.  One atomic step from await to await.                   *)
(*                                                                         *)
(* The inspection of the origin is PolicyInspector's subject: here it ends *)
(* in a refusal, or in any of the delays a robots.txt may ask for.  A      *)
(* sleeper may be woken late.                                              *)
(***************************************************************************)
EXTENDS Integers, SequencesExt

CONSTANTS
  Request,     (* tasks that send requests, again and again                *)
  Delay,       (* the Crawl-delays robots.txt may ask for, 0 for none      *)
  MIN_DELAY,   (* min_delay                                                *)
  MAX_DELAY,   (* max_delay                                                *)
  LATE,        (* bound on how late the event loop wakes a sleeper         *)
  Closing,     (* bound on the time requests begin                         *)
  MaxTime      (* bound on the clock                                       *)

ASSUME DelayAssumption == Delay \subseteq Nat /\ MIN_DELAY \in Nat /\ MAX_DELAY \in Nat
ASSUME TimeAssumption == LATE \in Nat /\ Closing \in Nat /\ MaxTime \in Nat

VARIABLES
  now,         (* time.monotonic()                                         *)
  request,     (* per task: where its request is, and the delay it keeps   *)
  queue,       (* who waits for the lock, or sleeps with it, in order      *)
  nextSlot,    (* _next_slot of the origin, 0 before the first             *)
  released     (* history: when requests that keep a delay were sent       *)

vars == <<now, request, queue, nextSlot, released>>

Stage == {"idle", "check", "queue", "sleep"}
Idle == [stage |-> "idle", delay |-> 0]

Larger(a, b) == IF a >= b THEN a ELSE b
Smaller(a, b) == IF a <= b THEN a ELSE b

(* The delay a request keeps when robots.txt asks for d.                   *)
DelayFor(d) == Smaller(Larger(MIN_DELAY, d), MAX_DELAY)

At(r, stage, d) == request' = [request EXCEPT ![r] = [stage |-> stage, delay |-> d]]
Leave(r) == request' = [request EXCEPT ![r] = Idle]

-----------------------------------------------------------------------------

Init ==
  /\ now = 0
  /\ request = [r \in Request |-> Idle]
  /\ queue = <<>>
  /\ nextSlot = 0
  /\ released = <<>>

(* A request is about to be sent: its URL is checked.                      *)
Begin(r) ==
  /\ request[r].stage = "idle"
  /\ now < Closing
  /\ At(r, "check", 0)
  /\ UNCHANGED <<now, queue, nextSlot, released>>

(* The policy forbids it, or the check fails.                              *)
Refuse(r) ==
  /\ request[r].stage = "check"
  /\ Leave(r)
  /\ UNCHANGED <<now, queue, nextSlot, released>>

(* It keeps no delay, and is sent.                                         *)
Send(r, d) ==
  /\ request[r].stage = "check"
  /\ DelayFor(d) = 0
  /\ Leave(r)
  /\ UNCHANGED <<now, queue, nextSlot, released>>

(* r is sent in its slot and keeps the delay d; others wait in line.       *)
Release(r, slot, d, line) ==
  /\ nextSlot' = slot + d
  /\ released' = Append(released, [at |-> now, delay |-> d])
  /\ queue' = line
  /\ Leave(r)

(* r has got the lock, before those in line: it sleeps until the next slot *)
(* if that is to come.                                                     *)
Hold(r, d, line) ==
  IF nextSlot > now
    THEN /\ At(r, "sleep", d)
         /\ queue' = <<r>> \o line
         /\ UNCHANGED <<nextSlot, released>>
    ELSE Release(r, now, d, line)

(* It keeps a delay: it takes the lock, or waits for it in line.           *)
WaitTurn(r, d) ==
  /\ request[r].stage = "check"
  /\ DelayFor(d) > 0
  /\ IF queue = <<>>
       THEN Hold(r, DelayFor(d), <<>>)
       ELSE /\ At(r, "queue", DelayFor(d))
            /\ queue' = Append(queue, r)
            /\ UNCHANGED <<nextSlot, released>>
  /\ UNCHANGED now

FirstInLine(r) == request[r].stage = "queue" /\ IsPrefix(<<r>>, queue)

(* The lock has been released, and the first in line takes it.             *)
Resume(r) ==
  /\ FirstInLine(r)
  /\ Hold(r, request[r].delay, Tail(queue))
  /\ UNCHANGED now

(* Slip: only a request that did not sleep moves the slot on.              *)
WakeKeepsSlot(r) ==
  /\ request[r].stage = "sleep"
  /\ now >= nextSlot
  /\ released' = Append(released, [at |-> now, delay |-> request[r].delay])
  /\ queue' = Tail(queue)
  /\ Leave(r)
  /\ UNCHANGED <<now, nextSlot>>

(* Slip: who waits for the lock is not told that it is free.               *)
WakeAlone(r) ==
  /\ request[r].stage = "sleep"
  /\ now >= nextSlot
  /\ Release(r, nextSlot, request[r].delay, <<>>)
  /\ UNCHANGED now

(* The sleeper is woken, in its slot or later.                             *)
Wake(r) ==
  /\ request[r].stage = "sleep"
  /\ now >= nextSlot
  /\ Release(r, nextSlot, request[r].delay, Tail(queue))
  /\ UNCHANGED now

(* Slip: the lock stays with the task that is cancelled.                   *)
CancelKeepsLock(r) ==
  /\ request[r].stage # "idle"
  /\ Leave(r)
  /\ UNCHANGED <<now, queue, nextSlot, released>>

(* r gives up its place in the line, if it has one.                        *)
StepOut(r) ==
  \/ r \notin ToSet(queue) /\ UNCHANGED queue
  \/ \E i \in DOMAIN queue : queue[i] = r /\ queue' = RemoveAt(queue, i)

(* Slip: a sleeper that is cancelled uses its slot up.                     *)
CancelTakesSlot(r) ==
  /\ request[r].stage # "idle"
  /\ Leave(r)
  /\ StepOut(r)
  /\ nextSlot' = IF request[r].stage = "sleep" THEN nextSlot + request[r].delay ELSE nextSlot
  /\ UNCHANGED <<now, released>>

(* A task is cancelled wherever it waits; the lock is released.            *)
Cancel(r) ==
  /\ request[r].stage # "idle"
  /\ Leave(r)
  /\ StepOut(r)
  /\ UNCHANGED <<now, nextSlot, released>>

(* Time passes; no sleeper is woken later than LATE.  Past Closing, what   *)
(* has begun is checked, and takes the lock, at once.                      *)
Tick ==
  /\ now < MaxTime
  /\ \A r \in Request :
       /\ request[r].stage = "sleep" => now < nextSlot + LATE
       /\ now >= Closing => request[r].stage # "check" /\ ~FirstInLine(r)
  /\ now' = now + 1
  /\ UNCHANGED <<request, queue, nextSlot, released>>

Check(r) == Refuse(r) \/ \E d \in Delay : Send(r, d) \/ WaitTurn(r, d)

Next ==
  \/ \E r \in Request : Begin(r) \/ Check(r) \/ Resume(r) \/ Wake(r) \/ Cancel(r)
  \/ Tick

(* The event loop runs what is ready, an inspection ends (each of its      *)
(* fetches has a timeout), and time goes by.                               *)
Fairness ==
  /\ \A r \in Request : WF_vars(Check(r)) /\ WF_vars(Resume(r)) /\ WF_vars(Wake(r))
  /\ WF_vars(Tick)

Spec == Init /\ [][Next]_vars /\ Fairness

-----------------------------------------------------------------------------

TypeOK ==
  /\ now \in 0 .. MaxTime
  /\ request \in [Request -> [stage : Stage, delay : 0 .. MAX_DELAY]]
  /\ queue \in Seq(Request) /\ IsInjective(queue)
  /\ ToSet(queue) = {r \in Request : request[r].stage \in {"queue", "sleep"}}
  /\ nextSlot \in Nat
  /\ released \in Seq([at : 0 .. MaxTime, delay : 1 .. MAX_DELAY])

(* What the guard promises an origin, without the lock, the line and the   *)
(* tasks: each request goes out in a slot of its own, the next one by its  *)
(* delay later (guard.py:66-81).                                           *)
Pace == INSTANCE Pacing WITH
  now <- now, slot <- nextSlot, sent <- released, Delay <- 1 .. MAX_DELAY, LATE <- LATE,
  MaxTime <- MaxTime

KeepsPace == Pace!Spec

(* None waits longer than the delay after the one before it: a request *)
(* that is cancelled while it waits leaves no gap (guard.py:75-81).        *)
NoGap ==
  \A r \in Request : request[r].stage = "sleep" =>
    released # <<>> /\ nextSlot <= Last(released).at + Last(released).delay

(* Whoever is refused, cancelled or woken late, no request waits for ever  *)
(* (guard.py:57-85).                                                       *)
RequestsEnd == \A r \in Request : request[r].stage # "idle" ~> request[r].stage = "idle"

=============================================================================
