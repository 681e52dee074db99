------------------------------- MODULE Pacing -------------------------------
(***************************************************************************)
(* What an origin may expect of a client that keeps its Crawl-delay: the   *)
(* requests go out in slots, each at its slot or at most LATE after it,    *)
(* and the slot of a request is its delay away from the next one.          *)
(* PolicyGuard, with its lock, its line and its sleepers, implements it.   *)
(***************************************************************************)
EXTENDS Integers, Sequences

CONSTANTS Delay, LATE, MaxTime

VARIABLES
  now,   (* the time                                                       *)
  slot,  (* the earliest slot of the next request                          *)
  sent   (* the requests sent: when, and the delay each keeps              *)

Init == now = 0 /\ slot = 0 /\ sent = <<>>

(* A request that keeps the delay d goes out in the slot s.                *)
Send(s, d) ==
  /\ s \in slot .. now
  /\ now <= s + LATE
  /\ slot' = s + d
  /\ sent' = Append(sent, [at |-> now, delay |-> d])
  /\ UNCHANGED now

Tick ==
  /\ now < MaxTime
  /\ now' = now + 1
  /\ UNCHANGED <<slot, sent>>

Next == Tick \/ \E s \in 0 .. now, d \in Delay : Send(s, d)

Spec == Init /\ [][Next]_<<now, slot, sent>>

=============================================================================
