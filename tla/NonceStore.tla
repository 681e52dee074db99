----------------------------- MODULE NonceStore -----------------------------
(***************************************************************************)
(* The memory of nonces already seen, python/src/wbauth/verifier.py        *)
(* l.156-174 and typescript/src/verifier.ts l.61-81.  Both keep a map that *)
(* iterates in the order its nonces were first set, which is what `older`  *)
(* says, and differ in how many nonces give way when the map is full of    *)
(* live ones: a tenth of its size in Python, one in TypeScript.            *)
(***************************************************************************)
EXTENDS Integers, FiniteSets

CONSTANTS
  Nonce,
  MAXSIZE,   (* maxsize, maxSize                                           *)
  DROP       (* maxsize // 10; 1 in TypeScript                             *)

ASSUME StoreAssumption == MAXSIZE \in Nat \ {0} /\ DROP \in 1 .. MAXSIZE

VARIABLES
  until,     (* per nonce that is kept: when what is kept of it ends       *)
  older,     (* the pairs of them of which the first was set first         *)
  forgotten  (* history: nonces that gave way while they were live         *)

storeVars == <<until, older, forgotten>>

StoreInit ==
  /\ until = <<>>
  /\ older = {}
  /\ forgotten = {}

Live(now) == {n \in DOMAIN until : until[n] > now}

(* The first DROP of the nonces S in the order of the map.                 *)
Oldest(S) == {n \in S : Cardinality({m \in S : <<m, n>> \in older}) < DROP}

(* Slip: a full store drops what has expired, and nothing else.            *)
RoomIfExpired(now) ==
  IF Cardinality(DOMAIN until) < MAXSIZE THEN DOMAIN until ELSE Live(now)

(* What is kept when a nonce comes in: everything while there is room,     *)
(* otherwise what is live, and the oldest of it gives way if need be.      *)
Room(now) ==
  IF Cardinality(DOMAIN until) < MAXSIZE THEN DOMAIN until
  ELSE IF Cardinality(Live(now)) < MAXSIZE THEN Live(now)
  ELSE Live(now) \ Oldest(Live(now))

(* seen(n, end): whether n is kept and live; if not, it is kept until end. *)
(* The map makes room before it looks n up, and may drop n itself.         *)
Known(n, now) == n \in Room(now) /\ until[n] > now

(* Slip: a nonce that is set again comes last.                             *)
OrderSetLast(n, now) ==
  (older \cap (Room(now) \X Room(now))) \cup (Room(now) \X {n})

(* A map keeps the place of what is set again.                             *)
Order(n, now) ==
  (older \cap (Room(now) \X Room(now))) \cup ((Room(now) \ {n}) \X ({n} \ Room(now)))

seen(n, end, now) ==
  /\ until' = [m \in Room(now) \cup {n} |->
                 IF m = n /\ ~Known(n, now) THEN end ELSE until[m]]
  /\ older' = Order(n, now)
  /\ forgotten' = forgotten \cup (Live(now) \ Room(now))

(* The order is that of a list: any two nonces are in it one way.          *)
Ordered ==
  /\ older \subseteq (DOMAIN until) \X (DOMAIN until)
  /\ \A m, n \in DOMAIN until : m = n \/ <<m, n>> \in older \/ <<n, m>> \in older
  /\ \A m, n \in DOMAIN until : <<m, n>> \in older => <<n, m>> \notin older
  /\ \A m, n, o \in DOMAIN until : <<m, n>> \in older /\ <<n, o>> \in older => <<m, o>> \in older

StoreTypeOK ==
  /\ DOMAIN until \subseteq Nonce /\ IsFiniteSet(DOMAIN until)
  /\ until \in [DOMAIN until -> Nat]
  /\ Ordered
  /\ forgotten \subseteq Nonce

(* The store never outgrows its limit, whatever it is asked to keep        *)
(* (verifier.py:166-173).                                                  *)
StoreBounded == Cardinality(DOMAIN until) <= MAXSIZE

=============================================================================
