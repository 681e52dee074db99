----------------------------- MODULE RateLimit -----------------------------
(***************************************************************************)
(* The directory's daily call budget (directory/src/ratelimit.ts).  Every  *)
(* POST to /register/challenge and /register/submit first asks it.  The    *)
(* day is computed before the database is called, the counting itself is   *)
(* one atomic D1 batch, and any number of calls are between the two.       *)
(*                                                                         *)
(* Time is counted in abstract units.  A slot is one call; it is not       *)
(* reused, so its final stage is the record of what was answered.          *)
(***************************************************************************)
EXTENDS Integers, FiniteSets

CONSTANTS
  Slot,       (* calls, each made once                                     *)
  Address,    (* client addresses: [family, net, host]                     *)
  Limit,      (* PER_IP_PER_DAY                                            *)
  DayLength,  (* time units in a day                                       *)
  MaxTime     (* bound on the clock                                        *)

ASSUME SlotAssumption == IsFiniteSet(Slot)
ASSUME AddressAssumption == Address # {}
ASSUME LimitAssumption == Limit \in Nat
ASSUME TimeAssumption == DayLength \in Nat \ {0} /\ MaxTime \in Nat

VARIABLES
  clock,      (* Date.now()                                                *)
  ratelimit,  (* the count of each row of the ratelimit table, 0: no row   *)
  call        (* per slot: how far the budget check of that call has got   *)

limitVars == <<clock, ratelimit, call>>

-----------------------------------------------------------------------------

Scope == {"challenge", "submit"}
Stage == {"idle", "counting", "allowed", "refused", "failed"}

DayOf(t) == t \div DayLength
Day == 0 .. DayOf(MaxTime)

(* IPv4 counts as it is, an IPv4-mapped IPv6 address as the IPv4 address   *)
(* it maps, any other IPv6 address as its /64 network.                     *)
ipBucket(a) ==
  IF a.family \in {"v4", "mapped"} THEN <<"v4", a.net, a.host>>
                                   ELSE <<"v6", a.net, "::/64">>

Bucket == {ipBucket(a) : a \in Address}
Row == Scope \X Bucket \X Day

Call == [stage : Stage, scope : Scope, bucket : Bucket, day : Day]
RowOf(c) == <<c.scope, c.bucket, c.day>>

(* Slip: yesterday's rows go too.                                          *)
PurgedYesterday(table, today) ==
  [r \in Row |-> IF r[3] < today THEN 0 ELSE table[r]]

(* DELETE FROM ratelimit WHERE day_bucket < today - 1                      *)
Purged(table, today) ==
  [r \in Row |-> IF r[3] < today - 1 THEN 0 ELSE table[r]]

(* The batch: purge, upsert the call's row, read the count back.           *)
Counted(table, c) ==
  [Purged(table, c.day) EXCEPT ![RowOf(c)] = @ + 1]

-----------------------------------------------------------------------------

LimitInit ==
  /\ clock = 0
  /\ ratelimit = [r \in Row |-> 0]
  /\ call \in [Slot -> [stage : {"idle"}, scope : {"challenge"},
                        bucket : {CHOOSE b \in Bucket : TRUE}, day : {0}]]

(* checkAndIncrementRateLimit is entered: the day and the key are fixed.   *)
BeginCall(s, scope, a) ==
  /\ call[s].stage = "idle"
  /\ call' = [call EXCEPT ![s] = [stage |-> "counting", scope |-> scope,
                                  bucket |-> ipBucket(a), day |-> DayOf(clock)]]
  /\ UNCHANGED <<clock, ratelimit>>

(* Slip: challenges and submits spend one budget.                          *)
CountCallOneScope(s) ==
  LET c == [call[s] EXCEPT !.scope = "submit"] IN
  /\ call[s].stage = "counting"
  /\ ratelimit' = Counted(ratelimit, c)
  /\ call' = [call EXCEPT ![s].stage =
                IF ratelimit'[RowOf(c)] <= Limit THEN "allowed" ELSE "refused"]
  /\ UNCHANGED clock

(* The batch runs.  A refused call has been counted too.                   *)
CountCall(s) ==
  /\ call[s].stage = "counting"
  /\ ratelimit' = Counted(ratelimit, call[s])
  /\ call' = [call EXCEPT ![s].stage =
                IF ratelimit'[RowOf(call[s])] <= Limit THEN "allowed" ELSE "refused"]
  /\ UNCHANGED clock

(* The batch fails and changes nothing; the request is answered with a 500. *)
FailCall(s) ==
  /\ call[s].stage = "counting"
  /\ call' = [call EXCEPT ![s].stage = "failed"]
  /\ UNCHANGED <<clock, ratelimit>>

(* Time passes.  A call is between its day and its batch for less than a   *)
(* day: the Workers runtime cuts a request off long before that.           *)
BatchWithinADay ==
  \A s \in Slot :
    call[s].stage = "counting" => DayOf(clock + 1) <= call[s].day + 1

Tick ==
  /\ clock < MaxTime
  /\ BatchWithinADay
  /\ clock' = clock + 1
  /\ UNCHANGED <<ratelimit, call>>

LimitNext ==
  \/ \E s \in Slot, scope \in Scope, a \in Address : BeginCall(s, scope, a)
  \/ \E s \in Slot : CountCall(s) \/ FailCall(s)
  \/ Tick

LimitSpec == LimitInit /\ [][LimitNext]_limitVars

-----------------------------------------------------------------------------

LimitTypeOK ==
  /\ clock \in 0 .. MaxTime
  /\ ratelimit \in [Row -> Nat]
  /\ call \in [Slot -> Call]

CallsOf(r, stages) ==
  {s \in Slot : call[s].stage \in stages /\ RowOf(call[s]) = r}

(* A client gets no more than Limit calls of a scope through in a day, by  *)
(* whatever addresses of its /64 and at whatever point around midnight     *)
(* they are counted: the cleanup keeps yesterday's rows, which late calls  *)
(* still count into (ratelimit.ts:47-70).                                  *)
BudgetHolds ==
  \A r \in Row : Cardinality(CallsOf(r, {"allowed"})) <= Limit

(* A call is refused only when Limit other calls of that same scope and    *)
(* client were counted that day: challenges never spend the budget of      *)
(* submits, nor one client another's (ratelimit.ts:3-7).                   *)
RefusedOnlyOverBudget ==
  \A s \in Slot : call[s].stage = "refused" =>
    Cardinality(CallsOf(RowOf(call[s]), {"allowed", "refused"}) \ {s}) >= Limit

=============================================================================
