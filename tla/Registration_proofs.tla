------------------------ MODULE Registration_proofs ------------------------
(***************************************************************************)
(* What Registration guarantees for any number of requests, keys, sites    *)
(* and bodies, and any length of time.                                     *)
(***************************************************************************)
EXTENDS Registration, FiniteSetTheorems, TLAPS

(* First the daily budget of RateLimit on its own, for any calls,          *)
(* addresses, limit, day and length of time.                               *)

(* Days are natural numbers and do not run backwards.                      *)
LEMMA DayMonotone ==
  \A a, b \in Nat : a <= b => DayOf(a) \in Nat /\ DayOf(a) <= DayOf(b)
<1> SUFFICES ASSUME NEW a \in Nat, NEW b \in Nat, a <= b
             PROVE  DayOf(a) \in Nat /\ DayOf(a) <= DayOf(b)
  OBVIOUS
<1> DEFINE D == DayLength
<1>1. D \in Nat /\ D > 0
  BY TimeAssumption
<1> HIDE DEF D
<1>2. /\ a \div D \in Int /\ b \div D \in Int
      /\ a = D * (a \div D) + (a % D) /\ b = D * (b \div D) + (b % D)
      /\ a % D \in 0 .. D - 1 /\ b % D \in 0 .. D - 1
  BY <1>1
<1>3. \A q, r \in Int : D * q <= D * r + (D - 1) => q <= r
  BY <1>1
<1>4. QED
  BY <1>1, <1>2, <1>3 DEF DayOf, D

LEMMA DayOfClock ==
  ASSUME NEW t \in 0 .. MaxTime
  PROVE  DayOf(t) \in Day
<1>1. t \in Nat /\ MaxTime \in Nat /\ 0 \in Nat /\ t <= MaxTime /\ 0 <= t
  BY TimeAssumption
<1>2. DayOf(MaxTime) \in Nat /\ DayOf(t) \in Nat /\ DayOf(t) <= DayOf(MaxTime)
  BY <1>1, DayMonotone
<1>3. QED
  BY <1>2 DEF Day

-----------------------------------------------------------------------------

LEMMA CallShape ==
  ASSUME LimitTypeOK, NEW s \in Slot
  PROVE  /\ RowOf(call[s]) \in Row
         /\ call[s].stage \in Stage /\ call[s].scope \in Scope
         /\ call[s].bucket \in Bucket /\ call[s].day \in Day
         /\ RowOf(call[s])[3] = call[s].day
BY DEF LimitTypeOK, Call, RowOf, Row

LEMMA CountedType ==
  ASSUME LimitTypeOK, NEW s \in Slot
  PROVE  Counted(ratelimit, call[s]) \in [Row -> Nat]
BY CallShape DEF LimitTypeOK, Counted, Purged

(* Types are kept by every step of the budget check.                       *)
LEMMA LimitTypeStep == LimitTypeOK /\ [LimitNext]_limitVars => LimitTypeOK'
<1> SUFFICES ASSUME LimitTypeOK, [LimitNext]_limitVars
             PROVE  LimitTypeOK'
  OBVIOUS
<1>1. ASSUME NEW s \in Slot, NEW scope \in Scope, NEW a \in Address, BeginCall(s, scope, a)
      PROVE  LimitTypeOK'
  <2>1. ipBucket(a) \in Bucket
    BY DEF Bucket
  <2>2. DayOf(clock) \in Day
    BY DayOfClock DEF LimitTypeOK
  <2>3. QED
    BY <1>1, <2>1, <2>2 DEF LimitTypeOK, BeginCall, Call, Stage
<1>2. ASSUME NEW s \in Slot, CountCall(s)
      PROVE  LimitTypeOK'
  <2>1. ratelimit' \in [Row -> Nat]
    BY <1>2, CountedType DEF CountCall
  <2>2. call' \in [Slot -> Call]
    BY <1>2 DEF LimitTypeOK, CountCall, Call, Stage
  <2>3. QED
    BY <1>2, <2>1, <2>2 DEF LimitTypeOK, CountCall
<1>3. ASSUME NEW s \in Slot, FailCall(s)
      PROVE  LimitTypeOK'
  BY <1>3 DEF LimitTypeOK, FailCall, Call, Stage
<1>4. CASE Tick
  BY <1>4, TimeAssumption DEF LimitTypeOK, Tick
<1>5. CASE UNCHANGED limitVars
  BY <1>5 DEF LimitTypeOK, limitVars
<1>6. QED
  BY <1>1, <1>2, <1>3, <1>4, <1>5 DEF LimitNext

LEMMA LimitTypeInit == LimitInit => LimitTypeOK
<1> SUFFICES ASSUME LimitInit
             PROVE  LimitTypeOK
  OBVIOUS
<1>1. 0 \in Day
  BY DayOfClock, DayMonotone, TimeAssumption DEF Day
<1>2. (CHOOSE b \in Bucket : TRUE) \in Bucket
  BY AddressAssumption DEF Bucket
<1>3. QED
  BY <1>1, <1>2, TimeAssumption DEF LimitInit, LimitTypeOK, Call, Stage, Scope

-----------------------------------------------------------------------------

(* The budget invariant, strengthened: rows recent enough to be counted    *)
(* into hold at least the calls let through, and no row ever holds more    *)
(* calls than were answered.                                               *)
Through(r) == CallsOf(r, {"allowed"})
Answered(r) == CallsOf(r, {"allowed", "refused"})

LateCallsAreRecent ==
  \A s \in Slot : call[s].stage = "counting" =>
    call[s].day <= DayOf(clock) /\ DayOf(clock) - 1 <= call[s].day

RecentRowsCount ==
  \A r \in Row : DayOf(clock) - 1 <= r[3] => Cardinality(Through(r)) <= ratelimit[r]

RowsOnlyCount ==
  \A r \in Row : ratelimit[r] <= Cardinality(Answered(r))

LimitInv ==
  /\ LimitTypeOK
  /\ LateCallsAreRecent
  /\ RecentRowsCount
  /\ RowsOnlyCount
  /\ BudgetHolds
  /\ RefusedOnlyOverBudget

LEMMA CallsOfFinite ==
  \A r, A : IsFiniteSet(CallsOf(r, A)) /\ Cardinality(CallsOf(r, A)) \in Nat
<1> TAKE r, A
<1>1. CallsOf(r, A) \subseteq Slot
  BY DEF CallsOf
<1>2. QED
  BY <1>1, SlotAssumption, FS_Subset, FS_CardinalityType

(* Steps that answer no call leave the sets of answered calls alone.       *)
LEMMA NoAnswerStep ==
  ASSUME LimitTypeOK,
         \/ \E s \in Slot, scope \in Scope, a \in Address : BeginCall(s, scope, a)
         \/ \E s \in Slot : FailCall(s)
         \/ UNCHANGED call
  PROVE  \A r : Through(r)' = Through(r) /\ Answered(r)' = Answered(r)
<1>1. ASSUME NEW s \in Slot, NEW scope \in Scope, NEW a \in Address, BeginCall(s, scope, a)
      PROVE  \A r : Through(r)' = Through(r) /\ Answered(r)' = Answered(r)
  BY <1>1 DEF BeginCall, Through, Answered, CallsOf, LimitTypeOK, RowOf
<1>2. ASSUME NEW s \in Slot, FailCall(s)
      PROVE  \A r : Through(r)' = Through(r) /\ Answered(r)' = Answered(r)
  BY <1>2 DEF FailCall, Through, Answered, CallsOf, LimitTypeOK, RowOf
<1>3. CASE UNCHANGED call
  BY <1>3 DEF Through, Answered, CallsOf, RowOf
<1>4. QED
  BY <1>1, <1>2, <1>3

(* The batch adds the call to those its row has answered, and to those it  *)
(* let through if the count allows it.                                     *)
LEMMA CountStep ==
  ASSUME LimitTypeOK, NEW s \in Slot, CountCall(s)
  PROVE  /\ s \notin Answered(RowOf(call[s]))
         /\ \A r : Answered(r)' = IF r = RowOf(call[s]) THEN Answered(r) \cup {s} ELSE Answered(r)
         /\ \A r : Through(r)' = IF r = RowOf(call[s]) /\ call'[s].stage = "allowed"
                                 THEN Through(r) \cup {s} ELSE Through(r)
         /\ ratelimit'[RowOf(call[s])] = ratelimit[RowOf(call[s])] + 1
         /\ \A r \in Row : \/ ratelimit'[r] = ratelimit[r]
                            \/ r = RowOf(call[s])
                            \/ (r[3] < call[s].day - 1 /\ ratelimit'[r] = 0)
         /\ call'[s].stage = IF ratelimit'[RowOf(call[s])] <= Limit
                                THEN "allowed" ELSE "refused"
<1> DEFINE r0 == RowOf(call[s])
<1>1. /\ r0 \in Row /\ r0[3] = call[s].day /\ call[s].day \in Int
      /\ \A t \in Slot : call[t] \in Call
  BY CallShape, DayMonotone, TimeAssumption DEF Day, LimitTypeOK
<1>2. \A t \in Slot : RowOf(call'[t]) = RowOf(call[t])
  BY DEF CountCall, RowOf, LimitTypeOK, Call
<1>3. call[s].stage = "counting" /\ \A t \in Slot : t # s => call'[t] = call[t]
  BY DEF CountCall, LimitTypeOK
<1>4. call'[s].stage = IF ratelimit'[r0] <= Limit THEN "allowed" ELSE "refused"
  BY DEF CountCall, LimitTypeOK, Call
<1>5. s \notin Answered(r0) /\ \A r : s \notin Answered(r) /\ s \notin Through(r)
  BY <1>3 DEF Answered, Through, CallsOf
<1>6. \A r : Answered(r)' = IF r = r0 THEN Answered(r) \cup {s} ELSE Answered(r)
  BY <1>2, <1>3, <1>4 DEF Answered, CallsOf
<1>7. \A r : Through(r)' = IF r = r0 /\ call'[s].stage = "allowed"
                           THEN Through(r) \cup {s} ELSE Through(r)
  BY <1>2, <1>3, <1>4 DEF Through, CallsOf
<1>8. ratelimit' = [Purged(ratelimit, call[s].day) EXCEPT ![r0] = @ + 1]
  BY DEF CountCall, Counted
<1>9. ratelimit'[r0] = ratelimit[r0] + 1
  BY <1>1, <1>8 DEF Purged
<1>10. \A r \in Row : \/ ratelimit'[r] = ratelimit[r]
                      \/ r = r0
                      \/ r[3] < call[s].day - 1 /\ ratelimit'[r] = 0
  BY <1>1, <1>8 DEF Purged
<1>11. QED
  BY <1>4, <1>5, <1>6, <1>7, <1>9, <1>10

LEMMA LimitInvInit == LimitInit => LimitInv
<1> SUFFICES ASSUME LimitInit
             PROVE  LimitInv
  OBVIOUS
<1>1. LimitTypeOK
  BY LimitTypeInit
<1>2. \A r : Through(r) = {} /\ Answered(r) = {}
  BY DEF LimitInit, Through, Answered, CallsOf
<1>3. Cardinality({}) = 0
  BY FS_EmptySet
<1>4. LateCallsAreRecent
  BY DEF LimitInit, LateCallsAreRecent
<1>5. RecentRowsCount /\ RowsOnlyCount
  BY <1>2, <1>3 DEF LimitInit, RecentRowsCount, RowsOnlyCount
<1>6. BudgetHolds
  BY <1>2, <1>3, LimitAssumption DEF BudgetHolds, Through
<1>7. RefusedOnlyOverBudget
  BY DEF LimitInit, RefusedOnlyOverBudget
<1>8. QED
  BY <1>1, <1>4, <1>5, <1>6, <1>7 DEF LimitInv

(* A call that is counted keeps the invariant.                             *)
LEMMA CountKeepsInv ==
  ASSUME LimitInv, NEW s \in Slot, CountCall(s)
  PROVE  LimitInv'
<1>1. LimitTypeOK /\ LimitTypeOK'
  BY LimitTypeStep DEF LimitInv, LimitNext
<1>r. PICK r0 \in Row : r0 = RowOf(call[s])
  BY <1>1, CallShape
<1>d. PICK d0 : d0 = DayOf(clock)
  OBVIOUS
<1>2. /\ r0 \in Row /\ r0[3] = call[s].day /\ r0[3] \in Int
      /\ d0 \in Int /\ d0 - 1 <= r0[3] /\ r0[3] <= d0 /\ DayOf(clock)' = d0
      /\ \A r \in Row : r[3] \in Int /\ ratelimit[r] \in Int /\ ratelimit'[r] \in Int
  BY <1>1, <1>r, <1>d, CallShape, DayMonotone, TimeAssumption
     DEF LimitTypeOK, LimitInv, LateCallsAreRecent, CountCall, Row, Day
<1>3. /\ s \notin Answered(r0) /\ s \notin Through(r0)
      /\ \A r : Answered(r)' = IF r = r0 THEN Answered(r) \cup {s} ELSE Answered(r)
      /\ \A r : Through(r)' = IF r = r0 /\ call'[s].stage = "allowed"
                              THEN Through(r) \cup {s} ELSE Through(r)
  BY <1>1, <1>r, CountStep DEF Through, Answered, CallsOf
<1>4. /\ ratelimit'[r0] = ratelimit[r0] + 1
      /\ \A r \in Row : \/ ratelimit'[r] = ratelimit[r]
                         \/ r = r0
                         \/ (r[3] < d0 - 1 /\ ratelimit'[r] = 0)
      /\ call'[s].stage = IF ratelimit'[r0] <= Limit THEN "allowed" ELSE "refused"
  BY <1>1, <1>r, <1>2, CountStep
<1>5. /\ Cardinality(Answered(r0)') = Cardinality(Answered(r0)) + 1
      /\ \A r : r # r0 => Cardinality(Answered(r)') = Cardinality(Answered(r))
      /\ call'[s].stage = "allowed" => Cardinality(Through(r0)') = Cardinality(Through(r0)) + 1
      /\ \A r : r # r0 \/ call'[s].stage # "allowed" =>
           Cardinality(Through(r)') = Cardinality(Through(r))
  BY <1>3, CallsOfFinite, FS_AddElement DEF Answered, Through
<1>6. \A r : Cardinality(Answered(r)) \in Nat /\ Cardinality(Through(r)) \in Nat
  BY CallsOfFinite DEF Answered, Through
<1>7. LateCallsAreRecent'
  BY <1>1 DEF LimitInv, LateCallsAreRecent, CountCall, LimitTypeOK, Call
<1>8. RecentRowsCount'
  BY <1>d, <1>2, <1>4, <1>5, <1>6 DEF LimitInv, RecentRowsCount
<1>9. RowsOnlyCount'
  BY <1>2, <1>4, <1>5, <1>6 DEF LimitInv, RowsOnlyCount
<1>10. BudgetHolds'
  <2> SUFFICES ASSUME NEW r \in Row
               PROVE  Cardinality(Through(r)') <= Limit
    BY DEF BudgetHolds, Through
  <2>1. Cardinality(Through(r)) <= Limit
    BY DEF LimitInv, BudgetHolds, Through
  <2>2. CASE r = r0 /\ call'[s].stage = "allowed"
    <3>1. Cardinality(Through(r0)) <= ratelimit[r0]
      BY <1>d, <1>2 DEF LimitInv, RecentRowsCount
    <3>2. ratelimit[r0] + 1 <= Limit
      BY <1>4, <2>2
    <3>3. QED
      BY <1>2, <1>5, <1>6, <2>2, <3>1, <3>2, LimitAssumption
  <2>3. CASE ~(r = r0 /\ call'[s].stage = "allowed")
    BY <1>5, <2>1, <2>3
  <2>4. QED
    BY <2>2, <2>3
<1>11. RefusedOnlyOverBudget'
  <2> SUFFICES ASSUME NEW t \in Slot, call'[t].stage = "refused",
                      NEW r \in Row, r = RowOf(call[t])
               PROVE  Cardinality(Answered(r)' \ {t}) >= Limit
    <3>1. \A t \in Slot : RowOf(call'[t]) = RowOf(call[t]) /\ RowOf(call[t]) \in Row
      BY <1>1, CallShape DEF CountCall, RowOf, LimitTypeOK, Call
    <3>2. QED
      BY <3>1 DEF RefusedOnlyOverBudget, Answered, CallsOf
  <2>2. CASE t = s
    <3>1. r = r0 /\ Answered(r)' \ {t} = Answered(r)
      BY <1>r, <1>3, <2>2
    <3>2. ratelimit[r0] <= Cardinality(Answered(r0)) /\ ratelimit[r0] + 1 > Limit
      BY <1>2, <1>4, <2>2, LimitAssumption DEF LimitInv, RowsOnlyCount
    <3>3. Cardinality(Answered(r0)) >= Limit
      BY <1>2, <1>6, <3>2, LimitAssumption
    <3>4. Cardinality(Answered(r)) >= Limit
      BY <3>1, <3>3
    <3>5. QED
      BY <3>1, <3>4
  <2>3. CASE t # s
    <3>1. call[t].stage = "refused"
      BY <1>1, <2>3 DEF CountCall, LimitTypeOK
    <3>2. Cardinality(Answered(r) \ {t}) >= Limit
      BY <3>1 DEF LimitInv, RefusedOnlyOverBudget, Answered
    <3>3. Answered(r) \ {t} \subseteq Answered(r)' \ {t}
      BY <1>3
    <3>4. IsFiniteSet(Answered(r)' \ {t}) /\ IsFiniteSet(Answered(r) \ {t})
      <4>1. Answered(r)' \ {t} \subseteq Slot /\ Answered(r) \ {t} \subseteq Slot
        BY DEF Answered, CallsOf
      <4>2. QED
        BY <4>1, SlotAssumption, FS_Subset
    <3>5. /\ Cardinality(Answered(r) \ {t}) <= Cardinality(Answered(r)' \ {t})
          /\ Cardinality(Answered(r) \ {t}) \in Nat /\ Cardinality(Answered(r)' \ {t}) \in Nat
      BY <3>3, <3>4, FS_Subset, FS_CardinalityType
    <3>6. QED
      BY <3>2, <3>5, LimitAssumption
  <2>4. QED
    BY <2>2, <2>3
<1>12. QED
  BY <1>1, <1>7, <1>8, <1>9, <1>10, <1>11 DEF LimitInv

(* So does every other step.  A tick may make a row too old to be counted  *)
(* into, never one with a call still on its way.                           *)
LEMMA LimitInvStep == LimitInv /\ [LimitNext]_limitVars => LimitInv'
<1> SUFFICES ASSUME LimitInv, [LimitNext]_limitVars
             PROVE  LimitInv'
  OBVIOUS
<1>1. LimitTypeOK /\ LimitTypeOK'
  BY LimitTypeStep DEF LimitInv
<1>2. CASE \E s \in Slot : CountCall(s)
  BY <1>2, CountKeepsInv
<1>3. ASSUME \A r : Through(r)' = Through(r) /\ Answered(r)' = Answered(r),
             UNCHANGED ratelimit, DayOf(clock) <= DayOf(clock)', LateCallsAreRecent',
             \A s \in Slot : call'[s].stage = "refused" =>
                call[s].stage = "refused" /\ RowOf(call'[s]) = RowOf(call[s])
      PROVE  LimitInv'
  <2>1. DayOf(clock) \in Int /\ DayOf(clock)' \in Int /\ \A r \in Row : r[3] \in Int
    BY <1>1, DayMonotone, TimeAssumption DEF LimitTypeOK, Row, Day
  <2>2. RecentRowsCount' /\ RowsOnlyCount'
    BY <1>3, <2>1 DEF LimitInv, RecentRowsCount, RowsOnlyCount
  <2>3. BudgetHolds'
    BY <1>3 DEF LimitInv, BudgetHolds, Through
  <2>4. RefusedOnlyOverBudget'
    <3> SUFFICES ASSUME NEW s \in Slot, call'[s].stage = "refused",
                        NEW r, r = RowOf(call[s])
                 PROVE  Cardinality(Answered(r)' \ {s}) >= Limit
      BY <1>3 DEF RefusedOnlyOverBudget, Answered, CallsOf
    <3>1. Cardinality(Answered(r) \ {s}) >= Limit
      BY <1>3 DEF LimitInv, RefusedOnlyOverBudget, Answered
    <3>2. QED
      BY <1>3, <3>1
  <2>5. QED
    BY <1>1, <1>3, <2>2, <2>3, <2>4 DEF LimitInv
<1>4. ASSUME NEW s \in Slot, NEW scope \in Scope, NEW a \in Address, BeginCall(s, scope, a)
      PROVE  LimitInv'
  <2>1. \A r : Through(r)' = Through(r) /\ Answered(r)' = Answered(r)
    BY <1>1, <1>4, NoAnswerStep
  <2>2. DayOf(clock) \in Int /\ UNCHANGED clock /\ UNCHANGED ratelimit
    BY <1>1, <1>4, DayMonotone DEF LimitTypeOK, BeginCall
  <2>3. LateCallsAreRecent'
    BY <1>1, <1>4, <2>2 DEF LimitInv, LateCallsAreRecent, BeginCall, LimitTypeOK, Call
  <2>4. \A t \in Slot : call'[t].stage = "refused" =>
          call[t].stage = "refused" /\ RowOf(call'[t]) = RowOf(call[t])
    BY <1>1, <1>4 DEF BeginCall, LimitTypeOK, Call
  <2>5. QED
    BY <1>3, <2>1, <2>2, <2>3, <2>4
<1>5. ASSUME NEW s \in Slot, FailCall(s)
      PROVE  LimitInv'
  <2>1. \A r : Through(r)' = Through(r) /\ Answered(r)' = Answered(r)
    BY <1>1, <1>5, NoAnswerStep
  <2>2. DayOf(clock) \in Int /\ UNCHANGED clock /\ UNCHANGED ratelimit
    BY <1>1, <1>5, DayMonotone DEF LimitTypeOK, FailCall
  <2>3. LateCallsAreRecent'
    BY <1>1, <1>5, <2>2 DEF LimitInv, LateCallsAreRecent, FailCall, LimitTypeOK, Call
  <2>4. \A t \in Slot : call'[t].stage = "refused" =>
          call[t].stage = "refused" /\ RowOf(call'[t]) = RowOf(call[t])
    BY <1>1, <1>5 DEF FailCall, LimitTypeOK, Call
  <2>5. QED
    BY <1>3, <2>1, <2>2, <2>3, <2>4
<1>6. CASE Tick
  <2>1. \A r : Through(r)' = Through(r) /\ Answered(r)' = Answered(r)
    BY <1>1, <1>6, NoAnswerStep DEF Tick
  <2>2. /\ DayOf(clock) \in Int /\ DayOf(clock') \in Int /\ DayOf(clock) <= DayOf(clock')
        /\ DayOf(clock)' = DayOf(clock') /\ \A t \in Slot : call[t].day \in Int
    <3>1. clock \in Nat /\ clock' \in Nat /\ clock <= clock'
      BY <1>1, <1>6, TimeAssumption DEF LimitTypeOK, Tick
    <3>2. \A t \in Slot : call[t].day \in Int
      BY <1>1, DayMonotone, TimeAssumption DEF LimitTypeOK, Call, Day
    <3>3. QED
      BY <3>1, <3>2, DayMonotone DEF DayOf
  <2>3. LateCallsAreRecent'
    BY <1>6, <2>2 DEF LimitInv, LateCallsAreRecent, Tick, BatchWithinADay
  <2>4. QED
    BY <1>3, <1>6, <2>1, <2>2, <2>3 DEF Tick
<1>7. CASE UNCHANGED limitVars
  <2>1. \A r : Through(r)' = Through(r) /\ Answered(r)' = Answered(r)
    BY <1>1, <1>7, NoAnswerStep DEF limitVars
  <2>2. DayOf(clock) \in Int /\ UNCHANGED <<clock, ratelimit, call>>
    BY <1>1, <1>7, DayMonotone DEF LimitTypeOK, limitVars
  <2>3. LateCallsAreRecent'
    BY <2>2 DEF LimitInv, LateCallsAreRecent
  <2>4. QED
    BY <1>3, <2>1, <2>2, <2>3
<1>8. QED
  BY <1>2, <1>4, <1>5, <1>6, <1>7 DEF LimitNext

(* LimitInv is an invariant of the budget check on its own.                *)
THEOREM LimitInvariant == LimitSpec => []LimitInv
BY LimitInvInit, LimitInvStep, PTL DEF LimitSpec

-----------------------------------------------------------------------------

(* Registration makes no step of the budget check that RateLimit does not  *)
(* allow, so what is proved of RateLimit holds of it.                      *)
LEMMA NextIsLimitNext == [Next]_vars => [LimitNext]_limitVars
<1> SUFFICES ASSUME [Next]_vars PROVE [LimitNext]_limitVars
  OBVIOUS
<1>1. ASSUME NEW s \in Slot, NEW a \in Address, ArriveChallenge(s, a) \/ ArriveSubmit(s, a)
      PROVE  LimitNext
  BY <1>1 DEF ArriveChallenge, ArriveSubmit, Arrive, LimitNext, Scope
<1>2. ASSUME NEW s \in Slot, Handle(s) \/ Fail(s)
      PROVE  [LimitNext]_limitVars
  <2>1. CASE PassGate(s)
    BY <2>1 DEF PassGate, LimitNext
  <2>2. CASE Fail(s)
    BY <2>2 DEF Fail, LimitNext
  <2>3. CASE Handle(s) /\ ~PassGate(s)
    BY <2>3 DEF Handle, MintChallenge, InsertChallenge, CheckBody, ReadPrevious, ReadOwn,
       CheckHeaders, SelectChallenge, ConsumeChallenge, AskDomain, UpsertAgent, DropChallenges
  <2>4. QED
    BY <1>2, <2>1, <2>2, <2>3
<1>3. CASE TimePasses
  BY <1>3 DEF TimePasses, LimitNext
<1>4. CASE UNCHANGED vars
  BY <1>4 DEF vars
<1>5. QED
  BY <1>1, <1>2, <1>3, <1>4 DEF Next

THEOREM ImplementsRateLimit == Spec => LimitSpec
BY NextIsLimitNext, PTL DEF Spec, Init, LimitSpec

(* In particular no interleaving of handlers lets a client exceed its      *)
(* daily budget (ratelimit.ts:47-70).                                      *)
THEOREM Budget == Spec => []BudgetHolds
<1>1. LimitInv => BudgetHolds
  BY DEF LimitInv
<1>2. QED
  BY <1>1, ImplementsRateLimit, LimitInvariant, PTL

(* And none refuses a call that is within it, whatever other scopes and    *)
(* clients spend (ratelimit.ts:3-7).                                       *)
THEOREM RefusalsAreOverBudget == Spec => []RefusedOnlyOverBudget
<1>1. LimitInv => RefusedOnlyOverBudget
  BY DEF LimitInv
<1>2. QED
  BY <1>1, ImplementsRateLimit, LimitInvariant, PTL

-----------------------------------------------------------------------------

(* The invariant.  Each part is named for what it is about.                *)
Submitting == {"body", "previous", "own", "headers", "select",
               "consume", "domain", "upsert", "drop"}
Won == {"domain", "upsert", "drop"}

(* The types of the handlers' variables.                                   *)
HandlerTypeOK ==
  /\ pc \in [Slot -> {"none", "gate", "mint", "insert", "done"} \cup Submitting]
  /\ request \in [Slot -> Request \cup {NoRequest}]
  /\ \A s \in Slot : pc[s] # "none" => request[s] \in Request
  /\ at \in [Slot -> Nat]
  /\ unproven \in [Slot -> SUBSET Kid]
  /\ won \in [Slot -> BOOLEAN]
  /\ seen \in [Slot -> Answer]
  /\ reply \in [Slot -> {0, 200, 201, 400, 401, 409, 422, 429, 500}]
  /\ challenges \subseteq Challenge

AgentsTypeOK ==
  /\ Registered \subseteq Kid
  /\ agents \in [Registered -> AgentRow]

(* Which request a handler at an await serves, and who has consumed.       *)
StageInv ==
  \A s \in Slot :
    /\ pc[s] = "none" => ~won[s] /\ reply[s] = 0
    /\ pc[s] \in {"mint", "insert"} => call[s].scope = "challenge"
    /\ pc[s] \in Submitting => call[s].scope = "submit"
    /\ pc[s] \in Won => won[s]
    /\ won[s] => pc[s] \in Won \cup {"done"} /\ call[s].scope = "submit"
    /\ reply[s] # 0 => pc[s] = "done"
    /\ reply[s] = 200 => call[s].scope = "challenge"
    /\ reply[s] = 201 => won[s]
    /\ at[s] <= clock

(* The challenge named by the slot n has been handed out.                  *)
Minted(n) == pc[n] = "done" /\ reply[n] = 200 /\ call[n].scope = "challenge"

(* A row of registration_challenges is a challenge handed out.             *)
ChallengeInv ==
  \A c \in challenges :
    /\ Minted(c.nonce)
    /\ request[c.nonce].kid = c.kid
    /\ c.expires_at = at[c.nonce] + TTL

(* A submit quotes a challenge handed out before, or a made-up one.        *)
QuoteInv ==
  \A s \in Slot : LET n == request[s].nonce IN
    pc[s] # "none" /\ n # s =>
      /\ Minted(n)
      /\ pc[s] \in {"select", "consume"} \cup Won \/ won[s] => at[n] <= at[s]

(* A submit past the lookup was right about its challenge.                 *)
JudgedInv ==
  \A s \in Slot : LET n == request[s].nonce IN
    pc[s] = "consume" \/ won[s] =>
      /\ n # s
      /\ request[n].kid = request[s].kid
      /\ at[s] <= at[n] + TTL
      /\ request[s].signer = request[s].kid

(* A consumed challenge is gone, and was consumed once.                    *)
SpentInv ==
  /\ \A s \in Slot : won[s] => \A c \in challenges : c.nonce # request[s].nonce
  /\ SingleUse

(* Past the proof of possession a submit carries proven keys only, next to *)
(* the one it signs with; during it, the others are in `unproven`.         *)
KeysInv ==
  /\ \A s \in Slot : pc[s] \in {"own", "headers", "select", "consume"} \cup Won =>
       \A j \in request[s].keys :
         \/ j = request[s].kid
         \/ pc[s] = "own" /\ j \in unproven[s]
         \/ Proven(j)
  /\ EveryPublishedKeyProven

Inv ==
  /\ HandlerTypeOK
  /\ AgentsTypeOK
  /\ StageInv
  /\ ChallengeInv
  /\ QuoteInv
  /\ JudgedInv
  /\ SpentInv
  /\ KeysInv

-----------------------------------------------------------------------------

(* A step is one of these: the case analysis every preservation lemma uses. *)
LEMMA StepCases ==
  ASSUME [Next]_vars
  PROVE  \/ \E s \in Slot, a \in Address : ArriveChallenge(s, a) \/ ArriveSubmit(s, a)
         \/ \E s \in Slot : PassGate(s)
         \/ \E s \in Slot : MintChallenge(s) \/ InsertChallenge(s)
         \/ \E s \in Slot : CheckBody(s) \/ ReadPrevious(s) \/ ReadOwn(s)
         \/ \E s \in Slot : CheckHeaders(s) \/ SelectChallenge(s)
         \/ \E s \in Slot : ConsumeChallenge(s) \/ AskDomain(s)
         \/ \E s \in Slot : UpsertAgent(s) \/ DropChallenges(s)
         \/ \E s \in Slot : Fail(s)
         \/ TimePasses \/ UNCHANGED vars
BY DEF Next, Handle

(* What no step changes: the request of a slot that has one, anything of a *)
(* handler that has answered, and that a challenge was consumed.           *)
Frame(s) ==
  /\ pc[s] # "none" => /\ pc'[s] # "none"
                       /\ request'[s] = request[s]
                       /\ call'[s].scope = call[s].scope
  /\ pc[s] = "done" => pc'[s] = "done" /\ reply'[s] = reply[s] /\ at'[s] = at[s]
  /\ pc[s] \in {"select", "consume"} \cup Won \/ won[s] => at'[s] = at[s]
  /\ won[s] => won'[s]

LEMMA FrameHolds ==
  ASSUME LimitTypeOK, HandlerTypeOK, StageInv, [Next]_vars
  PROVE  \A t \in Slot : Frame(t)
<1> USE DEF Frame, Won, Submitting
<1>1. ASSUME NEW s \in Slot, NEW a \in Address, ArriveChallenge(s, a) \/ ArriveSubmit(s, a)
      PROVE  \A t \in Slot : Frame(t)
  BY <1>1 DEF ArriveChallenge, ArriveSubmit, Arrive, BeginCall, Goto, HandlerTypeOK, LimitTypeOK, StageInv
<1>2. ASSUME NEW s \in Slot, PassGate(s)
      PROVE  \A t \in Slot : Frame(t)
  <2>1. \A t \in Slot : call'[t].scope = call[t].scope
    BY <1>2 DEF PassGate, CountCall, LimitTypeOK, Call
  <2>2. pc[s] = "gate" /\ \A t \in Slot : t # s => pc'[t] = pc[t] /\ reply'[t] = reply[t]
    BY <1>2 DEF PassGate, CountCall, Goto, Respond, HandlerTypeOK, LimitTypeOK, Call
  <2>3. pc'[s] # "none"
    BY <1>2 DEF PassGate, CountCall, Goto, Respond, HandlerTypeOK, LimitTypeOK, Call
  <2>4. UNCHANGED <<request, at, won>>
    BY <1>2 DEF PassGate
  <2>5. QED
    BY <2>1, <2>2, <2>3, <2>4 DEF StageInv
<1>3. ASSUME NEW s \in Slot, MintChallenge(s) \/ InsertChallenge(s)
      PROVE  \A t \in Slot : Frame(t)
  BY <1>3 DEF MintChallenge, InsertChallenge, limitVars, Goto, Respond, HandlerTypeOK, StageInv
<1>4. ASSUME NEW s \in Slot, CheckBody(s) \/ ReadPrevious(s) \/ ReadOwn(s)
      PROVE  \A t \in Slot : Frame(t)
  BY <1>4 DEF CheckBody, ReadPrevious, ReadOwn, limitVars, Goto, Respond, HandlerTypeOK, StageInv
<1>5. ASSUME NEW s \in Slot, CheckHeaders(s) \/ SelectChallenge(s)
      PROVE  \A t \in Slot : Frame(t)
  BY <1>5 DEF CheckHeaders, SelectChallenge, limitVars, Goto, Respond, HandlerTypeOK, StageInv
<1>6. ASSUME NEW s \in Slot, ConsumeChallenge(s) \/ AskDomain(s)
      PROVE  \A t \in Slot : Frame(t)
  BY <1>6 DEF ConsumeChallenge, AskDomain, limitVars, Goto, Respond, HandlerTypeOK, StageInv
<1>7. ASSUME NEW s \in Slot, UpsertAgent(s) \/ DropChallenges(s)
      PROVE  \A t \in Slot : Frame(t)
  BY <1>7 DEF UpsertAgent, DropChallenges, limitVars, Goto, Respond, HandlerTypeOK, StageInv
<1>8. ASSUME NEW s \in Slot, Fail(s)
      PROVE  \A t \in Slot : Frame(t)
  BY <1>8 DEF Fail, FailCall, limitVars, Respond, HandlerTypeOK, LimitTypeOK, StageInv, Call
<1>9. CASE TimePasses \/ UNCHANGED vars
  BY <1>9 DEF TimePasses, Tick, vars, limitVars
<1>10. QED
  BY <1>1, <1>2, <1>3, <1>4, <1>5, <1>6, <1>7, <1>8, <1>9, StepCases

(* Where the handlers' variables may be depends on the whole state only    *)
(* through the types.                                                      *)
LEMMA HandlerTypeStep ==
  ASSUME LimitTypeOK, AgentsTypeOK, HandlerTypeOK, [Next]_vars
  PROVE  HandlerTypeOK'
<1> USE DEF Submitting
<1>1. ASSUME NEW s \in Slot, NEW a \in Address, ArriveChallenge(s, a) \/ ArriveSubmit(s, a)
      PROVE  HandlerTypeOK'
  <2>1. PICK r \in Request : request' = [request EXCEPT ![s] = r]
    <3>1. CASE ArriveChallenge(s, a)
      BY <3>1 DEF ArriveChallenge, Request, Url
    <3>2. CASE ArriveSubmit(s, a)
      <4>1. \A b \in Body, n \in Slot : Quoting(b, n) \in Request
        BY BodyAssumption DEF Quoting, Request
      <4>2. QED
        BY <3>2, <4>1 DEF ArriveSubmit
    <3>3. QED
      BY <1>1, <3>1, <3>2
  <2>2. /\ pc' = [pc EXCEPT ![s] = "gate"]
        /\ UNCHANGED <<at, unproven, won, seen, reply, challenges>>
    BY <1>1 DEF ArriveChallenge, ArriveSubmit, Arrive, Goto
  <2>3. QED
    BY <2>1, <2>2 DEF HandlerTypeOK
<1>2. ASSUME NEW s \in Slot, PassGate(s)
      PROVE  HandlerTypeOK'
  BY <1>2 DEF PassGate, Goto, Respond, HandlerTypeOK
<1>3. ASSUME NEW s \in Slot, MintChallenge(s)
      PROVE  HandlerTypeOK'
  BY <1>3, TimeAssumption DEF MintChallenge, Goto, HandlerTypeOK, LimitTypeOK
<1>4. ASSUME NEW s \in Slot, InsertChallenge(s)
      PROVE  HandlerTypeOK'
  <2>1. request[s] \in Request
    BY <1>4 DEF InsertChallenge, HandlerTypeOK
  <2>2. [nonce |-> s, kid |-> request[s].kid, expires_at |-> at[s] + TTL] \in Challenge
    BY <2>1, TTLAssumption DEF HandlerTypeOK, Challenge, Request
  <2>3. QED
    BY <1>4, <2>2 DEF InsertChallenge, Respond, HandlerTypeOK
<1>5. ASSUME NEW s \in Slot, CheckBody(s) \/ ReadPrevious(s) \/ ReadOwn(s)
      PROVE  HandlerTypeOK'
  <2>1. request[s] \in Request
    BY <1>5 DEF CheckBody, ReadPrevious, ReadOwn, HandlerTypeOK
  <2>2. CASE CheckBody(s)
    <3>1. \/ Respond(s, 422) \/ Respond(s, 400)
          \/ Goto(s, "headers") \/ Goto(s, "previous")
      BY <2>2 DEF CheckBody
    <3>2. UNCHANGED <<request, at, unproven, won, seen, challenges>> /\ pc[s] = "body"
      BY <2>2 DEF CheckBody
    <3>3. QED
      BY <3>1, <3>2 DEF Goto, Respond, HandlerTypeOK
  <2>3. CASE ReadPrevious(s)
    <3>1. Extra(request[s]) \ Published[request[s].kid] \subseteq Kid
      BY <2>1 DEF Extra, Request
    <3>2. QED
      BY <2>3, <3>1 DEF ReadPrevious, Goto, HandlerTypeOK
  <2>4. CASE ReadOwn(s)
    <3>1. /\ Respond(s, 400) \/ Goto(s, "headers") \/ Goto(s, "own")
          /\ UNCHANGED unproven \/ \E k : unproven' = [unproven EXCEPT ![s] = @ \ {k}]
          /\ UNCHANGED <<request, at, won, seen, challenges>> /\ pc[s] = "own"
      BY <2>4 DEF ReadOwn
    <3>2. QED
      BY <3>1 DEF Goto, Respond, HandlerTypeOK
  <2>5. QED
    BY <1>5, <2>2, <2>3, <2>4
<1>6. ASSUME NEW s \in Slot, CheckHeaders(s) \/ SelectChallenge(s)
      PROVE  HandlerTypeOK'
  BY <1>6, TimeAssumption
     DEF CheckHeaders, SelectChallenge, Goto, Respond, HandlerTypeOK, LimitTypeOK
<1>7. ASSUME NEW s \in Slot, ConsumeChallenge(s) \/ AskDomain(s)
      PROVE  HandlerTypeOK'
  <2>1. CASE ConsumeChallenge(s)
    <3>1. /\ \/ Respond(s, 409) /\ UNCHANGED won
             \/ Goto(s, "domain") /\ won' = [won EXCEPT ![s] = TRUE]
          /\ challenges' \subseteq challenges
          /\ UNCHANGED <<request, at, unproven, seen>> /\ pc[s] = "consume"
      BY <2>1 DEF ConsumeChallenge
    <3>2. won' \in [Slot -> BOOLEAN]
      <4>1. CASE UNCHANGED won
        BY <4>1 DEF HandlerTypeOK
      <4>2. CASE won' = [won EXCEPT ![s] = TRUE]
        BY <4>2 DEF HandlerTypeOK
      <4>3. QED
        BY <3>1, <4>1, <4>2
    <3>3. pc' \in [Slot -> {"none", "gate", "mint", "insert", "done"} \cup Submitting]
      BY <3>1 DEF Goto, Respond, HandlerTypeOK
    <3>4. reply' \in [Slot -> {0, 200, 201, 400, 401, 409, 422, 429, 500}]
      BY <3>1 DEF Goto, Respond, HandlerTypeOK
    <3>5. \A t \in Slot : pc'[t] # "none" => request'[t] \in Request
      BY <3>1 DEF Goto, Respond, HandlerTypeOK
    <3>6. QED
      BY <3>1, <3>2, <3>3, <3>4, <3>5 DEF HandlerTypeOK
  <2>2. CASE AskDomain(s)
    <3>1. \A k \in Kid : Published[k] \subseteq Kid
      BY DEF Published, AgentsTypeOK, AgentRow
    <3>2. AnswersAt(request[s].url, Published) \subseteq Answer
      BY <3>1 DEF AnswersAt, Answer, NoAnswer
    <3>3. QED
      BY <2>2, <3>2 DEF AskDomain, Goto, HandlerTypeOK
  <2>3. QED
    BY <1>7, <2>1, <2>2
<1>8. ASSUME NEW s \in Slot, UpsertAgent(s) \/ DropChallenges(s)
      PROVE  HandlerTypeOK'
  BY <1>8 DEF UpsertAgent, DropChallenges, Goto, Respond, HandlerTypeOK
<1>9. ASSUME NEW s \in Slot, Fail(s)
      PROVE  HandlerTypeOK'
  BY <1>9 DEF Fail, Respond, HandlerTypeOK
<1>10. CASE TimePasses \/ UNCHANGED vars
  BY <1>10 DEF TimePasses, vars, HandlerTypeOK
<1>11. QED
  BY <1>1, <1>2, <1>3, <1>4, <1>5, <1>6, <1>7, <1>8, <1>9, <1>10, StepCases

(* Only UpsertAgent writes agents, and it writes a row.                    *)
LEMMA AgentsUnchanged ==
  ASSUME [Next]_vars, \A s \in Slot : ~UpsertAgent(s)
  PROVE  UNCHANGED agents
BY StepCases DEF ArriveChallenge, ArriveSubmit, Arrive, PassGate, MintChallenge, InsertChallenge,
   CheckBody, ReadPrevious, ReadOwn, CheckHeaders, SelectChallenge, ConsumeChallenge,
   AskDomain, DropChallenges, Fail, TimePasses, vars

LEMMA UpsertWrites ==
  ASSUME AgentsTypeOK, HandlerTypeOK, NEW s \in Slot, UpsertAgent(s)
  PROVE  /\ DOMAIN agents' = Registered \cup {request[s].kid}
         /\ \A k \in Registered : k # request[s].kid => agents'[k] = agents[k]
         /\ agents'[request[s].kid] = NewRow(s)
         /\ agents' \in [DOMAIN agents' -> AgentRow]
         /\ request[s].kid \in Kid
<1>1. request[s] \in Request
  BY DEF UpsertAgent, HandlerTypeOK
<1>2. NewRow(s) \in AgentRow
  <2>1. at[s] \in Nat
    BY DEF HandlerTypeOK
  <2>2. request[s].kid \in Registered => agents[request[s].kid].created_at \in Nat
    BY DEF AgentsTypeOK, AgentRow
  <2>3. verifyDomainOwnership(request[s].url, request[s].kid, seen[s]) \in BOOLEAN
    BY DEF verifyDomainOwnership
  <2>4. QED
    BY <1>1, <2>1, <2>2, <2>3 DEF NewRow, AgentRow, Request
<1>3. agents' = [k \in Registered \cup {request[s].kid} |->
                   IF k = request[s].kid THEN NewRow(s) ELSE agents[k]]
  BY DEF UpsertAgent
<1>4. \A k \in Registered : agents[k] \in AgentRow
  BY DEF AgentsTypeOK
<1>5. QED
  BY <1>1, <1>2, <1>3, <1>4 DEF Request

LEMMA AgentsTypeStep ==
  ASSUME AgentsTypeOK, HandlerTypeOK, [Next]_vars
  PROVE  AgentsTypeOK'
<1>1. CASE \E s \in Slot : UpsertAgent(s)
  BY <1>1, UpsertWrites DEF AgentsTypeOK, Registered
<1>2. CASE \A s \in Slot : ~UpsertAgent(s)
  BY <1>2, AgentsUnchanged DEF AgentsTypeOK, Registered
<1>3. QED
  BY <1>1, <1>2

-----------------------------------------------------------------------------

(* The stage invariant looks at one slot at a time.                        *)
LEMMA StageInvStep ==
  ASSUME LimitTypeOK, HandlerTypeOK, StageInv, [Next]_vars
  PROVE  StageInv'
<1> USE DEF Won, Submitting
<1>1. ASSUME NEW s \in Slot, NEW a \in Address, ArriveChallenge(s, a) \/ ArriveSubmit(s, a)
      PROVE  StageInv'
  BY <1>1 DEF ArriveChallenge, ArriveSubmit, Arrive, BeginCall, Goto, HandlerTypeOK, LimitTypeOK, StageInv
<1>2. ASSUME NEW s \in Slot, PassGate(s)
      PROVE  StageInv'
  <2>1. \A t \in Slot : call'[t].scope = call[t].scope /\ call[t].scope \in Scope
    BY <1>2 DEF PassGate, CountCall, LimitTypeOK, Call
  <2>2. UNCHANGED <<request, at, won, clock>> /\ pc[s] = "gate"
    BY <1>2 DEF PassGate, CountCall
  <2>3. \/ Respond(s, 429)
        \/ Goto(s, "mint") /\ call[s].scope = "challenge"
        \/ Goto(s, "body") /\ call[s].scope # "challenge"
    BY <1>2 DEF PassGate
  <2>4. QED
    BY <2>1, <2>2, <2>3 DEF Goto, Respond, HandlerTypeOK, StageInv, Scope
<1>3. ASSUME NEW s \in Slot, MintChallenge(s) \/ InsertChallenge(s)
      PROVE  StageInv'
  BY <1>3 DEF MintChallenge, InsertChallenge, limitVars, Goto, Respond, HandlerTypeOK, LimitTypeOK, StageInv
<1>4. ASSUME NEW s \in Slot, CheckBody(s) \/ ReadPrevious(s) \/ ReadOwn(s)
      PROVE  StageInv'
  <2>1. \/ Respond(s, 422) \/ Respond(s, 400)
        \/ \E l \in {"headers", "previous", "own"} : Goto(s, l)
    BY <1>4 DEF CheckBody, ReadPrevious, ReadOwn
  <2>2. UNCHANGED <<limitVars, request, at, won>> /\ pc[s] \in {"body", "previous", "own"}
    BY <1>4 DEF CheckBody, ReadPrevious, ReadOwn
  <2>3. QED
    BY <2>1, <2>2 DEF limitVars, Goto, Respond, HandlerTypeOK, StageInv
<1>5. ASSUME NEW s \in Slot, CheckHeaders(s) \/ SelectChallenge(s)
      PROVE  StageInv'
  BY <1>5 DEF CheckHeaders, SelectChallenge, limitVars, Goto, Respond, HandlerTypeOK, LimitTypeOK, StageInv
<1>6. ASSUME NEW s \in Slot, ConsumeChallenge(s) \/ AskDomain(s)
      PROVE  StageInv'
  BY <1>6 DEF ConsumeChallenge, AskDomain, limitVars, Goto, Respond, HandlerTypeOK, StageInv
<1>7. ASSUME NEW s \in Slot, UpsertAgent(s) \/ DropChallenges(s)
      PROVE  StageInv'
  BY <1>7 DEF UpsertAgent, DropChallenges, limitVars, Goto, Respond, HandlerTypeOK, StageInv
<1>8. ASSUME NEW s \in Slot, Fail(s)
      PROVE  StageInv'
  <2>1. \A t \in Slot : call'[t].scope = call[t].scope /\ UNCHANGED clock
    BY <1>8 DEF Fail, FailCall, limitVars, LimitTypeOK, Call
  <2>2. QED
    BY <1>8, <2>1 DEF Fail, Respond, HandlerTypeOK, StageInv
<1>9. CASE TimePasses \/ UNCHANGED vars
  BY <1>9 DEF TimePasses, Tick, vars, limitVars, HandlerTypeOK, LimitTypeOK, StageInv
<1>10. QED
  BY <1>1, <1>2, <1>3, <1>4, <1>5, <1>6, <1>7, <1>8, <1>9, StepCases

(* A challenge handed out stays handed out, at the time it was.            *)
LEMMA MintedStays ==
  ASSUME \A t \in Slot : Frame(t), NEW n \in Slot, Minted(n)
  PROVE  Minted(n)' /\ request'[n] = request[n] /\ at'[n] = at[n]
BY DEF Frame, Minted

(* Rows are only ever added by the batch that hands the challenge out.     *)
LEMMA ChallengeStep ==
  ASSUME [Next]_vars
  PROVE  \/ challenges' \subseteq challenges
         \/ \E s \in Slot : InsertChallenge(s)
BY StepCases DEF ArriveChallenge, ArriveSubmit, Arrive, PassGate, MintChallenge,
   CheckBody, ReadPrevious, ReadOwn, CheckHeaders, SelectChallenge, ConsumeChallenge,
   AskDomain, UpsertAgent, DropChallenges, Fail, TimePasses, vars

LEMMA ChallengeInvStep ==
  ASSUME HandlerTypeOK, StageInv, ChallengeInv, \A t \in Slot : Frame(t), [Next]_vars
  PROVE  ChallengeInv'
<1> SUFFICES ASSUME NEW c \in challenges'
             PROVE  /\ Minted(c.nonce)'
                    /\ request'[c.nonce].kid = c.kid
                    /\ c.expires_at = at'[c.nonce] + TTL
  BY DEF ChallengeInv
<1>1. CASE c \in challenges
  <2>1. c.nonce \in Slot /\ Minted(c.nonce)
    BY <1>1 DEF HandlerTypeOK, Challenge, ChallengeInv
  <2>2. QED
    BY <1>1, <2>1, MintedStays DEF ChallengeInv
<1>2. CASE c \notin challenges
  <2>1. PICK s \in Slot : InsertChallenge(s)
    BY <1>2, ChallengeStep
  <2>2. c = [nonce |-> s, kid |-> request[s].kid, expires_at |-> at[s] + TTL]
    BY <1>2, <2>1 DEF InsertChallenge
  <2>3. Minted(s)'
    BY <2>1 DEF InsertChallenge, Respond, Minted, HandlerTypeOK, StageInv, limitVars
  <2>4. QED
    BY <2>1, <2>2, <2>3 DEF InsertChallenge
<1>3. QED
  BY <1>1, <1>2

-----------------------------------------------------------------------------

(* How a slot gets where the invariants ask something of it.               *)
EnteredBy(t) ==
  /\ pc[t] = "none" /\ pc'[t] # "none" =>
       pc'[t] = "gate" /\ \E a \in Address : ArriveChallenge(t, a) \/ ArriveSubmit(t, a)
  /\ pc'[t] = "own" /\ pc[t] # "own" => ReadPrevious(t)
  /\ pc'[t] = "headers" /\ pc[t] # "headers" =>
       CheckBody(t) \/ ReadPrevious(t) \/ ReadOwn(t)
  /\ pc'[t] = "select" /\ pc[t] # "select" => CheckHeaders(t)
  /\ pc'[t] = "consume" /\ pc[t] # "consume" => SelectChallenge(t)
  /\ pc'[t] \in Won => pc[t] \in Won \/ ConsumeChallenge(t)
  /\ won'[t] => won[t] \/ (ConsumeChallenge(t) /\ pc'[t] = "domain")

LEMMA EnteredByHolds ==
  ASSUME HandlerTypeOK, NEW t \in Slot, [Next]_vars
  PROVE  EnteredBy(t)
<1> USE DEF EnteredBy, Won
<1>1. ASSUME NEW s \in Slot, NEW a \in Address, ArriveChallenge(s, a) \/ ArriveSubmit(s, a)
      PROVE  EnteredBy(t)
  BY <1>1 DEF ArriveChallenge, ArriveSubmit, Arrive, Goto, HandlerTypeOK
<1>2. ASSUME NEW s \in Slot, PassGate(s)
      PROVE  EnteredBy(t)
  BY <1>2 DEF PassGate, Goto, Respond, HandlerTypeOK
<1>3. ASSUME NEW s \in Slot, MintChallenge(s) \/ InsertChallenge(s)
      PROVE  EnteredBy(t)
  BY <1>3 DEF MintChallenge, InsertChallenge, Goto, Respond, HandlerTypeOK
<1>4. ASSUME NEW s \in Slot, CheckBody(s) \/ ReadPrevious(s) \/ ReadOwn(s)
      PROVE  EnteredBy(t)
  BY <1>4 DEF CheckBody, ReadPrevious, ReadOwn, Goto, Respond, HandlerTypeOK
<1>5. ASSUME NEW s \in Slot, CheckHeaders(s) \/ SelectChallenge(s)
      PROVE  EnteredBy(t)
  BY <1>5 DEF CheckHeaders, SelectChallenge, Goto, Respond, HandlerTypeOK
<1>6. ASSUME NEW s \in Slot, ConsumeChallenge(s) \/ AskDomain(s)
      PROVE  EnteredBy(t)
  BY <1>6 DEF ConsumeChallenge, AskDomain, Goto, Respond, HandlerTypeOK
<1>7. ASSUME NEW s \in Slot, UpsertAgent(s) \/ DropChallenges(s)
      PROVE  EnteredBy(t)
  BY <1>7 DEF UpsertAgent, DropChallenges, Goto, Respond, HandlerTypeOK
<1>8. ASSUME NEW s \in Slot, Fail(s)
      PROVE  EnteredBy(t)
  BY <1>8 DEF Fail, Respond, HandlerTypeOK
<1>9. CASE TimePasses \/ UNCHANGED vars
  BY <1>9 DEF TimePasses, vars
<1>10. QED
  BY <1>1, <1>2, <1>3, <1>4, <1>5, <1>6, <1>7, <1>8, <1>9, StepCases

(* A slot that quotes a challenge keeps quoting it, and the challenge was  *)
(* handed out at a time that does not change and has passed.               *)
LEMMA QuoteInvStep ==
  ASSUME LimitTypeOK, HandlerTypeOK, HandlerTypeOK', StageInv, QuoteInv,
         \A t \in Slot : Frame(t), [Next]_vars
  PROVE  QuoteInv'
<1> SUFFICES ASSUME NEW t \in Slot, NEW n \in Slot, n = request'[t].nonce,
                    pc'[t] # "none", n # t
             PROVE  /\ Minted(n)'
                    /\ pc'[t] \in {"select", "consume"} \cup Won \/ won'[t] => at'[n] <= at'[t]
  <2>1. \A t \in Slot : pc'[t] # "none" => request'[t].nonce \in Slot
    BY DEF HandlerTypeOK, Request
  <2>2. QED
    BY <2>1 DEF QuoteInv, Minted
<1>1. CASE pc[t] = "none"
  <2>1. PICK a \in Address : ArriveChallenge(t, a) \/ ArriveSubmit(t, a)
    BY <1>1, EnteredByHolds DEF EnteredBy
  <2>2. /\ pc'[t] = "gate" /\ ~won'[t]
    BY <1>1, <2>1 DEF ArriveChallenge, ArriveSubmit, Arrive, Goto, HandlerTypeOK, StageInv
  <2>3. call[n].scope = "challenge" /\ reply[n] = 200
    BY <2>1 DEF ArriveChallenge, ArriveSubmit, HandlerTypeOK, Quoting
  <2>4. Minted(n)
    BY <2>3 DEF Minted, StageInv
  <2>5. QED
    BY <2>2, <2>4, MintedStays DEF Won
<1>2. CASE pc[t] # "none"
  <2>1. n = request[t].nonce /\ Minted(n)
    BY <1>2 DEF Frame, QuoteInv
  <2>2. Minted(n)' /\ at'[n] = at[n] /\ at[n] <= clock
    BY <2>1, MintedStays DEF StageInv
  <2>3. CASE pc[t] \in {"select", "consume"} \cup Won \/ won[t]
    BY <1>2, <2>1, <2>2, <2>3 DEF QuoteInv, Frame
  <2>4. CASE ~(pc[t] \in {"select", "consume"} \cup Won \/ won[t])
    <3> SUFFICES ASSUME pc'[t] \in {"select", "consume"} \cup Won \/ won'[t]
                 PROVE  at'[n] <= at'[t]
      BY <2>2
    <3>1. CheckHeaders(t)
      <4>1. \A l \in {"consume"} \cup Won : pc'[t] = l /\ pc[t] # l => pc[t] \in {"select", "consume"} \cup Won
        BY EnteredByHolds DEF EnteredBy, SelectChallenge, ConsumeChallenge, Won
      <4>2. won'[t] => won[t] \/ pc[t] = "consume"
        BY EnteredByHolds DEF EnteredBy, ConsumeChallenge
      <4>3. pc'[t] = "select" /\ pc[t] # "select"
        BY <2>4, <4>1, <4>2
      <4>4. QED
        BY <4>3, EnteredByHolds DEF EnteredBy
    <3>2. at'[t] = clock
      <4>1. pc'[t] # "done"
        BY <2>4, <3>1 DEF CheckHeaders, Won
      <4>2. QED
        BY <3>1, <4>1 DEF CheckHeaders, Goto, Respond, HandlerTypeOK
    <3>3. QED
      BY <2>2, <3>2
  <2>5. QED
    BY <2>3, <2>4
<1>3. QED
  BY <1>1, <1>2

(* The lookup finds the challenge of the same slot and kid, within its     *)
(* time; the consumption then only confirms it is still there.             *)
LEMMA JudgedInvStep ==
  ASSUME LimitTypeOK, HandlerTypeOK, HandlerTypeOK', StageInv, ChallengeInv, QuoteInv, JudgedInv,
         \A t \in Slot : Frame(t), [Next]_vars
  PROVE  JudgedInv'
<1> SUFFICES ASSUME NEW t \in Slot, NEW n \in Slot, n = request'[t].nonce,
                    pc'[t] = "consume" \/ won'[t]
             PROVE  /\ n # t
                    /\ request'[n].kid = request'[t].kid
                    /\ at'[t] <= at'[n] + TTL
                    /\ request'[t].signer = request'[t].kid
  <2>1. \A s \in Slot : pc'[s] = "consume" \/ won'[s] => request'[s].nonce \in Slot
    <3>1. \A s \in Slot : pc'[s] = "consume" \/ won'[s] => pc'[s] # "none"
      BY EnteredByHolds DEF EnteredBy, ConsumeChallenge, Frame, StageInv
    <3>2. QED
      BY <3>1 DEF HandlerTypeOK, Request
  <2>2. QED
    BY <2>1 DEF JudgedInv
<1>1. CASE pc[t] = "consume" \/ won[t]
  <2>1. /\ pc[t] # "none" /\ n = request[t].nonce /\ request'[t] = request[t] /\ at'[t] = at[t]
    BY <1>1 DEF Frame, StageInv
  <2>2. /\ n # t /\ request[n].kid = request[t].kid
        /\ at[t] <= at[n] + TTL /\ request[t].signer = request[t].kid
    BY <1>1, <2>1 DEF JudgedInv
  <2>3. Minted(n)
    BY <2>1, <2>2 DEF QuoteInv
  <2>4. QED
    BY <2>1, <2>2, <2>3, MintedStays
<1>2. CASE ~(pc[t] = "consume" \/ won[t])
  <2>1. SelectChallenge(t) /\ pc'[t] = "consume"
    BY <1>2, EnteredByHolds DEF EnteredBy, ConsumeChallenge
  <2>2. Usable(t) /\ request[t].signer = request[t].kid
    BY <2>1 DEF SelectChallenge, Respond, HandlerTypeOK
  <2>3. PICK c \in challenges : /\ c.nonce = request[t].nonce /\ c.kid = request[t].kid
                                /\ c.expires_at >= at[t]
    BY <2>2 DEF Usable
  <2>4. /\ n = c.nonce /\ pc[t] = "select"
        /\ UNCHANGED <<request, at>>
    BY <2>1, <2>3 DEF SelectChallenge
  <2>5. /\ Minted(n) /\ request[n].kid = c.kid /\ c.expires_at = at[n] + TTL
    BY <2>3, <2>4 DEF ChallengeInv
  <2>6. at[t] \in Nat /\ at[n] \in Nat /\ TTL \in Nat
    BY TTLAssumption DEF HandlerTypeOK
  <2>7. QED
    BY <2>2, <2>3, <2>4, <2>5, <2>6 DEF Minted
<1>3. QED
  BY <1>1, <1>2

(* A consumed challenge never comes back: only a slot that has not         *)
(* answered hands one out, and the consumed one's slot has.                *)
LEMMA SpentInvStep ==
  ASSUME LimitTypeOK, HandlerTypeOK, HandlerTypeOK', StageInv, ChallengeInv, QuoteInv, JudgedInv,
         SpentInv, \A t \in Slot : Frame(t), [Next]_vars
  PROVE  SpentInv'
<1>1. \A t \in Slot : won[t] => /\ Minted(request[t].nonce)
                                /\ request'[t] = request[t]
                                /\ request[t].nonce \in Slot
  BY DEF StageInv, QuoteInv, JudgedInv, Frame, HandlerTypeOK, Request
<1>2. CASE \E s \in Slot : ConsumeChallenge(s)
  <2>1. PICK s \in Slot : ConsumeChallenge(s)
    BY <1>2
  <2>2. /\ challenges' = challenges \ QuotedBy(s) /\ UNCHANGED request
        /\ \A t \in Slot : t # s => (won'[t] <=> won[t])
    BY <2>1 DEF ConsumeChallenge, HandlerTypeOK
  <2>3. CASE QuotedBy(s) = {}
    <3>1. UNCHANGED <<won, challenges, request>>
      BY <2>1, <2>2, <2>3 DEF ConsumeChallenge
    <3>2. QED
      BY <3>1 DEF SpentInv, SingleUse
  <2>4. CASE QuotedBy(s) # {}
    <3>1. PICK c \in challenges : c.nonce = request[s].nonce /\ c.kid = request[s].kid
      BY <2>4 DEF QuotedBy
    <3>2. \A t \in Slot : won[t] => request[t].nonce # request[s].nonce
      BY <3>1 DEF SpentInv
    <3>3. ~won[s] /\ \A d \in challenges : d.nonce = request[s].nonce => d.kid = request[s].kid
      <4>1. ~won[s]
        BY <2>1 DEF ConsumeChallenge, StageInv, Won
      <4>2. \A d \in challenges : d.nonce = request[s].nonce => d.kid = request[s].kid
        BY <3>1 DEF ChallengeInv
      <4>3. QED
        BY <4>1, <4>2
    <3>4. \A d \in challenges' : d.nonce # request[s].nonce
      BY <2>2, <3>3 DEF QuotedBy
    <3>5. QED
      BY <2>2, <3>2, <3>4 DEF SpentInv, SingleUse
  <2>5. QED
    BY <2>3, <2>4
<1>3. CASE \A s \in Slot : ~ConsumeChallenge(s)
  <2>1. \A t \in Slot : won'[t] <=> won[t]
    BY <1>3, EnteredByHolds DEF EnteredBy, Frame
  <2>2. \A t \in Slot : won[t] => \A c \in challenges' : c.nonce # request[t].nonce
    <3>1. CASE challenges' \subseteq challenges
      BY <3>1 DEF SpentInv
    <3>2. ASSUME NEW s \in Slot, InsertChallenge(s)
          PROVE  \A t \in Slot : won[t] => \A c \in challenges' : c.nonce # request[t].nonce
      <4>1. ~Minted(s)
        BY <3>2 DEF InsertChallenge, Minted
      <4>2. \A c \in challenges' : c \in challenges \/ c.nonce = s
        BY <3>2 DEF InsertChallenge
      <4>3. QED
        BY <1>1, <4>1, <4>2 DEF SpentInv
    <3>3. QED
      BY <3>1, <3>2, ChallengeStep
  <2>3. QED
    BY <1>1, <2>1, <2>2 DEF SpentInv, SingleUse
<1>4. QED
  BY <1>2, <1>3

(* Nothing but ReadOwn, or a failure, moves a handler that is proving keys. *)
LEMMA OwnStays ==
  ASSUME HandlerTypeOK, NEW t \in Slot, pc[t] = "own", ~ReadOwn(t), pc'[t] # "done", [Next]_vars
  PROVE  pc'[t] = "own" /\ unproven'[t] = unproven[t]
<1>1. ASSUME NEW s \in Slot, NEW a \in Address, ArriveChallenge(s, a) \/ ArriveSubmit(s, a)
      PROVE  pc'[t] = "own" /\ unproven'[t] = unproven[t]
  BY <1>1 DEF ArriveChallenge, ArriveSubmit, Arrive, Goto, HandlerTypeOK
<1>2. ASSUME NEW s \in Slot, PassGate(s)
      PROVE  pc'[t] = "own" /\ unproven'[t] = unproven[t]
  BY <1>2 DEF PassGate, Goto, Respond, HandlerTypeOK
<1>3. ASSUME NEW s \in Slot, MintChallenge(s) \/ InsertChallenge(s)
      PROVE  pc'[t] = "own" /\ unproven'[t] = unproven[t]
  BY <1>3 DEF MintChallenge, InsertChallenge, Goto, Respond, HandlerTypeOK
<1>4. ASSUME NEW s \in Slot, CheckBody(s) \/ ReadPrevious(s) \/ ReadOwn(s)
      PROVE  pc'[t] = "own" /\ unproven'[t] = unproven[t]
  BY <1>4 DEF CheckBody, ReadPrevious, ReadOwn, Goto, Respond, HandlerTypeOK
<1>5. ASSUME NEW s \in Slot, CheckHeaders(s) \/ SelectChallenge(s)
      PROVE  pc'[t] = "own" /\ unproven'[t] = unproven[t]
  BY <1>5 DEF CheckHeaders, SelectChallenge, Goto, Respond, HandlerTypeOK
<1>6. ASSUME NEW s \in Slot, ConsumeChallenge(s) \/ AskDomain(s)
      PROVE  pc'[t] = "own" /\ unproven'[t] = unproven[t]
  BY <1>6 DEF ConsumeChallenge, AskDomain, Goto, Respond, HandlerTypeOK
<1>7. ASSUME NEW s \in Slot, UpsertAgent(s) \/ DropChallenges(s)
      PROVE  pc'[t] = "own" /\ unproven'[t] = unproven[t]
  BY <1>7 DEF UpsertAgent, DropChallenges, Goto, Respond, HandlerTypeOK
<1>8. ASSUME NEW s \in Slot, Fail(s)
      PROVE  pc'[t] = "own" /\ unproven'[t] = unproven[t]
  BY <1>8 DEF Fail, Respond, HandlerTypeOK
<1>9. CASE TimePasses \/ UNCHANGED vars
  BY <1>9 DEF TimePasses, vars
<1>10. QED
  BY <1>1, <1>2, <1>3, <1>4, <1>5, <1>6, <1>7, <1>8, <1>9, StepCases

(* A key once proven stays proven: requests do not change, consumptions    *)
(* are not undone.                                                         *)
LEMMA ProvenStays ==
  ASSUME StageInv, \A t \in Slot : Frame(t), NEW k, Proven(k)
  PROVE  Proven(k)'
<1>1. PICK s \in Slot : won[s] /\ request[s].signer = k
  BY DEF Proven
<1>2. won'[s] /\ request'[s].signer = k
  BY <1>1 DEF Frame, StageInv
<1>3. QED
  BY <1>2 DEF Proven

(* Reading another agent's keys finds proven ones only.                    *)
LEMMA PublishedProven ==
  ASSUME AgentsTypeOK, EveryPublishedKeyProven, NEW k, NEW j \in Published[k], k \in Kid
  PROVE  Proven(j)
BY DEF Published, EveryPublishedKeyProven, Registered

(* The keys a submit carries past the proof of possession.                 *)
KeysAccounted(t) ==
  pc[t] \in {"own", "headers", "select", "consume"} \cup Won =>
    \A j \in request[t].keys :
      j = request[t].kid \/ (pc[t] = "own" /\ j \in unproven[t]) \/ Proven(j)

LEMMA KeysAccountedStep ==
  ASSUME HandlerTypeOK, HandlerTypeOK', AgentsTypeOK, StageInv, KeysInv,
         \A s \in Slot : Frame(s), [Next]_vars, NEW t \in Slot
  PROVE  KeysAccounted(t)'
<1> DEFINE Past == {"own", "headers", "select", "consume"} \cup Won
<1> SUFFICES ASSUME pc'[t] \in Past, NEW j, j \in request'[t].keys, j # request'[t].kid
             PROVE  \/ pc'[t] = "own" /\ j \in unproven'[t]
                    \/ Proven(j)'
  <2>1. Past = Past'
    BY DEF Won
  <2>2. QED
    BY <2>1 DEF KeysAccounted, Won, Proven
<1>1. EnteredBy(t) /\ Frame(t)
  BY EnteredByHolds
<1>2. pc[t] # "none" /\ request'[t] = request[t]
  BY <1>1 DEF EnteredBy, Frame, Won
<1>3. request[t] \in Request /\ j \in Kid /\ request[t].kid \in Kid
  BY <1>2 DEF HandlerTypeOK, Request
<1>4. CASE ReadPrevious(t)
  <2>1. \/ j \in unproven'[t]
        \/ j \in Published[request[t].kid]
    BY <1>2, <1>4 DEF ReadPrevious, Extra, HandlerTypeOK
  <2>2. j \in unproven'[t] => pc'[t] = "own"
    BY <1>4 DEF ReadPrevious, Goto, HandlerTypeOK
  <2>3. j \in Published[request[t].kid] => Proven(j)'
    BY <1>3, PublishedProven, ProvenStays DEF KeysInv
  <2>4. QED
    BY <2>1, <2>2, <2>3
<1>5. CASE ReadOwn(t)
  <2>1. \/ j \in unproven[t]
        \/ Proven(j)
    BY <1>2, <1>5 DEF KeysInv, ReadOwn
  <2>2. ASSUME j \in unproven[t]
        PROVE  (pc'[t] = "own" /\ j \in unproven'[t]) \/ Proven(j)'
    <3>1. PICK k \in unproven[t] : /\ k \in Published[k]
                                   /\ unproven' = [unproven EXCEPT ![t] = @ \ {k}]
                                   /\ Goto(t, IF unproven'[t] = {} THEN "headers" ELSE "own")
      <4>1. ~Respond(t, 400)
        BY DEF Respond, HandlerTypeOK, Won
      <4>2. QED
        BY <1>5, <4>1 DEF ReadOwn
    <3>2. CASE j = k
      BY <1>3, <3>1, <3>2, PublishedProven, ProvenStays DEF KeysInv
    <3>3. CASE j # k
      <4>1. j \in unproven'[t]
        BY <2>2, <3>1, <3>3 DEF HandlerTypeOK
      <4>2. pc'[t] = "own"
        BY <3>1, <4>1 DEF Goto, HandlerTypeOK
      <4>3. QED
        BY <4>1, <4>2
    <3>4. QED
      BY <3>2, <3>3
  <2>3. QED
    BY <2>1, <2>2, ProvenStays
<1>6. CASE CheckBody(t)
  <2>1. Extra(request[t]) = {}
    BY <1>6 DEF CheckBody, Goto, Respond, HandlerTypeOK, Won
  <2>2. QED
    BY <1>2, <2>1 DEF Extra
<1>7. CASE ~ReadPrevious(t) /\ ~ReadOwn(t) /\ ~CheckBody(t)
  <2>1. pc[t] \in Past
    BY <1>1, <1>7 DEF EnteredBy, CheckHeaders, SelectChallenge, ConsumeChallenge, Won
  <2>2. pc[t] = "own" => pc'[t] = "own" /\ unproven'[t] = unproven[t]
    <3>1. pc'[t] # "done"
      BY DEF Won
    <3>2. QED
      BY <1>7, <3>1, OwnStays
  <2>3. QED
    BY <1>2, <2>1, <2>2, ProvenStays DEF KeysInv
<1>8. QED
  BY <1>4, <1>5, <1>6, <1>7

LEMMA PublishedStep ==
  ASSUME HandlerTypeOK, AgentsTypeOK, StageInv, JudgedInv, KeysInv,
         \A s \in Slot : Frame(s), [Next]_vars
  PROVE  EveryPublishedKeyProven'
<1> SUFFICES ASSUME NEW k \in DOMAIN agents', NEW j \in agents'[k].keys
             PROVE  Proven(j)'
  BY DEF EveryPublishedKeyProven, Registered
<1>1. CASE \E s \in Slot : UpsertAgent(s)
  <2>1. PICK s \in Slot : UpsertAgent(s)
    BY <1>1
  <2>2. CASE k = request[s].kid
    <3>1. j \in request[s].keys
      <4>1. agents'[k] = NewRow(s)
        BY <2>1, <2>2, UpsertWrites
      <4>2. NewRow(s).keys = request[s].keys
        BY DEF NewRow
      <4>3. QED
        BY <4>1, <4>2
    <3>2. pc[s] = "upsert" /\ won[s]
      BY <2>1 DEF UpsertAgent, StageInv, Won
    <3>3. j = request[s].kid \/ Proven(j)
      BY <3>1, <3>2 DEF KeysInv, Won
    <3>4. Proven(request[s].kid)
      BY <3>2 DEF JudgedInv, Proven
    <3>5. QED
      BY <3>3, <3>4, ProvenStays
  <2>3. CASE k # request[s].kid
    <3>1. k \in Registered /\ agents'[k] = agents[k]
      BY <2>1, <2>3, UpsertWrites
    <3>2. QED
      BY <3>1, ProvenStays DEF KeysInv, EveryPublishedKeyProven
  <2>4. QED
    BY <2>2, <2>3
<1>2. CASE \A s \in Slot : ~UpsertAgent(s)
  BY <1>2, AgentsUnchanged, ProvenStays DEF KeysInv, EveryPublishedKeyProven, Registered
<1>3. QED
  BY <1>1, <1>2

LEMMA KeysInvStep ==
  ASSUME HandlerTypeOK, HandlerTypeOK', AgentsTypeOK, StageInv, JudgedInv, KeysInv,
         \A s \in Slot : Frame(s), [Next]_vars
  PROVE  KeysInv'
<1>1. \A t \in Slot : KeysAccounted(t)'
  BY KeysAccountedStep
<1>2. QED
  BY <1>1, PublishedStep DEF KeysInv, KeysAccounted, Proven, Won

-----------------------------------------------------------------------------

LEMMA InvInit == Init => Inv
<1> SUFFICES ASSUME Init PROVE Inv
  OBVIOUS
<1> USE DEF Init
<1>1. HandlerTypeOK
  BY DEF HandlerTypeOK, NoAnswer, Answer
<1>2. AgentsTypeOK
  BY DEF AgentsTypeOK, Registered
<1>3. StageInv
  BY TimeAssumption DEF StageInv, LimitInit, Won, Submitting
<1>4. ChallengeInv /\ QuoteInv /\ JudgedInv /\ SpentInv
  BY DEF ChallengeInv, QuoteInv, JudgedInv, SpentInv, SingleUse
<1>5. KeysInv
  BY DEF KeysInv, EveryPublishedKeyProven, Registered, Won
<1>6. QED
  BY <1>1, <1>2, <1>3, <1>4, <1>5 DEF Inv

LEMMA InvStep == LimitTypeOK /\ Inv /\ [Next]_vars => Inv'
<1> SUFFICES ASSUME LimitTypeOK, Inv, [Next]_vars
             PROVE  Inv'
  OBVIOUS
<1> USE DEF Inv
<1>1. \A s \in Slot : Frame(s)
  BY FrameHolds
<1>2. HandlerTypeOK'
  BY HandlerTypeStep
<1>3. AgentsTypeOK'
  BY AgentsTypeStep
<1>4. StageInv'
  BY StageInvStep
<1>5. ChallengeInv'
  BY <1>1, ChallengeInvStep
<1>6. QuoteInv'
  BY <1>1, <1>2, QuoteInvStep
<1>7. JudgedInv'
  BY <1>1, <1>2, JudgedInvStep
<1>8. SpentInv'
  BY <1>1, <1>2, SpentInvStep
<1>9. KeysInv'
  BY <1>1, <1>2, KeysInvStep
<1>10. QED
  BY <1>2, <1>3, <1>4, <1>5, <1>6, <1>7, <1>8, <1>9

(* The invariant, for any number of requests and any length of time.       *)
THEOREM Invariant == Spec => [](LimitInv /\ Inv)
<1>1. LimitInv => LimitTypeOK
  BY DEF LimitInv
<1>2. QED
  BY <1>1, InvInit, InvStep, ImplementsRateLimit, LimitInvariant, PTL DEF Spec

(* Every variable keeps its type, and the answers 200 and 201 mean what    *)
(* they say.                                                               *)
THEOREM TypeCorrect == Spec => []TypeOK
<1>1. LimitInv /\ Inv => TypeOK
  BY DEF Inv, LimitInv, TypeOK, HandlerTypeOK, AgentsTypeOK, StageInv, Submitting
<1>2. QED
  BY <1>1, Invariant, PTL

(* A challenge is worth one registration (register.ts:210-216).            *)
THEOREM ChallengesAreSingleUse == Spec => []SingleUse
<1>1. Inv => SingleUse
  BY DEF Inv, SpentInv
<1>2. QED
  BY <1>1, Invariant, PTL

(* Nobody registers a key without a fresh challenge for it and its         *)
(* signature (register.ts:184-216).                                        *)
THEOREM OnlyChallengedSubmits == Spec => []ChallengeHonoured
<1>1. Inv => ChallengeHonoured
  <2> SUFFICES ASSUME Inv, NEW s \in Slot, won[s], NEW n, n = request[s].nonce
               PROVE  /\ call[n].scope = "challenge"
                      /\ request[n].kid = request[s].kid
                      /\ at[n] <= at[s] /\ at[s] <= at[n] + TTL
                      /\ request[s].signer = request[s].kid
    BY DEF ChallengeHonoured
  <2>1. pc[s] # "none"
    BY DEF Inv, StageInv
  <2>2. /\ n # s /\ request[n].kid = request[s].kid
        /\ at[s] <= at[n] + TTL /\ request[s].signer = request[s].kid
    BY DEF Inv, JudgedInv
  <2>3. Minted(n) /\ at[n] <= at[s]
    BY <2>1, <2>2 DEF Inv, QuoteInv
  <2>4. QED
    BY <2>2, <2>3 DEF Minted
<1>2. QED
  BY <1>1, Invariant, PTL

(* No key is published for an agent unless its holder signed for it        *)
(* (register.ts:119-160).                                                  *)
THEOREM PublishedKeysAreProven == Spec => []EveryPublishedKeyProven
<1>1. Inv => EveryPublishedKeyProven
  BY DEF Inv, KeysInv
<1>2. QED
  BY <1>1, Invariant, PTL

-----------------------------------------------------------------------------

(* Rows of agents.  A slot past its upsert keeps what it wrote from: its   *)
(* request, its time and what the claimed URL answered.                    *)
Upserted == {"drop", "done"}

(* What a page of a forbidden host is taken to list: nothing.              *)
SeenInv ==
  \A s \in Slot : pc[s] # "none" /\ seen[s].kind = "jwks" => ~isForbiddenHost(request[s].url)

(* The submit of s got through and wrote the row of k.                     *)
Wrote(s, k) ==
  /\ pc[s] \in Upserted /\ won[s]
  /\ request[s].kid = k
  /\ agents[k].keys = request[s].keys
  /\ agents[k].url = request[s].url
  /\ agents[k].last_updated = at[s]
  /\ agents[k].domain_verified => verifyDomainOwnership(request[s].url, k, seen[s])

RowInv ==
  /\ \A s \in Slot : pc[s] = "none" => seen[s] = NoAnswer
  /\ SeenInv
  /\ \A k \in Registered : \E s \in Slot : Wrote(s, k)

(* Only AskDomain writes `seen`, and no handler past its upsert asks again. *)
LEMMA SeenStays ==
  ASSUME HandlerTypeOK, NEW t \in Slot, [Next]_vars
  PROVE  /\ seen'[t] = seen[t] \/ AskDomain(t)
         /\ pc[t] \in Upserted => pc'[t] \in Upserted
<1> DEFINE Goal == /\ seen'[t] = seen[t] \/ AskDomain(t)
                   /\ pc[t] \in Upserted => pc'[t] \in Upserted
<1> USE DEF Upserted
<1>1. ASSUME NEW s \in Slot, NEW a \in Address, ArriveChallenge(s, a) \/ ArriveSubmit(s, a)
      PROVE  Goal
  BY <1>1 DEF ArriveChallenge, ArriveSubmit, Arrive, Goto, HandlerTypeOK
<1>2. ASSUME NEW s \in Slot, PassGate(s)
      PROVE  Goal
  BY <1>2 DEF PassGate, Goto, Respond, HandlerTypeOK
<1>3. ASSUME NEW s \in Slot, MintChallenge(s) \/ InsertChallenge(s)
      PROVE  Goal
  BY <1>3 DEF MintChallenge, InsertChallenge, Goto, Respond, HandlerTypeOK
<1>4. ASSUME NEW s \in Slot, CheckBody(s) \/ ReadPrevious(s) \/ ReadOwn(s)
      PROVE  Goal
  BY <1>4 DEF CheckBody, ReadPrevious, ReadOwn, Goto, Respond, HandlerTypeOK
<1>5. ASSUME NEW s \in Slot, CheckHeaders(s) \/ SelectChallenge(s)
      PROVE  Goal
  BY <1>5 DEF CheckHeaders, SelectChallenge, Goto, Respond, HandlerTypeOK
<1>6. ASSUME NEW s \in Slot, ConsumeChallenge(s)
      PROVE  Goal
  BY <1>6 DEF ConsumeChallenge, Goto, Respond, HandlerTypeOK
<1>7. ASSUME NEW s \in Slot, AskDomain(s)
      PROVE  Goal
  <2>1. PICK a : seen' = [seen EXCEPT ![s] = a]
    BY <1>7 DEF AskDomain
  <2>2. s = t \/ seen'[t] = seen[t]
    BY <2>1 DEF HandlerTypeOK
  <2>3. pc[s] = "domain" /\ pc' = [pc EXCEPT ![s] = "upsert"]
    BY <1>7 DEF AskDomain, Goto
  <2>4. QED
    BY <1>7, <2>2, <2>3 DEF HandlerTypeOK
<1>8. ASSUME NEW s \in Slot, UpsertAgent(s) \/ DropChallenges(s)
      PROVE  Goal
  BY <1>8 DEF UpsertAgent, DropChallenges, Goto, Respond, HandlerTypeOK
<1>9. ASSUME NEW s \in Slot, Fail(s)
      PROVE  Goal
  BY <1>9 DEF Fail, Respond, HandlerTypeOK
<1>10. CASE TimePasses \/ UNCHANGED vars
  BY <1>10 DEF TimePasses, vars
<1>11. QED
  BY <1>1, <1>2, <1>3, <1>4, <1>5, <1>6, <1>7, <1>8, <1>9, <1>10, StepCases

(* Whatever a forbidden URL is asked, it is not asked.                     *)
LEMMA SeenInvStep ==
  ASSUME HandlerTypeOK, StageInv, RowInv, \A t \in Slot : Frame(t), [Next]_vars
  PROVE  /\ \A s \in Slot : pc'[s] = "none" => seen'[s] = NoAnswer
         /\ SeenInv'
<1>1. \A s \in Slot : pc'[s] = "none" => seen'[s] = NoAnswer
  <2> SUFFICES ASSUME NEW s \in Slot, pc'[s] = "none"
               PROVE  seen'[s] = NoAnswer
    OBVIOUS
  <2>1. pc[s] = "none"
    BY DEF Frame
  <2>2. seen'[s] = seen[s]
    BY <2>1, SeenStays DEF AskDomain
  <2>3. QED
    BY <2>1, <2>2 DEF RowInv
<1>2. SeenInv'
  <2> SUFFICES ASSUME NEW s \in Slot, pc'[s] # "none", seen'[s].kind = "jwks"
               PROVE  ~isForbiddenHost(request'[s].url)
    BY DEF SeenInv, isForbiddenHost
  <2>1. CASE AskDomain(s)
    <3>1. seen'[s] \in AnswersAt(request[s].url, Published) /\ UNCHANGED request
      BY <2>1 DEF AskDomain, HandlerTypeOK
    <3>2. QED
      BY <3>1 DEF AnswersAt, NoAnswer
  <2>2. CASE ~AskDomain(s)
    <3>1. seen'[s] = seen[s]
      BY <2>2, SeenStays
    <3>2. pc[s] # "none"
      BY <3>1 DEF RowInv, NoAnswer
    <3>3. QED
      BY <3>1, <3>2 DEF RowInv, SeenInv, Frame
  <2>3. QED
    BY <2>1, <2>2
<1>3. QED
  BY <1>1, <1>2

(* A slot that wrote a row still answers for it.                           *)
LEMMA WroteStays ==
  ASSUME HandlerTypeOK, StageInv, \A t \in Slot : Frame(t), [Next]_vars,
         NEW k, NEW s \in Slot, Wrote(s, k), agents'[k] = agents[k]
  PROVE  Wrote(s, k)'
<1>1. pc'[s] \in Upserted /\ seen'[s] = seen[s]
  BY SeenStays DEF Wrote, Upserted, AskDomain
<1>2. request'[s] = request[s] /\ at'[s] = at[s] /\ won'[s]
  BY DEF Wrote, Frame, Upserted
<1>3. QED
  BY <1>1, <1>2 DEF Wrote, verifyDomainOwnership, Upserted

LEMMA RowInvStep ==
  ASSUME HandlerTypeOK, AgentsTypeOK, StageInv, RowInv,
         \A t \in Slot : Frame(t), [Next]_vars
  PROVE  RowInv'
<1>1. ASSUME NEW k \in DOMAIN agents'
      PROVE  \E s \in Slot : Wrote(s, k)'
  <2>1. CASE \E s \in Slot : UpsertAgent(s)
    <3>1. PICK s \in Slot : UpsertAgent(s)
      BY <2>1
    <3>2. CASE k = request[s].kid
      <4>1. agents'[k] = NewRow(s)
        BY <3>1, <3>2, UpsertWrites
      <4>2. /\ NewRow(s).keys = request[s].keys /\ NewRow(s).url = request[s].url
            /\ NewRow(s).last_updated = at[s]
            /\ NewRow(s).domain_verified =
                 verifyDomainOwnership(request[s].url, request[s].kid, seen[s])
        BY DEF NewRow
      <4>3. pc[s] = "upsert" /\ won[s] /\ UNCHANGED <<request, at, won, seen>>
        BY <3>1 DEF UpsertAgent, StageInv, Won
      <4>4. pc'[s] = "drop"
        BY <3>1 DEF UpsertAgent, Goto, HandlerTypeOK
      <4>5. Wrote(s, k)'
        BY <3>2, <4>1, <4>2, <4>3, <4>4 DEF Wrote, Upserted, verifyDomainOwnership
      <4>6. QED
        BY <4>5
    <3>3. CASE k # request[s].kid
      <4>1. k \in Registered /\ agents'[k] = agents[k]
        BY <3>1, <3>3, UpsertWrites
      <4>2. QED
        BY <4>1, WroteStays DEF RowInv
    <3>4. QED
      BY <3>2, <3>3
  <2>2. CASE \A s \in Slot : ~UpsertAgent(s)
    <3>1. k \in Registered /\ agents'[k] = agents[k]
      BY <2>2, AgentsUnchanged DEF Registered
    <3>2. QED
      BY <3>1, WroteStays DEF RowInv
  <2>3. QED
    BY <2>1, <2>2
<1>2. QED
  BY <1>1, SeenInvStep DEF RowInv, Registered

(* Whatever upserts of one kid overlap, its row is the whole of one of     *)
(* them, and is verified by what that one saw (register.ts:226-264).       *)
THEOREM RowsAreWhole == Spec => []RowIsOneSubmit
<1>1. Init => RowInv
  BY DEF Init, RowInv, SeenInv, Registered, NoAnswer
<1>2. LimitInv /\ Inv /\ RowInv /\ [Next]_vars => RowInv'
  <2> SUFFICES ASSUME LimitInv, Inv, RowInv, [Next]_vars
               PROVE  RowInv'
    OBVIOUS
  <2>1. LimitTypeOK /\ HandlerTypeOK /\ AgentsTypeOK /\ StageInv
    BY DEF LimitInv, Inv
  <2>2. \A s \in Slot : Frame(s)
    BY <2>1, FrameHolds
  <2>3. QED
    BY <2>1, <2>2, RowInvStep
<1>3. RowInv => RowIsOneSubmit
  <2> SUFFICES ASSUME RowInv, NEW k \in Registered, NEW s \in Slot, Wrote(s, k)
               PROVE  /\ won[s]
                      /\ request[s].kid = k
                      /\ <<agents[k].keys, agents[k].url, agents[k].last_updated>>
                           = <<request[s].keys, request[s].url, at[s]>>
                      /\ agents[k].domain_verified =>
                           \/ agents[k].url = Hosted(k)
                           \/ /\ ~isForbiddenHost(agents[k].url)
                              /\ seen[s].kind = "jwks" /\ k \in seen[s].keys
    BY DEF RowInv, RowIsOneSubmit
  <2>1. pc[s] # "none"
    BY DEF Wrote, Upserted
  <2>2. seen[s].kind = "jwks" => ~isForbiddenHost(request[s].url)
    BY <2>1 DEF RowInv, SeenInv
  <2>3. QED
    BY <2>2 DEF Wrote, verifyDomainOwnership
<1>4. QED
  BY <1>1, <1>2, <1>3, Invariant, PTL DEF Spec

-----------------------------------------------------------------------------

(* Challenges are deleted in three places.                                 *)
LEMMA ChallengesKept ==
  ASSUME [Next]_vars
  PROVE  \/ challenges \subseteq challenges'
         \/ \E s \in Slot : InsertChallenge(s) \/ ConsumeChallenge(s) \/ DropChallenges(s)
BY StepCases DEF ArriveChallenge, ArriveSubmit, Arrive, PassGate, MintChallenge,
   CheckBody, ReadPrevious, ReadOwn, CheckHeaders, SelectChallenge,
   AskDomain, UpsertAgent, Fail, TimePasses, vars

LEMMA PendingSafeStep ==
  ASSUME LimitTypeOK, HandlerTypeOK, StageInv, JudgedInv, [Next]_vars,
         NEW c \in challenges \ challenges'
  PROVE  \/ c.expires_at < clock
         \/ \E s \in Slot : /\ pc'[s] # pc[s] /\ won'[s]
                           /\ request[s].kid = c.kid /\ request[s].signer = c.kid
<1>1. ASSUME NEW s \in Slot, InsertChallenge(s)
      PROVE  c.expires_at < clock
  <2>1. ~(c.expires_at >= at[s]) /\ at[s] <= clock
    BY <1>1 DEF InsertChallenge, StageInv
  <2>2. c.expires_at \in Nat /\ at[s] \in Nat /\ clock \in Nat
    BY TimeAssumption DEF HandlerTypeOK, Challenge, LimitTypeOK
  <2>3. QED
    BY <2>1, <2>2
<1>2. ASSUME NEW s \in Slot, ConsumeChallenge(s)
      PROVE  /\ pc'[s] # pc[s] /\ won'[s]
             /\ request[s].kid = c.kid /\ request[s].signer = c.kid
  <2>1. c \in QuotedBy(s)
    BY <1>2 DEF ConsumeChallenge
  <2>2. pc[s] = "consume" /\ Goto(s, "domain") /\ won' = [won EXCEPT ![s] = TRUE]
    BY <1>2, <2>1 DEF ConsumeChallenge
  <2>3. pc'[s] # pc[s] /\ won'[s]
    BY <2>2 DEF Goto, HandlerTypeOK
  <2>4. QED
    BY <2>1, <2>2, <2>3 DEF QuotedBy, JudgedInv
<1>3. ASSUME NEW s \in Slot, DropChallenges(s)
      PROVE  /\ pc'[s] # pc[s] /\ won'[s]
             /\ request[s].kid = c.kid /\ request[s].signer = c.kid
  <2>1. c.kid = request[s].kid /\ pc[s] = "drop" /\ UNCHANGED won
    BY <1>3 DEF DropChallenges
  <2>2. pc'[s] # pc[s]
    BY <1>3, <2>1 DEF DropChallenges, Respond, HandlerTypeOK
  <2>3. won[s]
    BY <2>1 DEF StageInv, Won
  <2>4. QED
    BY <2>1, <2>2, <2>3 DEF JudgedInv
<1>4. QED
  BY <1>1, <1>2, <1>3, ChallengesKept

(* Nobody costs a kid a pending challenge but whoever holds its key        *)
(* (register.ts:11-12, 78-87).                                             *)
THEOREM PendingChallengesStay == Spec => PendingChallengesSafe
<1>1. LimitInv /\ Inv /\ [Next]_vars =>
        [\A c \in challenges \ challenges' :
           \/ c.expires_at < clock
           \/ \E s \in Slot : /\ pc'[s] # pc[s] /\ won'[s]
                             /\ request[s].kid = c.kid /\ request[s].signer = c.kid]_vars
  BY PendingSafeStep DEF LimitInv, Inv
<1>2. QED
  BY <1>1, Invariant, PTL DEF Spec, PendingChallengesSafe

=============================================================================
