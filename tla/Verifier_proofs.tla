--------------------------- MODULE Verifier_proofs ---------------------------
(***************************************************************************)
(* Proofs about Verifier and the NonceStore in it, for any number of       *)
(* deliveries, requests, nonces and keys: what a nonce is accepted for,    *)
(* that the store is bounded, and how late a change of keys shows.         *)
(***************************************************************************)
EXTENDS Verifier, FiniteSetTheorems, TLAPS

-----------------------------------------------------------------------------
(* The store.                                                              *)

(* In a list that is not empty, one nonce is the first.                    *)
LEMMA SomeFirst ==
  ASSUME Ordered, NEW S, S \subseteq DOMAIN until, S # {}, IsFiniteSet(S)
  PROVE  \E n \in S : {m \in S : <<m, n>> \in older} = {}
<1> DEFINE P(n) == {m \in S : <<m, n>> \in older}
           c == [n \in S |-> Cardinality(P(n))]
           N == Cardinality(S)
<1>1. N \in Nat BY FS_CardinalityType
<1>2. \A n \in S : n \notin P(n) BY DEF Ordered
<1>3. \A n \in S : IsFiniteSet(P(n)) /\ Cardinality(P(n)) \in Nat /\ Cardinality(P(n)) < N
  <2>1. SUFFICES ASSUME NEW n \in S
                 PROVE  IsFiniteSet(P(n)) /\ Cardinality(P(n)) \in Nat /\ Cardinality(P(n)) < N
    OBVIOUS
  <2>2. P(n) \in SUBSET S /\ P(n) # S BY <1>2
  <2>3. IsFiniteSet(P(n)) /\ Cardinality(P(n)) <= N /\ (N = Cardinality(P(n)) => S = P(n))
    BY <2>2, FS_Subset
  <2>4. Cardinality(P(n)) \in Nat BY <2>3, FS_CardinalityType
  <2>5. QED BY <2>2, <2>3, <2>4, <1>1
<1>4. ASSUME NEW m \in S, NEW n \in S, <<m, n>> \in older PROVE c[m] # c[n]
  <2>1. P(m) \subseteq P(n) BY <1>4 DEF Ordered
  <2>2. P(m) # P(n) BY <1>2, <1>4
  <2>3. P(m) \in SUBSET P(n) /\ IsFiniteSet(P(n)) BY <2>1, <1>3
  <2>4. Cardinality(P(n)) = Cardinality(P(m)) => P(n) = P(m) BY <2>3, FS_Subset
  <2>5. QED BY <2>2, <2>4
<1>5. \A m, n \in S : m # n => c[m] # c[n]
  <2>1. SUFFICES ASSUME NEW m \in S, NEW n \in S, m # n PROVE c[m] # c[n] OBVIOUS
  <2>2. <<m, n>> \in older \/ <<n, m>> \in older BY <2>1 DEF Ordered
  <2>3. QED BY <2>2, <1>4
<1>6. SUFFICES ASSUME \A n \in S : P(n) # {} PROVE FALSE OBVIOUS
<1>7. \A n \in S : Cardinality(P(n)) # 0 BY <1>3, <1>6, FS_EmptySet
<1>8. c \in [S -> 1 .. N - 1]
  <2>1. \A n \in S : Cardinality(P(n)) \in 1 .. N - 1
    <3>1. SUFFICES ASSUME NEW n \in S PROVE Cardinality(P(n)) \in 1 .. N - 1 OBVIOUS
    <3> DEFINE x == Cardinality(P(n))
    <3>2. x \in Nat /\ x < N /\ x # 0 BY <1>3, <1>7
    <3> HIDE DEF x, N
    <3>3. x \in 1 .. N - 1 BY <3>2, <1>1
    <3>4. QED BY <3>3 DEF x
  <2>2. QED BY <2>1
<1>9. IsFiniteSet(1 .. N - 1) /\ Cardinality(1 .. N - 1) < N
  <2>1. N # 0 BY FS_EmptySet
  <2> HIDE DEF N
  <2>2. 1 \in Int /\ N - 1 \in Int BY <1>1
  <2>3. /\ IsFiniteSet(1 .. N - 1)
        /\ Cardinality(1 .. N - 1) = IF 1 > N - 1 THEN 0 ELSE (N - 1) - 1 + 1
    BY <2>2, FS_Interval
  <2>4. QED BY <2>1, <2>3, <1>1
<1> HIDE DEF c
<1>10. \E m, n \in S : m # n /\ c[m] = c[n] BY <1>8, <1>9, FS_PigeonHole
<1>11. QED BY <1>5, <1>10

(* What makes room is kept already, and there is room for one more then.   *)
LEMMA RoomIs ==
  ASSUME StoreTypeOK, StoreBounded, NEW t
  PROVE  /\ Room(t) \subseteq DOMAIN until
         /\ IsFiniteSet(Room(t)) /\ Cardinality(Room(t)) < MAXSIZE
<1>1. Live(t) \subseteq DOMAIN until BY DEF Live
<1>2. Room(t) \subseteq DOMAIN until BY <1>1 DEF Room
<1>3. IsFiniteSet(Room(t)) /\ IsFiniteSet(Live(t)) /\ Cardinality(Live(t)) \in Nat
  BY <1>1, <1>2, FS_Subset, FS_CardinalityType DEF StoreTypeOK
<1>4. CASE Cardinality(DOMAIN until) < MAXSIZE BY <1>3, <1>4 DEF Room
<1>5. CASE Cardinality(DOMAIN until) >= MAXSIZE /\ Cardinality(Live(t)) < MAXSIZE
  <2>1. Cardinality(DOMAIN until) \in Nat BY FS_CardinalityType DEF StoreTypeOK
  <2>2. Room(t) = Live(t) BY <1>5, <2>1, StoreAssumption DEF Room
  <2>3. QED BY <1>2, <1>3, <1>5, <2>2
<1>6. CASE Cardinality(DOMAIN until) >= MAXSIZE /\ ~(Cardinality(Live(t)) < MAXSIZE)
  <2>1. Live(t) # {} BY <1>6, FS_EmptySet, StoreAssumption
  <2>2. PICK n \in Live(t) : {m \in Live(t) : <<m, n>> \in older} = {}
    BY <2>1, <1>1, <1>3, SomeFirst DEF StoreTypeOK
  <2>3. n \in Oldest(Live(t))
    <3>1. Cardinality({m \in Live(t) : <<m, n>> \in older}) = 0 BY <2>2, FS_EmptySet
    <3>2. QED BY <3>1, StoreAssumption DEF Oldest
  <2>4. Room(t) = Live(t) \ Oldest(Live(t))
    <3>1. Cardinality(DOMAIN until) \in Nat BY FS_CardinalityType DEF StoreTypeOK
    <3>2. QED BY <1>6, <3>1, StoreAssumption DEF Room
  <2>5. Room(t) \in SUBSET Live(t) /\ Room(t) # Live(t) BY <2>2, <2>3, <2>4
  <2>6. Cardinality(Room(t)) < Cardinality(Live(t))
    BY <2>5, <1>3, FS_Subset, FS_CardinalityType
  <2>7. Cardinality(Live(t)) <= Cardinality(DOMAIN until)
    BY <1>1, FS_Subset DEF StoreTypeOK
  <2>8. QED
    BY <1>2, <1>3, <2>6, <2>7, FS_CardinalityType, StoreAssumption DEF StoreBounded, StoreTypeOK
<1>7. QED
  BY <1>2, <1>3, <1>4, <1>5, <1>6, FS_CardinalityType, StoreAssumption DEF StoreTypeOK

(* What a store knows after a nonce has come in.                           *)
LEMMA SeenIs ==
  ASSUME StoreTypeOK, StoreBounded, NEW n \in Nonce, NEW end \in Nat, NEW t, seen(n, end, t)
  PROVE  /\ DOMAIN until' = Room(t) \cup {n}
         /\ until'[n] = IF Known(n, t) THEN until[n] ELSE end
         /\ \A m \in Room(t) \ {n} : until'[m] = until[m]
         /\ forgotten' = forgotten \cup (Live(t) \ Room(t))
BY DEF seen

LEMMA SeenKeeps ==
  ASSUME StoreTypeOK, StoreBounded, NEW n \in Nonce, NEW end \in Nat, NEW t, seen(n, end, t)
  PROVE  StoreTypeOK' /\ StoreBounded'
<1> DEFINE R == Room(t)
<1>1. /\ R \subseteq DOMAIN until /\ IsFiniteSet(R) /\ Cardinality(R) < MAXSIZE
      /\ Cardinality(R) \in Nat
  BY RoomIs, FS_CardinalityType
<1>2. DOMAIN until' = R \cup {n} BY SeenIs
<1>3. IsFiniteSet(DOMAIN until') /\ Cardinality(DOMAIN until') <= MAXSIZE
  BY <1>1, <1>2, FS_AddElement, StoreAssumption
<1>4. DOMAIN until' \subseteq Nonce BY <1>1, <1>2 DEF StoreTypeOK
<1>5. until' \in [DOMAIN until' -> Nat]
  <2>1. until' = [m \in R \cup {n} |-> IF m = n /\ ~Known(n, t) THEN end ELSE until[m]]
    BY DEF seen
  <2>2. \A m \in R : until[m] \in Nat BY <1>1 DEF StoreTypeOK
  <2>3. Known(n, t) => n \in R BY DEF Known
  <2>4. QED BY <2>1, <2>2, <2>3
<1>6. older' = (older \cap (R \X R)) \cup ((R \ {n}) \X ({n} \ R))
  BY DEF seen, Order
<1> HIDE DEF R
<1>7. Ordered'
  <2>1. \A a, b \in R : <<a, b>> \in older' <=> <<a, b>> \in older BY <1>6
  <2>2. n \notin R => \A a \in R : <<a, n>> \in older' /\ <<n, a>> \notin older' /\ a # n
    BY <1>6
  <2>3. n \notin R => <<n, n>> \notin older' BY <1>6
  <2>4. older' \subseteq (R \cup {n}) \X (R \cup {n}) BY <1>6
  <2>5. n \in R => R \cup {n} = R OBVIOUS
  <2>6. \A a, b \in R \cup {n} : a = b \/ <<a, b>> \in older' \/ <<b, a>> \in older'
    BY <1>1, <2>1, <2>2, <2>5 DEF StoreTypeOK, Ordered
  <2>7. \A a, b \in R \cup {n} : <<a, b>> \in older' => <<b, a>> \notin older'
    BY <1>1, <2>1, <2>2, <2>3, <2>5 DEF StoreTypeOK, Ordered
  <2>8. \A a, b, c \in R \cup {n} :
          <<a, b>> \in older' /\ <<b, c>> \in older' => <<a, c>> \in older'
    BY <1>1, <2>1, <2>2, <2>3, <2>5 DEF StoreTypeOK, Ordered
  <2>9. QED BY <1>2, <2>4, <2>6, <2>7, <2>8 DEF Ordered
<1>8. forgotten' \subseteq Nonce BY SeenIs DEF StoreTypeOK, Live
<1>9. QED BY <1>3, <1>4, <1>5, <1>7, <1>8 DEF StoreTypeOK, StoreBounded

-----------------------------------------------------------------------------
(* Types, and what a step does to a delivery.                              *)

Open(d) == delivery[d].stage \in {"none"} \cup Waiting

Types ==
  /\ StoreTypeOK /\ StoreBounded
  /\ now \in Time
  /\ published \subseteq Key
  /\ jwks \subseteq Entry /\ Cardinality(jwks) <= 1
  /\ delivery \in [Delivery -> Verification]
  /\ accepted \in Seq(Delivery)

(* A step that neither accepts a request nor asks the store.               *)
Quiet ==
  /\ UNCHANGED <<storeVars, accepted>>
  /\ now' \in {now, now + 1}
  /\ \A d \in Delivery : \/ delivery'[d] = delivery[d]
                         \/ /\ Open(d) /\ delivery'[d].end = now
                            /\ delivery'[d].stage \notin {"accepted", "replayed"}

(* A verification that gets as far as its signature.                       *)
Settles(d, r, start, keys) ==
  /\ Open(d)
  /\ ~Forged(r) /\ r.key \in keys
  /\ Finish(d, r, start, keys)
  /\ UNCHANGED now

LEMMA TimeIs == Time \subseteq Nat /\ 0 \in Time
BY TimeAssumption DEF Time

LEMMA RequestIs ==
  ASSUME NEW r \in Request
  PROVE  /\ r.key \in Key /\ r.created \in Nat /\ r.expires \in Nat
         /\ r.nonce \in Nonce \cup {NoNonce}
         /\ KeptUntil(r) \in Nat /\ End(r) = KeptUntil(r)
<1>1. r.key \in Key /\ r.created \in Nat /\ r.expires \in Nat /\ r.nonce \in Nonce \cup {NoNonce}
  BY RequestAssumption
<1>2. QED BY <1>1, TimeAssumption DEF KeptUntil, End

LEMMA VerifyIs ==
  ASSUME Types, NEW r \in Request, NEW start \in Time, NEW keys \in SUBSET Key,
         NEW why \in {"none", "accepted"} \cup Waiting \cup Refusal
  PROVE  Verify(why, r, start, keys) \in Verification
BY DEF Types, Verify, Verification

LEMMA RefuseTypes ==
  ASSUME Types, NEW d \in Delivery, NEW r \in Request, NEW start \in Time, NEW keys \in SUBSET Key,
         NEW why \in Refusal, Refuse(d, r, start, keys, why)
  PROVE  delivery' \in [Delivery -> Verification] /\ accepted' \in Seq(Delivery)
<1>1. Verify(why, r, start, keys) \in Verification BY VerifyIs
<1>2. QED BY <1>1 DEF Types, Refuse

LEMMA AcceptTypes ==
  ASSUME Types, NEW d \in Delivery, NEW r \in Request, NEW start \in Time, NEW keys \in SUBSET Key,
         Accept(d, r, start, keys)
  PROVE  delivery' \in [Delivery -> Verification] /\ accepted' \in Seq(Delivery)
<1>1. Verify("accepted", r, start, keys) \in Verification BY VerifyIs
<1>2. QED BY <1>1 DEF Types, Accept

LEMMA FinishTypes ==
  ASSUME Types, NEW d \in Delivery, NEW r \in Request, NEW start \in Time, NEW keys \in SUBSET Key,
         Finish(d, r, start, keys)
  PROVE  /\ delivery' \in [Delivery -> Verification] /\ accepted' \in Seq(Delivery)
         /\ StoreTypeOK' /\ StoreBounded'
<1>1. {"unpublished", "signature", "replayed"} \subseteq Refusal BY DEF Refusal
<1>2. delivery' \in [Delivery -> Verification] /\ accepted' \in Seq(Delivery)
  <2>1. CASE \E why \in Refusal : Refuse(d, r, start, keys, why) BY <2>1, RefuseTypes
  <2>2. CASE Accept(d, r, start, keys) BY <2>2, AcceptTypes
  <2>3. QED BY <1>1, <2>1, <2>2 DEF Finish
<1>3. StoreTypeOK' /\ StoreBounded'
  <2>1. CASE UNCHANGED storeVars
    BY <2>1 DEF Types, storeVars, StoreTypeOK, StoreBounded, Ordered
  <2>2. CASE r.nonce # NoNonce /\ seen(r.nonce, KeptUntil(r), now)
    BY <2>2, RequestIs, SeenKeeps DEF Types
  <2>3. QED BY <2>1, <2>2 DEF Finish
<1>4. QED BY <1>2, <1>3

(* What Finish does to the delivery, by its outcomes.                      *)
LEMMA FinishIs ==
  ASSUME Types, NEW d \in Delivery, Open(d), NEW r \in Request, NEW start \in Time,
         NEW keys \in SUBSET Key, Finish(d, r, start, keys), now' = now
  PROVE  Quiet \/ Settles(d, r, start, keys)
<1>1. CASE \/ r.key \notin keys /\ Refuse(d, r, start, keys, "unpublished") /\ UNCHANGED storeVars
           \/ r.key \in keys /\ Forged(r) /\ Refuse(d, r, start, keys, "signature")
              /\ UNCHANGED storeVars
  BY <1>1 DEF Refuse, Verify, Quiet, Types
<1>2. QED BY <1>1 DEF Finish, Settles

StepKind ==
  Quiet \/ \E d \in Delivery, r \in Request, start \in Time, keys \in SUBSET Key :
             Settles(d, r, start, keys)

LEMMA TypesNext ==
  ASSUME Types, [Next]_vars
  PROVE  Types' /\ StepKind
<1>1. CASE UNCHANGED vars
  BY <1>1 DEF vars, verifyVars, storeVars, Types, StoreTypeOK, StoreBounded, Ordered,
              StepKind, Quiet, Open
<1> DEFINE Rest == StoreTypeOK' /\ StoreBounded' /\ now' \in Time /\ published' \subseteq Key
                   /\ jwks' \subseteq Entry /\ Cardinality(jwks') <= 1
<1>2. ASSUME NEW d \in Delivery, NEW r \in Request,
             RefuseAtOnce(d, r) \/ VerifyCached(d, r) \/ Fetch(d, r)
      PROVE  Types' /\ StepKind
  <2>1. Open(d) /\ now \in Time BY <1>2 DEF RefuseAtOnce, VerifyCached, Fetch, Open, Types
  <2>2. CASE RefuseAtOnce(d, r)
    <3>1. PICK why \in {"form", "time"} : Refuse(d, r, now, {}, why) BY <2>2 DEF RefuseAtOnce
    <3>2. why \in Refusal BY DEF Refusal
    <3>3. delivery' \in [Delivery -> Verification] /\ accepted' \in Seq(Delivery)
      BY <2>1, <3>1, <3>2, RefuseTypes
    <3>4. Quiet BY <2>1, <2>2, <3>1 DEF RefuseAtOnce, Refuse, Verify, Quiet, Types
    <3>5. QED
      BY <2>2, <3>3, <3>4
         DEF RefuseAtOnce, StepKind, Types, storeVars, StoreTypeOK, StoreBounded, Ordered
  <2>3. CASE VerifyCached(d, r)
    <3>1. PICK e \in Cached : Finish(d, r, now, e.keys) BY <2>3 DEF VerifyCached
    <3>2. e.keys \in SUBSET Key BY DEF Cached, Types, Entry
    <3>3. Quiet \/ Settles(d, r, now, e.keys)
      BY <2>1, <2>3, <3>1, <3>2, FinishIs DEF VerifyCached
    <3>4. StepKind BY <2>1, <3>2, <3>3 DEF StepKind
    <3>5. /\ delivery' \in [Delivery -> Verification] /\ accepted' \in Seq(Delivery)
          /\ StoreTypeOK' /\ StoreBounded'
      BY <2>1, <3>1, <3>2, FinishTypes
    <3>6. QED BY <2>3, <3>4, <3>5 DEF VerifyCached, Types
  <2>4. CASE Fetch(d, r)
    <3>1. Verify("fetch", r, now, {}) \in Verification BY <2>1, VerifyIs DEF Waiting
    <3>2. delivery' \in [Delivery -> Verification] BY <2>4, <3>1 DEF Fetch, Types
    <3>3. Quiet BY <2>1, <2>4 DEF Fetch, Verify, Quiet, Types
    <3>4. QED
      BY <2>4, <3>2, <3>3 DEF Fetch, StepKind, Types, storeVars, StoreTypeOK, StoreBounded, Ordered
  <2>5. QED BY <1>2, <2>2, <2>3, <2>4
<1>3. ASSUME NEW d \in Delivery, Answer(d) \/ Store(d) \/ FetchFails(d)
      PROVE  Types' /\ StepKind
  <2> DEFINE q == delivery[d]
  <2>1. q \in Verification BY DEF Types
  <2>2. /\ q.request \in Request /\ q.t \in Time /\ q.keys \in SUBSET Key
        /\ q.stage \in Waiting /\ Open(d)
    BY <1>3, <2>1 DEF Verification, Answer, Store, FetchFails, Open, Waiting
  <2>3. CASE Answer(d)
    <3>1. Verify("answer", q.request, q.t, published) \in Verification
      BY <2>2, VerifyIs DEF Waiting, Types
    <3>2. delivery' = [delivery EXCEPT ![d] = Verify("answer", q.request, q.t, published)]
      BY <2>3 DEF Answer
    <3>3. delivery' \in [Delivery -> Verification] BY <3>1, <3>2 DEF Types
    <3>4. Quiet BY <2>2, <2>3, <3>2 DEF Answer, Verify, Quiet, Types
    <3>5. QED
      BY <2>3, <3>3, <3>4 DEF Answer, StepKind, Types, storeVars, StoreTypeOK, StoreBounded, Ordered
  <2>4. CASE Store(d)
    <3>1. Finish(d, q.request, q.t, q.keys) BY <2>4 DEF Store
    <3>2. Quiet \/ Settles(d, q.request, q.t, q.keys)
      BY <2>2, <2>4, <3>1, FinishIs DEF Store
    <3>3. StepKind BY <2>2, <3>2 DEF StepKind
    <3>4. /\ delivery' \in [Delivery -> Verification] /\ accepted' \in Seq(Delivery)
          /\ StoreTypeOK' /\ StoreBounded'
      BY <2>2, <3>1, FinishTypes
    <3> DEFINE e == [until |-> now + TTL, keys |-> q.keys]
    <3>5. now + TTL \in Nat BY TimeIs, TimeAssumption DEF Types
    <3>6. e \in Entry BY <2>2, <3>5 DEF Entry
    <3> HIDE DEF e
    <3>7. jwks' = {e} BY <2>4 DEF Store, e
    <3>8. Cardinality(jwks') <= 1 BY <3>7, FS_Singleton
    <3>9. QED BY <2>4, <3>3, <3>4, <3>6, <3>7, <3>8 DEF Store, Types
  <2>5. CASE FetchFails(d)
    <3>1. "unreachable" \in Refusal BY DEF Refusal
    <3>2. Refuse(d, q.request, q.t, {}, "unreachable") BY <2>5 DEF FetchFails
    <3>3. delivery' \in [Delivery -> Verification] /\ accepted' \in Seq(Delivery)
      BY <2>2, <3>1, <3>2, RefuseTypes
    <3>4. Quiet BY <2>2, <2>5, <3>2 DEF FetchFails, Refuse, Verify, Quiet, Types
    <3>5. QED
      BY <2>5, <3>3, <3>4
         DEF FetchFails, StepKind, Types, storeVars, StoreTypeOK, StoreBounded, Ordered
  <2>6. QED BY <1>3, <2>3, <2>4, <2>5
<1>4. ASSUME NEW keys \in Listing, Publish(keys) PROVE Types' /\ StepKind
  BY <1>4, ListingAssumption
     DEF Publish, Quiet, StepKind, Types, storeVars, StoreTypeOK, StoreBounded, Ordered
<1>5. CASE Tick
  <2>1. now' \in Time BY <1>5, TimeAssumption DEF Tick, Types, Time
  <2>2. Quiet BY <1>5 DEF Tick, Quiet
  <2>3. QED
    BY <1>5, <2>1, <2>2 DEF Tick, StepKind, Types, storeVars, StoreTypeOK, StoreBounded, Ordered
<1>6. QED BY <1>1, <1>2, <1>3, <1>4, <1>5 DEF Next

LEMMA TypesInit ==
  ASSUME Init PROVE Types
<1>1. DOMAIN until = {} /\ until = <<>> BY DEF Init, StoreInit
<1>2. StoreTypeOK /\ StoreBounded
  <2>1. IsFiniteSet({}) /\ Cardinality({}) = 0 BY FS_EmptySet
  <2>2. QED BY <1>1, <2>1, StoreAssumption DEF Init, StoreInit, StoreTypeOK, StoreBounded, Ordered
<1>3. Cardinality(jwks) <= 1 BY FS_EmptySet DEF Init
<1>4. (CHOOSE r \in Request : TRUE) \in Request BY RequestAssumption
<1>5. delivery \in [Delivery -> Verification] BY <1>4, TimeIs DEF Init, Verification
<1>6. QED BY <1>2, <1>3, <1>5, TimeIs, ListingAssumption DEF Init, Types

-----------------------------------------------------------------------------
(* Nonces.                                                                 *)

Acceptance(i) == delivery[accepted[i]]

(* What is accepted stays accepted, and each delivery once.                *)
Acceptances ==
  /\ \A d \in Delivery : delivery[d].end <= now
  /\ \A i \in DOMAIN accepted : Acceptance(i).stage = "accepted"
  /\ IsInjective(accepted)

(* The nonce of an acceptance is kept until its time is over, or forgotten *)
(* for want of room; and a nonce that is kept is that of an acceptance.    *)
Remembered ==
  \A i \in DOMAIN accepted :
    LET r == Acceptance(i).request IN
    r.nonce # NoNonce => \/ r.nonce \in forgotten
                         \/ End(r) <= now
                         \/ r.nonce \in DOMAIN until /\ until[r.nonce] >= End(r)

Founded ==
  \A n \in DOMAIN until : \E i \in DOMAIN accepted :
    Acceptance(i).request.nonce = n /\ until[n] = End(Acceptance(i).request)

(* NonceAcceptedOnce, by indices.                                          *)
Once ==
  \A i, j \in DOMAIN accepted :
    LET r == Acceptance(i).request IN
    i < j /\ r.nonce # NoNonce /\ r.nonce = Acceptance(j).request.nonce =>
      r.nonce \in forgotten \/ Acceptance(j).end >= End(r)

NonceInv == Types /\ Acceptances /\ Remembered /\ Founded /\ Once /\ RefusedForAnAcceptance

(* What is there of acceptances stays, whatever else happens.              *)
LEMMA AcceptedStays ==
  ASSUME NonceInv, Types', Quiet \/ \E d \in Delivery : Open(d) /\ now' = now /\
           \E v : delivery' = [delivery EXCEPT ![d] = v] /\ accepted' \in {accepted, Append(accepted, d)}
  PROVE  \A i \in DOMAIN accepted :
           /\ i \in DOMAIN accepted' /\ i \in Nat /\ i <= Len(accepted)
           /\ accepted'[i] = accepted[i] /\ accepted[i] \in Delivery
           /\ delivery'[accepted[i]] = delivery[accepted[i]]
           /\ Acceptance(i)' = Acceptance(i)
<1> SUFFICES ASSUME NEW i \in DOMAIN accepted
             PROVE  /\ i \in DOMAIN accepted' /\ i \in Nat /\ i <= Len(accepted)
                    /\ accepted'[i] = accepted[i] /\ accepted[i] \in Delivery
                    /\ delivery'[accepted[i]] = delivery[accepted[i]]
                    /\ Acceptance(i)' = Acceptance(i)
  OBVIOUS
<1>1. accepted \in Seq(Delivery) BY DEF NonceInv, Types
<1>2. accepted[i] \in Delivery /\ i \in Nat /\ i <= Len(accepted) BY <1>1
<1>3. ~Open(accepted[i]) BY <1>2 DEF NonceInv, Acceptances, Acceptance, Open, Waiting
<1>4. CASE Quiet
  <2>1. accepted' = accepted /\ delivery'[accepted[i]] = delivery[accepted[i]]
    BY <1>2, <1>3, <1>4 DEF Quiet
  <2>2. QED BY <1>2, <2>1 DEF Acceptance
<1>5. ASSUME NEW d \in Delivery, Open(d), NEW v, delivery' = [delivery EXCEPT ![d] = v],
             accepted' \in {accepted, Append(accepted, d)}
      PROVE  /\ i \in DOMAIN accepted' /\ accepted'[i] = accepted[i]
             /\ delivery'[accepted[i]] = delivery[accepted[i]]
  <2>1. accepted[i] # d BY <1>3, <1>5
  <2>2. i \in DOMAIN accepted' /\ accepted'[i] = accepted[i] BY <1>1, <1>5
  <2>3. QED BY <1>2, <1>5, <2>1, <2>2 DEF NonceInv, Types
<1>6. QED BY <1>2, <1>4, <1>5 DEF Acceptance

LEMMA QuietKeeps ==
  ASSUME NonceInv, Types', Quiet
  PROVE  NonceInv'
<1>1. /\ \A i \in DOMAIN accepted : Acceptance(i)' = Acceptance(i)
      /\ accepted' = accepted /\ until' = until /\ forgotten' = forgotten
  BY AcceptedStays DEF Quiet, storeVars
<1>2. now \in Nat /\ now' \in Nat /\ now' >= now /\ \A d \in Delivery : delivery[d].end \in Nat
  <2>1. now \in Nat BY TimeIs DEF NonceInv, Types
  <2>2. now' \in Nat /\ now' >= now BY <2>1 DEF Quiet
  <2>3. \A d \in Delivery : delivery[d].end \in Time BY DEF NonceInv, Types, Verification
  <2>4. QED BY <2>1, <2>2, <2>3, TimeIs
<1>3. Acceptances'
  <2>1. \A d \in Delivery : delivery'[d].end <= now'
    BY <1>2 DEF Quiet, NonceInv, Acceptances
  <2>2. QED BY <1>1, <2>1 DEF NonceInv, Acceptances
<1>4. Remembered'
  <2>1. SUFFICES ASSUME NEW i \in DOMAIN accepted, Acceptance(i).request.nonce # NoNonce
                 PROVE  LET r == Acceptance(i).request IN
                        \/ r.nonce \in forgotten \/ End(r) <= now'
                        \/ r.nonce \in DOMAIN until /\ until[r.nonce] >= End(r)
    BY <1>1 DEF Remembered
  <2>2. Acceptance(i).request \in Request
    BY DEF NonceInv, Types, Acceptance, Verification
  <2>3. End(Acceptance(i).request) \in Nat BY <2>2, RequestIs
  <2>4. QED BY <1>2, <2>1, <2>3 DEF NonceInv, Remembered
<1>5. Founded' BY <1>1 DEF NonceInv, Founded
<1>6. Once' BY <1>1 DEF NonceInv, Once
<1>7. RefusedForAnAcceptance'
  <2>1. SUFFICES ASSUME NEW d \in Delivery, delivery'[d].stage = "replayed"
                 PROVE  \E i \in DOMAIN accepted :
                          /\ Acceptance(i).request.nonce = delivery'[d].request.nonce
                          /\ Acceptance(i).end <= delivery'[d].end
                          /\ delivery'[d].end < End(Acceptance(i).request)
    BY <1>1 DEF RefusedForAnAcceptance, Acceptance
  <2>2. delivery'[d] = delivery[d] BY <2>1 DEF Quiet
  <2>3. QED BY <2>1, <2>2 DEF NonceInv, RefusedForAnAcceptance, Acceptance
<1>8. QED BY <1>3, <1>4, <1>5, <1>6, <1>7 DEF NonceInv

(* An acceptance: what it adds, and what it leaves.                        *)
LEMMA AcceptKeeps ==
  ASSUME NonceInv, Types', NEW d \in Delivery, Open(d), NEW r \in Request,
         NEW start \in Time, NEW keys, Accept(d, r, start, keys), now' = now
  PROVE  /\ Acceptances' /\ RefusedForAnAcceptance'
         /\ accepted' = Append(accepted, d)
         /\ \A i \in DOMAIN accepted : i \in DOMAIN accepted' /\ Acceptance(i)' = Acceptance(i)
         /\ \E N \in DOMAIN accepted' :
              /\ Acceptance(N)'.request = r /\ Acceptance(N)'.end = now
              /\ N \notin DOMAIN accepted
              /\ \A i \in DOMAIN accepted' : i \in DOMAIN accepted \/ i = N
              /\ \A i \in DOMAIN accepted : i < N
<1> DEFINE w == Verify("accepted", r, start, keys)
<1>1. PICK v, N : /\ v = w /\ v.stage = "accepted" /\ v.request = r /\ v.end = now
                  /\ N = Len(accepted) + 1
  <2>1. w.stage = "accepted" /\ w.request = r /\ w.end = now BY DEF Verify
  <2> HIDE DEF w
  <2>2. QED BY <2>1
<1>2. delivery' = [delivery EXCEPT ![d] = v] /\ accepted' = Append(accepted, d) BY <1>1 DEF Accept
<1> HIDE DEF w
<1>3. \A i \in DOMAIN accepted :
        /\ i \in DOMAIN accepted' /\ i \in Nat /\ i <= Len(accepted)
        /\ accepted'[i] = accepted[i] /\ accepted[i] \in Delivery
        /\ delivery'[accepted[i]] = delivery[accepted[i]]
        /\ Acceptance(i)' = Acceptance(i)
  BY <1>2, AcceptedStays
<1>4. accepted \in Seq(Delivery) BY DEF NonceInv, Types
<1>5. /\ N \in DOMAIN accepted' /\ accepted'[N] = d
      /\ \A i \in DOMAIN accepted' : i \in DOMAIN accepted \/ i = N
      /\ N \notin DOMAIN accepted /\ \A i \in DOMAIN accepted : i < N
  BY <1>1, <1>2, <1>4
<1>6. delivery'[d] = v /\ \A e \in Delivery : e # d => delivery'[e] = delivery[e]
  BY <1>2 DEF NonceInv, Types
<1>7. Acceptance(N)' = v BY <1>5, <1>6 DEF Acceptance
<1>8. Acceptances'
  <2>1. \A e \in Delivery : delivery'[e].end <= now'
    <3>1. now <= now BY TimeIs DEF NonceInv, Types
    <3>2. QED BY <1>1, <1>6, <3>1 DEF NonceInv, Acceptances
  <2>2. \A i \in DOMAIN accepted' : Acceptance(i)'.stage = "accepted"
    BY <1>1, <1>3, <1>5, <1>7 DEF NonceInv, Acceptances
  <2>3. \A i \in DOMAIN accepted : accepted[i] # d
    BY <1>4 DEF NonceInv, Acceptances, Acceptance, Open, Waiting
  <2>4. IsInjective(accepted')
    BY <1>3, <1>5, <2>3 DEF NonceInv, Acceptances, IsInjective
  <2>5. QED BY <2>1, <2>2, <2>4 DEF Acceptances
<1>9. RefusedForAnAcceptance'
  <2>1. SUFFICES ASSUME NEW e \in Delivery, delivery'[e].stage = "replayed"
                 PROVE  \E i \in DOMAIN accepted' :
                          /\ Acceptance(i)'.request.nonce = delivery'[e].request.nonce
                          /\ Acceptance(i)'.end <= delivery'[e].end
                          /\ delivery'[e].end < End(Acceptance(i)'.request)
    BY DEF RefusedForAnAcceptance, Acceptance
  <2>2. delivery'[e] = delivery[e] BY <2>1, <1>1, <1>6
  <2>3. PICK i \in DOMAIN accepted :
          /\ Acceptance(i).request.nonce = delivery[e].request.nonce
          /\ Acceptance(i).end <= delivery[e].end
          /\ delivery[e].end < End(Acceptance(i).request)
    BY <2>1, <2>2 DEF NonceInv, RefusedForAnAcceptance, Acceptance
  <2>4. QED BY <1>3, <2>2, <2>3
<1>10. QED BY <1>1, <1>2, <1>3, <1>5, <1>7, <1>8, <1>9

(* A request without a nonce.                                              *)
LEMMA NonceFreeKeeps ==
  ASSUME NonceInv, Types', NEW d \in Delivery, Open(d), NEW r \in Request, r.nonce = NoNonce,
         NEW start \in Time, NEW keys, Accept(d, r, start, keys), UNCHANGED <<storeVars, now>>
  PROVE  NonceInv'
<1>1. PICK N \in DOMAIN accepted' :
        /\ Acceptances' /\ RefusedForAnAcceptance'
        /\ \A i \in DOMAIN accepted : i \in DOMAIN accepted' /\ Acceptance(i)' = Acceptance(i)
        /\ \A i \in DOMAIN accepted' : i \in DOMAIN accepted \/ i = N
        /\ Acceptance(N)'.request = r
  BY AcceptKeeps
<1>2. until' = until /\ forgotten' = forgotten /\ now' = now BY DEF storeVars
<1>3. Remembered'
  <2>1. SUFFICES ASSUME NEW i \in DOMAIN accepted', Acceptance(i)'.request.nonce # NoNonce
                 PROVE  LET q == Acceptance(i)'.request IN
                        \/ q.nonce \in forgotten \/ End(q) <= now
                        \/ q.nonce \in DOMAIN until /\ until[q.nonce] >= End(q)
    BY <1>2 DEF Remembered
  <2>2. i \in DOMAIN accepted /\ Acceptance(i)' = Acceptance(i) BY <1>1, <2>1
  <2>3. QED BY <2>1, <2>2 DEF NonceInv, Remembered
<1>4. Founded'
  <2>1. SUFFICES ASSUME NEW n \in DOMAIN until
                 PROVE  \E i \in DOMAIN accepted' :
                          /\ Acceptance(i)'.request.nonce = n
                          /\ until[n] = End(Acceptance(i)'.request)
    BY <1>2 DEF Founded
  <2>2. QED BY <1>1 DEF NonceInv, Founded
<1>5. Once'
  <2>1. SUFFICES ASSUME NEW i \in DOMAIN accepted', NEW j \in DOMAIN accepted', i < j,
                        Acceptance(i)'.request.nonce # NoNonce,
                        Acceptance(i)'.request.nonce = Acceptance(j)'.request.nonce
                 PROVE  \/ Acceptance(i)'.request.nonce \in forgotten
                        \/ Acceptance(j)'.end >= End(Acceptance(i)'.request)
    BY <1>2 DEF Once
  <2>2. i \in DOMAIN accepted /\ j \in DOMAIN accepted BY <1>1, <2>1
  <2>3. QED BY <1>1, <2>1, <2>2 DEF NonceInv, Once
<1>6. QED BY <1>1, <1>3, <1>4, <1>5 DEF NonceInv

(* A nonce that comes in once more while it is live.                       *)
LEMMA ReplayKeeps ==
  ASSUME NonceInv, Types', NEW d \in Delivery, Open(d), NEW r \in Request, r.nonce \in Nonce,
         NEW start \in Time, NEW keys, Refuse(d, r, start, keys, "replayed"), now' = now,
         Known(r.nonce, now), seen(r.nonce, KeptUntil(r), now)
  PROVE  NonceInv'
<1> DEFINE w == Verify("replayed", r, start, keys)
<1>1. PICK v : v = w /\ v.stage = "replayed" /\ v.request = r /\ v.end = now
  <2>1. w.stage = "replayed" /\ w.request = r /\ w.end = now BY DEF Verify
  <2> HIDE DEF w
  <2>2. QED BY <2>1
<1>2. delivery' = [delivery EXCEPT ![d] = v] /\ accepted' = accepted BY <1>1 DEF Refuse
<1>3. \A i \in DOMAIN accepted : Acceptance(i)' = Acceptance(i)
  BY <1>2, AcceptedStays
<1>4. delivery'[d] = v /\ \A e \in Delivery : e # d => delivery'[e] = delivery[e]
  BY <1>2 DEF NonceInv, Types
<1>5. /\ Room(now) \subseteq DOMAIN until /\ r.nonce \in Room(now)
      /\ DOMAIN until' = Room(now)
      /\ \A n \in Room(now) : until'[n] = until[n]
      /\ forgotten' = forgotten \cup (Live(now) \ Room(now))
  <2>1. r.nonce \in Room(now) BY DEF Known
  <2>2. KeptUntil(r) \in Nat BY RequestIs
  <2>3. /\ DOMAIN until' = Room(now) \cup {r.nonce}
        /\ until'[r.nonce] = until[r.nonce]
        /\ \A n \in Room(now) \ {r.nonce} : until'[n] = until[n]
        /\ forgotten' = forgotten \cup (Live(now) \ Room(now))
    BY <2>2, SeenIs DEF NonceInv, Types
  <2>4. DOMAIN until' = Room(now) BY <2>1, <2>3
  <2>5. \A n \in Room(now) : until'[n] = until[n] BY <2>3
  <2>6. QED BY <2>1, <2>3, <2>4, <2>5, RoomIs DEF NonceInv, Types
<1>6. now \in Nat BY TimeIs DEF NonceInv, Types
<1>7. Acceptances'
  <2>1. \A e \in Delivery : delivery'[e].end <= now'
    BY <1>1, <1>4, <1>6 DEF NonceInv, Acceptances
  <2>2. QED BY <1>2, <1>3, <2>1 DEF NonceInv, Acceptances
<1>8. Remembered'
  <2>1. SUFFICES ASSUME NEW i \in DOMAIN accepted, Acceptance(i).request.nonce # NoNonce
                 PROVE  LET q == Acceptance(i).request IN
                        \/ q.nonce \in forgotten' \/ End(q) <= now
                        \/ q.nonce \in DOMAIN until' /\ until'[q.nonce] >= End(q)
    BY <1>2, <1>3 DEF Remembered
  <2>2. PICK q : q = Acceptance(i).request OBVIOUS
  <2>3. q \in Request BY <2>2 DEF NonceInv, Types, Acceptance, Verification
  <2>4. End(q) \in Nat BY <2>3, RequestIs
  <2>5. \/ q.nonce \in forgotten \/ End(q) <= now
        \/ q.nonce \in DOMAIN until /\ until[q.nonce] >= End(q)
    BY <2>1, <2>2 DEF NonceInv, Remembered
  <2>6. ASSUME q.nonce \in DOMAIN until, until[q.nonce] >= End(q), ~(End(q) <= now)
        PROVE  \/ q.nonce \in forgotten'
               \/ q.nonce \in DOMAIN until' /\ until'[q.nonce] >= End(q)
    <3>1. until[q.nonce] \in Nat BY <2>6 DEF NonceInv, Types, StoreTypeOK
    <3>2. q.nonce \in Live(now) BY <1>6, <2>4, <2>6, <3>1 DEF Live
    <3>3. QED BY <1>5, <2>6, <3>2
  <2>7. QED BY <1>5, <2>2, <2>5, <2>6
<1>9. Founded'
  <2>1. SUFFICES ASSUME NEW n \in DOMAIN until'
                 PROVE  \E i \in DOMAIN accepted :
                          /\ Acceptance(i).request.nonce = n
                          /\ until'[n] = End(Acceptance(i).request)
    BY <1>2, <1>3 DEF Founded
  <2>2. QED BY <1>5 DEF NonceInv, Founded
<1>10. Once'
  <2>1. SUFFICES ASSUME NEW i \in DOMAIN accepted, NEW j \in DOMAIN accepted, i < j,
                        Acceptance(i).request.nonce # NoNonce,
                        Acceptance(i).request.nonce = Acceptance(j).request.nonce
                 PROVE  \/ Acceptance(i).request.nonce \in forgotten'
                        \/ Acceptance(j).end >= End(Acceptance(i).request)
    BY <1>2, <1>3 DEF Once
  <2>2. QED BY <1>5, <2>1 DEF NonceInv, Once
<1>11. RefusedForAnAcceptance'
  <2>1. SUFFICES ASSUME NEW e \in Delivery, delivery'[e].stage = "replayed"
                 PROVE  \E i \in DOMAIN accepted :
                          /\ Acceptance(i).request.nonce = delivery'[e].request.nonce
                          /\ Acceptance(i).end <= delivery'[e].end
                          /\ delivery'[e].end < End(Acceptance(i).request)
    <3>1. \A i \in DOMAIN accepted : delivery'[accepted[i]] = Acceptance(i)
      BY <1>2, <1>3 DEF Acceptance
    <3>2. QED BY <1>2, <2>1, <3>1 DEF RefusedForAnAcceptance
  <2>2. CASE e = d
    <3>1. until[r.nonce] > now /\ r.nonce \in DOMAIN until BY <1>5 DEF Known
    <3>2. PICK i \in DOMAIN accepted :
            Acceptance(i).request.nonce = r.nonce /\ until[r.nonce] = End(Acceptance(i).request)
      BY <3>1 DEF NonceInv, Founded
    <3>3. accepted[i] \in Delivery BY DEF NonceInv, Types
    <3>4. Acceptance(i).end <= now BY <3>3 DEF NonceInv, Acceptances, Acceptance
    <3>5. until[r.nonce] \in Nat BY <3>1 DEF NonceInv, Types, StoreTypeOK
    <3>6. now < End(Acceptance(i).request) BY <1>6, <3>1, <3>2, <3>5
    <3>7. QED BY <1>1, <1>4, <2>2, <3>2, <3>4, <3>6
  <2>3. CASE e # d
    <3>1. delivery'[e] = delivery[e] BY <1>4, <2>3
    <3>2. QED BY <2>1, <3>1 DEF NonceInv, RefusedForAnAcceptance, Acceptance
  <2>4. QED BY <2>2, <2>3
<1>12. QED BY <1>7, <1>8, <1>9, <1>10, <1>11 DEF NonceInv

(* A nonce that is new, or has been dropped, or is live no more.           *)
LEMMA NonceKeeps ==
  ASSUME NonceInv, Types', NEW d \in Delivery, Open(d), NEW r \in Request, r.nonce \in Nonce,
         NEW start \in Time, NEW keys, Accept(d, r, start, keys), now' = now,
         ~Known(r.nonce, now), seen(r.nonce, KeptUntil(r), now)
  PROVE  NonceInv'
<1>1. PICK N \in DOMAIN accepted' :
        /\ Acceptances' /\ RefusedForAnAcceptance'
        /\ \A i \in DOMAIN accepted : i \in DOMAIN accepted' /\ Acceptance(i)' = Acceptance(i)
        /\ \A i \in DOMAIN accepted' : i \in DOMAIN accepted \/ i = N
        /\ \A i \in DOMAIN accepted : i < N
        /\ Acceptance(N)'.request = r /\ Acceptance(N)'.end = now
  BY AcceptKeeps
<1>2. /\ Room(now) \subseteq DOMAIN until
      /\ DOMAIN until' = Room(now) \cup {r.nonce}
      /\ until'[r.nonce] = End(r)
      /\ \A n \in Room(now) \ {r.nonce} : until'[n] = until[n]
      /\ forgotten' = forgotten \cup (Live(now) \ Room(now))
      /\ ~(r.nonce \in Live(now) /\ r.nonce \in Room(now))
      /\ End(r) \in Nat
  <2>1. KeptUntil(r) \in Nat /\ End(r) = KeptUntil(r) BY RequestIs
  <2>2. ~(r.nonce \in Live(now) /\ r.nonce \in Room(now)) BY DEF Known, Live
  <2>3. QED BY <2>1, <2>2, RoomIs, SeenIs DEF NonceInv, Types
<1>3. now \in Nat BY TimeIs DEF NonceInv, Types
(* Those accepted before lose a nonce only when it is dropped or over.     *)
<1>4. ASSUME NEW i \in DOMAIN accepted, NEW q, q = Acceptance(i).request, q.nonce # NoNonce,
             ~(End(q) <= now), q.nonce \notin forgotten'
      PROVE  /\ q.nonce # r.nonce
             /\ q.nonce \in DOMAIN until' /\ until'[q.nonce] >= End(q)
  <2>1. q \in Request BY <1>4 DEF NonceInv, Types, Acceptance, Verification
  <2>2. End(q) \in Nat BY <2>1, RequestIs
  <2>3. q.nonce \in DOMAIN until /\ until[q.nonce] >= End(q)
    BY <1>2, <1>4 DEF NonceInv, Remembered
  <2>4. until[q.nonce] \in Nat BY <2>3 DEF NonceInv, Types, StoreTypeOK
  <2>5. q.nonce \in Live(now) BY <1>3, <1>4, <2>2, <2>3, <2>4 DEF Live
  <2>6. q.nonce \in Room(now) BY <1>2, <1>4, <2>5
  <2>7. QED BY <1>2, <2>3, <2>5, <2>6
<1>5. Remembered'
  <2>1. SUFFICES ASSUME NEW i \in DOMAIN accepted', Acceptance(i)'.request.nonce # NoNonce
                 PROVE  LET q == Acceptance(i)'.request IN
                        \/ q.nonce \in forgotten' \/ End(q) <= now
                        \/ q.nonce \in DOMAIN until' /\ until'[q.nonce] >= End(q)
    BY DEF Remembered
  <2>2. CASE i = N BY <1>1, <1>2, <2>2
  <2>3. CASE i \in DOMAIN accepted
    <3>1. Acceptance(i)' = Acceptance(i) BY <1>1, <2>3
    <3>2. PICK q : q = Acceptance(i).request OBVIOUS
    <3>3. QED BY <1>4, <2>1, <2>3, <3>1, <3>2
  <2>4. QED BY <1>1, <2>2, <2>3
<1>6. Founded'
  <2>1. SUFFICES ASSUME NEW n \in DOMAIN until'
                 PROVE  \E i \in DOMAIN accepted' :
                          /\ Acceptance(i)'.request.nonce = n
                          /\ until'[n] = End(Acceptance(i)'.request)
    BY DEF Founded
  <2>2. CASE n = r.nonce BY <1>1, <1>2, <2>2
  <2>3. CASE n # r.nonce
    <3>1. n \in DOMAIN until /\ until'[n] = until[n] BY <1>2, <2>3
    <3>2. QED BY <1>1, <3>1 DEF NonceInv, Founded
  <2>4. QED BY <2>2, <2>3
<1>7. Once'
  <2>1. SUFFICES ASSUME NEW i \in DOMAIN accepted', NEW j \in DOMAIN accepted', i < j,
                        Acceptance(i)'.request.nonce # NoNonce,
                        Acceptance(i)'.request.nonce = Acceptance(j)'.request.nonce
                 PROVE  \/ Acceptance(i)'.request.nonce \in forgotten'
                        \/ Acceptance(j)'.end >= End(Acceptance(i)'.request)
    BY DEF Once
  <2>2. accepted \in Seq(Delivery) /\ accepted' \in Seq(Delivery) BY DEF NonceInv, Types
  <2>3. i \in DOMAIN accepted
    BY <1>1, <2>1, <2>2
  <2>4. CASE j \in DOMAIN accepted
    BY <1>1, <1>2, <2>1, <2>3, <2>4 DEF NonceInv, Once
  <2>5. CASE j = N
    <3>1. PICK q : q = Acceptance(i).request OBVIOUS
    <3>2. q.nonce = r.nonce /\ q.nonce # NoNonce /\ Acceptance(i)'.request = q
      BY <1>1, <2>1, <2>3, <2>5, <3>1
    <3>3. q.nonce \in forgotten' \/ End(q) <= now BY <1>4, <2>3, <3>1, <3>2
    <3>4. q \in Request BY <3>1, <2>3 DEF NonceInv, Types, Acceptance, Verification
    <3>5. End(q) \in Nat BY <3>4, RequestIs
    <3>6. QED BY <1>1, <1>3, <2>5, <3>2, <3>3, <3>5
  <2>6. QED BY <1>1, <2>4, <2>5
<1>8. QED BY <1>1, <1>5, <1>6, <1>7 DEF NonceInv

LEMMA NonceInvNext ==
  ASSUME NonceInv, [Next]_vars
  PROVE  NonceInv'
<1>1. Types' /\ StepKind BY TypesNext DEF NonceInv
<1>2. CASE Quiet BY <1>1, <1>2, QuietKeeps
<1>3. ASSUME NEW d \in Delivery, NEW r \in Request, NEW start \in Time, NEW keys \in SUBSET Key,
             Settles(d, r, start, keys)
      PROVE  NonceInv'
  <2>1. Open(d) /\ now' = now /\ r.nonce \in Nonce \cup {NoNonce}
    BY <1>3, RequestIs DEF Settles
  <2>2. CASE r.nonce = NoNonce /\ Accept(d, r, start, keys) /\ UNCHANGED storeVars
    BY <1>1, <2>1, <2>2, NonceFreeKeeps
  <2>3. CASE /\ r.nonce # NoNonce /\ Known(r.nonce, now)
             /\ Refuse(d, r, start, keys, "replayed") /\ seen(r.nonce, KeptUntil(r), now)
    BY <1>1, <2>1, <2>3, ReplayKeeps
  <2>4. CASE /\ r.nonce # NoNonce /\ ~Known(r.nonce, now)
             /\ Accept(d, r, start, keys) /\ seen(r.nonce, KeptUntil(r), now)
    BY <1>1, <2>1, <2>4, NonceKeeps
  <2>5. QED BY <1>3, <2>2, <2>3, <2>4 DEF Settles, Finish
<1>4. QED BY <1>1, <1>2, <1>3 DEF StepKind

LEMMA NonceInvInit ==
  ASSUME Init PROVE NonceInv
<1>1. Types BY TypesInit
<1>2. accepted = <<>> /\ DOMAIN accepted = {} /\ DOMAIN until = {} BY DEF Init, StoreInit
<1>3. \A d \in Delivery : delivery[d].end <= now /\ delivery[d].stage = "none" BY DEF Init
<1>4. Acceptances BY <1>2, <1>3 DEF Acceptances, IsInjective
<1>5. Remembered /\ Founded /\ Once BY <1>2 DEF Remembered, Founded, Once
<1>6. RefusedForAnAcceptance BY <1>3 DEF RefusedForAnAcceptance
<1>7. QED BY <1>1, <1>4, <1>5, <1>6 DEF NonceInv

(* The inductive invariant of the nonces: that of an acceptance is kept    *)
(* until its time is over or forgotten for want of room, and what is kept  *)
(* is that of an acceptance (verifier.py:164-175, 341).                    *)
THEOREM NonceInvariant == Spec => []NonceInv
<1>1. Init => NonceInv BY NonceInvInit
<1>2. NonceInv /\ [Next]_vars => NonceInv' BY NonceInvNext
<1>3. QED BY <1>1, <1>2, PTL DEF Spec

(* However many nonces come in, the store is not larger than its limit     *)
(* (verifier.py:166-173).                                                  *)
THEOREM StoreIsBounded == Spec => []StoreBounded
<1>1. NonceInv => StoreBounded BY DEF NonceInv, Types
<1>2. QED BY <1>1, NonceInvariant, PTL

(* A nonce is accepted once, unless it gave way to others or is over       *)
(* (verifier.py:164-175, 307-311, 341).                                    *)
THEOREM NoncesAreAcceptedOnce == Spec => []NonceAcceptedOnce
<1>1. NonceInv => NonceAcceptedOnce
  <2>1. SUFFICES ASSUME NonceInv, NEW p \in Repeats
                 PROVE  LET first == delivery[accepted[p[1]]] IN
                        \/ first.request.nonce \in forgotten
                        \/ delivery[accepted[p[2]]].end >= End(first.request)
    BY DEF NonceAcceptedOnce
  <2>2. PICK i, j : p = <<i, j>> /\ i = p[1] /\ j = p[2] BY DEF Repeats
  <2>3. /\ i \in 1 .. Len(accepted) /\ j \in 1 .. Len(accepted) /\ i < j
        /\ Acceptance(i).request.nonce # NoNonce
        /\ Acceptance(i).request.nonce = Acceptance(j).request.nonce
    BY <2>1, <2>2 DEF Repeats, Acceptance
  <2>4. i \in DOMAIN accepted /\ j \in DOMAIN accepted BY <2>1, <2>3 DEF NonceInv, Types
  <2>5. QED BY <2>1, <2>2, <2>3, <2>4 DEF NonceInv, Once, Acceptance
<1>2. QED BY <1>1, NonceInvariant, PTL

(* Only an acceptance uses a nonce up (verifier.py:335-342).               *)
THEOREM ReplaysFollowAcceptances == Spec => []RefusedForAnAcceptance
<1>1. NonceInv => RefusedForAnAcceptance BY DEF NonceInv
<1>2. QED BY <1>1, NonceInvariant, PTL

-----------------------------------------------------------------------------
(* Keys.                                                                   *)

Histories ==
  /\ listed \in [Key -> Time \cup {-1}] /\ unlisted \in [Key -> Time \cup {-1}]
  /\ \A k \in Key : listed[k] <= now /\ unlisted[k] <= now

(* No verification takes longer than Latency.                              *)
InLatency ==
  \A d \in Delivery : delivery[d].stage \in Waiting =>
    delivery[d].t <= now /\ now <= delivery[d].t + Latency

(* An answer lists what has been listed, and lists not what has not been,  *)
(* since the request came in.                                              *)
AnswersRecent ==
  \A d \in Delivery, k \in Key : delivery[d].stage = "answer" =>
    /\ k \in delivery[d].keys => LastListed(k) >= delivery[d].t
    /\ k \notin delivery[d].keys => LastUnlisted(k) >= delivery[d].t

EntriesRecent ==
  \A e \in jwks, k \in Key :
    /\ k \in e.keys => LastListed(k) >= 0 /\ e.until <= LastListed(k) + TTL + Latency
    /\ k \notin e.keys => LastUnlisted(k) >= 0 /\ e.until <= LastUnlisted(k) + TTL + Latency

KeyInv == Types /\ Histories /\ InLatency /\ AnswersRecent /\ EntriesRecent

LEMMA LastIs ==
  ASSUME Types, Histories, NEW k \in Key
  PROVE  /\ LastListed(k) \in Int /\ LastUnlisted(k) \in Int /\ now \in Nat
         /\ LastListed(k) <= now /\ LastUnlisted(k) <= now
         /\ k \in published => LastListed(k) = now
         /\ k \notin published => LastUnlisted(k) = now
<1>1. now \in Nat BY TimeIs DEF Types
<1>2. /\ listed[k] \in Int /\ unlisted[k] \in Int
      /\ listed[k] <= now /\ unlisted[k] <= now
  <2>1. listed[k] \in Time \cup {-1} /\ unlisted[k] \in Time \cup {-1} BY DEF Histories
  <2>2. Time \cup {-1} \subseteq Int BY TimeIs
  <2>3. QED BY <2>1, <2>2 DEF Histories
<1>3. QED BY <1>1, <1>2 DEF LastListed, LastUnlisted

(* A key is listed, or not, at any time it has been before.                *)
LEMMA LastGrows ==
  ASSUME Types, Histories, [Next]_vars
  PROVE  /\ Histories'
         /\ now' \in Nat /\ now' >= now
         /\ \A k \in Key : LastListed(k)' >= LastListed(k) /\ LastUnlisted(k)' >= LastUnlisted(k)
         /\ \A k \in Key : LastListed(k)' \in Int /\ LastUnlisted(k)' \in Int
<1>0. now \in Nat /\ now \in Time BY TimeIs DEF Types
<1>1. ASSUME UNCHANGED <<now, published, listed, unlisted>>
      PROVE  /\ Histories' /\ now' = now
             /\ \A k \in Key : LastListed(k)' >= LastListed(k) /\ LastUnlisted(k)' >= LastUnlisted(k)
  <2>1. Histories' BY <1>1 DEF Histories
  <2>2. \A k \in Key : LastListed(k)' = LastListed(k) /\ LastUnlisted(k)' = LastUnlisted(k)
    BY <1>1 DEF LastListed, LastUnlisted
  <2>3. QED BY <1>0, <1>1, <2>1, <2>2, LastIs
<1>2. ASSUME NEW keys \in Listing, Publish(keys)
      PROVE  /\ Histories' /\ now' = now
             /\ \A k \in Key : LastListed(k)' >= LastListed(k) /\ LastUnlisted(k)' >= LastUnlisted(k)
  <2>1. \A k \in Key :
          /\ listed'[k] = IF k \in published \cup keys THEN now ELSE listed[k]
          /\ unlisted'[k] = IF k \in published \cap keys THEN unlisted[k] ELSE now
    BY <1>2 DEF Publish
  <2>2. now' = now /\ published' = keys BY <1>2 DEF Publish
  <2>3. Histories'
    <3>1. listed' \in [Key -> Time \cup {-1}] /\ unlisted' \in [Key -> Time \cup {-1}]
      BY <1>0, <1>2 DEF Publish, Histories
    <3>2. \A k \in Key : listed'[k] <= now' /\ unlisted'[k] <= now'
      BY <1>0, <2>1, <2>2 DEF Histories
    <3>3. QED BY <3>1, <3>2 DEF Histories
  <2>4. ASSUME NEW k \in Key
        PROVE  LastListed(k)' >= LastListed(k) /\ LastUnlisted(k)' >= LastUnlisted(k)
    BY <1>0, <2>1, <2>2, LastIs DEF LastListed, LastUnlisted
  <2>5. QED BY <2>2, <2>3, <2>4
<1>3. ASSUME Tick
      PROVE  /\ Histories' /\ now' = now + 1
             /\ \A k \in Key : LastListed(k)' >= LastListed(k) /\ LastUnlisted(k)' >= LastUnlisted(k)
  <2>1. now' = now + 1 /\ UNCHANGED <<published, listed, unlisted>> BY <1>3 DEF Tick
  <2>2. Histories'
    <3>1. \A k \in Key : listed[k] \in Int /\ unlisted[k] \in Int
      <4>1. Time \cup {-1} \subseteq Int BY TimeIs
      <4>2. \A k \in Key : listed[k] \in Time \cup {-1} /\ unlisted[k] \in Time \cup {-1}
        BY DEF Histories
      <4>3. QED BY <4>1, <4>2
    <3>2. \A k \in Key : listed[k] <= now' /\ unlisted[k] <= now'
      BY <1>0, <2>1, <3>1 DEF Histories
    <3>3. QED BY <2>1, <3>2 DEF Histories
  <2>3. ASSUME NEW k \in Key
        PROVE  LastListed(k)' >= LastListed(k) /\ LastUnlisted(k)' >= LastUnlisted(k)
    <3>1. LastListed(k) \in Int /\ LastUnlisted(k) \in Int BY LastIs
    <3>2. /\ LastListed(k)' \in {LastListed(k), LastListed(k) + 1}
          /\ LastUnlisted(k)' \in {LastUnlisted(k), LastUnlisted(k) + 1}
      BY <2>1 DEF LastListed, LastUnlisted
    <3>3. QED BY <3>1, <3>2
  <2>4. QED BY <1>0, <2>1, <2>2, <2>3
<1>4. /\ Histories'
      /\ now' \in Nat /\ now' >= now
      /\ \A k \in Key : LastListed(k)' >= LastListed(k) /\ LastUnlisted(k)' >= LastUnlisted(k)
  BY <1>0, <1>1, <1>2, <1>3
     DEF Next, vars, verifyVars, RefuseAtOnce, VerifyCached, Fetch, Answer, Store, FetchFails
<1>5. ASSUME NEW k \in Key PROVE LastListed(k)' \in Int /\ LastUnlisted(k)' \in Int
  <2>1. listed'[k] \in Time \cup {-1} /\ unlisted'[k] \in Time \cup {-1} BY <1>4 DEF Histories
  <2>2. Time \cup {-1} \subseteq Int BY TimeIs
  <2>3. listed'[k] \in Int /\ unlisted'[k] \in Int /\ now' \in Int BY <1>4, <2>1, <2>2
  <2>4. QED BY <2>3 DEF LastListed, LastUnlisted
<1>6. QED BY <1>4, <1>5

(* A verification that ends: how, and for which key.                       *)
LEMMA FinishEnds ==
  ASSUME Types, NEW e \in Delivery, NEW r \in Request, NEW start \in Time, NEW keys,
         Finish(e, r, start, keys)
  PROVE  /\ delivery'[e].stage \notin Waiting
         /\ \A d \in Delivery : d # e => delivery'[d] = delivery[d]
         /\ delivery'[e].request = r
         /\ delivery'[e].stage = "accepted" => r.key \in keys
         /\ delivery'[e].stage = "unpublished" => r.key \notin keys
<1>1. PICK why \in {"unpublished", "signature", "replayed", "accepted"} :
        /\ delivery' = [delivery EXCEPT ![e] = Verify(why, r, start, keys)]
        /\ why = "unpublished" <=> r.key \notin keys
  BY DEF Finish, Refuse, Accept
<1>2. \A d \in Delivery : delivery'[d] = IF d = e THEN Verify(why, r, start, keys) ELSE delivery[d]
  BY <1>1 DEF Types
<1>3. Verify(why, r, start, keys).stage = why /\ Verify(why, r, start, keys).request = r
  BY DEF Verify
<1>4. QED BY <1>1, <1>2, <1>3 DEF Waiting

(* A step that asks the directory nothing and is told nothing.             *)
LEMMA CalmKeeps ==
  ASSUME KeyInv, Types', [Next]_vars, now' = now, jwks' = jwks,
         \A d \in Delivery : delivery'[d] = delivery[d] \/ delivery'[d].stage \notin Waiting
  PROVE  KeyInv'
<1>1. /\ Histories'
      /\ \A k \in Key : LastListed(k)' >= LastListed(k) /\ LastUnlisted(k)' >= LastUnlisted(k)
      /\ \A k \in Key : LastListed(k) \in Int /\ LastUnlisted(k) \in Int
      /\ \A k \in Key : LastListed(k)' \in Int /\ LastUnlisted(k)' \in Int
  BY LastGrows, LastIs DEF KeyInv
<1>2. InLatency' BY DEF KeyInv, InLatency
<1>3. AnswersRecent'
  <2>1. SUFFICES ASSUME NEW d \in Delivery, NEW k \in Key, delivery'[d].stage = "answer"
                 PROVE  /\ k \in delivery'[d].keys => LastListed(k)' >= delivery'[d].t
                        /\ k \notin delivery'[d].keys => LastUnlisted(k)' >= delivery'[d].t
    BY DEF AnswersRecent
  <2>2. delivery'[d] = delivery[d] BY <2>1 DEF Waiting
  <2>3. delivery[d] \in Verification BY DEF KeyInv, Types
  <2>4. delivery[d].t \in Int
    <3>1. delivery[d].t \in Time BY <2>3 DEF Verification
    <3>2. delivery[d].t \in Nat BY <3>1, TimeIs
    <3>3. QED BY <3>2
  <2>5. QED BY <1>1, <2>1, <2>2, <2>4 DEF KeyInv, AnswersRecent
<1>4. EntriesRecent'
  <2>1. SUFFICES ASSUME NEW e \in jwks, NEW k \in Key
                 PROVE  /\ k \in e.keys => /\ LastListed(k)' >= 0
                                           /\ e.until <= LastListed(k)' + TTL + Latency
                        /\ k \notin e.keys => /\ LastUnlisted(k)' >= 0
                                              /\ e.until <= LastUnlisted(k)' + TTL + Latency
    BY DEF EntriesRecent
  <2>2. e.until \in Nat BY DEF KeyInv, Types, Entry
  <2>3. QED BY <1>1, <2>2, TimeAssumption DEF KeyInv, EntriesRecent
<1>5. QED BY <1>1, <1>2, <1>3, <1>4 DEF KeyInv

LEMMA KeyInvNext ==
  ASSUME KeyInv, [Next]_vars
  PROVE  KeyInv'
<1>1. Types' BY TypesNext DEF KeyInv
<1>2. now \in Nat /\ Latency \in Nat /\ TTL \in Nat BY TimeIs, TimeAssumption DEF KeyInv, Types
<1>3. /\ Histories'
      /\ \A k \in Key : LastListed(k)' >= LastListed(k) /\ LastUnlisted(k)' >= LastUnlisted(k)
      /\ \A k \in Key : LastListed(k) \in Int /\ LastUnlisted(k) \in Int
      /\ \A k \in Key : LastListed(k)' \in Int /\ LastUnlisted(k)' \in Int
  BY <1>1, LastGrows, LastIs DEF KeyInv
<1>4. CASE UNCHANGED vars
  BY <1>1, <1>4, CalmKeeps DEF vars, verifyVars
<1>5. ASSUME NEW d \in Delivery, NEW r \in Request,
             RefuseAtOnce(d, r) \/ VerifyCached(d, r)
      PROVE  KeyInv'
  <2>1. now' = now /\ jwks' = jwks BY <1>5 DEF RefuseAtOnce, VerifyCached
  <2>2. now \in Time BY DEF KeyInv, Types
  <2>3. CASE RefuseAtOnce(d, r)
    <3>1. \A e \in Delivery : delivery'[e] = delivery[e] \/ delivery'[e].stage \notin Waiting
      BY <2>3 DEF RefuseAtOnce, Refuse, Verify, Waiting, KeyInv, Types
    <3>2. QED BY <1>1, <2>1, <3>1, CalmKeeps
  <2>4. CASE VerifyCached(d, r)
    <3>1. PICK e \in Cached : Finish(d, r, now, e.keys) BY <2>4 DEF VerifyCached
    <3>2. \A o \in Delivery : delivery'[o] = delivery[o] \/ delivery'[o].stage \notin Waiting
      BY <2>2, <3>1, FinishEnds DEF KeyInv
    <3>3. QED BY <1>1, <2>1, <3>2, CalmKeeps
  <2>5. QED BY <1>5, <2>3, <2>4
<1>6. ASSUME NEW d \in Delivery, NEW r \in Request, Fetch(d, r) PROVE KeyInv'
  <2>1. PICK v : v.stage = "fetch" /\ v.t = now /\ delivery' = [delivery EXCEPT ![d] = v]
    BY <1>6 DEF Fetch, Verify
  <2>2. \A e \in Delivery : delivery'[e] = IF e = d THEN v ELSE delivery[e]
    BY <2>1 DEF KeyInv, Types
  <2>3. now' = now /\ jwks' = jwks /\ UNCHANGED <<published, listed, unlisted>> BY <1>6 DEF Fetch
  <2>4. \A k \in Key : LastListed(k)' = LastListed(k) /\ LastUnlisted(k)' = LastUnlisted(k)
    BY <2>3 DEF LastListed, LastUnlisted
  <2>5. InLatency' BY <1>2, <2>1, <2>2, <2>3 DEF KeyInv, InLatency
  <2>6. AnswersRecent' BY <2>1, <2>2, <2>4 DEF KeyInv, AnswersRecent
  <2>7. EntriesRecent' BY <2>3, <2>4 DEF KeyInv, EntriesRecent
  <2>8. QED BY <1>1, <1>3, <2>5, <2>6, <2>7 DEF KeyInv
<1>7. ASSUME NEW d \in Delivery, Answer(d) PROVE KeyInv'
  <2>1. PICK v : /\ v.stage = "answer" /\ v.t = delivery[d].t /\ v.keys = published
                 /\ delivery' = [delivery EXCEPT ![d] = v]
    BY <1>7 DEF Answer, Verify
  <2>2. \A e \in Delivery : delivery'[e] = IF e = d THEN v ELSE delivery[e]
    BY <2>1 DEF KeyInv, Types
  <2>3. now' = now /\ jwks' = jwks /\ UNCHANGED <<published, listed, unlisted>> BY <1>7 DEF Answer
  <2>4. \A k \in Key : LastListed(k)' = LastListed(k) /\ LastUnlisted(k)' = LastUnlisted(k)
    BY <2>3 DEF LastListed, LastUnlisted
  <2>5. delivery[d].t <= now /\ now <= delivery[d].t + Latency
    BY <1>7 DEF Answer, Waiting, KeyInv, InLatency
  <2>6. InLatency' BY <2>1, <2>2, <2>3, <2>5 DEF KeyInv, InLatency
  <2>7. AnswersRecent'
    <3>1. ASSUME NEW k \in Key
          PROVE  /\ k \in v.keys => LastListed(k) >= v.t
                 /\ k \notin v.keys => LastUnlisted(k) >= v.t
      BY <2>1, <2>5, LastIs DEF KeyInv
    <3>2. QED BY <2>2, <2>4, <3>1 DEF KeyInv, AnswersRecent
  <2>8. EntriesRecent' BY <2>3, <2>4 DEF KeyInv, EntriesRecent
  <2>9. QED BY <1>1, <1>3, <2>6, <2>7, <2>8 DEF KeyInv
<1>8. ASSUME NEW d \in Delivery, Store(d) PROVE KeyInv'
  <2> DEFINE q == delivery[d]
  <2>1. /\ q.request \in Request /\ q.t \in Time /\ q.t \in Nat /\ q.stage = "answer"
        /\ Finish(d, q.request, q.t, q.keys)
    BY <1>8, TimeIs DEF Store, KeyInv, Types, Verification
  <2>2. \A o \in Delivery : delivery'[o] = delivery[o] \/ delivery'[o].stage \notin Waiting
    BY <2>1, FinishEnds DEF KeyInv
  <2>3. now' = now /\ UNCHANGED <<published, listed, unlisted>> BY <1>8 DEF Store
  <2>4. \A k \in Key : LastListed(k)' = LastListed(k) /\ LastUnlisted(k)' = LastUnlisted(k)
    BY <2>3 DEF LastListed, LastUnlisted
  <2>5. InLatency' BY <2>2, <2>3 DEF KeyInv, InLatency
  <2>6. AnswersRecent' BY <2>2, <2>4 DEF KeyInv, AnswersRecent, Waiting
  <2>7. EntriesRecent'
    <3>1. PICK e : jwks' = {e} /\ e.until = now + TTL /\ e.keys = q.keys
      <4> DEFINE f == [until |-> now + TTL, keys |-> q.keys]
      <4>1. f.until = now + TTL /\ f.keys = q.keys OBVIOUS
      <4>2. jwks' = {f} BY <1>8 DEF Store
      <4> HIDE DEF f
      <4>3. QED BY <4>1, <4>2
    <3>2. now <= q.t + Latency BY <2>1 DEF KeyInv, InLatency, Waiting
    <3>3. ASSUME NEW k \in Key
          PROVE  /\ k \in e.keys => LastListed(k) >= 0 /\ e.until <= LastListed(k) + TTL + Latency
                 /\ k \notin e.keys =>
                      LastUnlisted(k) >= 0 /\ e.until <= LastUnlisted(k) + TTL + Latency
      <4>1. /\ k \in e.keys => LastListed(k) >= q.t
            /\ k \notin e.keys => LastUnlisted(k) >= q.t
        BY <2>1, <3>1 DEF KeyInv, AnswersRecent
      <4>2. LastListed(k) \in Int /\ LastUnlisted(k) \in Int /\ q.t \in Nat BY <1>3, <2>1
      <4> HIDE DEF q
      <4>3. QED BY <1>2, <3>1, <3>2, <4>1, <4>2
    <3>4. QED BY <2>4, <3>1, <3>3 DEF EntriesRecent
  <2>8. QED BY <1>1, <1>3, <2>5, <2>6, <2>7 DEF KeyInv
<1>9. ASSUME NEW d \in Delivery, FetchFails(d) PROVE KeyInv'
  <2>1. now' = now /\ jwks' = jwks BY <1>9 DEF FetchFails
  <2>2. \A e \in Delivery : delivery'[e] = delivery[e] \/ delivery'[e].stage \notin Waiting
    BY <1>9 DEF FetchFails, Refuse, Verify, Waiting, KeyInv, Types
  <2>3. QED BY <1>1, <2>1, <2>2, CalmKeeps
<1>10. ASSUME NEW keys \in Listing, Publish(keys) PROVE KeyInv'
  BY <1>1, <1>10, CalmKeeps DEF Publish
<1>11. CASE Tick
  <2>1. delivery' = delivery /\ jwks' = jwks /\ now' = now + 1 BY <1>11 DEF Tick
  <2>2. InLatency'
    <3>1. SUFFICES ASSUME NEW d \in Delivery, delivery[d].stage \in Waiting
                   PROVE  delivery[d].t <= now + 1 /\ now + 1 <= delivery[d].t + Latency
      BY <2>1 DEF InLatency
    <3>2. delivery[d].t \in Nat BY TimeIs DEF KeyInv, Types, Verification
    <3>3. delivery[d].t <= now /\ now < delivery[d].t + Latency
      BY <1>11, <3>1 DEF Tick, KeyInv, InLatency
    <3>4. QED BY <1>2, <3>2, <3>3
  <2>3. AnswersRecent'
    <3>1. \A d \in Delivery : delivery[d].t \in Nat BY TimeIs DEF KeyInv, Types, Verification
    <3>2. QED BY <1>3, <2>1, <3>1 DEF KeyInv, AnswersRecent
  <2>4. EntriesRecent'
    <3>1. \A e \in jwks : e.until \in Nat BY DEF KeyInv, Types, Entry
    <3>2. QED BY <1>2, <1>3, <2>1, <3>1 DEF KeyInv, EntriesRecent
  <2>5. QED BY <1>1, <1>3, <2>2, <2>3, <2>4 DEF KeyInv
<1>12. QED BY <1>4, <1>5, <1>6, <1>7, <1>8, <1>9, <1>10, <1>11 DEF Next

LEMMA KeyInvInit ==
  ASSUME Init PROVE KeyInv
<1>1. Types BY TypesInit
<1>2. Histories BY TimeIs, TimeAssumption DEF Init, Histories, Time
<1>3. \A d \in Delivery : delivery[d].stage = "none" BY DEF Init
<1>4. InLatency /\ AnswersRecent BY <1>3 DEF InLatency, AnswersRecent, Waiting
<1>5. EntriesRecent BY DEF Init, EntriesRecent
<1>6. QED BY <1>1, <1>2, <1>4, <1>5 DEF KeyInv

(* The inductive invariant of the keys: what a verification, or the cache, *)
(* holds of the directory is as recent as its request, and the entry's     *)
(* life (verifier.py:205-237).                                             *)
THEOREM KeyInvariant == Spec => []KeyInv
<1>1. Init => KeyInv BY KeyInvInit
<1>2. KeyInv /\ [Next]_vars => KeyInv' BY KeyInvNext
<1>3. QED BY <1>1, <1>2, PTL DEF Spec

(* Every variable keeps its type, the order of the store included          *)
(* (verifier.py:156-346).                                                  *)
THEOREM TypesHold == Spec => []TypeOK
<1>1. KeyInv /\ NonceInv => TypeOK
  BY DEF KeyInv, NonceInv, Types, Acceptances, Histories, TypeOK
<1>2. QED BY <1>1, KeyInvariant, NonceInvariant, PTL

(* A step that ends a verification with one of two outcomes knows the keys *)
(* by a cached entry or an answer.                                         *)
LEMMA EndsBy ==
  ASSUME KeyInv, [Next]_vars, NEW d \in Delivery, NEW outcome \in {"accepted", "unpublished"},
         Ends(d, outcome)
  PROVE  \E keys \in SUBSET Key :
           /\ delivery'[d].request.key \in Key
           /\ outcome = "accepted" => delivery'[d].request.key \in keys
           /\ outcome = "unpublished" => delivery'[d].request.key \notin keys
           /\ \A k \in Key :
                /\ k \in keys => LastListed(k) >= 0 /\ now < LastListed(k) + TTL + Latency
                /\ k \notin keys => LastUnlisted(k) >= 0 /\ now < LastUnlisted(k) + TTL + Latency
<1>0. /\ now \in Nat /\ now \in Time /\ Latency \in Nat /\ TTL \in Nat /\ TTL >= 1
      /\ \A k \in Key : LastListed(k) \in Int /\ LastUnlisted(k) \in Int
  BY TimeIs, TimeAssumption, LastIs DEF KeyInv, Types
<1>1. ASSUME NEW e \in Delivery, NEW r \in Request, VerifyCached(e, r)
      PROVE  \E c \in Cached : d = e /\ Finish(d, r, now, c.keys)
  <2>1. PICK c \in Cached : Finish(e, r, now, c.keys) BY <1>1 DEF VerifyCached
  <2>2. d = e BY <1>0, <2>1, FinishEnds DEF Ends, KeyInv
  <2>3. QED BY <2>1, <2>2
<1>2. ASSUME NEW e \in Delivery, Store(e)
      PROVE  d = e /\ Store(d) /\ delivery[d].request \in Request /\ delivery[d].t \in Time
  <2>1. delivery[e].request \in Request /\ delivery[e].t \in Time
    BY DEF KeyInv, Types, Verification
  <2>2. d = e BY <1>2, <2>1, FinishEnds DEF Store, Ends, KeyInv
  <2>3. QED BY <1>2, <2>1, <2>2
<1>3. \/ \E r \in Request : \E c \in Cached : Finish(d, r, now, c.keys)
      \/ Store(d) /\ delivery[d].request \in Request /\ delivery[d].t \in Time
  <2>1. CASE UNCHANGED vars BY <2>1 DEF vars, verifyVars, Ends
  <2>2. ASSUME NEW e \in Delivery, NEW r \in Request, RefuseAtOnce(e, r) \/ Fetch(e, r)
        PROVE  FALSE
    BY <2>2 DEF RefuseAtOnce, Fetch, Refuse, Verify, Ends, KeyInv, Types
  <2>3. ASSUME NEW e \in Delivery, Answer(e) \/ FetchFails(e) PROVE FALSE
    BY <2>3 DEF Answer, FetchFails, Refuse, Verify, Ends, KeyInv, Types
  <2>4. CASE Tick \/ \E keys \in Listing : Publish(keys) BY <2>4 DEF Tick, Publish, Ends
  <2>5. QED BY <1>1, <1>2, <2>1, <2>2, <2>3, <2>4 DEF Next
<1>4. ASSUME NEW r \in Request, NEW c \in Cached, Finish(d, r, now, c.keys)
      PROVE  \E keys \in SUBSET Key :
               /\ delivery'[d].request.key \in Key
               /\ outcome = "accepted" => delivery'[d].request.key \in keys
               /\ outcome = "unpublished" => delivery'[d].request.key \notin keys
               /\ \A k \in Key :
                    /\ k \in keys => LastListed(k) >= 0 /\ now < LastListed(k) + TTL + Latency
                    /\ k \notin keys =>
                         LastUnlisted(k) >= 0 /\ now < LastUnlisted(k) + TTL + Latency
  <2>1. c \in jwks /\ c.until > now /\ c.until \in Nat /\ c.keys \in SUBSET Key
    BY DEF Cached, KeyInv, Types, Entry
  <2>2. \A k \in Key :
          /\ k \in c.keys => LastListed(k) >= 0 /\ now < LastListed(k) + TTL + Latency
          /\ k \notin c.keys => LastUnlisted(k) >= 0 /\ now < LastUnlisted(k) + TTL + Latency
    BY <1>0, <2>1 DEF KeyInv, EntriesRecent
  <2>3. /\ delivery'[d].request = r /\ delivery'[d].stage = outcome
        /\ delivery'[d].stage = "accepted" => r.key \in c.keys
        /\ delivery'[d].stage = "unpublished" => r.key \notin c.keys
    BY <1>0, <1>4, FinishEnds DEF KeyInv, Ends
  <2>4. QED BY <2>1, <2>2, <2>3, RequestIs
<1>5. ASSUME Store(d), delivery[d].request \in Request, delivery[d].t \in Time
      PROVE  \E keys \in SUBSET Key :
               /\ delivery'[d].request.key \in Key
               /\ outcome = "accepted" => delivery'[d].request.key \in keys
               /\ outcome = "unpublished" => delivery'[d].request.key \notin keys
               /\ \A k \in Key :
                    /\ k \in keys => LastListed(k) >= 0 /\ now < LastListed(k) + TTL + Latency
                    /\ k \notin keys =>
                         LastUnlisted(k) >= 0 /\ now < LastUnlisted(k) + TTL + Latency
  <2>1. PICK q : q = delivery[d] OBVIOUS
  <2>2. /\ q.stage = "answer" /\ Finish(d, q.request, q.t, q.keys) /\ q.keys \in SUBSET Key
        /\ q.t \in Nat
    BY <1>5, <2>1, TimeIs DEF Store, KeyInv, Types, Verification
  <2>3. now <= q.t + Latency BY <2>1, <2>2 DEF KeyInv, InLatency, Waiting
  <2>4. \A k \in Key :
          /\ k \in q.keys => LastListed(k) >= q.t
          /\ k \notin q.keys => LastUnlisted(k) >= q.t
    BY <2>1, <2>2 DEF KeyInv, AnswersRecent
  <2>5. \A k \in Key :
          /\ k \in q.keys => LastListed(k) >= 0 /\ now < LastListed(k) + TTL + Latency
          /\ k \notin q.keys => LastUnlisted(k) >= 0 /\ now < LastUnlisted(k) + TTL + Latency
    BY <1>0, <2>2, <2>3, <2>4
  <2>6. /\ delivery'[d].request = q.request /\ delivery'[d].stage = outcome
        /\ delivery'[d].stage = "accepted" => q.request.key \in q.keys
        /\ delivery'[d].stage = "unpublished" => q.request.key \notin q.keys
    BY <1>5, <2>1, <2>2, FinishEnds DEF KeyInv, Ends
  <2>7. q.request \in Request BY <1>5, <2>1
  <2>8. QED BY <2>2, <2>5, <2>6, <2>7, RequestIs
<1>6. QED BY <1>3, <1>4, <1>5

(* An accepted request's key was listed less than TTL and a request's time *)
(* ago, however verifications overlap (verifier.py:205-237, 266-274).      *)
THEOREM AcceptedKeysWereListed == Spec => AcceptedKeyWasListed
<1>1. KeyInv /\ [Next]_vars =>
        [\A d \in Delivery : Ends(d, "accepted") =>
           LET k == delivery'[d].request.key IN
           LastListed(k) >= 0 /\ now < LastListed(k) + TTL + Latency]_vars
  <2>1. SUFFICES ASSUME KeyInv, [Next]_vars, NEW d \in Delivery, Ends(d, "accepted"),
                        NEW k, k = delivery'[d].request.key
                 PROVE  LastListed(k) >= 0 /\ now < LastListed(k) + TTL + Latency
    OBVIOUS
  <2>2. QED BY <2>1, EndsBy
<1>2. QED BY <1>1, KeyInvariant, PTL DEF Spec, AcceptedKeyWasListed

(* A key is refused only if it was not listed then (verifier.py:205-237,   *)
(* 266-274).                                                               *)
THEOREM RefusedKeysWereNotListed == Spec => RefusedKeyWasNotListed
<1>1. KeyInv /\ [Next]_vars =>
        [\A d \in Delivery : Ends(d, "unpublished") =>
           LET k == delivery'[d].request.key IN
           LastUnlisted(k) >= 0 /\ now < LastUnlisted(k) + TTL + Latency]_vars
  <2>1. SUFFICES ASSUME KeyInv, [Next]_vars, NEW d \in Delivery, Ends(d, "unpublished"),
                        NEW k, k = delivery'[d].request.key
                 PROVE  LastUnlisted(k) >= 0 /\ now < LastUnlisted(k) + TTL + Latency
    OBVIOUS
  <2>2. QED BY <2>1, EndsBy
<1>2. QED BY <1>1, KeyInvariant, PTL DEF Spec, RefusedKeyWasNotListed

=============================================================================
