----------------------- MODULE PolicyInspector_proofs ------------------------
(***************************************************************************)
(* Proofs about PolicyInspector, for any endpoints, any files on them and  *)
(* any number of tasks and clients: how old what a verdict rests on is.    *)
(***************************************************************************)
EXTENDS PolicyInspector, TLAPS

(* The value v is a version of the file of ep, and no other had replaced   *)
(* it before t.                                                            *)
Seen(ep, v, t) ==
  /\ v.version \in Version(ep) /\ v.version <= version[ep]
  /\ v.says = Says[ep][v.version]
  /\ v.version < version[ep] => t <= since[ep][v.version + 1]

Failed(v) == v.says = "failed"
KeepOf(v, cc) == IF IsFailure(v) THEN FAILURE_TTL ELSE cc.ttl

(* The value v may be used before t: it was cached at a, for as long as it *)
(* may be kept, when it had been seen two fetches ago at most; or it is    *)
(* the failure to get one, a fetch ago at most.                            *)
Kept(ep, v, t) ==
  IF Failed(v) THEN ep = Robots => failing >= 0 /\ t <= failing + TIMEOUT + FAILURE_TTL
  ELSE \E a \in Time, cc \in Directives[ep] :
         a <= now /\ t <= a + KeepOf(v, cc) /\ Seen(ep, v, a - 2 * TIMEOUT)

EntryInv ==
  \A ep \in Endpoint \ crossed :
    /\ \A e \in fresh[ep] : Kept(ep, e.value, e.until)
    /\ \A e \in saved[ep] : e.until # 0 => Kept(ep, e.value, e.until)

(* A task takes no longer than TIMEOUT, and its answer was right since it  *)
(* began.                                                                  *)
ReplyOK(ep, r, t) == r.cc \in Directives[ep] /\ Seen(ep, r.value, t)
TaskInv ==
  \A k \in Client, ep \in Endpoint : \A t \in inflight[k][ep] :
    /\ t.start <= now /\ now <= t.start + TIMEOUT
    /\ \A r \in t.reply : ReplyOK(ep, r, t.start)

(* A call that began to fetch at b what it fetches now waits for tasks     *)
(* that were under way then, and has what they were answered;              *)
GotOK(ep, r, b) ==
  \/ ~r.same /\ Failed(r.value) /\ (ep = Robots => failing >= b)
  \/ ReplyOK(ep, r, b - TIMEOUT)
WaitOK(c, b) ==
  \A ep \in caller[c].fetching :
    /\ caller[c].got[ep] = {} =>
         /\ inflight[ClientOf[c]][ep] # {}
         /\ \A t \in inflight[ClientOf[c]][ep] : b - TIMEOUT <= t.start /\ t.start <= b
    /\ \A r \in caller[c].got[ep] : GotOK(ep, r, b)

(* what it fetches alone it has at once;                                   *)
AloneOK(c) ==
  caller[c].fetching = {Robots} => \A r \in caller[c].got[Robots] :
    Failed(r.value) \/ \E t \in Time : t <= now /\ now <= t + TIMEOUT /\ Seen(Robots, r.value, t)

(* what it had before, it has from the cache, at b or when it fetched      *)
(* robots.txt first, or it is that robots.txt.                             *)
Had(ep, v, b, left) ==
  \/ Kept(ep, v, b + 1)
  \/ ep # Robots /\ left = {} /\ Kept(ep, v, b + 1 - TIMEOUT)
  \/ ep = Robots /\ Directives[ep] # {} /\ Seen(ep, v, b - TIMEOUT)
RawOK(c, b) ==
  \A ep \in Endpoint \ crossed : \A v \in caller[c].raw[ep] : Had(ep, v, b, caller[c].missing)

BatchOK(c, b) ==
  /\ b <= now /\ now <= b + TIMEOUT
  /\ WaitOK(c, b)
  /\ RawOK(c, b)

(* What a call has still to fetch after this it stops for at robots.txt;   *)
(* what it has not to fetch, it has.                                       *)
PlanOK(c) ==
  /\ caller[c].missing # {} =>
       StopOf[c] /\ caller[c].fetching = {Robots} /\ Robots \notin caller[c].missing
  /\ \A ep \in Endpoint \ (caller[c].fetching \cup caller[c].missing) : caller[c].raw[ep] # {}

CallOK(c) ==
  IF caller[c].stage = "fetch"
    THEN PlanOK(c) /\ AloneOK(c) /\ \E b \in Time : BatchOK(c, b)
    ELSE caller[c].fetching = {}
CallInv == \A c \in Caller : CallOK(c)

LagInv == failing <= now /\ EntryInv /\ TaskInv /\ CallInv

-----------------------------------------------------------------------------
(* Types.                                                                  *)

LEMMA FileType ==
  ASSUME NEW ep \in Endpoint, NEW v \in Version(ep)
  PROVE  /\ Says[ep][v] \in Content /\ v \in Nat
         /\ File(ep, v) \in Value /\ File(ep, v).version = v /\ File(ep, v).says = Says[ep][v]
<1>1. Says[ep] \in Seq(Content) /\ Len(Says[ep]) \in Nat
  BY EndpointAssumption
<1>2. v \in 1 .. Len(Says[ep])
  BY DEF Version
<1>3. Says[ep][v] \in Content /\ v \in Nat
  BY <1>1, <1>2
<1>4. QED
  BY <1>3 DEF File, Value

LEMMA NothingType ==
  /\ \A S : Nothing \in [Endpoint -> SUBSET S]
  /\ NoCall \in Call /\ NoCall.stage = "none" /\ NoCall.fetching = {}
  /\ NoReply \in Reply /\ ~NoReply.same /\ NoReply.value = Failure /\ Failure.says = "failed"
<1>1. \A S : Nothing \in [Endpoint -> SUBSET S]
  BY DEF Nothing
<1>2. NoCall \in Call /\ NoCall.stage = "none" /\ NoCall.fetching = {}
  <2>1. "none" \in Stage /\ {} \in SUBSET Endpoint
    BY DEF Stage
  <2>2. QED
    BY <1>1, <2>1 DEF NoCall, Call
<1>3. Failure \in Value /\ Failure.says = "failed"
  BY DEF Failure, Value
<1>4. [keep |-> FALSE, ttl |-> 0] \in CacheControl /\ NoTag \in Nat
  BY DEF CacheControl, NoTag
<1>5. QED
  BY <1>1, <1>2, <1>3, <1>4 DEF NoReply, Reply

LEMMA VerdictType == \A raw : Verdict(raw) \in Judged /\ Verdict(raw) \in Stage /\ Verdict(raw) # "fetch"
BY DEF Verdict, compute_verdict, Judged, Stage

LEMMA BatchIs ==
  ASSUME NEW stop \in BOOLEAN, NEW raw, NEW missing
  PROVE  /\ Batch(stop, raw, missing) \subseteq missing
         /\ missing \ Batch(stop, raw, missing) # {} =>
              stop /\ \/ Batch(stop, raw, missing) = {Robots}
                      \/ Batch(stop, raw, missing) = {}
         /\ stop /\ Robots \in missing => Batch(stop, raw, missing) = {Robots}
         /\ Batch(stop, raw, missing) = {} =>
              missing = {} \/ robots_forbids(SiteOf(raw)[Robots])
BY DEF Batch

(* What Proceed does.                                                      *)
Ends(c, raw) ==
  /\ caller' = [caller EXCEPT ![c] = [NoCall EXCEPT !.stage = Verdict(raw)]]
  /\ inflight' = inflight

Fetches(c, q, batch) ==
  /\ caller' = [caller EXCEPT ![c] = q]
  /\ q \in Call /\ q.stage = "fetch" /\ q.fetching = batch /\ q.got = Nothing
  /\ inflight' \in [Client -> [Endpoint -> SUBSET Task]]
  /\ \A k \in Client, ep \in Endpoint :
       /\ inflight[k][ep] # {} => inflight'[k][ep] = inflight[k][ep]
       /\ inflight[k][ep] = {} => \A t \in inflight'[k][ep] : t.start = now /\ t.reply = {}
       /\ k = ClientOf[c] /\ ep \in batch => inflight'[k][ep] # {}

Moves(c, raw, missing, batch) ==
  \/ batch = {} /\ Ends(c, raw)
  \/ /\ batch # {}
     /\ \E q : Fetches(c, q, batch) /\ q.raw = raw /\ q.missing = missing \ batch

LEMMA ProceedIs ==
  ASSUME TypeOK, NEW c \in Caller, NEW raw \in [Endpoint -> SUBSET Value],
         NEW missing \in SUBSET Endpoint, NEW known \in [Endpoint -> SUBSET Known],
         Proceed(c, raw, missing, known),
         NEW batch, batch = Batch(StopOf[c], raw, missing)
  PROVE  Moves(c, raw, missing, batch)
<1>1. CASE batch = {}
  BY <1>1 DEF Proceed, Ends, Moves
<1>2. CASE batch # {}
  <2> DEFINE old == [ep \in Endpoint |-> IF ep \in batch THEN known[ep] ELSE {}]
             Asks(ep) == IF old[ep] = {} THEN NoTag ELSE (CHOOSE e \in old[ep] : TRUE).tag
             q == [stage |-> "fetch", raw |-> raw, missing |-> missing \ batch,
                   fetching |-> batch, old |-> old, got |-> Nothing]
             task(ep) == [tag |-> Asks(ep), start |-> now, reply |-> {}]
             here == [ep \in Endpoint |->
                       IF ep \in batch /\ inflight[ClientOf[c]][ep] = {} THEN {task(ep)}
                       ELSE inflight[ClientOf[c]][ep]]
  <2>1. caller' = [caller EXCEPT ![c] = q] /\ inflight' = [inflight EXCEPT ![ClientOf[c]] = here]
    BY <1>2 DEF Proceed
  <2>2. batch \subseteq missing /\ batch \in SUBSET Endpoint /\ ClientOf[c] \in Client
    BY BatchIs, CallerAssumption
  <2>3. old \in [Endpoint -> SUBSET Known]
    OBVIOUS
  <2>4. \A ep \in Endpoint : Asks(ep) \in Nat
    BY <2>3 DEF NoTag, Known
  <2> HIDE DEF old, Asks
  <2>5. q \in Call /\ q.stage = "fetch" /\ q.fetching = batch /\ q.got = Nothing
        /\ q.raw = raw /\ q.missing = missing \ batch
    BY <2>2, <2>3, NothingType DEF Call, Stage
  <2> HIDE DEF q
  <2>6. \A ep \in Endpoint : task(ep) \in Task /\ task(ep).start = now /\ task(ep).reply = {}
    BY <2>4 DEF Task, TypeOK
  <2> HIDE DEF task
  <2>7. /\ inflight \in [Client -> [Endpoint -> SUBSET Task]]
        /\ here \in [Endpoint -> SUBSET Task]
    BY <2>2, <2>6 DEF TypeOK
  <2>8. \A ep \in Endpoint :
          /\ inflight[ClientOf[c]][ep] # {} => here[ep] = inflight[ClientOf[c]][ep]
          /\ inflight[ClientOf[c]][ep] = {} => \A t \in here[ep] : t.start = now /\ t.reply = {}
          /\ ep \in batch => here[ep] # {}
    BY <2>6
  <2> HIDE DEF here
  <2>9. /\ inflight' \in [Client -> [Endpoint -> SUBSET Task]]
        /\ \A k \in Client : inflight'[k] = IF k = ClientOf[c] THEN here ELSE inflight[k]
    BY <2>1, <2>2, <2>7
  <2>10. Fetches(c, q, batch)
    BY <2>1, <2>2, <2>5, <2>8, <2>9 DEF Fetches
  <2>11. QED
    BY <1>2, <2>5, <2>10 DEF Moves
<1>3. QED
  BY <1>1, <1>2

(* How a call that proceeds goes on: in a type.                            *)
LEMMA ProceedType ==
  ASSUME TypeOK, NEW c \in Caller, NEW raw \in [Endpoint -> SUBSET Value],
         NEW missing \in SUBSET Endpoint, NEW known \in [Endpoint -> SUBSET Known],
         Proceed(c, raw, missing, known)
  PROVE  caller' \in [Caller -> Call] /\ inflight' \in [Client -> [Endpoint -> SUBSET Task]]
<1> DEFINE batch == Batch(StopOf[c], raw, missing)
<1> HIDE DEF batch
<1>1. batch = Batch(StopOf[c], raw, missing)
  BY DEF batch
<1>2. CASE Ends(c, raw)
  <2> DEFINE q == [NoCall EXCEPT !.stage = Verdict(raw)]
  <2>1. q \in Call
    BY NothingType, VerdictType DEF Call
  <2>2. caller' = [caller EXCEPT ![c] = q] /\ inflight' = inflight
    BY <1>2 DEF Ends
  <2> HIDE DEF q
  <2>3. QED
    BY <2>1, <2>2 DEF TypeOK
<1>3. CASE \E q : Fetches(c, q, batch)
  BY <1>3 DEF Fetches, TypeOK
<1>4. Moves(c, raw, missing, batch)
  BY <1>1, ProceedIs
<1>5. QED
  BY <1>2, <1>3, <1>4 DEF Moves

(* A task that ends answers all who wait for it.                           *)
Waits(d, k, ep) == ClientOf[d] = k /\ ep \in caller[d].fetching /\ caller[d].got[ep] = {}

Ended(k, ep, r) ==
  /\ caller' \in [Caller -> Call]
  /\ \A d \in Caller :
       /\ caller'[d].stage = caller[d].stage /\ caller'[d].raw = caller[d].raw
       /\ caller'[d].missing = caller[d].missing
       /\ caller'[d].fetching = caller[d].fetching
       /\ \A e \in Endpoint : caller'[d].got[e] =
            IF e = ep /\ Waits(d, k, ep) THEN {r} ELSE caller[d].got[e]
  /\ inflight' \in [Client -> [Endpoint -> SUBSET Task]]
  /\ \A j \in Client, e \in Endpoint :
       inflight'[j][e] = IF j = k /\ e = ep THEN {} ELSE inflight[j][e]

LEMMA EndTaskIs ==
  ASSUME TypeOK, NEW k \in Client, NEW ep \in Endpoint, NEW r \in Reply, EndTask(k, ep, r)
  PROVE  Ended(k, ep, r)
<1>1. \A d \in Caller :
        caller'[d] = IF Waits(d, k, ep) THEN [caller[d] EXCEPT !.got[ep] = {r}] ELSE caller[d]
  BY DEF EndTask, Waits
<1>2. ASSUME NEW d \in Caller
      PROVE  /\ caller'[d] \in Call
             /\ caller'[d].stage = caller[d].stage /\ caller'[d].raw = caller[d].raw
             /\ caller'[d].missing = caller[d].missing
             /\ caller'[d].fetching = caller[d].fetching
             /\ \A e \in Endpoint : caller'[d].got[e] =
                  IF e = ep /\ Waits(d, k, ep) THEN {r} ELSE caller[d].got[e]
  <2>1. caller[d] \in Call
    BY DEF TypeOK
  <2>2. CASE ~Waits(d, k, ep)
    BY <1>1, <2>1, <2>2
  <2>3. CASE Waits(d, k, ep)
    <3> DEFINE q == caller[d]
               p == [q EXCEPT !.got[ep] = {r}]
    <3>1. /\ p \in Call
          /\ p.stage = q.stage /\ p.raw = q.raw /\ p.missing = q.missing
          /\ p.fetching = q.fetching
          /\ \A e \in Endpoint : p.got[e] = IF e = ep THEN {r} ELSE q.got[e]
      BY <2>1 DEF Call
    <3>2. caller'[d] = p
      BY <1>1, <2>3
    <3> HIDE DEF p
    <3>3. QED
      BY <2>3, <3>1, <3>2
  <2>4. QED
    BY <2>2, <2>3
<1>3. caller' \in [Caller -> Call]
  <2>1. DOMAIN caller' = Caller /\ caller' = [c \in Caller |-> caller'[c]]
    BY DEF EndTask
  <2>2. QED
    BY <1>2, <2>1
<1>4. /\ inflight' \in [Client -> [Endpoint -> SUBSET Task]]
      /\ \A j \in Client, e \in Endpoint :
           inflight'[j][e] = IF j = k /\ e = ep THEN {} ELSE inflight[j][e]
  BY DEF EndTask, TypeOK
<1>5. QED
  BY <1>2, <1>3, <1>4 DEF Ended

(* What a call takes from an answer to ep, one of those it got.            *)
LEMMA TakenIs ==
  ASSUME TypeOK, NEW c \in Caller, NEW ep \in Endpoint, caller[c].got[ep] # {}
  PROVE  \E r \in caller[c].got[ep] :
           /\ r \in Reply /\ TagOf(c, ep) = r.tag /\ DirectiveOf(c, ep) = r.cc
           /\ Taken(c, ep) \in Value
           /\ ~r.same \/ Taken(c, ep) = r.value => Taken(c, ep) = r.value
<1> DEFINE r == CHOOSE r \in caller[c].got[ep] : TRUE
<1>1. /\ r \in caller[c].got[ep] /\ caller[c] \in Call
      /\ TagOf(c, ep) = r.tag /\ DirectiveOf(c, ep) = r.cc
  BY DEF TypeOK, TagOf, DirectiveOf
<1>2. Taken(c, ep) = IF ~r.same THEN r.value
                     ELSE IF caller[c].old[ep] = {} THEN [says |-> "odd", version |-> 0]
                     ELSE (CHOOSE e \in caller[c].old[ep] : TRUE).value
  BY DEF Taken
<1> HIDE DEF r
<1>3. r \in Reply /\ r.value \in Value
  BY <1>1 DEF Call, Reply
<1>4. [says |-> "odd", version |-> 0] \in Value
  BY DEF Value, Content
<1>5. caller[c].old[ep] # {} => (CHOOSE e \in caller[c].old[ep] : TRUE).value \in Value
  BY <1>1 DEF Call, Known
<1>6. Taken(c, ep) \in Value
  BY <1>2, <1>3, <1>4, <1>5
<1>7. QED
  BY <1>1, <1>2, <1>3, <1>6

LEMMA TypeInit == Init => TypeOK
<1> SUFFICES ASSUME Init PROVE TypeOK
  OBVIOUS
<1>1. CacheTypeOK
  BY DEF Init, CacheInit, CacheTypeOK
<1>2. now \in Time /\ failing \in Time \cup {-1} /\ crossed \subseteq Endpoint
  BY ClockAssumption DEF Init, Time
<1>3. \A ep \in Endpoint : 1 \in Version(ep)
  <2> SUFFICES ASSUME NEW ep \in Endpoint
               PROVE  1 \in Version(ep)
    OBVIOUS
  <2>1. Says[ep] \in Seq(Content) /\ Len(Says[ep]) > 0
    BY EndpointAssumption
  <2>2. Len(Says[ep]) \in Nat
    BY <2>1
  <2>3. QED
    BY <2>1, <2>2 DEF Version
<1>4. /\ version \in [Endpoint -> Nat] /\ \A ep \in Endpoint : version[ep] \in Version(ep)
      /\ DOMAIN since = Endpoint
      /\ \A ep \in Endpoint : since[ep] \in [Version(ep) -> Time]
  BY <1>3, ClockAssumption DEF Init, Time
<1>5. inflight \in [Client -> [Endpoint -> SUBSET Task]] /\ caller \in [Caller -> Call]
  BY NothingType DEF Init
<1>6. QED
  BY <1>1, <1>2, <1>4, <1>5 DEF TypeOK

LEMMA TypeInspect == ASSUME TypeOK, NEW c \in Caller, Inspect(c) PROVE TypeOK'
<1> DEFINE raw == [ep \in Endpoint |-> {e.value : e \in Live(ep, now)}]
           missing == {ep \in Endpoint : raw[ep] = {}}
<1>1. Proceed(c, raw, missing, stale) /\ UNCHANGED <<cacheVars, now, version, since, failing, crossed>>
  BY DEF Inspect
<1>2. raw \in [Endpoint -> SUBSET Value] /\ missing \in SUBSET Endpoint
  BY DEF TypeOK, CacheTypeOK, Entry, Live
<1> HIDE DEF raw, missing
<1>3. caller' \in [Caller -> Call] /\ inflight' \in [Client -> [Endpoint -> SUBSET Task]]
  BY <1>1, <1>2, ProceedType DEF TypeOK, CacheTypeOK
<1>4. QED
  BY <1>1, <1>3 DEF TypeOK, CacheTypeOK, cacheVars

(* What Absorb puts into the cache, and goes on with.                      *)
LEMMA AbsorbIs ==
  ASSUME TypeOK, NEW c \in Caller, Absorb(c)
  PROVE  /\ caller[c].stage = "fetch" /\ caller[c].missing \in SUBSET Endpoint
         /\ \A ep \in caller[c].fetching : ep \in Endpoint /\ caller[c].got[ep] # {}
         /\ fresh' = [ep \in Endpoint |->
              IF ep \in caller[c].fetching
              THEN FreshAfter(ep, Taken(c, ep), DirectiveOf(c, ep), TagOf(c, ep), now)
              ELSE fresh[ep]]
         /\ stale' \in [Endpoint -> SUBSET Known]
         /\ crossed' = crossed \cup
              {ep \in caller[c].fetching :
                 \E r \in caller[c].got[ep] : r.same /\ Taken(c, ep) # r.value}
         /\ UNCHANGED <<saved, now, version, since, failing>>
         /\ \E raw \in [Endpoint -> SUBSET Value] :
              /\ \A ep \in Endpoint :
                   raw[ep] = IF ep \in caller[c].fetching THEN {Taken(c, ep)} ELSE caller[c].raw[ep]
              /\ Proceed(c, raw, caller[c].missing, stale')
<1> DEFINE raw == [ep \in Endpoint |->
                    IF ep \in caller[c].fetching THEN {Taken(c, ep)} ELSE caller[c].raw[ep]]
           known == [ep \in Endpoint |->
                      IF ep \in caller[c].fetching
                      THEN StaleAfter(ep, Taken(c, ep), DirectiveOf(c, ep), TagOf(c, ep))
                      ELSE stale[ep]]
<1>1. /\ caller[c].stage = "fetch"
      /\ \A ep \in caller[c].fetching : caller[c].got[ep] # {}
      /\ stale' = known /\ Proceed(c, raw, caller[c].missing, known)
      /\ UNCHANGED <<saved, now, version, since, failing>>
  BY DEF Absorb
<1>2. caller[c] \in Call
  BY DEF TypeOK
<1>3. /\ caller[c].missing \in SUBSET Endpoint /\ caller[c].fetching \in SUBSET Endpoint
      /\ caller[c].raw \in [Endpoint -> SUBSET Value]
  BY <1>2 DEF Call
<1>4. \A ep \in caller[c].fetching : Taken(c, ep) \in Value /\ TagOf(c, ep) \in Nat
  <2> SUFFICES ASSUME NEW ep \in caller[c].fetching
               PROVE  Taken(c, ep) \in Value /\ TagOf(c, ep) \in Nat
    OBVIOUS
  <2>1. PICK r \in caller[c].got[ep] : r \in Reply /\ TagOf(c, ep) = r.tag /\ Taken(c, ep) \in Value
    BY <1>1, <1>3, TakenIs
  <2>2. QED
    BY <2>1 DEF Reply
<1>5. raw \in [Endpoint -> SUBSET Value]
  BY <1>3, <1>4
<1>6. known \in [Endpoint -> SUBSET Known]
  <2> SUFFICES ASSUME NEW ep \in Endpoint
               PROVE  known[ep] \subseteq Known
    OBVIOUS
  <2>1. stale[ep] \subseteq Known
    BY DEF TypeOK, CacheTypeOK
  <2>2. ASSUME NEW v \in Value, NEW tag \in Nat, NEW cc
        PROVE  StaleAfter(ep, v, cc, tag) \subseteq Known
    <3>1. tag # NoTag => [value |-> v, tag |-> tag] \in Known
      BY DEF Known, NoTag
    <3>2. QED
      BY <2>1, <3>1 DEF StaleAfter
  <2>3. QED
    BY <1>4, <2>1, <2>2
<1>7. \A ep \in Endpoint :
        raw[ep] = IF ep \in caller[c].fetching THEN {Taken(c, ep)} ELSE caller[c].raw[ep]
  OBVIOUS
<1> HIDE DEF raw, known
<1>8. \E raw_1 \in [Endpoint -> SUBSET Value] :
        /\ \A ep \in Endpoint :
             raw_1[ep] = IF ep \in caller[c].fetching THEN {Taken(c, ep)} ELSE caller[c].raw[ep]
        /\ Proceed(c, raw_1, caller[c].missing, stale')
  BY <1>1, <1>5, <1>7
<1>9. /\ fresh' = [ep \in Endpoint |->
           IF ep \in caller[c].fetching
           THEN FreshAfter(ep, Taken(c, ep), DirectiveOf(c, ep), TagOf(c, ep), now)
           ELSE fresh[ep]]
      /\ crossed' = crossed \cup
           {ep \in caller[c].fetching :
              \E r \in caller[c].got[ep] : r.same /\ Taken(c, ep) # r.value}
  BY DEF Absorb
<1>10. QED
  BY <1>1, <1>3, <1>6, <1>8, <1>9

LEMMA TypeAbsorb == ASSUME TypeOK, NEW c \in Caller, Absorb(c) PROVE TypeOK'
<1>1. PICK raw \in [Endpoint -> SUBSET Value] : Proceed(c, raw, caller[c].missing, stale')
  BY AbsorbIs
<1>2. /\ caller[c].missing \in SUBSET Endpoint /\ stale' \in [Endpoint -> SUBSET Known]
      /\ UNCHANGED <<saved, now, version, since, failing>>
      /\ \A ep \in caller[c].fetching : ep \in Endpoint /\ caller[c].got[ep] # {}
  BY AbsorbIs
<1>3. caller' \in [Caller -> Call] /\ inflight' \in [Client -> [Endpoint -> SUBSET Task]]
  BY <1>1, <1>2, ProceedType
<1>4. fresh' \in [Endpoint -> SUBSET Entry]
  <2>1. ASSUME NEW ep \in Endpoint, ep \in caller[c].fetching
        PROVE  FreshAfter(ep, Taken(c, ep), DirectiveOf(c, ep), TagOf(c, ep), now) \subseteq Entry
    <3>1. PICK r \in Reply : /\ TagOf(c, ep) = r.tag /\ DirectiveOf(c, ep) = r.cc
                             /\ Taken(c, ep) \in Value
      BY <1>2, <2>1, TakenIs
    <3>2. r.tag \in Nat /\ r.cc.ttl \in Nat
      BY DEF Reply, CacheControl
    <3>3. TimeToLive(Taken(c, ep), r.cc) \in Nat
      BY <3>2, FailureAssumption DEF TimeToLive
    <3>4. now + TimeToLive(Taken(c, ep), r.cc) \in Nat
      BY <3>3, ClockAssumption DEF TypeOK, Time
    <3> DEFINE e == [value |-> Taken(c, ep), until |-> now + TimeToLive(Taken(c, ep), r.cc),
                     tag |-> r.tag]
    <3>5. e \in Entry
      BY <3>1, <3>2, <3>4 DEF Entry
    <3> HIDE DEF e
    <3>6. fresh[ep] \subseteq Entry
      BY DEF TypeOK, CacheTypeOK
    <3>7. FreshAfter(ep, Taken(c, ep), r.cc, r.tag, now) \in {{e}, fresh[ep]}
      BY DEF FreshAfter, e
    <3>8. QED
      BY <3>1, <3>5, <3>6, <3>7
  <2>2. \A ep \in Endpoint : fresh[ep] \subseteq Entry
    BY DEF TypeOK, CacheTypeOK
  <2>3. QED
    BY <2>1, <2>2, AbsorbIs
<1>5. crossed' \subseteq Endpoint
  BY <1>2, AbsorbIs DEF TypeOK
<1>6. QED
  BY <1>2, <1>3, <1>4, <1>5 DEF TypeOK, CacheTypeOK

LEMMA TypeAnswer ==
  ASSUME TypeOK, NEW k \in Client, NEW ep \in Endpoint, NEW cc \in Directives[ep],
         Answer(k, ep, cc)
  PROVE  TypeOK'
<1>1. PICK t \in inflight[k][ep] :
        LET tag == IF ep \in Tagged THEN version[ep] ELSE NoTag
            reply == [same |-> tag # NoTag /\ tag = t.tag, value |-> File(ep, version[ep]),
                      tag |-> tag, cc |-> cc]
        IN inflight' = [inflight EXCEPT ![k][ep] = {[t EXCEPT !.reply = {reply}]}]
  BY DEF Answer
<1> DEFINE tag == IF ep \in Tagged THEN version[ep] ELSE NoTag
           reply == [same |-> tag # NoTag /\ tag = t.tag, value |-> File(ep, version[ep]),
                     tag |-> tag, cc |-> cc]
<1>2. tag \in Nat /\ cc \in CacheControl /\ File(ep, version[ep]) \in Value
  <2>1. version[ep] \in Version(ep) /\ version[ep] \in Nat
    BY DEF TypeOK
  <2>2. tag \in Nat
    BY <2>1 DEF NoTag
  <2>3. QED
    BY <2>1, <2>2, FileType, DirectiveAssumption
<1>3. reply \in Reply
  BY <1>2 DEF Reply
<1>4. inflight' = [inflight EXCEPT ![k][ep] = {[t EXCEPT !.reply = {reply}]}]
  BY <1>1
<1> HIDE DEF reply
<1>5. [t EXCEPT !.reply = {reply}] \in Task
  BY <1>3 DEF TypeOK, Task
<1>6. inflight' \in [Client -> [Endpoint -> SUBSET Task]]
  BY <1>4, <1>5 DEF TypeOK
<1>7. QED
  BY <1>6 DEF Answer, TypeOK, CacheTypeOK, cacheVars

LEMMA TypeEnd ==
  ASSUME TypeOK, NEW k \in Client, NEW ep \in Endpoint, Arrive(k, ep) \/ FetchFails(k, ep)
  PROVE  TypeOK'
<1>1. PICK r \in Reply : EndTask(k, ep, r)
  <2>1. CASE Arrive(k, ep)
    <3>1. PICK t \in inflight[k][ep] : \E r \in t.reply : EndTask(k, ep, r)
      BY <2>1 DEF Arrive
    <3>2. t.reply \subseteq Reply
      BY DEF TypeOK, Task
    <3>3. QED
      BY <3>1, <3>2
  <2>2. CASE FetchFails(k, ep)
    BY <2>2, NothingType DEF FetchFails
  <2>3. QED
    BY <2>1, <2>2
<1>2. caller' \in [Caller -> Call] /\ inflight' \in [Client -> [Endpoint -> SUBSET Task]]
  BY <1>1, EndTaskIs DEF Ended
<1>3. /\ UNCHANGED <<cacheVars, now, version, since, crossed>>
      /\ failing' \in Time \cup {-1}
  BY DEF Arrive, FetchFails, TypeOK
<1>4. QED
  BY <1>2, <1>3 DEF TypeOK, CacheTypeOK, cacheVars

LEMMA TypeRest ==
  ASSUME TypeOK,
         \/ \E c \in Caller : Cancel(c) \/ GoOn(c)
         \/ \E ep \in Endpoint : Publish(ep)
         \/ Tick \/ Restart
  PROVE  TypeOK'
<1>1. ASSUME NEW c \in Caller, Cancel(c)
      PROVE  TypeOK'
  BY <1>1, NothingType DEF Cancel, TypeOK, CacheTypeOK, cacheVars
<1>2. ASSUME NEW c \in Caller, GoOn(c)
      PROVE  TypeOK'
  <2>1. Dump(now) \in [Endpoint -> SUBSET Entry]
    <3> SUFFICES ASSUME NEW ep \in Endpoint
                 PROVE  Dump(now)[ep] \subseteq Entry
      BY DEF Dump
    <3>1. /\ {e \in Live(ep, now) : ~IsFailure(e.value)} \subseteq Entry
          /\ \A e \in stale[ep] : [value |-> e.value, until |-> 0, tag |-> e.tag] \in Entry
      BY DEF TypeOK, CacheTypeOK, Live, Known, Entry
    <3>2. QED
      BY <3>1 DEF Dump
  <2>2. saved' \in [Endpoint -> SUBSET Entry]
    BY <1>2, <2>1 DEF GoOn, Saved, TypeOK, CacheTypeOK
  <2>3. caller' \in [Caller -> Call]
    BY <1>2, NothingType DEF GoOn, TypeOK
  <2>4. QED
    BY <1>2, <2>2, <2>3 DEF GoOn, TypeOK, CacheTypeOK
<1>3. ASSUME NEW ep \in Endpoint, Publish(ep)
      PROVE  TypeOK'
  <2>1. /\ version' = [version EXCEPT ![ep] = @ + 1]
        /\ since' = [since EXCEPT ![ep] = [since[ep] EXCEPT ![version[ep] + 1] = now]]
        /\ UNCHANGED <<cacheVars, now, failing, inflight, caller, crossed>>
    BY <1>3 DEF Publish
  <2>2. version[ep] + 1 \in Version(ep) /\ version[ep] + 1 \in Nat
    <3>1. Len(Says[ep]) \in Nat
      BY EndpointAssumption
    <3>2. QED
      BY <1>3, <3>1 DEF Publish, TypeOK, Version
  <2>3. /\ version' \in [Endpoint -> Nat]
        /\ \A e \in Endpoint : version'[e] \in Version(e)
    BY <2>1, <2>2 DEF TypeOK
  <2>4. \A e \in Endpoint : since'[e] \in [Version(e) -> Time]
    <3>1. [since[ep] EXCEPT ![version[ep] + 1] = now] \in [Version(ep) -> Time]
      BY DEF TypeOK
    <3>2. \A e \in Endpoint : since'[e] = since[e] \/ e = ep
      BY <2>1
    <3>3. since'[ep] \in [Version(ep) -> Time]
      <4>1. since'[ep] = [since[ep] EXCEPT ![version[ep] + 1] = now] \/ since'[ep] = since[ep]
        BY <2>1
      <4>2. QED
        BY <3>1, <4>1 DEF TypeOK
    <3>4. QED
      BY <3>2, <3>3 DEF TypeOK
  <2>5. DOMAIN since' = Endpoint
    BY <2>1 DEF TypeOK
  <2>6. QED
    BY <2>1, <2>3, <2>4, <2>5 DEF TypeOK, CacheTypeOK, cacheVars
<1>4. CASE Tick
  <2>1. now' \in Time
    BY <1>4, ClockAssumption DEF Tick, TypeOK, Time
  <2>2. CacheTypeOK'
    BY <1>4 DEF Tick, Expire, TypeOK, CacheTypeOK, Live
  <2>3. QED
    BY <1>4, <2>1, <2>2 DEF Tick, TypeOK
<1>5. CASE Restart
  <2>1. /\ \A ep \in Endpoint : {e \in saved[ep] : e.until > now} \subseteq Entry
        /\ \A ep \in Endpoint : \A e \in saved[ep] :
             e.tag # NoTag => [value |-> e.value, tag |-> e.tag] \in Known
    BY DEF TypeOK, CacheTypeOK, Entry, Known
  <2>2. CacheTypeOK'
    BY <1>5, <2>1 DEF Restart, Restore, TypeOK, CacheTypeOK
  <2>3. caller' \in [Caller -> Call] /\ inflight' \in [Client -> [Endpoint -> SUBSET Task]]
    BY <1>5, NothingType DEF Restart
  <2>4. QED
    BY <1>5, <2>2, <2>3 DEF Restart, TypeOK
<1>6. QED
  BY <1>1, <1>2, <1>3, <1>4, <1>5

LEMMA TypeStep == TypeOK /\ [Next]_vars => TypeOK'
<1> SUFFICES ASSUME TypeOK, [Next]_vars PROVE TypeOK'
  OBVIOUS
<1>1. CASE UNCHANGED vars
  BY <1>1 DEF vars, cacheVars, TypeOK, CacheTypeOK
<1>2. CASE Next
  BY <1>2, TypeInspect, TypeAbsorb, TypeAnswer, TypeEnd, TypeRest DEF Next
<1>3. QED
  BY <1>1, <1>2

(* The types of what is cached, saved, fetched and in the calls' hands:    *)
(* only files with a tag are kept to be revalidated, among others          *)
(* (cache.py:143-170, inspector.py:395-465).                               *)
THEOREM InspectorTypes == Spec => []TypeOK
BY TypeInit, TypeStep, PTL DEF Spec

-----------------------------------------------------------------------------
(* What has been seen stays so while the origin moves on.                  *)

LEMMA Numbers ==
  /\ TIMEOUT \in Nat /\ TIMEOUT > 0 /\ FAILURE_TTL \in Nat /\ FAILURE_TTL > 0
  /\ MaxTime \in Nat /\ \A t \in Time : t \in Nat
BY ClockAssumption, FailureAssumption DEF Time

LEMMA LaterSum ==
  ASSUME NEW f \in Int, NEW g \in Int, f <= g, f >= 0, NEW t \in Int,
         t <= f + TIMEOUT + FAILURE_TTL
  PROVE  g >= 0 /\ t <= g + TIMEOUT + FAILURE_TTL
BY Numbers

LEMMA SeenWeaker ==
  ASSUME NEW ep, NEW v, NEW t \in Int, NEW u \in Int, u <= t, TypeOK, ep \in Endpoint,
         v \in Value, Seen(ep, v, t)
  PROVE  Seen(ep, v, u)
<1>1. v.version < version[ep] => v.version + 1 \in Version(ep)
  <2>1. version[ep] \in Version(ep) /\ version[ep] \in Nat /\ v.version \in Nat
    BY DEF TypeOK, Value
  <2>2. Says[ep] \in Seq(Content)
    BY EndpointAssumption
  <2>3. Len(Says[ep]) \in Nat
    BY <2>2
  <2>4. QED
    BY <2>1, <2>3 DEF Version
<1>2. v.version < version[ep] => since[ep][v.version + 1] \in Nat
  BY <1>1, Numbers DEF TypeOK
<1>3. QED
  BY <1>2 DEF Seen

LEMMA KeptWeaker ==
  ASSUME NEW ep, NEW v, NEW t \in Int, NEW u \in Int, u <= t, TypeOK, ep \in Endpoint,
         Kept(ep, v, t)
  PROVE  Kept(ep, v, u)
<1>1. failing \in Int
  BY Numbers DEF TypeOK
<1>2. CASE Failed(v)
  BY <1>1, <1>2, Numbers DEF Kept
<1>3. CASE ~Failed(v)
  <2>1. PICK a \in Time, cc \in Directives[ep] :
          a <= now /\ t <= a + KeepOf(v, cc) /\ Seen(ep, v, a - 2 * TIMEOUT)
    BY <1>3 DEF Kept
  <2>2. cc.ttl \in Nat
    BY DirectiveAssumption DEF CacheControl
  <2>3. KeepOf(v, cc) \in Nat
    BY <2>2, Numbers DEF KeepOf
  <2>4. u <= a + KeepOf(v, cc)
    BY <2>1, <2>3, Numbers
  <2>5. QED
    BY <1>3, <2>1, <2>4 DEF Kept
<1>4. QED
  BY <1>2, <1>3

Publishes(ep) ==
  /\ version[ep] + 1 \in Version(ep)
  /\ version' = [version EXCEPT ![ep] = @ + 1]
  /\ since' = [since EXCEPT ![ep][version[ep] + 1] = now]
WorldMoves ==
  /\ now' \in Time /\ failing' \in Time \cup {-1}
  /\ now <= now' /\ failing <= failing' /\ failing' <= now'
  /\ UNCHANGED <<version, since>> \/ \E ep \in Endpoint : Publishes(ep)

LEMMA SeenStays ==
  ASSUME TypeOK, WorldMoves, NEW ep \in Endpoint, NEW v \in Value, NEW t \in Int, t <= now,
         Seen(ep, v, t)
  PROVE  Seen(ep, v, t)'
<1>1. CASE UNCHANGED <<version, since>>
  BY <1>1 DEF Seen
<1>2. ASSUME NEW e \in Endpoint, Publishes(e)
      PROVE  Seen(ep, v, t)'
  <2>1. /\ version[e] \in Nat /\ v.version \in Nat /\ version[ep] \in Nat
        /\ since[e] \in [Version(e) -> Time]
    BY DEF TypeOK, Value
  <2>2. CASE e # ep
    <3>1. version'[ep] = version[ep] /\ since'[ep] = since[ep]
      BY <1>2, <2>2 DEF Publishes, TypeOK
    <3>2. QED
      BY <3>1 DEF Seen
  <2>3. CASE e = ep
    <3>1. version'[ep] = version[ep] + 1
      BY <1>2, <2>3 DEF Publishes, TypeOK
    <3>2. v.version < version[ep] => since'[ep][v.version + 1] = since[ep][v.version + 1]
                                     \/ since'[ep] = since[ep]
      BY <1>2, <2>1, <2>3 DEF Publishes
    <3>3. ep \in DOMAIN since
      BY DEF TypeOK
    <3>4. since'[ep][version[ep] + 1] = now
      BY <1>2, <2>1, <2>3, <3>3 DEF Publishes
    <3>5. QED
      BY <2>1, <3>1, <3>2, <3>4 DEF Seen
  <2>4. QED
    BY <2>2, <2>3
<1>3. QED
  BY <1>1, <1>2 DEF WorldMoves

LEMMA KeptStays ==
  ASSUME TypeOK, WorldMoves, NEW ep \in Endpoint, NEW v \in Value, NEW t \in Int, Kept(ep, v, t)
  PROVE  Kept(ep, v, t)'
<1>1. /\ now \in Nat /\ failing \in Int /\ now <= now' /\ failing <= failing'
      /\ now' \in Nat /\ failing' \in Int
  BY Numbers DEF TypeOK, WorldMoves
<1>2. CASE Failed(v)
  <2>1. ep = Robots => failing >= 0 /\ t <= failing + TIMEOUT + FAILURE_TTL
    BY <1>2 DEF Kept
  <2>2. ep = Robots => failing' >= 0 /\ t <= failing' + TIMEOUT + FAILURE_TTL
    BY <1>1, <2>1, LaterSum
  <2>3. QED
    BY <1>2, <2>2 DEF Kept, Failed
<1>3. CASE ~Failed(v)
  <2>1. PICK a \in Time, cc \in Directives[ep] :
          a <= now /\ t <= a + KeepOf(v, cc) /\ Seen(ep, v, a - 2 * TIMEOUT)
    BY <1>3 DEF Kept
  <2>2. a \in Nat /\ a - 2 * TIMEOUT \in Int /\ a - 2 * TIMEOUT <= now
    BY <1>1, <2>1, Numbers
  <2>3. Seen(ep, v, a - 2 * TIMEOUT)'
    BY <2>1, <2>2, SeenStays
  <2>4. a <= now'
    BY <1>1, <2>1, <2>2
  <2>5. QED
    BY <1>3, <2>1, <2>3, <2>4 DEF Kept
<1>4. QED
  BY <1>2, <1>3

(* The entries: they only move between the cache and its file.             *)
LEMMA EntryStays ==
  ASSUME TypeOK, WorldMoves, EntryInv, crossed \subseteq crossed',
         \A ep \in Endpoint : \A e \in fresh'[ep] :
           e \in fresh[ep] \/ (e \in saved[ep] /\ e.until # 0),
         \A ep \in Endpoint : \A e \in saved'[ep] :
           e \in saved[ep] \/ e \in fresh[ep] \/ e.until = 0
  PROVE  EntryInv'
<1> SUFFICES ASSUME NEW ep \in Endpoint, ep \notin crossed',
                    NEW e \in fresh'[ep] \cup saved'[ep], e \in fresh'[ep] \/ e.until # 0
             PROVE  Kept(ep, e.value, e.until)'
  BY DEF EntryInv
<1>1. e \in fresh[ep] \/ (e \in saved[ep] /\ e.until # 0)
  OBVIOUS
<1>2. Kept(ep, e.value, e.until)
  BY <1>1 DEF EntryInv
<1>3. e.value \in Value /\ e.until \in Nat
  BY <1>1 DEF TypeOK, CacheTypeOK, Entry
<1>4. QED
  BY <1>2, <1>3, KeptStays

LEMMA ReplyStays ==
  ASSUME TypeOK, WorldMoves, NEW ep \in Endpoint, NEW r \in Reply, NEW t \in Int, t <= now,
         ReplyOK(ep, r, t)
  PROVE  ReplyOK(ep, r, t)'
<1>1. r.value \in Value
  BY DEF Reply
<1>2. QED
  BY <1>1, SeenStays DEF ReplyOK

(* The tasks: of one that is there afterwards, there was one before with   *)
(* its answer, or it has none yet, or one that is right now.               *)
LEMMA TaskStays ==
  ASSUME TypeOK, WorldMoves, TaskInv,
         \A k \in Client, ep \in Endpoint : \A t \in inflight'[k][ep] :
           /\ t \in Task
           /\ t.start <= now' /\ now' <= t.start + TIMEOUT
           /\ \A r \in t.reply :
                \/ \E u \in inflight[k][ep] : r \in u.reply /\ u.start = t.start
                \/ ReplyOK(ep, r, t.start)'
  PROVE  TaskInv'
<1> SUFFICES ASSUME NEW k \in Client, NEW ep \in Endpoint, NEW t \in inflight'[k][ep],
                    NEW r \in t.reply
             PROVE  ReplyOK(ep, r, t.start)'
  BY DEF TaskInv
<1>1. t \in Task /\ r \in Reply /\ t.start \in Nat
  BY Numbers DEF Task
<1>2. ASSUME NEW u \in inflight[k][ep], r \in u.reply, u.start = t.start
      PROVE  ReplyOK(ep, r, t.start)'
  <2>1. ReplyOK(ep, r, t.start) /\ t.start <= now
    BY <1>2 DEF TaskInv
  <2>2. QED
    BY <1>1, <2>1, ReplyStays
<1>3. QED
  BY <1>2

LEMMA GotStays ==
  ASSUME TypeOK, WorldMoves, NEW ep \in Endpoint, NEW r \in Reply, NEW b \in Time, b <= now,
         GotOK(ep, r, b)
  PROVE  GotOK(ep, r, b)'
<1>1. b \in Nat /\ b - TIMEOUT \in Int /\ b - TIMEOUT <= now /\ now \in Nat
  BY Numbers DEF TypeOK
<1>2. ReplyOK(ep, r, b - TIMEOUT) => ReplyOK(ep, r, b - TIMEOUT)'
  BY <1>1, ReplyStays
<1>3. failing >= b => failing' >= b
  <2>1. failing \in Int /\ failing' \in Int /\ failing <= failing'
    BY Numbers DEF TypeOK, WorldMoves
  <2>2. QED
    BY <1>1, <2>1
<1>4. QED
  BY <1>2, <1>3 DEF GotOK

LEMMA HadStays ==
  ASSUME TypeOK, WorldMoves, NEW ep \in Endpoint, NEW v \in Value, NEW b \in Time, b <= now,
         NEW left, Had(ep, v, b, left)
  PROVE  Had(ep, v, b, left)'
<1>1. /\ b \in Nat /\ b + 1 \in Int /\ b + 1 - TIMEOUT \in Int /\ b - TIMEOUT \in Int
      /\ b - TIMEOUT <= now
  BY Numbers DEF TypeOK
<1>2. Kept(ep, v, b + 1) => Kept(ep, v, b + 1)'
  BY <1>1, KeptStays
<1>3. Kept(ep, v, b + 1 - TIMEOUT) => Kept(ep, v, b + 1 - TIMEOUT)'
  BY <1>1, KeptStays
<1>4. Seen(ep, v, b - TIMEOUT) => Seen(ep, v, b - TIMEOUT)'
  BY <1>1, SeenStays
<1>5. QED
  BY <1>2, <1>3, <1>4 DEF Had

LEMMA RawStays ==
  ASSUME TypeOK, WorldMoves, crossed \subseteq crossed', NEW c \in Caller,
         caller'[c].raw = caller[c].raw, caller'[c].missing = caller[c].missing,
         NEW b \in Time, b <= now, RawOK(c, b)
  PROVE  RawOK(c, b)'
<1> SUFFICES ASSUME NEW ep \in Endpoint, ep \notin crossed', NEW v \in caller[c].raw[ep],
                    NEW left, left = caller[c].missing
             PROVE  Had(ep, v, b, left)'
  BY DEF RawOK
<1>1. Had(ep, v, b, left)
  BY DEF RawOK
<1>2. v \in Value
  BY DEF TypeOK, Call
<1>3. QED
  BY <1>1, <1>2, HadStays

(* A call that nothing happens to, but that its tasks may be answered.     *)
TasksStay ==
  \A k \in Client, ep \in Endpoint : inflight[k][ep] # {} =>
    /\ inflight'[k][ep] # {}
    /\ \A t \in inflight'[k][ep] : \E u \in inflight[k][ep] : t.start = u.start

LEMMA CallStays ==
  ASSUME TypeOK, WorldMoves, now' = now, crossed \subseteq crossed', TasksStay,
         NEW c \in Caller, caller'[c] = caller[c], CallOK(c)
  PROVE  CallOK(c)'
<1>1. CASE caller[c].stage # "fetch"
  BY <1>1 DEF CallOK
<1>2. CASE caller[c].stage = "fetch"
  <2>1. /\ caller[c].fetching \subseteq Endpoint
        /\ \A ep \in Endpoint : caller[c].got[ep] \subseteq Reply
        /\ ClientOf[c] \in Client
    BY CallerAssumption DEF TypeOK, Call
  <2>2. PICK b \in Time : BatchOK(c, b)
    BY <1>2 DEF CallOK
  <2>3. WaitOK(c, b)'
    <3> SUFFICES ASSUME NEW ep \in caller[c].fetching
                 PROVE  /\ caller[c].got[ep] = {} =>
                             /\ inflight'[ClientOf[c]][ep] # {}
                             /\ \A t \in inflight'[ClientOf[c]][ep] :
                                  b - TIMEOUT <= t.start /\ t.start <= b
                        /\ \A r \in caller[c].got[ep] : GotOK(ep, r, b)'
      BY DEF WaitOK
    <3>1. /\ ep \in Endpoint /\ b <= now
          /\ caller[c].got[ep] = {} =>
               /\ inflight[ClientOf[c]][ep] # {}
               /\ \A t \in inflight[ClientOf[c]][ep] : b - TIMEOUT <= t.start /\ t.start <= b
          /\ \A r \in caller[c].got[ep] : GotOK(ep, r, b)
      BY <2>1, <2>2 DEF BatchOK, WaitOK
    <3>2. \A r \in caller[c].got[ep] : GotOK(ep, r, b)'
      BY <2>1, <3>1, GotStays
    <3>3. QED
      BY <2>1, <3>1, <3>2 DEF TasksStay
  <2>4. RawOK(c, b)'
    BY <2>2, RawStays DEF BatchOK
  <2>5. AloneOK(c)'
    <3> SUFFICES ASSUME caller[c].fetching = {Robots}, NEW r \in caller[c].got[Robots],
                        ~Failed(r.value)
                 PROVE  \E t \in Time : t <= now /\ now <= t + TIMEOUT /\ Seen(Robots, r.value, t)'
      BY DEF AloneOK, Failed
    <3>1. PICK t \in Time : t <= now /\ now <= t + TIMEOUT /\ Seen(Robots, r.value, t)
      BY <1>2 DEF CallOK, AloneOK
    <3>2. r.value \in Value /\ Robots \in Endpoint /\ t \in Int
      BY <2>1, EndpointAssumption, Numbers DEF Reply
    <3>3. Seen(Robots, r.value, t)'
      BY <3>1, <3>2, SeenStays
    <3>4. QED
      BY <3>1, <3>3
  <2>6. PlanOK(c)'
    BY <1>2 DEF CallOK, PlanOK
  <2>7. BatchOK(c, b)'
    BY <2>2, <2>3, <2>4 DEF BatchOK
  <2>8. QED
    BY <1>2, <2>5, <2>6, <2>7 DEF CallOK
<1>3. QED
  BY <1>1, <1>2
LEMMA WorldStep == ASSUME TypeOK, failing <= now, [Next]_vars PROVE WorldMoves /\ crossed \subseteq crossed'
<1>1. /\ now \in Nat /\ failing \in Int /\ now' \in Time /\ failing' \in Time \cup {-1}
  <2>1. TypeOK'
    BY TypeStep
  <2>2. now \in Nat /\ failing \in Int
    BY Numbers DEF TypeOK
  <2>3. QED
    BY <2>1, <2>2 DEF TypeOK
<1>2. ASSUME UNCHANGED <<now, failing>>, crossed \subseteq crossed',
             UNCHANGED <<version, since>> \/ \E ep \in Endpoint : Publishes(ep)
      PROVE  WorldMoves /\ crossed \subseteq crossed'
  BY <1>1, <1>2 DEF WorldMoves
<1>3. CASE UNCHANGED vars
  BY <1>2, <1>3 DEF vars
<1>4. ASSUME NEW c \in Caller, Inspect(c) \/ Absorb(c) \/ Cancel(c) \/ GoOn(c)
      PROVE  WorldMoves /\ crossed \subseteq crossed'
  <2>1. UNCHANGED <<now, failing, version, since>> /\ crossed \subseteq crossed'
    BY <1>4 DEF Inspect, Absorb, Cancel, GoOn
  <2>2. QED
    BY <1>2, <2>1
<1>5. ASSUME NEW k \in Client, NEW ep \in Endpoint, FetchFails(k, ep)
      PROVE  WorldMoves /\ crossed \subseteq crossed'
  <2>1. /\ UNCHANGED <<now, version, since, crossed>>
        /\ failing' = now \/ failing' = failing
    BY <1>5 DEF FetchFails
  <2>2. QED
    BY <1>1, <2>1 DEF WorldMoves
<1>6. ASSUME NEW k \in Client, NEW ep \in Endpoint,
             Arrive(k, ep) \/ \E cc \in Directives[ep] : Answer(k, ep, cc)
      PROVE  WorldMoves /\ crossed \subseteq crossed'
  <2>1. UNCHANGED <<now, failing, version, since, crossed>>
    BY <1>6 DEF Arrive, Answer
  <2>2. QED
    BY <1>2, <2>1
<1>7. ASSUME NEW ep \in Endpoint, Publish(ep)
      PROVE  WorldMoves /\ crossed \subseteq crossed'
  <2>1. version[ep] + 1 \in Version(ep)
    <3>1. Says[ep] \in Seq(Content)
      BY EndpointAssumption
    <3>2. Len(Says[ep]) \in Nat
      BY <3>1
    <3>3. version[ep] \in Nat /\ version[ep] < Len(Says[ep])
      BY <1>7 DEF Publish, TypeOK
    <3>4. QED
      BY <3>2, <3>3 DEF Version
  <2>2. Publishes(ep) /\ UNCHANGED <<now, failing, crossed>>
    BY <1>7, <2>1 DEF Publish, Publishes
  <2>3. QED
    BY <1>2, <2>2
<1>8. CASE Tick
  <2>1. now' = now + 1 /\ UNCHANGED <<version, since, failing, crossed>>
    BY <1>8 DEF Tick
  <2>2. QED
    BY <1>1, <2>1 DEF WorldMoves
<1>9. CASE Restart
  <2>1. UNCHANGED <<now, failing, version, since, crossed>>
    BY <1>9 DEF Restart
  <2>2. QED
    BY <1>2, <2>1
<1>10. CASE Next
  BY <1>4, <1>5, <1>6, <1>7, <1>8, <1>9, <1>10 DEF Next
<1>11. QED
  BY <1>3, <1>10

-----------------------------------------------------------------------------
(* A call that begins to fetch, and one that ends.                         *)

LEMMA FetchBegins ==
  ASSUME TypeOK, WorldMoves, now' = now, TaskInv, NEW b \in Time, b = now,
         NEW c \in Caller, NEW raw \in [Endpoint -> SUBSET Value],
         NEW missing \in SUBSET Endpoint,
         NEW batch, batch = Batch(StopOf[c], raw, missing), batch # {},
         NEW q, Fetches(c, q, batch), q.raw = raw, q.missing = missing \ batch,
         \A ep \in Endpoint \ missing : raw[ep] # {},
         \A ep \in Endpoint \ crossed' : \A v \in raw[ep] : Had(ep, v, b, missing \ batch)
  PROVE  CallOK(c)'
<1> DEFINE k == ClientOf[c]
           left == missing \ batch
<1>1. /\ caller'[c] = q /\ q \in Call /\ q.stage = "fetch" /\ q.fetching = batch
      /\ q.got = Nothing
  BY DEF Fetches, TypeOK
<1>2. batch \subseteq missing /\ StopOf[c] \in BOOLEAN /\ k \in Client
  BY BatchIs, CallerAssumption
<1>3. /\ b \in Nat /\ b <= now' /\ now' <= b + TIMEOUT
  BY Numbers
<1>4. PlanOK(c)'
  <2>1. left # {} => StopOf[c] /\ batch = {Robots}
    BY <1>2, BatchIs
  <2>2. \A ep \in Endpoint \ (batch \cup left) : raw[ep] # {}
    BY <1>2
  <2>3. QED
    BY <1>1, <2>1, <2>2 DEF PlanOK
<1>5. \A ep \in Endpoint : q.got[ep] = {}
  BY <1>1 DEF Nothing
<1>6. AloneOK(c)'
  BY <1>1, <1>5, EndpointAssumption DEF AloneOK
<1>7. WaitOK(c, b)'
  <2> SUFFICES ASSUME NEW ep \in batch
               PROVE  /\ inflight'[k][ep] # {}
                      /\ \A t \in inflight'[k][ep] : b - TIMEOUT <= t.start /\ t.start <= b
    BY <1>1, <1>2, <1>5 DEF WaitOK
  <2>1. ep \in Endpoint
    BY <1>2
  <2>2. inflight'[k][ep] # {}
    BY <1>2, <2>1 DEF Fetches
  <2>3. CASE inflight[k][ep] # {}
    <3>1. inflight'[k][ep] = inflight[k][ep]
      BY <1>2, <2>1, <2>3 DEF Fetches
    <3>2. \A t \in inflight[k][ep] : t.start <= b /\ b <= t.start + TIMEOUT /\ t.start \in Nat
      BY <1>2, <2>1, Numbers DEF TaskInv, TypeOK, Task
    <3>3. QED
      BY <1>3, <2>2, <3>1, <3>2, Numbers
  <2>4. CASE inflight[k][ep] = {}
    <3>1. \A j \in Client, e \in Endpoint :
            inflight[j][e] = {} => \A t \in inflight'[j][e] : t.start = now /\ t.reply = {}
      BY DEF Fetches
    <3>2. \A t \in inflight'[k][ep] : t.start = now
      BY <1>2, <2>1, <2>4, <3>1
    <3>3. QED
      BY <1>3, <2>2, <3>2, Numbers
  <2>5. QED
    BY <2>3, <2>4
<1>8. RawOK(c, b)'
  <2>1. caller'[c].raw = raw /\ caller'[c].missing = left
    BY <1>1
  <2>2. ASSUME NEW ep \in Endpoint \ crossed', NEW v \in raw[ep]
        PROVE  Had(ep, v, b, left)'
    <3>1. Had(ep, v, b, left)
      BY <2>2
    <3>2. v \in Value
      BY <2>2
    <3> HIDE DEF left
    <3>3. QED
      BY <1>3, <3>1, <3>2, HadStays
  <2> HIDE DEF left
  <2>3. QED
    BY <2>1, <2>2 DEF RawOK
<1>9. BatchOK(c, b)'
  BY <1>3, <1>7, <1>8 DEF BatchOK
<1>10. QED
  BY <1>1, <1>4, <1>6, <1>9 DEF CallOK

LEMMA EndIs ==
  ASSUME TypeOK, NEW c \in Caller, NEW raw, Ends(c, raw)
  PROVE  /\ caller'[c].stage = Verdict(raw) /\ CallOK(c)'
<1>1. caller'[c] = [NoCall EXCEPT !.stage = Verdict(raw)]
  BY DEF Ends, TypeOK
<1>2. caller'[c].stage = Verdict(raw) /\ caller'[c].fetching = {}
  BY <1>1, NothingType DEF Call
<1>3. QED
  BY <1>2, VerdictType DEF CallOK
(* What the verdict of a call that ends now rests on: for robots.txt it may *)
(* have taken one fetch, for another file two.                             *)
Calls(ep) == IF ep = Robots THEN TIMEOUT ELSE 2 * TIMEOUT
FinalOK(ep, v) ==
  \/ Kept(ep, v, now + 1 - Calls(ep))
  \/ Directives[ep] # {} /\ Seen(ep, v, now - 2 * TIMEOUT)

LEMMA HadFinal ==
  ASSUME TypeOK, NEW ep \in Endpoint, NEW v \in Value, NEW b \in Time, now <= b + TIMEOUT,
         NEW left, Had(ep, v, b, left)
  PROVE  FinalOK(ep, v)
<1>1. /\ b \in Nat /\ now \in Nat /\ TIMEOUT \in Nat
      /\ Calls(ep) \in {TIMEOUT, 2 * TIMEOUT}
  BY Numbers DEF TypeOK, Calls
<1>2. now + 1 - Calls(ep) \in Int /\ now + 1 - Calls(ep) <= b + 1
  BY <1>1
<1>3. CASE Kept(ep, v, b + 1)
  BY <1>1, <1>2, <1>3, KeptWeaker DEF FinalOK
<1>4. CASE ep # Robots /\ Kept(ep, v, b + 1 - TIMEOUT)
  <2>1. now + 1 - Calls(ep) <= b + 1 - TIMEOUT /\ b + 1 - TIMEOUT \in Int
    BY <1>1, <1>4 DEF Calls
  <2>2. QED
    BY <1>2, <1>4, <2>1, KeptWeaker DEF FinalOK
<1>5. CASE Directives[ep] # {} /\ Seen(ep, v, b - TIMEOUT)
  <2>1. now - 2 * TIMEOUT <= b - TIMEOUT /\ b - TIMEOUT \in Int /\ now - 2 * TIMEOUT \in Int
    BY <1>1
  <2>2. QED
    BY <1>5, <2>1, SeenWeaker DEF FinalOK
<1>6. QED
  BY <1>3, <1>4, <1>5 DEF Had

LEMMA GotFinal ==
  ASSUME TypeOK, NEW ep \in Endpoint, NEW r \in Reply, NEW b \in Time, now <= b + TIMEOUT,
         GotOK(ep, r, b)
  PROVE  FinalOK(ep, r.value)
<1>1. b \in Nat /\ now \in Nat /\ TIMEOUT \in Nat /\ FAILURE_TTL \in Nat /\ failing \in Int
  BY Numbers DEF TypeOK
<1>2. r.value \in Value
  BY DEF Reply
<1>3. CASE Failed(r.value) /\ (ep = Robots => failing >= b)
  <2>1. ep = Robots => /\ failing >= 0
                       /\ now + 1 - Calls(ep) <= failing + TIMEOUT + FAILURE_TTL
    <3> SUFFICES ASSUME ep = Robots
                 PROVE  /\ failing >= 0
                        /\ now + 1 - TIMEOUT <= failing + TIMEOUT + FAILURE_TTL
      BY DEF Calls
    <3>1. FAILURE_TTL > 0 /\ failing >= b
      BY <1>3, Numbers
    <3>2. QED
      BY <1>1, <3>1
  <2>2. QED
    BY <1>3, <2>1 DEF FinalOK, Kept
<1>4. CASE ReplyOK(ep, r, b - TIMEOUT)
  <2>1. now - 2 * TIMEOUT <= b - TIMEOUT /\ b - TIMEOUT \in Int /\ now - 2 * TIMEOUT \in Int
    BY <1>1
  <2>2. Seen(ep, r.value, now - 2 * TIMEOUT)
    BY <1>2, <1>4, <2>1, SeenWeaker DEF ReplyOK
  <2>3. QED
    BY <1>4, <2>2 DEF FinalOK, ReplyOK
<1>5. QED
  BY <1>3, <1>4 DEF GotOK

LEMMA InspectRaw ==
  ASSUME TypeOK, EntryInv, NEW ep \in Endpoint, ep \notin crossed, NEW e \in Live(ep, now)
  PROVE  Kept(ep, e.value, now + 1) /\ e.value \in Value
<1>1. e \in Entry /\ e \in fresh[ep] /\ e.until > now
  BY DEF Live, TypeOK, CacheTypeOK
<1>2. e.value \in Value /\ e.until \in Int /\ now \in Nat
  BY <1>1, Numbers DEF Entry, TypeOK
<1>3. Kept(ep, e.value, e.until)
  BY <1>1 DEF EntryInv
<1>4. now + 1 <= e.until
  BY <1>1, <1>2
<1>5. QED
  BY <1>2, <1>3, <1>4, KeptWeaker

(* The value a call takes from an answer that was not crossed is the       *)
(* answer's.                                                               *)
LEMMA TakenUncrossed ==
  ASSUME TypeOK, NEW c \in Caller, Absorb(c), NEW ep \in caller[c].fetching, ep \notin crossed'
  PROVE  \E r \in caller[c].got[ep] :
           r \in Reply /\ DirectiveOf(c, ep) = r.cc /\ Taken(c, ep) = r.value
<1>1. /\ ep \in Endpoint /\ caller[c].got[ep] # {}
      /\ crossed' = crossed \cup
           {e \in caller[c].fetching :
              \E r \in caller[c].got[e] : r.same /\ Taken(c, e) # r.value}
  BY AbsorbIs
<1>2. \A r \in caller[c].got[ep] : ~r.same \/ Taken(c, ep) = r.value
  BY <1>1
<1>3. PICK r \in caller[c].got[ep] :
        /\ r \in Reply /\ DirectiveOf(c, ep) = r.cc
        /\ ~r.same \/ Taken(c, ep) = r.value => Taken(c, ep) = r.value
  BY <1>1, TakenIs
<1>4. QED
  BY <1>2, <1>3

LEMMA AbsorbRaw ==
  ASSUME TypeOK, LagInv, NEW c \in Caller, Absorb(c), NEW raw \in [Endpoint -> SUBSET Value],
         \A ep \in Endpoint :
           raw[ep] = IF ep \in caller[c].fetching THEN {Taken(c, ep)} ELSE caller[c].raw[ep],
         NEW batch, batch = Batch(StopOf[c], raw, caller[c].missing),
         NEW ep \in Endpoint, ep \notin crossed', NEW v \in raw[ep]
  PROVE  /\ FinalOK(ep, v)
         /\ batch # {} => Had(ep, v, now, caller[c].missing \ batch)
<1>1. caller[c].stage = "fetch" /\ ep \notin crossed /\ v \in Value
  BY AbsorbIs
<1>2. CallOK(c)
  BY DEF LagInv, CallInv
<1>3. PlanOK(c) /\ AloneOK(c)
  BY <1>1, <1>2 DEF CallOK
<1>4. PICK b \in Time : BatchOK(c, b)
  BY <1>1, <1>2 DEF CallOK
<1>5. b <= now /\ now <= b + TIMEOUT /\ WaitOK(c, b) /\ RawOK(c, b)
  BY <1>4 DEF BatchOK
<1>6. b \in Nat /\ now \in Nat /\ TIMEOUT \in Nat
  BY Numbers DEF TypeOK
<1>7. batch # {} =>
        /\ caller[c].missing # {} /\ caller[c].fetching = {Robots}
        /\ caller[c].missing \ batch = {}
        /\ ~robots_forbids(SiteOf(raw)[Robots])
  <2> SUFFICES ASSUME batch # {}
               PROVE  /\ caller[c].missing # {} /\ caller[c].fetching = {Robots}
                      /\ caller[c].missing \ batch = {}
                      /\ ~robots_forbids(SiteOf(raw)[Robots])
    OBVIOUS
  <2>1. caller[c].missing # {}
    BY DEF Batch
  <2>2. StopOf[c] /\ caller[c].fetching = {Robots} /\ Robots \notin caller[c].missing
    BY <1>3, <2>1 DEF PlanOK
  <2>3. QED
    BY <2>1, <2>2 DEF Batch
<1>8. CASE ep \in caller[c].fetching
  <2>1. PICK r \in caller[c].got[ep] :
          r \in Reply /\ DirectiveOf(c, ep) = r.cc /\ Taken(c, ep) = r.value
    BY <1>8, TakenUncrossed
  <2>2. v = r.value /\ GotOK(ep, r, b)
    BY <1>5, <1>8, <2>1 DEF WaitOK
  <2>3. FinalOK(ep, v)
    BY <1>5, <2>1, <2>2, GotFinal
  <2>4. ASSUME batch # {}
        PROVE  Had(ep, v, now, caller[c].missing \ batch)
    <3>1. ep = Robots /\ raw[Robots] = {v}
      BY <1>7, <1>8, <2>4
    <3>2. SiteOf(raw)[Robots] = v.says
      BY <3>1 DEF SiteOf
    <3>3. ~Failed(v)
      BY <1>7, <2>4, <3>2 DEF Failed, robots_forbids, RobotsForbid
    <3>4. Directives[ep] # {}
      BY <2>2, <3>3 DEF GotOK, ReplyOK
    <3>5. PICK t \in Time : t <= now /\ now <= t + TIMEOUT /\ Seen(Robots, v, t)
      BY <1>3, <1>7, <2>1, <2>2, <2>4, <3>1, <3>3 DEF AloneOK
    <3>6. t \in Int /\ now - TIMEOUT <= t /\ now - TIMEOUT \in Int
      BY <1>6, <3>5, Numbers
    <3>7. Seen(ep, v, now - TIMEOUT)
      BY <1>1, <3>1, <3>5, <3>6, SeenWeaker
    <3>8. QED
      BY <3>1, <3>4, <3>7 DEF Had
  <2>5. QED
    BY <2>3, <2>4
<1>9. CASE ep \notin caller[c].fetching
  <2>1. v \in caller[c].raw[ep]
    BY <1>9
  <2>2. Had(ep, v, b, caller[c].missing)
    BY <1>1, <1>5, <2>1 DEF RawOK
  <2>3. FinalOK(ep, v)
    BY <1>1, <1>5, <2>2, HadFinal
  <2>4. ASSUME batch # {}
        PROVE  Had(ep, v, now, caller[c].missing \ batch)
    <3>1. ep # Robots /\ caller[c].missing # {}
      BY <1>7, <1>9, <2>4
    <3>2. Kept(ep, v, b + 1)
      BY <2>2, <3>1 DEF Had
    <3>3. now + 1 - TIMEOUT <= b + 1 /\ now + 1 - TIMEOUT \in Int /\ b + 1 \in Int
      BY <1>5, <1>6
    <3>4. Kept(ep, v, now + 1 - TIMEOUT)
      BY <3>2, <3>3, KeptWeaker
    <3>5. QED
      BY <1>7, <2>4, <3>1, <3>4 DEF Had
  <2>5. QED
    BY <2>3, <2>4
<1>10. QED
  BY <1>8, <1>9
(* A call that inspects or absorbs goes on with all it need not fetch.     *)
Goes(c, raw, missing, batch) ==
  /\ raw \in [Endpoint -> SUBSET Value] /\ missing \in SUBSET Endpoint
  /\ batch = Batch(StopOf[c], raw, missing)
  /\ Moves(c, raw, missing, batch)
  /\ \A ep \in Endpoint \ missing : raw[ep] # {}
  /\ \A ep \in Endpoint \ crossed' : \A v \in raw[ep] :
       FinalOK(ep, v) /\ (batch # {} => Had(ep, v, now, missing \ batch))

LEMMA InspectGoes ==
  ASSUME TypeOK, LagInv, NEW c \in Caller, Inspect(c)
  PROVE  \E raw, missing, batch : Goes(c, raw, missing, batch)
<1> DEFINE raw == [ep \in Endpoint |-> {e.value : e \in Live(ep, now)}]
           missing == {ep \in Endpoint : raw[ep] = {}}
           batch == Batch(StopOf[c], raw, missing)
<1>1. Proceed(c, raw, missing, stale) /\ crossed' = crossed
  BY DEF Inspect
<1>2. raw \in [Endpoint -> SUBSET Value] /\ missing \in SUBSET Endpoint
  BY DEF TypeOK, CacheTypeOK, Entry, Live
<1>3. \A ep \in Endpoint : raw[ep] = {e.value : e \in Live(ep, now)}
  OBVIOUS
<1>4. \A ep \in Endpoint \ missing : raw[ep] # {}
  OBVIOUS
<1> HIDE DEF raw, missing, batch
<1>5. batch = Batch(StopOf[c], raw, missing)
  BY DEF batch
<1>6. stale \in [Endpoint -> SUBSET Known]
  BY DEF TypeOK, CacheTypeOK
<1>7. Moves(c, raw, missing, batch)
  BY <1>1, <1>2, <1>5, <1>6, ProceedIs
<1>8. ASSUME NEW ep \in Endpoint, ep \notin crossed', NEW v \in raw[ep]
      PROVE  FinalOK(ep, v) /\ Had(ep, v, now, missing \ batch)
  <2>1. PICK e \in Live(ep, now) : v = e.value
    BY <1>3
  <2>2. Kept(ep, v, now + 1) /\ v \in Value /\ ep \notin crossed
    BY <1>1, <1>8, <2>1, InspectRaw DEF LagInv
  <2>3. Had(ep, v, now, missing \ batch)
    BY <2>2 DEF Had
  <2>4. now \in Time /\ now \in Nat /\ now <= now + TIMEOUT
    BY Numbers DEF TypeOK
  <2>5. FinalOK(ep, v)
    BY <2>2, <2>3, <2>4, HadFinal
  <2>6. QED
    BY <2>3, <2>5
<1>9. Goes(c, raw, missing, batch)
  BY <1>2, <1>4, <1>5, <1>7, <1>8 DEF Goes
<1>10. QED
  BY <1>9

LEMMA AbsorbGoes ==
  ASSUME TypeOK, LagInv, NEW c \in Caller, Absorb(c)
  PROVE  \E raw, missing, batch : Goes(c, raw, missing, batch)
<1> DEFINE missing == caller[c].missing
<1>1. PICK raw \in [Endpoint -> SUBSET Value] :
        /\ \A ep \in Endpoint :
             raw[ep] = IF ep \in caller[c].fetching THEN {Taken(c, ep)} ELSE caller[c].raw[ep]
        /\ Proceed(c, raw, missing, stale')
  BY AbsorbIs
<1> DEFINE batch == Batch(StopOf[c], raw, missing)
<1>2. /\ missing \in SUBSET Endpoint /\ stale' \in [Endpoint -> SUBSET Known]
      /\ caller[c].stage = "fetch"
  BY AbsorbIs
<1>3. \A ep \in Endpoint \ missing : raw[ep] # {}
  <2>1. PlanOK(c)
    BY <1>2 DEF LagInv, CallInv, CallOK
  <2>2. QED
    BY <1>1, <2>1 DEF PlanOK
<1> HIDE DEF batch
<1>4. batch = Batch(StopOf[c], raw, missing)
  BY DEF batch
<1>5. Moves(c, raw, missing, batch)
  BY <1>1, <1>2, <1>4, ProceedIs
<1>6. \A ep \in Endpoint \ crossed' : \A v \in raw[ep] :
        FinalOK(ep, v) /\ (batch # {} => Had(ep, v, now, missing \ batch))
  BY <1>1, <1>4, AbsorbRaw
<1>7. Goes(c, raw, missing, batch)
  BY <1>1, <1>2, <1>3, <1>4, <1>5, <1>6 DEF Goes
<1>8. QED
  BY <1>7

(* What it may come to: its own call, the tasks and the other calls.       *)
LEMMA GoesOn ==
  ASSUME TypeOK, TypeOK', LagInv, WorldMoves, now' = now, crossed \subseteq crossed',
         NEW c \in Caller, NEW raw, NEW missing, NEW batch, Goes(c, raw, missing, batch)
  PROVE  TaskInv' /\ CallInv'
<1>1. \A k \in Client, ep \in Endpoint :
        /\ inflight[k][ep] # {} => inflight'[k][ep] = inflight[k][ep]
        /\ inflight[k][ep] = {} => \A t \in inflight'[k][ep] : t.start = now /\ t.reply = {}
  <2>1. CASE Ends(c, raw)
    BY <2>1 DEF Ends
  <2>2. ASSUME NEW q, Fetches(c, q, batch)
        PROVE  <1>1!:
    BY <2>2 DEF Fetches
  <2>3. QED
    BY <2>1, <2>2 DEF Goes, Moves
<1>2. \A d \in Caller \ {c} : caller'[d] = caller[d]
  BY DEF Goes, Moves, Ends, Fetches, TypeOK
<1>3. now \in Nat /\ now <= now + TIMEOUT
  BY Numbers DEF TypeOK
<1>4. TaskInv'
  <2>1. ASSUME NEW k \in Client, NEW ep \in Endpoint, NEW t \in inflight'[k][ep]
        PROVE  /\ t \in Task
               /\ t.start <= now' /\ now' <= t.start + TIMEOUT
               /\ \A r \in t.reply :
                    \/ \E u \in inflight[k][ep] : r \in u.reply /\ u.start = t.start
                    \/ ReplyOK(ep, r, t.start)'
    <3>1. t \in Task
      BY DEF TypeOK
    <3>2. CASE inflight[k][ep] # {}
      <4>1. t \in inflight[k][ep]
        BY <1>1, <3>2
      <4>2. t.start <= now /\ now <= t.start + TIMEOUT
        BY <4>1 DEF LagInv, TaskInv
      <4>3. QED
        BY <3>1, <4>1, <4>2
    <3>3. CASE inflight[k][ep] = {}
      BY <1>1, <1>3, <3>1, <3>3
    <3>4. QED
      BY <3>2, <3>3
  <2>2. QED
    BY <2>1, TaskStays DEF LagInv
<1>5. TasksStay
  BY <1>1 DEF TasksStay
<1>6. CallOK(c)'
  <2>1. CASE Ends(c, raw)
    BY <2>1, EndIs
  <2>2. ASSUME batch # {}, NEW q, Fetches(c, q, batch), q.raw = raw, q.missing = missing \ batch
        PROVE  CallOK(c)'
    <3>1. PICK b \in Time : b = now
      BY DEF TypeOK
    <3>2. /\ raw \in [Endpoint -> SUBSET Value] /\ missing \in SUBSET Endpoint
          /\ batch = Batch(StopOf[c], raw, missing)
          /\ \A ep \in Endpoint \ missing : raw[ep] # {}
          /\ \A ep \in Endpoint \ crossed' : \A v \in raw[ep] : Had(ep, v, b, missing \ batch)
      BY <2>2, <3>1 DEF Goes
    <3>3. TaskInv
      BY DEF LagInv
    <3>4. QED
      BY <2>2, <3>1, <3>2, <3>3, FetchBegins
  <2>3. QED
    BY <2>1, <2>2 DEF Goes, Moves
<1>7. ASSUME NEW d \in Caller, d # c
      PROVE  CallOK(d)'
  BY <1>2, <1>5, <1>7, CallStays DEF LagInv, CallInv
<1>8. QED
  BY <1>4, <1>6, <1>7 DEF CallInv
-----------------------------------------------------------------------------
(* The entries.                                                            *)

LEMMA PutKept ==
  ASSUME TypeOK, NEW ep \in Endpoint, NEW r \in Reply, NEW b \in Time,
         b <= now, now <= b + TIMEOUT, GotOK(ep, r, b), TimeToLive(r.value, r.cc) > 0
  PROVE  Kept(ep, r.value, now + TimeToLive(r.value, r.cc))
<1>1. b \in Nat /\ now \in Nat /\ TIMEOUT \in Nat /\ FAILURE_TTL \in Nat /\ failing \in Int
  BY Numbers DEF TypeOK
<1>2. r.value \in Value /\ r.cc \in CacheControl
  BY DEF Reply
<1>3. CASE Failed(r.value) /\ (ep = Robots => failing >= b)
  <2>1. TimeToLive(r.value, r.cc) = FAILURE_TTL
    BY <1>3 DEF Failed, IsFailure, TimeToLive
  <2>2. ep = Robots => /\ failing >= 0
                       /\ now + FAILURE_TTL <= failing + TIMEOUT + FAILURE_TTL
    BY <1>1, <1>3
  <2>3. QED
    BY <1>3, <2>1, <2>2 DEF Kept
<1>4. CASE ReplyOK(ep, r, b - TIMEOUT)
  <2>1. r.cc \in Directives[ep] /\ Seen(ep, r.value, b - TIMEOUT)
    BY <1>4 DEF ReplyOK
  <2>2. ~Failed(r.value)
    <3>1. Says[ep][r.value.version] \in Content
      BY <2>1, FileType DEF Seen
    <3>2. QED
      BY <2>1, <3>1 DEF Seen, Failed, Content
  <2>3. now - 2 * TIMEOUT <= b - TIMEOUT /\ b - TIMEOUT \in Int /\ now - 2 * TIMEOUT \in Int
    BY <1>1
  <2>4. Seen(ep, r.value, now - 2 * TIMEOUT)
    BY <1>2, <2>1, <2>3, SeenWeaker
  <2>5. TimeToLive(r.value, r.cc) = KeepOf(r.value, r.cc)
    BY DEF TimeToLive, KeepOf
  <2>6. now \in Time /\ now <= now
    BY <1>1 DEF TypeOK
  <2>7. KeepOf(r.value, r.cc) \in Nat
    <3>1. r.cc.ttl \in Nat
      BY <1>2 DEF CacheControl
    <3>2. QED
      BY <1>1, <3>1 DEF KeepOf
  <2>8. now + TimeToLive(r.value, r.cc) <= now + KeepOf(r.value, r.cc)
    BY <1>1, <2>5, <2>7
  <2>9. QED
    BY <2>1, <2>2, <2>4, <2>6, <2>8 DEF Kept
<1>5. QED
  BY <1>3, <1>4 DEF GotOK

LEMMA AbsorbEntries ==
  ASSUME TypeOK, LagInv, WorldMoves, NEW c \in Caller, Absorb(c)
  PROVE  EntryInv'
<1>1. /\ caller[c].stage = "fetch" /\ saved' = saved /\ crossed \subseteq crossed'
      /\ fresh' = [ep \in Endpoint |->
           IF ep \in caller[c].fetching
           THEN FreshAfter(ep, Taken(c, ep), DirectiveOf(c, ep), TagOf(c, ep), now)
           ELSE fresh[ep]]
  BY AbsorbIs
<1>2. CallOK(c) /\ EntryInv
  BY DEF LagInv, CallInv
<1>3. PICK b \in Time : BatchOK(c, b)
  BY <1>1, <1>2 DEF CallOK
<1>4. b <= now /\ now <= b + TIMEOUT /\ WaitOK(c, b)
  BY <1>3 DEF BatchOK
<1>5. ASSUME NEW ep \in Endpoint, ep \notin crossed', NEW e \in fresh[ep] \cup saved[ep],
             e \in fresh[ep] \/ e.until # 0
      PROVE  Kept(ep, e.value, e.until)'
  <2>1. Kept(ep, e.value, e.until)
    BY <1>1, <1>2, <1>5 DEF EntryInv
  <2>2. e.value \in Value /\ e.until \in Int
    BY DEF TypeOK, CacheTypeOK, Entry
  <2>3. QED
    BY <2>1, <2>2, KeptStays
<1>6. ASSUME NEW ep \in Endpoint, ep \notin crossed', NEW e \in fresh'[ep], e \notin fresh[ep]
      PROVE  Kept(ep, e.value, e.until)'
  <2>1. /\ ep \in caller[c].fetching
        /\ e \in FreshAfter(ep, Taken(c, ep), DirectiveOf(c, ep), TagOf(c, ep), now)
    BY <1>1, <1>6
  <2>2. PICK r \in caller[c].got[ep] :
          r \in Reply /\ DirectiveOf(c, ep) = r.cc /\ Taken(c, ep) = r.value
    BY <1>6, <2>1, TakenUncrossed
  <2>3. /\ TimeToLive(r.value, r.cc) > 0
        /\ e.value = r.value /\ e.until = now + TimeToLive(r.value, r.cc)
    BY <1>6, <2>1, <2>2 DEF FreshAfter
  <2>4. GotOK(ep, r, b)
    BY <1>4, <2>1, <2>2 DEF WaitOK
  <2>5. Kept(ep, e.value, e.until)
    BY <1>4, <2>2, <2>3, <2>4, PutKept
  <2>6. e.value \in Value /\ e.until \in Int
    <3>1. r.value \in Value /\ r.cc \in CacheControl
      BY <2>2 DEF Reply
    <3>2. r.cc.ttl \in Nat /\ now \in Nat
      BY <3>1, Numbers DEF CacheControl, TypeOK
    <3>3. TimeToLive(r.value, r.cc) \in Nat
      BY <3>2, Numbers DEF TimeToLive
    <3>4. QED
      BY <2>3, <3>1, <3>2, <3>3
  <2>7. QED
    BY <2>5, <2>6, KeptStays
<1>7. QED
  BY <1>1, <1>5, <1>6 DEF EntryInv

LEMMA EntryStep == ASSUME TypeOK, LagInv, WorldMoves, [Next]_vars PROVE EntryInv'
<1>1. ASSUME crossed \subseteq crossed',
             \A ep \in Endpoint : \A e \in fresh'[ep] :
               e \in fresh[ep] \/ (e \in saved[ep] /\ e.until # 0),
             \A ep \in Endpoint : \A e \in saved'[ep] :
               e \in saved[ep] \/ e \in fresh[ep] \/ e.until = 0
      PROVE  EntryInv'
  BY <1>1, EntryStays DEF LagInv
<1>2. CASE UNCHANGED <<fresh, saved, crossed>>
  BY <1>1, <1>2
<1>3. CASE \E c \in Caller : Absorb(c)
  BY <1>3, AbsorbEntries
<1>4. CASE \E c \in Caller : GoOn(c)
  <2>1. /\ fresh' = fresh /\ crossed' = crossed
        /\ saved' = saved \/ saved' = Dump(now)
    BY <1>4 DEF GoOn, Saved
  <2>2. \A ep \in Endpoint : \A e \in Dump(now)[ep] : e \in fresh[ep] \/ e.until = 0
    BY DEF Dump, Live
  <2>3. QED
    BY <1>1, <2>1, <2>2
<1>5. CASE Tick
  <2>1. /\ crossed' = crossed
        /\ \A ep \in Endpoint : fresh'[ep] \subseteq fresh[ep]
        /\ \A ep \in Endpoint : saved'[ep] \subseteq saved[ep]
    BY <1>5 DEF Tick, Expire, Live
  <2>2. QED
    BY <1>1, <2>1
<1>6. CASE Restart
  <2>1. /\ crossed' = crossed /\ saved' = saved
        /\ \A ep \in Endpoint : \A e \in fresh'[ep] : e \in saved[ep] /\ e.until > now
    BY <1>6 DEF Restart, Restore
  <2>2. now \in Nat
    BY Numbers DEF TypeOK
  <2>3. QED
    BY <1>1, <2>1, <2>2
<1>7. CASE UNCHANGED vars
  BY <1>2, <1>7 DEF vars, cacheVars
<1>8. ASSUME NEW c \in Caller, Inspect(c) \/ Cancel(c)
      PROVE  EntryInv'
  BY <1>2, <1>8 DEF Inspect, Cancel, cacheVars
<1>9. ASSUME NEW k \in Client, NEW ep \in Endpoint,
             Arrive(k, ep) \/ FetchFails(k, ep) \/ \E cc \in Directives[ep] : Answer(k, ep, cc)
      PROVE  EntryInv'
  BY <1>2, <1>9 DEF Arrive, FetchFails, Answer, cacheVars
<1>10. CASE \E ep \in Endpoint : Publish(ep)
  BY <1>2, <1>10 DEF Publish, cacheVars
<1>11. QED
  BY <1>3, <1>4, <1>5, <1>6, <1>7, <1>8, <1>9, <1>10 DEF Next
-----------------------------------------------------------------------------
(* The tasks that end, and the other steps.                                *)

LEMMA EndAnswers ==
  ASSUME TypeOK, TypeOK', LagInv, WorldMoves, now' = now, crossed \subseteq crossed',
         NEW k \in Client, NEW ep \in Endpoint, NEW r \in Reply, EndTask(k, ep, r),
         \/ \E t \in inflight[k][ep] : r \in t.reply
         \/ r = NoReply /\ (ep = Robots => failing' = now)
  PROVE  TaskInv' /\ CallInv'
<1>1. /\ \A d \in Caller :
           /\ caller'[d].stage = caller[d].stage /\ caller'[d].raw = caller[d].raw
           /\ caller'[d].missing = caller[d].missing
           /\ caller'[d].fetching = caller[d].fetching
           /\ \A e \in Endpoint : caller'[d].got[e] =
                IF e = ep /\ Waits(d, k, ep) THEN {r} ELSE caller[d].got[e]
      /\ \A j \in Client, e \in Endpoint :
           inflight'[j][e] = IF j = k /\ e = ep THEN {} ELSE inflight[j][e]
  <2>1. Ended(k, ep, r)
    BY EndTaskIs
  <2>2. QED
    BY <2>1 DEF Ended
<1>2. TaskInv /\ CallInv
  BY DEF LagInv
<1>3. TaskInv'
  <2>1. ASSUME NEW j \in Client, NEW e \in Endpoint, NEW t \in inflight'[j][e]
        PROVE  /\ t \in Task /\ t \in inflight[j][e]
               /\ t.start <= now' /\ now' <= t.start + TIMEOUT
    <3>1. t \in inflight[j][e]
      BY <1>1
    <3>2. t \in Task
      BY <3>1 DEF TypeOK
    <3>3. t.start <= now /\ now <= t.start + TIMEOUT
      BY <1>2, <3>1 DEF TaskInv
    <3>4. QED
      BY <3>1, <3>2, <3>3
  <2>2. QED
    BY <1>2, <2>1, TaskStays
<1>4. ASSUME NEW d \in Caller
      PROVE  CallOK(d)'
  <2>1. CASE caller[d].stage # "fetch"
    BY <1>1, <1>2, <2>1 DEF CallInv, CallOK
  <2>2. CASE caller[d].stage = "fetch"
    <3>1. /\ caller[d].fetching \subseteq Endpoint /\ ClientOf[d] \in Client
          /\ \A e \in Endpoint : caller[d].got[e] \subseteq Reply
      BY CallerAssumption DEF TypeOK, Call
    <3>2. PlanOK(d) /\ AloneOK(d)
      BY <1>2, <2>2 DEF CallInv, CallOK
    <3>3. PICK b \in Time : BatchOK(d, b)
      BY <1>2, <2>2 DEF CallInv, CallOK
    <3>4. b <= now /\ now <= b + TIMEOUT /\ WaitOK(d, b) /\ RawOK(d, b)
      BY <3>3 DEF BatchOK
    <3>5. b \in Nat /\ now \in Nat /\ TIMEOUT \in Nat /\ b - TIMEOUT \in Int
      BY Numbers DEF TypeOK
    <3>6. r.value \in Value
      BY DEF Reply
    <3>7. ASSUME Waits(d, k, ep)
          PROVE  GotOK(ep, r, b)'
      <4>1. CASE r = NoReply /\ (ep = Robots => failing' = now)
        BY <3>4, <4>1, NothingType DEF GotOK, Failed
      <4>2. ASSUME NEW t \in inflight[k][ep], r \in t.reply
            PROVE  GotOK(ep, r, b)'
        <5>1. t \in Task /\ t.start \in Int
          BY Numbers DEF TypeOK, Task
        <5>2. ReplyOK(ep, r, t.start)
          BY <1>2, <4>2 DEF TaskInv
        <5>3. b - TIMEOUT <= t.start
          BY <3>4, <3>7 DEF Waits, WaitOK
        <5>4. ReplyOK(ep, r, b - TIMEOUT)
          BY <3>5, <3>6, <5>1, <5>2, <5>3, SeenWeaker DEF ReplyOK
        <5>5. b - TIMEOUT <= now
          BY <3>4, <3>5
        <5>6. ReplyOK(ep, r, b - TIMEOUT)'
          BY <3>5, <5>4, <5>5, ReplyStays
        <5>7. QED
          BY <5>6 DEF GotOK
      <4>3. QED
        BY <4>1, <4>2
    <3>8. WaitOK(d, b)'
      <4> SUFFICES ASSUME NEW e \in caller[d].fetching
                   PROVE  /\ caller'[d].got[e] = {} =>
                               /\ inflight'[ClientOf[d]][e] # {}
                               /\ \A t \in inflight'[ClientOf[d]][e] :
                                    b - TIMEOUT <= t.start /\ t.start <= b
                          /\ \A s \in caller'[d].got[e] : GotOK(e, s, b)'
        BY <1>1 DEF WaitOK
      <4>1. e \in Endpoint
        BY <3>1
      <4>2. CASE e = ep /\ Waits(d, k, ep)
        BY <1>1, <3>7, <4>2
      <4>3. CASE ~(e = ep /\ Waits(d, k, ep))
        <5>1. caller'[d].got[e] = caller[d].got[e]
          BY <1>1, <4>1, <4>3
        <5>2. \A s \in caller[d].got[e] : GotOK(e, s, b)'
          BY <3>1, <3>4, <4>1, GotStays DEF WaitOK
        <5>3. caller[d].got[e] = {} => inflight'[ClientOf[d]][e] = inflight[ClientOf[d]][e]
          BY <1>1, <3>1, <4>1, <4>3 DEF Waits
        <5>4. QED
          BY <3>4, <5>1, <5>2, <5>3 DEF WaitOK
      <4>4. QED
        BY <4>2, <4>3
    <3>9. RawOK(d, b)'
      BY <1>1, <3>4, RawStays
    <3>10. AloneOK(d)'
      <4> SUFFICES ASSUME caller[d].fetching = {Robots}, NEW s \in caller'[d].got[Robots],
                          ~Failed(s.value)
                   PROVE  \E t \in Time :
                            t <= now /\ now <= t + TIMEOUT /\ Seen(Robots, s.value, t)'
        BY <1>1 DEF AloneOK, Failed
      <4>1. Robots \in Endpoint
        BY EndpointAssumption
      <4>2. CASE s \in caller[d].got[Robots]
        <5>1. PICK t \in Time : t <= now /\ now <= t + TIMEOUT /\ Seen(Robots, s.value, t)
          BY <3>2, <4>2 DEF AloneOK
        <5>2. s.value \in Value /\ t \in Int
          BY <3>1, <4>1, <4>2, Numbers DEF Reply
        <5>3. Seen(Robots, s.value, t)'
          BY <4>1, <5>1, <5>2, SeenStays
        <5>4. QED
          BY <5>1, <5>3
      <4>3. CASE s \notin caller[d].got[Robots]
        <5>1. s = r /\ ep = Robots
          BY <1>1, <4>1, <4>3
        <5>2. PICK t \in inflight[k][ep] : r \in t.reply
          BY <5>1, NothingType DEF Failed
        <5>3. t \in Task /\ t.start \in Time /\ t.start \in Int
          BY Numbers DEF TypeOK, Task
        <5>4. t.start <= now /\ now <= t.start + TIMEOUT /\ Seen(Robots, s.value, t.start)
          BY <1>2, <5>1, <5>2 DEF TaskInv, ReplyOK
        <5>5. Seen(Robots, s.value, t.start)'
          BY <3>6, <4>1, <5>1, <5>3, <5>4, SeenStays
        <5>6. QED
          BY <5>3, <5>4, <5>5
      <4>4. QED
        BY <4>2, <4>3
    <3>11. PlanOK(d)'
      BY <1>1, <3>2 DEF PlanOK
    <3>12. BatchOK(d, b)'
      BY <3>4, <3>8, <3>9 DEF BatchOK
    <3>13. QED
      BY <1>1, <2>2, <3>10, <3>11, <3>12 DEF CallOK
  <2>3. QED
    BY <2>1, <2>2
<1>5. QED
  BY <1>3, <1>4 DEF CallInv

LEMMA EndStep ==
  ASSUME TypeOK, TypeOK', LagInv, WorldMoves,
         NEW k \in Client, NEW ep \in Endpoint, Arrive(k, ep) \/ FetchFails(k, ep)
  PROVE  TaskInv' /\ CallInv'
<1>1. now' = now /\ crossed \subseteq crossed'
  BY DEF Arrive, FetchFails
<1>2. CASE Arrive(k, ep)
  <2>1. PICK t \in inflight[k][ep] : \E r \in t.reply : EndTask(k, ep, r)
    BY <1>2 DEF Arrive
  <2>2. t.reply \subseteq Reply
    BY DEF TypeOK, Task
  <2>3. QED
    BY <1>1, <2>1, <2>2, EndAnswers
<1>3. CASE FetchFails(k, ep)
  <2>1. EndTask(k, ep, NoReply) /\ (ep = Robots => failing' = now)
    BY <1>3 DEF FetchFails
  <2>2. QED
    BY <1>1, <2>1, NothingType, EndAnswers
<1>4. QED
  BY <1>2, <1>3

LEMMA AnswerStep ==
  ASSUME TypeOK, TypeOK', LagInv, WorldMoves,
         NEW k \in Client, NEW ep \in Endpoint, NEW cc \in Directives[ep], Answer(k, ep, cc)
  PROVE  TaskInv' /\ CallInv'
<1>1. PICK t, r :
        /\ t \in inflight[k][ep]
        /\ r.cc = cc /\ r.value = File(ep, version[ep])
        /\ inflight' = [inflight EXCEPT ![k][ep] = {[t EXCEPT !.reply = {r}]}]
  <2> DEFINE tag == IF ep \in Tagged THEN version[ep] ELSE NoTag
             reply(t) == [same |-> tag # NoTag /\ tag = t.tag, value |-> File(ep, version[ep]),
                          tag |-> tag, cc |-> cc]
  <2>1. PICK t \in inflight[k][ep] :
          inflight' = [inflight EXCEPT ![k][ep] = {[t EXCEPT !.reply = {reply(t)}]}]
    BY DEF Answer
  <2>2. reply(t).cc = cc /\ reply(t).value = File(ep, version[ep])
    OBVIOUS
  <2> HIDE DEF reply
  <2>3. QED
    BY <2>1, <2>2
<1>2. t \in Task
  BY <1>1 DEF TypeOK
<1>3. PICK u : u = [t EXCEPT !.reply = {r}]
  OBVIOUS
<1>4. u.reply = {r} /\ u.start = t.start
  BY <1>2, <1>3 DEF Task
<1>5. inflight' = [inflight EXCEPT ![k][ep] = {u}]
  BY <1>1, <1>3
<1>6. \A j \in Client, e \in Endpoint :
        inflight'[j][e] = IF j = k /\ e = ep THEN {u} ELSE inflight[j][e]
  BY <1>5 DEF TypeOK
<1>7. UNCHANGED <<now, version, since, crossed, caller>> /\ TaskInv
  BY DEF Answer, LagInv
<1>8. ReplyOK(ep, r, u.start)'
  <2>1. /\ version[ep] \in Version(ep) /\ version[ep] \in Nat
        /\ File(ep, version[ep]).version = version[ep]
        /\ File(ep, version[ep]).says = Says[ep][version[ep]]
    BY FileType DEF TypeOK
  <2>2. QED
    BY <1>1, <1>7, <2>1 DEF ReplyOK, Seen
<1>9. t.start <= now /\ now <= t.start + TIMEOUT
  BY <1>1, <1>7 DEF TaskInv
<1>10. TaskInv'
  <2>1. ASSUME NEW j \in Client, NEW e \in Endpoint, NEW s \in inflight'[j][e]
        PROVE  /\ s \in Task
               /\ s.start <= now' /\ now' <= s.start + TIMEOUT
               /\ \A a \in s.reply :
                    \/ \E w \in inflight[j][e] : a \in w.reply /\ w.start = s.start
                    \/ ReplyOK(e, a, s.start)'
    <3>1. s \in Task
      BY DEF TypeOK
    <3>2. CASE j = k /\ e = ep
      <4>1. s = u
        BY <1>6, <3>2
      <4>2. \A a \in s.reply : ReplyOK(e, a, s.start)'
        BY <1>4, <1>8, <3>2, <4>1
      <4>3. s.start <= now' /\ now' <= s.start + TIMEOUT
        BY <1>4, <1>7, <1>9, <4>1
      <4>4. QED
        BY <3>1, <4>2, <4>3
    <3>3. CASE ~(j = k /\ e = ep)
      <4>1. s \in inflight[j][e]
        BY <1>6, <3>3
      <4>2. s.start <= now /\ now <= s.start + TIMEOUT
        BY <1>7, <4>1 DEF TaskInv
      <4>3. QED
        BY <1>7, <3>1, <4>1, <4>2
    <3>4. QED
      BY <3>2, <3>3
  <2>2. QED
    BY <1>7, <2>1, TaskStays
<1>11. TasksStay
  BY <1>1, <1>4, <1>6 DEF TasksStay
<1>12. CallInv'
  <2>1. ASSUME NEW d \in Caller
        PROVE  CallOK(d)'
    BY <1>7, <1>11, CallStays DEF LagInv, CallInv
  <2>2. QED
    BY <2>1 DEF CallInv
<1>13. QED
  BY <1>10, <1>12
LEMMA TickStep == ASSUME TypeOK, TypeOK', LagInv, WorldMoves, Tick PROVE TaskInv' /\ CallInv'
<1>1. /\ now' = now + 1 /\ UNCHANGED <<version, since, failing, inflight, caller, crossed>>
      /\ \A k \in Client, ep \in Endpoint : \A t \in inflight[k][ep] : now < t.start + TIMEOUT
      /\ \A c \in Caller : caller[c].stage = "fetch" =>
           \E ep \in caller[c].fetching : caller[c].got[ep] = {}
  BY DEF Tick
<1>2. TaskInv /\ CallInv
  BY DEF LagInv
<1>3. now \in Nat /\ TIMEOUT \in Nat
  BY Numbers DEF TypeOK
<1>4. TaskInv'
  <2>1. ASSUME NEW k \in Client, NEW ep \in Endpoint, NEW t \in inflight'[k][ep]
        PROVE  /\ t \in Task /\ t \in inflight[k][ep]
               /\ t.start <= now' /\ now' <= t.start + TIMEOUT
    <3>1. t \in inflight[k][ep]
      BY <1>1
    <3>2. t \in Task
      BY <3>1 DEF TypeOK
    <3>3. t.start \in Nat
      BY <3>2, Numbers DEF Task
    <3>4. t.start <= now /\ now < t.start + TIMEOUT
      BY <1>1, <1>2, <3>1 DEF TaskInv
    <3>5. QED
      BY <1>1, <1>3, <3>1, <3>2, <3>3, <3>4
  <2>2. QED
    BY <1>2, <2>1, TaskStays
<1>5. ASSUME NEW c \in Caller
      PROVE  CallOK(c)'
  <2>1. CASE caller[c].stage # "fetch"
    BY <1>1, <1>2, <2>1 DEF CallInv, CallOK
  <2>2. CASE caller[c].stage = "fetch"
    <3>1. /\ caller[c].fetching \subseteq Endpoint /\ ClientOf[c] \in Client
          /\ \A e \in Endpoint : caller[c].got[e] \subseteq Reply
      BY CallerAssumption DEF TypeOK, Call
    <3>2. PlanOK(c)
      BY <1>2, <2>2 DEF CallInv, CallOK
    <3>3. PICK b \in Time : BatchOK(c, b)
      BY <1>2, <2>2 DEF CallInv, CallOK
    <3>4. b <= now /\ now <= b + TIMEOUT /\ WaitOK(c, b) /\ RawOK(c, b) /\ b \in Nat
      BY <3>3, Numbers DEF BatchOK
    <3>5. PICK ep \in caller[c].fetching : caller[c].got[ep] = {}
      BY <1>1, <2>2
    <3>6. PICK t \in inflight[ClientOf[c]][ep] : t.start <= b
      BY <3>4, <3>5 DEF WaitOK
    <3>7. now < t.start + TIMEOUT /\ t.start \in Nat
      <4>1. ep \in Endpoint
        BY <3>1
      <4>2. t \in Task
        BY <3>1, <4>1 DEF TypeOK
      <4>3. QED
        BY <1>1, <3>1, <4>1, <4>2, Numbers DEF Task
    <3>8. b <= now' /\ now' <= b + TIMEOUT
      BY <1>1, <1>3, <3>4, <3>6, <3>7
    <3>9. WaitOK(c, b)'
      <4>1. \A e \in caller[c].fetching : \A r \in caller[c].got[e] : GotOK(e, r, b)'
        BY <3>1, <3>4, GotStays DEF WaitOK
      <4>2. QED
        BY <1>1, <3>4, <4>1 DEF WaitOK
    <3>10. RawOK(c, b)'
      BY <1>1, <3>4, RawStays
    <3>11. AloneOK(c)'
      BY <1>1, <3>5 DEF AloneOK
    <3>12. PlanOK(c)'
      BY <1>1, <3>2 DEF PlanOK
    <3>13. BatchOK(c, b)'
      BY <3>8, <3>9, <3>10 DEF BatchOK
    <3>14. QED
      BY <1>1, <2>2, <3>11, <3>12, <3>13 DEF CallOK
  <2>3. QED
    BY <2>1, <2>2
<1>6. QED
  BY <1>4, <1>5 DEF CallInv

(* A step that leaves the tasks alone, and ends a call or leaves it alone. *)
LEMMA QuietStep ==
  ASSUME TypeOK, TypeOK', LagInv, WorldMoves, now' = now, crossed \subseteq crossed',
         inflight' = inflight, \A c \in Caller : caller'[c] \in {caller[c], NoCall}
  PROVE  TaskInv' /\ CallInv'
<1>1. TaskInv /\ CallInv
  BY DEF LagInv
<1>2. TaskInv'
  <2>1. ASSUME NEW k \in Client, NEW ep \in Endpoint, NEW t \in inflight'[k][ep]
        PROVE  /\ t \in Task /\ t \in inflight[k][ep]
               /\ t.start <= now' /\ now' <= t.start + TIMEOUT
    <3>1. t \in inflight[k][ep] /\ t \in Task
      BY DEF TypeOK
    <3>2. t.start <= now /\ now <= t.start + TIMEOUT
      BY <1>1, <3>1 DEF TaskInv
    <3>3. QED
      BY <3>1, <3>2
  <2>2. QED
    BY <1>1, <2>1, TaskStays
<1>3. TasksStay
  BY DEF TasksStay
<1>4. ASSUME NEW c \in Caller
      PROVE  CallOK(c)'
  <2>1. CASE caller'[c] = NoCall
    BY <2>1, NothingType DEF CallOK
  <2>2. CASE caller'[c] = caller[c]
    BY <1>1, <1>3, <2>2, CallStays DEF CallInv
  <2>3. QED
    BY <2>1, <2>2
<1>5. QED
  BY <1>2, <1>4 DEF CallInv

LEMMA LagStep == TypeOK /\ LagInv /\ [Next]_vars => LagInv'
<1> SUFFICES ASSUME TypeOK, LagInv, [Next]_vars PROVE LagInv'
  OBVIOUS
<1>1. TypeOK'
  BY TypeStep
<1>2. WorldMoves /\ crossed \subseteq crossed'
  BY WorldStep DEF LagInv
<1>3. EntryInv' /\ failing' <= now'
  BY <1>2, EntryStep DEF WorldMoves
<1> SUFFICES TaskInv' /\ CallInv'
  BY <1>3 DEF LagInv
<1>4. ASSUME NEW c \in Caller, Inspect(c) \/ Absorb(c)
      PROVE  TaskInv' /\ CallInv'
  <2>1. PICK raw, missing, batch : Goes(c, raw, missing, batch)
    BY <1>4, InspectGoes, AbsorbGoes
  <2>2. now' = now
    BY <1>4 DEF Inspect, Absorb
  <2>3. QED
    BY <1>1, <1>2, <2>1, <2>2, GoesOn
<1>5. ASSUME NEW c \in Caller, Cancel(c) \/ GoOn(c)
      PROVE  TaskInv' /\ CallInv'
  <2>1. /\ now' = now /\ inflight' = inflight
        /\ \A d \in Caller : caller'[d] \in {caller[d], NoCall}
    BY <1>5 DEF Cancel, GoOn, TypeOK
  <2>2. QED
    BY <1>1, <1>2, <2>1, QuietStep
<1>6. ASSUME NEW k \in Client, NEW ep \in Endpoint,
             Arrive(k, ep) \/ FetchFails(k, ep) \/ \E cc \in Directives[ep] : Answer(k, ep, cc)
      PROVE  TaskInv' /\ CallInv'
  BY <1>1, <1>2, <1>6, EndStep, AnswerStep
<1>7. ASSUME NEW ep \in Endpoint, Publish(ep)
      PROVE  TaskInv' /\ CallInv'
  <2>1. now' = now /\ inflight' = inflight /\ caller' = caller
    BY <1>7 DEF Publish
  <2>2. QED
    BY <1>1, <1>2, <2>1, QuietStep
<1>8. CASE Tick
  BY <1>1, <1>2, <1>8, TickStep
<1>9. CASE Restart
  <2>1. /\ \A k \in Client, ep \in Endpoint : inflight'[k][ep] = {}
        /\ \A c \in Caller : caller'[c] = NoCall
    BY <1>9 DEF Restart, Nothing
  <2>2. TaskInv'
    BY <2>1 DEF TaskInv
  <2>3. \A c \in Caller : CallOK(c)'
    BY <2>1, NothingType DEF CallOK
  <2>4. QED
    BY <2>2, <2>3 DEF CallInv
<1>10. CASE UNCHANGED vars
  <2>1. now' = now /\ inflight' = inflight /\ caller' = caller
    BY <1>10 DEF vars
  <2>2. QED
    BY <1>1, <1>2, <2>1, QuietStep
<1>11. QED
  BY <1>4, <1>5, <1>6, <1>7, <1>8, <1>9, <1>10 DEF Next

LEMMA LagInit == Init => LagInv
<1> SUFFICES ASSUME Init PROVE LagInv
  OBVIOUS
<1>1. failing <= now
  BY DEF Init
<1>2. EntryInv
  BY DEF Init, CacheInit, EntryInv
<1>3. TaskInv
  BY DEF Init, Nothing, TaskInv
<1>4. CallInv
  BY NothingType DEF Init, CallInv, CallOK
<1>5. QED
  BY <1>1, <1>2, <1>3, <1>4 DEF LagInv

LEMMA LagAlways == Spec => [](TypeOK /\ LagInv)
BY TypeInit, TypeStep, LagInit, LagStep, PTL DEF Spec
-----------------------------------------------------------------------------
(* What the age of the values says of a verdict.                           *)

(* A version that no other had replaced before t was last said at t or     *)
(* later.                                                                  *)
LEMMA SeenSaid ==
  ASSUME TypeOK, NEW ep \in Endpoint, NEW v \in Value, NEW t \in Int, t <= now, Seen(ep, v, t)
  PROVE  /\ v.version \in Version(ep) /\ Says[ep][v.version] = v.says
         /\ LastSaid(ep, v.version) \in Nat /\ t <= LastSaid(ep, v.version)
<1>1. v.version \in Version(ep) /\ v.version <= version[ep] /\ Says[ep][v.version] = v.says
  BY DEF Seen
<1>2. v.version \in Nat /\ version[ep] \in Nat /\ now \in Nat
  BY Numbers DEF TypeOK, Value
<1>3. CASE v.version = version[ep]
  BY <1>1, <1>2, <1>3 DEF LastSaid
<1>4. CASE v.version < version[ep]
  <2>1. v.version + 1 \in Version(ep)
    <3>1. version[ep] \in Version(ep)
      BY DEF TypeOK
    <3>2. Says[ep] \in Seq(Content)
      BY EndpointAssumption
    <3>3. Len(Says[ep]) \in Nat
      BY <3>2
    <3>4. QED
      BY <1>2, <1>4, <3>1, <3>3 DEF Version
  <2>2. since[ep][v.version + 1] \in Nat
    BY <2>1, Numbers DEF TypeOK
  <2>3. LastSaid(ep, v.version) = since[ep][v.version + 1]
    BY <1>2, <1>4 DEF LastSaid
  <2>4. QED
    BY <1>1, <1>4, <2>2, <2>3 DEF Seen
<1>5. QED
  BY <1>1, <1>2, <1>3, <1>4

LEMMA FinalSaid ==
  ASSUME TypeOK, NEW ep \in Endpoint, NEW v \in Value, FinalOK(ep, v), ~Failed(v)
  PROVE  /\ v.version \in Version(ep) /\ Says[ep][v.version] = v.says
         /\ SaidRecently(ep, v.version)
<1>1. now \in Nat /\ TIMEOUT \in Nat /\ TIMEOUT > 0 /\ FAILURE_TTL \in Nat
  BY Numbers DEF TypeOK
<1>2. /\ Calls(ep) \in Nat /\ Lag(ep) = Calls(ep) + 2 * TIMEOUT
      /\ Lag(ep) > 2 * TIMEOUT
  BY <1>1 DEF Calls, Lag
<1>3. \A cc \in Directives[ep] : KeepOf(v, cc) \in Nat
  <2> SUFFICES ASSUME NEW cc \in Directives[ep]
               PROVE  KeepOf(v, cc) \in Nat
    OBVIOUS
  <2>1. cc.ttl \in Nat
    BY DirectiveAssumption DEF CacheControl
  <2>2. QED
    BY <1>1, <2>1 DEF KeepOf
<1>4. CASE Kept(ep, v, now + 1 - Calls(ep))
  <2>1. PICK a \in Time, cc \in Directives[ep] :
          /\ a <= now /\ now + 1 - Calls(ep) <= a + KeepOf(v, cc)
          /\ Seen(ep, v, a - 2 * TIMEOUT)
    BY <1>4 DEF Kept
  <2>2. a \in Nat /\ a - 2 * TIMEOUT \in Int /\ a - 2 * TIMEOUT <= now
    BY <1>1, <2>1, Numbers
  <2>3. /\ v.version \in Version(ep) /\ Says[ep][v.version] = v.says
        /\ LastSaid(ep, v.version) \in Nat /\ a - 2 * TIMEOUT <= LastSaid(ep, v.version)
    BY <2>1, <2>2, SeenSaid
  <2>4. KeepFor(ep, v.version, cc) = KeepOf(v, cc)
    BY <2>3 DEF KeepFor, KeepOf, File, IsFailure
  <2>5. now < LastSaid(ep, v.version) + KeepOf(v, cc) + Lag(ep)
    <3>1. KeepOf(v, cc) \in Nat
      BY <1>3
    <3>2. QED
      BY <1>1, <1>2, <2>1, <2>2, <2>3, <3>1
  <2>6. QED
    BY <2>3, <2>4, <2>5 DEF SaidRecently
<1>5. CASE Directives[ep] # {} /\ Seen(ep, v, now - 2 * TIMEOUT)
  <2>1. PICK cc \in Directives[ep] : TRUE
    BY <1>5
  <2>2. now - 2 * TIMEOUT \in Int /\ now - 2 * TIMEOUT <= now
    BY <1>1
  <2>3. /\ v.version \in Version(ep) /\ Says[ep][v.version] = v.says
        /\ LastSaid(ep, v.version) \in Nat /\ now - 2 * TIMEOUT <= LastSaid(ep, v.version)
    BY <1>5, <2>2, SeenSaid
  <2>4. KeepFor(ep, v.version, cc) = KeepOf(v, cc)
    BY <2>3 DEF KeepFor, KeepOf, File, IsFailure
  <2>5. now < LastSaid(ep, v.version) + KeepOf(v, cc) + Lag(ep)
    <3>1. KeepOf(v, cc) \in Nat /\ Lag(ep) \in Nat
      BY <1>1, <1>2, <1>3
    <3>2. QED
      BY <1>1, <1>2, <2>3, <3>1
  <2>6. QED
    BY <2>3, <2>4, <2>5 DEF SaidRecently
<1>6. QED
  BY <1>4, <1>5 DEF FinalOK

LEMMA FinalFailure ==
  ASSUME TypeOK, NEW v \in Value, FinalOK(Robots, v), Failed(v)
  PROVE  failing >= 0 /\ now < failing + FAILURE_TTL + 2 * TIMEOUT
<1>1. now \in Nat /\ TIMEOUT \in Nat /\ FAILURE_TTL \in Nat /\ failing \in Int
  BY Numbers DEF TypeOK
<1>2. ~Seen(Robots, v, now - 2 * TIMEOUT)
  <2> SUFFICES ASSUME Seen(Robots, v, now - 2 * TIMEOUT)
               PROVE  FALSE
    OBVIOUS
  <2>1. v.version \in Version(Robots) /\ v.says = Says[Robots][v.version]
    BY DEF Seen
  <2>2. Says[Robots][v.version] \in Content
    BY <2>1, FileType, EndpointAssumption
  <2>3. QED
    BY <2>1, <2>2 DEF Failed, Content
<1>3. Kept(Robots, v, now + 1 - TIMEOUT)
  BY <1>2 DEF FinalOK, Calls
<1>4. failing >= 0 /\ now + 1 - TIMEOUT <= failing + TIMEOUT + FAILURE_TTL
  BY <1>3 DEF Kept
<1>5. QED
  BY <1>1, <1>4

LEMMA ConcludesIs ==
  ASSUME TypeOK, LagInv, [Next]_vars, NEW c \in Caller, Concludes(c)
  PROVE  \E raw, missing : Goes(c, raw, missing, {}) /\ caller'[c].stage = Verdict(raw)
<1>1. caller'[c].stage # caller[c].stage /\ caller'[c].stage \notin {"none", "fetch"}
  BY DEF Concludes, Judged
<1>2. caller' # caller /\ caller'[c] # NoCall
  BY <1>1, NothingType
<1>3. ASSUME NEW d \in Caller, Inspect(d) \/ Absorb(d)
      PROVE  \E raw, missing : Goes(c, raw, missing, {}) /\ caller'[c].stage = Verdict(raw)
  <2>1. PICK raw, missing, batch : Goes(d, raw, missing, batch)
    BY <1>3, InspectGoes, AbsorbGoes
  <2>2. d = c
    BY <1>1, <2>1 DEF Goes, Moves, Ends, Fetches, TypeOK
  <2>3. ~\E q : Fetches(c, q, batch)
    BY <1>1 DEF Fetches, TypeOK
  <2>4. batch = {} /\ Ends(c, raw)
    BY <2>1, <2>2, <2>3 DEF Goes, Moves
  <2>5. caller'[c].stage = Verdict(raw)
    BY <2>4, EndIs
  <2>6. QED
    BY <2>1, <2>2, <2>4, <2>5
<1>4. ASSUME NEW d \in Caller, Cancel(d) \/ GoOn(d)
      PROVE  FALSE
  BY <1>1, <1>2, <1>4 DEF Cancel, GoOn, TypeOK
<1>5. ASSUME NEW k \in Client, NEW ep \in Endpoint, Arrive(k, ep) \/ FetchFails(k, ep)
      PROVE  FALSE
  <2>1. PICK r \in Reply : EndTask(k, ep, r)
    <3>1. CASE Arrive(k, ep)
      <4>1. PICK t \in inflight[k][ep] : \E r \in t.reply : EndTask(k, ep, r)
        BY <3>1 DEF Arrive
      <4>2. t.reply \subseteq Reply
        BY DEF TypeOK, Task
      <4>3. QED
        BY <4>1, <4>2
    <3>2. CASE FetchFails(k, ep)
      BY <3>2, NothingType DEF FetchFails
    <3>3. QED
      BY <1>5, <3>1, <3>2
  <2>2. Ended(k, ep, r)
    BY <2>1, EndTaskIs
  <2>3. QED
    BY <1>1, <2>2 DEF Ended
<1>6. ASSUME NEW k \in Client, NEW ep \in Endpoint, NEW cc \in Directives[ep], Answer(k, ep, cc)
      PROVE  FALSE
  BY <1>2, <1>6 DEF Answer
<1>7. ASSUME NEW ep \in Endpoint, Publish(ep)
      PROVE  FALSE
  BY <1>2, <1>7 DEF Publish
<1>8. ~Tick
  BY <1>2 DEF Tick
<1>9. ~Restart
  BY <1>2 DEF Restart
<1>10. ~UNCHANGED vars
  BY <1>2 DEF vars
<1>11. QED
  BY <1>3, <1>4, <1>5, <1>6, <1>7, <1>8, <1>9, <1>10 DEF Next

(* What a call that ends says of an endpoint it rests on.                  *)
LEMMA SiteIs ==
  ASSUME NEW raw \in [Endpoint -> SUBSET Value], NEW ep \in Endpoint
  PROVE  SiteOf(raw)[ep] = "none" \/ \E v \in raw[ep] : v \in Value /\ SiteOf(raw)[ep] = v.says
BY DEF SiteOf

(* Whoever waits for a file waits for a task that is under way, for any    *)
(* number of calls and clients: a task ends, is cancelled with the process *)
(* or fails only together with all the waits for it                        *)
(* (inspector.py:314-333).                                                 *)
THEOREM NobodyIsForgotten == Spec => []NobodyForgotten
<1>1. TypeOK /\ LagInv => NobodyForgotten
  <2> SUFFICES ASSUME LagInv, NEW c \in Caller, NEW ep \in caller[c].fetching,
                      caller[c].got[ep] = {}
               PROVE  inflight[ClientOf[c]][ep] # {}
    BY DEF NobodyForgotten
  <2>1. CallOK(c)
    BY DEF LagInv, CallInv
  <2>2. PICK b \in Time : BatchOK(c, b)
    BY <2>1 DEF CallOK
  <2>3. QED
    BY <2>2 DEF BatchOK, WaitOK
<1>2. QED
  BY <1>1, LagAlways, PTL

(* A site is only taken to allow a visit by what each endpoint said until  *)
(* a moment ago, and which did not object: for any number of endpoints, of *)
(* tasks that share fetches, and any Cache-Control the origin sends        *)
(* (inspector.py:428-461, 493-565, verdict.py:89-214).                     *)
THEOREM AllowedRecently == Spec => AllowedByRecentFiles
<1>1. ASSUME TypeOK, LagInv, [Next]_vars, NEW c \in Caller, Concludes(c),
             caller'[c].stage = "allowed", NEW ep \in Endpoint, ep \notin crossed'
      PROVE  \E v \in Version(ep) : ~Objects(ep, Says[ep][v]) /\ SaidRecently(ep, v)
  <2>1. PICK raw, missing : Goes(c, raw, missing, {}) /\ caller'[c].stage = Verdict(raw)
    BY <1>1, ConcludesIs
  <2>2. /\ raw \in [Endpoint -> SUBSET Value] /\ missing \in SUBSET Endpoint
        /\ {} = Batch(StopOf[c], raw, missing)
        /\ \A e \in Endpoint \ missing : raw[e] # {}
        /\ \A v \in raw[ep] : FinalOK(ep, v)
    BY <1>1, <2>1 DEF Goes
  <2>3. /\ ~RobotsForbid(SiteOf(raw)[Robots]) /\ RobotsClean(SiteOf(raw)[Robots])
        /\ ~Partial(SiteOf(raw))
        /\ \A e \in DOMAIN SiteOf(raw) \ {Robots} : SiteOf(raw)[e] # "restricts"
    BY <1>1, <2>1 DEF Verdict, compute_verdict
  <2>4. missing = {}
    <3>1. StopOf[c] \in BOOLEAN
      BY CallerAssumption
    <3>2. missing = {} \/ robots_forbids(SiteOf(raw)[Robots])
      BY <2>2, <3>1, BatchIs
    <3>3. QED
      BY <2>3, <3>2 DEF robots_forbids
  <2>5. raw[ep] # {}
    BY <2>2, <2>4
  <2>6. PICK v \in raw[ep] : SiteOf(raw)[ep] = v.says
    BY <2>5 DEF SiteOf
  <2>7. v.says \notin {"failed", "garbled", "odd"} /\ v \in Value
    BY <2>2, <2>3, <2>6 DEF Partial, SiteOf
  <2>8. ~Objects(ep, v.says)
    BY <2>3, <2>6, <2>7 DEF Objects, SiteOf
  <2>9. /\ v.version \in Version(ep) /\ Says[ep][v.version] = v.says
        /\ SaidRecently(ep, v.version)
    BY <1>1, <2>2, <2>7, FinalSaid DEF Failed
  <2>10. QED
    BY <2>8, <2>9
<1>2. TypeOK /\ LagInv /\ [Next]_vars =>
        [\A c \in Caller : Concludes(c) /\ caller'[c].stage = "allowed" =>
           \A ep \in Endpoint \ crossed' : \E v \in Version(ep) :
             ~Objects(ep, Says[ep][v]) /\ SaidRecently(ep, v)]_vars
  BY <1>1
<1>3. QED
  BY <1>2, LagAlways, PTL DEF Spec, AllowedByRecentFiles

(* A site is only avoided by what robots.txt said until a moment ago, or   *)
(* by a failure to get it a moment ago, for any number of endpoints and of *)
(* tasks that share fetches (inspector.py:504-529).                        *)
THEOREM ForbiddenRecently == Spec => ForbiddenForAReason
<1>1. ASSUME TypeOK, LagInv, [Next]_vars, NEW c \in Caller, Concludes(c),
             caller'[c].stage = "forbidden", Robots \notin crossed'
      PROVE  \/ \E v \in Version(Robots) :
                  RobotsForbid(Says[Robots][v]) /\ SaidRecently(Robots, v)
             \/ failing >= 0 /\ now < failing + FAILURE_TTL + 2 * TIMEOUT
  <2>1. PICK raw, missing : Goes(c, raw, missing, {}) /\ caller'[c].stage = Verdict(raw)
    BY <1>1, ConcludesIs
  <2>2. /\ raw \in [Endpoint -> SUBSET Value]
        /\ \A v \in raw[Robots] : FinalOK(Robots, v)
    BY <1>1, <2>1, EndpointAssumption DEF Goes
  <2>3. RobotsForbid(SiteOf(raw)[Robots])
    BY <1>1, <2>1 DEF Verdict, compute_verdict
  <2>4. PICK v \in raw[Robots] : v \in Value /\ SiteOf(raw)[Robots] = v.says
    BY <2>2, <2>3, SiteIs, EndpointAssumption DEF RobotsForbid
  <2>5. CASE Failed(v)
    BY <1>1, <2>2, <2>4, <2>5, FinalFailure
  <2>6. CASE ~Failed(v)
    <3>1. /\ v.version \in Version(Robots) /\ Says[Robots][v.version] = v.says
          /\ SaidRecently(Robots, v.version)
      BY <1>1, <2>2, <2>4, <2>6, FinalSaid, EndpointAssumption
    <3>2. QED
      BY <2>3, <2>4, <3>1
  <2>7. QED
    BY <2>5, <2>6
<1>2. TypeOK /\ LagInv /\ [Next]_vars =>
        [\A c \in Caller : Concludes(c) /\ caller'[c].stage = "forbidden" =>
           \/ \E v \in Version(Robots) : RobotsForbid(Says[Robots][v]) /\ SaidRecently(Robots, v)
           \/ Robots \in crossed'
           \/ failing >= 0 /\ now < failing + FAILURE_TTL + 2 * TIMEOUT]_vars
  BY <1>1
<1>3. QED
  BY <1>2, LagAlways, PTL DEF Spec, ForbiddenForAReason

=============================================================================
